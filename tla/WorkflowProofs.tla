--------------------------- MODULE WorkflowProofs ---------------------------
(***************************************************************************)
(* Proofs about Workflow, for any plans, any number of items, lives and    *)
(* faults, and any size of the pool.                                       *)
(***************************************************************************)
EXTENDS Workflow, FiniteSetTheorems, TLAPS

(* One unit, one worker, as records.                                       *)
UnitStatuses == {"absent", "queued", "running", "completed", "failed", "cancelled", "interrupted"}
Ends == {"completed", "failed", "cancelled", "interrupted"}
WorkerPcs == {"none", "ready", "beginning", "begun", "establishing", "running", "ending"}
Trees == Tree \cup {NoTree}
UnitRecords == [status : UnitStatuses, attempts : 0..MaxLives, tree : Trees,
                told : {"no", "maybe", "yes"}]
Workers == [pc : WorkerPcs, tree : Trees, keep : Trees, ends : Ends, again : BOOLEAN]
Indexed(f) == f = [s \in Steps |-> f[s]]

Typed ==
    /\ TypeOK
    /\ Indexed(logical) /\ Indexed(outputs)
    /\ \A d \in {saved, base} : Indexed(d.steps) /\ Indexed(d.outputs)
    /\ slots = [i \in 0..MaxItems |-> slots[i]]
    /\ next \in 1..(MaxItems + 1) /\ life \in 0..MaxLives
    /\ work \in [Unit -> Workers]
    /\ faults \in Nat /\ crashes \in Nat /\ reopened \in Nat

Busy == {"top", "one", "expand", "pool", "collect"}
Entered == {"one", "expand", "pool"}

(* Where the call is, where its workers are, and which units there are.    *)
Placed ==
    /\ life = 0 => /\ call = "off" /\ status = "none"
                   /\ \A u \in Unit : unit[u] = Absent
                   /\ \A s \in Steps : items[s] = Unexpanded
                   /\ step = 1 /\ previous = Unknown /\ reopened = 0 /\ alive = {}
                   /\ \A s \in Steps : logical[s] = "queued" /\ outputs[s] = Unknown
    /\ life # 0 => /\ \A u \in Units : unit[u].status # "absent"
                   /\ \A u \in Unit \ Units : unit[u] = Absent
    /\ call # "off" => status = "running"
    /\ call \in Entered \cup {"collect"} => step \in Steps
    /\ call = "one" => plan[step] \in {"single", "sequential"}
    /\ call \in {"expand", "collect"} => plan[step] = "fanout"
    /\ call = "pool" => \/ plan[step] = "parallel"
                        \/ plan[step] = "fanout" /\ items[step] \in 1..MaxItems
    /\ \A u \in Unit : work[u].pc = "none" => work[u] = Idle
    /\ \A u \in Unit : work[u].pc # "none" =>
          /\ u \in Units /\ u[1] = step
          /\ \/ call = "one" /\ u[2] = 0
             \/ call = "pool" /\ u[2] \in 1..Count /\ u[2] < next

(* The steps before are done, and so is what counts as completed; what is  *)
(* entered is not completed.                                               *)
Ordered ==
    /\ call \in Busy => \A s \in 1..(step - 1) : StepDone(s)
    /\ call # "off" => \A s \in Steps :
          plan[s] # "parallel" /\ logical[s] = "completed" => StepDone(s)
    /\ call \in Entered /\ plan[step] # "parallel" => logical[step] = "running"
    /\ call = "collect" => logical[step] = "completed"
    /\ call = "finish" /\ outcome = "ok" =>
          \A s \in Steps : plan[s] = "fanout" => items[s] # Unexpanded
    /\ status = "completed" => \A s \in Steps : StepDone(s)

(* A unit that may be taken is not completed.                              *)
Offered ==
    /\ call \in Busy => \A s \in Steps :
          s > step \/ (s = step /\ call = "top") =>
             /\ plan[s] = "single" => unit[<<s, 0>>].status # "completed"
             /\ plan[s] = "sequential" /\ unit[<<s, 0>>].status = "completed" =>
                   logical[s] = "completed"
    /\ call = "pool" => \A i \in 1..Count :
          slots[i] = "completed" <=> unit[<<step, i>>].status = "completed"
    /\ \A u \in Unit : work[u].pc # "none" => unit[u].status # "completed"

(* Who is completed was told its task.                                     *)
Told ==
    /\ \A u \in Unit : unit[u].status = "completed" => unit[u].told = "yes"
    /\ \A u \in Unit : work[u].pc = "running" => unit[u].told = "yes"
    /\ \A u \in Unit : work[u].pc = "ending" /\ work[u].ends = "completed" => unit[u].told = "yes"
    /\ reopened # 0 => /\ \A s \in Steps : plan[s] = "fanout" => items[s] # Unexpanded
                       /\ \A u \in Units : unit[u].told = "yes"

(* As long as no completed run was opened again, an answer that is kept is *)
(* the one on record.                                                      *)
Current(steps, answers) ==
    \A s \in Steps :
        /\ answers[s] # Unknown => StepDone(s) /\ answers[s] = Answers(s)
        /\ plan[s] \in {"sequential", "fanout"} /\ steps[s] = "completed" => answers[s] # Unknown
Held ==
    /\ Current(saved.steps, saved.outputs)
    /\ Current(base.steps, base.outputs)
    /\ call # "off" => Current([s \in Steps |-> IF call = "collect" /\ s = step THEN "running"
                                                 ELSE logical[s]], outputs)
    /\ call \in Busy /\ step > 1 => previous = Answers(step - 1)
Valued == reopened = 0 => Held

(* A run whose writes all succeeded.                                       *)
AtWork == {"begun", "establishing", "running", "ending"}
Settled == faults = 0 =>
    /\ \A u \in alive : work[u].pc \in {"establishing", "running"}
    /\ call # "off" \/ status \notin {"none", "running"} =>
          \A u \in Unit : unit[u].status = "running" => work[u].pc \in AtWork

(* A unit that was not begun in this life.                                 *)
Fresh(u) == \/ u[1] > step /\ call \in Busy
            \/ u[1] = step /\ call \in {"top", "expand"}
            \/ u[1] = step /\ call = "pool" /\ u[2] >= next
            \/ work[u].pc \in {"ready", "beginning"}
Begins ==
    /\ \A u \in Unit : unit[u].attempts <= life
    /\ \A u \in Unit : unit[u].tree # NoTree => unit[u].tree[2] <= life
    /\ \A u \in Unit : work[u].tree # NoTree => work[u].tree[2] <= life
    /\ \A u \in Unit : work[u].keep # NoTree => work[u].keep[2] <= life
    /\ \A u \in Unit : Fresh(u) =>
          /\ unit[u].attempts < life
          /\ unit[u].tree # NoTree => unit[u].tree[2] < life

(* The worktree of a worker, and the one on record.                        *)
Owned(u, t) == t # NoTree => Isolates(u) /\ t[1] = u
WithTree == {"beginning", "begun", "establishing", "running"}
TreeOf(u) ==
    LET w == work[u]
        on == unit[u].tree
    IN  /\ Owned(u, on) /\ Owned(u, w.tree) /\ Owned(u, w.keep)
        /\ w.pc = "ready" => w.tree = NoTree
        /\ w.pc \in WithTree /\ Isolates(u) => w.tree # NoTree
        /\ w.pc = "beginning" /\ on # NoTree => w.tree = on
        /\ w.pc = "beginning" /\ on = NoTree /\ w.tree # NoTree => w.tree = <<u, life>>
        /\ w.pc \in {"begun", "establishing", "running"} => w.tree = on
        /\ w.pc = "ending" /\ w.again => w.tree = on
        /\ u \in alive /\ w.tree # NoTree => w.tree = on
        /\ u \in alive /\ Isolates(u) =>
              /\ on # NoTree
              /\ w.pc = "begun" => on[2] < life
              /\ w.pc = "ending" => w.keep # NoTree
        /\ w.pc = "ending" /\ on # NoTree => (tree[on] = "none" \/ w.keep = on)
TreesOwned == \A u \in Unit : TreeOf(u)
WorkedOnRecord == \A t \in Tree : tree[t] = "worked" => unit[t[1]].tree = t

Exists(t) == t # NoTree => tree[t] # "none"
TreesThere == faults = 0 /\ crashes = 0 => \A u \in Unit :
    /\ work[u].pc \in {"none", "ready"} => Exists(unit[u].tree)
    /\ work[u].pc \in WithTree => Exists(work[u].tree)
    /\ work[u].pc = "ending" => Exists(work[u].keep)


IInv == /\ Typed /\ Placed /\ Ordered /\ Offered /\ Told /\ Valued /\ Settled /\ Begins
TreesInv == TreesOwned /\ WorkedOnRecord /\ TreesThere

-----------------------------------------------------------------------------
(* Plans and units.                                                        *)
LEMMA PlanFacts ==
    ASSUME plan \in Plans
    PROVE  /\ Len(plan) \in Nat /\ Len(plan) <= MaxSteps
           /\ MaxSteps \in Nat /\ MaxItems \in Nat \ {0} /\ MaxLives \in Nat \ {0}
           /\ DOMAIN plan = Steps
<1>1. plan \in Seq(Kinds) /\ Len(plan) <= MaxSteps
  BY WorkflowAssumption
<1> QED
  BY <1>1, WorkflowAssumption DEF Steps

LEMMA StepFacts ==
    ASSUME plan \in Plans, NEW s \in Steps
    PROVE  /\ s \in Nat /\ 1 <= s /\ s <= Len(plan)
           /\ plan[s] \in Kinds
           /\ plan[s] \in {"single", "parallel"} => Len(plan) = 1 /\ s = 1
           /\ \A i \in 0..MaxItems : <<s, i>> \in Unit
<1>1. plan \in Seq(Kinds) /\ Len(plan) <= MaxSteps
  BY WorkflowAssumption
<1>2. plan[s] \in {"single", "parallel"} => Len(plan) = 1
  BY PlanFacts, WorkflowAssumption
<1>3. s \in Nat /\ 1 <= s /\ s <= Len(plan) /\ plan[s] \in Kinds
  BY <1>1 DEF Steps
<1> QED
  BY <1>1, <1>2, <1>3, PlanFacts DEF Unit

LEMMA ItemFacts ==
    ASSUME plan \in Plans, items \in [Steps -> 0..Unexpanded], NEW s \in Steps
    PROVE  /\ plan[s] \in {"single", "sequential"} => ItemsOf(s) = {0}
           /\ plan[s] = "parallel" => ItemsOf(s) = 1..MaxItems
           /\ plan[s] = "fanout" /\ items[s] = Unexpanded => ItemsOf(s) = {}
           /\ plan[s] = "fanout" /\ items[s] # Unexpanded =>
                 ItemsOf(s) = 1..items[s] /\ items[s] \in 0..MaxItems
           /\ ItemsOf(s) \subseteq 0..MaxItems
           /\ \A i \in ItemsOf(s) : <<s, i>> \in Units
<1>1. plan[s] \in Kinds /\ MaxItems \in Nat \ {0}
  BY PlanFacts, StepFacts
<1>0. items[s] \in 0..Unexpanded
  OBVIOUS
<1>2. /\ plan[s] \in {"single", "sequential"} => ItemsOf(s) = {0}
      /\ plan[s] = "parallel" => ItemsOf(s) = 1..MaxItems
      /\ plan[s] = "fanout" /\ items[s] = Unexpanded => ItemsOf(s) = {}
      /\ plan[s] = "fanout" /\ items[s] # Unexpanded => ItemsOf(s) = 1..items[s]
  BY <1>1 DEF ItemsOf, Kinds
<1>3. items[s] # Unexpanded => items[s] \in 0..MaxItems
  BY <1>0, <1>1 DEF Unexpanded
<1>4. ItemsOf(s) \subseteq 0..MaxItems
  BY <1>1, <1>2, <1>3 DEF Kinds
<1>5. \A i \in ItemsOf(s) : <<s, i>> \in Units
  BY <1>4, StepFacts DEF Units
<1> QED
  BY <1>2, <1>3, <1>4, <1>5

LEMMA UnitFacts ==
    ASSUME plan \in Plans, items \in [Steps -> 0..Unexpanded], NEW u \in Unit
    PROVE  /\ u = <<u[1], u[2]>> /\ u[1] \in Nat /\ u[2] \in 0..MaxItems
           /\ u \in Units <=> u[1] \in Steps /\ u[2] \in ItemsOf(u[1])
BY PlanFacts DEF Unit, Units

(* What is on record of a step stays while no completed unit changes.      *)
LEMMA DoneStays ==
    ASSUME plan \in Plans, items \in [Steps -> 0..Unexpanded], plan' = plan,
           NEW s \in Steps, items'[s] = items[s], StepDone(s),
           \A u \in Units : u[1] = s /\ unit[u].status = "completed" => unit'[u] = unit[u]
    PROVE  StepDone(s)' /\ Answers(s)' = Answers(s)
<1>1. ItemsOf(s)' = ItemsOf(s)
  BY DEF ItemsOf, Unexpanded
<1>2. \A i \in ItemsOf(s) : unit'[<<s, i>>] = unit[<<s, i>>]
  BY ItemFacts DEF StepDone
<1>3. StepDone(s)'
  BY <1>1, <1>2 DEF StepDone, Unexpanded
<1>4. CASE plan[s] \in {"single", "sequential"}
  <2>1. unit'[<<s, 0>>].attempts = unit[<<s, 0>>].attempts
    BY <1>2, <1>4, ItemFacts
  <2> QED
    BY <1>3, <1>4, <2>1 DEF Answers
<1>5. CASE plan[s] \notin {"single", "sequential"}
  <2>1. \A i \in 1..Cardinality(ItemsOf(s)) : i \in ItemsOf(s)
    <3>1. \E n \in 0..MaxItems : ItemsOf(s) = 1..n
      <4>1. plan[s] \in {"fanout", "parallel"} /\ MaxItems \in 0..MaxItems
        BY <1>5, PlanFacts, StepFacts DEF Kinds
      <4>2. CASE plan[s] = "parallel"
        BY <4>1, <4>2, ItemFacts
      <4>3. CASE plan[s] = "fanout"
        BY <4>3, ItemFacts DEF StepDone
      <4> QED
        BY <4>1, <4>2, <4>3
    <3>3. PICK n \in 0..MaxItems : ItemsOf(s) = 1..n
      BY <3>1
    <3>2. Cardinality(1..n) = n
      BY <3>3, PlanFacts, FS_Interval
    <3> QED
      BY <3>3, <3>2
  <2>2. \A i \in 1..Cardinality(ItemsOf(s)) : unit'[<<s, i>>].attempts = unit[<<s, i>>].attempts
    BY <2>1, <1>2
  <2> QED
    BY <1>1, <1>3, <1>5, <2>2 DEF Answers
<1> QED
  BY <1>4, <1>5


-----------------------------------------------------------------------------
(* What a worker does between its start and its end.                       *)
LEMMA TypesKnown ==
    ASSUME Typed
    PROVE  /\ plan \in Plans /\ items \in [Steps -> 0..Unexpanded]
           /\ unit \in [Unit -> UnitRecords] /\ work \in [Unit -> Workers]
           /\ tree \in [Tree -> {"none", "clean", "worked"}] /\ alive \subseteq Unit
           /\ life \in 0..MaxLives /\ next \in 1..(MaxItems + 1)
           /\ step \in 1..(Len(plan) + 1)
           /\ \A u \in Unit : work[u].pc \in WorkerPcs
<1>1. /\ plan \in Plans /\ items \in [Steps -> 0..Unexpanded]
      /\ work \in [Unit -> Workers]
      /\ tree \in [Tree -> {"none", "clean", "worked"}] /\ alive \subseteq Unit
      /\ life \in 0..MaxLives /\ next \in 1..(MaxItems + 1)
      /\ step \in 1..(Len(plan) + 1)
  BY DEF Typed, TypeOK
<1>2. unit \in [Unit -> UnitRecords]
  BY DEF Typed, TypeOK, UnitRecords, UnitStatuses, Trees
<1>3. \A u \in Unit : work[u].pc \in WorkerPcs
  BY <1>1 DEF Workers
<1> QED
  BY <1>1, <1>2, <1>3

(* Nothing that a step looks at changes for the steps but for a unit that  *)
(* is not completed before or after.                                       *)
LEMMA RecordsStay ==
    ASSUME Typed, plan' = plan, items' = items,
           \A u \in Units : unit'[u] = unit[u]
                            \/ (unit[u].status # "completed" /\ unit'[u].status # "completed")
    PROVE  /\ Steps' = Steps /\ Units' = Units
           /\ \A s \in Steps : /\ ItemsOf(s)' = ItemsOf(s)
                               /\ StepDone(s)' <=> StepDone(s)
                               /\ StepDone(s) => Answers(s)' = Answers(s)
<1>1. Steps' = Steps /\ \A s : ItemsOf(s)' = ItemsOf(s)
  BY DEF Steps, ItemsOf, Unexpanded
<1>2. Units' = Units
  BY <1>1 DEF Units, Unit
<1>3. ASSUME NEW s \in Steps PROVE StepDone(s)' <=> StepDone(s)
  <2>1. \A i \in ItemsOf(s) : unit'[<<s, i>>].status = "completed" <=> unit[<<s, i>>].status = "completed"
    BY TypesKnown, ItemFacts
  <2> QED
    BY <1>1, <2>1 DEF StepDone, Unexpanded
<1>4. ASSUME NEW s \in Steps, StepDone(s) PROVE Answers(s)' = Answers(s)
  BY <1>4, TypesKnown, DoneStays
<1> QED
  BY <1>1, <1>2, <1>3, <1>4

(* Nor does what is kept of the answers.                                   *)
LEMMA CurrentStays ==
    ASSUME Typed, Ordered, plan' = plan, Steps' = Steps,
           \A s \in Steps : StepDone(s) => StepDone(s)' /\ Answers(s)' = Answers(s),
           UNCHANGED <<saved, base, call, logical, outputs, previous, step>>
    PROVE  Held => Held'
<1>1. ASSUME NEW steps, NEW answers, NEW steps1, NEW answers1, steps1 = steps, answers1 = answers,
             Current(steps, answers)
      PROVE  \A s \in Steps' :
                /\ answers1[s] # Unknown' => StepDone(s)' /\ answers1[s] = Answers(s)'
                /\ plan'[s] \in {"sequential", "fanout"} /\ steps1[s] = "completed" =>
                      answers1[s] # Unknown'
  BY <1>1 DEF Current, Unknown
<1>2. ASSUME Current(saved.steps, saved.outputs) PROVE Current(saved.steps, saved.outputs)'
  BY <1>1, <1>2 DEF Current
<1>3. ASSUME Current(base.steps, base.outputs) PROVE Current(base.steps, base.outputs)'
  BY <1>1, <1>3 DEF Current
<1>4. ASSUME call # "off" => Current([s \in Steps |-> IF call = "collect" /\ s = step THEN "running"
                                                 ELSE logical[s]], outputs)
      PROVE (call # "off" => Current([s \in Steps |-> IF call = "collect" /\ s = step THEN "running"
                                                 ELSE logical[s]], outputs))'
  BY <1>1, <1>4 DEF Current
<1>5. ASSUME call \in Busy, step > 1, previous = Answers(step - 1)
      PROVE  previous' = Answers(step - 1)'
  <2>1. step - 1 \in Steps /\ step - 1 \in 1..(step - 1)
    BY <1>5, TypesKnown, PlanFacts DEF Steps
  <2>2. StepDone(step - 1)
    BY <2>1, <1>5 DEF Ordered
  <2> QED
    BY <1>5, <2>1, <2>2
<1> QED
  BY <1>2, <1>3, <1>4, <1>5 DEF Held, Busy

WorkerMoves(u, w, r) ==
    /\ w \in Workers /\ w.pc # "none" /\ work' = [work EXCEPT ![u] = w]
    /\ r \in UnitRecords /\ unit' = [unit EXCEPT ![u] = r]
    /\ r.status \notin {"completed", "absent"}
    /\ unit[u].told = "yes" => r.told = "yes"
    /\ w.pc = "running" => r.told = "yes"
    /\ w.pc = "ending" /\ w.ends = "completed" => r.told = "yes"
    /\ UNCHANGED <<plan, items, status, saved, main, pool, session, life, reopened>>
    /\ faults' \in Nat /\ crashes' \in Nat
    /\ tree' \in [Tree -> {"none", "clean", "worked"}] /\ alive' \subseteq Unit
    /\ faults' = 0 => /\ faults = 0
                      /\ alive' \subseteq alive \cup {u}
                      /\ u \in alive' => w.pc \in {"establishing", "running"}
                      /\ r.status = "running" => w.pc \in AtWork
    /\ r.attempts <= life
    /\ r.tree # NoTree => r.tree[2] <= life
    /\ w.tree # NoTree => w.tree[2] <= life
    /\ w.keep # NoTree => w.keep[2] <= life
    /\ w.pc \in {"ready", "beginning"} => /\ r.attempts < life
                                          /\ r.tree # NoTree => r.tree[2] < life

LEMMA WorkerKeeps ==
    ASSUME IInv, NEW u \in Unit, work[u].pc # "none", NEW w, NEW r, WorkerMoves(u, w, r)
    PROVE  IInv'
<1>1. /\ plan' = plan /\ items' = items /\ status' = status /\ saved' = saved /\ life' = life
      /\ reopened' = reopened /\ base' = base /\ call' = call /\ step' = step
      /\ logical' = logical /\ outputs' = outputs /\ previous' = previous /\ outcome' = outcome
      /\ slots' = slots /\ next' = next /\ abort' = abort
  BY DEF WorkerMoves, main, pool, session
<1>2. /\ unit \in [Unit -> UnitRecords] /\ work \in [Unit -> Workers]
      /\ unit'[u] = r /\ work'[u] = w
      /\ \A v \in Unit : v # u => unit'[v] = unit[v] /\ work'[v] = work[v]
      /\ r.status \notin {"completed", "absent"} /\ w.pc # "none"
  BY TypesKnown DEF IInv, WorkerMoves
<1>3. unit[u].status # "completed" /\ u \in Units
  BY DEF IInv, Offered, Placed
<1>4. \A v \in Unit : unit'[v] = unit[v]
                   \/ (unit[v].status # "completed" /\ unit'[v].status # "completed")
  BY <1>2, <1>3
<1>5. /\ Steps' = Steps /\ Units' = Units /\ Unit' = Unit /\ Tree' = Tree
      /\ \A s \in Steps : /\ ItemsOf(s)' = ItemsOf(s)
                          /\ StepDone(s)' <=> StepDone(s)
                          /\ StepDone(s) => Answers(s)' = Answers(s)
  BY <1>1, <1>4, RecordsStay DEF IInv, Unit, Tree, Units
<1>6. Typed'
  <2>1. unit' \in [Unit -> UnitRecords] /\ work' \in [Unit -> Workers]
    BY <1>2 DEF WorkerMoves
  <2>2. \A v \in Unit : work'[v].pc \in WorkerPcs
    BY <2>1 DEF Workers
  <2>3. TypeOK'
    <3>1. /\ plan' \in Plans /\ items' \in [Steps' -> 0..Unexpanded']
          /\ status' \in {"none", "running", "completed", "failed", "cancelled", "interrupted"}
          /\ step' \in 1..(Len(plan') + 1)
          /\ outcome' \in {"ok", "error", "thrown"}
          /\ abort' \in {"none", "user", "session_shutdown"}
          /\ DOMAIN saved'.steps = Steps' /\ DOMAIN logical' = Steps'
      BY <1>1, <1>5 DEF IInv, Typed, TypeOK, Unexpanded
    <3>2. call' \in {"off", "top", "one", "expand", "pool", "collect", "finish"}
      BY <1>1 DEF IInv, Typed, TypeOK
    <3>3. tree' \in [Tree' -> {"none", "clean", "worked"}] /\ alive' \subseteq Unit'
      BY <1>5 DEF WorkerMoves
    <3>4. unit' \in [Unit' -> UnitRecords']
      BY <1>5, <2>1 DEF UnitRecords, Trees
    <3> QED
      BY <3>1, <3>2, <3>3, <3>4, <1>5, <2>2 DEF TypeOK, UnitRecords, UnitStatuses, WorkerPcs, Trees
  <2> QED
    BY <1>1, <1>5, <2>1, <2>3 DEF IInv, Typed, Indexed, WorkerMoves
<1>7. Placed'
  <2>1. life # 0
    BY <1>3, TypesKnown DEF IInv, Placed, Idle
  <2>2. Count' = Count
    BY <1>1 DEF Count
  <2>3. \A v \in Units' : unit'[v].status # "absent"
    BY <2>1, <1>2, <1>5 DEF IInv, Placed, Units
  <2>4. \A v \in Unit' \ Units' : unit'[v] = Absent'
    BY <2>1, <1>2, <1>3, <1>5 DEF IInv, Placed, Absent
  <2>5. \A v \in Unit' : work'[v].pc = "none" => work'[v] = Idle'
    BY <1>2, <1>5 DEF IInv, Placed, Idle
  <2>6. \A v \in Unit' : work'[v].pc # "none" =>
          /\ v \in Units' /\ v[1] = step'
          /\ \/ call' = "one" /\ v[2] = 0
             \/ call' = "pool" /\ v[2] \in 1..Count' /\ v[2] < next'
    BY <1>1, <1>2, <1>5, <2>2 DEF IInv, Placed
  <2>7. /\ call' # "off" => status' = "running"
        /\ call' \in Entered \cup {"collect"} => step' \in Steps'
        /\ call' = "one" => plan'[step'] \in {"single", "sequential"}
        /\ call' \in {"expand", "collect"} => plan'[step'] = "fanout"
        /\ call' = "pool" => \/ plan'[step'] = "parallel"
                             \/ plan'[step'] = "fanout" /\ items'[step'] \in 1..MaxItems
    BY <1>1, <1>5 DEF IInv, Placed
  <2> QED
    BY <1>1, <2>1, <2>3, <2>4, <2>5, <2>6, <2>7 DEF Placed, Entered
<1>8. Ordered'
  BY <1>1, <1>5, TypesKnown DEF IInv, Ordered, Busy, Entered, Unexpanded, Steps
<1>9. Offered'
  <2>1. \A v \in Unit : unit'[v].status = "completed" <=> unit[v].status = "completed"
    BY <1>2, <1>3
  <2>2. \A s \in Steps, i \in 0..MaxItems : <<s, i>> \in Unit
    BY TypesKnown, StepFacts DEF IInv
  <2>3. Count' = Count
    BY <1>1 DEF Count
  <2>4. call = "pool" => step \in Steps /\ Count \in 1..MaxItems
    BY TypesKnown, PlanFacts DEF IInv, Placed, Count, Entered
  <2>5. \A s \in Steps : unit'[<<s, 0>>].status = "completed" <=> unit[<<s, 0>>].status = "completed"
    BY <2>1, <2>2, TypesKnown, PlanFacts DEF IInv
  <2>6. call = "pool" => \A i \in 1..Count :
           unit'[<<step, i>>].status = "completed" <=> unit[<<step, i>>].status = "completed"
    <3>1. ASSUME call = "pool", NEW i \in 1..Count PROVE i \in 0..MaxItems
      BY <3>1, <2>4, PlanFacts, TypesKnown DEF IInv
    <3> QED
      BY <2>1, <2>2, <2>4, <3>1
  <2>7. \A v \in Unit' : work'[v].pc # "none" => unit'[v].status # "completed"
    BY <1>2, <1>5, <2>1 DEF IInv, Offered
  <2>8. call' \in Busy => \A s \in Steps' :
          s > step' \/ (s = step' /\ call' = "top") =>
             /\ plan'[s] = "single" => unit'[<<s, 0>>].status # "completed"
             /\ plan'[s] = "sequential" /\ unit'[<<s, 0>>].status = "completed" =>
                   logical'[s] = "completed"
    BY <1>1, <1>5, <2>5 DEF IInv, Offered
  <2>9. call' = "pool" => \A i \in 1..Count' :
          slots'[i] = "completed" <=> unit'[<<step', i>>].status = "completed"
    BY <1>1, <2>3, <2>6 DEF IInv, Offered
  <2> QED
    BY <2>7, <2>8, <2>9 DEF Offered, Busy
<1>10. Told'
  BY <1>1, <1>2, <1>3, <1>5 DEF IInv, Told, WorkerMoves, Unexpanded, Units
<1>11. Valued'
  <2>1. Held => Held'
    BY <1>1, <1>5, CurrentStays DEF IInv
  <2> QED
    BY <1>1, <2>1 DEF IInv, Valued
<1>12. Settled'
  BY <1>1, <1>2 DEF IInv, Settled, WorkerMoves, AtWork
<1>13. Begins'
  <2>1. ASSUME NEW v \in Unit
        PROVE  /\ unit'[v].attempts <= life
               /\ unit'[v].tree # NoTree => unit'[v].tree[2] <= life
               /\ work'[v].tree # NoTree => work'[v].tree[2] <= life
               /\ work'[v].keep # NoTree => work'[v].keep[2] <= life
               /\ Fresh(v)' => /\ unit'[v].attempts < life
                               /\ unit'[v].tree # NoTree => unit'[v].tree[2] < life
    <3>1. CASE v = u
      <4>1. Fresh(u)' => w.pc \in {"ready", "beginning"}
        <5>1. u[1] = step /\ (call = "one" \/ (call = "pool" /\ u[2] < next))
          BY DEF IInv, Placed
        <5>2. u[2] \in Nat /\ step \in Nat /\ next \in Nat
          BY UnitFacts, TypesKnown, PlanFacts DEF IInv
        <5> QED
          BY <1>1, <1>2, <5>1, <5>2 DEF Fresh
      <4> QED
        BY <3>1, <4>1, <1>2 DEF WorkerMoves
    <3>2. CASE v # u
      <4>1. Fresh(v)' <=> Fresh(v)
        BY <1>1, <1>2, <3>2 DEF Fresh, Busy
      <4> QED
        BY <3>2, <4>1, <1>2 DEF IInv, Begins
    <3> QED
      BY <3>1, <3>2
  <2> QED
    BY <1>1, <1>5, <2>1 DEF Begins, NoTree
<1> QED
  BY <1>6, <1>7, <1>8, <1>9, <1>10, <1>11, <1>12, <1>13 DEF IInv

-----------------------------------------------------------------------------
(* The workers' own actions.                                               *)
LEMMA WorkerFacts ==
    ASSUME IInv, NEW u \in Unit, work[u].pc # "none"
    PROVE  /\ unit[u] \in UnitRecords /\ work[u] \in Workers
           /\ unit = [unit EXCEPT ![u] = unit[u]]
           /\ unit[u].status \notin {"completed", "absent"}
           /\ u \in Units /\ u[1] = step /\ call \in {"one", "pool"}
           /\ life \in 1..MaxLives /\ MaxLives \in Nat
           /\ faults \in Nat /\ crashes \in Nat
           /\ tree \in [Tree -> {"none", "clean", "worked"}] /\ alive \subseteq Unit
           /\ unit[u].attempts \in Nat /\ unit[u].attempts <= life
           /\ unit[u].tree # NoTree => unit[u].tree[2] <= life
           /\ work[u].tree # NoTree => work[u].tree[2] <= life
           /\ work[u].keep # NoTree => work[u].keep[2] <= life
           /\ work[u].pc \in {"ready", "beginning"} =>
                 /\ unit[u].attempts < life
                 /\ unit[u].tree # NoTree => unit[u].tree[2] < life
           /\ faults = 0 => /\ u \in alive => work[u].pc \in {"establishing", "running"}
                            /\ unit[u].status = "running" => work[u].pc \in AtWork
<1>1. /\ unit \in [Unit -> UnitRecords] /\ work \in [Unit -> Workers] /\ life \in 0..MaxLives
      /\ tree \in [Tree -> {"none", "clean", "worked"}] /\ alive \subseteq Unit
      /\ MaxLives \in Nat /\ faults \in Nat /\ crashes \in Nat
  BY TypesKnown, PlanFacts DEF IInv, Typed
<1>2. u \in Units /\ u[1] = step /\ call \in {"one", "pool"}
  BY DEF IInv, Placed
<1>3. unit[u].status \notin {"completed", "absent"} /\ life # 0
  BY <1>2 DEF IInv, Placed, Offered
<1>4. unit = [unit EXCEPT ![u] = unit[u]]
  BY <1>1
<1>5. unit[u] \in UnitRecords /\ work[u] \in Workers /\ unit[u].attempts \in Nat
  BY <1>1 DEF UnitRecords
<1>6. /\ unit[u].attempts <= life
      /\ unit[u].tree # NoTree => unit[u].tree[2] <= life
      /\ work[u].tree # NoTree => work[u].tree[2] <= life
      /\ work[u].keep # NoTree => work[u].keep[2] <= life
      /\ work[u].pc \in {"ready", "beginning"} =>
            /\ unit[u].attempts < life
            /\ unit[u].tree # NoTree => unit[u].tree[2] < life
  BY DEF IInv, Begins, Fresh
<1>7. faults = 0 => /\ u \in alive => work[u].pc \in {"establishing", "running"}
                    /\ unit[u].status = "running" => work[u].pc \in AtWork
  BY <1>2 DEF IInv, Settled
<1> QED
  BY <1>1, <1>2, <1>3, <1>4, <1>5, <1>6, <1>7

(* A step that leaves the unit's record alone.                             *)
LEMMA WorkerGoes ==
    ASSUME IInv, NEW u \in Unit, work[u].pc # "none",
           NEW w \in Workers, Goes(u, w), w.pc # "none",
           UNCHANGED <<record, main, pool, session, life, reopened>>,
           faults' \in Nat, crashes' \in Nat, faults' = 0 => faults = 0,
           tree' \in [Tree -> {"none", "clean", "worked"}], alive' \subseteq alive,
           w.pc = "running" => unit[u].told = "yes",
           w.tree # NoTree => w.tree[2] <= life,
           w.keep # NoTree => w.keep[2] <= life,
           w.pc = "ending" /\ w.ends = "completed" => unit[u].told = "yes",
           faults' = 0 => /\ u \in alive' => w.pc \in {"establishing", "running"}
                          /\ unit[u].status = "running" => w.pc \in AtWork,
           w.pc \in {"ready", "beginning"} => work[u].pc \in {"ready", "beginning"}
    PROVE  IInv'
<1>1. WorkerMoves(u, w, unit[u])
  BY WorkerFacts DEF WorkerMoves, Goes, record
<1> QED
  BY <1>1, WorkerKeeps

EndOf(w, status_, keep_, again_) ==
    [w EXCEPT !.pc = "ending", !.ends = status_, !.keep = keep_, !.again = again_]
LEMMA EndingRecord ==
    ASSUME NEW w \in Workers, NEW status_ \in Ends, NEW keep \in Trees, NEW again \in BOOLEAN,
           NEW e, e = EndOf(w, status_, keep, again)
    PROVE  /\ e \in Workers /\ e.pc = "ending" /\ e.ends = status_ /\ e.keep = keep
           /\ e.tree = w.tree /\ e.again = again
BY DEF Workers, WorkerPcs, EndOf

LEMMA WorkerEnds ==
    ASSUME IInv, NEW u \in Unit, work[u].pc # "none",
           NEW status_ \in Ends, NEW keep \in Trees, NEW again \in BOOLEAN,
           Ending(u, status_, keep, again), keep # NoTree => keep[2] <= life,
           UNCHANGED <<record, main, pool, session, life, reopened>>,
           faults' \in Nat, crashes' \in Nat, faults' = 0 => faults = 0,
           tree' \in [Tree -> {"none", "clean", "worked"}], alive' \subseteq alive,
           status_ = "completed" => unit[u].told = "yes",
           faults' = 0 => u \notin alive'
    PROVE  IInv'
<1> DEFINE w == EndOf(work[u], status_, keep, again)
<1>1. w \in Workers /\ w.pc = "ending" /\ w.ends = status_ /\ w.tree = work[u].tree
      /\ w.keep = keep
  <2>1. work[u] \in Workers
    BY WorkerFacts
  <2> QED
    BY <2>1, EndingRecord
<1>2. Goes(u, w)
  BY DEF Ending, EndOf
<1> HIDE DEF w
<1> QED
  BY <1>1, <1>2, WorkerGoes, WorkerFacts DEF AtWork

LEMMA TreesMade ==
    ASSUME IInv, NEW u \in Unit, work[u].pc # "none"
    PROVE  /\ Opened(u) \in Trees /\ work[u].tree \in Trees
           /\ Opened(u) # NoTree => Opened(u)[2] <= life
           /\ Made(u) \in [Tree -> {"none", "clean", "worked"}]
           /\ \A t \in Trees : \A keep \in {NoTree, t} :
                 [x \in Tree |-> IF x # t THEN tree[x]
                                 ELSE IF keep = NoTree THEN "none"
                                 ELSE IF tree[x] = "none" THEN "clean" ELSE tree[x]]
                 \in [Tree -> {"none", "clean", "worked"}]
<1>1. <<u, life>> \in Trees /\ unit[u].tree \in Trees /\ work[u].tree \in Trees
  BY WorkerFacts DEF Trees, Tree, UnitRecords, Workers
<1>2. Opened(u) \in Trees
  BY <1>1 DEF Opened, Trees
<1>3. tree \in [Tree -> {"none", "clean", "worked"}]
  BY WorkerFacts
<1>4. Made(u) \in [Tree -> {"none", "clean", "worked"}]
  BY <1>2, <1>3 DEF Made, Trees
<1>5. ASSUME NEW t \in Trees, NEW keep \in {NoTree, t}
      PROVE  [x \in Tree |-> IF x # t THEN tree[x]
                             ELSE IF keep = NoTree THEN "none"
                             ELSE IF tree[x] = "none" THEN "clean" ELSE tree[x]]
             \in [Tree -> {"none", "clean", "worked"}]
  BY <1>3
<1>6. Opened(u) # NoTree => Opened(u)[2] <= life
  BY WorkerFacts DEF Opened
<1> QED
  BY <1>1, <1>2, <1>4, <1>5, <1>6

LEMMA WorkerCleans ==
    ASSUME IInv, NEW u \in Unit, work[u].pc # "none", NEW t \in Trees, Cleaned(u, t),
           t # NoTree => t[2] <= life,
           UNCHANGED <<record, main, pool, session, life, alive, reopened>>,
           faults' \in Nat, crashes' \in Nat, faults' = 0 => faults = 0,
           faults' = 0 => u \notin alive'
    PROVE  IInv'
<1>1. PICK keep \in IF t = <<u, life>> THEN {NoTree, t} ELSE {t} :
        /\ tree' = [x \in Tree |-> IF x # t THEN tree[x]
                                   ELSE IF keep = NoTree THEN "none"
                                   ELSE IF tree[x] = "none" THEN "clean" ELSE tree[x]]
        /\ Ending(u, "failed", keep, FALSE)
  BY DEF Cleaned
<1>2. keep \in Trees /\ keep \in {NoTree, t}
  BY <1>1 DEF Trees
<1>3. tree' \in [Tree -> {"none", "clean", "worked"}]
  BY <1>1, <1>2, TreesMade
<1> QED
  BY <1>1, <1>2, <1>3, WorkerEnds DEF Ends

LEMMA WorkerActs ==
    ASSUME IInv, NEW u \in Unit,
           \/ Rejected(u) \/ Unsupported(u) \/ Prepared(u) \/ PrepareFails(u)
           \/ Begun(u) \/ BeginFails(u) \/ Spawn(u) \/ Established(u)
           \/ EstablishFails(u) \/ Killed(u) \/ \E s \in {"completed", "failed"} : Exits(u, s)
    PROVE  IInv'
<1> USE DEF At
<1>0. /\ {"failed", "completed", "cancelled", "interrupted"} \subseteq Ends
      /\ NoTree \in Trees /\ {TRUE, FALSE} = BOOLEAN
  BY DEF Ends, Trees
<1>1. CASE Rejected(u)
  <2> USE <1>1 DEF Rejected
  <2>1. Ending(u, "failed", NoTree, FALSE) /\ work[u].pc = "ready"
    OBVIOUS
  <2>2. UNCHANGED <<record, main, pool, session, life, reopened>> /\ faults' = faults /\ crashes' = crashes
        /\ tree' = tree /\ alive' = alive
    BY DEF bounds
  <2> HIDE DEF Rejected
  <2> QED
    BY <2>1, <2>2, <1>0, WorkerEnds, WorkerFacts
<1>2. CASE Unsupported(u)
  <2>1. Ending(u, "failed", NoTree, FALSE) /\ work[u].pc = "ready" /\ tree' = Made(u)
    BY <1>2 DEF Unsupported
  <2>2. UNCHANGED <<record, main, pool, session, life, reopened>> /\ faults' = faults /\ crashes' = crashes
        /\ alive' = alive
    BY <1>2 DEF Unsupported, bounds
  <2> QED
    BY <2>1, <2>2, <1>0, WorkerEnds, WorkerFacts, TreesMade
<1>3. CASE Prepared(u)
  <2> DEFINE w == [work[u] EXCEPT !.pc = "beginning", !.tree = Opened(u)]
  <2>1. Goes(u, w) /\ work[u].pc = "ready" /\ tree' = Made(u)
    BY <1>3 DEF Prepared
  <2>2. UNCHANGED <<record, main, pool, session, life, reopened>> /\ faults' = faults /\ crashes' = crashes
        /\ alive' = alive
    BY <1>3 DEF Prepared, bounds
  <2>3. w \in Workers /\ w.pc = "beginning" /\ w.tree = Opened(u) /\ w.keep = work[u].keep
    <3>1. work[u] \in Workers /\ Opened(u) \in Trees
      BY <2>1, WorkerFacts, TreesMade
    <3> QED
      BY <3>1 DEF Workers, WorkerPcs
  <2>4. w.tree # NoTree => w.tree[2] <= life
    BY <2>1, <2>3, WorkerFacts DEF Opened
  <2> HIDE DEF w
  <2> QED
    BY <2>1, <2>2, <2>3, <2>4, WorkerGoes, WorkerFacts, TreesMade DEF AtWork
<1>4. CASE PrepareFails(u)
  <2>1. Cleaned(u, Opened(u)) /\ work[u].pc = "ready"
    BY <1>4 DEF PrepareFails
  <2>2. UNCHANGED <<record, main, pool, session, life, alive, reopened>>
        /\ faults' = faults /\ crashes' = crashes
    BY <1>4 DEF PrepareFails, bounds
  <2> QED
    BY <2>1, <2>2, WorkerCleans, WorkerFacts, TreesMade
<1>5. CASE Begun(u)
  <2> DEFINE w == [work[u] EXCEPT !.pc = "begun"]
             r == [unit[u] EXCEPT !.status = "running", !.attempts = @ + 1, !.tree = work[u].tree]
  <2>1. work' = [work EXCEPT ![u] = w] /\ work[u].pc = "beginning"
        /\ unit' = [unit EXCEPT ![u] = r]
    BY <1>5 DEF Begun, Goes
  <2>2. UNCHANGED <<plan, items, status, saved, tree, main, pool, alive, session,
                    life, faults, crashes, reopened>>
    BY <1>5 DEF Begun, bounds
  <2>3. w \in Workers /\ w.pc = "begun" /\ w.tree = work[u].tree
        /\ w.keep = work[u].keep
    BY <2>1, WorkerFacts DEF Workers, WorkerPcs
  <2>4. unit[u].attempts + 1 \in 0..MaxLives /\ unit[u].attempts + 1 <= life
    BY <2>1, WorkerFacts
  <2>0. unit[u] \in UnitRecords /\ MaxLives \in Nat
    BY <2>1, WorkerFacts
  <2>5. r \in UnitRecords /\ r.status = "running" /\ r.attempts = unit[u].attempts + 1
        /\ r.tree = work[u].tree /\ r.told = unit[u].told
    BY <2>0, <2>1, <2>4, TreesMade DEF UnitRecords, UnitStatuses
  <2>6. r.tree # NoTree => r.tree[2] <= life
    BY <2>1, <2>5, WorkerFacts
  <2> HIDE DEF w, r
  <2>7. WorkerMoves(u, w, r)
    BY <2>1, <2>2, <2>3, <2>4, <2>5, <2>6, WorkerFacts DEF WorkerMoves, AtWork
  <2> QED
    BY <2>1, <2>7, WorkerKeeps
<1>6. CASE BeginFails(u)
  <2>1. Cleaned(u, work[u].tree) /\ work[u].pc \in {"beginning", "begun"} /\ faults' = faults + 1
    BY <1>6 DEF BeginFails, Fault
  <2>2. UNCHANGED <<record, main, pool, session, life, alive, reopened>> /\ crashes' = crashes
    BY <1>6 DEF BeginFails
  <2> QED
    BY <2>1, <2>2, WorkerCleans, WorkerFacts, TreesMade
<1>7. CASE Spawn(u)
  <2> DEFINE w == [work[u] EXCEPT !.pc = "establishing"]
             r == [unit[u] EXCEPT !.told = IF @ = "no" THEN "maybe" ELSE @]
  <2>1. work' = [work EXCEPT ![u] = w] /\ work[u].pc = "begun" /\ alive' = alive \cup {u}
        /\ unit' = [unit EXCEPT ![u] = r]
    BY <1>7 DEF Spawn, Goes
  <2>2. UNCHANGED <<plan, items, status, saved, tree, main, pool, session,
                    life, faults, crashes, reopened>>
    BY <1>7 DEF Spawn, bounds
  <2>3. w \in Workers /\ w.pc = "establishing" /\ w.tree = work[u].tree
        /\ w.keep = work[u].keep
    BY <2>1, WorkerFacts DEF Workers, WorkerPcs
  <2>0. unit[u] \in UnitRecords /\ MaxLives \in Nat
    BY <2>1, WorkerFacts
  <2>5. r \in UnitRecords /\ r.status = unit[u].status /\ r.attempts = unit[u].attempts
        /\ r.tree = unit[u].tree /\ (unit[u].told = "yes" => r.told = "yes")
    BY <2>0 DEF UnitRecords
  <2> HIDE DEF w, r
  <2>7. WorkerMoves(u, w, r)
    BY <2>1, <2>2, <2>3, <2>5, WorkerFacts DEF WorkerMoves, AtWork
  <2> QED
    BY <2>1, <2>7, WorkerKeeps
<1>8. CASE Established(u)
  <2> DEFINE w == [work[u] EXCEPT !.pc = "running"]
             r == [unit[u] EXCEPT !.told = "yes"]
  <2>1. work' = [work EXCEPT ![u] = w] /\ work[u].pc = "establishing"
        /\ unit' = [unit EXCEPT ![u] = r]
    BY <1>8 DEF Established, Goes
  <2>2. UNCHANGED <<plan, items, status, saved, tree, main, pool, alive, session,
                    life, faults, crashes, reopened>>
    BY <1>8 DEF Established, bounds
  <2>3. w \in Workers /\ w.pc = "running" /\ w.tree = work[u].tree
        /\ w.keep = work[u].keep
    BY <2>1, WorkerFacts DEF Workers, WorkerPcs
  <2>0. unit[u] \in UnitRecords /\ MaxLives \in Nat
    BY <2>1, WorkerFacts
  <2>5. r \in UnitRecords /\ r.status = unit[u].status /\ r.attempts = unit[u].attempts
        /\ r.tree = unit[u].tree /\ r.told = "yes"
    BY <2>0 DEF UnitRecords
  <2> HIDE DEF w, r
  <2>7. WorkerMoves(u, w, r)
    BY <2>1, <2>2, <2>3, <2>5, WorkerFacts DEF WorkerMoves, AtWork
  <2> QED
    BY <2>1, <2>7, WorkerKeeps
<1>9. CASE EstablishFails(u)
  <2>1. Ending(u, "failed", work[u].tree, FALSE) /\ work[u].pc = "establishing" /\ faults' = faults + 1
    BY <1>9 DEF EstablishFails, Fault
  <2>2. UNCHANGED <<record, main, pool, session, life, reopened>> /\ crashes' = crashes
        /\ tree' = tree /\ alive' = alive
    BY <1>9 DEF EstablishFails
  <2>3. faults' \in Nat /\ crashes' \in Nat /\ faults' # 0
    BY <2>1, <2>2, WorkerFacts
  <2> QED
    BY <2>1, <2>2, <2>3, <1>0, WorkerEnds, WorkerFacts, TreesMade
<1>10. CASE Killed(u)
  <2>1. \E s \in {"cancelled", "interrupted"} : Ending(u, s, work[u].tree, FALSE)
    BY <1>10 DEF Killed
  <2>2. PICK s \in {"cancelled", "interrupted"} : Ending(u, s, work[u].tree, FALSE)
    BY <2>1
  <2>3. UNCHANGED <<record, main, pool, session, life, reopened>> /\ faults' = faults /\ crashes' = crashes
        /\ tree' = tree /\ alive' = alive \ {u} /\ work[u].pc = "running"
    BY <1>10 DEF Killed, bounds
  <2> QED
    BY <2>2, <2>3, <1>0, WorkerEnds, WorkerFacts, TreesMade
<1>11. CASE \E s \in {"completed", "failed"} : Exits(u, s)
  <2>1. PICK s \in {"completed", "failed"} : Exits(u, s)
    BY <1>11
  <2>2. PICK keep \in Kept(u, s) :
        /\ tree' = [t \in Tree |-> IF t = work[u].tree /\ keep = NoTree THEN "none" ELSE tree[t]]
        /\ Ending(u, s, keep, TRUE)
    BY <2>1 DEF Exits
  <2>3. UNCHANGED <<record, main, pool, session, life, reopened>> /\ faults' = faults /\ crashes' = crashes
        /\ alive' = alive \ {u} /\ work[u].pc = "running"
    BY <2>1 DEF Exits, bounds
  <2>4. keep \in Trees
    BY <2>2, <2>3, TreesMade, <1>0 DEF Kept
  <2>5. tree' \in [Tree -> {"none", "clean", "worked"}]
    BY <2>2, <2>3, WorkerFacts
  <2>6. unit[u].told = "yes"
    BY <2>3 DEF IInv, Told
  <2>7. keep # NoTree => keep[2] <= life
    BY <2>2, <2>3, WorkerFacts DEF Kept
  <2> QED
    BY <2>2, <2>3, <2>4, <2>5, <2>6, <2>7, <1>0, WorkerEnds, WorkerFacts
<1> QED
  BY <1>1, <1>2, <1>3, <1>4, <1>5, <1>6, <1>7, <1>8, <1>9, <1>10, <1>11

-----------------------------------------------------------------------------
(* What the call itself does.                                              *)

(* The types of the next state, one by one.                                *)
LEMMA TypedNext ==
    ASSUME plan \in Plans, plan' = plan, Steps' = Steps,
           items' \in [Steps -> 0..Unexpanded],
           unit' \in [Unit -> UnitRecords],
           status' \in {"none", "running", "completed", "failed", "cancelled", "interrupted"},
           tree' \in [Tree -> {"none", "clean", "worked"}],
           call' \in {"off", "top", "one", "expand", "pool", "collect", "finish"},
           step' \in 1..(Len(plan) + 1),
           outcome' \in {"ok", "error", "thrown"},
           abort' \in {"none", "user", "session_shutdown"},
           saved'.steps = [s \in Steps |-> saved'.steps[s]],
           saved'.outputs = [s \in Steps |-> saved'.outputs[s]],
           base'.steps = [s \in Steps |-> base'.steps[s]],
           base'.outputs = [s \in Steps |-> base'.outputs[s]],
           logical' = [s \in Steps |-> logical'[s]],
           outputs' = [s \in Steps |-> outputs'[s]],
           slots' = [i \in 0..MaxItems |-> slots'[i]],
           next' \in 1..(MaxItems + 1), life' \in 0..MaxLives,
           work' \in [Unit -> Workers], alive' \subseteq Unit,
           faults' \in Nat, crashes' \in Nat, reopened' \in Nat
    PROVE  Typed'
<1>1. \A v \in Unit : work'[v].pc \in WorkerPcs
  BY DEF Workers
<1>2. DOMAIN saved'.steps = Steps /\ DOMAIN logical' = Steps
  OBVIOUS
<1>3. TypeOK'
  BY <1>1, <1>2 DEF TypeOK, UnitRecords, UnitStatuses, WorkerPcs, Trees, Unit, Tree, Unexpanded, NoTree
<1> QED
  BY <1>3 DEF Typed, Indexed, Workers, WorkerPcs, Trees, Ends, Unit, Tree, NoTree

(* The types of this state, one by one.                                    *)
LEMMA TypedNow ==
    ASSUME IInv
    PROVE  /\ plan \in Plans /\ items \in [Steps -> 0..Unexpanded]
           /\ unit \in [Unit -> UnitRecords] /\ work \in [Unit -> Workers]
           /\ status \in {"none", "running", "completed", "failed", "cancelled", "interrupted"}
           /\ tree \in [Tree -> {"none", "clean", "worked"}]
           /\ call \in {"off", "top", "one", "expand", "pool", "collect", "finish"}
           /\ step \in 1..(Len(plan) + 1)
           /\ outcome \in {"ok", "error", "thrown"}
           /\ abort \in {"none", "user", "session_shutdown"}
           /\ saved.steps = [s \in Steps |-> saved.steps[s]]
           /\ saved.outputs = [s \in Steps |-> saved.outputs[s]]
           /\ base.steps = [s \in Steps |-> base.steps[s]]
           /\ base.outputs = [s \in Steps |-> base.outputs[s]]
           /\ logical = [s \in Steps |-> logical[s]]
           /\ outputs = [s \in Steps |-> outputs[s]]
           /\ slots = [i \in 0..MaxItems |-> slots[i]]
           /\ next \in 1..(MaxItems + 1) /\ life \in 0..MaxLives
           /\ alive \subseteq Unit
           /\ faults \in Nat /\ crashes \in Nat /\ reopened \in Nat
BY TypesKnown DEF IInv, Typed, TypeOK, Indexed

(* What is on record stays as long as no completed unit changes.           *)
Keeps == /\ plan' = plan /\ Steps' = Steps /\ Units \subseteq Units'
         /\ \A s \in Steps : /\ StepDone(s) => StepDone(s)' /\ Answers(s)' = Answers(s)
                             /\ items[s] # Unexpanded => items'[s] # Unexpanded
LEMMA StillKeeps ==
    ASSUME Typed, UNCHANGED <<plan, unit, items>>
    PROVE  /\ Keeps /\ Steps' = Steps /\ Units' = Units
           /\ \A s \in Steps : ItemsOf(s)' = ItemsOf(s) /\ (StepDone(s)' <=> StepDone(s))
                               /\ (StepDone(s) => Answers(s)' = Answers(s))
BY RecordsStay DEF Keeps, Unexpanded

(* Old answers stay current, and new ones that are on record are.          *)
LEMMA CurrentMoves ==
    ASSUME Keeps, NEW steps, NEW answers, Current(steps, answers), NEW steps1, NEW answers1,
           \A s \in Steps :
              /\ \/ answers1[s] = Unknown
                 \/ answers1[s] = answers[s]
                 \/ StepDone(s)' /\ answers1[s] = Answers(s)'
              /\ plan[s] \in {"sequential", "fanout"} /\ steps1[s] = "completed" =>
                    answers1[s] # Unknown
    PROVE  \A s \in Steps' :
              /\ answers1[s] # Unknown' => StepDone(s)' /\ answers1[s] = Answers(s)'
              /\ plan'[s] \in {"sequential", "fanout"} /\ steps1[s] = "completed" =>
                    answers1[s] # Unknown'
BY DEF Keeps, Current, Unknown

LEMMA SavedStays ==
    ASSUME Keeps, Held, saved' = saved, base' = base
    PROVE  Current(saved.steps, saved.outputs)' /\ Current(base.steps, base.outputs)'
<1>1. ASSUME NEW steps, NEW answers, Current(steps, answers), NEW steps1, NEW answers1,
             steps1 = steps, answers1 = answers
      PROVE  \A s \in Steps' :
              /\ answers1[s] # Unknown' => StepDone(s)' /\ answers1[s] = Answers(s)'
              /\ plan'[s] \in {"sequential", "fanout"} /\ steps1[s] = "completed" =>
                    answers1[s] # Unknown'
  BY <1>1 DEF Keeps, Current, Unknown
<1> QED
  BY <1>1 DEF Held, Current

LEMMA PreviousStays ==
    ASSUME IInv, Keeps, call \in Busy, step > 1, previous = Answers(step - 1),
           NEW k \in Nat, k = step - 1
    PROVE  previous = Answers(k)'
<1>1. step - 1 \in Steps /\ step - 1 \in 1..(step - 1)
  BY TypesKnown, PlanFacts DEF Steps, IInv
<1>2. StepDone(k)
  BY <1>1 DEF IInv, Ordered
<1> QED
  BY <1>1, <1>2 DEF Keeps

(* No worker is at work but in one and pool.                               *)
LEMMA NoWorkers ==
    ASSUME IInv, call \notin {"one", "pool"}
    PROVE  \A u \in Unit : work[u].pc = "none"
BY DEF IInv, Placed

(* The workflow returns.                                                   *)
LEMMA ToFinish ==
    ASSUME IInv, call \in Busy, call' = "finish", \A u \in Unit : work[u].pc = "none",
           UNCHANGED <<plan, unit, items, status, saved, base, life, reopened, step, outputs,
                       previous, work, alive, next, tree, abort>>,
           outcome' \in {"ok", "error", "thrown"},
           logical' = [s \in Steps |-> logical'[s]],
           slots' = [i \in 0..MaxItems |-> slots'[i]],
           \A s \in Steps : logical'[s] = "completed" =>
              \/ plan[s] \notin {"sequential", "fanout"} /\ StepDone(s)
              \/ plan[s] = "parallel"
              \/ logical[s] = "completed" /\ ~(call = "collect" /\ s = step),
           outcome' = "ok" => \A s \in Steps : plan[s] = "fanout" => items[s] # Unexpanded,
           faults' \in Nat, crashes' \in Nat, faults' = 0 => faults = 0
    PROVE  IInv'
<1>1. /\ Keeps /\ Steps' = Steps /\ Units' = Units
      /\ \A s \in Steps : /\ StepDone(s)' <=> StepDone(s)
                          /\ ItemsOf(s)' = ItemsOf(s)
  BY StillKeeps DEF IInv
<1>2. /\ plan' = plan /\ unit' = unit /\ items' = items /\ status' = status /\ saved' = saved
      /\ base' = base /\ life' = life /\ reopened' = reopened /\ step' = step
      /\ outputs' = outputs /\ previous' = previous /\ work' = work /\ alive' = alive
      /\ next' = next /\ tree' = tree /\ abort' = abort
  OBVIOUS
<1>3. Typed'
  BY <1>1, <1>2, TypedNow, TypedNext
<1>4. Placed'
  <2>1. life # 0 /\ status = "running"
    BY DEF IInv, Placed, Busy
  <2>2. (life # 0 => /\ \A u \in Units : unit[u].status # "absent"
                     /\ \A u \in Unit \ Units : unit[u] = Absent)'
    BY <1>1, <1>2 DEF IInv, Placed, Absent, Unit
  <2>3. \A u \in Unit : work'[u].pc = "none" /\ work'[u] = Idle
    BY <1>2 DEF IInv, Placed
  <2>4. (\A u \in Unit : work[u].pc = "none" => work[u] = Idle)'
    BY <2>3 DEF Idle, NoTree, Unit
  <2>5. (\A u \in Unit : work[u].pc # "none" =>
               /\ u \in Units /\ u[1] = step
               /\ \/ call = "one" /\ u[2] = 0
                  \/ call = "pool" /\ u[2] \in 1..Count /\ u[2] < next)'
    BY <2>3 DEF Unit
  <2> QED
    BY <1>2, <2>1, <2>2, <2>4, <2>5 DEF Placed, Entered
<1>5. Ordered'
  BY <1>1, <1>2 DEF IInv, Ordered, Entered, Busy, Unexpanded
<1>6. Offered'
  BY <1>1, <1>2 DEF IInv, Offered, Busy, Unit
<1>7. Told'
  BY <1>1, <1>2 DEF IInv, Told, Unit, Unexpanded
<1>8. Valued'
  <2>1. ASSUME reopened = 0 PROVE Held'
    <3>1. Held
      BY <2>1 DEF IInv, Valued
    <3>2. Current(saved.steps, saved.outputs)' /\ Current(base.steps, base.outputs)'
      BY <1>1, <1>2, <3>1, SavedStays
    <3>3. Current([s \in Steps |-> IF call = "collect" /\ s = step THEN "running"
                                                 ELSE logical[s]], outputs)
      BY <3>1 DEF Held, Busy
    <3>4. Current([s \in Steps |-> IF call = "collect" /\ s = step THEN "running"
                                                 ELSE logical[s]], outputs)'
      BY <1>1, <1>2, <3>3 DEF Current, Keeps, Unknown
    <3> QED
      BY <1>1, <1>2, <3>2, <3>4 DEF Held, Busy
  <2> QED
    BY <1>2, <2>1 DEF Valued
<1>9. Settled'
  BY <1>1, <1>2 DEF IInv, Settled, Unit, AtWork, Busy
<1>10. Begins'
  BY <1>1, <1>2 DEF IInv, Begins, Fresh, Unit, Busy, NoTree
<1> QED
  BY <1>3, <1>4, <1>5, <1>6, <1>7, <1>8, <1>9, <1>10 DEF IInv

LEMMA MainStops ==
    ASSUME IInv, NEW s, s \in {"cancelled", "failed"},
           \/ AllDone
           \/ /\ call \in {"top", "expand", "collect"} /\ Return("error", s)
              /\ UNCHANGED <<record, tree, step, outputs, previous, pool, work, alive, session,
                             life, crashes, reopened>>
              /\ faults' \in Nat /\ (faults' = 0 => faults = 0)
    PROVE  IInv'
<1>1. CASE AllDone
  <2>1. call = "top" /\ step > Len(plan) /\ outcome' = "ok" /\ call' = "finish"
        /\ UNCHANGED <<record, tree, step, logical, outputs, previous, pool, work, alive,
                   session, bounds>>
    BY <1>1 DEF AllDone
  <2>2. UNCHANGED <<plan, unit, items, status, saved, base, life, reopened, step, outputs,
                    previous, work, alive, next, tree, abort, logical, slots, faults, crashes>>
    BY <2>1 DEF record, pool, session, bounds
  <2>3. /\ logical = [j \in Steps |-> logical[j]] /\ slots = [i \in 0..MaxItems |-> slots[i]]
        /\ faults \in Nat /\ crashes \in Nat
    BY DEF IInv, Typed, Indexed
  <2>4. \A j \in Steps : plan[j] = "fanout" => items[j] # Unexpanded
    <3>1. \A j \in Steps : j \in 1..(step - 1)
      BY <2>1, TypesKnown, PlanFacts DEF IInv, Steps
    <3> QED
      BY <2>1, <3>1 DEF IInv, Ordered, Busy, StepDone
  <2>5. \A u \in Unit : work[u].pc = "none"
    BY <2>1, NoWorkers
  <2> QED
    BY <2>1, <2>2, <2>3, <2>4, <2>5, ToFinish DEF Busy
<1>2. CASE /\ call \in {"top", "expand", "collect"} /\ Return("error", s)
           /\ UNCHANGED <<record, tree, step, outputs, previous, pool, work, alive, session,
                          life, crashes, reopened>>
           /\ faults' \in Nat /\ (faults' = 0 => faults = 0)
  <2>1. call \in Busy /\ call' = "finish" /\ outcome' = "error" /\ logical' = LaterSkipped(logical, s)
    BY <1>2 DEF Return, Busy
  <2>2. UNCHANGED <<plan, unit, items, status, saved, base, life, reopened, step, outputs,
                    previous, work, alive, next, tree, abort, slots, crashes>>
    BY <1>2 DEF record, pool, session
  <2>3. /\ logical' = [j \in Steps |-> logical'[j]] /\ slots = [i \in 0..MaxItems |-> slots[i]]
        /\ crashes \in Nat
        /\ \A j \in Steps : logical'[j] = "completed" => logical[j] = "completed" /\ j # step
    BY <2>1 DEF IInv, Typed, Indexed, LaterSkipped
  <2>5. \A u \in Unit : work[u].pc = "none"
    BY <1>2, NoWorkers
  <2> QED
    BY <1>2, <2>1, <2>2, <2>3, <2>5, ToFinish
<1> QED
  BY <1>1, <1>2

LEMMA PoolStops ==
    ASSUME IInv, PoolEnds, call' = "finish"
    PROVE  IInv'
<1>1. /\ call = "pool" /\ Active = {} /\ slots' = Unstarted(slots)
      /\ UNCHANGED <<record, tree, step, outputs, previous, next, broken, work, alive,
                     session, bounds>>
  BY DEF PoolEnds, Drained
<1>2. UNCHANGED <<plan, unit, items, status, saved, base, life, reopened, step, outputs,
                  previous, work, alive, next, tree, abort, faults, crashes>>
  BY <1>1 DEF record, session, bounds
<1>3. \A u \in Unit : work[u].pc = "none"
  BY <1>1 DEF Active
<1>4. slots' = [i \in 0..MaxItems |-> slots'[i]]
  BY <1>1 DEF Unstarted
<1>5. /\ logical = [j \in Steps |-> logical[j]]
      /\ faults \in Nat /\ crashes \in Nat
  BY DEF IInv, Typed, Indexed
<1>6. \/ outcome' = "thrown" /\ logical' = logical
      \/ /\ plan[step] = "parallel" /\ outcome' = "ok"
         /\ logical' = [logical EXCEPT ![step] = "completed"]
      \/ \E s \in {"cancelled", "failed"} : Return("error", s)
  BY DEF PoolEnds
<1>7. /\ outcome' \in {"ok", "error", "thrown"}
      /\ logical' = [s \in Steps |-> logical'[s]]
      /\ \A s \in Steps : logical'[s] = "completed" => logical[s] = "completed" \/ plan[s] = "parallel"
  BY <1>5, <1>6 DEF Return, LaterSkipped
<1>8. outcome' = "ok" => \A s \in Steps : plan[s] = "fanout" => items[s] # Unexpanded
  <2>1. CASE plan[step] = "parallel"
    <3>1. step \in Steps
      BY <1>1 DEF IInv, Placed, Entered
    <3>2. Len(plan) = 1 /\ step = 1
      BY <2>1, <3>1, StepFacts, TypesKnown DEF IInv
    <3>3. \A s \in Steps : s = step
      BY <3>2, TypesKnown, StepFacts DEF IInv, Steps
    <3> QED
      BY <2>1, <3>3
  <2> QED
    BY <1>6, <2>1 DEF Return
<1> QED
  BY <1>1, <1>2, <1>3, <1>4, <1>5, <1>7, <1>8, ToFinish DEF Busy

(* A step of the call that writes nothing, and may start workers.          *)
CallStill == UNCHANGED <<plan, unit, items, status, saved, base, life, reopened, tree, alive,
                         abort, faults, crashes>>
LEMMA CallMoves ==
    ASSUME IInv, CallStill, call # "off", call' # "off",
           call' \in {"off", "top", "one", "expand", "pool", "collect", "finish"},
           step' \in 1..(Len(plan) + 1), outcome' \in {"ok", "error", "thrown"},
           logical' = [s \in Steps |-> logical'[s]], outputs' = [s \in Steps |-> outputs'[s]],
           slots' = [i \in 0..MaxItems |-> slots'[i]], next' \in 1..(MaxItems + 1),
           work' \in [Unit -> Workers],
           \A u \in Unit : \/ work'[u] = work[u]
                           \/ /\ work[u].pc = "none" /\ work'[u] = [Idle EXCEPT !.pc = "ready"]
                              /\ Fresh(u)
    PROVE  /\ Typed' /\ Told' /\ Settled' /\ Keeps /\ Steps' = Steps /\ Units' = Units
           /\ \A s \in Steps : ItemsOf(s)' = ItemsOf(s) /\ (StepDone(s)' <=> StepDone(s))
                               /\ (StepDone(s) => Answers(s)' = Answers(s))
           /\ (\A u \in Unit : Fresh(u)' => Fresh(u)) => Begins'
<1>1. /\ Keeps /\ Steps' = Steps /\ Units' = Units
      /\ \A s \in Steps : ItemsOf(s)' = ItemsOf(s) /\ (StepDone(s)' <=> StepDone(s))
                           /\ (StepDone(s) => Answers(s)' = Answers(s))
  BY StillKeeps DEF IInv, CallStill
<1>2. /\ plan' = plan /\ unit' = unit /\ items' = items /\ status' = status /\ saved' = saved
      /\ base' = base /\ life' = life /\ reopened' = reopened
      /\ tree' = tree /\ alive' = alive /\ abort' = abort /\ faults' = faults /\ crashes' = crashes
  BY DEF CallStill
<1>0. [Idle EXCEPT !.pc = "ready"].pc = "ready" /\ [Idle EXCEPT !.pc = "ready"].tree = NoTree
      /\ [Idle EXCEPT !.pc = "ready"].keep = NoTree
  BY DEF Idle
<1>3. Typed'
  BY <1>1, <1>2, TypedNow, TypedNext
<1>7. \A u \in Unit : work'[u] = work[u] \/ (work[u].pc = "none" /\ work'[u].pc = "ready")
  BY <1>0
<1>4. Told'
  <2>1. \A u \in Unit : work'[u].pc \in {"running", "ending"} => work'[u] = work[u]
    BY <1>7
  <2>2. /\ \A u \in Unit : work'[u].pc = "running" => unit[u].told = "yes"
        /\ \A u \in Unit : work'[u].pc = "ending" /\ work'[u].ends = "completed" =>
              unit[u].told = "yes"
    BY <2>1 DEF IInv, Told
  <2>3. /\ \A u \in Unit : unit[u].status = "completed" => unit[u].told = "yes"
        /\ reopened # 0 => /\ \A s \in Steps : plan[s] = "fanout" => items[s] # Unexpanded
                           /\ \A u \in Units : unit[u].told = "yes"
    BY DEF IInv, Told
  <2> QED
    BY <1>1, <1>2, <2>2, <2>3 DEF Told, Unit, Unexpanded
<1>5. Settled'
  <2>1. ASSUME faults = 0
        PROVE  /\ \A u \in alive : work'[u].pc \in {"establishing", "running"}
               /\ \A u \in Unit : unit[u].status = "running" => work'[u].pc \in AtWork
    <3>1. /\ \A u \in alive : u \in Unit /\ work[u].pc \in {"establishing", "running"}
          /\ \A u \in Unit : unit[u].status = "running" => work[u].pc \in AtWork
      BY <2>1, TypesKnown DEF IInv, Settled
    <3> QED
      BY <1>7, <3>1 DEF AtWork
  <2> QED
    BY <1>2, <2>1 DEF Settled, Unit, AtWork
<1>6. ASSUME \A u \in Unit : Fresh(u)' => Fresh(u) PROVE Begins'
  BY <1>0, <1>2, <1>6 DEF IInv, Begins, Unit, NoTree
<1> QED
  BY <1>1, <1>3, <1>4, <1>5, <1>6

LEMMA SkipKeeps == ASSUME IInv, Skip PROVE IInv'
<1>1. /\ call = "top" /\ call' = "top" /\ step \in Steps /\ step' = step + 1
      /\ plan[step] \in {"sequential", "fanout"} /\ logical[step] = "completed"
      /\ CallStill /\ logical' = logical /\ outputs' = outputs /\ outcome' = outcome
      /\ slots' = slots /\ next' = next /\ work' = work
      /\ previous' = IF outputs[step] # Unknown THEN outputs[step] ELSE previous
  BY DEF Skip, CallStill, record, pool, session, bounds
<1>2. step \in Nat /\ Len(plan) \in Nat /\ step >= 1 /\ step <= Len(plan)
  BY <1>1, TypesKnown, PlanFacts DEF IInv, Steps
<1>3. /\ Typed' /\ Told' /\ Settled' /\ Keeps /\ Steps' = Steps /\ Units' = Units
      /\ \A s \in Steps : ItemsOf(s)' = ItemsOf(s) /\ (StepDone(s)' <=> StepDone(s))
                          /\ (StepDone(s) => Answers(s)' = Answers(s))
      /\ (\A u \in Unit : Fresh(u)' => Fresh(u)) => Begins'
  <2>1. /\ step' \in 1..(Len(plan) + 1) /\ outcome' \in {"ok", "error", "thrown"}
        /\ logical' = [s \in Steps |-> logical'[s]] /\ outputs' = [s \in Steps |-> outputs'[s]]
        /\ slots' = [i \in 0..MaxItems |-> slots'[i]] /\ next' \in 1..(MaxItems + 1)
        /\ work' \in [Unit -> Workers]
    BY <1>1, <1>2 DEF IInv, Typed, TypeOK, Indexed
  <2> QED
    BY <1>1, <2>1, CallMoves
<1>4. \A u \in Unit : work[u].pc = "none"
  BY <1>1, NoWorkers
<1>5. /\ plan' = plan /\ unit' = unit /\ items' = items /\ status' = status /\ saved' = saved
      /\ base' = base /\ life' = life /\ reopened' = reopened
  BY <1>1 DEF CallStill
<1>6. StepDone(step)
  BY <1>1 DEF IInv, Ordered
<1>7. Placed'
  BY <1>1, <1>3, <1>4, <1>5 DEF IInv, Placed, Entered, Busy, Unexpanded, Absent, Idle, Unit
<1>8. Ordered'
  <2>1. \A s \in 1..(step' - 1) : s \in 1..(step - 1) \/ s = step
    BY <1>1, <1>2
  <2> QED
    <3>1. \A s \in 1..(step' - 1) : s \in Steps /\ StepDone(s)
      BY <1>1, <1>2, <1>6, <2>1 DEF IInv, Ordered, Busy, Steps
    <3>2. \A s \in 1..(step' - 1) : StepDone(s)'
      BY <1>3, <3>1
    <3>3. \A s \in Steps : plan[s] # "parallel" /\ logical[s] = "completed" => StepDone(s)
      BY <1>1 DEF IInv, Ordered
    <3>4. status = "completed" => \A s \in Steps : StepDone(s)
      BY DEF IInv, Ordered
    <3> QED
      BY <1>1, <1>3, <1>5, <3>2, <3>3, <3>4 DEF Ordered, Entered
<1>9. Offered'
  <2>1. \A s \in Steps : s > step' \/ s = step' => s > step
    BY <1>1, <1>2 DEF Steps
  <2> QED
    BY <1>1, <1>3, <1>4, <1>5, <2>1 DEF IInv, Offered, Busy, Unit
<1>10. Valued'
  <2>1. ASSUME reopened = 0 PROVE Held'
    <3>1. Held
      BY <2>1 DEF IInv, Valued
    <3>2. Current(saved.steps, saved.outputs)' /\ Current(base.steps, base.outputs)'
      BY <1>3, <1>5, <3>1, SavedStays
    <3>3. Current([s \in Steps |-> IF call = "collect" /\ s = step THEN "running"
                                                 ELSE logical[s]], outputs)
      BY <1>1, <3>1 DEF Held, Busy
    <3>4. Current([s \in Steps |-> IF call = "collect" /\ s = step THEN "running"
                                                 ELSE logical[s]], outputs)'
      BY <1>1, <1>3, <1>5, <3>3 DEF Current, Keeps, Unknown
    <3>5. outputs[step] # Unknown /\ outputs[step] = Answers(step)
      BY <1>1, <3>3 DEF Current
    <3>6. PICK k \in Steps : k = step
      BY <1>1
    <3>7. previous' = Answers(k)'
      BY <1>1, <1>3, <1>6, <3>5, <3>6
    <3>8. step' - 1 = k
      BY <1>1, <1>2, <3>6
    <3> QED
      BY <1>1, <3>2, <3>4, <3>7, <3>8 DEF Held, Busy
  <2> QED
    BY <1>5, <2>1 DEF Valued
<1>11. Begins'
  <2>1. ASSUME NEW u \in Unit, Fresh(u)' PROVE Fresh(u)
    <3>1. u[1] \in Nat
      BY UnitFacts, TypesKnown DEF IInv
    <3> QED
      BY <1>1, <1>2, <1>4, <2>1, <3>1 DEF Fresh, Busy
  <2> QED
    BY <1>3, <2>1
<1> QED
  BY <1>3, <1>7, <1>8, <1>9, <1>10, <1>11 DEF IInv

(* The call goes on within its step.                                       *)
LEMMA SameStep ==
    ASSUME IInv, CallStill, call \in Busy, call' \in {"one", "expand", "pool", "collect"},
           step \in Steps, UNCHANGED <<step, previous, outputs>>,
           outcome' \in {"ok", "error", "thrown"},
           logical' = [s \in Steps |-> logical'[s]],
           slots' = [i \in 0..MaxItems |-> slots'[i]], next' \in 1..(MaxItems + 1),
           work' \in [Unit -> Workers],
           \A u \in Unit : \/ work'[u] = work[u]
                           \/ /\ work[u].pc = "none" /\ work'[u] = [Idle EXCEPT !.pc = "ready"]
                              /\ Fresh(u),
           \A s \in Steps : s # step => logical'[s] = logical[s],
           call' = "collect" => /\ logical'[step] = "completed" /\ plan[step] = "fanout"
                                /\ StepDone(step),
           call' # "collect" /\ plan[step] # "parallel" => logical'[step] = "running",
           call' = "one" => plan[step] \in {"single", "sequential"},
           call' = "expand" => plan[step] = "fanout",
           call' = "pool" => \/ plan[step] = "parallel"
                             \/ plan[step] = "fanout" /\ items[step] \in 1..MaxItems,
           call' = "pool" => \A i \in 1..Count :
              slots'[i] = "completed" <=> unit[<<step, i>>].status = "completed",
           \A u \in Unit : work'[u].pc # "none" =>
              /\ u \in Units /\ u[1] = step /\ unit[u].status # "completed"
              /\ \/ call' = "one" /\ u[2] = 0
                 \/ call' = "pool" /\ u[2] \in 1..Count /\ u[2] < next',
           \A u \in Unit : Fresh(u)' => Fresh(u)
    PROVE  IInv'
<1>1. call # "off" /\ call' # "off" /\ call' # "top" /\ call' # "finish" /\ call' \in Busy
      /\ call' \in {"off", "top", "one", "expand", "pool", "collect", "finish"}
  BY DEF Busy
<1>2. /\ step' \in 1..(Len(plan) + 1) /\ outputs' = [s \in Steps |-> outputs'[s]]
  BY DEF IInv, Typed, TypeOK, Indexed
<1>3. /\ Typed' /\ Told' /\ Settled' /\ Keeps /\ Steps' = Steps /\ Units' = Units
      /\ \A s \in Steps : ItemsOf(s)' = ItemsOf(s) /\ (StepDone(s)' <=> StepDone(s))
                          /\ (StepDone(s) => Answers(s)' = Answers(s))
      /\ Begins'
  BY <1>1, <1>2, CallMoves
<1>4. /\ plan' = plan /\ unit' = unit /\ items' = items /\ status' = status /\ saved' = saved
      /\ base' = base /\ life' = life /\ reopened' = reopened /\ Count' = Count
  BY DEF CallStill, Count
<1>5. Placed'
  <2>1. \A u \in Unit : work'[u].pc = "none" => work'[u] = Idle
    BY DEF IInv, Placed, Idle
  <2>2. /\ life # 0 /\ status = "running"
        /\ \A u \in Units : unit[u].status # "absent"
        /\ \A u \in Unit \ Units : unit[u] = Absent
    BY <1>1 DEF IInv, Placed
  <2> QED
    BY <1>1, <1>3, <1>4, <2>1, <2>2 DEF Placed, Entered, Absent, Idle, Unit
<1>6. Ordered'
  <2>1. \A s \in 1..(step - 1) : s \in Steps /\ StepDone(s)
    BY TypesKnown, PlanFacts DEF IInv, Ordered, Steps
  <2>2. \A s \in Steps : plan[s] # "parallel" /\ logical'[s] = "completed" => StepDone(s)
    BY <1>1 DEF IInv, Ordered
  <2>3. status = "completed" => \A s \in Steps : StepDone(s)
    BY DEF IInv, Ordered
  <2>4. call' \in Busy => \A s \in 1..(step' - 1) : StepDone(s)'
    BY <1>3, <2>1
  <2> QED
    BY <1>1, <1>3, <1>4, <2>2, <2>3, <2>4 DEF Ordered, Entered
<1>7. Offered'
  <2>1. \A s \in Steps : s > step => s # step
    BY TypesKnown, PlanFacts DEF IInv, Steps
  <2>2. \A s \in Steps : s > step =>
             /\ plan[s] = "single" => unit[<<s, 0>>].status # "completed"
             /\ plan[s] = "sequential" /\ unit[<<s, 0>>].status = "completed" =>
                   logical[s] = "completed"
    BY DEF IInv, Offered
  <2> QED
    BY <1>1, <1>3, <1>4, <2>1, <2>2 DEF Offered, Unit
<1>8. Valued'
  <2>1. ASSUME reopened = 0 PROVE Held'
    <3>1. Held
      BY <2>1 DEF IInv, Valued
    <3>2. Current(saved.steps, saved.outputs)' /\ Current(base.steps, base.outputs)'
      BY <1>3, <1>4, <3>1, SavedStays
    <3>3. Current([s \in Steps |-> IF call = "collect" /\ s = step THEN "running"
                                                 ELSE logical[s]], outputs)
      BY <1>1, <3>1 DEF Held, Busy
    <3>4. Current([s \in Steps |-> IF call = "collect" /\ s = step THEN "running"
                                                 ELSE logical[s]], outputs)'
      BY <1>1, <1>3, <1>4, <3>3 DEF Current, Keeps, Unknown
    <3>5. ASSUME step > 1 PROVE (previous = Answers(step - 1))'
      <4>1. step - 1 \in Steps /\ step - 1 \in 1..(step - 1)
        BY <3>5, TypesKnown, PlanFacts DEF Steps, IInv
      <4>2. PICK k \in Steps : k = step - 1
        BY <4>1
      <4>3. previous = Answers(k) /\ StepDone(k)
        BY <3>1, <3>5, <4>1, <4>2 DEF Held, IInv, Ordered
      <4>4. previous' = Answers(k)'
        BY <1>3, <4>3, <4>2
      <4> QED
        BY <4>4, <4>2
    <3> QED
      BY <1>1, <3>2, <3>4, <3>5 DEF Held
  <2> QED
    BY <1>4, <2>1 DEF Valued
<1> QED
  BY <1>3, <1>5, <1>6, <1>7, <1>8 DEF IInv

LEMMA StartsWorker ==
    ASSUME Typed, NEW u \in Unit
    PROVE  /\ [work EXCEPT ![u] = [Idle EXCEPT !.pc = "ready"]] \in [Unit -> Workers]
           /\ \A v \in Unit : v # u =>
                 [work EXCEPT ![u] = [Idle EXCEPT !.pc = "ready"]][v] = work[v]
           /\ [work EXCEPT ![u] = [Idle EXCEPT !.pc = "ready"]][u] = [Idle EXCEPT !.pc = "ready"]
           /\ [Idle EXCEPT !.pc = "ready"].pc = "ready"
<1>1. [Idle EXCEPT !.pc = "ready"] \in Workers
  BY DEF Idle, Workers, WorkerPcs, Trees, Ends
<1> QED
  BY <1>1, TypesKnown DEF Idle

LEMMA RunOneKeeps == ASSUME IInv, RunOne PROVE IInv'
<1>1. /\ call = "top" /\ call' = "one" /\ step \in Steps /\ plan[step] \in {"single", "sequential"}
      /\ plan[step] = "sequential" => logical[step] # "completed"
      /\ CallStill /\ step' = step /\ outputs' = outputs /\ previous' = previous
      /\ outcome' = outcome /\ next' = next
      /\ logical' = [logical EXCEPT ![step] = "running"]
      /\ work' = [work EXCEPT ![<<step, 0>>] = [Idle EXCEPT !.pc = "ready"]]
      /\ slots' = [slots EXCEPT ![0] = "running"]
  BY DEF RunOne, Enters, CallStill, record, pool, session, bounds
<1>2. \A u \in Unit : work[u].pc = "none"
  BY <1>1, NoWorkers
<1>3. <<step, 0>> \in Units /\ <<step, 0>> \in Unit
  BY <1>1, ItemFacts, TypesKnown DEF IInv, Units
<1>4. unit[<<step, 0>>].status # "completed"
  BY <1>1 DEF IInv, Offered, Busy
<1>5. /\ logical' = [s \in Steps |-> logical'[s]] /\ logical'[step] = "running"
      /\ \A s \in Steps : s # step => logical'[s] = logical[s]
      /\ slots' = [i \in 0..MaxItems |-> slots'[i]]
      /\ outcome \in {"ok", "error", "thrown"}
  BY <1>1 DEF IInv, Typed, TypeOK, Indexed
<1>6. Fresh(<<step, 0>>)
  BY <1>1 DEF Fresh
<1>7. \A u \in Unit : Fresh(u)' => Fresh(u)
  <2>1. \A u \in Unit : u # <<step, 0>> => work'[u] = work[u]
    BY <1>1, <1>3, StartsWorker DEF IInv
  <2> QED
    BY <1>1, <1>2, <1>6, <2>1 DEF Fresh, Busy
<1> QED
  <2>1. /\ work' \in [Unit -> Workers]
        /\ work'[<<step, 0>>] = [Idle EXCEPT !.pc = "ready"]
        /\ \A u \in Unit : u # <<step, 0>> => work'[u] = work[u]
    BY <1>1, <1>3, StartsWorker DEF IInv
  <2>2. <<step, 0>>[1] = step /\ <<step, 0>>[2] = 0
    OBVIOUS
  <2>3. \A u \in Unit : work'[u].pc # "none" =>
              /\ u \in Units /\ u[1] = step /\ unit[u].status # "completed" /\ u[2] = 0
    BY <1>2, <1>3, <1>4, <2>1, <2>2
  <2>4. next \in 1..(MaxItems + 1)
    BY TypesKnown DEF IInv
  <2> QED
    BY <1>1, <1>2, <1>3, <1>5, <1>6, <1>7, <2>1, <2>3, <2>4, SameStep DEF Busy

LEMMA RunFanoutKeeps == ASSUME IInv, RunFanout PROVE IInv'
<1>1. /\ call = "top" /\ call' = "expand" /\ step \in Steps /\ plan[step] = "fanout"
      /\ CallStill /\ step' = step /\ outputs' = outputs /\ previous' = previous
      /\ outcome' = outcome /\ next' = next /\ slots' = slots /\ work' = work
      /\ logical' = [logical EXCEPT ![step] = "running"]
  BY DEF RunFanout, Enters, CallStill, record, pool, session, bounds
<1>2. \A u \in Unit : work[u].pc = "none"
  BY <1>1, NoWorkers
<1>5. /\ logical' = [s \in Steps |-> logical'[s]] /\ logical'[step] = "running"
      /\ \A s \in Steps : s # step => logical'[s] = logical[s]
      /\ slots' = [i \in 0..MaxItems |-> slots'[i]]
      /\ outcome \in {"ok", "error", "thrown"}
  BY <1>1 DEF IInv, Typed, TypeOK, Indexed
<1>7. \A u \in Unit : Fresh(u)' => Fresh(u)
  BY <1>1, <1>2 DEF Fresh, Busy
<1> QED
  BY <1>1, <1>2, <1>5, <1>7, SameStep, TypesKnown DEF IInv, Busy

LEMMA RunParallelKeeps == ASSUME IInv, RunParallel PROVE IInv'
<1>1. /\ call = "top" /\ call' = "pool" /\ step \in Steps /\ plan[step] = "parallel"
      /\ CallStill /\ step' = step /\ outputs' = outputs /\ previous' = previous
      /\ outcome' = outcome /\ next' = 1 /\ slots' = Slots(MaxItems) /\ work' = work
      /\ logical' = logical
  BY DEF RunParallel, Enters, CallStill, record, pool, session, bounds
<1>2. \A u \in Unit : work[u].pc = "none"
  BY <1>1, NoWorkers
<1>3. MaxItems \in Nat \ {0} /\ Count = MaxItems /\ 1 \in 1..(MaxItems + 1)
  BY <1>1, PlanFacts, TypesKnown DEF IInv, Count
<1>4. /\ slots' = [i \in 0..MaxItems |-> slots'[i]]
      /\ \A i \in 1..Count : slots'[i] = "completed" <=> unit[<<step, i>>].status = "completed"
  <2>1. \A i \in 1..Count : i \in 0..MaxItems
    BY <1>3
  <2> QED
    BY <1>1, <1>3, <2>1 DEF Slots
<1>5. /\ logical' = [s \in Steps |-> logical'[s]] /\ outcome \in {"ok", "error", "thrown"}
  BY <1>1 DEF IInv, Typed, TypeOK, Indexed
<1>7. \A u \in Unit : Fresh(u)' => Fresh(u)
  BY <1>1, <1>2 DEF Fresh, Busy
<1> QED
  BY <1>1, <1>2, <1>3, <1>4, <1>5, <1>7, SameStep, TypesKnown DEF IInv, Busy

LEMMA ClaimKeeps == ASSUME IInv, Claim PROVE IInv'
<1>1. /\ call = "pool" /\ next <= Count /\ next' = next + 1
      /\ CallStill /\ call' = call /\ step' = step /\ outputs' = outputs /\ previous' = previous
      /\ outcome' = outcome /\ logical' = logical
  BY DEF Claim, CallStill, record, main, session, bounds
<1>2. /\ step \in Steps
      /\ plan[step] = "parallel" \/ (plan[step] = "fanout" /\ items[step] \in 1..MaxItems)
      /\ plan[step] # "parallel" => logical[step] = "running"
  BY <1>1 DEF IInv, Placed, Ordered, Entered
<1>3. /\ MaxItems \in Nat \ {0} /\ Count \in 1..MaxItems /\ next \in 1..Count
      /\ ItemsOf(step) = 1..Count /\ next + 1 \in 1..(MaxItems + 1)
  BY <1>1, <1>2, ItemFacts, PlanFacts, TypesKnown DEF IInv, Count, Unexpanded
<1>4. /\ <<step, next>> \in Units /\ <<step, next>> \in Unit
  BY <1>2, <1>3, ItemFacts, TypesKnown DEF IInv, Units
<1>5. /\ logical' = [s \in Steps |-> logical'[s]] /\ outcome \in {"ok", "error", "thrown"}
      /\ slots = [i \in 0..MaxItems |-> slots[i]]
  BY <1>1 DEF IInv, Typed, TypeOK, Indexed
<1>6. \A i \in 1..Count : slots[i] = "completed" <=> unit[<<step, i>>].status = "completed"
  BY <1>1 DEF IInv, Offered
<1>7. \A u \in Unit : work[u].pc # "none" =>
          u \in Units /\ u[1] = step /\ unit[u].status # "completed"
          /\ u[2] \in 1..Count /\ u[2] < next /\ u[2] < next'
  <2>1. \A u \in Unit : work[u].pc # "none" =>
          u \in Units /\ u[1] = step /\ unit[u].status # "completed"
          /\ u[2] \in 1..Count /\ u[2] < next
    BY <1>1 DEF IInv, Placed, Offered
  <2>2. \A i \in 1..Count : i < next => i < next'
    BY <1>1, <1>3
  <2> QED
    BY <2>1, <2>2
<1>8. \A u \in Unit : u[2] \in Nat /\ (u[2] >= next' => u[2] >= next)
  BY <1>1, <1>3, UnitFacts, TypesKnown DEF IInv
<1>9. CASE slots[next] = "completed"
  <2>1. slots' = slots /\ work' = work
    BY <1>1, <1>9 DEF Claim
  <2>2. \A u \in Unit : Fresh(u)' => Fresh(u)
    BY <1>1, <1>8, <2>1 DEF Fresh, Busy
  <2> QED
    BY <1>1, <1>2, <1>3, <1>5, <1>6, <1>7, <2>1, <2>2, SameStep, TypesKnown DEF IInv, Busy
<1>10. CASE slots[next] # "completed"
  <2>1. /\ slots' = [slots EXCEPT ![next] = "running"]
        /\ work' = [work EXCEPT ![<<step, next>>] = [Idle EXCEPT !.pc = "ready"]]
    BY <1>10 DEF Claim
  <2>2. /\ slots' = [i \in 0..MaxItems |-> slots'[i]]
        /\ \A i \in 1..Count : slots'[i] = "completed" <=> slots[i] = "completed"
    <3>1. next \in 0..MaxItems /\ \A i \in 1..Count : i \in 0..MaxItems
      BY <1>3
    <3> QED
      BY <1>5, <1>10, <2>1, <3>1
  <2>3. /\ Fresh(<<step, next>>) /\ work[<<step, next>>].pc = "none"
        /\ unit[<<step, next>>].status # "completed"
    BY <1>1, <1>3, <1>4, <1>6, <1>7, <1>10 DEF Fresh
  <2>4. /\ work' \in [Unit -> Workers]
        /\ work'[<<step, next>>] = [Idle EXCEPT !.pc = "ready"]
        /\ \A u \in Unit : u # <<step, next>> => work'[u] = work[u]
    BY <1>4, <2>1, StartsWorker DEF IInv
  <2>5. \A u \in Unit : Fresh(u)' => Fresh(u)
    BY <1>1, <1>8, <2>3, <2>4 DEF Fresh, Busy
  <2>6. <<step, next>>[1] = step /\ <<step, next>>[2] \in 1..Count /\ next < next'
    BY <1>1, <1>3
  <2>7. \A u \in Unit : work'[u].pc # "none" =>
              /\ u \in Units /\ u[1] = step /\ unit[u].status # "completed"
              /\ u[2] \in 1..Count /\ u[2] < next'
    BY <1>4, <1>7, <2>3, <2>4, <2>6
  <2> QED
    BY <1>1, <1>2, <1>3, <1>5, <1>6, <2>2, <2>3, <2>4, <2>5, <2>7, SameStep DEF Busy
<1> QED
  BY <1>9, <1>10

LEMMA PoolCollects ==
    ASSUME IInv, PoolEnds, call' # "finish"
    PROVE  IInv'
<1>1. /\ call = "pool" /\ call' = "collect" /\ Active = {} /\ slots' = Unstarted(slots)
      /\ plan[step] # "parallel" /\ outcome' = "ok"
      /\ logical' = [logical EXCEPT ![step] = "completed"]
      /\ \A i \in 1..Count : Unstarted(slots)[i] = "completed"
  BY DEF PoolEnds, Drained, Return
<1>2. CallStill /\ step' = step /\ outputs' = outputs /\ previous' = previous /\ next' = next
      /\ work' = work
  BY DEF PoolEnds, CallStill, record, session, bounds
<1>3. step \in Steps /\ plan[step] = "fanout" /\ items[step] \in 1..MaxItems
  BY <1>1 DEF IInv, Placed, Entered
<1>4. \A u \in Unit : work[u].pc = "none"
  BY <1>1 DEF Active
<1>5. MaxItems \in Nat \ {0} /\ ItemsOf(step) = 1..Count /\ items[step] # Unexpanded
      /\ \A i \in 1..Count : i \in 0..MaxItems
  BY <1>3, ItemFacts, PlanFacts, TypesKnown DEF IInv, Count, Unexpanded
<1>6. \A i \in 1..Count : unit[<<step, i>>].status = "completed"
  <2>1. \A i \in 1..Count : slots[i] = "completed"
    BY <1>1, <1>5 DEF Unstarted
  <2> QED
    BY <1>1, <2>1 DEF IInv, Offered
<1>7. StepDone(step)
  BY <1>5, <1>6 DEF StepDone
<1>8. /\ logical' = [s \in Steps |-> logical'[s]] /\ logical'[step] = "completed"
      /\ \A s \in Steps : s # step => logical'[s] = logical[s]
      /\ slots' = [i \in 0..MaxItems |-> slots'[i]]
  BY <1>1, <1>3 DEF IInv, Typed, TypeOK, Indexed, Unstarted
<1>9. \A u \in Unit : Fresh(u)' => Fresh(u)
  BY <1>1, <1>2, <1>4 DEF Fresh, Busy
<1> QED
  BY <1>1, <1>2, <1>3, <1>4, <1>7, <1>8, <1>9, SameStep, TypesKnown DEF IInv, Busy

LEMMA CollectKeeps == ASSUME IInv, Collect PROVE IInv'
<1>1. /\ call = "collect" /\ call' = "top" /\ step' = step + 1
      /\ CallStill /\ logical' = logical /\ outcome' = outcome
      /\ slots' = slots /\ next' = next /\ work' = work
      /\ outputs' = [outputs EXCEPT ![step] = Answers(step)]
      /\ previous' = Answers(step)
  BY DEF Collect, CallStill, record, pool, session, bounds
<1>2. step \in Steps /\ step \in Nat /\ Len(plan) \in Nat /\ step >= 1 /\ step <= Len(plan)
  BY <1>1, TypesKnown, PlanFacts DEF IInv, Steps, Placed
<1>6. plan[step] = "fanout" /\ logical[step] = "completed" /\ StepDone(step)
  BY <1>1, <1>2 DEF IInv, Ordered, Placed
<1>3. /\ Typed' /\ Told' /\ Settled' /\ Keeps /\ Steps' = Steps /\ Units' = Units
      /\ \A s \in Steps : ItemsOf(s)' = ItemsOf(s) /\ (StepDone(s)' <=> StepDone(s))
                          /\ (StepDone(s) => Answers(s)' = Answers(s))
      /\ (\A u \in Unit : Fresh(u)' => Fresh(u)) => Begins'
  <2>1. /\ step' \in 1..(Len(plan) + 1) /\ outcome' \in {"ok", "error", "thrown"}
        /\ logical' = [s \in Steps |-> logical'[s]] /\ outputs' = [s \in Steps |-> outputs'[s]]
        /\ slots' = [i \in 0..MaxItems |-> slots'[i]] /\ next' \in 1..(MaxItems + 1)
        /\ work' \in [Unit -> Workers]
    <3>1. outputs' = [s \in Steps |-> outputs'[s]]
      BY <1>1 DEF IInv, Typed, Indexed
    <3>2. step' \in 1..(Len(plan) + 1)
      BY <1>1, <1>2
    <3> QED
      BY <1>1, <3>1, <3>2 DEF IInv, Typed, TypeOK, Indexed
  <2> QED
    BY <1>1, <2>1, CallMoves
<1>4. \A u \in Unit : work[u].pc = "none"
  BY <1>1, NoWorkers
<1>5. /\ plan' = plan /\ unit' = unit /\ items' = items /\ status' = status /\ saved' = saved
      /\ base' = base /\ life' = life /\ reopened' = reopened
  BY <1>1 DEF CallStill
<1>7. Placed'
  BY <1>1, <1>3, <1>4, <1>5 DEF IInv, Placed, Entered, Busy, Unexpanded, Absent, Idle, Unit
<1>8. Ordered'
  <2>1. \A s \in 1..(step' - 1) : s \in 1..(step - 1) \/ s = step
    BY <1>1, <1>2
  <2>2. \A s \in 1..(step' - 1) : s \in Steps /\ StepDone(s)
    BY <1>1, <1>2, <1>6, <2>1 DEF IInv, Ordered, Busy, Steps
  <2>3. \A s \in 1..(step' - 1) : StepDone(s)'
    BY <1>3, <2>2
  <2>4. \A s \in Steps : plan[s] # "parallel" /\ logical[s] = "completed" => StepDone(s)
    BY <1>1 DEF IInv, Ordered
  <2>5. status = "completed" => \A s \in Steps : StepDone(s)
    BY DEF IInv, Ordered
  <2> QED
    BY <1>1, <1>3, <1>5, <2>3, <2>4, <2>5 DEF Ordered, Entered
<1>9. Offered'
  <2>1. \A s \in Steps : s > step' \/ s = step' => s > step
    BY <1>1, <1>2 DEF Steps
  <2> QED
    BY <1>1, <1>3, <1>4, <1>5, <2>1 DEF IInv, Offered, Busy, Unit
<1>10. Valued'
  <2>1. ASSUME reopened = 0 PROVE Held'
    <3>1. Held
      BY <2>1 DEF IInv, Valued
    <3>2. Current(saved.steps, saved.outputs)' /\ Current(base.steps, base.outputs)'
      BY <1>3, <1>5, <3>1, SavedStays
    <3>3. Current([s \in Steps |-> IF call = "collect" /\ s = step THEN "running"
                                                 ELSE logical[s]], outputs)
      BY <1>1, <3>1 DEF Held, Busy
    <3>5. Answers(step) # Unknown
      <4>1. Answers(step).step = step /\ Unknown.step = 0
        BY DEF Answers, Unknown
      <4> QED
        BY <1>2, <4>1
    <3>6. PICK k \in Steps : k = step
      BY <1>2
    <3>7. StepDone(k)' /\ Answers(k)' = Answers(step) /\ previous' = Answers(k)'
      BY <1>1, <1>3, <1>6, <3>6
    <3>8. step' - 1 = k
      BY <1>1, <1>2, <3>6
    <3>9. outputs'[k] = Answers(k)' /\ \A s \in Steps : s # k => outputs'[s] = outputs[s]
      BY <1>1, <3>6, <3>7 DEF IInv, Typed, Indexed
    <3>10. \A s \in Steps :
              /\ outputs'[s] # Unknown => StepDone(s)' /\ outputs'[s] = Answers(s)'
              /\ plan[s] \in {"sequential", "fanout"} /\ logical[s] = "completed" =>
                    outputs'[s] # Unknown
      <4>1. ASSUME NEW s \in Steps, s # k
            PROVE  /\ outputs'[s] # Unknown => StepDone(s)' /\ outputs'[s] = Answers(s)'
                   /\ plan[s] \in {"sequential", "fanout"} /\ logical[s] = "completed" =>
                         outputs'[s] # Unknown
        BY <1>3, <3>3, <3>6, <3>9, <4>1 DEF Current
      <4> QED
        BY <4>1, <3>5, <3>7, <3>9
    <3>11. Current([s \in Steps |-> IF call = "collect" /\ s = step THEN "running"
                                                 ELSE logical[s]], outputs)'
      BY <1>1, <1>3, <1>5, <3>10 DEF Current, Unknown
    <3> QED
      BY <1>1, <3>2, <3>7, <3>8, <3>11 DEF Held, Busy
  <2> QED
    BY <1>5, <2>1 DEF Valued
<1>11. Begins'
  <2>1. ASSUME NEW u \in Unit, Fresh(u)' PROVE Fresh(u)
    <3>1. u[1] \in Nat
      BY UnitFacts, TypesKnown DEF IInv
    <3> QED
      BY <1>1, <1>2, <1>4, <2>1, <3>1 DEF Fresh, Busy
  <2> QED
    BY <1>3, <2>1
<1> QED
  BY <1>3, <1>7, <1>8, <1>9, <1>10, <1>11 DEF IInv

(* Steps that neither the call nor a worker takes.                         *)
LEMMA QuietKeeps ==
    ASSUME IInv,
           UNCHANGED <<plan, unit, items, status, base, life, reopened, main, pool, work,
                       faults, crashes>>,
           saved' = saved \/ (saved' = Details /\ call \in Entered),
           abort' \in {"none", "user", "session_shutdown"}, alive' \subseteq alive,
           tree' \in [Tree -> {"none", "clean", "worked"}]
    PROVE  IInv'
<1>1. /\ Keeps /\ Steps' = Steps /\ Units' = Units
      /\ \A s \in Steps : ItemsOf(s)' = ItemsOf(s) /\ (StepDone(s)' <=> StepDone(s))
                           /\ (StepDone(s) => Answers(s)' = Answers(s))
  BY StillKeeps DEF IInv
<1>2. /\ plan' = plan /\ unit' = unit /\ items' = items /\ status' = status
      /\ base' = base /\ life' = life /\ reopened' = reopened /\ work' = work
      /\ faults' = faults /\ crashes' = crashes /\ call' = call /\ step' = step
      /\ logical' = logical /\ outputs' = outputs /\ previous' = previous /\ outcome' = outcome
      /\ slots' = slots /\ next' = next /\ Count' = Count
  BY DEF main, pool, Count
<1>3. Typed'
  <2>1. saved'.steps = [s \in Steps |-> saved'.steps[s]]
        /\ saved'.outputs = [s \in Steps |-> saved'.outputs[s]]
    BY DEF IInv, Typed, Indexed, Details
  <2> QED
    BY <1>1, <1>2, <2>1, TypedNow, TypedNext
<1>4. Placed'
  <2>1. (life = 0 => /\ call = "off" /\ status = "none"
                     /\ \A u \in Unit : unit[u] = Absent
                     /\ \A s \in Steps : items[s] = Unexpanded
                     /\ step = 1 /\ previous = Unknown /\ reopened = 0 /\ alive = {}
                     /\ \A s \in Steps : logical[s] = "queued" /\ outputs[s] = Unknown)'
    BY <1>1, <1>2 DEF IInv, Placed, Unexpanded, Unknown, Absent, Unit
  <2>2. (life # 0 => /\ \A u \in Units : unit[u].status # "absent"
                     /\ \A u \in Unit \ Units : unit[u] = Absent)'
    BY <1>1, <1>2 DEF IInv, Placed, Absent, Unit
  <2>5. (\A u \in Unit : work[u].pc = "none" => work[u] = Idle)'
    <3>1. \A u \in Unit : work[u].pc = "none" => work[u] = Idle
      BY DEF IInv, Placed
    <3> QED
      BY <1>2, <3>1 DEF Idle, NoTree, Unit
  <2>6. (\A u \in Unit : work[u].pc # "none" =>
               /\ u \in Units /\ u[1] = step
               /\ \/ call = "one" /\ u[2] = 0
                  \/ call = "pool" /\ u[2] \in 1..Count /\ u[2] < next)'
    <3>1. \A u \in Unit : work[u].pc # "none" =>
               /\ u \in Units /\ u[1] = step
               /\ \/ call = "one" /\ u[2] = 0
                  \/ call = "pool" /\ u[2] \in 1..Count /\ u[2] < next
      BY DEF IInv, Placed
    <3> QED
      BY <1>1, <1>2, <3>1 DEF Unit
  <2>3. /\ (\A u \in Unit : work[u].pc = "none" => work[u] = Idle)'
        /\ (\A u \in Unit : work[u].pc # "none" =>
               /\ u \in Units /\ u[1] = step
               /\ \/ call = "one" /\ u[2] = 0
                  \/ call = "pool" /\ u[2] \in 1..Count /\ u[2] < next)'
    BY <2>5, <2>6
  <2>4. (/\ call # "off" => status = "running"
         /\ call \in Entered \cup {"collect"} => step \in Steps
         /\ call = "one" => plan[step] \in {"single", "sequential"}
         /\ call \in {"expand", "collect"} => plan[step] = "fanout"
         /\ call = "pool" => \/ plan[step] = "parallel"
                             \/ plan[step] = "fanout" /\ items[step] \in 1..MaxItems)'
    BY <1>1, <1>2 DEF IInv, Placed, Entered
  <2> QED
    BY <2>1, <2>2, <2>3, <2>4 DEF Placed
<1>5. Ordered'
  BY <1>1, <1>2, TypesKnown DEF IInv, Ordered, Busy, Entered, Unexpanded, Steps
<1>6. Offered'
  BY <1>1, <1>2 DEF IInv, Offered, Busy, Unit
<1>7. Told'
  BY <1>1, <1>2 DEF IInv, Told, Unit, Unexpanded
<1>8. Valued'
  <2>1. ASSUME reopened = 0 PROVE Held'
    <3>1. Held
      BY <2>1 DEF IInv, Valued
    <3>2. ASSUME saved' = saved PROVE Held'
      BY <1>1, <1>2, <3>1, <3>2, CurrentStays DEF IInv
    <3>3. ASSUME saved' = Details, call \in Entered PROVE Held'
      <4>1. Current([s \in Steps |-> IF call = "collect" /\ s = step THEN "running"
                                                 ELSE logical[s]], outputs)
        BY <3>1, <3>3 DEF Held, Entered
      <4>2. /\ Current(saved.steps, saved.outputs)'
            /\ Current([s \in Steps |-> IF call = "collect" /\ s = step THEN "running"
                                                 ELSE logical[s]], outputs)'
        BY <1>1, <1>2, <3>3, <4>1 DEF Current, Details, Unknown, Entered
      <4>3. Current(base.steps, base.outputs)'
        BY <1>1, <1>2, <3>1 DEF Current, Held, Unknown
      <4>4. ASSUME step > 1 PROVE (previous = Answers(step - 1))'
        <5>1. step - 1 \in Steps /\ step - 1 \in 1..(step - 1)
          BY <4>4, TypesKnown, PlanFacts DEF Steps, IInv
        <5>2. PICK k \in Steps : k = step - 1
          BY <5>1
        <5>3. previous = Answers(k) /\ StepDone(k)
          BY <3>1, <3>3, <4>4, <5>1, <5>2 DEF Held, IInv, Ordered, Busy, Entered
        <5>4. previous' = Answers(k)'
          BY <1>1, <1>2, <5>3, <5>2
        <5> QED
          BY <1>2, <5>4, <5>2
      <4> QED
        BY <1>2, <4>2, <4>3, <4>4 DEF Held
    <3> QED
      BY <3>2, <3>3
  <2> QED
    BY <1>2, <2>1 DEF Valued
<1>9. Settled'
  BY <1>1, <1>2 DEF IInv, Settled, Unit, AtWork
<1>10. Begins'
  BY <1>1, <1>2 DEF IInv, Begins, Fresh, Unit, Busy, NoTree
<1> QED
  BY <1>3, <1>4, <1>5, <1>6, <1>7, <1>8, <1>9, <1>10 DEF IInv

LEMMA Quiet ==
    ASSUME IInv, \/ Flush
                 \/ \E origin \in Origins[plan] : Abort(origin)
                 \/ \E u \in Unit : ChildDies(u) \/ Works(u)
    PROVE  IInv'
<1>1. /\ tree \in [Tree -> {"none", "clean", "worked"}]
      /\ abort \in {"none", "user", "session_shutdown"} /\ plan \in Plans
      /\ work \in [Unit -> Workers]
  BY TypesKnown DEF IInv, Typed, TypeOK
<1>2. CASE Flush
  BY <1>1, <1>2, QuietKeeps DEF Flush, session, bounds, Entered
<1>3. CASE \E origin \in Origins[plan] : Abort(origin)
  <2>1. PICK origin \in Origins[plan] : Abort(origin)
    BY <1>3
  <2>2. origin \in {"user", "session_shutdown"}
    BY <1>1, WorkflowAssumption
  <2> QED
    BY <1>1, <2>1, <2>2, QuietKeeps DEF Abort, record, bounds
<1>4. CASE \E u \in Unit : ChildDies(u)
  BY <1>1, <1>4, QuietKeeps DEF ChildDies, record, session, bounds
<1>5. CASE \E u \in Unit : Works(u)
  <2>1. PICK u \in Unit : Works(u)
    BY <1>5
  <2>2. tree' \in [Tree -> {"none", "clean", "worked"}]
    BY <1>1, <2>1 DEF Works
  <2> QED
    BY <1>1, <2>1, <2>2, QuietKeeps DEF Works, record, session, bounds
<1> QED
  BY <1>2, <1>3, <1>4, <1>5

-----------------------------------------------------------------------------
(* The process leaves the run.                                             *)
LEMMA OffKeeps ==
    ASSUME IInv, call # "off", Leaves,
           UNCHANGED <<plan, unit, items, tree, background, base, life, reopened>>,
           work' = [u \in Unit |-> Idle],
           saved' = saved \/ saved' = base \/ (saved' = Details /\ call = "finish"),
           status' \in {"running", "completed", "failed", "cancelled", "interrupted"},
           status' = "completed" => \A s \in Steps : StepDone(s),
           alive' \subseteq alive, faults' \in Nat, crashes' \in Nat,
           faults' = 0 => alive' = {},
           faults' = 0 /\ status' # "running" => \A u \in Unit : unit[u].status # "running"
    PROVE  IInv'
<1>1. /\ Keeps /\ Steps' = Steps /\ Units' = Units
      /\ \A s \in Steps : ItemsOf(s)' = ItemsOf(s) /\ (StepDone(s)' <=> StepDone(s))
                           /\ (StepDone(s) => Answers(s)' = Answers(s))
  BY StillKeeps DEF IInv
<1>2. /\ plan' = plan /\ unit' = unit /\ items' = items /\ base' = base /\ life' = life
      /\ reopened' = reopened /\ call' = "off" /\ step' = 1 /\ outcome' = "ok"
      /\ logical' = NoDetails(plan).steps /\ outputs' = NoDetails(plan).outputs
      /\ slots' = [i \in 0..MaxItems |-> "queued"] /\ next' = 1 /\ abort' = "none"
      /\ tree' = tree
  BY DEF Leaves
<1>3. \A u \in Unit : work'[u] = Idle /\ Idle.pc = "none" /\ Idle.tree = NoTree
                                     /\ Idle.keep = NoTree
  BY DEF Idle
<1>4. Typed'
  <2>1. /\ logical' = [s \in Steps |-> logical'[s]] /\ outputs' = [s \in Steps |-> outputs'[s]]
        /\ saved'.steps = [s \in Steps |-> saved'.steps[s]]
        /\ saved'.outputs = [s \in Steps |-> saved'.outputs[s]]
    <3>1. plan \in Plans /\ DOMAIN plan = Steps
      BY PlanFacts, TypesKnown DEF IInv
    <3> QED
      BY <1>2, <3>1 DEF IInv, Typed, Indexed, Details, NoDetails
  <2>2. work' \in [Unit -> Workers]
    BY DEF Idle, Workers, WorkerPcs, Trees, Ends
  <2>3. step' \in 1..(Len(plan) + 1) /\ next' \in 1..(MaxItems + 1)
    BY <1>2, PlanFacts, TypesKnown DEF IInv
  <2>4. slots' = [i \in 0..MaxItems |-> slots'[i]]
    BY <1>2
  <2> QED
    BY <1>1, <1>2, <2>1, <2>2, <2>3, <2>4, TypedNow, TypedNext
<1>5. Placed'
  <2>1. life # 0
    BY DEF IInv, Placed
  <2> QED
    BY <1>1, <1>2, <1>3, <2>1 DEF IInv, Placed, Entered, Absent, Idle, Unit
<1>6. Ordered'
  BY <1>1, <1>2 DEF Ordered, Busy, Entered
<1>7. Offered'
  BY <1>1, <1>2, <1>3 DEF Offered, Busy, Unit
<1>8. Told'
  BY <1>1, <1>2, <1>3 DEF IInv, Told, Unit, Unexpanded
<1>9. Valued'
  <2>1. ASSUME reopened = 0 PROVE Held'
    <3>1. Held
      BY <2>1 DEF IInv, Valued
    <3>2. call = "finish" => Current(logical, outputs)
      BY <3>1 DEF Held, Current
    <3>3. /\ Current(saved.steps, saved.outputs) /\ Current(base.steps, base.outputs)
          /\ saved' = Details => Current(Details.steps, Details.outputs) \/ saved' = saved
                                 \/ saved' = base
      BY <3>1, <3>2 DEF Held, Details
    <3>4. Current(saved'.steps, saved'.outputs)
      BY <3>3
    <3>5. Current(base.steps, base.outputs)'
      BY <1>1, <1>2, <3>3 DEF Current, Unknown
    <3>6. Current(saved.steps, saved.outputs)'
      BY <1>1, <1>2, <3>4 DEF Current, Unknown
    <3> QED
      BY <1>2, <3>5, <3>6 DEF Held, Busy
  <2> QED
    BY <1>2, <2>1 DEF Valued
<1>10. Settled'
  BY <1>2 DEF Settled, Unit, AtWork
<1>11. Begins'
  BY <1>2, <1>3 DEF IInv, Begins, Fresh, Unit, Busy, NoTree
<1> QED
  BY <1>4, <1>5, <1>6, <1>7, <1>8, <1>9, <1>10, <1>11 DEF IInv

LEMMA FinishedIdle ==
    ASSUME IInv, call = "finish"
    PROVE  /\ work = [u \in Unit |-> Idle] /\ status = "running" /\ alive \subseteq Unit
           /\ faults = 0 => alive = {} /\ \A u \in Unit : unit[u].status # "running"
<1>1. \A u \in Unit : work[u].pc = "none" /\ work[u] = Idle
  BY DEF IInv, Placed
<1>2. work = [u \in Unit |-> Idle] /\ alive \subseteq Unit
  BY <1>1, TypesKnown DEF IInv
<1>3. faults = 0 => alive = {} /\ \A u \in Unit : unit[u].status # "running"
  BY <1>1, <1>2 DEF IInv, Settled, AtWork
<1> QED
  BY <1>2, <1>3 DEF IInv, Placed

LEMMA DerivedWhole ==
    ASSUME IInv, call = "finish", EndStatus = "completed"
    PROVE  \A s \in Steps : StepDone(s)
<1>1. outcome = "ok" /\ Derived = "completed"
  BY DEF EndStatus
<1>2. ASSUME NEW u \in Units PROVE unit[u].status = "completed"
  <2>1. unit[u].status \in UnitStatuses
    BY TypesKnown DEF IInv, Units, UnitRecords
  <2>2. unit[u].status # "absent"
    BY DEF IInv, Placed
  <2>3. \A x \in {"running", "queued", "interrupted", "failed", "cancelled"} : unit[u].status # x
    BY <1>1 DEF Derived
  <2> QED
    BY <2>1, <2>2, <2>3 DEF UnitStatuses
<1>3. ASSUME NEW s \in Steps PROVE StepDone(s)
  BY <1>1, <1>2, ItemFacts, TypesKnown DEF IInv, Ordered, StepDone
<1> QED
  BY <1>3

LEMMA Leaving ==
    ASSUME IInv, Finalized \/ FinalizeFails \/ Crash
    PROVE  IInv'
<1>1. faults \in Nat /\ crashes \in Nat
  BY DEF IInv, Typed
<1>2. CASE Finalized
  <2>1. /\ call = "finish" /\ status' = EndStatus /\ Leaves
        /\ saved' = base \/ saved' = Details
        /\ UNCHANGED <<plan, unit, items, tree, background, base, life, reopened, work, alive,
                       faults, crashes>>
    BY <1>2 DEF Finalized, bounds
  <2>2. status' \in {"running", "completed", "failed", "cancelled", "interrupted"}
    BY <2>1 DEF EndStatus, Derived
  <2> QED
    BY <1>1, <2>1, <2>2, FinishedIdle, DerivedWhole, OffKeeps
<1>3. CASE FinalizeFails
  <2>1. /\ call = "finish" /\ Leaves /\ faults' = faults + 1
        /\ UNCHANGED <<plan, unit, items, tree, background, base, life, reopened, work, alive,
                       crashes, saved, status>>
    BY <1>3 DEF FinalizeFails, Fault, record
  <2> QED
    BY <1>1, <2>1, FinishedIdle, OffKeeps
<1>4. CASE Crash
  <2>1. /\ call # "off" /\ Leaves /\ crashes' = crashes + 1 /\ alive' = {}
        /\ work' = [u \in Unit |-> Idle]
        /\ UNCHANGED <<plan, unit, items, tree, background, base, life, reopened,
                       faults, saved, status>>
    BY <1>4 DEF Crash, record
  <2>2. status = "running"
    BY <2>1 DEF IInv, Placed
  <2> QED
    BY <1>1, <2>1, <2>2, OffKeeps
<1> QED
  BY <1>2, <1>3, <1>4

-----------------------------------------------------------------------------
(* A unit ends.                                                            *)
LEMMA EndFailsKeeps == ASSUME IInv, NEW u \in Unit, EndFails(u) PROVE IInv'
<1>1. /\ work[u].pc = "ending" /\ faults' = faults + 1
      /\ UNCHANGED <<record, tree, slots, next, alive, session, life, crashes, reopened>>
  BY DEF EndFails, At, Fault
<1>2. /\ UNCHANGED <<plan, unit, items, status, saved, base, life, reopened, tree, alive, abort,
                     crashes, slots, next>>
      /\ faults \in Nat /\ crashes \in Nat /\ faults' \in Nat /\ faults' # 0
  BY <1>1, WorkerFacts DEF record, session
<1>3. CASE work[u].again
  <2>1. Ending(u, "failed", work[u].tree, FALSE) /\ UNCHANGED <<main, broken>>
    BY <1>3 DEF EndFails
  <2>2. UNCHANGED <<record, main, pool, session, life, reopened>>
    BY <1>1, <2>1 DEF pool
  <2>3. work[u].tree \in Trees /\ "failed" \in Ends /\ tree \in [Tree -> {"none", "clean", "worked"}]
    BY <1>1, TreesMade, TypesKnown DEF Ends, IInv
  <2> QED
    BY <1>1, <1>2, <2>1, <2>2, <2>3, WorkerEnds, WorkerFacts
<1>4. CASE ~work[u].again
  <2>1. /\ work' = [work EXCEPT ![u] = Idle]
        /\ \/ /\ call = "one" /\ outcome' = "thrown" /\ call' = "finish"
              /\ UNCHANGED <<step, logical, outputs, previous, broken>>
           \/ call # "one" /\ UNCHANGED main
    BY <1>4 DEF EndFails, Goes
  <2>2. /\ work' \in [Unit -> Workers] /\ work'[u] = Idle /\ Idle.pc = "none"
        /\ Idle.tree = NoTree /\ Idle.keep = NoTree
        /\ \A v \in Unit : v # u => work'[v] = work[v]
    BY <2>1, TypesKnown DEF IInv, Idle, Workers, WorkerPcs, Trees, Ends
  <2>3. /\ Keeps /\ Steps' = Steps /\ Units' = Units
        /\ \A s \in Steps : ItemsOf(s)' = ItemsOf(s) /\ (StepDone(s)' <=> StepDone(s))
                             /\ (StepDone(s) => Answers(s)' = Answers(s))
    BY <1>2, StillKeeps DEF IInv
  <2>4. /\ call \in {"one", "pool"} /\ step' = step /\ logical' = logical /\ outputs' = outputs
        /\ previous' = previous /\ Count' = Count
        /\ \/ call = "one" /\ call' = "finish" /\ outcome' = "thrown"
           \/ call = "pool" /\ call' = "pool" /\ outcome' = outcome
    BY <1>1, <1>2, <2>1, WorkerFacts DEF main, Count
  <2>5. Typed'
    BY <1>2, <2>2, <2>3, <2>4, TypedNow, TypedNext
  <2>6. Placed'
    <3>1. /\ life # 0 /\ status = "running"
          /\ \A v \in Units : unit[v].status # "absent"
          /\ \A v \in Unit \ Units : unit[v] = Absent
      BY <2>4 DEF IInv, Placed
    <3>2. \A v \in Unit : work'[v].pc = "none" => work'[v] = Idle
      BY <2>2 DEF IInv, Placed
    <3>3. \A v \in Unit : work'[v].pc # "none" =>
              v \in Units /\ v[1] = step /\ call' = "pool" /\ v[2] \in 1..Count /\ v[2] < next
      <4>1. ASSUME NEW v \in Unit, work'[v].pc # "none" PROVE v # u /\ work'[v] = work[v]
        BY <2>2, <4>1
      <4>2. call = "one" => \A v \in Unit : work[v].pc # "none" => v = u
        BY <1>1, UnitFacts, TypesKnown DEF IInv, Placed
      <4> QED
        BY <2>4, <4>1, <4>2 DEF IInv, Placed
    <3>4. /\ call' = "pool" => step \in Steps
          /\ call' = "pool" => \/ plan[step] = "parallel"
                               \/ plan[step] = "fanout" /\ items[step] \in 1..MaxItems
      BY <2>4 DEF IInv, Placed, Entered
    <3> QED
      BY <1>2, <2>3, <2>4, <3>1, <3>2, <3>3, <3>4 DEF Placed, Entered, Absent, Idle, Unit
  <2>7. Ordered'
    <3>1. /\ \A s \in 1..(step - 1) : s \in Steps /\ StepDone(s)
          /\ \A s \in Steps : plan[s] # "parallel" /\ logical[s] = "completed" => StepDone(s)
          /\ plan[step] # "parallel" => logical[step] = "running"
          /\ status = "completed" => \A s \in Steps : StepDone(s)
      BY <2>4, TypesKnown, PlanFacts DEF IInv, Ordered, Busy, Entered, Steps
    <3>2. \A s \in 1..(step' - 1) : StepDone(s)'
      BY <2>3, <2>4, <3>1
    <3> QED
      BY <1>2, <2>3, <2>4, <3>1, <3>2 DEF Ordered, Entered
  <2>8. Offered'
    <3>1. \A v \in Unit : work'[v].pc # "none" => unit[v].status # "completed"
      BY <2>2 DEF IInv, Offered
    <3> QED
      BY <1>2, <2>3, <2>4, <3>1 DEF IInv, Offered, Busy, Unit
  <2>9. Told'
    BY <1>2, <2>2, <2>3 DEF IInv, Told, Unit, Unexpanded
  <2>10. Valued'
    <3>1. ASSUME reopened = 0 PROVE Held'
      <4>1. Held
        BY <3>1 DEF IInv, Valued
      <4>2. Current(saved.steps, saved.outputs)' /\ Current(base.steps, base.outputs)'
        BY <1>2, <2>3, <4>1, SavedStays
      <4>3. Current([s \in Steps |-> IF call = "collect" /\ s = step THEN "running"
                                                 ELSE logical[s]], outputs)'
        BY <1>2, <2>3, <2>4, <4>1 DEF Current, Keeps, Unknown, Held
      <4>5. ASSUME step > 1 PROVE (previous = Answers(step - 1))'
        <5>1. step - 1 \in Steps /\ step - 1 \in 1..(step - 1)
          BY <4>5, TypesKnown, PlanFacts DEF Steps, IInv
        <5>2. PICK k \in Steps : k = step - 1
          BY <5>1
        <5>3. previous = Answers(k) /\ StepDone(k)
          BY <2>4, <4>1, <4>5, <5>1, <5>2 DEF Held, IInv, Ordered, Busy
        <5>4. previous' = Answers(k)'
          BY <2>3, <2>4, <5>3, <5>2
        <5> QED
          BY <2>4, <5>4, <5>2
      <4> QED
        BY <2>4, <4>2, <4>3, <4>5 DEF Held
    <3> QED
      BY <1>2, <3>1 DEF Valued
  <2>11. Settled'
    BY <1>2 DEF Settled
  <2>12. Begins'
    <3>1. \A v \in Unit : Fresh(v)' => Fresh(v)
      BY <1>2, <2>2, <2>4 DEF Fresh, Busy
    <3> QED
      BY <1>2, <2>2, <3>1 DEF IInv, Begins, Unit, NoTree
  <2> QED
    BY <2>5, <2>6, <2>7, <2>8, <2>9, <2>10, <2>11, <2>12 DEF IInv
<1> QED
  BY <1>3, <1>4

LEMMA EndWrittenKeeps == ASSUME IInv, NEW u \in Unit, EndWritten(u) PROVE IInv'
<1> DEFINE e == work[u].ends
           r == [unit[u] EXCEPT !.status = e, !.tree = work[u].keep]
<1>1. /\ work[u].pc = "ending" /\ work' = [work EXCEPT ![u] = Idle]
      /\ unit' = [unit EXCEPT ![u] = r]
      /\ slots' = [slots EXCEPT ![u[2]] = IF e = "interrupted" THEN "cancelled" ELSE e]
      /\ IF call = "one" THEN OneEnds(e) ELSE UNCHANGED main
      /\ UNCHANGED <<plan, items, status, saved, tree, next, broken, alive, session, bounds>>
  BY DEF EndWritten, At, Goes
<1>2. /\ plan' = plan /\ items' = items /\ status' = status /\ saved' = saved /\ tree' = tree
      /\ next' = next /\ alive' = alive /\ abort' = abort /\ base' = base
      /\ life' = life /\ faults' = faults /\ crashes' = crashes /\ reopened' = reopened
  BY <1>1 DEF session, bounds
<1>3. /\ unit[u] \in UnitRecords /\ work[u] \in Workers /\ u \in Units /\ u[1] = step
      /\ call \in {"one", "pool"} /\ unit[u].status # "completed" /\ life # 0
  BY <1>1, WorkerFacts
<1>4. /\ e \in Ends /\ r \in UnitRecords /\ r.status = e /\ r.tree = work[u].keep
      /\ r.told = unit[u].told /\ r.attempts = unit[u].attempts
  BY <1>3 DEF Workers, UnitRecords, Ends, UnitStatuses
<1> HIDE DEF r, e
<1>5. /\ unit' \in [Unit -> UnitRecords] /\ unit'[u] = r
      /\ \A v \in Unit : v # u => unit'[v] = unit[v]
  BY <1>1, <1>4, TypesKnown DEF IInv
<1>6. /\ work' \in [Unit -> Workers] /\ work'[u] = Idle /\ Idle.pc = "none"
      /\ Idle.tree = NoTree /\ Idle.keep = NoTree
      /\ \A v \in Unit : v # u => work'[v] = work[v]
  BY <1>1, TypesKnown DEF IInv, Idle, Workers, WorkerPcs, Trees, Ends
<1>7. /\ Keeps /\ Steps' = Steps /\ Units' = Units
      /\ \A s \in Steps : ItemsOf(s)' = ItemsOf(s)
  <2>1. Steps' = Steps /\ \A s : ItemsOf(s)' = ItemsOf(s)
    BY <1>2 DEF Steps, ItemsOf, Unexpanded
  <2>2. Units' = Units
    BY <2>1 DEF Units, Unit
  <2>3. \A v \in Units : unit[v].status = "completed" => unit'[v] = unit[v]
    BY <1>3, <1>5 DEF Units
  <2>4. ASSUME NEW s \in Steps, StepDone(s) PROVE StepDone(s)' /\ Answers(s)' = Answers(s)
    BY <1>2, <2>3, <2>4, DoneStays, TypesKnown DEF IInv
  <2> QED
    BY <1>2, <2>1, <2>2, <2>4 DEF Keeps, Unexpanded
<1>8. /\ step \in Steps /\ step \in Nat /\ Len(plan) \in Nat /\ step >= 1 /\ step <= Len(plan)
      /\ u[2] \in 0..MaxItems /\ u = <<step, u[2]>>
  BY <1>3, TypesKnown, PlanFacts, UnitFacts DEF IInv, Units, Steps
<1>9. call = "one" => /\ plan[step] \in {"single", "sequential"} /\ logical[step] = "running"
                      /\ u[2] = 0
                      /\ \A v \in Unit : work'[v].pc = "none"
  <2>1. ASSUME call = "one" PROVE /\ plan[step] \in {"single", "sequential"} /\ u[2] = 0
                                  /\ logical[step] = "running"
    BY <1>1, <2>1 DEF IInv, Placed, Ordered, Entered
  <2>2. ASSUME call = "one", NEW v \in Unit PROVE work'[v].pc = "none"
    <3>1. work[v].pc # "none" => v = u
      BY <1>1, <1>8, <2>1, <2>2, UnitFacts, TypesKnown DEF IInv, Placed
    <3> QED
      BY <3>1, <1>6
  <2> QED
    BY <2>1, <2>2
<1>30. PICK k \in Steps : k = step
  BY <1>8
<1>10. call = "one" /\ e = "completed" => StepDone(k)' /\ Answers(k)' = Answers(step)
  <2>1. ASSUME call = "one", e = "completed" PROVE StepDone(k)'
    <3>1. ItemsOf(k) = {0} /\ plan[k] # "fanout" /\ u = <<k, 0>>
      BY <1>8, <1>9, <1>30, <2>1, ItemFacts, TypesKnown DEF IInv
    <3> QED
      BY <1>2, <1>4, <1>5, <1>7, <2>1, <3>1 DEF StepDone
  <2>2. ASSUME call = "one" PROVE Answers(k)' = Answers(step)
    <3>1. plan[k] \in {"single", "sequential"} /\ u = <<k, 0>>
      BY <1>8, <1>9, <1>30, <2>2
    <3> QED
      BY <1>2, <1>4, <1>5, <1>30, <3>1 DEF Answers
  <2> QED
    BY <2>1, <2>2
<1>11. call = "one" => Answers(step) = [step |-> step, value |-> <<r.attempts>>]
  BY <1>4, <1>8, <1>9 DEF Answers
<1>12. \/ /\ call = "pool" /\ UNCHANGED main
       \/ /\ call = "one" /\ e # "completed" /\ call' = "finish" /\ outcome' = "error"
          /\ UNCHANGED <<step, outputs, previous>>
          /\ logical' = [s \in Steps |-> logical'[s]]
          /\ \A s \in Steps : logical'[s] = "completed" => logical[s] = "completed" /\ s # step
       \/ /\ call = "one" /\ e = "completed" /\ plan[step] = "single" /\ call' = "finish"
          /\ outcome' = "ok"
          /\ UNCHANGED <<step, outputs, previous>>
          /\ logical' = [logical EXCEPT ![step] = "completed"]
       \/ /\ call = "one" /\ e = "completed" /\ plan[step] = "sequential" /\ call' = "top"
          /\ outcome' = "ok" /\ step' = step + 1
          /\ outputs' = [outputs EXCEPT ![step] = Answers(step)] /\ previous' = Answers(step)
          /\ logical' = [logical EXCEPT ![step] = "completed"]
  <2>1. CASE call = "pool"
    BY <1>1, <2>1
  <2>2. CASE call = "one" /\ e # "completed"
    <3>1. \E s \in {"failed", "cancelled"} : Return("error", s) /\ UNCHANGED <<step, outputs, previous>>
      BY <1>1, <2>2 DEF OneEnds
    <3> QED
      BY <2>2, <3>1 DEF Return, LaterSkipped
  <2>3. CASE call = "one" /\ e = "completed"
    BY <1>1, <1>9, <2>3 DEF OneEnds
  <2> QED
    BY <1>3, <2>1, <2>2, <2>3
<1>13. /\ call' \in {"pool", "finish", "top"} /\ outcome' \in {"ok", "error", "thrown"}
       /\ step' \in 1..(Len(plan) + 1)
       /\ logical' = [s \in Steps |-> logical'[s]] /\ outputs' = [s \in Steps |-> outputs'[s]]
       /\ slots' = [i \in 0..MaxItems |-> slots'[i]]
       /\ call' = "pool" => call = "pool" /\ UNCHANGED main
       /\ call # "pool" => call = "one"
  <2>1. /\ step \in 1..(Len(plan) + 1) /\ step + 1 \in 1..(Len(plan) + 1)
        /\ outcome \in {"ok", "error", "thrown"}
    BY <1>8 DEF IInv, Typed, TypeOK
  <2>2. /\ logical = [s \in Steps |-> logical[s]] /\ outputs = [s \in Steps |-> outputs[s]]
        /\ slots = [i \in 0..MaxItems |-> slots[i]]
    BY DEF IInv, Typed, Indexed
  <2>3. slots' = [i \in 0..MaxItems |-> slots'[i]]
    BY <1>1, <2>2
  <2>4. logical' = [s \in Steps |-> logical'[s]]
    BY <1>12, <2>2 DEF main
  <2>5. outputs' = [s \in Steps |-> outputs'[s]]
    BY <1>12, <2>2 DEF main
  <2> QED
    BY <1>12, <2>1, <2>3, <2>4, <2>5, <1>3 DEF main
<1>14. Typed'
  BY <1>2, <1>5, <1>6, <1>7, <1>13, TypedNow, TypedNext
<1>31. status = "running"
  BY <1>3 DEF IInv, Placed
<1>15. Placed'
  <2>1. \A v \in Units : unit'[v].status # "absent"
    BY <1>3, <1>4, <1>5 DEF IInv, Placed, Units, Ends
  <2>2. \A v \in Unit \ Units : unit'[v] = Absent
    BY <1>3, <1>5 DEF IInv, Placed
  <2>3. \A v \in Unit : work'[v].pc = "none" => work'[v] = Idle
    BY <1>6 DEF IInv, Placed
  <2>4. call' = "pool" => Count' = Count /\ step' = step
    BY <1>2, <1>13 DEF main, Count
  <2>5. \A v \in Unit : work'[v].pc # "none" =>
            v \in Units /\ v[1] = step /\ call' = "pool" /\ v[2] \in 1..Count /\ v[2] < next
    <3>1. ASSUME NEW v \in Unit, work'[v].pc # "none" PROVE v # u /\ work'[v] = work[v] /\ call = "pool"
      BY <1>3, <1>6, <1>9, <3>1
    <3> QED
      BY <1>12, <3>1 DEF IInv, Placed, main
  <2>6. /\ call' = "pool" => step \in Steps
        /\ call' = "pool" => \/ plan[step] = "parallel"
                             \/ plan[step] = "fanout" /\ items[step] \in 1..MaxItems
    BY <1>13 DEF IInv, Placed, Entered
  <2> QED
    BY <1>2, <1>3, <1>7, <1>13, <1>31, <2>1, <2>2, <2>3, <2>4, <2>5, <2>6 DEF Placed, Entered, Absent, Idle, Unit
<1>16. Ordered'
  <2>1. /\ \A s \in 1..(step - 1) : s \in Steps /\ StepDone(s)'
        /\ \A s \in Steps : plan[s] # "parallel" /\ logical[s] = "completed" => StepDone(s)'
        /\ plan[step] # "parallel" => logical[step] = "running"
    BY <1>3, <1>7, <1>8 DEF IInv, Ordered, Busy, Entered, Steps, Keeps
  <2>2. call' \in Busy => \A s \in 1..(step' - 1) : StepDone(s)'
    <3>1. CASE call' = "pool"
      BY <1>13, <2>1, <3>1 DEF main
    <3>2. CASE call' = "top"
      <4>1. step' = step + 1 /\ StepDone(k)'
        BY <1>3, <1>10, <1>12, <3>2 DEF main
      <4>2. \A s \in 1..(step' - 1) : s \in 1..(step - 1) \/ s = k
        BY <1>8, <1>30, <4>1
      <4> QED
        BY <2>1, <4>1, <4>2
    <3> QED
      BY <1>13, <3>1, <3>2 DEF Busy
  <2>3. \A s \in Steps : plan[s] # "parallel" /\ logical'[s] = "completed" => StepDone(s)'
    <3>1. \A s \in Steps : \/ logical'[s] = logical[s]
                           \/ logical'[s] # "completed"
                           \/ s = step /\ call = "one" /\ e = "completed"
      BY <1>12 DEF main, IInv, Typed, Indexed
    <3> QED
      BY <1>10, <1>30, <2>1, <3>1
  <2>4. call' = "pool" => logical' = logical /\ step' = step
    BY <1>13 DEF main
  <2>5. call' = "finish" /\ outcome' = "ok" =>
          \A s \in Steps : plan[s] = "fanout" => items[s] # Unexpanded
    <3>1. ASSUME call' = "finish", outcome' = "ok" PROVE plan[step] = "single"
      BY <1>3, <1>12, <3>1 DEF main
    <3>2. plan[step] = "single" => \A s \in Steps : s = step
      BY <1>8, StepFacts, TypesKnown DEF IInv, Steps
    <3> QED
      BY <3>1, <3>2
  <2> QED
    BY <1>2, <1>7, <1>13, <1>31, <2>1, <2>2, <2>3, <2>4, <2>5 DEF Ordered, Entered, Unexpanded
<1>17. Offered'
  <2>1. ASSUME NEW s \in Steps, s > step, call' \in Busy
        PROVE  /\ plan[s] = "single" => unit'[<<s, 0>>].status # "completed"
               /\ plan[s] = "sequential" /\ unit'[<<s, 0>>].status = "completed" =>
                     logical'[s] = "completed"
    <3>1. <<s, 0>> \in Unit /\ <<s, 0>> # u /\ s # step
      BY <1>3, <1>8, <2>1, PlanFacts, StepFacts, TypesKnown DEF IInv
    <3>2. logical'[s] = logical[s]
      BY <1>12, <2>1, <3>1 DEF main, IInv, Typed, Indexed, Busy
    <3>3. unit'[<<s, 0>>] = unit[<<s, 0>>]
      BY <1>5, <3>1
    <3> QED
      BY <1>3, <2>1, <3>2, <3>3 DEF IInv, Offered, Busy
  <2>2. ASSUME NEW s \in Steps, call' \in Busy, s > step' \/ (s = step' /\ call' = "top")
        PROVE  s > step
    <3>1. \/ call' = "pool" /\ step' = step
          \/ call' = "top" /\ step' = step + 1
      BY <1>3, <1>12, <2>2 DEF main, Busy
    <3>2. s \in Nat
      BY StepFacts, TypesKnown DEF IInv
    <3> QED
      BY <1>8, <2>2, <3>1, <3>2
  <2>3. ASSUME call' = "pool", NEW i \in 1..Count
        PROVE  slots'[i] = "completed" <=> unit'[<<step, i>>].status = "completed"
    <3>1. Count \in Nat /\ i \in 0..MaxItems /\ <<step, i>> \in Unit
      <4>1. Count \in 0..MaxItems /\ MaxItems \in Nat
        BY <1>13, <2>3, PlanFacts, TypesKnown DEF IInv, Placed, Count
      <4>2. i \in 0..MaxItems
        BY <4>1
      <4> QED
        BY <4>1, <4>2, <1>8, StepFacts, TypesKnown DEF IInv
    <3>2. slots[i] = "completed" <=> unit[<<step, i>>].status = "completed"
      BY <1>13, <2>3 DEF IInv, Offered
    <3>3. CASE i = u[2]
      <4>1. u = <<step, i>>
        BY <1>8, <3>3
      <4>2. slots'[i] = IF e = "interrupted" THEN "cancelled" ELSE e
        BY <1>1, <3>1, <3>3 DEF IInv, Typed
      <4> QED
        BY <1>4, <1>5, <4>1, <4>2 DEF Ends
    <3>4. CASE i # u[2]
      <4>1. u # <<step, i>>
        BY <3>4
      <4>2. slots'[i] = slots[i]
        BY <1>1, <3>1, <3>4 DEF IInv, Typed
      <4> QED
        BY <1>5, <3>1, <3>2, <4>1, <4>2
    <3> QED
      BY <3>3, <3>4
  <2>4. \A v \in Unit : work'[v].pc # "none" => unit'[v].status # "completed"
    BY <1>5, <1>6 DEF IInv, Offered
  <2>5. call' = "pool" => Count' = Count /\ step' = step
    BY <1>2, <1>13 DEF main, Count
  <2> QED
    BY <1>2, <1>7, <2>1, <2>2, <2>3, <2>4, <2>5 DEF Offered, Unit, Busy
<1>18. Told'
  <2>1. e = "completed" => unit[u].told = "yes"
    BY <1>1 DEF e, IInv, Told
  <2>2. /\ \A v \in Unit : unit'[v].told = unit[v].told
        /\ \A v \in Unit : unit'[v].status = "completed" => unit[v].told = "yes"
    BY <1>4, <1>5, <2>1 DEF IInv, Told
  <2>3. /\ \A v \in Unit : work'[v].pc = "running" => unit[v].told = "yes"
        /\ \A v \in Unit : work'[v].pc = "ending" /\ work'[v].ends = "completed" =>
              unit[v].told = "yes"
    BY <1>6 DEF IInv, Told
  <2>4. reopened # 0 => /\ \A s \in Steps : plan[s] = "fanout" => items[s] # Unexpanded
                       /\ \A v \in Units : v \in Unit /\ unit[v].told = "yes"
    BY DEF IInv, Told, Units
  <2> QED
    BY <1>2, <1>7, <2>2, <2>3, <2>4 DEF Told, Unit, Unexpanded
<1>19. Valued'
  <2>1. ASSUME reopened = 0 PROVE Held'
    <3>1. Held
      BY <2>1 DEF IInv, Valued
    <3>2. Current(saved.steps, saved.outputs)' /\ Current(base.steps, base.outputs)'
      BY <1>2, <1>7, <3>1, SavedStays
    <3>3. \A s \in Steps :
             /\ outputs[s] # Unknown => StepDone(s)' /\ outputs[s] = Answers(s)'
             /\ plan[s] \in {"sequential", "fanout"} /\ logical[s] = "completed" =>
                   outputs[s] # Unknown
      BY <1>3, <1>7, <3>1 DEF Held, Current, Keeps
    <3>4. \A s \in Steps :
             /\ outputs'[s] # Unknown => StepDone(s)' /\ outputs'[s] = Answers(s)'
             /\ plan[s] \in {"sequential", "fanout"} /\ logical'[s] = "completed" =>
                   outputs'[s] # Unknown
      <4>1. CASE call' # "top"
        <5>1. /\ outputs' = outputs
              /\ \A s \in Steps : logical'[s] = "completed" =>
                    logical[s] = "completed" \/ plan[s] = "single"
          BY <1>12, <1>13, <4>1 DEF main, IInv, Typed, Indexed
        <5> QED
          BY <3>3, <5>1
      <4>2. CASE call' = "top"
        <5>1. /\ StepDone(k)' /\ outputs'[k] = Answers(k)'
              /\ \A s \in Steps : s # k => outputs'[s] = outputs[s] /\ logical'[s] = logical[s]
          BY <1>3, <1>10, <1>12, <1>30, <4>2 DEF main, IInv, Typed, Indexed
        <5>2. outputs'[k] # Unknown
          <6>1. outputs'[k].step = k /\ Unknown.step = 0
            BY <1>12, <4>2, <1>3, <1>10, <1>30, <5>1 DEF Answers, Unknown, main
          <6> QED
            BY <1>8, <1>30, <6>1
        <5>3. ASSUME NEW s \in Steps, s # k
              PROVE /\ outputs'[s] # Unknown => StepDone(s)' /\ outputs'[s] = Answers(s)'
                    /\ plan[s] \in {"sequential", "fanout"} /\ logical'[s] = "completed" =>
                          outputs'[s] # Unknown
          BY <3>3, <5>1, <5>3
        <5> QED
          BY <5>1, <5>2, <5>3
      <4> QED
        BY <4>1, <4>2
    <3>5. Current([s \in Steps |-> IF call = "collect" /\ s = step THEN "running"
                                                 ELSE logical[s]], outputs)'
      BY <1>2, <1>7, <1>13, <3>4 DEF Current, Unknown
    <3>6. ASSUME call' \in Busy, step' > 1 PROVE previous' = Answers(step - 1)'
      <4>1. CASE call' = "top"
        <5>1. step' - 1 = k /\ previous' = Answers(k)'
          BY <1>3, <1>8, <1>10, <1>12, <1>30, <4>1 DEF main
        <5> QED
          BY <5>1
      <4>2. CASE call' = "pool"
        <5>0. step' = step /\ previous' = previous /\ call = "pool"
          BY <1>13, <4>2 DEF main
        <5>1. step - 1 \in Steps /\ step - 1 \in 1..(step - 1)
          BY <3>6, <5>0, TypesKnown, PlanFacts DEF Steps, IInv
        <5>2. PICK j \in Steps : j = step - 1
          BY <5>1
        <5>3. previous = Answers(j) /\ StepDone(j)
          BY <3>1, <3>6, <5>0, <5>1, <5>2 DEF Held, IInv, Ordered, Busy
        <5>4. previous' = Answers(j)'
          BY <1>7, <5>0, <5>3 DEF Keeps
        <5> QED
          BY <5>0, <5>4, <5>2
      <4> QED
        BY <1>13, <3>6, <4>1, <4>2 DEF Busy
    <3> QED
      BY <3>2, <3>5, <3>6 DEF Held, Busy
  <2> QED
    BY <1>2, <2>1 DEF Valued
<1>20. Settled'
  <2>1. ASSUME faults = 0
        PROVE  /\ \A v \in alive : work'[v].pc \in {"establishing", "running"}
               /\ \A v \in Unit : unit'[v].status = "running" => work'[v].pc \in AtWork
    <3>1. /\ \A v \in alive : v \in Unit /\ work[v].pc \in {"establishing", "running"}
          /\ \A v \in Unit : unit[v].status = "running" => work[v].pc \in AtWork
      BY <1>3, <2>1, TypesKnown DEF IInv, Settled
    <3> QED
      BY <1>1, <1>4, <1>5, <1>6, <3>1 DEF Ends
  <2> QED
    BY <1>2, <2>1 DEF Settled, Unit, AtWork
<1>21. Begins'
  <2>1. ASSUME NEW v \in Unit, v # u, Fresh(v)' PROVE Fresh(v)
    <3>1. v[1] \in Nat
      BY UnitFacts, TypesKnown DEF IInv
    <3> QED
      BY <1>2, <1>3, <1>6, <1>8, <1>12, <1>13, <2>1, <3>1 DEF Fresh, Busy, main
  <2>2. ~Fresh(u)'
    <3>1. call = "pool" => u[2] < next /\ next \in Nat /\ u[2] \in Nat
      <4>1. next \in Nat /\ u[2] \in Nat
        BY <1>8, TypesKnown, PlanFacts DEF IInv
      <4> QED
        BY <1>1, <4>1 DEF IInv, Placed
    <3> QED
      BY <1>2, <1>3, <1>6, <1>8, <1>12, <1>13, <3>1 DEF Fresh, Busy, main
  <2>3. /\ \A v \in Unit : unit'[v].attempts = unit[v].attempts
        /\ \A v \in Unit : unit'[v].attempts <= life
        /\ \A v \in Unit : work'[v].tree # NoTree => work'[v].tree[2] <= life
        /\ \A v \in Unit : work'[v].keep # NoTree => work'[v].keep[2] <= life
        /\ \A v \in Unit : unit'[v].tree # NoTree => unit'[v].tree[2] <= life
    BY <1>4, <1>5, <1>6 DEF IInv, Begins
  <2>4. \A v \in Unit : Fresh(v)' =>
          /\ unit'[v].attempts < life
          /\ unit'[v].tree # NoTree => unit'[v].tree[2] < life
    BY <1>5, <2>1, <2>2 DEF IInv, Begins
  <2> QED
    BY <1>2, <2>3, <2>4 DEF Begins, Unit, NoTree
<1> QED
  BY <1>14, <1>15, <1>16, <1>17, <1>18, <1>19, <1>20, <1>21 DEF IInv

-----------------------------------------------------------------------------
(* A fanout is expanded.                                                   *)
LEMMA ExpandKeeps == ASSUME IInv, Expand PROVE IInv'
<1>1. PICK n \in ExpansionOf(step) :
        /\ Expanded(n)
        /\ IF n = 0
           THEN /\ logical' = [logical EXCEPT ![step] = "completed"]
                /\ outputs' = [outputs EXCEPT ![step] = [step |-> step, value |-> <<>>]]
                /\ previous' = outputs'[step]
                /\ step' = step + 1 /\ call' = "top"
                /\ UNCHANGED pool
           ELSE /\ call' = "pool"
                /\ slots' = Slots(n) /\ next' = 1 /\ broken' = FALSE
                /\ UNCHANGED <<step, logical, outputs, previous>>
  BY DEF Expand
<1>2. /\ call = "expand"
      /\ plan' = plan /\ status' = status /\ saved' = saved /\ tree' = tree /\ outcome' = outcome
      /\ work' = work /\ alive' = alive /\ abort' = abort /\ base' = base
      /\ life' = life /\ faults' = faults /\ crashes' = crashes /\ reopened' = reopened
  BY DEF Expand, session, bounds
<1>3. /\ step \in Steps /\ step \in Nat /\ Len(plan) \in Nat /\ step >= 1 /\ step <= Len(plan)
      /\ plan[step] = "fanout" /\ status = "running" /\ logical[step] = "running"
      /\ plan \in Plans /\ items \in [Steps -> 0..Unexpanded] /\ life \in Nat /\ life >= 1
      /\ MaxItems \in Nat
  BY <1>2, TypesKnown, PlanFacts DEF IInv, Steps, Placed, Ordered, Entered
<1>4. \A u \in Unit : work[u].pc = "none"
  BY <1>2, NoWorkers
<1>5. /\ n \in 0..MaxItems /\ n # Unexpanded
      /\ items[step] # Unexpanded => n = items[step]
  <2>1. items[step] \in 0..Unexpanded
    BY <1>3
  <2> QED
    BY <1>1, <1>3, <2>1 DEF ExpansionOf, Unexpanded
<1>6. /\ items' = [items EXCEPT ![step] = n] /\ items' \in [Steps -> 0..Unexpanded]
      /\ items'[step] = n /\ \A s \in Steps : s # step => items'[s] = items[s]
      /\ \A s \in Steps : items[s] # Unexpanded => items'[s] = items[s]
  BY <1>1, <1>3, <1>5 DEF Expanded, Unexpanded
<1>7. /\ Steps' = Steps /\ \A s \in Steps : s # step => ItemsOf(s)' = ItemsOf(s)
      /\ ItemsOf(step) = IF items[step] = Unexpanded THEN {} ELSE 1..n
  BY <1>2, <1>3, <1>5, <1>6, ItemFacts DEF Steps, ItemsOf, Unexpanded
<1>8. PICK k \in Steps : k = step
  BY <1>3
<1>9. ItemsOf(k)' = 1..n
  BY <1>2, <1>3, <1>5, <1>6, <1>8 DEF ItemsOf, Unexpanded
<1>10. \A u \in Unit : unit'[u] = IF u[1] = k /\ u[2] \in 1..n /\ unit[u] = Absent
                                  THEN Queued ELSE unit[u]
  BY <1>1, <1>8 DEF Expanded
<1>11. /\ Absent.status = "absent" /\ Absent.attempts = 0 /\ Absent.tree = NoTree /\ Absent.told = "no"
       /\ Queued.status = "queued" /\ Queued.attempts = 0 /\ Queued.tree = NoTree /\ Queued.told = "no"
       /\ Queued \in UnitRecords
  BY <1>3, PlanFacts DEF Absent, Queued, UnitRecords, UnitStatuses, Trees
<1>12. /\ unit' \in [Unit -> UnitRecords]
       /\ \A u \in Unit : /\ unit'[u].status = "completed" <=> unit[u].status = "completed"
                          /\ unit'[u].status = "running" <=> unit[u].status = "running"
                          /\ unit'[u].attempts = unit[u].attempts /\ unit'[u].tree = unit[u].tree
                          /\ unit'[u].told = unit[u].told
                          /\ unit[u].status = "completed" => unit'[u] = unit[u]
  <2>1. unit' = [u \in Unit |-> IF u[1] = step /\ u[2] \in 1..n /\ unit[u] = Absent
                               THEN Queued ELSE unit[u]]
    BY <1>1 DEF Expanded
  <2>2. unit' \in [Unit -> UnitRecords]
    BY <2>1, <1>11, TypesKnown DEF IInv
  <2> QED
    BY <2>2, <1>10, <1>11
<1>13. Keeps
  <2>1. \A u \in Units : u \in Unit /\ u \in Units'
    <3>1. \A s \in Steps : \A i \in ItemsOf(s) : i \in ItemsOf(s)'
      BY <1>7, <1>8, <1>9
    <3> QED
      BY <1>7, <3>1 DEF Units, Unit
  <2>2. ASSUME NEW s \in Steps, StepDone(s) PROVE StepDone(s)' /\ Answers(s)' = Answers(s)
    <3>1. items'[s] = items[s]
      BY <1>3, <1>6, <2>2 DEF StepDone
    <3> QED
      BY <1>2, <1>3, <1>12, <2>1, <2>2, <3>1, DoneStays
  <2>3. \A s \in Steps : items[s] # Unexpanded => items'[s] # Unexpanded
    BY <1>6
  <2> QED
    BY <1>2, <1>7, <2>1, <2>2, <2>3 DEF Keeps, Unexpanded
<1>14. n = 0 => StepDone(k)' /\ Answers(k)' = [step |-> k, value |-> <<>>]
  <2>1. ASSUME n = 0 PROVE ItemsOf(k)' = {}
    BY <1>9, <2>1
  <2>2. ASSUME n = 0 PROVE StepDone(k)'
    BY <1>5, <1>6, <1>8, <2>1, <2>2 DEF StepDone, Unexpanded
  <2>3. ASSUME n = 0 PROVE Answers(k)' = [step |-> k, value |-> <<>>]
    <3>1. Cardinality(ItemsOf(k)') = 0
      BY <2>1, <2>3, FS_EmptySet
    <3>2. plan'[k] \notin {"single", "sequential"}
      BY <1>2, <1>3, <1>8
    <3>3. Answers(k)' = [step |-> k, value |-> [i \in 1..0 |-> unit'[<<k, i>>].attempts]]
      BY <3>1, <3>2 DEF Answers
    <3>4. [i \in 1..0 |-> unit'[<<k, i>>].attempts] = <<>>
      OBVIOUS
    <3> QED
      BY <3>3, <3>4
  <2> QED
    BY <2>2, <2>3
<1>15. /\ n = 0 => /\ call' = "top" /\ step' = step + 1 /\ slots' = slots /\ next' = next
                   /\ logical' = [logical EXCEPT ![k] = "completed"]
                   /\ outputs' = [outputs EXCEPT ![k] = Answers(k)'] /\ previous' = Answers(k)'
       /\ n # 0 => /\ call' = "pool" /\ slots' = Slots(n) /\ next' = 1 /\ step' = step
                   /\ logical' = logical /\ outputs' = outputs /\ previous' = previous
  BY <1>1, <1>8, <1>14 DEF pool, IInv, Typed, Indexed
<1>16. Typed'
  <2>1. /\ step' \in 1..(Len(plan) + 1) /\ next' \in 1..(MaxItems + 1)
        /\ call' \in {"off", "top", "one", "expand", "pool", "collect", "finish"}
    BY <1>3, <1>15, TypesKnown DEF IInv
  <2>2. /\ logical' = [s \in Steps |-> logical'[s]] /\ outputs' = [s \in Steps |-> outputs'[s]]
    BY <1>15 DEF IInv, Typed, Indexed
  <2>3. slots' = [i \in 0..MaxItems |-> slots'[i]]
    BY <1>15 DEF IInv, Typed, Slots
  <2> QED
    BY <1>2, <1>6, <1>7, <1>12, <2>1, <2>2, <2>3, TypedNow, TypedNext
<1>17. Placed'
  <2>1. \A u \in Unit : u \in Units' <=> u \in Units \/ (u[1] = k /\ u[2] \in 1..n)
    <3>1. ASSUME NEW u \in Unit PROVE u \in Units' <=> u[1] \in Steps /\ u[2] \in ItemsOf(u[1])'
      BY <1>7 DEF Units, Unit
    <3>2. ASSUME NEW u \in Unit PROVE u \in Units <=> u[1] \in Steps /\ u[2] \in ItemsOf(u[1])
      BY DEF Units
    <3> QED
      BY <1>7, <1>8, <1>9, <3>1, <3>2
  <2>2. \A u \in Unit : u \in Units' => unit'[u].status # "absent"
    BY <1>3, <1>10, <1>11, <2>1 DEF IInv, Placed
  <2>3. \A u \in Unit \ Units' : unit'[u] = Absent
    BY <1>3, <1>10, <2>1 DEF IInv, Placed
  <2>4. \A u \in Units' : u \in Unit
    BY DEF Units, Unit
  <2>5. \A u \in Unit : work[u] = Idle
    BY <1>4 DEF IInv, Placed
  <2>6. call' = "pool" => plan[step] = "fanout" /\ items'[step] \in 1..MaxItems /\ step' = step
    BY <1>3, <1>5, <1>6, <1>15
  <2>7. call' \in {"pool", "top"}
    BY <1>15
  <2>8. /\ (\A u \in Units : unit[u].status # "absent")'
        /\ (\A u \in Unit \ Units : unit[u] = Absent)'
    BY <1>7, <2>2, <2>3, <2>4 DEF Absent, Unit
  <2>9. /\ (\A u \in Unit : work[u].pc = "none" => work[u] = Idle)'
        /\ \A u \in Unit' : work'[u].pc = "none"
    BY <1>2, <1>4, <2>5 DEF Idle, Unit
  <2>10. /\ call' \in Entered \cup {"collect"} => step' \in Steps'
         /\ call' = "pool" => plan'[step'] = "fanout" /\ items'[step'] \in 1..MaxItems
         /\ life' # 0 /\ status' = "running"
    BY <1>2, <1>3, <1>7, <2>6, <2>7 DEF Entered
  <2> QED
    BY <2>7, <2>8, <2>9, <2>10 DEF Placed
<1>18. Ordered'
  <2>1. /\ \A s \in 1..(step - 1) : s \in Steps /\ StepDone(s)'
        /\ \A s \in Steps : plan[s] # "parallel" /\ logical[s] = "completed" => StepDone(s)'
    BY <1>2, <1>3, <1>13 DEF IInv, Ordered, Busy, Entered, Steps, Keeps
  <2>2. \A s \in 1..(step' - 1) : StepDone(s)'
    <3>1. CASE n # 0
      BY <1>15, <2>1, <3>1
    <3>2. CASE n = 0
      <4>1. \A s \in 1..(step' - 1) : s \in 1..(step - 1) \/ s = k
        BY <1>3, <1>8, <1>15, <3>2
      <4> QED
        BY <1>14, <2>1, <3>2, <4>1
    <3> QED
      BY <3>1, <3>2
  <2>3. \A s \in Steps : plan[s] # "parallel" /\ logical'[s] = "completed" => StepDone(s)'
    <3>1. \A s \in Steps : logical'[s] = logical[s] \/ (n = 0 /\ s = k)
      BY <1>15 DEF IInv, Typed, Indexed
    <3> QED
      BY <1>14, <2>1, <3>1
  <2>4. /\ call' \in {"pool", "top"} /\ (call' = "pool" => logical'[step'] = "running")
    BY <1>3, <1>15
  <2> QED
    BY <1>2, <1>3, <1>7, <2>2, <2>3, <2>4 DEF Ordered, Entered
<1>19. Offered'
  <2>1. ASSUME NEW s \in Steps, s > step
        PROVE  /\ plan[s] = "single" => unit'[<<s, 0>>].status # "completed"
               /\ plan[s] = "sequential" /\ unit'[<<s, 0>>].status = "completed" =>
                     logical'[s] = "completed"
    <3>1. <<s, 0>> \in Unit /\ s # k
      BY <1>3, <1>8, <2>1, StepFacts, PlanFacts
    <3>2. logical'[s] = logical[s]
      BY <1>15, <3>1 DEF IInv, Typed, Indexed
    <3> QED
      BY <1>2, <1>12, <2>1, <3>1, <3>2 DEF IInv, Offered, Busy
  <2>2. ASSUME NEW s \in Steps, s > step' \/ (s = step' /\ call' = "top")
        PROVE  s > step
    <3>1. s \in Nat
      BY <1>3, StepFacts
    <3> QED
      BY <1>3, <1>15, <2>2, <3>1
  <2>3. ASSUME n # 0, NEW i \in 1..n
        PROVE  slots'[i] = "completed" <=> unit'[<<step, i>>].status = "completed"
    <3>1. i \in 0..MaxItems /\ <<step, i>> \in Unit
      BY <1>3, <1>5, StepFacts
    <3>2. slots'[i] = "completed" <=> unit[<<step, i>>].status = "completed"
      BY <1>15, <2>3, <3>1 DEF Slots
    <3> QED
      BY <1>12, <3>1, <3>2
  <2>4. call' = "pool" => n # 0 /\ Count' = n /\ step' = step
    BY <1>2, <1>3, <1>6, <1>15 DEF Count
  <2> QED
    BY <1>2, <1>4, <1>7, <2>1, <2>2, <2>3, <2>4 DEF Offered, Unit
<1>20. Told'
  <2>1. ASSUME reopened # 0
        PROVE  /\ \A s \in Steps : plan[s] = "fanout" => items'[s] # Unexpanded
               /\ \A u \in Units' : unit'[u].told = "yes"
    <3>1. \A s \in Steps : plan[s] = "fanout" => items[s] # Unexpanded
      BY <2>1 DEF IInv, Told
    <3>2. \A s \in Steps : plan[s] = "fanout" => items'[s] # Unexpanded
      BY <1>6, <3>1
    <3>3. \A u \in Units' : u \in Units /\ u \in Unit
      <4>1. \A s \in Steps : ItemsOf(s)' = ItemsOf(s)
        BY <1>3, <1>7, <1>8, <1>9, <3>1
      <4> QED
        BY <1>7, <4>1 DEF Units, Unit
    <3> QED
      BY <1>12, <2>1, <3>2, <3>3 DEF IInv, Told
  <2> QED
    BY <1>2, <1>4, <1>7, <1>12, <2>1 DEF IInv, Told, Unit, Unexpanded
<1>21. Valued'
  <2>1. ASSUME reopened = 0 PROVE Held'
    <3>1. Held
      BY <2>1 DEF IInv, Valued
    <3>2. Current(saved.steps, saved.outputs)' /\ Current(base.steps, base.outputs)'
      BY <1>2, <1>13, <3>1, SavedStays
    <3>3. \A s \in Steps :
             /\ outputs[s] # Unknown => StepDone(s)' /\ outputs[s] = Answers(s)'
             /\ plan[s] \in {"sequential", "fanout"} /\ logical[s] = "completed" =>
                   outputs[s] # Unknown
      BY <1>2, <1>13, <3>1 DEF Held, Current, Keeps
    <3>4. \A s \in Steps :
             /\ outputs'[s] # Unknown => StepDone(s)' /\ outputs'[s] = Answers(s)'
             /\ plan[s] \in {"sequential", "fanout"} /\ logical'[s] = "completed" =>
                   outputs'[s] # Unknown
      <4>1. CASE n # 0
        BY <1>15, <3>3, <4>1
      <4>2. CASE n = 0
        <5>1. /\ StepDone(k)' /\ outputs'[k] = Answers(k)'
              /\ \A s \in Steps : s # k => outputs'[s] = outputs[s] /\ logical'[s] = logical[s]
          BY <1>14, <1>15, <4>2 DEF IInv, Typed, Indexed
        <5>2. outputs'[k] # Unknown
          <6>1. outputs'[k].step = k /\ Unknown.step = 0
            BY <1>14, <4>2, <5>1 DEF Unknown
          <6> QED
            BY <1>3, <1>8, <6>1
        <5>3. ASSUME NEW s \in Steps, s # k
              PROVE /\ outputs'[s] # Unknown => StepDone(s)' /\ outputs'[s] = Answers(s)'
                    /\ plan[s] \in {"sequential", "fanout"} /\ logical'[s] = "completed" =>
                          outputs'[s] # Unknown
          BY <3>3, <5>1, <5>3
        <5> QED
          BY <5>1, <5>2, <5>3
      <4> QED
        BY <4>1, <4>2
    <3>5. Current([s \in Steps |-> IF call = "collect" /\ s = step THEN "running"
                                                 ELSE logical[s]], outputs)'
      BY <1>2, <1>7, <1>15, <3>4 DEF Current, Unknown
    <3>6. ASSUME step' > 1 PROVE previous' = Answers(step - 1)'
      <4>1. CASE n = 0
        <5>1. step' - 1 = k /\ previous' = Answers(k)'
          BY <1>3, <1>8, <1>15, <4>1
        <5> QED
          BY <5>1
      <4>2. CASE n # 0
        <5>0. step' = step /\ previous' = previous
          BY <1>15, <4>2
        <5>1. step - 1 \in Steps /\ step - 1 \in 1..(step - 1)
          BY <1>3, <3>6, <5>0 DEF Steps
        <5>2. PICK j \in Steps : j = step - 1
          BY <5>1
        <5>3. previous = Answers(j) /\ StepDone(j)
          BY <1>2, <3>1, <3>6, <5>0, <5>1, <5>2 DEF Held, IInv, Ordered, Busy
        <5>4. previous' = Answers(j)'
          BY <1>13, <5>0, <5>3 DEF Keeps
        <5> QED
          BY <5>0, <5>4, <5>2
      <4> QED
        BY <4>1, <4>2
    <3> QED
      BY <3>2, <3>5, <3>6 DEF Held, Busy
  <2> QED
    BY <1>2, <2>1 DEF Valued
<1>22. Settled'
  BY <1>2, <1>4, <1>12 DEF IInv, Settled, Unit, AtWork
<1>23. Begins'
  <2>1. ASSUME NEW u \in Unit, Fresh(u)' PROVE Fresh(u)
    <3>1. u[1] \in Nat
      BY <1>3, UnitFacts
    <3> QED
      BY <1>2, <1>3, <1>4, <1>15, <2>1, <3>1 DEF Fresh, Busy
  <2> QED
    BY <1>2, <1>12, <2>1 DEF IInv, Begins, Unit, NoTree
<1> QED
  BY <1>16, <1>17, <1>18, <1>19, <1>20, <1>21, <1>22, <1>23 DEF IInv

-----------------------------------------------------------------------------
(* The first call, and every further one.                                  *)
LEMMA InitKeeps == Init => IInv
<1> SUFFICES ASSUME Init PROVE IInv
  OBVIOUS
<1> USE DEF Init
<1>1. /\ plan \in Plans /\ Len(plan) \in Nat /\ DOMAIN plan = Steps /\ MaxItems \in Nat \ {0}
      /\ MaxLives \in Nat \ {0}
  BY PlanFacts
<1>2. /\ Absent.status = "absent" /\ Absent.attempts = 0 /\ Absent.tree = NoTree
      /\ Absent.told = "no" /\ Absent \in UnitRecords
      /\ Idle.pc = "none" /\ Idle.tree = NoTree /\ Idle.keep = NoTree /\ Idle \in Workers
  BY <1>1 DEF Absent, UnitRecords, UnitStatuses, Trees, Idle, Workers, WorkerPcs, Ends
<1>3. /\ saved.steps = [s \in Steps |-> "queued"] /\ saved.outputs = [s \in Steps |-> Unknown]
      /\ logical = [s \in Steps |-> "queued"] /\ outputs = [s \in Steps |-> Unknown]
      /\ base = saved /\ items = [s \in Steps |-> Unexpanded]
  BY <1>1 DEF NoDetails
<1>4. unit \in [Unit -> UnitRecords] /\ work \in [Unit -> Workers]
      /\ items \in [Steps -> 0..Unexpanded]
  BY <1>1, <1>2, <1>3 DEF Unexpanded
<1>5. TypeOK
  <2>1. \A u \in Unit : work[u].pc \in WorkerPcs
    BY <1>4 DEF Workers
  <2> QED
    BY <1>1, <1>3, <1>4, <2>1 DEF TypeOK, UnitRecords, UnitStatuses, WorkerPcs, Trees
<1>6. Typed
  BY <1>1, <1>3, <1>4, <1>5 DEF Typed, Indexed
<1>7. Placed
  BY <1>2, <1>3 DEF Placed, Entered
<1>8. Ordered
  BY DEF Ordered, Busy, Entered
<1>9. Offered
  BY <1>2 DEF Offered, Busy
<1>10. Told
  BY <1>2 DEF Told
<1>11. Valued
  BY <1>3 DEF Valued, Held, Current, Busy
<1>12. Settled
  BY <1>2 DEF Settled
<1>13. Begins
  BY <1>2 DEF Begins, Fresh, Busy
<1> QED
  BY <1>6, <1>7, <1>8, <1>9, <1>10, <1>11, <1>12, <1>13 DEF IInv

LEMMA StartKeeps == ASSUME IInv, Start PROVE IInv'
<1>1. /\ life = 0 /\ unit' = [u \in Unit |-> IF u \in Units THEN Queued ELSE Absent]
      /\ status' = "running" /\ call' = "top" /\ life' = 1
      /\ plan' = plan /\ items' = items /\ saved' = saved /\ tree' = tree /\ step' = step
      /\ logical' = logical /\ outputs' = outputs /\ previous' = previous /\ outcome' = outcome
      /\ slots' = slots /\ next' = next /\ work' = work /\ alive' = alive /\ abort' = abort
      /\ base' = base /\ faults' = faults /\ crashes' = crashes /\ reopened' = reopened
  BY DEF Start, pool
<1>2. /\ call = "off" /\ step = 1 /\ reopened = 0 /\ alive = {}
      /\ \A u \in Unit : unit[u] = Absent
      /\ \A s \in Steps : items[s] = Unexpanded /\ logical[s] = "queued" /\ outputs[s] = Unknown
  BY <1>1 DEF IInv, Placed
<1>3. \A u \in Unit : work[u].pc = "none" /\ work[u] = Idle /\ work[u].tree = NoTree
                      /\ work[u].keep = NoTree
  <2>1. \A u \in Unit : work[u].pc = "none"
    BY <1>2, NoWorkers
  <2>2. \A u \in Unit : work[u] = Idle
    BY <2>1 DEF IInv, Placed
  <2>3. Idle.tree = NoTree /\ Idle.keep = NoTree
    BY DEF Idle
  <2> QED
    BY <2>1, <2>2, <2>3
<1>4. /\ Absent.status = "absent" /\ Absent.attempts = 0 /\ Absent.tree = NoTree /\ Absent.told = "no"
      /\ Queued.status = "queued" /\ Queued.attempts = 0 /\ Queued.tree = NoTree /\ Queued.told = "no"
      /\ Queued \in UnitRecords /\ Absent \in UnitRecords
      /\ MaxItems \in Nat \ {0} /\ MaxLives \in Nat \ {0}
  <2>1. plan \in Plans
    BY TypedNow
  <2>2. MaxItems \in Nat \ {0} /\ MaxLives \in Nat \ {0}
    BY <2>1, PlanFacts
  <2>3. /\ Absent.status = "absent" /\ Absent.attempts = 0 /\ Absent.tree = NoTree
        /\ Absent.told = "no"
    BY DEF Absent
  <2>4. /\ Queued.status = "queued" /\ Queued.attempts = 0 /\ Queued.tree = NoTree
        /\ Queued.told = "no"
    BY DEF Absent, Queued
  <2>5. Absent \in UnitRecords
    BY <2>2 DEF Absent, UnitRecords, UnitStatuses, Trees
  <2>6. Queued \in UnitRecords
    BY <2>2, <2>5 DEF Queued, UnitRecords, UnitStatuses
  <2> QED
    BY <2>2, <2>3, <2>4, <2>5, <2>6
<1>5. /\ Steps' = Steps /\ Units' = Units
  BY <1>1 DEF Units, Unit, Steps, ItemsOf, Unexpanded
<1>6. /\ unit' \in [Unit -> UnitRecords]
      /\ \A u \in Unit : /\ unit'[u].status \in {"absent", "queued"} /\ unit'[u].attempts = 0
                         /\ unit'[u].tree = NoTree
  BY <1>1, <1>4
<1>7. \A s \in Steps : ~StepDone(s)
  <2>1. ASSUME NEW s \in Steps PROVE ~StepDone(s)
    <3>1. CASE plan[s] = "fanout"
      BY <1>2, <3>1 DEF StepDone
    <3>2. CASE plan[s] # "fanout"
      <4>1. PICK i \in ItemsOf(s) : <<s, i>> \in Unit
        <5>1. 0 \in ItemsOf(s) \/ 1 \in ItemsOf(s)
          BY <1>4, <3>2, ItemFacts, StepFacts, TypesKnown DEF IInv, Kinds
        <5> QED
          BY <5>1, ItemFacts, TypesKnown DEF IInv, Units
      <4> QED
        BY <1>2, <1>4, <4>1 DEF StepDone
    <3> QED
      BY <3>1, <3>2
  <2> QED
    BY <2>1
<1>8. Typed'
  BY <1>1, <1>4, <1>5, <1>6, TypedNow, TypedNext
<1>9. Placed'
  <2>1. (\A u \in Units : unit[u].status # "absent")'
    BY <1>1, <1>4, <1>5 DEF Units
  <2>2. (\A u \in Unit \ Units : unit[u] = Absent)'
    BY <1>1, <1>5 DEF Absent, Unit
  <2>3. /\ (\A u \in Unit : work[u].pc = "none" => work[u] = Idle)'
        /\ \A u \in Unit' : work'[u].pc = "none"
    BY <1>1, <1>3 DEF Idle, Unit
  <2> QED
    BY <1>1, <2>1, <2>2, <2>3 DEF Placed, Entered
<1>10. Ordered'
  BY <1>1, <1>2, <1>5 DEF Ordered, Entered
<1>11. Offered'
  <2>1. \A s \in Steps : <<s, 0>> \in Unit
    BY StepFacts, TypesKnown, PlanFacts DEF IInv
  <2> QED
    BY <1>1, <1>3, <1>5, <1>6, <2>1 DEF Offered, Unit
<1>12. Told'
  BY <1>1, <1>2, <1>3, <1>6 DEF Told, Unit
<1>13. Valued'
  <2>1. Held
    BY <1>2 DEF IInv, Valued
  <2>2. Keeps
    BY <1>1, <1>5, <1>7 DEF Keeps, Unexpanded
  <2>3. Current(saved.steps, saved.outputs)' /\ Current(base.steps, base.outputs)'
    BY <1>1, <2>1, <2>2, SavedStays
  <2>4. Current([s \in Steps |-> IF call = "collect" /\ s = step THEN "running"
                                                 ELSE logical[s]], outputs)'
    BY <1>1, <1>2, <1>5 DEF Current, Unknown
  <2> QED
    BY <1>1, <1>2, <2>3, <2>4 DEF Valued, Held
<1>14. Settled'
  BY <1>1, <1>2, <1>6 DEF Settled, Unit
<1>15. Begins'
  BY <1>1, <1>3, <1>6 DEF Begins, Unit, NoTree
<1> QED
  BY <1>8, <1>9, <1>10, <1>11, <1>12, <1>13, <1>14, <1>15 DEF IInv

LEMMA ResumeKeeps == ASSUME IInv, Resume PROVE IInv'
<1> DEFINE incomplete == {u \in Units : unit[u].status # "completed"}
           targets == IF incomplete # {} THEN incomplete ELSE Units
           queued == [u \in Unit |-> IF u \in targets
                                     THEN [unit[u] EXCEPT !.status = "queued"] ELSE unit[u]]
<1>1. /\ call = "off" /\ life \in 1..(MaxLives - 1)
      /\ Mapped(incomplete) /\ Ready(targets)
      /\ unit' = queued /\ status' = "running"
      /\ outputs' = Rehydrated(queued)
      /\ logical' = Restored(queued, Rehydrated(queued))
      /\ base' = saved
      /\ step' = 1 /\ previous' = Unknown /\ outcome' = "ok"
      /\ call' = "top" /\ life' = life + 1
      /\ reopened' = IF incomplete = {} THEN reopened + 1 ELSE reopened
      /\ plan' = plan /\ items' = items /\ saved' = saved /\ tree' = tree /\ slots' = slots
      /\ next' = next /\ work' = work /\ alive' = alive /\ abort' = abort
      /\ faults' = faults /\ crashes' = crashes
  BY DEF Resume, pool
<1>2. /\ unit \in [Unit -> UnitRecords] /\ plan \in Plans /\ items \in [Steps -> 0..Unexpanded]
      /\ MaxItems \in Nat \ {0} /\ MaxLives \in Nat \ {0} /\ reopened \in Nat
      /\ targets \subseteq Units /\ Units \subseteq Unit
  BY TypesKnown, PlanFacts DEF IInv, Typed, Units
<1>3. /\ Steps' = Steps /\ Units' = Units /\ \A s \in Steps : ItemsOf(s)' = ItemsOf(s)
  BY <1>1 DEF Units, Unit, Steps, ItemsOf, Unexpanded
<1>4. \A u \in Unit : work[u].pc = "none" /\ work[u] = Idle /\ work[u].tree = NoTree
                      /\ work[u].keep = NoTree
  <2>1. \A u \in Unit : work[u].pc = "none"
    BY <1>1, NoWorkers
  <2>2. \A u \in Unit : work[u] = Idle
    BY <2>1 DEF IInv, Placed
  <2>3. Idle.tree = NoTree /\ Idle.keep = NoTree
    BY DEF Idle
  <2> QED
    BY <2>1, <2>2, <2>3
<1>5. \A u \in Unit : unit'[u] = IF u \in targets THEN [unit[u] EXCEPT !.status = "queued"]
                                 ELSE unit[u]
  BY <1>1
<1>6. /\ unit' \in [Unit -> UnitRecords]
      /\ \A u \in Unit : /\ unit'[u].attempts = unit[u].attempts /\ unit'[u].tree = unit[u].tree
                         /\ unit'[u].told = unit[u].told
      /\ \A u \in targets : unit'[u].status = "queued"
      /\ \A u \in Unit : u \notin targets => unit'[u] = unit[u]
  <2>1. \A u \in Unit : [unit[u] EXCEPT !.status = "queued"] \in UnitRecords
    BY <1>2 DEF UnitRecords, UnitStatuses
  <2>2. unit' \in [Unit -> UnitRecords]
    BY <1>1, <1>2, <2>1
  <2>3. ASSUME NEW u \in Unit
        PROVE  /\ unit'[u].attempts = unit[u].attempts /\ unit'[u].tree = unit[u].tree
               /\ unit'[u].told = unit[u].told
               /\ u \in targets => unit'[u].status = "queued"
               /\ u \notin targets => unit'[u] = unit[u]
    <3>1. unit[u] \in UnitRecords
      BY <1>2
    <3> HIDE DEF targets
    <3> QED
      BY <1>5, <3>1 DEF UnitRecords
  <2> HIDE DEF targets
  <2> QED
    BY <1>2, <2>2, <2>3
<1>7. \A u \in Units : unit'[u].status = "completed" =>
         unit'[u] = unit[u] /\ incomplete # {}
  BY <1>2, <1>6
<1>8. incomplete # {} => Keeps
  <2>1. ASSUME incomplete # {}, NEW s \in Steps, StepDone(s)
        PROVE  StepDone(s)' /\ Answers(s)' = Answers(s)
    <3>1. \A u \in Units : unit[u].status = "completed" => unit'[u] = unit[u]
      BY <1>2, <1>6, <2>1
    <3> QED
      BY <1>1, <1>2, <2>1, <3>1, DoneStays
  <2> QED
    BY <1>1, <1>3, <2>1 DEF Keeps, Unexpanded
<1>9. reopened = 0 => Held
  BY DEF IInv, Valued
<1>10. reopened # 0 => /\ \A s \in Steps : plan[s] = "fanout" => items[s] # Unexpanded
                       /\ \A u \in Units : unit[u].told = "yes"
  BY DEF IInv, Told
<1> HIDE DEF targets, queued, incomplete
<1>21. \A s \in Steps : items[s] = Unexpanded /\ plan[s] = "fanout" =>
          saved.steps[s] # "completed"
  BY <1>9, <1>10 DEF Held, Current, StepDone
<1>11. ASSUME NEW s \in Steps, plan[s] = "fanout", logical'[s] = "completed"
       PROVE  StepDone(s)' /\ (saved.steps[s] = "completed" \/ outputs'[s] # Unknown)
  <2>1. /\ \A i \in ItemsOf(s) : unit'[<<s, i>>].status = "completed"
        /\ \/ saved.steps[s] = "completed"
           \/ items[s] = 0 /\ outputs'[s] # Unknown
    BY <1>1, <1>11 DEF Restored
  <2>2. items[s] # Unexpanded
    BY <1>2, <1>11, <1>21, <2>1 DEF Unexpanded
  <2> QED
    BY <1>1, <1>3, <2>1, <2>2 DEF StepDone, Unexpanded
<1>12. ASSUME NEW s \in Steps, plan[s] \in {"single", "sequential"}
       PROVE  logical'[s] = "completed" <=> unit'[<<s, 0>>].status = "completed"
  <2>1. ItemsOf(s) = {0}
    BY <1>2, <1>12, ItemFacts
  <2> QED
    BY <1>1, <1>12, <2>1 DEF Restored
<1>22. ASSUME NEW s \in Steps, plan[s] \in {"single", "sequential"},
              unit'[<<s, 0>>].status = "completed"
       PROVE  StepDone(s)'
  <2>1. ItemsOf(s) = {0}
    BY <1>2, <1>22, ItemFacts
  <2> QED
    BY <1>1, <1>3, <1>22, <2>1 DEF StepDone
<1>13. Typed'
  <2>1. /\ outputs' = [s \in Steps |-> outputs'[s]] /\ logical' = [s \in Steps |-> logical'[s]]
    BY <1>1 DEF Rehydrated, Restored
  <2>2. life' \in 0..MaxLives /\ step' \in 1..(Len(plan) + 1) /\ reopened' \in Nat
    BY <1>1, <1>2, PlanFacts
  <2> QED
    BY <1>1, <1>3, <1>6, <2>1, <2>2, TypedNow, TypedNext
<1>14. Placed'
  <2>0. life # 0 /\ life' # 0
    BY <1>1, <1>2
  <2>1. \A u \in Units : unit'[u].status # "absent"
    BY <1>2, <1>6, <2>0 DEF IInv, Placed
  <2>2. \A u \in Unit \ Units : unit'[u] = Absent
    BY <1>2, <1>6, <2>0 DEF IInv, Placed
  <2>3. /\ (\A u \in Unit : work[u].pc = "none" => work[u] = Idle)'
        /\ \A u \in Unit' : work'[u].pc = "none"
    BY <1>1, <1>4 DEF Idle, Unit
  <2>4. /\ (\A u \in Units : unit[u].status # "absent")'
        /\ (\A u \in Unit \ Units : unit[u] = Absent)'
    BY <1>3, <2>1, <2>2 DEF Absent, Unit
  <2> QED
    BY <1>1, <2>0, <2>3, <2>4 DEF Placed, Entered
<1>15. Ordered'
  <2>1. \A s \in Steps : plan[s] \in Kinds
    BY <1>2, StepFacts
  <2>2. \A s \in Steps : plan[s] # "parallel" /\ logical'[s] = "completed" => StepDone(s)'
    BY <1>11, <1>12, <1>22, <2>1 DEF Kinds
  <2>3. \A s \in 1..(step' - 1) : StepDone(s)'
    BY <1>1
  <2> QED
    BY <1>1, <1>3, <2>2, <2>3 DEF Ordered, Entered
<1>16. Offered'
  <2>1. ASSUME NEW s \in Steps, plan[s] = "single" PROVE unit'[<<s, 0>>].status # "completed"
    <3>1. Len(plan) = 1 /\ s = 1 /\ ItemsOf(s) = {0} /\ <<s, 0>> \in Units
      BY <1>2, <2>1, StepFacts, ItemFacts
    <3>2. \A u \in Units : u = <<s, 0>>
      <4>1. \A u \in Units : u[1] = s
        BY <3>1 DEF Units, Steps
      <4>2. \A u \in Units : u[2] = 0 /\ u = <<u[1], u[2]>>
        BY <1>2, <3>1, <4>1, UnitFacts DEF Units
      <4> QED
        BY <4>1, <4>2
    <3>3. <<s, 0>> \in targets
      BY <3>1, <3>2 DEF targets, incomplete
    <3> QED
      BY <1>6, <3>3
  <2> QED
    BY <1>1, <1>3, <1>4, <1>12, <2>1 DEF Offered, Unit
<1>17. Told'
  <2>1. \A u \in Unit : unit'[u].status = "completed" => unit'[u].told = "yes"
    BY <1>6 DEF IInv, Told
  <2>2. ASSUME reopened' # 0
        PROVE  /\ \A s \in Steps : plan[s] = "fanout" => items[s] # Unexpanded
               /\ \A u \in Units : unit[u].told = "yes"
    <3>1. CASE incomplete = {}
      <4>1. \A s \in Steps : plan[s] = "fanout" => items[s] # Unexpanded
        BY <1>1, <3>1 DEF Mapped
      <4>2. \A u \in Units : u \in Unit /\ unit[u].status = "completed"
        BY <1>2, <3>1 DEF incomplete
      <4> QED
        BY <4>1, <4>2 DEF IInv, Told
    <3>2. CASE incomplete # {}
      BY <1>1, <1>10, <2>2, <3>2
    <3> QED
      BY <3>1, <3>2
  <2> QED
    BY <1>1, <1>2, <1>3, <1>4, <1>6, <2>1, <2>2 DEF Told, Unit, Unexpanded
<1>18. Valued'
  <2>1. ASSUME reopened' = 0 PROVE Held'
    <3>1. reopened = 0 /\ incomplete # {}
      BY <1>1, <1>2, <2>1
    <3>2. Held /\ Keeps
      BY <1>8, <1>9, <3>1
    <3>3. \A steps, answers : Current(steps, answers) =>
             \A s \in Steps :
                /\ answers[s] # Unknown => StepDone(s)' /\ answers[s] = Answers(s)'
                /\ plan[s] \in {"sequential", "fanout"} /\ steps[s] = "completed" =>
                      answers[s] # Unknown
      BY <3>2 DEF Current, Keeps
    <3>4. Current(saved.steps, saved.outputs)
      BY <3>2 DEF Held
    <3>5. Current(saved.steps, saved.outputs)' /\ Current(base.steps, base.outputs)'
      BY <1>1, <1>3, <3>3, <3>4 DEF Current, Unknown
    <3>6. ASSUME NEW s \in Steps
          PROVE  /\ outputs'[s] # Unknown => StepDone(s)' /\ outputs'[s] = Answers(s)'
                 /\ plan[s] \in {"sequential", "fanout"} /\ logical'[s] = "completed" =>
                       outputs'[s] # Unknown
      <4>1. CASE plan[s] = "sequential" /\ unit'[<<s, 0>>].status = "completed"
        <5>1. outputs'[s] = [step |-> s, value |-> <<unit'[<<s, 0>>].attempts>>]
          BY <1>1, <4>1 DEF Rehydrated
        <5>2. Answers(s)' = [step |-> s, value |-> <<unit'[<<s, 0>>].attempts>>]
          BY <1>1, <4>1 DEF Answers
        <5>3. outputs'[s] # Unknown
          <6>1. outputs'[s].step = s /\ Unknown.step = 0
            BY <5>1 DEF Unknown
          <6> QED
            BY <1>2, <6>1, StepFacts
        <5> QED
          BY <1>22, <4>1, <5>1, <5>2, <5>3
      <4>2. CASE ~(plan[s] = "sequential" /\ unit'[<<s, 0>>].status = "completed")
        <5>1. outputs'[s] = saved.outputs[s]
          BY <1>1, <4>2 DEF Rehydrated
        <5>2. plan[s] \in {"sequential", "fanout"} /\ logical'[s] = "completed" =>
                       outputs'[s] # Unknown
          BY <1>11, <1>12, <3>3, <3>4, <4>2, <5>1
        <5> QED
          BY <3>3, <3>4, <5>1, <5>2
      <4> QED
        BY <4>1, <4>2
    <3>7. Current([s \in Steps |-> IF call = "collect" /\ s = step THEN "running"
                                                 ELSE logical[s]], outputs)'
      BY <1>1, <1>3, <3>6 DEF Current, Unknown
    <3> QED
      BY <1>1, <3>5, <3>7 DEF Held
  <2> QED
    BY <2>1 DEF Valued
<1>19. Settled'
  <2>1. ASSUME faults = 0
        PROVE  /\ \A u \in alive : work[u].pc \in {"establishing", "running"}
               /\ \A u \in Unit : unit'[u].status # "running"
    <3>1. \A u \in alive : work[u].pc \in {"establishing", "running"}
      BY <2>1 DEF IInv, Settled
    <3>2. ASSUME NEW u \in Unit, unit'[u].status = "running" PROVE FALSE
      <4>1. unit'[u] = unit[u] /\ u \notin targets
        BY <1>6, <3>2
      <4>2. u \in Units
        BY <1>1, <3>2, <4>1 DEF IInv, Placed, Absent
      <4> QED
        BY <3>2, <4>1, <4>2 DEF targets, incomplete
    <3> QED
      BY <3>1, <3>2
  <2> QED
    BY <1>1, <2>1 DEF Settled, Unit
<1>20. Begins'
  <2>1. life \in Nat /\ life < life' /\ \A x \in 0..life : x < life' /\ x <= life'
    BY <1>1, <1>2
  <2>2. \A u \in Unit : /\ unit[u].attempts \in 0..life
                        /\ unit[u].tree # NoTree => unit[u].tree[2] \in 0..life
    <3>1. \A u \in Unit : unit[u].attempts \in Nat /\ (unit[u].tree # NoTree => unit[u].tree[2] \in Nat)
      BY <1>2 DEF UnitRecords, Trees, Tree
    <3> QED
      BY <2>1, <3>1 DEF IInv, Begins
  <2>3. ASSUME NEW u \in Unit
        PROVE  /\ unit'[u].attempts <= life'
               /\ unit'[u].attempts < life'
               /\ unit'[u].tree # NoTree => unit'[u].tree[2] <= life'
               /\ unit'[u].tree # NoTree => unit'[u].tree[2] < life'
    <3>1. unit'[u].attempts = unit[u].attempts /\ unit'[u].tree = unit[u].tree
      BY <1>6
    <3>2. unit[u].attempts \in 0..life
      BY <2>2
    <3>3. unit[u].tree # NoTree => unit[u].tree[2] \in 0..life
      BY <2>2
    <3>4. \A x \in 0..life : x < life' /\ x <= life'
      BY <2>1
    <3> QED
      BY <3>1, <3>2, <3>3, <3>4
  <2>4. \A u \in Unit : work'[u].tree = NoTree /\ work'[u].keep = NoTree
    BY <1>1, <1>4
  <2>5. (\A u \in Unit : unit[u].attempts <= life)'
    BY <2>3 DEF Unit
  <2>6. (\A u \in Unit : unit[u].tree # NoTree => unit[u].tree[2] <= life)'
    BY <2>3 DEF Unit, NoTree
  <2>7. (\A u \in Unit : work[u].tree # NoTree => work[u].tree[2] <= life)'
    BY <2>4 DEF Unit, NoTree
  <2>8. (\A u \in Unit : work[u].keep # NoTree => work[u].keep[2] <= life)'
    BY <2>4 DEF Unit, NoTree
  <2>9. (\A u \in Unit : Fresh(u) => /\ unit[u].attempts < life
                                     /\ unit[u].tree # NoTree => unit[u].tree[2] < life)'
    BY <2>3 DEF Unit, NoTree
  <2> QED
    BY <2>5, <2>6, <2>7, <2>8, <2>9 DEF Begins
<1> QED
  BY <1>13, <1>14, <1>15, <1>16, <1>17, <1>18, <1>19, <1>20 DEF IInv

-----------------------------------------------------------------------------
(* Every step keeps the invariant.                                         *)
LEMMA MainKeeps == ASSUME IInv, Main PROVE IInv'
<1>1. faults \in Nat /\ crashes \in Nat
  BY DEF IInv, Typed
<1>2. CASE AllDone
  BY <1>2, MainStops
<1>3. CASE CancelledBetween
  <2>1. /\ call = "top" /\ Return("error", "cancelled") /\ faults' = faults
        /\ UNCHANGED <<record, tree, step, outputs, previous, pool, work, alive, session,
                       life, crashes, reopened>>
    BY <1>3 DEF CancelledBetween, bounds
  <2> QED
    BY <1>1, <2>1, MainStops
<1>4. CASE Malformed
  <2>1. /\ call = "top" /\ Return("error", "failed") /\ faults' = faults
        /\ UNCHANGED <<record, tree, step, outputs, previous, pool, work, alive, session,
                       life, crashes, reopened>>
    BY <1>4 DEF Malformed, Enters, bounds
  <2> QED
    BY <1>1, <2>1, MainStops
<1>5. CASE ExpandFails
  BY <1>1, <1>5, MainStops DEF ExpandFails, Fault
<1>6. CASE CollectFails
  BY <1>1, <1>6, MainStops DEF CollectFails, Fault
<1>7. CASE PoolEnds
  BY <1>7, PoolStops, PoolCollects
<1> QED
  BY <1>2, <1>3, <1>4, <1>5, <1>6, <1>7, SkipKeeps, RunOneKeeps, RunParallelKeeps, RunFanoutKeeps,
     ExpandKeeps, ClaimKeeps, CollectKeeps, Leaving DEF Main

LEMMA StepKeeps == ASSUME IInv, [Next]_vars PROVE IInv'
<1>1. CASE UNCHANGED vars
  <2>1. /\ UNCHANGED <<plan, unit, items, status, base, life, reopened, main, pool, work,
                       faults, crashes>>
        /\ saved' = saved /\ abort' = abort /\ alive' = alive /\ tree' = tree
    BY <1>1 DEF vars, record, session, bounds
  <2>2. /\ abort \in {"none", "user", "session_shutdown"}
        /\ tree \in [Tree -> {"none", "clean", "worked"}]
    BY DEF IInv, Typed, TypeOK
  <2> QED
    BY <2>1, <2>2, QuietKeeps
<1>2. CASE \E u \in Unit : Worker(u)
  <2>1. PICK u \in Unit : Worker(u)
    BY <1>2
  <2> QED
    BY <2>1, WorkerActs, EndWrittenKeeps, EndFailsKeeps DEF Worker
<1>3. CASE \E u \in Unit : Child(u)
  <2>1. PICK u \in Unit : Child(u)
    BY <1>3
  <2> QED
    BY <2>1, WorkerActs, Quiet DEF Child
<1>4. CASE Flush \/ \E origin \in Origins[plan] : Abort(origin)
  BY <1>4, Quiet
<1> QED
  BY <1>1, <1>2, <1>3, <1>4, StartKeeps, ResumeKeeps, MainKeeps, Leaving DEF Next

(* The model's invariant: each agent is asked with the current answers of  *)
(* the steps before it, in order; a completed run has them all; and a run  *)
(* whose writes succeed ends settled.                                      *)
LEMMA Answered == ASSUME IInv PROVE AnswersRight
<1>1. /\ plan \in Plans /\ step \in 1..(Len(plan) + 1) /\ Len(plan) \in Nat
      /\ Units \subseteq Unit
  BY TypesKnown, PlanFacts DEF IInv, Units
<1>2. ASSUME NEW u \in Unit, work[u].pc # "none"
      PROVE  u[1] = step /\ u \in Units /\ call \in Busy
  <2>1. u \in Units /\ u[1] = step /\ call \in {"one", "pool"}
    BY <1>2 DEF IInv, Placed
  <2> QED
    BY <2>1 DEF Busy
<1>3. InOrder
  BY <1>2 DEF InOrder, IInv, Ordered
<1>4. PromptsAreCurrent
  <2>1. SUFFICES ASSUME NEW u \in Unit, At(u, "establishing"), unit[u].told = "maybe", u[1] > 1
                 PROVE  StepDone(u[1] - 1) /\ previous = Answers(u[1] - 1)
    BY DEF PromptsAreCurrent
  <2>2. u[1] = step /\ u \in Units /\ call \in Busy
    BY <1>2, <2>1 DEF At
  <2>3. reopened = 0
    BY <2>1, <2>2 DEF IInv, Told
  <2>4. previous = Answers(step - 1)
    BY <2>1, <2>2, <2>3 DEF IInv, Valued, Held
  <2>5. StepDone(step - 1)
    <3>1. step - 1 \in 1..(step - 1)
      BY <1>1, <2>1, <2>2
    <3> QED
      BY <2>2, <3>1 DEF IInv, Ordered
  <2> QED
    BY <2>2, <2>4, <2>5
<1>5. EndsSettled
  <2>1. SUFFICES ASSUME call = "off", status \notin {"none", "running"}, faults = 0
                 PROVE  alive = {} /\ \A u \in Unit : unit[u].status # "running"
    BY DEF EndsSettled
  <2>2. \A u \in Unit : work[u].pc = "none"
    BY <2>1, NoWorkers
  <2>3. /\ \A u \in alive : work[u].pc \in {"establishing", "running"}
        /\ \A u \in Unit : unit[u].status = "running" => work[u].pc \in AtWork
    BY <2>1 DEF IInv, Settled
  <2>4. alive \subseteq Unit
    BY TypesKnown DEF IInv
  <2> QED
    BY <2>2, <2>3, <2>4 DEF AtWork
<1> QED
  BY <1>3, <1>4, <1>5 DEF AnswersRight, CompletedRunIsWhole, IInv, Ordered, Typed

THEOREM Invariant == Spec => []IInv
<1> QED
  BY InitKeeps, StepKeeps, PTL DEF Spec

(* Prompts, order, completion and ends, as runChainWorkflow, the pools and *)
(* the resumption have them.                                               *)
THEOREM AnswersStay == Spec => []AnswersRight
BY Invariant, Answered, PTL


-----------------------------------------------------------------------------
(* The record of the units and of the expansions, from one state to the    *)
(* next.                                                                   *)
LEMMA StepStands ==
    ASSUME IInv, [Next]_vars
    PROVE  /\ \A s \in Steps : items[s] # Unexpanded => items'[s] = items[s]
           /\ \A u \in Unit : unit[u].status = "completed" /\ unit'[u] # unit[u]
                              => reopened' = reopened + 1
<1>1. CASE UNCHANGED <<unit, items>>
  BY <1>1
<1>2. CASE Start
  <2>1. life = 0 /\ items' = items
    BY <1>2 DEF Start
  <2>2. \A u \in Unit : unit[u].status # "completed"
    BY <2>1 DEF IInv, Placed, Absent
  <2> QED
    BY <2>1, <2>2
<1>3. CASE Resume
  <2> DEFINE incomplete == {u \in Units : unit[u].status # "completed"}
             targets == IF incomplete # {} THEN incomplete ELSE Units
  <2>1. /\ items' = items
        /\ unit' = [u \in Unit |-> IF u \in targets
                                   THEN [unit[u] EXCEPT !.status = "queued"] ELSE unit[u]]
        /\ reopened' = IF incomplete = {} THEN reopened + 1 ELSE reopened
    BY <1>3 DEF Resume
  <2>2. ASSUME NEW u \in Unit, unit[u].status = "completed", unit'[u] # unit[u]
        PROVE  reopened' = reopened + 1
    <3>1. u \in targets
      BY <2>1, <2>2
    <3>2. incomplete = {}
      BY <2>2, <3>1
    <3> QED
      BY <2>1, <3>2
  <2> QED
    BY <2>1, <2>2
<1>4. CASE Expand
  <2>1. PICK n \in ExpansionOf(step) : Expanded(n)
    BY <1>4 DEF Expand
  <2>2. step \in Steps /\ items \in [Steps -> 0..Unexpanded]
    BY <1>4, TypesKnown DEF IInv, Placed, Expand, Entered
  <2>3. \A s \in Steps : items[s] # Unexpanded => items'[s] = items[s]
    BY <2>1, <2>2 DEF Expanded, ExpansionOf
  <2>4. \A u \in Unit : unit'[u] # unit[u] => unit[u] = Absent
    BY <2>1 DEF Expanded
  <2>5. Absent.status = "absent"
    BY DEF Absent
  <2> QED
    BY <2>3, <2>4, <2>5
<1>5. CASE \E u \in Unit : work[u].pc # "none" /\ items' = items
                           /\ \E r : unit' = [unit EXCEPT ![u] = r]
  <2>1. PICK u \in Unit : work[u].pc # "none" /\ items' = items
                          /\ \E r : unit' = [unit EXCEPT ![u] = r]
    BY <1>5
  <2>2. unit[u].status # "completed"
    BY <2>1 DEF IInv, Offered
  <2>3. \A v \in Unit : v # u => unit'[v] = unit[v]
    BY <2>1
  <2> QED
    BY <2>1, <2>2, <2>3
<1>6. CASE \E u \in Unit : Begun(u) \/ Spawn(u) \/ Established(u) \/ EndWritten(u)
  <2>1. PICK u \in Unit : Begun(u) \/ Spawn(u) \/ Established(u) \/ EndWritten(u)
    BY <1>6
  <2>2. items' = items
    BY <2>1 DEF Begun, Spawn, Established, EndWritten
  <2>3. work[u].pc # "none"
    BY <2>1 DEF Begun, Spawn, Established, EndWritten, At
  <2>4. \E r : unit' = [unit EXCEPT ![u] = r]
    BY <2>1 DEF Begun, Spawn, Established, EndWritten
  <2> QED
    BY <1>5, <2>2, <2>3, <2>4
<1>7. CASE \E u \in Unit : Worker(u) \/ Child(u)
  <2>1. PICK u \in Unit : Worker(u) \/ Child(u)
    BY <1>7
  <2>2. CASE Begun(u) \/ Spawn(u) \/ Established(u) \/ EndWritten(u)
    BY <1>6, <2>2
  <2>3. CASE Rejected(u) \/ Unsupported(u) \/ Prepared(u) \/ PrepareFails(u) \/ BeginFails(u)
             \/ EstablishFails(u) \/ Killed(u) \/ EndFails(u)
    <3>1. UNCHANGED record
      BY <2>3 DEF Rejected, Unsupported, Prepared, PrepareFails, BeginFails, EstablishFails,
                  Killed, EndFails
    <3> QED
      BY <1>1, <3>1 DEF record
  <2>4. CASE Child(u)
    BY <1>1, <2>4 DEF Child, ChildDies, Works, Exits, record
  <2> QED
    BY <2>1, <2>2, <2>3, <2>4 DEF Worker
<1>8. CASE \E origin \in Origins[plan] : Abort(origin)
  BY <1>1, <1>8 DEF Abort, record
<1>9. CASE Main \/ Flush \/ Crash
  <2>1. CASE Flush
    BY <1>1, <2>1 DEF Flush
  <2>2. CASE Crash
    BY <1>1, <2>2 DEF Crash, record
  <2>3. CASE Main /\ ~Expand
    <3>1. CASE AllDone \/ CancelledBetween \/ Skip \/ Malformed \/ RunOne
      BY <1>1, <3>1 DEF AllDone, CancelledBetween, Skip, Malformed, RunOne, record
    <3>2. CASE RunParallel \/ RunFanout \/ ExpandFails \/ Claim \/ PoolEnds
      BY <1>1, <3>2 DEF RunParallel, RunFanout, ExpandFails, Claim, PoolEnds, record
    <3>3. CASE Collect \/ CollectFails \/ Finalized \/ FinalizeFails
      BY <1>1, <3>3 DEF Collect, CollectFails, Finalized, FinalizeFails, record
    <3> QED
      BY <2>3, <3>1, <3>2, <3>3 DEF Main
  <2> QED
    BY <1>4, <1>9, <2>1, <2>2, <2>3
<1>10. CASE UNCHANGED vars
  BY <1>1, <1>10 DEF vars, record
<1> QED
  BY <1>2, <1>3, <1>7, <1>8, <1>9, <1>10 DEF Next

(* A resumption never changes a fanout's first expansion, and a completed  *)
(* unit is touched only when the whole run was completed and is opened     *)
(* again (runFanoutStep's restored expansion, the pools' slots, the        *)
(* selective resumption).                                                  *)
THEOREM StandsStay == Spec => WorkStands
<1>1. IInv /\ [Next]_vars =>
        [\A s \in Steps : items[s] # Unexpanded => items'[s] = items[s]]_vars
  BY StepStands
<1>2. IInv /\ [Next]_vars =>
        [\A u \in Unit : unit[u].status = "completed" /\ unit'[u] # unit[u]
                         => reopened' = reopened + 1]_vars
  BY StepStands
<1> QED
  BY <1>1, <1>2, Invariant, PTL DEF Spec, WorkStands, Frozen, CompletedWorkStays


-----------------------------------------------------------------------------
(* The worktrees.  What follows needs that a unit with a stored worktree   *)
(* is not refused before the worktree is looked at.                        *)
WorkedOf(u) == \A t \in Tree : t[1] = u /\ tree[t] = "worked" => unit[u].tree = t
ThereOf(u) == /\ work[u].pc \in {"none", "ready"} => Exists(unit[u].tree)
              /\ work[u].pc \in WithTree => Exists(work[u].tree)
              /\ work[u].pc = "ending" => Exists(work[u].keep)

LEMMA TreesByUnit ==
    TreesInv <=> \A u \in Unit : /\ TreeOf(u)
                                 /\ WorkedOf(u)
                                 /\ faults = 0 /\ crashes = 0 => ThereOf(u)
<1>1. \A t \in Tree : t[1] \in Unit
  BY DEF Tree
<1> QED
  BY <1>1 DEF TreesInv, TreesOwned, WorkedOnRecord, TreesThere, WorkedOf, ThereOf

LEMMA TreesByUnitNext ==
    ASSUME \A u \in Unit : /\ TreeOf(u)'
                           /\ WorkedOf(u)'
                           /\ faults' = 0 /\ crashes' = 0 => ThereOf(u)'
    PROVE  TreesInv'
<1>1. Unit' = Unit /\ Tree' = Tree /\ \A t \in Tree : t[1] \in Unit
  BY DEF Tree, Unit
<1>2. TreesOwned'
  BY <1>1 DEF TreesOwned
<1>3. WorkedOnRecord'
  BY <1>1 DEF WorkedOnRecord, WorkedOf
<1>4. TreesThere'
  BY <1>1 DEF TreesThere, ThereOf
<1> QED
  BY <1>2, <1>3, <1>4 DEF TreesInv

LEMMA NoTreeIsNone == NoTree \notin Tree /\ \A t \in Tree : t # NoTree
BY DEF NoTree, Tree, Unit

(* A unit whose record, worker, child and worktrees stay is as it was.     *)
LEMMA TreesOfOthers ==
    ASSUME IInv, TreesInv, NEW v \in Unit, plan' = plan, life' = life,
           work'[v] = work[v], unit'[v] = unit[v], v \in alive' => v \in alive,
           \A t \in Tree : t[1] = v => tree'[t] = tree[t],
           faults' = 0 /\ crashes' = 0 => faults = 0 /\ crashes = 0
    PROVE  /\ TreeOf(v)'
           /\ WorkedOf(v)'
           /\ faults' = 0 /\ crashes' = 0 => ThereOf(v)'
<1>1. /\ TreeOf(v) /\ WorkedOf(v)
      /\ faults = 0 /\ crashes = 0 => ThereOf(v)
  BY TreesByUnit
<1>2. unit[v].tree \in Trees /\ work[v].tree \in Trees /\ work[v].keep \in Trees
  BY TypesKnown DEF IInv, UnitRecords, Workers
<1>3. Isolates(v)' <=> Isolates(v)
  BY DEF Isolates
<1>4. \A t \in Trees : t # NoTree => t \in Tree
  BY DEF Trees
<1>5. TreeOf(v)'
  BY <1>1, <1>2, <1>3, <1>4 DEF TreeOf, Owned, WithTree, NoTree
<1>6. WorkedOf(v)'
  BY <1>1 DEF WorkedOf, Tree, Unit
<1>7. ThereOf(v) => ThereOf(v)'
  BY <1>1, <1>2, <1>4 DEF ThereOf, Exists, WithTree, TreeOf, Owned, NoTree
<1> QED
  BY <1>1, <1>5, <1>6, <1>7

LEMMA TreesOfOne ==
    ASSUME IInv, TreesInv, NEW u \in Unit, plan' = plan, life' = life,
           \A v \in Unit : v # u => /\ work'[v] = work[v] /\ unit'[v] = unit[v]
                                    /\ v \in alive' => v \in alive,
           \A t \in Tree : t[1] # u => tree'[t] = tree[t],
           faults' = 0 /\ crashes' = 0 => faults = 0 /\ crashes = 0,
           TreeOf(u)', WorkedOf(u)', faults' = 0 /\ crashes' = 0 => ThereOf(u)'
    PROVE  TreesInv'
<1>1. ASSUME NEW v \in Unit, v # u
      PROVE  /\ TreeOf(v)'
             /\ WorkedOf(v)'
             /\ faults' = 0 /\ crashes' = 0 => ThereOf(v)'
  BY <1>1, TreesOfOthers
<1> QED
  BY <1>1, TreesByUnitNext


(* A worker moves on: what it must see to for its unit's worktree.         *)
OfUnit(u, on, w, lives, tr) ==
    /\ Owned(u, on) /\ Owned(u, w.tree) /\ Owned(u, w.keep)
    /\ w.pc = "ready" => w.tree = NoTree
    /\ w.pc \in WithTree /\ Isolates(u) => w.tree # NoTree
    /\ w.pc = "beginning" /\ on # NoTree => w.tree = on
    /\ w.pc = "beginning" /\ on = NoTree /\ w.tree # NoTree => w.tree = <<u, life>>
    /\ w.pc \in {"begun", "establishing", "running"} => w.tree = on
    /\ w.pc = "ending" /\ w.again => w.tree = on
    /\ lives /\ w.tree # NoTree => w.tree = on
    /\ lives /\ Isolates(u) =>
          /\ on # NoTree
          /\ w.pc = "begun" => on[2] < life
          /\ w.pc = "ending" => w.keep # NoTree
    /\ w.pc = "ending" /\ on # NoTree => (tr[on] = "none" \/ w.keep = on)
    /\ \A t \in Tree : t[1] = u /\ tr[t] = "worked" => on = t
ThereFor(on, w, tr) ==
    /\ w.pc \in {"none", "ready"} => (on # NoTree => tr[on] # "none")
    /\ w.pc \in WithTree => (w.tree # NoTree => tr[w.tree] # "none")
    /\ w.pc = "ending" => (w.keep # NoTree => tr[w.keep] # "none")

LEMMA OfUnitNow ==
    ASSUME IInv, TreesInv, NEW u \in Unit
    PROVE  /\ OfUnit(u, unit[u].tree, work[u], u \in alive, tree)
           /\ faults = 0 /\ crashes = 0 => ThereFor(unit[u].tree, work[u], tree)
           /\ unit[u].tree \in Trees /\ work[u].tree \in Trees /\ work[u].keep \in Trees
           /\ work[u].again \in BOOLEAN /\ work[u].pc \in WorkerPcs
<1>1. /\ TreeOf(u) /\ WorkedOf(u)
      /\ faults = 0 /\ crashes = 0 => ThereOf(u)
  BY TreesByUnit
<1>2. /\ unit[u].tree \in Trees /\ work[u].tree \in Trees /\ work[u].keep \in Trees
      /\ work[u].again \in BOOLEAN /\ work[u].pc \in WorkerPcs
  BY TypesKnown DEF IInv, UnitRecords, Workers
<1>3. OfUnit(u, unit[u].tree, work[u], u \in alive, tree)
  BY <1>1 DEF TreeOf, WorkedOf, OfUnit
<1>4. ThereOf(u) => ThereFor(unit[u].tree, work[u], tree)
  BY DEF ThereOf, ThereFor, Exists
<1> QED
  BY <1>1, <1>2, <1>3, <1>4

LEMMA TreesMove ==
    ASSUME IInv, TreesInv, NEW u \in Unit, plan' = plan, life' = life,
           NEW w, NEW r, work' = [work EXCEPT ![u] = w], unit' = [unit EXCEPT ![u] = r],
           \A v \in Unit : v # u /\ v \in alive' => v \in alive,
           \A t \in Tree : t[1] # u => tree'[t] = tree[t],
           faults' = 0 /\ crashes' = 0 => faults = 0 /\ crashes = 0,
           OfUnit(u, r.tree, w, u \in alive', tree'),
           faults' = 0 /\ crashes' = 0 => ThereFor(r.tree, w, tree')
    PROVE  TreesInv'
<1>1. /\ work'[u] = w /\ unit'[u] = r
      /\ \A v \in Unit : v # u => work'[v] = work[v] /\ unit'[v] = unit[v]
  BY TypesKnown DEF IInv
<1>2. Isolates(u)' <=> Isolates(u)
  BY DEF Isolates
<1>3. TreeOf(u)'
  BY <1>1, <1>2 DEF TreeOf, OfUnit, Owned, WithTree, NoTree
<1>4. WorkedOf(u)'
  BY <1>1 DEF WorkedOf, OfUnit, Tree, Unit
<1>5. ThereFor(r.tree, w, tree') => ThereOf(u)'
  BY <1>1 DEF ThereOf, ThereFor, Exists, WithTree, NoTree
<1> QED
  BY <1>1, <1>3, <1>4, <1>5, TreesOfOne

(* Only the worker moves.                                                  *)
LEMMA TreesGo ==
    ASSUME IInv, TreesInv, NEW u \in Unit, plan' = plan, life' = life, unit' = unit,
           NEW w, Goes(u, w), alive' \subseteq alive,
           \A t \in Tree : t[1] # u => tree'[t] = tree[t],
           faults' = 0 /\ crashes' = 0 => faults = 0 /\ crashes = 0,
           OfUnit(u, unit[u].tree, w, u \in alive', tree'),
           faults' = 0 /\ crashes' = 0 => ThereFor(unit[u].tree, w, tree')
    PROVE  TreesInv'
<1>1. unit' = [unit EXCEPT ![u] = unit[u]] /\ work' = [work EXCEPT ![u] = w]
  BY TypesKnown DEF IInv, Goes
<1> QED
  BY <1>1, TreesMove

(* The unit goes to its end.                                               *)
LEMMA TreesEnd ==
    ASSUME IInv, TreesInv, NEW u \in Unit, plan' = plan, life' = life, unit' = unit,
           NEW status_ \in Ends, NEW keep \in Trees, NEW again \in BOOLEAN,
           Ending(u, status_, keep, again), alive' \subseteq alive,
           \A t \in Tree : t[1] # u => tree'[t] = tree[t],
           faults' = 0 /\ crashes' = 0 => faults = 0 /\ crashes = 0,
           Owned(u, keep), again => work[u].tree = unit[u].tree,
           u \in alive' /\ Isolates(u) => keep # NoTree,
           unit[u].tree # NoTree => tree'[unit[u].tree] = "none" \/ keep = unit[u].tree,
           \A t \in Tree : t[1] = u /\ tree'[t] = "worked" => unit[u].tree = t,
           keep # NoTree /\ faults' = 0 /\ crashes' = 0 => tree'[keep] # "none"
    PROVE  TreesInv'
<1> DEFINE w == EndOf(work[u], status_, keep, again)
<1>1. w \in Workers /\ w.pc = "ending" /\ w.keep = keep /\ w.tree = work[u].tree /\ w.again = again
  BY EndingRecord, TypesKnown DEF IInv
<1>2. Goes(u, w)
  BY DEF Ending, EndOf
<1> HIDE DEF w
<1>3. OfUnit(u, unit[u].tree, work[u], u \in alive, tree)
  BY OfUnitNow
<1>4. OfUnit(u, unit[u].tree, w, u \in alive', tree')
  BY <1>1, <1>3 DEF OfUnit, WithTree
<1>5. faults' = 0 /\ crashes' = 0 => ThereFor(unit[u].tree, w, tree')
  BY <1>1 DEF ThereFor, WithTree
<1> QED
  BY <1>2, <1>4, <1>5, TreesGo


(* What the actions of a worker and its child do to the worktrees.         *)
LEMMA TreesOfMade ==
    ASSUME IInv, TreesInv, NEW u \in Unit, work[u].pc = "ready"
    PROVE  /\ \A t \in Tree : Made(u)[t] = IF t = Opened(u) /\ unit[u].tree = NoTree
                                           THEN "clean" ELSE tree[t]
           /\ \A t \in Tree : t[1] # u => Made(u)[t] = tree[t]
           /\ \A t \in Tree : t[1] = u /\ Made(u)[t] = "worked" => unit[u].tree = t
           /\ Opened(u) \in Trees /\ Owned(u, Opened(u))
           /\ unit[u].tree # NoTree => /\ Opened(u) = unit[u].tree
                                       /\ Opened(u) # <<u, life>>
           /\ unit[u].tree = NoTree /\ Opened(u) # NoTree => Opened(u) = <<u, life>>
           /\ Isolates(u) => Opened(u) # NoTree
<1>1. tree \in [Tree -> {"none", "clean", "worked"}] /\ Opened(u) \in Trees
  BY TreesMade, TypesKnown DEF IInv
<1>2. OfUnit(u, unit[u].tree, work[u], u \in alive, tree)
  BY OfUnitNow
<1>3. unit[u].tree # NoTree => Isolates(u) /\ unit[u].tree[1] = u
  BY <1>2 DEF OfUnit, Owned
<1>4. unit[u].tree # NoTree => /\ Opened(u) = unit[u].tree
                               /\ unit[u].tree[2] < life
  BY <1>3, WorkerFacts DEF Opened
<1>5. unit[u].tree # NoTree => Opened(u) # <<u, life>>
  <2>1. life \in Nat /\ ~(life < life)
    BY WorkerFacts
  <2> QED
    BY <1>4, <2>1
<1>6. unit[u].tree = NoTree /\ Opened(u) # NoTree => Opened(u) = <<u, life>> /\ Isolates(u)
  BY DEF Opened
<1>7. Isolates(u) => Opened(u) # NoTree
  BY <1>4 DEF Opened, NoTree
<1>8. Owned(u, Opened(u))
  BY <1>3, <1>4, <1>6 DEF Owned
<1>9. \A t \in Tree : Made(u)[t] = IF t = Opened(u) /\ unit[u].tree = NoTree
                                   THEN "clean" ELSE tree[t]
  BY <1>1, NoTreeIsNone DEF Made
<1>10. \A t \in Tree : t[1] # u => Made(u)[t] = tree[t]
  BY <1>6, <1>9, NoTreeIsNone
<1>11. \A t \in Tree : t[1] = u /\ Made(u)[t] = "worked" => unit[u].tree = t
  BY <1>2, <1>9 DEF OfUnit
<1> QED
  BY <1>1, <1>4, <1>5, <1>6, <1>7, <1>8, <1>9, <1>10, <1>11

LEMMA TreesClean ==
    ASSUME IInv, TreesInv, NEW u \in Unit, plan' = plan, life' = life, unit' = unit,
           NEW t \in Trees, Cleaned(u, t), alive' = alive, Owned(u, t),
           faults' = 0 /\ crashes' = 0 => faults = 0 /\ crashes = 0,
           unit[u].tree # NoTree => unit[u].tree = t,
           unit[u].tree # NoTree /\ t = <<u, life>> => u \notin alive,
           unit[u].tree = NoTree /\ Isolates(u) => u \notin alive
    PROVE  TreesInv'
<1>1. PICK keep \in IF t = <<u, life>> THEN {NoTree, t} ELSE {t} :
        /\ tree' = [x \in Tree |-> IF x # t THEN tree[x]
                                   ELSE IF keep = NoTree THEN "none"
                                   ELSE IF tree[x] = "none" THEN "clean" ELSE tree[x]]
        /\ Ending(u, "failed", keep, FALSE)
  BY DEF Cleaned
<1>2. /\ keep \in Trees /\ keep \in {NoTree, t} /\ Owned(u, keep)
      /\ t # <<u, life>> => keep = t
      /\ "failed" \in Ends /\ FALSE \in BOOLEAN
  BY <1>1 DEF Trees, Owned, Ends
<1>3. /\ \A x \in Tree : tree'[x] = IF x # t THEN tree[x]
                                    ELSE IF keep = NoTree THEN "none"
                                    ELSE IF tree[x] = "none" THEN "clean" ELSE tree[x]
  BY <1>1
<1>4. \A x \in Tree : x[1] # u => tree'[x] = tree[x]
  BY <1>3, NoTreeIsNone DEF Owned
<1>5. OfUnit(u, unit[u].tree, work[u], u \in alive, tree)
      /\ unit[u].tree \in Trees
  BY OfUnitNow
<1>6. \A x \in Tree : x[1] = u /\ tree'[x] = "worked" => unit[u].tree = x
  BY <1>3, <1>5 DEF OfUnit
<1>7. unit[u].tree # NoTree => tree'[unit[u].tree] = "none" \/ keep = unit[u].tree
  BY <1>2, <1>3, <1>5 DEF Trees
<1>8. u \in alive' /\ Isolates(u) => keep # NoTree
  BY <1>2
<1>9. keep # NoTree => tree'[keep] # "none"
  BY <1>2, <1>3 DEF Trees
<1> QED
  BY <1>1, <1>2, <1>4, <1>6, <1>7, <1>8, <1>9, TreesEnd


LEMMA TreesOfWorker ==
    ASSUME IInv, TreesInv, LateRejections = FALSE, NEW u \in Unit, Worker(u)
    PROVE  TreesInv'
<1> USE DEF At
<1>0. /\ {"failed", "completed", "cancelled", "interrupted"} \subseteq Ends
      /\ NoTree \in Trees /\ TRUE \in BOOLEAN /\ FALSE \in BOOLEAN
  BY DEF Ends, Trees
<1>1. /\ OfUnit(u, unit[u].tree, work[u], u \in alive, tree)
      /\ faults = 0 /\ crashes = 0 => ThereFor(unit[u].tree, work[u], tree)
      /\ unit[u].tree \in Trees /\ work[u].tree \in Trees /\ work[u].keep \in Trees
      /\ work[u].again \in BOOLEAN /\ work[u].pc \in WorkerPcs
  BY OfUnitNow
<1>2. /\ unit[u] \in UnitRecords /\ work[u] \in Workers
      /\ tree \in [Tree -> {"none", "clean", "worked"}]
      /\ faults \in Nat /\ crashes \in Nat
  BY TypesKnown DEF IInv, Typed
<1>3. Owned(u, NoTree) /\ Owned(u, work[u].tree) /\ Owned(u, unit[u].tree)
      /\ Owned(u, work[u].keep)
  BY <1>1 DEF Owned, OfUnit
<1>4. \A t \in Tree : t[1] = u /\ tree[t] = "worked" => unit[u].tree = t
  BY <1>1 DEF OfUnit
<1>11. CASE Rejected(u)
  <2>1. /\ work[u].pc = "ready" /\ unit[u].tree = NoTree /\ Ending(u, "failed", NoTree, FALSE)
        /\ plan' = plan /\ life' = life /\ unit' = unit /\ alive' = alive /\ tree' = tree
        /\ faults' = faults /\ crashes' = crashes
    BY <1>11 DEF Rejected, record, bounds
  <2>2. ~(u \in alive /\ Isolates(u))
    BY <1>1, <2>1 DEF OfUnit
  <2> QED
    BY <1>0, <1>3, <1>4, <2>1, <2>2, TreesEnd
<1>12. CASE Unsupported(u)
  <2>1. /\ work[u].pc = "ready" /\ unit[u].tree = NoTree /\ Ending(u, "failed", NoTree, FALSE)
        /\ plan' = plan /\ life' = life /\ unit' = unit /\ alive' = alive /\ tree' = Made(u)
        /\ faults' = faults /\ crashes' = crashes
    BY <1>12 DEF Unsupported, record, bounds
  <2>2. ~(u \in alive /\ Isolates(u))
    BY <1>1, <2>1 DEF OfUnit
  <2>3. /\ \A t \in Tree : t[1] # u => tree'[t] = tree[t]
        /\ \A t \in Tree : t[1] = u /\ tree'[t] = "worked" => unit[u].tree = t
    BY <2>1, TreesOfMade
  <2> QED
    BY <1>0, <1>3, <2>1, <2>2, <2>3, TreesEnd
<1>13. CASE Prepared(u)
  <2> DEFINE w == [work[u] EXCEPT !.pc = "beginning", !.tree = Opened(u)]
  <2>1. /\ Goes(u, w) /\ work[u].pc = "ready" /\ tree' = Made(u)
        /\ plan' = plan /\ life' = life /\ unit' = unit /\ alive' = alive
        /\ faults' = faults /\ crashes' = crashes
    BY <1>13 DEF Prepared, record, bounds
  <2>2. w.pc = "beginning" /\ w.tree = Opened(u) /\ w.keep = work[u].keep
    BY <1>2, <2>1, TreesOfMade DEF Workers, WorkerPcs
  <2> HIDE DEF w
  <2>3. OfUnit(u, unit[u].tree, w, u \in alive', tree')
    <3>1. u \in alive /\ Isolates(u) => unit[u].tree # NoTree
      BY <1>1 DEF OfUnit
    <3>2. u \in alive /\ w.tree # NoTree => w.tree = unit[u].tree
      BY <2>1, <2>2, <3>1, TreesOfMade DEF Owned
    <3> QED
      BY <1>3, <2>1, <2>2, <3>1, <3>2, TreesOfMade DEF OfUnit, WithTree
  <2>4. ThereFor(unit[u].tree, work[u], tree) => ThereFor(unit[u].tree, w, tree')
    <3>1. ASSUME unit[u].tree # NoTree => tree[unit[u].tree] # "none", w.tree # NoTree
          PROVE  tree'[w.tree] # "none"
      <4>1. w.tree \in Tree
        BY <2>1, <2>2, <3>1, TreesOfMade DEF Trees
      <4> QED
        BY <2>1, <2>2, <3>1, <4>1, TreesOfMade
    <3> QED
      BY <2>1, <2>2, <3>1 DEF ThereFor, WithTree
  <2> QED
    BY <1>1, <2>1, <2>3, <2>4, TreesGo, TreesOfMade
<1>14. CASE PrepareFails(u)
  <2>1. /\ Cleaned(u, Opened(u)) /\ work[u].pc = "ready"
        /\ plan' = plan /\ life' = life /\ unit' = unit /\ alive' = alive
        /\ faults' = faults /\ crashes' = crashes
    BY <1>14 DEF PrepareFails, record, bounds
  <2>2. u \in alive /\ Isolates(u) => unit[u].tree # NoTree
    BY <1>1 DEF OfUnit
  <2>3. unit[u].tree = NoTree /\ Isolates(u) => u \notin alive
    BY <2>2
  <2> QED
    BY <2>1, <2>3, TreesClean, TreesOfMade
<1>15. CASE Begun(u)
  <2> DEFINE w == [work[u] EXCEPT !.pc = "begun"]
             r == [unit[u] EXCEPT !.status = "running", !.attempts = @ + 1, !.tree = work[u].tree]
  <2>1. /\ work' = [work EXCEPT ![u] = w] /\ work[u].pc = "beginning"
        /\ unit' = [unit EXCEPT ![u] = r]
        /\ plan' = plan /\ life' = life /\ alive' = alive /\ tree' = tree
        /\ faults' = faults /\ crashes' = crashes
    BY <1>15 DEF Begun, Goes, bounds
  <2>2. w.pc = "begun" /\ w.tree = work[u].tree /\ w.keep = work[u].keep
    BY <1>2 DEF Workers
  <2>3. r.tree = work[u].tree
    BY <1>2 DEF UnitRecords
  <2> HIDE DEF w, r
  <2>4. unit[u].tree # NoTree => work[u].tree = unit[u].tree /\ unit[u].tree[2] < life
    BY <1>1, <2>1, WorkerFacts DEF OfUnit
  <2>5. OfUnit(u, r.tree, w, u \in alive', tree')
    <3>1. \A t \in Tree : t[1] = u /\ tree[t] = "worked" => work[u].tree = t
      BY <1>4, <2>4, NoTreeIsNone
    <3>2. u \in alive /\ Isolates(u) => work[u].tree # NoTree /\ work[u].tree[2] < life
      BY <1>1, <2>4 DEF OfUnit
    <3>3. Isolates(u) => work[u].tree # NoTree
      BY <1>1, <2>1 DEF OfUnit, WithTree
    <3> QED
      BY <1>3, <2>1, <2>2, <2>3, <3>1, <3>2, <3>3 DEF OfUnit, WithTree
  <2>6. ThereFor(unit[u].tree, work[u], tree) => ThereFor(r.tree, w, tree')
    BY <2>1, <2>2, <2>3 DEF ThereFor, WithTree
  <2> QED
    BY <1>1, <2>1, <2>5, <2>6, TreesMove
<1>16. CASE BeginFails(u)
  <2>1. /\ Cleaned(u, work[u].tree) /\ work[u].pc \in {"beginning", "begun"}
        /\ faults' = faults + 1 /\ plan' = plan /\ life' = life /\ unit' = unit /\ alive' = alive
    BY <1>16 DEF BeginFails, Fault, record
  <2>2. unit[u].tree # NoTree => unit[u].tree = work[u].tree
    BY <1>1, <2>1 DEF OfUnit
  <2>3. unit[u].tree # NoTree /\ work[u].tree = <<u, life>> => u \notin alive
    <3>1. CASE work[u].pc = "beginning"
      <4>1. unit[u].tree # NoTree => unit[u].tree[2] < life
        BY <3>1, WorkerFacts
      <4>2. life \in Nat /\ ~(life < life)
        BY <3>1, WorkerFacts
      <4> QED
        BY <2>2, <4>1, <4>2
    <3>2. CASE work[u].pc = "begun"
      <4>1. u \in alive /\ Isolates(u) => unit[u].tree[2] < life
        BY <1>1, <3>2 DEF OfUnit
      <4>2. life \in Nat /\ ~(life < life)
        BY <3>2, WorkerFacts
      <4>3. unit[u].tree # NoTree => Isolates(u)
        BY <1>3 DEF Owned
      <4> QED
        BY <2>2, <4>1, <4>2, <4>3
    <3> QED
      BY <2>1, <3>1, <3>2
  <2>4. u \in alive /\ Isolates(u) => unit[u].tree # NoTree
    BY <1>1 DEF OfUnit
  <2>5. faults' # 0
    BY <1>2, <2>1
  <2> QED
    BY <1>1, <1>3, <2>1, <2>2, <2>3, <2>4, <2>5, TreesClean
<1>17. CASE Spawn(u)
  <2> DEFINE w == [work[u] EXCEPT !.pc = "establishing"]
             r == [unit[u] EXCEPT !.told = IF @ = "no" THEN "maybe" ELSE @]
  <2>1. /\ work' = [work EXCEPT ![u] = w] /\ work[u].pc = "begun"
        /\ unit' = [unit EXCEPT ![u] = r]
        /\ plan' = plan /\ life' = life /\ alive' = alive \cup {u} /\ tree' = tree
        /\ faults' = faults /\ crashes' = crashes
    BY <1>17 DEF Spawn, Goes, bounds
  <2>2. w.pc = "establishing" /\ w.tree = work[u].tree /\ w.keep = work[u].keep
    BY <1>2 DEF Workers
  <2>3. r.tree = unit[u].tree
    BY <1>2 DEF UnitRecords
  <2> HIDE DEF w, r
  <2>5. OfUnit(u, r.tree, w, u \in alive', tree')
    BY <1>1, <2>1, <2>2, <2>3 DEF OfUnit, WithTree
  <2>6. ThereFor(unit[u].tree, work[u], tree) => ThereFor(r.tree, w, tree')
    BY <2>1, <2>2, <2>3 DEF ThereFor, WithTree
  <2> QED
    BY <1>1, <2>1, <2>5, <2>6, TreesMove
<1>18. CASE Established(u)
  <2> DEFINE w == [work[u] EXCEPT !.pc = "running"]
             r == [unit[u] EXCEPT !.told = "yes"]
  <2>1. /\ work' = [work EXCEPT ![u] = w] /\ work[u].pc = "establishing"
        /\ unit' = [unit EXCEPT ![u] = r]
        /\ plan' = plan /\ life' = life /\ alive' = alive /\ tree' = tree
        /\ faults' = faults /\ crashes' = crashes
    BY <1>18 DEF Established, Goes, bounds
  <2>2. w.pc = "running" /\ w.tree = work[u].tree /\ w.keep = work[u].keep
    BY <1>2 DEF Workers
  <2>3. r.tree = unit[u].tree
    BY <1>2 DEF UnitRecords
  <2> HIDE DEF w, r
  <2>5. OfUnit(u, r.tree, w, u \in alive', tree')
    BY <1>1, <2>1, <2>2, <2>3 DEF OfUnit, WithTree
  <2>6. ThereFor(unit[u].tree, work[u], tree) => ThereFor(r.tree, w, tree')
    BY <2>1, <2>2, <2>3 DEF ThereFor, WithTree
  <2> QED
    BY <1>1, <2>1, <2>5, <2>6, TreesMove
<1>19. CASE EstablishFails(u)
  <2>1. /\ Ending(u, "failed", work[u].tree, FALSE) /\ work[u].pc = "establishing"
        /\ faults' = faults + 1 /\ plan' = plan /\ life' = life /\ unit' = unit
        /\ alive' = alive /\ tree' = tree
    BY <1>19 DEF EstablishFails, Fault, record
  <2>2. work[u].tree = unit[u].tree /\ (Isolates(u) => work[u].tree # NoTree)
    BY <1>1, <2>1 DEF OfUnit, WithTree
  <2>3. faults' # 0
    BY <1>2, <2>1
  <2> QED
    BY <1>0, <1>1, <1>3, <1>4, <2>1, <2>2, <2>3, TreesEnd
<1>20. CASE Killed(u)
  <2>1. PICK s \in {"cancelled", "interrupted"} : Ending(u, s, work[u].tree, FALSE)
    BY <1>20 DEF Killed
  <2>2. /\ work[u].pc = "running" /\ plan' = plan /\ life' = life /\ unit' = unit
        /\ alive' = alive \ {u} /\ tree' = tree /\ faults' = faults /\ crashes' = crashes
    BY <1>20 DEF Killed, record, bounds
  <2>3. work[u].tree = unit[u].tree
    BY <1>1, <2>2 DEF OfUnit
  <2>4. faults = 0 /\ crashes = 0 /\ work[u].tree # NoTree => tree[work[u].tree] # "none"
    BY <1>1, <2>2 DEF ThereFor, WithTree
  <2> QED
    BY <1>0, <1>1, <1>3, <1>4, <2>1, <2>2, <2>3, <2>4, TreesEnd
<1>21. CASE EndWritten(u)
  <2> DEFINE r == [unit[u] EXCEPT !.status = work[u].ends, !.tree = work[u].keep]
  <2>1. /\ work' = [work EXCEPT ![u] = Idle] /\ work[u].pc = "ending"
        /\ unit' = [unit EXCEPT ![u] = r]
        /\ plan' = plan /\ life' = life /\ alive' = alive /\ tree' = tree
        /\ faults' = faults /\ crashes' = crashes
    BY <1>21 DEF EndWritten, Goes, bounds
  <2>2. r.tree = work[u].keep
    BY <1>2 DEF UnitRecords
  <2>3. Idle.pc = "none" /\ Idle.tree = NoTree /\ Idle.keep = NoTree /\ Idle.again = FALSE
    BY DEF Idle
  <2> HIDE DEF r
  <2>4. \A t \in Tree : t[1] = u /\ tree[t] = "worked" => work[u].keep = t
    BY <1>1, <1>4, <2>1, NoTreeIsNone DEF OfUnit
  <2>5. u \in alive /\ Isolates(u) => work[u].keep # NoTree
    BY <1>1, <2>1 DEF OfUnit
  <2>6. OfUnit(u, r.tree, Idle, u \in alive', tree')
    BY <1>3, <2>1, <2>2, <2>3, <2>4, <2>5 DEF OfUnit, WithTree
  <2>7. ThereFor(unit[u].tree, work[u], tree) => ThereFor(r.tree, Idle, tree')
    BY <2>1, <2>2, <2>3 DEF ThereFor, WithTree
  <2> QED
    BY <1>1, <2>1, <2>6, <2>7, TreesMove
<1>22. CASE EndFails(u)
  <2>1. /\ work[u].pc = "ending" /\ faults' = faults + 1 /\ plan' = plan /\ life' = life
        /\ unit' = unit /\ alive' = alive /\ tree' = tree
        /\ IF work[u].again THEN Ending(u, "failed", work[u].tree, FALSE) ELSE Goes(u, Idle)
    BY <1>22 DEF EndFails, Fault, record
  <2>2. faults' # 0
    BY <1>2, <2>1
  <2>3. CASE work[u].again
    <3>1. work[u].tree = unit[u].tree
      BY <1>1, <2>1, <2>3 DEF OfUnit
    <3>2. u \in alive /\ Isolates(u) => unit[u].tree # NoTree
      BY <1>1 DEF OfUnit
    <3> QED
      BY <1>0, <1>1, <1>3, <1>4, <2>1, <2>2, <2>3, <3>1, <3>2, TreesEnd
  <2>4. CASE ~work[u].again
    <3>1. Idle.pc = "none" /\ Idle.tree = NoTree /\ Idle.keep = NoTree /\ Idle.again = FALSE
      BY DEF Idle
    <3>2. OfUnit(u, unit[u].tree, Idle, u \in alive', tree')
      BY <1>1, <1>3, <2>1, <3>1 DEF OfUnit, WithTree
    <3> QED
      BY <2>1, <2>2, <2>4, <3>2, TreesGo
  <2> QED
    BY <2>3, <2>4
<1> QED
  BY <1>11, <1>12, <1>13, <1>14, <1>15, <1>16, <1>17, <1>18, <1>19, <1>20, <1>21, <1>22 DEF Worker


LEMMA TreesOfChild ==
    ASSUME IInv, TreesInv, NEW u \in Unit, Child(u)
    PROVE  TreesInv'
<1> USE DEF At
<1>1. /\ OfUnit(u, unit[u].tree, work[u], u \in alive, tree)
      /\ faults = 0 /\ crashes = 0 => ThereFor(unit[u].tree, work[u], tree)
      /\ unit[u].tree \in Trees /\ work[u].tree \in Trees /\ work[u].keep \in Trees
      /\ work[u].again \in BOOLEAN /\ work[u].pc \in WorkerPcs
  BY OfUnitNow
<1>2. /\ tree \in [Tree -> {"none", "clean", "worked"}]
      /\ work = [work EXCEPT ![u] = work[u]]
  BY TypesKnown DEF IInv
<1>3. CASE ChildDies(u)
  <2>1. /\ alive' = alive \ {u} /\ plan' = plan /\ life' = life /\ unit' = unit /\ tree' = tree
        /\ work' = work /\ faults' = faults /\ crashes' = crashes
    BY <1>3 DEF ChildDies, record, bounds
  <2>2. OfUnit(u, unit[u].tree, work[u], u \in alive', tree')
    BY <1>1, <2>1 DEF OfUnit
  <2> QED
    BY <1>1, <1>2, <2>1, <2>2, TreesGo DEF Goes
<1>4. CASE Works(u)
  <2>1. /\ alive' = alive /\ plan' = plan /\ life' = life /\ unit' = unit
        /\ work' = work /\ faults' = faults /\ crashes' = crashes
        /\ u \in alive /\ work[u].tree # NoTree /\ tree[work[u].tree] = "clean"
        /\ tree' = [tree EXCEPT ![work[u].tree] = "worked"]
    BY <1>4 DEF Works, record, bounds
  <2>2. work[u].tree = unit[u].tree /\ work[u].tree \in Tree /\ work[u].tree[1] = u
    BY <1>1, <2>1 DEF OfUnit, Owned, Trees
  <2>3. \A t \in Tree : tree'[t] = IF t = work[u].tree THEN "worked" ELSE tree[t]
    BY <1>2, <2>1, <2>2
  <2>4. OfUnit(u, unit[u].tree, work[u], u \in alive', tree')
    BY <1>1, <2>1, <2>2, <2>3 DEF OfUnit
  <2>5. \A t \in Trees : t # NoTree => (tree[t] # "none" => tree'[t] # "none")
    BY <2>3 DEF Trees
  <2>6. ThereFor(unit[u].tree, work[u], tree) => ThereFor(unit[u].tree, work[u], tree')
    BY <1>1, <2>5 DEF ThereFor
  <2>7. \A t \in Tree : t[1] # u => tree'[t] = tree[t]
    BY <2>2, <2>3
  <2>8. Goes(u, work[u])
    BY <1>2, <2>1 DEF Goes
  <2>9. alive' \subseteq alive /\ faults' = faults /\ crashes' = crashes
        /\ plan' = plan /\ life' = life /\ unit' = unit
    BY <2>1
  <2> QED
    BY <1>1, <2>4, <2>6, <2>7, <2>8, <2>9, TreesGo
<1>5. CASE \E s \in {"completed", "failed"} : Exits(u, s)
  <2>1. PICK s \in {"completed", "failed"} : Exits(u, s)
    BY <1>5
  <2>2. PICK keep \in Kept(u, s) :
        /\ tree' = [t \in Tree |-> IF t = work[u].tree /\ keep = NoTree THEN "none" ELSE tree[t]]
        /\ Ending(u, s, keep, TRUE)
    BY <2>1 DEF Exits
  <2>3. /\ alive' = alive \ {u} /\ plan' = plan /\ life' = life /\ unit' = unit
        /\ faults' = faults /\ crashes' = crashes /\ work[u].pc = "running"
    BY <2>1 DEF Exits, record, bounds
  <2>4. /\ keep \in {NoTree, work[u].tree} /\ keep \in Trees
        /\ s \in Ends /\ TRUE \in BOOLEAN
    BY <1>1, <2>2 DEF Kept, Trees, Ends
  <2>5. work[u].tree = unit[u].tree /\ Owned(u, keep) /\ Owned(u, work[u].tree)
    BY <1>1, <2>3, <2>4 DEF OfUnit, Owned
  <2>6. \A t \in Tree : tree'[t] = IF t = work[u].tree /\ keep = NoTree THEN "none" ELSE tree[t]
    BY <2>2
  <2>7. \A t \in Tree : t[1] # u => tree'[t] = tree[t]
    BY <2>5, <2>6, NoTreeIsNone DEF Owned
  <2>8. \A t \in Tree : t[1] = u /\ tree'[t] = "worked" => unit[u].tree = t
    BY <1>1, <2>6 DEF OfUnit
  <2>9. unit[u].tree # NoTree => tree'[unit[u].tree] = "none" \/ keep = unit[u].tree
    BY <1>1, <2>4, <2>5, <2>6 DEF Trees
  <2>10. keep # NoTree /\ faults = 0 /\ crashes = 0 => tree'[keep] # "none"
    BY <1>1, <2>3, <2>4, <2>6 DEF Trees, ThereFor, WithTree
  <2> QED
    BY <2>2, <2>3, <2>4, <2>5, <2>7, <2>8, <2>9, <2>10, TreesEnd
<1> QED
  BY <1>3, <1>4, <1>5 DEF Child

(* The call's own steps make and remove no worktree: they start workers,   *)
(* queue units or leave.                                                   *)
LEMMA TreesOfMain ==
    ASSUME IInv, TreesInv, plan' = plan, tree' = tree, alive' \subseteq alive,
           \A u \in Unit : unit'[u].tree = unit[u].tree,
           \A u \in Unit : \/ work'[u] = work[u]
                           \/ work'[u] = Idle /\ crashes' # 0
                           \/ work[u].pc = "none" /\ work'[u] = [Idle EXCEPT !.pc = "ready"],
           life' = life \/ \A u \in Unit : work'[u].pc = "none",
           faults' = 0 /\ crashes' = 0 => faults = 0 /\ crashes = 0
    PROVE  TreesInv'
<1>1. ASSUME NEW u \in Unit
      PROVE  /\ TreeOf(u)'
             /\ WorkedOf(u)'
             /\ faults' = 0 /\ crashes' = 0 => ThereOf(u)'
  <2>1. /\ TreeOf(u) /\ WorkedOf(u)
        /\ faults = 0 /\ crashes = 0 => ThereOf(u)
    BY TreesByUnit
  <2>2. Isolates(u)' <=> Isolates(u)
    BY DEF Isolates
  <2>3. /\ Idle.pc = "none" /\ Idle.tree = NoTree /\ Idle.keep = NoTree /\ Idle.again = FALSE
        /\ [Idle EXCEPT !.pc = "ready"].pc = "ready" /\ [Idle EXCEPT !.pc = "ready"].tree = NoTree
        /\ [Idle EXCEPT !.pc = "ready"].keep = NoTree /\ [Idle EXCEPT !.pc = "ready"].again = FALSE
    BY DEF Idle
  <2>4. WorkedOf(u)'
    BY <2>1 DEF WorkedOf, Tree, Unit
  <2>5. CASE work'[u] = work[u] /\ (life' = life \/ work'[u].pc = "none")
    <3>1. TreeOf(u)'
      BY <2>1, <2>2, <2>5 DEF TreeOf, Owned, WithTree, NoTree
    <3>2. ThereOf(u) => ThereOf(u)'
      BY <2>5 DEF ThereOf, Exists, WithTree, NoTree
    <3> QED
      BY <2>1, <2>4, <3>1, <3>2
  <2>6. CASE work'[u] = Idle /\ crashes' # 0
    <3>1. TreeOf(u)'
      BY <2>1, <2>2, <2>3, <2>6 DEF TreeOf, Owned, WithTree, NoTree
    <3> QED
      BY <2>4, <2>6, <3>1
  <2>7. CASE work[u].pc = "none" /\ work'[u] = [Idle EXCEPT !.pc = "ready"]
    <3>1. TreeOf(u)'
      BY <2>1, <2>2, <2>3, <2>7 DEF TreeOf, Owned, WithTree, NoTree
    <3>2. ThereOf(u) => ThereOf(u)'
      BY <2>3, <2>7 DEF ThereOf, Exists, WithTree, NoTree
    <3> QED
      BY <2>1, <2>4, <3>1, <3>2
  <2> QED
    BY <2>5, <2>6, <2>7
<1> QED
  BY <1>1, TreesByUnitNext

LEMMA TreesStep ==
    ASSUME IInv, TreesInv, LateRejections = FALSE, [Next]_vars
    PROVE  TreesInv'
<1>0. /\ work \in [Unit -> Workers] /\ crashes \in Nat /\ faults \in Nat
      /\ unit \in [Unit -> UnitRecords]
  BY TypesKnown DEF IInv, Typed
<1>1. CASE /\ UNCHANGED <<plan, unit, tree, work, alive, life>>
           /\ faults' = 0 /\ crashes' = 0 => faults = 0 /\ crashes = 0
  BY <1>1, TreesOfMain
<1>2. CASE Start
  <2>1. /\ plan' = plan /\ tree' = tree /\ alive' = alive /\ work' = work
        /\ faults' = faults /\ crashes' = crashes /\ life = 0 /\ call = "off"
        /\ \A u \in Unit : unit'[u] = Queued \/ unit'[u] = Absent
    BY <1>2 DEF Start, IInv, Placed
  <2>2. Queued.tree = NoTree /\ Absent.tree = NoTree
    BY DEF Queued, Absent
  <2>3. \A u \in Unit : unit'[u].tree = unit[u].tree
    BY <2>1, <2>2 DEF IInv, Placed
  <2>4. \A u \in Unit : work'[u].pc = "none"
    BY <2>1, NoWorkers
  <2> QED
    BY <2>1, <2>3, <2>4, TreesOfMain
<1>3. CASE Resume
  <2> DEFINE incomplete == {u \in Units : unit[u].status # "completed"}
             targets == IF incomplete # {} THEN incomplete ELSE Units
  <2>1. /\ plan' = plan /\ tree' = tree /\ alive' = alive /\ work' = work
        /\ faults' = faults /\ crashes' = crashes /\ call = "off"
        /\ unit' = [u \in Unit |-> IF u \in targets
                                   THEN [unit[u] EXCEPT !.status = "queued"] ELSE unit[u]]
    BY <1>3 DEF Resume
  <2> HIDE DEF targets
  <2>2. \A u \in Unit : unit'[u].tree = unit[u].tree
    <3>1. ASSUME NEW u \in Unit PROVE [unit[u] EXCEPT !.status = "queued"].tree = unit[u].tree
      BY <1>0 DEF UnitRecords
    <3> QED
      BY <2>1, <3>1
  <2>3. \A u \in Unit : work'[u].pc = "none"
    BY <2>1, NoWorkers
  <2> QED
    BY <2>1, <2>2, <2>3, TreesOfMain
<1>4. CASE Expand
  <2>1. PICK n \in ExpansionOf(step) : Expanded(n)
    BY <1>4 DEF Expand
  <2>2. \A u \in Unit : unit'[u] = unit[u] \/ (unit[u] = Absent /\ unit'[u] = Queued)
    BY <2>1 DEF Expanded
  <2>3. Queued.tree = NoTree /\ Absent.tree = NoTree
    BY DEF Queued, Absent
  <2>4. \A u \in Unit : unit'[u].tree = unit[u].tree
    BY <2>2, <2>3
  <2>5. /\ plan' = plan /\ tree' = tree /\ alive' = alive /\ work' = work /\ life' = life
        /\ faults' = faults /\ crashes' = crashes
    BY <1>4 DEF Expand, bounds
  <2> QED
    BY <2>4, <2>5, TreesOfMain
<1>5. CASE RunOne \/ Claim
  <2>1. /\ plan' = plan /\ tree' = tree /\ alive' = alive /\ unit' = unit /\ life' = life
        /\ faults' = faults /\ crashes' = crashes
    BY <1>5 DEF RunOne, Claim, record, bounds
  <2>2. \A u \in Unit : \/ work'[u] = work[u]
                        \/ work[u].pc = "none" /\ work'[u] = [Idle EXCEPT !.pc = "ready"]
    <3>1. CASE RunOne
      <4>1. \A u \in Unit : work[u].pc = "none"
        BY <3>1, NoWorkers DEF RunOne, Enters
      <4> QED
        BY <1>0, <3>1, <4>1 DEF RunOne
    <3>2. CASE Claim
      <4>1. \A u \in Unit : work[u].pc # "none" => u[2] < next
        BY <3>2 DEF Claim, IInv, Placed
      <4>2. work' = work \/ work' = [work EXCEPT ![<<step, next>>] = [Idle EXCEPT !.pc = "ready"]]
        BY <3>2 DEF Claim
      <4>3. ASSUME <<step, next>> \in Unit PROVE work[<<step, next>>].pc = "none"
        <5>1. next \in Nat /\ ~(next < next)
          BY TypesKnown, PlanFacts DEF IInv
        <5> QED
          BY <4>1, <4>3, <5>1
      <4> QED
        BY <1>0, <4>2, <4>3
    <3> QED
      BY <1>5, <3>1, <3>2
  <2> QED
    BY <2>1, <2>2, TreesOfMain
<1>6. CASE Crash
  <2>1. /\ plan' = plan /\ tree' = tree /\ alive' = {} /\ unit' = unit /\ life' = life
        /\ work' = [u \in Unit |-> Idle] /\ crashes' = crashes + 1
    BY <1>6 DEF Crash, record
  <2>2. crashes' # 0
    BY <1>0, <2>1
  <2> QED
    BY <2>1, <2>2, TreesOfMain
<1>7. CASE AllDone \/ CancelledBetween \/ Skip \/ Malformed \/ RunParallel \/ RunFanout
           \/ PoolEnds \/ Collect \/ Finalized
  <2>1. CASE AllDone \/ CancelledBetween \/ Skip \/ Malformed
    BY <1>1, <2>1 DEF AllDone, CancelledBetween, Skip, Malformed, record, bounds
  <2>2. CASE RunParallel \/ RunFanout \/ PoolEnds
    BY <1>1, <2>2 DEF RunParallel, RunFanout, PoolEnds, record, bounds
  <2>3. CASE Collect \/ Finalized
    BY <1>1, <2>3 DEF Collect, Finalized, record, bounds
  <2> QED
    BY <1>7, <2>1, <2>2, <2>3
<1>8. CASE ExpandFails \/ CollectFails \/ FinalizeFails
  <2>1. UNCHANGED <<plan, unit, tree, work, alive, life>> /\ faults' = faults + 1
    BY <1>8 DEF ExpandFails, CollectFails, FinalizeFails, Fault, record
  <2>2. faults' # 0
    BY <1>0, <2>1
  <2> QED
    BY <1>1, <2>1, <2>2
<1>9. CASE Main
  BY <1>4, <1>5, <1>7, <1>8, <1>9 DEF Main
<1>10. CASE Flush \/ (\E origin \in Origins[plan] : Abort(origin)) \/ UNCHANGED vars
  BY <1>1, <1>10 DEF Flush, Abort, vars, record, bounds
<1>11. CASE \E u \in Unit : Worker(u) \/ Child(u)
  BY <1>11, TreesOfWorker, TreesOfChild
<1> QED
  BY <1>2, <1>3, <1>6, <1>9, <1>10, <1>11 DEF Next

LEMMA TreesInit == Init => TreesInv
<1> SUFFICES ASSUME Init PROVE TreesInv
  OBVIOUS
<1>1. /\ \A u \in Unit : unit[u] = Absent /\ work[u] = Idle
      /\ \A t \in Tree : tree[t] = "none"
      /\ alive = {}
  BY DEF Init
<1>2. /\ Absent.tree = NoTree /\ Idle.pc = "none" /\ Idle.tree = NoTree /\ Idle.keep = NoTree
      /\ Idle.again = FALSE
  BY DEF Absent, Idle
<1>3. TreesOwned
  BY <1>1, <1>2 DEF TreesOwned, TreeOf, Owned, WithTree
<1>4. WorkedOnRecord
  BY <1>1 DEF WorkedOnRecord
<1>5. TreesThere
  BY <1>1, <1>2 DEF TreesThere, Exists, WithTree
<1> QED
  BY <1>3, <1>4, <1>5 DEF TreesInv

LEMMA TreesKnown == ASSUME TreesInv PROVE TreesOnRecord
<1>1. NoWorkForgotten
  BY DEF TreesInv, WorkedOnRecord, NoWorkForgotten
<1>2. RecordedTreesExist
  BY DEF TreesInv, TreesThere, RecordedTreesExist, Exists
<1> QED
  BY <1>1, <1>2 DEF TreesOnRecord

(* Where no unit with a stored worktree is refused before its worktree is  *)
(* looked at, a worktree with work in it is on its unit's record, whatever *)
(* write fails and whenever the process dies; and without a failed write   *)
(* or a crash the next run finds the worktrees that the record names       *)
(* (execution.ts, worktree.ts, finishUnit).                                *)
THEOREM TreesStay == ASSUME LateRejections = FALSE PROVE Spec => []TreesOnRecord
<1>1. Init => IInv /\ TreesInv
  BY InitKeeps, TreesInit
<1>2. IInv /\ TreesInv /\ [Next]_vars => (IInv /\ TreesInv)'
  BY StepKeeps, TreesStep
<1>3. IInv /\ TreesInv => TreesOnRecord
  BY TreesKnown
<1> QED
  BY <1>1, <1>2, <1>3, PTL DEF Spec

=============================================================================
