------------------------------ MODULE Workflow ------------------------------
(***************************************************************************)
(* One durable run of the agent tool: its chain of steps (chain.ts), or    *)
(* its parallel tasks or single task (tool.ts), the pools of workers, each *)
(* worker's way through one unit with its git worktree (tool.ts,           *)
(* worktree.ts, execution.ts), the run's end and its resumptions.          *)
(*                                                                         *)
(* A unit is a pair <<step, item>>: item 0 of a step that has one agent,   *)
(* items 1, 2, ... of a fanout step or of parallel tasks.  What an agent   *)
(* answers is the number of the attempt that answered.  The record is what *)
(* run.json holds: RunCoordinator models how it gets there, here a write   *)
(* is one step that succeeds or fails.  An action is what the process does *)
(* between two waits.  The process may die between any two actions.        *)
(***************************************************************************)
EXTENDS Naturals, Sequences, FiniteSets

CONSTANTS Plans,           \* the kinds of the steps of the runs
          MaxSteps,        \* bound: the steps of a run
          MaxItems,        \* bound: the items of a fanout, parallel tasks
          Pool,            \* how many units of a step run at a time
          Isolated,        \* the kinds of step that run in a worktree
          MaxLives,        \* bound: how often the run is started or resumed
          MaxFaults,       \* bound: failed writes and crashes
          Origins,         \* bound: who aborts the runs of each plan
          LateRejections   \* whether a unit with a stored worktree may be
                           \* refused before its worktree is looked at

VARIABLES
    \* on disk
    plan,       \* the stored request
    unit,       \* the units' records
    items,      \* per step, how many items its frozen expansion has
    status,     \* the run's status
    saved,      \* details.chain.steps and details.outputs
    tree,       \* the worktrees
    \* the process
    call,       \* where the tool call is
    step,       \* the step it is at
    logical,    \* the logical steps' statuses
    outputs,    \* the named outputs
    previous,   \* previousOutput
    slots,      \* the statuses of the step's results
    next,       \* the pool's nextIndex
    broken,     \* a worker failed other than by an abort: stopScheduling
    outcome,    \* what the workflow returned
    work,       \* where each unit's worker is
    alive,      \* the units that have a child process
    abort,      \* the origin of the abort
    background, \* whether the run is a background job
    base,       \* the details that the process found on disk
    \* bounds
    life, faults, crashes, reopened

record == <<plan, unit, items, status, saved>>
pool == <<slots, next, broken>>
main == <<call, step, logical, outputs, previous, outcome>>
session == <<abort, background, base>>
bounds == <<life, faults, crashes, reopened>>
vars == <<record, tree, main, pool, work, alive, session, bounds>>

Kinds == {"single", "sequential", "fanout", "parallel"}
ASSUME WorkflowAssumption ==
    /\ Plans \subseteq Seq(Kinds)
    /\ MaxSteps \in Nat
    /\ \A p \in Plans : /\ Len(p) <= MaxSteps
                        /\ \A s \in DOMAIN p : p[s] \in {"single", "parallel"} => Len(p) = 1
    /\ MaxItems \in Nat \ {0} /\ Pool \in Nat \ {0}
    /\ Isolated \subseteq Kinds
    /\ MaxLives \in Nat \ {0} /\ MaxFaults \in Nat
    /\ Origins \in [Plans -> SUBSET {"user", "session_shutdown"}]
    /\ LateRejections \in BOOLEAN

Steps == 1..Len(plan)
Unit == (1..MaxSteps) \X (0..MaxItems)
Tree == Unit \X (1..MaxLives)
NoTree == <<>>
Unknown == [step |-> 0, value |-> <<>>]
Unexpanded == MaxItems + 1

(* The items of step s that have a unit.                                   *)
ItemsOf(s) == CASE plan[s] \in {"single", "sequential"} -> {0}
                [] plan[s] = "parallel" -> 1..MaxItems
                [] OTHER -> IF items[s] = Unexpanded THEN {} ELSE 1..items[s]
Units == {u \in Unit : u[1] \in Steps /\ u[2] \in ItemsOf(u[1])}

(* told: no session; a session whose prompt is not established; one whose  *)
(* prompt is.                                                              *)
Absent == [status |-> "absent", attempts |-> 0, tree |-> NoTree, told |-> "no"]
Queued == [Absent EXCEPT !.status = "queued"]

(* A worker: its worktree; the path, the status and the further try of the *)
(* end that it writes.                                                     *)
Idle == [pc |-> "none", tree |-> NoTree, keep |-> NoTree, ends |-> "failed",
         again |-> FALSE]

(* What step s's units answered, as the record has it.                     *)
Answers(s) ==
    [step |-> s,
     value |-> IF plan[s] \in {"single", "sequential"}
               THEN <<unit[<<s, 0>>].attempts>>
               ELSE [i \in 1..Cardinality(ItemsOf(s)) |-> unit[<<s, i>>].attempts]]

StepDone(s) == /\ plan[s] = "fanout" => items[s] # Unexpanded
               /\ \A i \in ItemsOf(s) : unit[<<s, i>>].status = "completed"

Details == [steps |-> logical, outputs |-> outputs]
NoDetails(p) == [steps |-> [s \in DOMAIN p |-> "queued"],
                 outputs |-> [s \in DOMAIN p |-> Unknown]]

Init ==
    /\ plan \in Plans
    /\ unit = [u \in Unit |-> Absent]
    /\ items = [s \in DOMAIN plan |-> Unexpanded]
    /\ status = "none"
    /\ saved = NoDetails(plan)
    /\ tree = [t \in Tree |-> "none"]
    /\ call = "off" /\ step = 1 /\ outcome = "ok"
    /\ logical = saved.steps /\ outputs = saved.outputs /\ previous = Unknown
    /\ slots = [i \in 0..MaxItems |-> "queued"] /\ next = 1 /\ broken = FALSE
    /\ work = [u \in Unit |-> Idle] /\ alive = {}
    /\ abort = "none" /\ background = FALSE /\ base = saved
    /\ life = 0 /\ faults = 0 /\ crashes = 0 /\ reopened = 0

-----------------------------------------------------------------------------
(* The call                                                                *)

(* A new run: a unit per step that is not a fanout, or per parallel task.  *)
Start ==
    /\ life = 0
    /\ unit' = [u \in Unit |-> IF u \in Units THEN Queued ELSE Absent]
    /\ status' = "running"
    /\ call' = "top" /\ life' = 1
    /\ background' \in BOOLEAN
    /\ UNCHANGED <<plan, items, saved, tree, step, logical, outputs, previous, outcome,
                   pool, work, alive, abort, base, faults, crashes, reopened>>

(* buildRestoredLogicalSteps: a step with one agent is as its unit is; a   *)
(* fanout is queued while a child is incomplete, an empty one unless its   *)
(* output or the presentation shows that it was completed.                 *)
(* A bug: the presentation is trusted for a fanout.                        *)
Restored_Trusting(record_, known) ==
    [s \in Steps |->
        IF plan[s] = "fanout" THEN saved.steps[s]
        ELSE IF \A i \in ItemsOf(s) : record_[<<s, i>>].status = "completed"
             THEN "completed" ELSE "queued"]

(* A bug: a fanout without a mapping is taken for an empty one.            *)
Restored_Unmapped(record_, known) ==
    [s \in Steps |->
        IF \A i \in ItemsOf(s) : record_[<<s, i>>].status = "completed"
        THEN "completed" ELSE "queued"]

Restored(record_, known) ==
    [s \in Steps |->
        IF plan[s] \in {"single", "sequential", "parallel"}
        THEN IF \A i \in ItemsOf(s) : record_[<<s, i>>].status = "completed"
             THEN "completed" ELSE "queued"
        ELSE IF \E i \in ItemsOf(s) : record_[<<s, i>>].status # "completed"
             THEN "queued"
        ELSE IF items[s] = 0
             THEN IF saved.steps[s] = "completed" \/ known[s] # Unknown
                  THEN "completed" ELSE "queued"
        ELSE saved.steps[s]]

(* rehydrateCompletedSequentialFromDurable                                 *)
Rehydrated(record_) ==
    [s \in Steps |-> IF /\ plan[s] = "sequential"
                        /\ record_[<<s, 0>>].status = "completed"
                     THEN [step |-> s, value |-> <<record_[<<s, 0>>].attempts>>]
                     ELSE saved.outputs[s]]

(* Preflight: a unit that is to run again needs the worktree on its record *)
(* and, unless it never started, a session with an established prompt.     *)
NeverStarted(u) == unit[u].status = "queued" /\ unit[u].attempts = 0
Ready(targets) ==
    \A u \in targets : /\ unit[u].tree # NoTree => tree[unit[u].tree] # "none"
                       /\ NeverStarted(u) \/ unit[u].told = "yes"

(* validateFanoutResumeState: a fanout without a mapping blocks the        *)
(* resumption if the details on record name its step as not completed, and *)
(* in any case if all units are completed.                                 *)
Mapped(incomplete) ==
    \A s \in Steps : plan[s] = "fanout" /\ items[s] = Unexpanded =>
        /\ incomplete # {}
        /\ saved = NoDetails(plan) \/ saved.steps[s] = "completed"

(* A run is resumed: every unit that is not completed is queued, or all of *)
(* them if all are completed and there is a further instruction.           *)
Resume ==
    LET incomplete == {u \in Units : unit[u].status # "completed"}
        targets == IF incomplete # {} THEN incomplete ELSE Units
        queued == [u \in Unit |-> IF u \in targets
                                  THEN [unit[u] EXCEPT !.status = "queued"] ELSE unit[u]]
    IN  /\ call = "off" /\ life \in 1..(MaxLives - 1)
        /\ Mapped(incomplete) /\ Ready(targets)
        /\ unit' = queued /\ status' = "running"
        /\ outputs' = Rehydrated(queued)
        /\ logical' = Restored(queued, Rehydrated(queued))
        /\ base' = saved
        /\ step' = 1 /\ previous' = Unknown /\ outcome' = "ok"
        /\ call' = "top" /\ life' = life + 1
        /\ background' \in BOOLEAN
        /\ reopened' = IF incomplete = {} THEN reopened + 1 ELSE reopened
        /\ UNCHANGED <<plan, items, saved, tree, pool, work, alive, abort, faults, crashes>>

(* markLaterSkipped                                                        *)
LaterSkipped(first, s) ==
    [j \in Steps |-> IF j = step THEN s
                     ELSE IF j > step /\ first[j] = "queued" THEN "skipped" ELSE first[j]]

Return(how, s) ==
    /\ outcome' = how /\ call' = "finish"
    /\ logical' = LaterSkipped(logical, s)

(* The top of the loop of runChainWorkflow.                                *)
(* A bug: the loop runs one step further.                                  *)
AllDone_Late ==
    /\ call = "top" /\ step > Len(plan)
    /\ outcome' = "ok" /\ call' = "finish" /\ step' = step + 1
    /\ UNCHANGED <<record, tree, logical, outputs, previous, pool, work, alive,
                   session, bounds>>

AllDone ==
    /\ call = "top" /\ step > Len(plan)
    /\ outcome' = "ok" /\ call' = "finish"
    /\ UNCHANGED <<record, tree, step, logical, outputs, previous, pool, work, alive,
                   session, bounds>>

CancelledBetween ==
    /\ call = "top" /\ step \in Steps /\ plan[step] \in {"sequential", "fanout"}
    /\ abort # "none"
    /\ Return("error", "cancelled")
    /\ UNCHANGED <<record, tree, step, outputs, previous, pool, work, alive, session, bounds>>

(* A bug: a skipped step does not hand on what it answered.                *)
Skip_Mute ==
    /\ call = "top" /\ step \in Steps /\ plan[step] \in {"sequential", "fanout"}
    /\ abort = "none"
    /\ logical[step] = "completed"
    /\ step' = step + 1
    /\ UNCHANGED <<record, tree, call, logical, outputs, previous, outcome, pool, work,
                   alive, session, bounds>>

Skip ==
    /\ call = "top" /\ step \in Steps /\ plan[step] \in {"sequential", "fanout"}
    /\ abort = "none"
    /\ logical[step] = "completed"
    /\ previous' = IF outputs[step] # Unknown THEN outputs[step] ELSE previous
    /\ step' = step + 1
    /\ UNCHANGED <<record, tree, call, logical, outputs, outcome, pool, work, alive,
                   session, bounds>>

Enters(kinds) ==
    /\ call = "top" /\ step \in Steps /\ plan[step] \in kinds
    /\ plan[step] \in {"sequential", "fanout"} => /\ abort = "none"
                                                  /\ logical[step] # "completed"

(* An unknown output in a template or an unusable schema stops the chain   *)
(* before the step's unit starts.                                          *)
Malformed ==
    /\ Enters({"sequential", "fanout"})
    /\ Return("error", "failed")
    /\ UNCHANGED <<record, tree, step, outputs, previous, pool, work, alive, session, bounds>>

RunOne ==
    /\ Enters({"single", "sequential"})
    /\ call' = "one"
    /\ logical' = [logical EXCEPT ![step] = "running"]
    /\ work' = [work EXCEPT ![<<step, 0>>] = [Idle EXCEPT !.pc = "ready"]]
    /\ slots' = [slots EXCEPT ![0] = "running"] /\ broken' = FALSE
    /\ UNCHANGED <<record, tree, step, outputs, previous, outcome, next, alive,
                   session, bounds>>

(* A bug: a resumed pool runs every unit again.                            *)
Slots_All(n) == [i \in 0..MaxItems |-> "queued"]

(* A unit that is completed on record is not queued.                       *)
Slots(n) == [i \in 0..MaxItems |->
                IF i \in 1..n /\ unit[<<step, i>>].status = "completed"
                THEN "completed" ELSE "queued"]

RunParallel ==
    /\ Enters({"parallel"})
    /\ call' = "pool"
    /\ slots' = Slots(MaxItems) /\ next' = 1 /\ broken' = FALSE
    /\ UNCHANGED <<record, tree, step, logical, outputs, previous, outcome, work, alive,
                   session, bounds>>

RunFanout ==
    /\ Enters({"fanout"})
    /\ call' = "expand"
    /\ logical' = [logical EXCEPT ![step] = "running"]
    /\ UNCHANGED <<record, tree, step, outputs, previous, outcome, pool, work, alive,
                   session, bounds>>

(* The expansion is on record before a worker starts; one that is there    *)
(* already is used as it is, whatever the source's output says by now.     *)
(* A bug: the source is read again on every resumption.                    *)
ExpansionOf_ReadAgain(s) == 0..MaxItems

ExpansionOf(s) == IF items[s] # Unexpanded THEN {items[s]} ELSE 0..MaxItems

Expanded(n) ==
    /\ items' = [items EXCEPT ![step] = n]
    /\ unit' = [u \in Unit |-> IF u[1] = step /\ u[2] \in 1..n /\ unit[u] = Absent
                               THEN Queued ELSE unit[u]]

Expand ==
    /\ call = "expand"
    /\ \E n \in ExpansionOf(step) :
        /\ Expanded(n)
        /\ IF n = 0
           THEN /\ logical' = [logical EXCEPT ![step] = "completed"]
                /\ outputs' = [outputs EXCEPT ![step] = [step |-> step, value |-> <<>>]]
                /\ previous' = outputs'[step]
                /\ step' = step + 1 /\ call' = "top"
                /\ UNCHANGED pool
           ELSE /\ call' = "pool"
                /\ slots' = Slots(n) /\ next' = 1 /\ broken' = FALSE
                /\ UNCHANGED <<step, logical, outputs, previous>>
    /\ UNCHANGED <<plan, status, saved, tree, outcome, work, alive, session, bounds>>

Fault == faults + crashes < MaxFaults /\ faults' = faults + 1

ExpandFails ==
    /\ call = "expand" /\ Fault
    /\ Return("error", "failed")
    /\ UNCHANGED <<record, tree, step, outputs, previous, pool, work, alive, session,
                   life, crashes, reopened>>

-----------------------------------------------------------------------------
(* The pool                                                                *)

Count == IF plan[step] = "parallel" THEN MaxItems ELSE items[step]
Active == {u \in Unit : work[u].pc # "none"}
Stops == broken \/ abort # "none"

(* A slot of the pool takes the next item; one that is completed already   *)
(* takes no time.                                                          *)
Claim ==
    /\ call = "pool" /\ ~Stops
    /\ next <= Count /\ Cardinality(Active) < Pool
    /\ next' = next + 1
    /\ IF slots[next] = "completed"
       THEN UNCHANGED <<slots, work>>
       ELSE /\ slots' = [slots EXCEPT ![next] = "running"]
            /\ work' = [work EXCEPT ![<<step, next>>] = [Idle EXCEPT !.pc = "ready"]]
    /\ UNCHANGED <<record, tree, main, broken, alive, session, bounds>>

(* onUnstarted, for the items no slot took.                                *)
Unstarted(s) == [i \in 0..MaxItems |-> IF i \in next..Count /\ s[i] = "queued"
                                       THEN "skipped" ELSE s[i]]

Drained == Active = {} /\ (Stops \/ next > Count)

(* A bug: a cancelled pool does not wait for its workers.                  *)
PoolEnds_Hasty ==
    /\ call = "pool" /\ (Stops \/ (Active = {} /\ next > Count))
    /\ LET all == Unstarted(slots)
       IN  /\ slots' = all
           /\ IF broken
              THEN outcome' = "thrown" /\ call' = "finish" /\ UNCHANGED logical
              ELSE IF \A i \in 1..Count : all[i] = "completed"
              THEN /\ call' = IF plan[step] = "parallel" THEN "finish" ELSE "collect"
                   /\ logical' = [logical EXCEPT ![step] = "completed"]
                   /\ outcome' = "ok"
              ELSE Return("error", "cancelled")
    /\ UNCHANGED <<record, tree, step, outputs, previous, next, broken, work, alive,
                   session, bounds>>

PoolEnds ==
    /\ call = "pool" /\ Drained
    /\ LET all == Unstarted(slots)
           cut == abort # "none" \/ \E i \in 1..Count : all[i] \in {"cancelled", "skipped"}
       IN  /\ slots' = all
           /\ IF broken
              THEN outcome' = "thrown" /\ call' = "finish" /\ UNCHANGED logical
              ELSE IF \A i \in 1..Count : all[i] = "completed"
              THEN /\ call' = IF plan[step] = "parallel" THEN "finish" ELSE "collect"
                   /\ logical' = [logical EXCEPT ![step] = "completed"]
                   /\ outcome' = "ok"
              ELSE Return("error", IF cut THEN "cancelled" ELSE "failed")
    /\ UNCHANGED <<record, tree, step, outputs, previous, next, broken, work, alive,
                   session, bounds>>

(* The answers are collected and put where the next steps find them.       *)
Collect ==
    /\ call = "collect"
    /\ outputs' = [outputs EXCEPT ![step] = Answers(step)]
    /\ previous' = Answers(step)
    /\ step' = step + 1 /\ call' = "top"
    /\ UNCHANGED <<record, tree, logical, outcome, pool, work, alive, session, bounds>>

CollectFails ==
    /\ call = "collect" /\ Fault
    /\ Return("error", "failed")
    /\ UNCHANGED <<record, tree, step, outputs, previous, pool, work, alive, session,
                   life, crashes, reopened>>

-----------------------------------------------------------------------------
(* A worker                                                                *)

At(u, pc) == work[u].pc = pc
Goes(u, w) == work' = [work EXCEPT ![u] = w]
Ending(u, status_, keep, again) ==
    Goes(u, [work[u] EXCEPT !.pc = "ending", !.ends = status_, !.keep = keep,
                            !.again = again])

Isolates(u) == plan[u[1]] \in Isolated

(* An unknown skill, no repository, a worktree that cannot be opened or    *)
(* made: the unit ends before there is a worktree, and without its path.   *)
Rejected(u) ==
    /\ At(u, "ready")
    /\ unit[u].tree = NoTree \/ LateRejections
    /\ Ending(u, "failed", NoTree, FALSE)
    /\ UNCHANGED <<record, tree, main, pool, alive, session, bounds>>

Opened(u) == IF ~Isolates(u) THEN NoTree
             ELSE IF unit[u].tree # NoTree THEN unit[u].tree ELSE <<u, life>>
Made(u) == IF Opened(u) # NoTree /\ unit[u].tree = NoTree
           THEN [tree EXCEPT ![Opened(u)] = "clean"] ELSE tree

(* The child cannot be given what an earlier step handed over: the         *)
(* worktree stays where it is and its path is not on the result.           *)
Unsupported(u) ==
    /\ At(u, "ready") /\ plan[u[1]] \in {"single", "sequential"}
    /\ unit[u].tree = NoTree \/ LateRejections
    /\ tree' = Made(u)
    /\ Ending(u, "failed", NoTree, FALSE)
    /\ UNCHANGED <<record, main, pool, alive, session, bounds>>

Prepared(u) ==
    /\ At(u, "ready")
    /\ tree' = Made(u)
    /\ Goes(u, [work[u] EXCEPT !.pc = "beginning", !.tree = Opened(u)])
    /\ UNCHANGED <<record, main, pool, alive, session, bounds>>

(* A clean worktree that this worker made is removed, if that works; one   *)
(* that an earlier life made stays, and so does its path.                  *)
Cleaned(u, t) ==
    \E keep \in IF t = <<u, life>> THEN {NoTree, t} ELSE {t} :
        /\ tree' = [x \in Tree |-> IF x # t THEN tree[x]
                                   ELSE IF keep = NoTree THEN "none"
                                   ELSE IF tree[x] = "none" THEN "clean" ELSE tree[x]]
        /\ Ending(u, "failed", keep, FALSE)

(* The set-up hook or the session's context fails.                         *)
PrepareFails(u) ==
    /\ At(u, "ready")
    /\ Cleaned(u, Opened(u))
    /\ UNCHANGED <<record, main, pool, alive, session, bounds>>

(* A bug: the worktree is put on record when the unit ends, not before.    *)
Begun_Bare(u) ==
    /\ At(u, "beginning")
    /\ unit' = [unit EXCEPT ![u].status = "running", ![u].attempts = @ + 1]
    /\ Goes(u, [work[u] EXCEPT !.pc = "begun"])
    /\ UNCHANGED <<plan, items, status, saved, tree, main, pool, alive, session, bounds>>

Begun(u) ==
    /\ At(u, "beginning")
    /\ unit' = [unit EXCEPT ![u].status = "running", ![u].attempts = @ + 1,
                            ![u].tree = work[u].tree]
    /\ Goes(u, [work[u] EXCEPT !.pc = "begun"])
    /\ UNCHANGED <<plan, items, status, saved, tree, main, pool, alive, session, bounds>>

(* The begin or the session's stamp is not written.                        *)
BeginFails(u) ==
    /\ At(u, "beginning") \/ At(u, "begun")
    /\ Fault
    /\ Cleaned(u, work[u].tree)
    /\ UNCHANGED <<record, main, pool, alive, session, life, crashes, reopened>>

(* The session is stamped and the child started, with the task if the unit *)
(* has no session yet, and else with the continuation only.                *)
Spawn(u) ==
    /\ At(u, "begun")
    /\ unit' = [unit EXCEPT ![u].told = IF @ = "no" THEN "maybe" ELSE @]
    /\ alive' = alive \cup {u}
    /\ Goes(u, [work[u] EXCEPT !.pc = "establishing"])
    /\ UNCHANGED <<plan, items, status, saved, tree, main, pool, session, bounds>>

Established(u) ==
    /\ At(u, "establishing")
    /\ unit' = [unit EXCEPT ![u].told = "yes"]
    /\ Goes(u, [work[u] EXCEPT !.pc = "running"])
    /\ UNCHANGED <<plan, items, status, saved, tree, main, pool, alive, session, bounds>>

(* The child is sent a SIGTERM and not waited for.                         *)
EstablishFails(u) ==
    /\ At(u, "establishing") /\ Fault
    /\ Ending(u, "failed", work[u].tree, FALSE)
    /\ UNCHANGED <<record, tree, main, pool, alive, session, life, crashes, reopened>>

ChildDies(u) ==
    /\ u \in alive /\ ~At(u, "establishing") /\ ~At(u, "running")
    /\ alive' = alive \ {u}
    /\ UNCHANGED <<record, tree, main, pool, work, session, bounds>>

Works(u) ==
    /\ u \in alive /\ work[u].tree # NoTree /\ tree[work[u].tree] = "clean"
    /\ tree' = [tree EXCEPT ![work[u].tree] = "worked"]
    /\ UNCHANGED <<record, main, pool, work, alive, session, bounds>>

(* finalizeWorktree removes the clean worktree of a completed unit, if     *)
(* that works and the unit is not linked to the interactive view.          *)
Kept(u, s) == IF s = "completed" /\ work[u].tree # NoTree /\ tree[work[u].tree] = "clean"
              THEN {NoTree, work[u].tree} ELSE {work[u].tree}

(* A bug: finalizeWorktree leaves the path of a worktree that it removed.  *)
Exits_Pathful(u, s) ==
    /\ At(u, "running") /\ abort = "none"
    /\ \E keep \in Kept(u, s) :
        /\ tree' = [t \in Tree |-> IF t = work[u].tree /\ keep = NoTree THEN "none"
                                   ELSE tree[t]]
        /\ Ending(u, s, work[u].tree, TRUE)
    /\ alive' = alive \ {u}
    /\ UNCHANGED <<record, main, pool, session, bounds>>

Exits(u, s) ==
    /\ At(u, "running") /\ abort = "none"
    /\ \E keep \in Kept(u, s) :
        /\ tree' = [t \in Tree |-> IF t = work[u].tree /\ keep = NoTree THEN "none"
                                   ELSE tree[t]]
        /\ Ending(u, s, keep, TRUE)
    /\ alive' = alive \ {u}
    /\ UNCHANGED <<record, main, pool, session, bounds>>

(* killProc; the unit ends by the abort's origin.                          *)
(* A bug: only the end of the session kills the child.                     *)
Killed_Shutdown(u) ==
    /\ At(u, "running") /\ abort = "session_shutdown"
    /\ alive' = alive \ {u}
    /\ Ending(u, "interrupted", work[u].tree, FALSE)
    /\ UNCHANGED <<record, tree, main, pool, session, bounds>>

Killed(u) ==
    /\ At(u, "running") /\ abort # "none"
    /\ alive' = alive \ {u}
    /\ Ending(u, IF abort = "user" THEN "cancelled" ELSE "interrupted", work[u].tree, FALSE)
    /\ UNCHANGED <<record, tree, main, pool, session, bounds>>

(* The step of a single or sequential unit that has ended.                 *)
OneEnds(s) ==
    IF s # "completed"
    THEN /\ Return("error", IF s = "failed" THEN "failed" ELSE "cancelled")
         /\ UNCHANGED <<step, outputs, previous>>
    ELSE /\ logical' = [logical EXCEPT ![step] = "completed"]
         /\ outcome' = "ok"
         /\ IF plan[step] = "single"
            THEN call' = "finish" /\ UNCHANGED <<step, outputs, previous>>
            ELSE /\ outputs' = [outputs EXCEPT ![step] = Answers(step)]
                 /\ previous' = Answers(step)
                 /\ step' = step + 1 /\ call' = "top"

(* finishUnit: the unit's status and the path are on record.               *)
EndWritten(u) ==
    /\ At(u, "ending")
    /\ LET s == work[u].ends
       IN  /\ unit' = [unit EXCEPT ![u].status = s, ![u].tree = work[u].keep]
           /\ slots' = [slots EXCEPT ![u[2]] = IF s = "interrupted" THEN "cancelled" ELSE s]
           /\ IF call = "one" THEN OneEnds(s) ELSE UNCHANGED main
    /\ Goes(u, Idle)
    /\ UNCHANGED <<plan, items, status, saved, tree, next, broken, alive, session, bounds>>

(* The end is not written: once more, as a failure, with the path of the   *)
(* worktree whether or not it was just removed; the second time it throws. *)
EndFails(u) ==
    /\ At(u, "ending") /\ Fault
    /\ IF work[u].again
       THEN Ending(u, "failed", work[u].tree, FALSE) /\ UNCHANGED <<main, broken>>
       ELSE /\ Goes(u, Idle)
            /\ IF call = "one"
               THEN /\ outcome' = "thrown" /\ call' = "finish"
                    /\ UNCHANGED <<step, logical, outputs, previous, broken>>
               ELSE broken' = TRUE /\ UNCHANGED main
    /\ UNCHANGED <<record, tree, slots, next, alive, session, life, crashes, reopened>>

-----------------------------------------------------------------------------
(* The end of the run                                                      *)

(* deriveRunStatus                                                         *)
Derived == LET has(s) == \E u \in Units : unit[u].status = s
           IN  IF has("running") \/ has("queued") THEN "running"
               ELSE IF has("interrupted") THEN "interrupted"
               ELSE IF has("failed") THEN "failed"
               ELSE IF has("cancelled") THEN "cancelled" ELSE "completed"

(* A background job that was aborted ends interrupted, whoever aborted it. *)
EndStatus == IF abort # "none"
             THEN IF abort = "user" /\ ~background THEN "cancelled" ELSE "interrupted"
             ELSE IF outcome = "ok" THEN Derived ELSE "failed"

(* The process has nothing left of the run.                                *)
Leaves ==
    /\ call' = "off" /\ step' = 1 /\ previous' = Unknown /\ outcome' = "ok"
    /\ logical' = NoDetails(plan).steps /\ outputs' = NoDetails(plan).outputs
    /\ slots' = [i \in 0..MaxItems |-> "queued"] /\ next' = 1 /\ broken' = FALSE
    /\ abort' = "none"

(* A background run has no onUpdate: its details stay what they were.      *)
Finalized ==
    /\ call = "finish"
    /\ status' = EndStatus
    /\ saved' = IF background \/ outcome = "thrown" THEN base ELSE Details
    /\ Leaves
    /\ UNCHANGED <<plan, unit, items, tree, work, alive, background, base, bounds>>

FinalizeFails ==
    /\ call = "finish" /\ Fault
    /\ Leaves
    /\ UNCHANGED <<record, tree, work, alive, background, base, life, crashes, reopened>>

(* persistUpdate                                                           *)
Flush ==
    /\ call \in {"one", "expand", "pool"} /\ ~background
    /\ saved # Details
    /\ saved' = Details
    /\ UNCHANGED <<plan, unit, items, status, tree, main, pool, work, alive, session, bounds>>

(* setOrigin: the end of the session outranks the user.                    *)
Abort(origin) ==
    /\ call # "off"
    /\ abort = "none" \/ (abort = "user" /\ origin = "session_shutdown")
    /\ abort' = origin
    /\ UNCHANGED <<record, tree, main, pool, work, alive, background, base, bounds>>

(* The process dies, and with it the pipes of its children.                *)
Crash ==
    /\ call # "off" /\ faults + crashes < MaxFaults
    /\ Leaves
    /\ work' = [u \in Unit |-> Idle] /\ alive' = {}
    /\ crashes' = crashes + 1
    /\ UNCHANGED <<record, tree, background, base, life, faults, reopened>>

Main == \/ AllDone \/ CancelledBetween \/ Skip \/ Malformed \/ RunOne \/ RunParallel
        \/ RunFanout \/ Expand \/ ExpandFails \/ Claim \/ PoolEnds
        \/ Collect \/ CollectFails \/ Finalized \/ FinalizeFails

Worker(u) == \/ Rejected(u) \/ Unsupported(u) \/ Prepared(u) \/ PrepareFails(u)
             \/ Begun(u) \/ BeginFails(u) \/ Spawn(u) \/ Established(u)
             \/ EstablishFails(u) \/ Killed(u) \/ EndWritten(u) \/ EndFails(u)

Child(u) == \/ ChildDies(u) \/ Works(u)
            \/ \E s \in {"completed", "failed"} : Exits(u, s)

Next == \/ Start \/ Resume \/ Main \/ Flush \/ Crash
        \/ \E u \in Unit : Worker(u) \/ Child(u)
        \/ \E origin \in Origins[plan] : Abort(origin)

(* The event loop serves whatever is ready once the run is aborted.  (A    *)
(* child that nobody aborts may run for ever.)                             *)
Fairness == /\ WF_vars(abort # "none" /\ Main)
            /\ \A u \in (1..MaxSteps) \X (0..MaxItems) :
                    WF_work(abort # "none" /\ Worker(u))

Spec == Init /\ [][Next]_vars /\ Fairness

-----------------------------------------------------------------------------
(* Properties                                                              *)

TypeOK ==
    /\ plan \in Plans
    /\ unit \in [Unit -> [status : {"absent", "queued", "running", "completed", "failed",
                                    "cancelled", "interrupted"},
                          attempts : 0..MaxLives, tree : Tree \cup {NoTree},
                          told : {"no", "maybe", "yes"}]]
    /\ items \in [Steps -> 0..Unexpanded]
    /\ status \in {"none", "running", "completed", "failed", "cancelled", "interrupted"}
    /\ tree \in [Tree -> {"none", "clean", "worked"}]
    /\ call \in {"off", "top", "one", "expand", "pool", "collect", "finish"}
    /\ step \in 1..(Len(plan) + 1)
    /\ outcome \in {"ok", "error", "thrown"}
    /\ abort \in {"none", "user", "session_shutdown"}
    /\ DOMAIN saved.steps = Steps /\ DOMAIN logical = Steps
    /\ \A u \in Unit : work[u].pc \in {"none", "ready", "beginning", "begun",
                                       "establishing", "running", "ending"}
    /\ alive \subseteq Unit

(* A child that is given its task for the first time is given what the     *)
(* step before has answered on record, whatever was saved, lost or skipped *)
(* by the runs before (renderTaskTemplate, completedStepPreviousOutput).   *)
PromptsAreCurrent ==
    \A u \in Unit :
        /\ At(u, "establishing") /\ unit[u].told = "maybe" /\ u[1] > 1
        => StepDone(u[1] - 1) /\ previous = Answers(u[1] - 1)

(* No unit of a step is at work while a unit of an earlier step is not     *)
(* completed, also when a completed run was opened again (runChainWorkflow,*)
(* buildRestoredLogicalSteps).                                             *)
InOrder == \A u \in Unit : work[u].pc # "none" =>
               \A s \in 1..(u[1] - 1) : StepDone(s)

(* A fanout's expansion is read once: a resumption never changes how many  *)
(* items it has (the restored expansion of runFanoutStep).                 *)
Frozen == [][\A s \in Steps : items[s] # Unexpanded => items'[s] = items[s]]_vars

(* What is completed is not run again, unless the whole run was completed  *)
(* and is opened again (selective resumption, the slots of the pools).     *)
CompletedWorkStays ==
    [][\A u \in Unit : unit[u].status = "completed" /\ unit'[u] # unit[u]
                       => reopened' = reopened + 1]_vars

(* A run that is completed has every fanout expanded and every unit        *)
(* completed (deriveRunStatus and the chain's own verdict together).       *)
CompletedRunIsWhole == status = "completed" => \A s \in Steps : StepDone(s)

(* If no write failed, the run does not end before its children have, and  *)
(* leaves no unit running on record (the pools wait for their workers).    *)
EndsSettled ==
    call = "off" /\ status \notin {"none", "running"} /\ faults = 0
    => alive = {} /\ \A u \in Unit : unit[u].status # "running"

(* A worktree with work in it is on its unit's record, or in the hands of  *)
(* its worker: nothing an agent has done is lost sight of, also when the   *)
(* process dies (the stamp before beginUnit, finishUnit).                  *)
NoWorkForgotten ==
    \A t \in Tree : tree[t] = "worked" =>
        unit[t[1]].tree = t \/ work[t[1]].tree = t

(* Without a failed write or a crash, the worktree that a unit's record    *)
(* names is there for the next run (finalizeTerminalResult).               *)
RecordedTreesExist ==
    faults = 0 /\ crashes = 0 =>
        \A u \in Unit : work[u].pc = "none" /\ unit[u].tree # NoTree
                        => tree[unit[u].tree] # "none"

(* An aborted run comes to its end (killProc, the pools, CancelledBetween).*)
CancelEnds == abort # "none" ~> call = "off"

(* Each agent is asked with the current answers of the steps before it, in *)
(* order, a completed run has them all, and a run ends when its units      *)
(* have.                                                                   *)
AnswersRight ==
    /\ TypeOK
    /\ PromptsAreCurrent
    /\ InOrder
    /\ CompletedRunIsWhole
    /\ EndsSettled

(* The record names every worktree that holds work, and only trees that    *)
(* exist.                                                                  *)
TreesOnRecord == NoWorkForgotten /\ RecordedTreesExist

(* A fanout keeps its first expansion, and completed work is not done      *)
(* again.                                                                  *)
WorkStands == Frozen /\ CompletedWorkStays
=============================================================================
