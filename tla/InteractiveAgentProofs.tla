----------------------- MODULE InteractiveAgentProofs -----------------------
(***************************************************************************)
(* The endpoint of the interactive registry is safe: proofs for any finite *)
(* set of calls and any plan of the environment.                           *)
(*                                                                         *)
(* The invariant has four parts.                                           *)
(*                                                                         *)
(* Typed.  The variables are of their types; Counted is why the numbers of *)
(* activations and spawns never leave theirs.                              *)
(*                                                                         *)
(* Transports.  A process that may write claims the session file.  It      *)
(* holds the lease until its disposal has ended, or the lease is stuck for *)
(* good, and there is one such process; whatever child runs is the         *)
(* client's or that of a start-up that is under way, and whatever is being *)
(* disposed of is on the barrier that a spawn and the shutdown wait for.   *)
(*                                                                         *)
(* Once.  The open activation is the newest and has not ended.             *)
(*                                                                         *)
(* Calls.  A call is in one place: it waits for its own task in the        *)
(* transition queue, or for its turn in the outbound queue, which holds    *)
(* the activations in the order they were made.  That order is why the     *)
(* poison of one activation is enough: when a later activation resets it,  *)
(* no message of the failed one is left to be sent.                        *)
(*                                                                         *)
(* Most handlers drop and dispose of transports, settle at most the open   *)
(* activation and add no task of a call (Handles): one lemma shows that    *)
(* such a handler keeps the invariant, and the others are the steps of a   *)
(* start-up (Alone), of a call, and of the shutdown.                       *)
(***************************************************************************)
EXTENDS InteractiveAgent, FiniteSetTheorems, SequenceTheorems, TLAPS

-----------------------------------------------------------------------------
(* The types.                                                              *)

(* What an activation is overridden with, the reasons of a failure, the    *)
(* states of the endpoint, of a turn and of a call.                        *)
Overs == {"none", "cancelled", "error", "max_turns"}
Causes == {"none", "error", "rejected"}
Statuses == {"registered", "starting", "running", "idle", "error", "detached", "unavailable"}
Turns == {"idle", "busy", "stopped", "quiet"}
EventKinds == {"start", "completed", "failed", "turns", "settled", "exit"}
OutPcs == {"out", "ready", "write", "rpc", "undo"}
BeforePcs == {"new", "peek", "linger", "prep"}
PastPcs == OutPcs \cup {"end", "ok", "err"}

(* The tasks of the transition queue: the first and the last transition of *)
(* a call, the events of a child, and the tasks that are no call's.        *)
PrepTask == [kind : {"prep"}, c : Call]
AcceptTask == [kind : {"accept"}, c : Call]
FailTask == [kind : {"fail"}, c : Call, cause : Causes]
EventTask == [kind : {"event"}, g : Spawn, ev : EventKinds, told : SUBSET Act]
AbortTask == [kind : {"abort"}]
DetachTask == [kind : {"detach"}, only : {"turn", "idle", "epoch", "any"}, id : Act \cup {0}]
RetainTask == [kind : {"retain"}, epoch : Act \cup {0}]
OwnTask == AbortTask \cup DetachTask \cup RetainTask
Task == PrepTask \cup AcceptTask \cup FailTask \cup EventTask \cup OwnTask

(* The records of the state.                                               *)
Activation == [id : Act \cup {0}, over : Overs, begun : BOOLEAN, done : BOOLEAN]
ChildEvent == [kind : EventKinds, told : SUBSET Act]
TransportState == [stage : Stages, why : Causes, waits : SUBSET Spawn, child : Children,
                   turn : Turns, told : SUBSET Act, pipe : Seq(ChildEvent)]
Endpoint ==
    [status : Statuses, act : Activation, acts : Act \cup {0}, client : Spawn \cup {0},
     ready : Spawn \cup {0}, cur : Spawn \cup {0}, spawned : Spawn \cup {0},
     timer : Act \cup {0}, poison : Act \cup {0}, cause : Causes, noted : SUBSET Spawn,
     queue : Seq(Task), tr : [Spawn -> TransportState], ended : [Act -> Ends]]
CallState == [pc : BeforePcs \cup PastPcs, id : Act \cup {0}, mode : {"none", "steer", "prompt"},
              via : Spawn \cup {0}, ans : {"none", "ok", "no"}]

(* The variables are of their types, and a transition that waits for its   *)
(* spawn has the mode its message will have.                               *)
Typed ==
    /\ reg \in Endpoint
    /\ at \in [step : {"none", "dispose", "trust", "spawn"}, waits : SUBSET Spawn,
               mode : {"none", "steer", "prompt"}]
    /\ at.step = "spawn" => at.mode # "none"
    /\ outq \in Seq(Call)
    /\ call \in [Call -> CallState]
    /\ lease \in [holder : Spawn \cup {0}, stuck : BOOLEAN]
    /\ shut \in {"no", "draining", "done", "failed"}

-----------------------------------------------------------------------------
(* The transports.                                                         *)

(* The process of spawn g may write the session file, or its factory has   *)
(* been called.                                                            *)
Claims(g) == reg.tr[g].stage = "factory" \/ reg.tr[g].child \in {"live", "exited", "disposing", "stuck"}

(* Spawn g has not come up, and may still.                                 *)
Starting(r, g) == \/ r.tr[g].stage \in {"barrier", "lease", "factory"}
                  \/ r.tr[g].stage = "shake" /\ r.tr[g].child = "live"

(* The exit of g's child is on its way: in the pipe or in the queue.       *)
SeesExit(r, g) ==
    \/ \E i \in DOMAIN r.tr[g].pipe : r.tr[g].pipe[i].kind = "exit"
    \/ \E i \in DOMAIN r.queue : r.queue[i].kind = "event" /\ r.queue[i].g = g /\ r.queue[i].ev = "exit"

(* The stage of a start-up and its child go together; an exit that is      *)
(* reported has happened.                                                  *)
Stepwise ==
    \A g \in Spawn :
        /\ g > reg.spawned => reg.tr[g].stage = "none"
        /\ reg.tr[g].stage \in {"none", "barrier", "lease", "factory"} => reg.tr[g].child = "none"
        /\ reg.tr[g].stage \in {"shake", "cut", "up"} => reg.tr[g].child # "none"
        /\ reg.tr[g].stage = "lost" => reg.tr[g].child \notin {"live", "exited"}
        /\ SeesExit(reg, g) => reg.tr[g].child \notin {"none", "live"}

(* One process claims the session: it holds the lease, or the lease is     *)
(* stuck.  A claim without the lease is that of a failed disposal, or is   *)
(* left behind by the deadline of the shutdown.                            *)
Leased ==
    /\ \A g \in Spawn : Claims(g) => lease.holder = g \/ lease.stuck
    /\ \A g, h \in Spawn : Claims(g) /\ Claims(h) => g = h
    /\ \A g \in Spawn : lease.holder = g =>
          reg.tr[g].stage = "factory" \/ reg.tr[g].child \in {"live", "exited", "disposing"}
    /\ \A g \in Spawn : Claims(g) /\ reg.tr[g].child # "stuck" /\ shut # "failed" => lease.holder = g

(* The client has come up, is current, and nobody disposes of it; a child  *)
(* that runs is the client's; a start-up that is current is the one that   *)
(* is awaited; what is being disposed of is on the barrier.                *)
Installed ==
    /\ reg.client # 0 =>
         /\ reg.tr[reg.client].stage = "up"
         /\ reg.tr[reg.client].child \in {"live", "exited"}
         /\ reg.client = reg.cur
    /\ \A g \in Spawn :
         reg.tr[g].stage = "up" /\ reg.tr[g].child \in {"live", "exited"} => g = reg.client
    /\ \A g \in Spawn : reg.cur = g /\ Starting(reg, g) => reg.ready = g
    /\ \A g \in Spawn : reg.tr[g].child = "disposing" /\ ~Gone => g \in reg.noted
    /\ at.step = "spawn" => reg.client = 0 /\ reg.ready = 0

(* What the shutdown has taken away, and what its success says.            *)
Drained ==
    /\ shut # "no" => reg.client = 0
    /\ shut = "done" => /\ lease.holder = 0
                        /\ \A g \in Spawn : reg.tr[g].child \in {"none", "gone", "stuck"}

-----------------------------------------------------------------------------
(* Activations.                                                            *)

(* The open activation is the newest, and has not ended; the ones to come  *)
(* have not ended; none has ended twice.                                   *)
Once ==
    /\ reg.act.id # 0 => reg.act.id = reg.acts /\ reg.ended[reg.act.id] = "no"
    /\ \A i \in Act : i > reg.acts => reg.ended[i] = "no"
    /\ \A i \in Act : reg.ended[i] # "twice"

(* The calls whose first transition is over.                               *)
Past == {c \in Call : call[c].pc \in PastPcs}

(* Every activation and every spawn is the work of a call whose first      *)
(* transition is over, or of the one that is under way: this is why Act    *)
(* and Spawn suffice.                                                      *)
Counted ==
    /\ reg.acts <= Cardinality(Past) + (IF at.step = "spawn" THEN 1 ELSE 0)
    /\ reg.spawned <= Cardinality(Past)

-----------------------------------------------------------------------------
(* Calls and queues.                                                       *)

(* Task t is call c's.                                                     *)
Concerns(t, c) == t.kind \in {"prep", "accept", "fail"} /\ t.c = c

(* A call has one task at most in the transition queue, and it waits for   *)
(* it.                                                                     *)
Queued ==
    /\ \A i \in DOMAIN reg.queue :
         /\ reg.queue[i].kind = "prep" => call[reg.queue[i].c].pc = "prep"
         /\ reg.queue[i].kind \in {"accept", "fail"} => call[reg.queue[i].c].pc = "end"
    /\ \A i, j \in DOMAIN reg.queue : \A c \in Call :
         Concerns(reg.queue[i], c) /\ Concerns(reg.queue[j], c) => i = j

(* The outbound queue holds the calls that have a message to send, each    *)
(* once, the older activation first; only its first call is past the wait  *)
(* for its turn.                                                           *)
Outgoing ==
    /\ \A c \in Call :
         /\ call[c].pc \in BeforePcs => call[c].mode = "none"
         /\ call[c].pc \in OutPcs \cup {"end"} => call[c].mode # "none"
         /\ call[c].mode # "none" => call[c].id \in 1..reg.acts
         /\ call[c].mode # "none" => call[c].via # 0
         /\ call[c].pc = "peek" => call[c].via # 0
    /\ \A i, j \in DOMAIN outq : outq[i] = outq[j] => i = j
    /\ \A i \in DOMAIN outq : call[outq[i]].pc \in OutPcs
    /\ \A c \in Call : call[c].pc \in OutPcs => \E i \in DOMAIN outq : outq[i] = c
    /\ \A c \in Call : call[c].pc \in OutPcs \ {"out"} => outq[1] = c
    /\ \A i, j \in DOMAIN outq : i < j => call[outq[i]].id <= call[outq[j]].id
    /\ \A d \in Call, i \in DOMAIN outq :
         call[d].mode # "none" /\ call[d].pc \notin OutPcs => call[d].id <= call[outq[i]].id

(* The message of d has failed, and its last transition may still have to  *)
(* say so.                                                                 *)
FailedCall(d) ==
    /\ call[d].mode # "none"
    /\ call[d].pc = "err" \/ \E i \in DOMAIN reg.queue : reg.queue[i].kind = "fail" /\ reg.queue[i].c = d

(* The failure of a message is kept as the poison of its activation while  *)
(* that is open, and no message of the activation is on its way any more.  *)
Poisoned ==
    \A d \in Call : FailedCall(d) =>
        /\ reg.act.id = call[d].id /\ ~Gone => reg.poison = call[d].id
        /\ \A c \in Call : call[c].id = call[d].id => call[c].pc \notin {"ready", "write", "rpc"}

-----------------------------------------------------------------------------
(* What a handler may do to the endpoint: see each part.                   *)

(* Transports are dropped and disposed of, and none is started.            *)
Lowers(r, q) ==
    /\ q.spawned = r.spawned
    /\ q.client \in {r.client, 0}
    /\ q.ready \in {r.ready, 0}
    /\ q.cur \in {r.cur, 0}
    /\ r.noted \subseteq q.noted
    /\ \A g \in Spawn :
         /\ \/ q.tr[g].stage = r.tr[g].stage
            \/ r.tr[g].stage = "shake" /\ q.tr[g].stage = "cut"
         /\ \/ q.tr[g].child = r.tr[g].child
            \/ r.tr[g].child \in {"live", "exited"} /\ q.tr[g].child = "disposing" /\ g \in q.noted
         /\ SeesExit(q, g) => SeesExit(r, g)
    /\ r.client # 0 /\ q.client = 0 => q.tr[r.client].child \notin {"live", "exited"}
    /\ q.client # 0 => q.tr[q.client].child = r.tr[q.client].child /\ q.cur = r.cur
    /\ q.cur # 0 /\ Starting(q, q.cur) => q.ready = r.ready

(* The open activation stays, or it is settled and cleared.                *)
Settling(r, q) ==
    /\ q.acts = r.acts
    /\ q.act.id \in {r.act.id, 0}
    /\ q.act.id # 0 => q.poison = r.poison
    /\ \A i \in Act :
         \/ q.ended[i] = r.ended[i]
         \/ /\ i = r.act.id /\ q.act.id = 0
            /\ r.ended[i] = "no" => q.ended[i] # "twice"

(* No task of a call is added to the queue; shift is 1 where the first task
   was taken from it. *)
Quiet(t) == t.kind \in {"event", "abort", "detach", "retain"}
Carries(r, q, shift) ==
    \A i \in DOMAIN q.queue :
        \/ Quiet(q.queue[i])
        \/ i + shift \in DOMAIN r.queue /\ q.queue[i] = r.queue[i + shift]

(* One task is handled (shift 1), or none (shift 0).                       *)
Handles(r, q, shift) ==
    q \in Endpoint /\ Lowers(r, q) /\ Settling(r, q) /\ Carries(r, q, shift)
Follows(r, q) == Handles(r, q, 0)

(* Spawns and activations are numbered from 1.                             *)
LEMMA Numbers == /\ Cardinality(Call) \in Nat
                 /\ Spawn = 1..Cardinality(Call) /\ Act = 1..Cardinality(Call)
                 /\ Spawn \subseteq Nat \ {0} /\ Act \subseteq Nat \ {0}
BY CallsAreFinite, FS_CardinalityType DEF Spawn, Act

(* A handler may do nothing.                                               *)
LEMMA FollowsItself == ASSUME NEW r \in Endpoint PROVE Follows(r, r)
<1>1. r.queue \in Seq(Task) /\ DOMAIN r.queue = 1..Len(r.queue)
  BY DEF Endpoint
<1>2. Lowers(r, r)
  BY DEF Lowers
<1>3. Settling(r, r)
  BY DEF Settling
<1>4. Carries(r, r, 0)
  BY <1>1 DEF Carries
<1> QED BY <1>2, <1>3, <1>4 DEF Follows, Handles

(* The positions of the transition queue.                                  *)
LEMMA QueueDomain == ASSUME NEW r \in Endpoint
                     PROVE  /\ r.queue \in Seq(Task) /\ Len(r.queue) \in Nat
                            /\ DOMAIN r.queue = 1..Len(r.queue)
BY DEF Endpoint

(* One thing after another is still one handler's work.                    *)
LEMMA HandlesOn == ASSUME NEW r \in Endpoint, NEW q \in Endpoint, NEW p \in Endpoint,
                          NEW shift \in {0, 1}, Handles(r, q, shift), Follows(q, p)
                   PROVE  Handles(r, p, shift)
<1>0. /\ Lowers(r, q) /\ Lowers(q, p) /\ Settling(r, q) /\ Settling(q, p)
      /\ Carries(r, q, shift) /\ Carries(q, p, 0)
  BY DEF Handles, Follows
<1>1. Settling(r, p)
  <2>1. 0 \notin Act
    BY Numbers
  <2> QED BY <1>0, <2>1 DEF Settling
<1>2. Carries(r, p, shift)
  <2>1. ASSUME NEW i \in DOMAIN p.queue, ~Quiet(p.queue[i])
        PROVE  i + shift \in DOMAIN r.queue /\ p.queue[i] = r.queue[i + shift]
    <3>1. i \in Nat /\ i + 0 = i
      BY QueueDomain
    <3>2. i \in DOMAIN q.queue /\ p.queue[i] = q.queue[i]
      BY <1>0, <2>1, <3>1 DEF Carries
    <3> QED BY <1>0, <2>1, <3>1, <3>2 DEF Carries
  <2> QED BY <2>1 DEF Carries
<1>3. Lowers(r, p)
  <2>0. /\ r.client \in Spawn \cup {0} /\ q.client \in Spawn \cup {0} /\ p.client \in Spawn \cup {0}
        /\ r.cur \in Spawn \cup {0} /\ q.cur \in Spawn \cup {0} /\ p.cur \in Spawn \cup {0}
    BY DEF Endpoint
  <2>1. ASSUME NEW g \in Spawn
        PROVE  /\ \/ p.tr[g].stage = r.tr[g].stage
                  \/ r.tr[g].stage = "shake" /\ p.tr[g].stage = "cut"
               /\ \/ p.tr[g].child = r.tr[g].child
                  \/ r.tr[g].child \in {"live", "exited"} /\ p.tr[g].child = "disposing" /\ g \in p.noted
               /\ SeesExit(p, g) => SeesExit(r, g)
               /\ Starting(p, g) => Starting(q, g)
    BY <1>0 DEF Lowers, Starting
  <2>2. r.client # 0 /\ p.client = 0 => p.tr[r.client].child \notin {"live", "exited"}
    BY <1>0, <2>0 DEF Lowers
  <2>3. p.client # 0 => p.tr[p.client].child = r.tr[p.client].child /\ p.cur = r.cur
    BY <1>0 DEF Lowers
  <2>4. p.cur # 0 /\ Starting(p, p.cur) => p.ready = r.ready
    BY <1>0, <2>0, <2>1 DEF Lowers
  <2>5. /\ p.spawned = r.spawned /\ p.client \in {r.client, 0} /\ p.ready \in {r.ready, 0}
        /\ p.cur \in {r.cur, 0} /\ r.noted \subseteq p.noted
    BY <1>0 DEF Lowers
  <2> QED BY <2>1, <2>2, <2>3, <2>4, <2>5 DEF Lowers
<1> QED BY <1>1, <1>2, <1>3 DEF Handles

(* The same for a handler that takes no task.                              *)
LEMMA FollowsOn == ASSUME NEW r \in Endpoint, NEW q \in Endpoint, NEW p \in Endpoint,
                          Follows(r, q), Follows(q, p)
                   PROVE  Follows(r, p)
BY HandlesOn DEF Follows, Handles

-----------------------------------------------------------------------------
(* What the helpers leave of the endpoint.                                 *)

(* The parts of the endpoint that a handler leaves alone.                  *)
SameTransports(r, q) ==
    /\ q.client = r.client /\ q.ready = r.ready /\ q.cur = r.cur /\ q.spawned = r.spawned
    /\ q.noted = r.noted /\ q.tr = r.tr
SameActivation(r, q) ==
    q.acts = r.acts /\ q.act = r.act /\ q.poison = r.poison /\ q.ended = r.ended
SameQueue(r, q) == q.queue = r.queue

(* Only tasks that are no call's and no event are added.                   *)
Adds(r, q) ==
    \A i \in DOMAIN q.queue :
        \/ q.queue[i].kind \in {"abort", "detach", "retain"}
        \/ i \in DOMAIN r.queue /\ q.queue[i] = r.queue[i]

(* A task is added at the end of the queue, and nothing else changes.      *)
LEMMA Appended ==
    ASSUME NEW r \in Endpoint, NEW t \in Task
    PROVE  /\ Enqueue(r, t) \in Endpoint
           /\ SameTransports(r, Enqueue(r, t)) /\ SameActivation(r, Enqueue(r, t))
           /\ Enqueue(r, t).status = r.status
           /\ Enqueue(r, t).queue = Append(r.queue, t)
           /\ DOMAIN Enqueue(r, t).queue = 1..(Len(r.queue) + 1)
           /\ Enqueue(r, t).queue[Len(r.queue) + 1] = t
           /\ \A i \in 1..Len(r.queue) : Enqueue(r, t).queue[i] = r.queue[i]
<1>1. Append(r.queue, t) \in Seq(Task)
  BY QueueDomain
<1>2. Enqueue(r, t) \in Endpoint
  BY <1>1 DEF Endpoint, Enqueue
<1>3. /\ SameTransports(r, Enqueue(r, t)) /\ SameActivation(r, Enqueue(r, t))
      /\ Enqueue(r, t).queue = Append(r.queue, t)
      /\ Enqueue(r, t).status = r.status
  BY DEF Endpoint, Enqueue, SameTransports, SameActivation
<1> QED BY <1>2, <1>3, QueueDomain

(* A task that is no call's and no event.                                  *)
LEMMA OwnIsTask == ASSUME NEW t \in OwnTask
                   PROVE t \in Task /\ t.kind \in {"abort", "detach", "retain"}
BY DEF Task, OwnTask, AbortTask, DetachTask, RetainTask

(* Such a task is added.                                                   *)
LEMMA OwnAppended ==
    ASSUME NEW r \in Endpoint, NEW t \in OwnTask
    PROVE  /\ Enqueue(r, t) \in Endpoint
           /\ SameTransports(r, Enqueue(r, t)) /\ SameActivation(r, Enqueue(r, t))
           /\ Enqueue(r, t).status = r.status
           /\ Adds(r, Enqueue(r, t))
<1>1. t \in Task /\ t.kind \in {"abort", "detach", "retain"}
  BY OwnIsTask
<1>2. /\ Enqueue(r, t) \in Endpoint
      /\ SameTransports(r, Enqueue(r, t)) /\ SameActivation(r, Enqueue(r, t))
      /\ Enqueue(r, t).status = r.status
      /\ DOMAIN Enqueue(r, t).queue = 1..(Len(r.queue) + 1)
      /\ Enqueue(r, t).queue[Len(r.queue) + 1] = t
      /\ \A i \in 1..Len(r.queue) : Enqueue(r, t).queue[i] = r.queue[i]
  BY <1>1, Appended
<1>3. Adds(r, Enqueue(r, t))
  BY <1>1, <1>2, QueueDomain DEF Adds
<1> QED BY <1>2, <1>3

(* Tasks are added, and more tasks after them.                             *)
LEMMA AddsOn == ASSUME NEW r \in Endpoint, NEW q \in Endpoint, NEW p \in Endpoint,
                       Adds(r, q), Adds(q, p)
                PROVE  Adds(r, p)
BY DEF Adds

(* A transport that is disposed of.                                        *)
LEMMA Disposed ==
    ASSUME NEW r \in Endpoint, NEW g \in Spawn \cup {0}
    PROVE  /\ Dispose(r, g) \in Endpoint
           /\ SameActivation(r, Dispose(r, g)) /\ SameQueue(r, Dispose(r, g))
           /\ Dispose(r, g).client = r.client /\ Dispose(r, g).ready = r.ready
           /\ Dispose(r, g).cur = r.cur /\ Dispose(r, g).spawned = r.spawned
           /\ Dispose(r, g).status = r.status
           /\ Dispose(r, g).noted = r.noted \cup ({g} \ {0})
           /\ \A h \in Spawn :
                /\ Dispose(r, g).tr[h].stage = r.tr[h].stage
                /\ Dispose(r, g).tr[h].why = r.tr[h].why
                /\ Dispose(r, g).tr[h].pipe = r.tr[h].pipe
                /\ Dispose(r, g).tr[h].child = IF h = g /\ r.tr[h].child \in {"live", "exited"}
                                               THEN "disposing" ELSE r.tr[h].child
<1> DEFINE q == Dispose(r, g)
<1>1. CASE g = 0
  <2>1. q = r /\ r.noted \cup ({g} \ {0}) = r.noted
    BY <1>1 DEF Dispose
  <2>2. \A h \in Spawn : h # g
    BY <1>1, Numbers
  <2> HIDE DEF q
  <2>3. SameActivation(r, q) /\ SameQueue(r, q)
    BY <2>1 DEF SameActivation, SameQueue
  <2> QED BY <2>1, <2>2, <2>3 DEF q
<1>2. CASE g # 0
  <2> DEFINE x == r.tr[g]
             y == [x EXCEPT !.child = IF @ \in {"live", "exited"} THEN "disposing" ELSE @]
             tr == [r.tr EXCEPT ![g] = y]
  <2>1. g \in Spawn /\ r.tr \in [Spawn -> TransportState] /\ x \in TransportState
    BY <1>2 DEF Endpoint
  <2>2. /\ y \in TransportState /\ y.stage = x.stage /\ y.why = x.why /\ y.pipe = x.pipe
        /\ y.child = IF x.child \in {"live", "exited"} THEN "disposing" ELSE x.child
    BY <2>1 DEF TransportState, Children
  <2>3. q = [r EXCEPT !.noted = r.noted \cup {g}, !.tr = tr]
    BY <1>2, <2>1 DEF Dispose, Endpoint
  <2> HIDE DEF y
  <2>4. tr \in [Spawn -> TransportState] /\ \A h \in Spawn : tr[h] = IF h = g THEN y ELSE r.tr[h]
    BY <2>1, <2>2
  <2> HIDE DEF tr, q
  <2>5. r.noted \cup {g} \in SUBSET Spawn /\ r.noted \cup ({g} \ {0}) = r.noted \cup {g}
    BY <1>2, <2>1 DEF Endpoint
  <2>6. /\ q \in Endpoint
        /\ SameActivation(r, q) /\ SameQueue(r, q)
        /\ q.client = r.client /\ q.ready = r.ready /\ q.cur = r.cur /\ q.spawned = r.spawned
        /\ q.status = r.status /\ q.noted = r.noted \cup {g} /\ q.tr = tr
    BY <2>3, <2>4, <2>5 DEF Endpoint, SameActivation, SameQueue
  <2> QED BY <2>2, <2>4, <2>5, <2>6 DEF q
<1> QED BY <1>1, <1>2

(* A generation that advances: the waiter of a start-up is rejected.       *)
LEMMA Advanced ==
    ASSUME NEW r \in Endpoint
    PROVE  /\ Advance(r) \in Endpoint
           /\ SameActivation(r, Advance(r)) /\ SameQueue(r, Advance(r))
           /\ Advance(r).client = r.client /\ Advance(r).ready = r.ready
           /\ Advance(r).cur = 0 /\ Advance(r).spawned = r.spawned
           /\ Advance(r).status = r.status
           /\ Advance(r).noted = r.noted
           /\ \A h \in Spawn :
                /\ Advance(r).tr[h].stage = IF r.tr[h].stage = "shake" THEN "cut" ELSE r.tr[h].stage
                /\ Advance(r).tr[h].pipe = r.tr[h].pipe
                /\ Advance(r).tr[h].child = r.tr[h].child
<1> DEFINE q == Advance(r)
           cut(x) == IF x.stage = "shake" THEN [x EXCEPT !.stage = "cut"] ELSE x
           tr == [g \in Spawn |-> cut(r.tr[g])]
<1>1. r.tr \in [Spawn -> TransportState]
  BY DEF Endpoint
<1>2. ASSUME NEW x \in TransportState
      PROVE  /\ cut(x) \in TransportState
             /\ cut(x).stage = IF x.stage = "shake" THEN "cut" ELSE x.stage
             /\ cut(x).child = x.child /\ cut(x).pipe = x.pipe
  BY <1>2 DEF TransportState, Stages
<1>3. q = [r EXCEPT !.cur = 0, !.tr = tr]
  BY DEF Advance, Endpoint
<1> HIDE DEF cut, q
<1>4. tr \in [Spawn -> TransportState] /\ \A h \in Spawn : tr[h] = cut(r.tr[h])
  BY <1>1, <1>2
<1> HIDE DEF tr
<1>5. /\ q \in Endpoint
      /\ SameActivation(r, q) /\ SameQueue(r, q)
      /\ q.client = r.client /\ q.ready = r.ready /\ q.cur = 0 /\ q.spawned = r.spawned
      /\ q.status = r.status /\ q.noted = r.noted /\ q.tr = tr
  BY <1>3, <1>4 DEF Endpoint, SameActivation, SameQueue
<1> QED BY <1>1, <1>2, <1>4, <1>5 DEF q

(* A transport that is told to stop its turn.                              *)
LEMMA Stopped ==
    ASSUME NEW r \in Endpoint, NEW g \in Spawn \cup {0}
    PROVE  /\ Stop(r, g) \in Endpoint
           /\ SameActivation(r, Stop(r, g)) /\ SameQueue(r, Stop(r, g))
           /\ Stop(r, g).client = r.client /\ Stop(r, g).ready = r.ready
           /\ Stop(r, g).cur = r.cur /\ Stop(r, g).spawned = r.spawned
           /\ Stop(r, g).status = r.status
           /\ Stop(r, g).noted = r.noted
           /\ \A h \in Spawn :
                /\ Stop(r, g).tr[h].stage = r.tr[h].stage
                /\ Stop(r, g).tr[h].pipe = r.tr[h].pipe
                /\ Stop(r, g).tr[h].child = r.tr[h].child
<1> DEFINE q == Stop(r, g)
<1>1. CASE g = 0
  <2>1. q = r
    BY <1>1 DEF Stop
  <2> HIDE DEF q
  <2>3. SameActivation(r, q) /\ SameQueue(r, q)
    BY <2>1 DEF SameActivation, SameQueue
  <2> QED BY <2>1, <2>3 DEF q
<1>2. CASE g # 0
  <2> DEFINE x == r.tr[g]
             y == [x EXCEPT !.turn = IF @ = "busy" THEN "stopped" ELSE @]
             tr == [r.tr EXCEPT ![g] = y]
  <2>1. g \in Spawn /\ r.tr \in [Spawn -> TransportState] /\ x \in TransportState
    BY <1>2 DEF Endpoint
  <2>2. y \in TransportState /\ y.stage = x.stage /\ y.pipe = x.pipe /\ y.child = x.child
    BY <2>1 DEF TransportState, Turns
  <2>3. q = [r EXCEPT !.tr = tr]
    BY <1>2, <2>1 DEF Stop, Endpoint
  <2> HIDE DEF y
  <2>4. tr \in [Spawn -> TransportState] /\ \A h \in Spawn : tr[h] = IF h = g THEN y ELSE r.tr[h]
    BY <2>1, <2>2
  <2> HIDE DEF tr, q
  <2>6. /\ q \in Endpoint
        /\ SameActivation(r, q) /\ SameQueue(r, q)
        /\ q.client = r.client /\ q.ready = r.ready /\ q.cur = r.cur /\ q.spawned = r.spawned
        /\ q.status = r.status /\ q.noted = r.noted /\ q.tr = tr
    BY <2>3, <2>4 DEF Endpoint, SameActivation, SameQueue
  <2> QED BY <2>2, <2>4, <2>6 DEF q
<1> QED BY <1>1, <1>2

(* A transport that is dropped.                                            *)
LEMMA Dropped ==
    ASSUME NEW r \in Endpoint
    PROVE  /\ Drop(r) \in Endpoint
           /\ SameActivation(r, Drop(r)) /\ SameQueue(r, Drop(r))
           /\ Drop(r).client = 0 /\ Drop(r).ready = 0
           /\ Drop(r).cur = 0 /\ Drop(r).spawned = r.spawned
           /\ Drop(r).status = r.status
           /\ Drop(r).noted = r.noted \cup ({r.ready, r.client} \ {0})
           /\ \A h \in Spawn :
                /\ Drop(r).tr[h].stage = IF r.tr[h].stage = "shake" THEN "cut" ELSE r.tr[h].stage
                /\ Drop(r).tr[h].pipe = r.tr[h].pipe
                /\ Drop(r).tr[h].child = IF h = r.client /\ r.tr[h].child \in {"live", "exited"}
                                         THEN "disposing" ELSE r.tr[h].child
<1> DEFINE a == Advance(r)
           b == [a EXCEPT !.noted = a.noted \cup ({r.ready} \ {0}), !.ready = 0, !.client = 0]
<1>0. r.ready \in Spawn \cup {0} /\ r.client \in Spawn \cup {0} /\ r.noted \in SUBSET Spawn
  BY DEF Endpoint
<1>1. Drop(r) = Dispose(b, r.client)
  <2>1. a \in Endpoint
    BY Advanced
  <2>2. b = [a EXCEPT !.noted = @ \cup ({r.ready} \ {0}), !.ready = 0, !.client = 0]
    BY <2>1 DEF Endpoint
  <2> HIDE DEF a, b
  <2> QED BY <2>2 DEF Drop, a
<1>2. /\ b \in Endpoint
      /\ SameActivation(a, b) /\ SameQueue(a, b)
      /\ b.client = 0 /\ b.ready = 0 /\ b.cur = a.cur /\ b.spawned = a.spawned
      /\ b.status = a.status /\ b.noted = a.noted \cup ({r.ready} \ {0}) /\ b.tr = a.tr
  <2>1. a \in Endpoint /\ a.noted \cup ({r.ready} \ {0}) \in SUBSET Spawn
    BY <1>0, Advanced
  <2> HIDE DEF a
  <2> QED BY <2>1 DEF Endpoint, SameActivation, SameQueue
<1>3. /\ a \in Endpoint
      /\ SameActivation(r, a) /\ SameQueue(r, a)
      /\ a.cur = 0 /\ a.spawned = r.spawned /\ a.status = r.status /\ a.noted = r.noted
      /\ \A h \in Spawn :
                /\ a.tr[h].stage = IF r.tr[h].stage = "shake" THEN "cut" ELSE r.tr[h].stage
                /\ a.tr[h].pipe = r.tr[h].pipe
                /\ a.tr[h].child = r.tr[h].child
  BY Advanced
<1> HIDE DEF a, b
<1> DEFINE q == Dispose(b, r.client)
<1>4. /\ q \in Endpoint
      /\ SameActivation(b, q) /\ SameQueue(b, q)
      /\ q.client = b.client /\ q.ready = b.ready /\ q.cur = b.cur /\ q.spawned = b.spawned
      /\ q.status = b.status /\ q.noted = b.noted \cup ({r.client} \ {0})
      /\ \A h \in Spawn :
                /\ q.tr[h].stage = b.tr[h].stage
                /\ q.tr[h].pipe = b.tr[h].pipe
                /\ q.tr[h].child = IF h = r.client /\ b.tr[h].child \in {"live", "exited"}
                                   THEN "disposing" ELSE b.tr[h].child
  <2>1. b \in Endpoint /\ r.client \in Spawn \cup {0}
    BY <1>0, <1>2
  <2> HIDE DEF q
  <2>2. q = Dispose(b, r.client)
    BY DEF q
  <2> QED BY ONLY <2>1, <2>2, Disposed, SMTT(40)
<1> HIDE DEF q
<1>5. SameActivation(r, q) /\ SameQueue(r, q)
  BY <1>2, <1>3, <1>4 DEF SameActivation, SameQueue
<1>6. q.noted = r.noted \cup ({r.ready, r.client} \ {0})
  BY <1>2, <1>3, <1>4
<1>7. /\ q.client = 0 /\ q.ready = 0
      /\ q.cur = 0 /\ q.spawned = r.spawned /\ q.status = r.status
  BY <1>2, <1>3, <1>4
<1>8. \A h \in Spawn :
                /\ q.tr[h].stage = IF r.tr[h].stage = "shake" THEN "cut" ELSE r.tr[h].stage
                /\ q.tr[h].pipe = r.tr[h].pipe
                /\ q.tr[h].child = IF h = r.client /\ r.tr[h].child \in {"live", "exited"}
                                   THEN "disposing" ELSE r.tr[h].child
  BY <1>2, <1>3, <1>4
<1>9. Drop(r) = q
  BY <1>1 DEF q
<1> QED BY <1>4, <1>5, <1>6, <1>7, <1>8, <1>9

(* Exits are seen where they were seen.                                    *)
LEMMA ExitsKept ==
    ASSUME NEW r \in Endpoint, NEW q \in Endpoint, Adds(r, q), NEW g \in Spawn,
           q.tr[g].pipe = r.tr[g].pipe, SeesExit(q, g)
    PROVE  SeesExit(r, g)
BY DEF Adds, SeesExit

(* What adds only such tasks adds none of a call.                          *)
LEMMA CarriesOfAdds ==
    ASSUME NEW r \in Endpoint, NEW q \in Endpoint, Adds(r, q)
    PROVE  Carries(r, q, 0)
<1>1. ASSUME NEW i \in DOMAIN q.queue, ~Quiet(q.queue[i])
      PROVE  i + 0 \in DOMAIN r.queue /\ q.queue[i] = r.queue[i + 0]
  <2>1. i + 0 = i
    BY QueueDomain
  <2> QED BY <1>1, <2>1 DEF Adds, Quiet
<1> QED BY <1>1 DEF Carries

(* A queue that stays as it is.                                            *)
LEMMA AddsNothing ==
    ASSUME NEW r, NEW q, SameQueue(r, q)
    PROVE  Adds(r, q)
BY DEF SameQueue, Adds

(* What touches the activation and the queue only.                         *)
LEMMA OfActivation ==
    ASSUME NEW r \in Endpoint, NEW q \in Endpoint, SameTransports(r, q), Settling(r, q), Adds(r, q)
    PROVE  Follows(r, q)
<1>1. Carries(r, q, 0)
  BY CarriesOfAdds
<1>2. \A g \in Spawn : SeesExit(q, g) => SeesExit(r, g)
  BY ExitsKept DEF SameTransports
<1>3. Lowers(r, q)
  BY <1>2 DEF Lowers, SameTransports
<1> QED BY <1>1, <1>3 DEF Follows, Handles

(* An activation that stays as it is.                                      *)
LEMMA SettlingNothing ==
    ASSUME NEW r, NEW q, SameActivation(r, q)
    PROVE  Settling(r, q)
BY DEF SameActivation, Settling

(* A transport is taken out of the endpoint before it is disposed of.      *)
LEMMA LetGo ==
    ASSUME NEW r \in Endpoint, NEW x \in Endpoint, NEW g \in Spawn \cup {0},
           Settling(r, x), Adds(r, x),
           x.spawned = r.spawned, x.cur \in {r.cur, 0}, x.ready \in {r.ready, 0},
           r.noted \subseteq x.noted,
           x.client = 0 \/ (x.client = r.client /\ g # r.client /\ x.cur = r.cur),
           r.client \in {g, 0, x.client},
           \A h \in Spawn :
                /\ x.tr[h].stage = r.tr[h].stage \/ (r.tr[h].stage = "shake" /\ x.tr[h].stage = "cut")
                /\ x.tr[h].child = r.tr[h].child
                /\ x.tr[h].pipe = r.tr[h].pipe,
           x.cur # 0 /\ Starting(r, x.cur) => x.ready = r.ready
    PROVE  Follows(r, Dispose(x, g))
<1> DEFINE q == Dispose(x, g)
<1>1. /\ q \in Endpoint
      /\ SameActivation(x, q) /\ SameQueue(x, q)
      /\ q.client = x.client /\ q.ready = x.ready
      /\ q.cur = x.cur /\ q.spawned = x.spawned
      /\ q.noted = x.noted \cup ({g} \ {0})
      /\ \A h \in Spawn :
                /\ q.tr[h].stage = x.tr[h].stage
                /\ q.tr[h].pipe = x.tr[h].pipe
                /\ q.tr[h].child = IF h = g /\ x.tr[h].child \in {"live", "exited"}
                                   THEN "disposing" ELSE x.tr[h].child
  BY Disposed
<1> HIDE DEF q
<1>0. /\ r.client \in Spawn \cup {0} /\ q.client \in Spawn \cup {0}
      /\ r.cur \in Spawn \cup {0} /\ q.cur \in Spawn \cup {0} /\ Spawn \subseteq Nat \ {0}
  BY <1>1, Numbers DEF Endpoint
<1>2. Settling(r, q)
  BY <1>1 DEF Settling, SameActivation
<1>3. Adds(r, q)
  BY <1>1, AddsNothing, AddsOn
<1>4. Carries(r, q, 0)
  BY <1>1, <1>3, CarriesOfAdds
<1>5. ASSUME NEW h \in Spawn
      PROVE  /\ \/ q.tr[h].stage = r.tr[h].stage
                \/ r.tr[h].stage = "shake" /\ q.tr[h].stage = "cut"
             /\ \/ q.tr[h].child = r.tr[h].child
                \/ r.tr[h].child \in {"live", "exited"} /\ q.tr[h].child = "disposing" /\ h \in q.noted
             /\ SeesExit(q, h) => SeesExit(r, h)
             /\ Starting(q, h) => Starting(r, h)
  <2>1. q.tr[h].pipe = r.tr[h].pipe
    BY <1>1
  <2>2. SeesExit(q, h) => SeesExit(r, h)
    BY <1>1, <1>3, <2>1, ExitsKept
  <2>3. h # 0
    BY <1>0
  <2>4. \/ q.tr[h].stage = r.tr[h].stage
        \/ r.tr[h].stage = "shake" /\ q.tr[h].stage = "cut"
    BY <1>1
  <2>5. \/ q.tr[h].child = r.tr[h].child
        \/ r.tr[h].child \in {"live", "exited"} /\ q.tr[h].child = "disposing" /\ h \in q.noted
    BY <1>1, <2>3
  <2>6. Starting(q, h) => Starting(r, h)
    BY <2>4, <2>5 DEF Starting
  <2> QED BY <2>2, <2>4, <2>5, <2>6
<1>6. /\ q.spawned = r.spawned
      /\ q.client \in {r.client, 0}
      /\ q.ready \in {r.ready, 0}
      /\ q.cur \in {r.cur, 0}
      /\ r.noted \subseteq q.noted
  BY <1>1
<1>7. r.client # 0 /\ q.client = 0 => q.tr[r.client].child \notin {"live", "exited"}
  BY <1>0, <1>1
<1>8. ASSUME q.client # 0 PROVE q.tr[q.client].child = r.tr[q.client].child /\ q.cur = r.cur
  <2>1. q.client = r.client /\ q.client \in Spawn
    BY <1>0, <1>6, <1>8
  <2> QED BY <1>1, <1>8, <2>1
<1>9. q.cur # 0 /\ Starting(q, q.cur) => q.ready = r.ready
  BY <1>0, <1>1, <1>5
<1> QED BY <1>1, <1>2, <1>4, <1>5, <1>6, <1>7, <1>8, <1>9 DEF Follows, Handles, Lowers, q

(* A transport that is no client of the endpoint is disposed of.           *)
LEMMA DisposedFollows ==
    ASSUME NEW r \in Endpoint, NEW g \in Spawn \cup {0}, g # r.client \/ g = 0
    PROVE  Follows(r, Dispose(r, g))
<1>1. CASE g = 0
  BY <1>1, FollowsItself DEF Dispose
<1>2. CASE g # 0
  <2>1. Settling(r, r) /\ Adds(r, r)
    BY DEF Settling, Adds
  <2> QED BY <1>2, <2>1, LetGo
<1> QED BY <1>1, <1>2

(* Drop is what a handler may do.                                          *)
LEMMA DroppedFollows == ASSUME NEW r \in Endpoint PROVE Follows(r, Drop(r))
<1> DEFINE q == Drop(r)
<1>1. /\ q \in Endpoint
      /\ SameActivation(r, q) /\ SameQueue(r, q)
      /\ q.client = 0 /\ q.ready = 0
      /\ q.cur = 0 /\ q.spawned = r.spawned
      /\ q.noted = r.noted \cup ({r.ready, r.client} \ {0})
      /\ \A h \in Spawn :
                /\ q.tr[h].stage = IF r.tr[h].stage = "shake" THEN "cut" ELSE r.tr[h].stage
                /\ q.tr[h].pipe = r.tr[h].pipe
                /\ q.tr[h].child = IF h = r.client /\ r.tr[h].child \in {"live", "exited"}
                                   THEN "disposing" ELSE r.tr[h].child
  BY Dropped
<1> HIDE DEF q
<1>2. Settling(r, q) /\ Adds(r, q)
  BY <1>1, SettlingNothing, AddsNothing
<1>3. Carries(r, q, 0)
  BY <1>1, <1>2, CarriesOfAdds
<1>4. \A h \in Spawn : SeesExit(q, h) => SeesExit(r, h)
  BY <1>1, <1>2, ExitsKept
<1>5. r.client \in Spawn \cup {0} /\ Spawn \subseteq Nat \ {0}
  BY Numbers DEF Endpoint
<1>6. \A h \in Spawn : h # 0
  BY <1>5
<1>7. Lowers(r, q)
  BY <1>1, <1>4, <1>5, <1>6 DEF Lowers
<1> QED BY <1>1, <1>2, <1>3, <1>7 DEF Follows, Handles, q

-----------------------------------------------------------------------------
(* Settlements.                                                            *)

(* How an activation is ended.                                             *)
Hows == {"ok", "error", "cancelled", "max_turns"}

(* The number of the activation, and its end.                              *)
LEMMA ActivationIds == ASSUME NEW r \in Endpoint
                       PROVE  /\ r.act \in Activation /\ r.act.id \in Act \cup {0}
                              /\ r.act.over \in Overs
                              /\ Open(r) <=> r.act.id \in Act
                              /\ r.acts \in Act \cup {0}
BY Numbers DEF Endpoint, Activation, Open

(* The endpoint without an activation.                                     *)
LEMMA NoActivation == NoAct \in Activation /\ NoAct.id = 0
BY DEF NoAct, Activation, Overs

(* End settles the open activation and touches no transport.               *)
LEMMA Ended ==
    ASSUME NEW r \in Endpoint, Open(r), NEW how \in Hows
    PROVE  /\ End(r, how) \in Endpoint
           /\ SameTransports(r, End(r, how)) /\ Adds(r, End(r, how))
           /\ Settling(r, End(r, how)) /\ End(r, how).act.id = 0
<1> DEFINE ended == [r.ended EXCEPT ![r.act.id] = IF @ = "no" THEN how ELSE "twice"]
           e == [r EXCEPT !.ended = ended, !.act = NoAct]
           q == End(r, how)
           t == [kind |-> "retain", epoch |-> r.acts]
<1>0. r.act.id \in Act /\ r.ended \in [Act -> Ends] /\ r.acts \in Act \cup {0}
  BY ActivationIds DEF Endpoint
<1>1. /\ ended \in [Act -> Ends]
      /\ \A i \in Act \ {r.act.id} : ended[i] = r.ended[i]
      /\ r.ended[r.act.id] = "no" => ended[r.act.id] # "twice"
  BY <1>0 DEF Ends, Hows
<1>2. e = [r EXCEPT !.ended[r.act.id] = IF @ = "no" THEN how ELSE "twice", !.act = NoAct]
  BY DEF Endpoint
<1>3. q \in {e, Enqueue(e, t)}
  BY <1>2 DEF End
<1> HIDE DEF ended, q
<1>4. /\ e \in Endpoint /\ SameTransports(r, e) /\ SameQueue(r, e)
      /\ e.acts = r.acts /\ e.act.id = 0 /\ e.ended = ended
  <2>2. e \in Endpoint
    BY <1>1, NoActivation DEF Endpoint
  <2>3. /\ e.client = r.client /\ e.ready = r.ready /\ e.cur = r.cur /\ e.spawned = r.spawned
        /\ e.noted = r.noted /\ e.tr = r.tr /\ e.queue = r.queue
        /\ e.acts = r.acts /\ e.act = NoAct /\ e.ended = ended
    BY DEF Endpoint
  <2> QED BY <2>2, <2>3, NoActivation DEF SameTransports, SameQueue
<1> HIDE DEF e
<1>5. t \in OwnTask
  BY <1>0 DEF OwnTask, RetainTask
<1> HIDE DEF t
<1>6. /\ q \in Endpoint /\ SameTransports(e, q) /\ SameActivation(e, q) /\ Adds(e, q)
  <2>1. CASE q = e
    BY <1>4, <2>1 DEF SameTransports, SameActivation, Adds
  <2>2. CASE q = Enqueue(e, t)
    BY <1>4, <1>5, <2>2, OwnAppended
  <2> QED BY <1>3, <2>1, <2>2
<1>7. SameTransports(r, q) /\ q.act.id = 0 /\ q.acts = r.acts /\ q.ended = ended
  BY <1>4, <1>6 DEF SameTransports, SameActivation
<1>8. Settling(r, q)
  BY <1>0, <1>1, <1>7 DEF Settling
<1>9. Adds(r, q)
  BY <1>4, <1>6, AddsNothing, AddsOn
<1> QED BY <1>6, <1>7, <1>8, <1>9 DEF q

(* SettleActivationError settles the activation that is open, if any.      *)
LEMMA SettledWithError ==
    ASSUME NEW r \in Endpoint, NEW how \in Hows
    PROVE  /\ SettleActivationError(r, how) \in Endpoint
           /\ SameTransports(r, SettleActivationError(r, how))
           /\ Adds(r, SettleActivationError(r, how))
           /\ Settling(r, SettleActivationError(r, how))
           /\ SettleActivationError(r, how).act.id = 0
<1> DEFINE s == [r EXCEPT !.status =
                 IF @ \notin Unsettled THEN @
                 ELSE CASE how = "max_turns" -> "idle"
                        [] how = "cancelled" -> "detached"
                        [] OTHER -> "error"]
           q == SettleActivationError(r, how)
<1>1. s \in Endpoint /\ SameTransports(r, s) /\ SameActivation(r, s) /\ SameQueue(r, s)
  BY DEF Endpoint, Statuses, SameTransports, SameActivation, SameQueue
<1>2. q = IF Open(r) THEN End(s, how) ELSE s
  BY DEF SettleActivationError
<1> HIDE DEF s, q
<1>3. Open(s) <=> Open(r)
  BY <1>1 DEF SameActivation, Open
<1>4. CASE Open(r)
  <2>1. q = End(s, how)
    BY <1>2, <1>4
  <2>2. /\ q \in Endpoint
        /\ SameTransports(s, q) /\ Adds(s, q) /\ Settling(s, q) /\ q.act.id = 0
    BY <1>1, <1>3, <1>4, <2>1, Ended
  <2>3. SameTransports(r, q)
    BY <1>1, <2>2 DEF SameTransports
  <2>4. Settling(r, q)
    BY <1>1, <2>2 DEF SameActivation, Settling
  <2>5. Adds(r, q)
    BY <1>1, <2>2, AddsNothing, AddsOn
  <2> QED BY <2>2, <2>3, <2>4, <2>5 DEF q
<1>5. CASE ~Open(r)
  <2>1. q = s
    BY <1>2, <1>5
  <2>2. q.act.id = 0
    BY <1>1, <1>5, <2>1 DEF SameActivation, Open
  <2>3. Adds(r, q) /\ Settling(r, q)
    BY <1>1, <2>1, AddsNothing, SettlingNothing
  <2> QED BY <1>1, <2>1, <2>2, <2>3 DEF q
<1> QED BY <1>4, <1>5

(* detach ends the activation and drops the transport.                     *)
LEMMA DetachFollows == ASSUME NEW r \in Endpoint PROVE Follows(r, Detach(r))
<1> DEFINE s == [r EXCEPT !.status = IF Open(r) /\ @ \in Unsettled THEN "detached" ELSE @]
           how == IF r.act.over = "none" THEN "error" ELSE r.act.over
           e == IF Open(r) THEN SettleActivationError(s, how) ELSE s
           d == Drop(e)
           q == [d EXCEPT !.timer = 0, !.poison = 0,
                  !.status = IF @ = "unavailable" THEN @ ELSE "detached"]
<1>1. Detach(r) = q
  BY DEF Detach
<1>2. s \in Endpoint /\ SameTransports(r, s) /\ SameActivation(r, s) /\ SameQueue(r, s)
  BY DEF Endpoint, Statuses, SameTransports, SameActivation, SameQueue
<1>3. how \in Hows
  BY ActivationIds DEF Overs, Hows
<1> HIDE DEF s, how
<1>4. /\ e \in Endpoint /\ e.act.id = 0
      /\ SameTransports(s, e) /\ Adds(s, e) /\ Settling(s, e)
  <2>1. CASE Open(r)
    BY <1>2, <1>3, <2>1, SettledWithError
  <2>2. CASE ~Open(r)
    <3>1. e = s
      BY <2>2
    <3> HIDE DEF e
    <3>2. SameTransports(s, e) /\ SameActivation(s, e) /\ SameQueue(s, e)
      BY <3>1 DEF SameTransports, SameActivation, SameQueue
    <3>3. e.act.id = 0
      BY <1>2, <2>2, <3>1 DEF SameActivation, Open
    <3> QED BY <1>2, <3>1, <3>2, <3>3, AddsNothing, SettlingNothing
  <2> QED BY <2>1, <2>2
<1> HIDE DEF e
<1>5. Follows(r, s)
  BY <1>2, OfActivation, AddsNothing, SettlingNothing
<1>6. Follows(s, e)
  BY <1>2, <1>4, OfActivation
<1>7. d \in Endpoint /\ Follows(e, d) /\ d.act.id = 0
  <2>1. d \in Endpoint /\ SameActivation(e, d)
    BY <1>4, Dropped
  <2> QED BY <1>4, <2>1, DroppedFollows DEF SameActivation
<1> HIDE DEF d
<1>8. /\ q \in Endpoint /\ SameTransports(d, q) /\ SameQueue(d, q)
      /\ q.act = d.act /\ q.acts = d.acts /\ q.ended = d.ended
  <2>1. d \in Endpoint
    BY <1>7
  <2>2. q \in Endpoint
    <3> DEFINE st == IF d.status = "unavailable" THEN d.status ELSE "detached"
    <3>1. st \in Statuses
      BY <2>1 DEF Endpoint, Statuses
    <3>2. q = [d EXCEPT !.timer = 0, !.poison = 0, !.status = st]
      BY <2>1 DEF Endpoint
    <3> HIDE DEF st, q
    <3> QED BY <2>1, <3>1, <3>2 DEF Endpoint
  <2>3. SameTransports(d, q) /\ SameQueue(d, q)
    BY <2>1 DEF Endpoint, SameTransports, SameQueue
  <2>4. q.act = d.act /\ q.acts = d.acts /\ q.ended = d.ended
    BY <2>1 DEF Endpoint
  <2> QED BY <2>2, <2>3, <2>4
<1> HIDE DEF q
<1>9. Settling(d, q)
  BY <1>7, <1>8 DEF Settling
<1>10. Follows(d, q)
  BY <1>7, <1>8, <1>9, AddsNothing, OfActivation
<1>11. Follows(r, d)
  BY <1>2, <1>4, <1>5, <1>6, <1>7, FollowsOn
<1>12. Follows(r, q)
  BY <1>7, <1>8, <1>10, <1>11, FollowsOn
<1> QED BY <1>1, <1>12

(* Invalidate is what a handler may do.                                    *)
LEMMA InvalidateFollows == ASSUME NEW r \in Endpoint PROVE Follows(r, Invalidate(r))
<1> DEFINE busy == r.status \in Live \/ Open(r) \/ r.client # 0 \/ r.ready # 0
           d == Drop(r)
           x == [d EXCEPT !.timer = 0, !.poison = 0]
           s == SettleActivationError(x, "error")
           b == IF busy THEN s ELSE r
           q == [b EXCEPT !.status = "unavailable"]
<1>1. Invalidate(r) = q
  BY DEF Invalidate
<1>2. d \in Endpoint /\ Follows(r, d)
  BY Dropped, DroppedFollows
<1> HIDE DEF busy, d
<1>3. /\ x \in Endpoint /\ SameTransports(d, x) /\ SameQueue(d, x)
      /\ x.act = d.act /\ x.acts = d.acts /\ x.ended = d.ended
  <2>1. x \in Endpoint
    BY <1>2 DEF Endpoint
  <2>2. SameTransports(d, x) /\ SameQueue(d, x)
    BY <1>2 DEF Endpoint, SameTransports, SameQueue
  <2>3. x.act = d.act /\ x.acts = d.acts /\ x.ended = d.ended
    BY <1>2 DEF Endpoint
  <2> QED BY <2>1, <2>2, <2>3
<1> HIDE DEF x
<1>4. /\ s \in Endpoint /\ SameTransports(x, s) /\ Adds(x, s) /\ Settling(x, s) /\ s.act.id = 0
  BY <1>3, SettledWithError DEF Hows
<1> HIDE DEF s
<1>5. SameTransports(d, s)
  BY <1>3, <1>4 DEF SameTransports
<1>6. Settling(d, s)
  BY <1>3, <1>4 DEF Settling
<1>7. Adds(d, s)
  BY <1>2, <1>3, <1>4, AddsNothing, AddsOn
<1>8. Follows(d, s)
  BY <1>2, <1>4, <1>5, <1>6, <1>7, OfActivation
<1>9. b \in Endpoint /\ Follows(r, b)
  <2>1. Follows(r, s)
    BY <1>2, <1>4, <1>8, FollowsOn
  <2> QED BY <1>4, <2>1, FollowsItself
<1> HIDE DEF b
<1>10. q \in Endpoint /\ SameTransports(b, q) /\ SameQueue(b, q) /\ SameActivation(b, q)
  <2>1. q \in Endpoint
    BY <1>9 DEF Endpoint, Statuses
  <2>2. SameTransports(b, q)
    BY <1>9 DEF Endpoint, SameTransports
  <2>3. SameQueue(b, q) /\ SameActivation(b, q)
    BY <1>9 DEF Endpoint, SameQueue, SameActivation
  <2> QED BY <2>1, <2>2, <2>3
<1> HIDE DEF q
<1>11. Follows(b, q)
  BY <1>9, <1>10, AddsNothing, SettlingNothing, OfActivation
<1>12. Follows(r, q)
  BY <1>9, <1>10, <1>11, FollowsOn
<1> QED BY <1>1, <1>12

(* UnexpectedExit is what a handler may do, once no start-up is current    *)
(* any more: the exit of a child is reported after it came up, or after    *)
(* its start-up failed.                                                    *)
LEMMA ExitFollows ==
    ASSUME NEW r \in Endpoint, r.cur # 0 => ~Starting(r, r.cur)
    PROVE  Follows(r, UnexpectedExit(r))
<1> DEFINE g == r.client
           noted == r.noted \cup (IF g = 0 THEN {r.ready} \ {0} ELSE {})
           d == [r EXCEPT !.client = 0, !.ready = 0, !.status = "error", !.noted = noted]
           p == Dispose(d, g)
           q == SettleActivationError(p, "error")
<1>1. UnexpectedExit(r) = q
  <2>1. d = [r EXCEPT !.client = 0, !.ready = 0, !.status = "error",
                       !.noted = @ \cup (IF g = 0 THEN {r.ready} \ {0} ELSE {})]
    BY DEF Endpoint
  <2> QED BY <2>1 DEF UnexpectedExit
<1>2. g \in Spawn \cup {0} /\ noted \in SUBSET Spawn /\ r.noted \subseteq noted
  BY DEF Endpoint
<1> HIDE DEF noted
<1>3. /\ d \in Endpoint /\ SameActivation(r, d) /\ SameQueue(r, d)
      /\ d.client = 0 /\ d.ready = 0 /\ d.noted = noted /\ d.tr = r.tr
      /\ d.cur = r.cur /\ d.spawned = r.spawned
  BY <1>2 DEF Endpoint, Statuses, SameActivation, SameQueue
<1> HIDE DEF d
<1>4. Settling(r, d) /\ Adds(r, d)
  BY <1>3, SettlingNothing, AddsNothing
<1>5. Follows(r, p)
  BY <1>2, <1>3, <1>4, LetGo
<1>6. p \in Endpoint
  BY <1>2, <1>3, Disposed
<1> HIDE DEF p
<1>7. /\ q \in Endpoint /\ SameTransports(p, q) /\ Adds(p, q) /\ Settling(p, q)
  BY <1>6, SettledWithError DEF Hows
<1>8. Follows(p, q)
  BY <1>6, <1>7, OfActivation
<1> HIDE DEF q
<1>9. Follows(r, q)
  BY <1>5, <1>6, <1>7, <1>8, FollowsOn
<1> QED BY <1>1, <1>9

(* What changes the status, the timer and what is known of the activation. *)
Marks(r, q) ==
    /\ q \in Endpoint /\ SameTransports(r, q) /\ SameQueue(r, q)
    /\ q.act.id = r.act.id /\ q.acts = r.acts /\ q.poison = r.poison /\ q.ended = r.ended

(* Such a change is what a handler may do.                                 *)
LEMMA MarksFollow == ASSUME NEW r \in Endpoint, NEW q, Marks(r, q)
                     PROVE  q \in Endpoint /\ Follows(r, q)
<1>1. Settling(r, q)
  BY DEF Marks, Settling
<1> QED BY <1>1, AddsNothing, OfActivation DEF Marks

(* The reduction of agent_settled is what a handler may do.                *)
LEMMA SettledFollows == ASSUME NEW r \in Endpoint PROVE Follows(r, Settled(r))
<1> DEFINE grokCut == plan.runtime = "grok" /\ ~r.act.done /\ r.act.over = "none"
           over == IF grokCut THEN "cancelled" ELSE r.act.over
           how == IF over \in {"none", "max_turns"} THEN "ok" ELSE over
           status == IF over = "error" THEN "error" ELSE "idle"
           t == [kind |-> "detach", only |-> "idle", id |-> 0]
           x == [r EXCEPT !.timer = 0, !.status = status]
           e == End(x, how)
           q == Settled(r)
<1>1. CASE ~Open(r)
  <2>1. Settled(r) = [r EXCEPT !.timer = 0, !.status = "idle"]
    BY <1>1 DEF Settled
  <2>2. Marks(r, Settled(r))
    BY <2>1 DEF Endpoint, Statuses, Marks, SameTransports, SameQueue
  <2> QED BY <2>2, MarksFollow
<1>2. CASE Open(r) /\ ~r.act.begun /\ r.act.over = "none"
  <2>1. Settled(r) = [r EXCEPT !.timer = 0]
    BY <1>2 DEF Settled
  <2>2. Marks(r, Settled(r))
    BY <2>1 DEF Endpoint, Marks, SameTransports, SameQueue
  <2> QED BY <2>2, MarksFollow
<1>3. CASE Open(r) /\ ~(~r.act.begun /\ r.act.over = "none")
  <2>1. q \in {e, Enqueue(e, t)}
    BY <1>3 DEF Settled
  <2>2. how \in Hows /\ status \in Statuses
    BY ActivationIds DEF Overs, Hows, Statuses
  <2> HIDE DEF q, how, status
  <2>3. Marks(r, x)
    BY <2>2 DEF Endpoint, Marks, SameTransports, SameQueue
  <2>4. x \in Endpoint /\ Follows(r, x) /\ Open(x)
    BY <1>3, <2>3, MarksFollow DEF Marks, Open
  <2> HIDE DEF x
  <2>5. /\ e \in Endpoint /\ SameTransports(x, e) /\ Adds(x, e) /\ Settling(x, e)
    BY <2>2, <2>4, Ended
  <2> HIDE DEF e
  <2>6. Follows(x, e)
    BY <2>4, <2>5, OfActivation
  <2>7. Follows(r, e)
    BY <2>4, <2>5, <2>6, FollowsOn
  <2>8. Follows(e, Enqueue(e, t)) /\ Enqueue(e, t) \in Endpoint
    <3>1. t \in OwnTask
      BY DEF OwnTask, DetachTask
    <3> HIDE DEF t
    <3> QED BY <2>5, <3>1, OwnAppended, SettlingNothing, OfActivation
  <2>9. Follows(r, Enqueue(e, t))
    BY <2>5, <2>7, <2>8, FollowsOn
  <2> QED BY <2>1, <2>7, <2>9 DEF q
<1> QED BY <1>1, <1>2, <1>3

(* Stop is what a handler may do.                                          *)
LEMMA StoppedFollows == ASSUME NEW r \in Endpoint, NEW g \in Spawn \cup {0}
                        PROVE  Stop(r, g) \in Endpoint /\ Follows(r, Stop(r, g))
<1> DEFINE q == Stop(r, g)
<1>1. /\ q \in Endpoint
      /\ SameActivation(r, q) /\ SameQueue(r, q)
      /\ q.client = r.client /\ q.ready = r.ready /\ q.cur = r.cur /\ q.spawned = r.spawned
      /\ q.noted = r.noted
      /\ \A h \in Spawn :
                /\ q.tr[h].stage = r.tr[h].stage
                /\ q.tr[h].pipe = r.tr[h].pipe
                /\ q.tr[h].child = r.tr[h].child
  BY Stopped
<1> HIDE DEF q
<1>2. Settling(r, q) /\ Adds(r, q)
  BY <1>1, SettlingNothing, AddsNothing
<1>3. Carries(r, q, 0)
  BY <1>1, <1>2, CarriesOfAdds
<1>4. \A h \in Spawn : SeesExit(q, h) => SeesExit(r, h)
  BY <1>1, <1>2, ExitsKept
<1>5. r.client \in Spawn \cup {0}
  BY DEF Endpoint
<1>6. Lowers(r, q)
  BY <1>1, <1>4, <1>5 DEF Lowers
<1> QED BY <1>1, <1>2, <1>3, <1>6 DEF Follows, Handles, q

(* So is the reduction of every other event.                               *)
LEMMA ReduceFollows ==
    ASSUME NEW r \in Endpoint, NEW ev \in EventKinds \ {"exit"}
    PROVE  Follows(r, Reduce(r, ev))
<1> DEFINE q == Reduce(r, ev)
<1>0. r.act \in Activation
  BY ActivationIds
<1>1. CASE ev = "start"
  <2> DEFINE act == [r.act EXCEPT !.begun = r.act.begun \/ Open(r)]
  <2>1. act \in Activation /\ act.id = r.act.id
    BY <1>0 DEF Activation, Open
  <2>2. q = [r EXCEPT !.status = "running", !.act = act]
    BY <1>1 DEF Reduce, Endpoint
  <2> HIDE DEF act, q
  <2>3. Marks(r, q)
    BY <2>1, <2>2 DEF Endpoint, Statuses, Marks, SameTransports, SameQueue
  <2> QED BY <2>3, MarksFollow DEF q
<1>2. CASE ev = "completed"
  <2> DEFINE act == [r.act EXCEPT !.done = r.act.done \/ Open(r)]
  <2>1. act \in Activation /\ act.id = r.act.id
    BY <1>0 DEF Activation, Open
  <2>2. q = [r EXCEPT !.act = act]
    BY <1>2 DEF Reduce, Endpoint
  <2> HIDE DEF act, q
  <2>3. Marks(r, q)
    BY <2>1, <2>2 DEF Endpoint, Statuses, Marks, SameTransports, SameQueue
  <2> QED BY <2>3, MarksFollow DEF q
<1>3. CASE ev = "failed"
  <2> DEFINE act == [r.act EXCEPT !.over = IF Open(r) THEN "error" ELSE r.act.over]
  <2>1. act \in Activation /\ act.id = r.act.id
    BY <1>0 DEF Activation, Overs, Open
  <2>2. q = [r EXCEPT !.status = "error", !.act = act]
    BY <1>3 DEF Reduce, Endpoint
  <2> HIDE DEF act, q
  <2>3. Marks(r, q)
    BY <2>1, <2>2 DEF Endpoint, Statuses, Marks, SameTransports, SameQueue
  <2> QED BY <2>3, MarksFollow DEF q
<1>4. CASE ev = "turns"
  <2> DEFINE act == [r.act EXCEPT !.over = "max_turns"]
             x == [r EXCEPT !.act = act]
  <2>1. act \in Activation /\ act.id = r.act.id
    BY <1>0 DEF Activation, Overs
  <2>2. q = IF Open(r) /\ r.act.over = "none" THEN Stop(x, r.client) ELSE r
    BY <1>4 DEF Reduce, Endpoint
  <2> HIDE DEF act, q
  <2>3. Marks(r, x) /\ r.client \in Spawn \cup {0}
    BY <2>1 DEF Endpoint, Statuses, Marks, SameTransports, SameQueue
  <2>4. x \in Endpoint /\ Follows(r, x)
    BY <2>3, MarksFollow
  <2> HIDE DEF x
  <2>5. Stop(x, r.client) \in Endpoint /\ Follows(x, Stop(x, r.client))
    BY <2>3, <2>4, StoppedFollows
  <2>6. Follows(r, Stop(x, r.client))
    BY <2>4, <2>5, FollowsOn
  <2> QED BY <2>2, <2>6, FollowsItself DEF q
<1>5. CASE ev = "settled"
  BY <1>5, SettledFollows DEF Reduce
<1> QED BY <1>1, <1>2, <1>3, <1>4, <1>5 DEF EventKinds

(* What an abort does, by whether there is a child to tell.                *)
AbortTold(r) ==
    Stop([r EXCEPT !.act.over = IF Open(r) /\ @ = "none" THEN "cancelled" ELSE @,
                   !.timer = IF Open(r) THEN r.act.id ELSE @], r.client)
AbortGone(r) == Drop([r EXCEPT !.act.over = "cancelled", !.timer = 0])
AbortSettled(r) ==
    SettleActivationError([AbortGone(r) EXCEPT !.status =
                              IF @ \in {"starting", "registered"} THEN "detached" ELSE @], "cancelled")

(* An abort that tells the child is what a handler may do.                 *)
LEMMA AbortToldFollows == ASSUME NEW r \in Endpoint PROVE Follows(r, AbortTold(r))
<1> DEFINE act == [r.act EXCEPT !.over = IF Open(r) /\ @ = "none" THEN "cancelled" ELSE @]
           timer == IF Open(r) THEN r.act.id ELSE r.timer
           x == [r EXCEPT !.act = act, !.timer = timer]
<1>1. act \in Activation /\ act.id = r.act.id /\ timer \in Act \cup {0}
  BY ActivationIds DEF Activation, Overs, Endpoint
<1>2. AbortTold(r) = Stop(x, r.client)
  <2>1. x = [r EXCEPT !.act.over = IF Open(r) /\ @ = "none" THEN "cancelled" ELSE @,
                      !.timer = IF Open(r) THEN r.act.id ELSE @]
    BY DEF Endpoint
  <2> QED BY <2>1 DEF AbortTold
<1> HIDE DEF act, timer
<1>3. Marks(r, x) /\ r.client \in Spawn \cup {0}
  BY <1>1 DEF Endpoint, Marks, SameTransports, SameQueue
<1>4. x \in Endpoint /\ Follows(r, x)
  BY <1>3, MarksFollow
<1> HIDE DEF x
<1>5. Stop(x, r.client) \in Endpoint /\ Follows(x, Stop(x, r.client))
  BY <1>3, <1>4, StoppedFollows
<1> QED BY <1>2, <1>4, <1>5, FollowsOn

(* So is one that drops the start-up and settles the activation.           *)
LEMMA AbortSettledFollows == ASSUME NEW r \in Endpoint PROVE Follows(r, AbortSettled(r))
<1> DEFINE act == [r.act EXCEPT !.over = "cancelled"]
           x == [r EXCEPT !.act = act, !.timer = 0]
           d == Drop(x)
           s == [d EXCEPT !.status = IF @ \in {"starting", "registered"} THEN "detached" ELSE @]
           q == SettleActivationError(s, "cancelled")
<1>1. act \in Activation /\ act.id = r.act.id
  BY ActivationIds DEF Activation, Overs
<1>2. AbortSettled(r) = q
  <2>1. x = [r EXCEPT !.act.over = "cancelled", !.timer = 0]
    BY DEF Endpoint
  <2> HIDE DEF x
  <2> QED BY <2>1 DEF AbortSettled, AbortGone
<1> HIDE DEF act
<1>3. Marks(r, x)
  BY <1>1 DEF Endpoint, Marks, SameTransports, SameQueue
<1>4. x \in Endpoint /\ Follows(r, x)
  BY <1>3, MarksFollow
<1> HIDE DEF x
<1>5. d \in Endpoint /\ Follows(x, d)
  BY <1>4, Dropped, DroppedFollows
<1> HIDE DEF d
<1>6. Marks(d, s)
  BY <1>5 DEF Endpoint, Statuses, Marks, SameTransports, SameQueue
<1>7. s \in Endpoint /\ Follows(d, s)
  BY <1>5, <1>6, MarksFollow
<1> HIDE DEF s
<1>8. q \in Endpoint /\ Follows(s, q)
  BY <1>7, SettledWithError, OfActivation DEF Hows
<1> HIDE DEF q
<1>9. Follows(r, d)
  BY <1>4, <1>5, FollowsOn
<1>10. Follows(r, s)
  BY <1>5, <1>7, <1>9, FollowsOn
<1> QED BY <1>2, <1>7, <1>8, <1>10, FollowsOn

(* A task is taken from the queue.                                         *)
LEMMA Popped == ASSUME NEW r \in Endpoint, r.queue # <<>>
                PROVE  Pop(r) \in Endpoint /\ Handles(r, Pop(r), 1)
<1> DEFINE q == Pop(r)
<1>1. /\ Tail(r.queue) \in Seq(Task) /\ r.queue \in Seq(Task)
      /\ DOMAIN Tail(r.queue) = 1..(Len(r.queue) - 1)
      /\ \A i \in DOMAIN Tail(r.queue) : Tail(r.queue)[i] = r.queue[i + 1]
      /\ Len(r.queue) \in Nat /\ DOMAIN r.queue = 1..Len(r.queue)
  BY QueueDomain
<1>2. q = [r EXCEPT !.queue = Tail(r.queue)]
  BY DEF Pop, Endpoint
<1> HIDE DEF q
<1>3. /\ q \in Endpoint /\ q.queue = Tail(r.queue)
      /\ SameTransports(r, q) /\ SameActivation(r, q)
  BY <1>1, <1>2 DEF Endpoint, SameTransports, SameActivation
<1>4. \A i \in DOMAIN q.queue : i + 1 \in DOMAIN r.queue /\ q.queue[i] = r.queue[i + 1]
  BY <1>1, <1>3
<1>5. Carries(r, q, 1)
  BY <1>4 DEF Carries
<1>6. \A g \in Spawn : SeesExit(q, g) => SeesExit(r, g)
  BY <1>3, <1>4 DEF SeesExit, SameTransports
<1>7. Lowers(r, q)
  BY <1>3, <1>6 DEF Lowers, SameTransports
<1> QED BY <1>3, <1>5, <1>7, SettlingNothing DEF Handles, q

-----------------------------------------------------------------------------
(* What follows an endpoint keeps what holds of its transports.            *)

(* What is said of the transports.                                         *)
Transports == Stepwise /\ Leased /\ Installed /\ Drained

(* A handler that starts no transport keeps what is said of them.          *)
LEMMA TransportsKept ==
    ASSUME Typed, Transports, reg' \in Endpoint, Lowers(reg, reg'), lease' = lease,
           shut' = shut \/ (shut = "no" /\ shut' = "draining" /\ reg'.client = 0),
           at'.step = "spawn" => at.step = "spawn" \/ (reg'.client = 0 /\ reg'.ready = 0)
    PROVE  Transports'
<1>0. /\ reg.client \in Spawn \cup {0} /\ reg'.client \in Spawn \cup {0}
      /\ reg.cur \in Spawn \cup {0} /\ reg'.cur \in Spawn \cup {0}
      /\ Spawn \subseteq Nat \ {0}
  BY Numbers DEF Typed, Endpoint
<1>1. /\ reg'.spawned = reg.spawned
      /\ reg'.client \in {reg.client, 0}
      /\ reg'.ready \in {reg.ready, 0}
      /\ reg'.cur \in {reg.cur, 0}
      /\ reg.noted \subseteq reg'.noted
      /\ reg.client # 0 /\ reg'.client = 0 => reg'.tr[reg.client].child \notin {"live", "exited"}
      /\ reg'.client # 0 =>
           reg'.tr[reg'.client].child = reg.tr[reg'.client].child /\ reg'.cur = reg.cur
      /\ reg'.cur # 0 /\ Starting(reg', reg'.cur) => reg'.ready = reg.ready
  BY DEF Lowers
<1>2. \A g \in Spawn :
         /\ \/ reg'.tr[g].stage = reg.tr[g].stage
            \/ reg.tr[g].stage = "shake" /\ reg'.tr[g].stage = "cut"
         /\ \/ reg'.tr[g].child = reg.tr[g].child
            \/ reg.tr[g].child \in {"live", "exited"} /\ reg'.tr[g].child = "disposing" /\ g \in reg'.noted
         /\ SeesExit(reg', g) => SeesExit(reg, g)
  BY DEF Lowers
<1>3. Stepwise'
  <2>1. ASSUME NEW g \in Spawn
        PROVE  /\ g > reg'.spawned => reg'.tr[g].stage = "none"
               /\ reg'.tr[g].stage \in {"none", "barrier", "lease", "factory"} => reg'.tr[g].child = "none"
               /\ reg'.tr[g].stage \in {"shake", "cut", "up"} => reg'.tr[g].child # "none"
               /\ reg'.tr[g].stage = "lost" => reg'.tr[g].child \notin {"live", "exited"}
               /\ SeesExit(reg', g) => reg'.tr[g].child \notin {"none", "live"}
    BY <1>1, <1>2 DEF Transports, Stepwise
  <2> QED BY <2>1 DEF Stepwise
<1>4. \A g \in Spawn : (Claims(g)' <=> Claims(g)) /\ (reg'.tr[g].child = "stuck" <=> reg.tr[g].child = "stuck")
  BY <1>2 DEF Claims
<1>5. Leased'
  <2>1. \A g \in Spawn : Claims(g)' => lease'.holder = g \/ lease'.stuck
    BY <1>4 DEF Transports, Leased
  <2>2. \A g, h \in Spawn : Claims(g)' /\ Claims(h)' => g = h
    BY <1>4 DEF Transports, Leased
  <2>3. \A g \in Spawn : lease'.holder = g =>
          reg'.tr[g].stage = "factory" \/ reg'.tr[g].child \in {"live", "exited", "disposing"}
    BY <1>2 DEF Transports, Leased
  <2>4. \A g \in Spawn : Claims(g)' /\ reg'.tr[g].child # "stuck" /\ shut' # "failed" => lease'.holder = g
    BY <1>4 DEF Transports, Leased
  <2> QED BY <2>1, <2>2, <2>3, <2>4 DEF Leased
<1>6. Installed'
  <2>1. ASSUME reg'.client # 0
        PROVE  /\ reg'.tr[reg'.client].stage = "up"
               /\ reg'.tr[reg'.client].child \in {"live", "exited"}
               /\ reg'.client = reg'.cur
    <3>1. reg'.client = reg.client /\ reg.client \in Spawn
      BY <1>0, <1>1, <2>1
    <3>2. reg'.tr[reg.client].child = reg.tr[reg.client].child /\ reg'.cur = reg.cur
      BY <1>1, <2>1, <3>1
    <3>3. /\ reg.tr[reg.client].stage = "up"
          /\ reg.tr[reg.client].child \in {"live", "exited"}
          /\ reg.client = reg.cur
      BY <3>1, <2>1 DEF Transports, Installed
    <3>4. reg'.tr[reg.client].stage = "up"
      BY <1>2, <3>1, <3>3
    <3> QED BY <3>1, <3>2, <3>3, <3>4
  <2>2. \A g \in Spawn :
         reg'.tr[g].stage = "up" /\ reg'.tr[g].child \in {"live", "exited"} => g = reg'.client
    BY <1>0, <1>1, <1>2 DEF Transports, Installed
  <2>3. \A g \in Spawn : reg'.cur = g /\ Starting(reg', g) => reg'.ready = g
    <3>1. \A g \in Spawn : Starting(reg', g) => Starting(reg, g)
      BY <1>2 DEF Starting
    <3> QED BY <1>0, <1>1, <3>1 DEF Transports, Installed
  <2>4. \A g \in Spawn : reg'.tr[g].child = "disposing" /\ ~Gone' => g \in reg'.noted
    BY <1>1, <1>2 DEF Transports, Installed, Gone
  <2>5. at'.step = "spawn" => reg'.client = 0 /\ reg'.ready = 0
    BY <1>1 DEF Transports, Installed
  <2> QED BY <2>1, <2>2, <2>3, <2>4, <2>5 DEF Installed
<1>7. Drained'
  BY <1>1, <1>2 DEF Transports, Drained
<1> QED BY <1>3, <1>5, <1>6, <1>7 DEF Transports

(* A handler that settles at most the open activation keeps what is said   *)
(* of activations.                                                         *)
LEMMA OnceKept ==
    ASSUME Typed, Once, reg' \in Endpoint, Settling(reg, reg')
    PROVE  Once'
<1>1. reg.act.id \in Act \cup {0} /\ reg'.act.id \in Act \cup {0} /\ Act \subseteq Nat \ {0}
      /\ reg.acts \in Act \cup {0}
  BY ActivationIds, Numbers DEF Typed
<1>2. reg'.act.id # 0 => reg'.act.id = reg'.acts /\ reg'.ended[reg'.act.id] = "no"
  BY <1>1 DEF Once, Settling
<1>3. \A i \in Act : i > reg'.acts => reg'.ended[i] = "no"
  BY <1>1 DEF Once, Settling
<1>4. \A i \in Act : reg'.ended[i] # "twice"
  BY <1>1 DEF Once, Settling
<1> QED BY <1>2, <1>3, <1>4 DEF Once

-----------------------------------------------------------------------------
(* Calls and queues.                                                       *)

(* What is said of the calls and of both queues.                           *)
Calls == Counted /\ Queued /\ Outgoing /\ Poisoned

(* The types of what a call has and of the queues.                         *)
LEMMA CallTyped ==
    ASSUME Typed
    PROVE  /\ call \in [Call -> CallState]
           /\ \A c \in Call : /\ call[c] \in CallState
                              /\ call[c].pc \in BeforePcs \cup PastPcs
                              /\ call[c].id \in Act \cup {0} /\ call[c].id \in Nat
                              /\ call[c].mode \in {"none", "steer", "prompt"}
                              /\ call[c].via \in Spawn \cup {0}
           /\ reg \in Endpoint /\ reg.acts \in Nat /\ reg.spawned \in Nat
           /\ reg.queue \in Seq(Task) /\ DOMAIN reg.queue = 1..Len(reg.queue)
           /\ Len(reg.queue) \in Nat
           /\ outq \in Seq(Call) /\ DOMAIN outq = 1..Len(outq) /\ Len(outq) \in Nat
           /\ \A i \in DOMAIN outq : outq[i] \in Call
<1>1. call \in [Call -> CallState] /\ reg \in Endpoint /\ outq \in Seq(Call)
  BY DEF Typed
<1>2. \A c \in Call : call[c] \in CallState
  BY <1>1
<1>3. ASSUME NEW c \in Call
      PROVE  /\ call[c].pc \in BeforePcs \cup PastPcs
             /\ call[c].id \in Act \cup {0} /\ call[c].id \in Nat
             /\ call[c].mode \in {"none", "steer", "prompt"}
             /\ call[c].via \in Spawn \cup {0}
  BY <1>2, Numbers DEF CallState
<1>4. reg.acts \in Nat /\ reg.spawned \in Nat
  BY <1>1, Numbers DEF Endpoint
<1>5. DOMAIN outq = 1..Len(outq) /\ Len(outq) \in Nat /\ \A i \in DOMAIN outq : outq[i] \in Call
  BY <1>1
<1> QED BY <1>1, <1>2, <1>3, <1>4, <1>5, QueueDomain

(* The types of what a task has.                                           *)
LEMMA Tasks ==
    ASSUME NEW r \in Endpoint
    PROVE  \A i \in DOMAIN r.queue :
             /\ r.queue[i] \in Task
             /\ r.queue[i].kind \in {"prep", "accept", "fail"} => r.queue[i].c \in Call
             /\ r.queue[i].kind \in {"prep", "accept", "fail"} \/ Quiet(r.queue[i])
             /\ r.queue[i].kind = "fail" => r.queue[i].cause \in Causes
             /\ r.queue[i].kind = "event" => /\ r.queue[i].g \in Spawn
                                             /\ r.queue[i].ev \in EventKinds
                                             /\ r.queue[i].told \in SUBSET Act
<1>1. ASSUME NEW t \in Task
      PROVE  /\ t.kind \in {"prep", "accept", "fail"} => t.c \in Call
             /\ t.kind \in {"prep", "accept", "fail"} \/ Quiet(t)
             /\ t.kind = "fail" => t.cause \in Causes
             /\ t.kind = "event" => t.g \in Spawn /\ t.ev \in EventKinds /\ t.told \in SUBSET Act
  BY <1>1 DEF Task, PrepTask, AcceptTask, FailTask, EventTask, OwnTask, AbortTask, DetachTask,
              RetainTask, Quiet
<1>2. \A i \in DOMAIN r.queue : r.queue[i] \in Task
  BY QueueDomain
<1> QED BY <1>1, <1>2

(* The calls that are past their first transition.                         *)
LEMMA PastCounts ==
    /\ Cardinality(Past) \in Nat /\ Cardinality(Past) <= Cardinality(Call)
    /\ \A c \in Call : c \notin Past => Cardinality(Past) < Cardinality(Call)
<1>1. IsFiniteSet(Call) /\ Past \subseteq Call
  BY CallsAreFinite DEF Past
<1>2. IsFiniteSet(Past) /\ Cardinality(Past) \in Nat /\ Cardinality(Past) <= Cardinality(Call)
  BY <1>1, FS_Subset, FS_CardinalityType
<1>3. ASSUME NEW c \in Call, c \notin Past PROVE Cardinality(Past) < Cardinality(Call)
  <2>1. Past \cup {c} \subseteq Call
    BY <1>1, <1>3
  <2>2. Cardinality(Past \cup {c}) = Cardinality(Past) + 1
    BY <1>2, <1>3, FS_AddElement
  <2>3. Cardinality(Past \cup {c}) <= Cardinality(Call)
    BY <1>1, <2>1, FS_Subset
  <2> QED BY <1>2, <1>1, <2>2, <2>3, FS_CardinalityType
<1> QED BY <1>2, <1>3

(* A call that was not yet past, and is now.                               *)
LEMMA PastGrows ==
    ASSUME Past \subseteq Past'
    PROVE  /\ Cardinality(Past') \in Nat
           /\ Cardinality(Past) <= Cardinality(Past')
           /\ \A c \in Call : c \in Past' /\ c \notin Past => Cardinality(Past) + 1 <= Cardinality(Past')
<1>1. IsFiniteSet(Call) /\ Past \subseteq Call /\ Past' \subseteq Call
  BY CallsAreFinite DEF Past
<1>2. IsFiniteSet(Past) /\ IsFiniteSet(Past')
  BY <1>1, FS_Subset
<1>3. Cardinality(Past) \in Nat /\ Cardinality(Past') \in Nat /\ Cardinality(Past) <= Cardinality(Past')
  BY <1>2, FS_Subset, FS_CardinalityType
<1>4. ASSUME NEW c \in Call, c \in Past', c \notin Past
      PROVE  Cardinality(Past) + 1 <= Cardinality(Past')
  <2>1. Past \cup {c} \subseteq Past'
    BY <1>4
  <2>2. Cardinality(Past \cup {c}) = Cardinality(Past) + 1
    BY <1>2, <1>4, FS_AddElement
  <2>3. Cardinality(Past \cup {c}) <= Cardinality(Past')
    BY <1>2, <2>1, FS_Subset
  <2> QED BY <1>3, <2>2, <2>3
<1> QED BY <1>3, <1>4

(* More calls are past their first transition, and no more activations or  *)
(* spawns than before.                                                     *)
LEMMA CountedMore ==
    ASSUME Typed, Counted, reg'.acts = reg.acts, reg'.spawned = reg.spawned,
           Past \subseteq Past',
           at.step = "spawn" => at'.step = "spawn" \/ \E c \in Call : c \in Past' /\ c \notin Past
    PROVE  Counted'
<1>1. reg.acts \in Nat /\ reg.spawned \in Nat /\ Cardinality(Past) \in Nat
  BY CallTyped, PastCounts
<1>2. /\ Cardinality(Past') \in Nat /\ Cardinality(Past) <= Cardinality(Past')
      /\ \A c \in Call : c \in Past' /\ c \notin Past => Cardinality(Past) + 1 <= Cardinality(Past')
  BY PastGrows
<1>3. reg.acts <= Cardinality(Past) + (IF at.step = "spawn" THEN 1 ELSE 0) /\ reg.spawned <= Cardinality(Past)
  BY DEF Counted
<1>4. reg.acts <= Cardinality(Past') + (IF at'.step = "spawn" THEN 1 ELSE 0)
  <2>1. CASE at.step = "spawn" /\ at'.step # "spawn"
    BY <1>1, <1>2, <1>3, <2>1
  <2>2. CASE at.step # "spawn" \/ at'.step = "spawn"
    BY <1>1, <1>2, <1>3, <2>2
  <2> QED BY <2>1, <2>2
<1>5. reg.spawned <= Cardinality(Past')
  BY <1>1, <1>2, <1>3
<1>6. Cardinality(Past') = Cardinality(Past)'
  OBVIOUS
<1> QED BY <1>4, <1>5 DEF Counted

(* A call changes, and no task of it stays in the queue; one may be added  *)
(* at the end.                                                             *)
Fits(t, c) ==
    /\ Concerns(t, c)
    /\ t.kind = "prep" => call'[c].pc = "prep"
    /\ t.kind \in {"accept", "fail"} => call'[c].pc = "end"

(* No task of call c is left in the queue, but the one that may be added   *)
(* at its end; shift is 1 where the first task was taken from it.          *)
Requeues(c, shift) ==
    \A i \in DOMAIN reg'.queue :
        \/ Quiet(reg'.queue[i])
        \/ /\ i + shift \in DOMAIN reg.queue
           /\ reg'.queue[i] = reg.queue[i + shift] /\ ~Concerns(reg.queue[i + shift], c)
        \/ i = Len(reg'.queue) /\ Fits(reg'.queue[i], c)

(* The other calls stay as they are.                                       *)
Others(c) == \A d \in Call \ {c} : call'[d] = call[d]

(* A call goes on: its one task stays its only one.                        *)
LEMMA QueuedStep ==
    ASSUME Typed, Queued, reg' \in Endpoint, NEW c \in Call, NEW shift \in {0, 1},
           Others(c), Requeues(c, shift)
    PROVE  Queued'
<1>0. /\ DOMAIN reg'.queue = 1..Len(reg'.queue) /\ Len(reg'.queue) \in Nat
      /\ DOMAIN reg.queue = 1..Len(reg.queue) /\ Len(reg.queue) \in Nat
  BY CallTyped, QueueDomain
<1>1. ASSUME NEW i \in DOMAIN reg'.queue
      PROVE  /\ reg'.queue[i].kind = "prep" => call'[reg'.queue[i].c].pc = "prep"
             /\ reg'.queue[i].kind \in {"accept", "fail"} => call'[reg'.queue[i].c].pc = "end"
  <2>1. CASE Quiet(reg'.queue[i])
    BY <2>1 DEF Quiet
  <2>2. CASE /\ i + shift \in DOMAIN reg.queue
             /\ reg'.queue[i] = reg.queue[i + shift] /\ ~Concerns(reg.queue[i + shift], c)
    <3> DEFINE t == reg.queue[i + shift]
    <3>1. /\ t.kind = "prep" => call[t.c].pc = "prep"
          /\ t.kind \in {"accept", "fail"} => call[t.c].pc = "end"
      BY <2>2 DEF Queued
    <3>2. t.kind \in {"prep", "accept", "fail"} => t.c \in Call
      BY <2>2, CallTyped, Tasks
    <3>3. t.kind \in {"prep", "accept", "fail"} => call'[t.c] = call[t.c]
      BY <2>2, <3>2 DEF Concerns, Others
    <3> QED BY <2>2, <3>1, <3>3
  <2>3. CASE Fits(reg'.queue[i], c)
    BY <2>3 DEF Fits, Concerns
  <2> QED BY <2>1, <2>2, <2>3 DEF Requeues
<1>2. ASSUME NEW i \in DOMAIN reg'.queue, NEW j \in DOMAIN reg'.queue, NEW d \in Call,
             Concerns(reg'.queue[i], d), Concerns(reg'.queue[j], d)
      PROVE  i = j
  <2>1. ASSUME NEW k \in DOMAIN reg'.queue, Concerns(reg'.queue[k], d)
        PROVE  IF d = c THEN k = Len(reg'.queue)
               ELSE k + shift \in DOMAIN reg.queue /\ reg'.queue[k] = reg.queue[k + shift]
    BY <2>1 DEF Requeues, Quiet, Concerns, Fits
  <2>2. CASE d = c
    BY <1>2, <2>1, <2>2
  <2>3. CASE d # c
    <3>1. /\ i + shift \in DOMAIN reg.queue /\ reg'.queue[i] = reg.queue[i + shift]
          /\ j + shift \in DOMAIN reg.queue /\ reg'.queue[j] = reg.queue[j + shift]
      BY <1>2, <2>1, <2>3
    <3>2. i + shift = j + shift
      BY <1>2, <3>1 DEF Queued
    <3> QED BY <1>0, <3>2
  <2> QED BY <2>2, <2>3
<1> QED BY <1>1, <1>2 DEF Queued

(* No call goes on.                                                        *)
LEMMA QueuedKept ==
    ASSUME Typed, Queued, reg' \in Endpoint, NEW shift \in {0, 1}, call' = call,
           Carries(reg, reg', shift)
    PROVE  Queued'
<1>0. /\ DOMAIN reg'.queue = 1..Len(reg'.queue) /\ Len(reg'.queue) \in Nat
      /\ DOMAIN reg.queue = 1..Len(reg.queue) /\ Len(reg.queue) \in Nat
  BY CallTyped, QueueDomain
<1>1. ASSUME NEW i \in DOMAIN reg'.queue
      PROVE  /\ reg'.queue[i].kind = "prep" => call'[reg'.queue[i].c].pc = "prep"
             /\ reg'.queue[i].kind \in {"accept", "fail"} => call'[reg'.queue[i].c].pc = "end"
  BY DEF Carries, Quiet, Queued
<1>2. ASSUME NEW i \in DOMAIN reg'.queue, NEW j \in DOMAIN reg'.queue, NEW d \in Call,
             Concerns(reg'.queue[i], d), Concerns(reg'.queue[j], d)
      PROVE  i = j
  <2>1. /\ i + shift \in DOMAIN reg.queue /\ reg'.queue[i] = reg.queue[i + shift]
        /\ j + shift \in DOMAIN reg.queue /\ reg'.queue[j] = reg.queue[j + shift]
    BY <1>2 DEF Carries, Quiet, Concerns
  <2>2. i + shift = j + shift
    BY <1>2, <2>1 DEF Queued
  <2> QED BY <1>0, <2>2
<1> QED BY <1>1, <1>2 DEF Queued

(* A failure that waits was waiting.                                       *)
LEMMA FailedBefore ==
    ASSUME Typed, reg' \in Endpoint, NEW shift \in {0, 1}, NEW c \in Call, Requeues(c, shift),
           NEW d \in Call, d # c, call'[d] = call[d], FailedCall(d)'
    PROVE  FailedCall(d)
<1>1. CASE call'[d].pc = "err"
  BY <1>1 DEF FailedCall
<1>2. ASSUME NEW i \in DOMAIN reg'.queue, reg'.queue[i].kind = "fail", reg'.queue[i].c = d
      PROVE  FailedCall(d)
  <2>1. i + shift \in DOMAIN reg.queue /\ reg'.queue[i] = reg.queue[i + shift]
    BY <1>2 DEF Requeues, Quiet, Fits, Concerns
  <2> QED BY <1>2, <2>1 DEF FailedCall
<1> QED BY <1>1, <1>2 DEF FailedCall

(* A handler that adds no task of a call keeps what is said of the calls.  *)
LEMMA CallsKept ==
    ASSUME Typed, Calls, reg' \in Endpoint, NEW shift \in {0, 1}, call' = call, outq' = outq,
           Carries(reg, reg', shift), Settling(reg, reg') \/ Gone',
           reg'.acts = reg.acts, reg'.spawned = reg.spawned,
           Gone => Gone', at'.step = "spawn" <=> at.step = "spawn"
    PROVE  Calls'
<1>1. Counted'
  <2>1. Past \subseteq Past'
    BY DEF Past
  <2> QED BY <2>1, CountedMore DEF Calls
<1>2. Queued'
  BY QueuedKept DEF Calls
<1>3. Outgoing'
  BY DEF Calls, Outgoing
<1>4. ASSUME NEW d \in Call, FailedCall(d)' PROVE FailedCall(d)
  BY <1>4 DEF FailedCall, Carries, Quiet
<1>5. Poisoned'
  <2>1. ASSUME NEW d \in Call, FailedCall(d)'
        PROVE  /\ reg'.act.id = call'[d].id /\ ~Gone' => reg'.poison = call'[d].id
               /\ \A c \in Call : call'[c].id = call'[d].id => call'[c].pc \notin {"ready", "write", "rpc"}
    <3>1. FailedCall(d)
      BY <1>4, <2>1
    <3>2. call[d].id # 0
      BY <3>1, CallTyped DEF FailedCall, Calls, Outgoing
    <3> QED BY <3>1, <3>2 DEF Calls, Poisoned, Settling
  <2> QED BY <2>1 DEF Poisoned
<1> QED BY <1>1, <1>2, <1>3, <1>5 DEF Calls

(* A call that is not sent yet asks for its transition, gives up or is     *)
(* rejected.                                                               *)
LEMMA EarlyCall ==
    ASSUME Typed, Calls, reg' \in Endpoint, NEW shift \in {0, 1}, NEW c \in Call, Others(c),
           outq' = outq, Requeues(c, shift), Settling(reg, reg'), reg'.spawned = reg.spawned \/ Counted',
           Gone' = Gone, call[c].pc \in BeforePcs,
           call'[c].pc \in {"peek", "linger", "prep", "err"}, call'[c].mode = "none",
           call'[c].pc = "peek" => call'[c].via # 0,
           at.step = "spawn" => at'.step = "spawn" \/ call'[c].pc = "err"
    PROVE  Calls'
<1>1. Past \subseteq Past' /\ c \notin Past /\ (call'[c].pc = "err" => c \in Past')
  <2>1. c \notin Past
    BY DEF Past, BeforePcs, PastPcs, OutPcs
  <2>2. \A d \in Past : d \in Past'
    BY <2>1 DEF Past, Others
  <2>3. call'[c].pc = "err" => c \in Past'
    BY DEF Past, PastPcs
  <2> QED BY <2>1, <2>2, <2>3
<1>2. Counted'
  <2>1. ASSUME reg'.spawned = reg.spawned PROVE Counted'
    BY <1>1, <2>1, CountedMore DEF Calls, Settling
  <2> QED BY <2>1
<1>3. Queued'
  BY QueuedStep DEF Calls
<1>4. \A i \in DOMAIN outq : outq[i] \in Call \ {c} /\ call'[outq[i]] = call[outq[i]]
  <2>1. \A i \in DOMAIN outq : outq[i] # c /\ outq[i] \in Call
    BY CallTyped DEF Calls, Outgoing, BeforePcs, OutPcs
  <2> QED BY <2>1 DEF Others
<1>5. Outgoing'
  <2>0. Outgoing /\ reg'.acts = reg.acts
    BY DEF Calls, Settling
  <2>1. ASSUME NEW d \in Call
        PROVE  /\ call'[d].pc \in BeforePcs => call'[d].mode = "none"
               /\ call'[d].pc \in OutPcs \cup {"end"} => call'[d].mode # "none"
               /\ call'[d].mode # "none" => call'[d].id \in 1..reg'.acts
               /\ call'[d].mode # "none" => call'[d].via # 0
               /\ call'[d].pc = "peek" => call'[d].via # 0
               /\ call'[d].pc \in OutPcs => \E i \in DOMAIN outq : outq[i] = d
               /\ call'[d].pc \in OutPcs \ {"out"} => outq[1] = d
    <3>1. CASE d = c
      BY <3>1 DEF OutPcs, BeforePcs
    <3>2. CASE d # c
      <4>1. call'[d] = call[d]
        BY <3>2 DEF Others
      <4> QED BY <2>0, <4>1 DEF Outgoing
    <3> QED BY <3>1, <3>2
  <2>2. \A i \in DOMAIN outq : call'[outq[i]].pc \in OutPcs
    BY <2>0, <1>4 DEF Outgoing
  <2>3. \A i, j \in DOMAIN outq : i < j => call'[outq[i]].id <= call'[outq[j]].id
    BY <2>0, <1>4 DEF Outgoing
  <2>4. \A d \in Call, i \in DOMAIN outq :
         call'[d].mode # "none" /\ call'[d].pc \notin OutPcs => call'[d].id <= call'[outq[i]].id
    <3>1. ASSUME NEW d \in Call, NEW i \in DOMAIN outq,
                 call'[d].mode # "none", call'[d].pc \notin OutPcs
          PROVE  call'[d].id <= call'[outq[i]].id
      <4>1. call'[d] = call[d]
        BY <3>1 DEF Others
      <4> QED BY <2>0, <1>4, <3>1, <4>1 DEF Outgoing
    <3> QED BY <3>1
  <2>5. \A i, j \in DOMAIN outq : outq[i] = outq[j] => i = j
    BY <2>0 DEF Outgoing
  <2> QED BY <2>1, <2>2, <2>3, <2>4, <2>5 DEF Outgoing
<1>6. Poisoned'
  <2>1. ASSUME NEW d \in Call, FailedCall(d)'
        PROVE  /\ reg'.act.id = call'[d].id /\ ~Gone' => reg'.poison = call'[d].id
               /\ \A e \in Call : call'[e].id = call'[d].id => call'[e].pc \notin {"ready", "write", "rpc"}
    <3>1. d # c
      BY <2>1 DEF FailedCall
    <3>2. call'[d] = call[d] /\ FailedCall(d)
      BY <2>1, <3>1, FailedBefore DEF Others
    <3>3. call[d].id # 0
      BY <3>2, CallTyped DEF FailedCall, Calls, Outgoing
    <3>4. reg'.act.id = call'[d].id /\ ~Gone' => reg'.poison = call'[d].id
      BY <3>2, <3>3 DEF Calls, Poisoned, Settling
    <3>5. ASSUME NEW e \in Call, call'[e].id = call'[d].id
          PROVE  call'[e].pc \notin {"ready", "write", "rpc"}
      <4>1. CASE e = c
        BY <4>1
      <4>2. CASE e # c
        BY <3>2, <3>5, <4>2 DEF Others, Calls, Poisoned
      <4> QED BY <4>1, <4>2
    <3> QED BY <3>4, <3>5
  <2> QED BY <2>1 DEF Poisoned
<1> QED BY <1>2, <1>3, <1>5, <1>6 DEF Calls

(* What has failed is past the outbound queue, and not after what waits in *)
(* it.                                                                     *)
LEMMA FailedPast ==
    ASSUME Typed, Calls, NEW d \in Call, FailedCall(d)
    PROVE  /\ call[d].mode # "none" /\ call[d].pc \notin OutPcs /\ call[d].id # 0
           /\ \A i \in DOMAIN outq : call[d].id <= call[outq[i]].id
<1>1. call[d].mode # "none" /\ call[d].id # 0
  BY CallTyped DEF FailedCall, Calls, Outgoing
<1>2. call[d].pc \in {"err", "end"}
  BY DEF FailedCall, Calls, Queued
<1>3. call[d].pc \notin OutPcs
  BY <1>2 DEF OutPcs
<1> QED BY <1>1, <1>3 DEF Calls, Outgoing

(* The activation's call is dealt with by its last transition.             *)
LEMMA ClosedCall ==
    ASSUME Typed, Calls, reg' \in Endpoint, NEW c \in Call, Others(c),
           outq' = outq, at' = at, Requeues(c, 1), Settling(reg, reg'), reg'.spawned = reg.spawned,
           Gone' = Gone, call[c].pc = "end",
           call'[c].pc \in {"ok", "err"}, call'[c].mode = call[c].mode, call'[c].id = call[c].id,
           call'[c].via = call[c].via,
           call'[c].pc = "err" => FailedCall(c)
    PROVE  Calls'
<1>1. Past \subseteq Past'
  <2>1. c \in Past'
    BY DEF Past, PastPcs
  <2>2. \A d \in Past : d \in Past'
    BY <2>1 DEF Past, Others
  <2> QED BY <2>1, <2>2
<1>2. Counted'
  BY <1>1, CountedMore DEF Calls, Settling
<1>3. Queued'
  BY QueuedStep DEF Calls
<1>4. \A i \in DOMAIN outq : outq[i] \in Call \ {c} /\ call'[outq[i]] = call[outq[i]]
  <2>1. \A i \in DOMAIN outq : outq[i] # c /\ outq[i] \in Call
    BY CallTyped DEF Calls, Outgoing, OutPcs
  <2> QED BY <2>1 DEF Others
<1>5. Outgoing'
  <2>0. Outgoing /\ reg'.acts = reg.acts
    BY DEF Calls, Settling
  <2>1. ASSUME NEW d \in Call
        PROVE  /\ call'[d].pc \in BeforePcs => call'[d].mode = "none"
               /\ call'[d].pc \in OutPcs \cup {"end"} => call'[d].mode # "none"
               /\ call'[d].mode # "none" => call'[d].id \in 1..reg'.acts
               /\ call'[d].mode # "none" => call'[d].via # 0
               /\ call'[d].pc = "peek" => call'[d].via # 0
               /\ call'[d].pc \in OutPcs => \E i \in DOMAIN outq : outq[i] = d
               /\ call'[d].pc \in OutPcs \ {"out"} => outq[1] = d
    <3>1. CASE d = c
      BY <2>0, <3>1 DEF Outgoing, OutPcs, BeforePcs
    <3>2. CASE d # c
      <4>1. call'[d] = call[d]
        BY <3>2 DEF Others
      <4> QED BY <2>0, <4>1 DEF Outgoing
    <3> QED BY <3>1, <3>2
  <2>2. \A i \in DOMAIN outq : call'[outq[i]].pc \in OutPcs
    BY <2>0, <1>4 DEF Outgoing
  <2>3. \A i, j \in DOMAIN outq : i < j => call'[outq[i]].id <= call'[outq[j]].id
    BY <2>0, <1>4 DEF Outgoing
  <2>4. \A d \in Call, i \in DOMAIN outq :
         call'[d].mode # "none" /\ call'[d].pc \notin OutPcs => call'[d].id <= call'[outq[i]].id
    <3>1. ASSUME NEW d \in Call, NEW i \in DOMAIN outq,
                 call'[d].mode # "none", call'[d].pc \notin OutPcs
          PROVE  call'[d].id <= call'[outq[i]].id
      <4>1. call[d].mode # "none" /\ call[d].pc \notin OutPcs /\ call'[d].id = call[d].id
        BY <3>1 DEF Others, OutPcs
      <4> QED BY <2>0, <1>4, <3>1, <4>1 DEF Outgoing
    <3> QED BY <3>1
  <2>5. \A i, j \in DOMAIN outq : outq[i] = outq[j] => i = j
    BY <2>0 DEF Outgoing
  <2> QED BY <2>1, <2>2, <2>3, <2>4, <2>5 DEF Outgoing
<1>6. Poisoned'
  <2>1. ASSUME NEW d \in Call, FailedCall(d)'
        PROVE  /\ reg'.act.id = call'[d].id /\ ~Gone' => reg'.poison = call'[d].id
               /\ \A e \in Call : call'[e].id = call'[d].id => call'[e].pc \notin {"ready", "write", "rpc"}
    <3>1. call'[d].id = call[d].id /\ FailedCall(d)
      <4>1. CASE d # c
        BY <2>1, <4>1, FailedBefore DEF Others
      <4>2. CASE d = c /\ call'[c].pc = "err"
        BY <4>2
      <4>3. CASE d = c /\ call'[c].pc = "ok"
        <5>1. PICK i \in DOMAIN reg'.queue : reg'.queue[i].kind = "fail" /\ reg'.queue[i].c = c
          BY <2>1, <4>3 DEF FailedCall
        <5> QED BY <4>3, <5>1 DEF Requeues, Quiet, Fits, Concerns
      <4> QED BY <4>1, <4>2, <4>3
    <3>2. call[d].id # 0
      BY <3>1, FailedPast
    <3>3. reg'.act.id = call'[d].id /\ ~Gone' => reg'.poison = call'[d].id
      BY <3>1, <3>2 DEF Calls, Poisoned, Settling
    <3>4. ASSUME NEW e \in Call, call'[e].id = call'[d].id
          PROVE  call'[e].pc \notin {"ready", "write", "rpc"}
      <4>1. CASE e = c
        BY <4>1
      <4>2. CASE e # c
        BY <3>1, <3>4, <4>2 DEF Others, Calls, Poisoned
      <4> QED BY <4>1, <4>2
    <3> QED BY <3>3, <3>4
  <2> QED BY <2>1 DEF Poisoned
<1> QED BY <1>2, <1>3, <1>5, <1>6 DEF Calls

(* The first call of the outbound queue goes on with its message.          *)
LEMMA OutMoves ==
    ASSUME Typed, Calls, reg' \in Endpoint, NEW c \in Call, Others(c), outq # <<>>, Head(outq) = c,
           outq' = outq, at' = at, Requeues(c, 0), reg'.act.id = reg.act.id,
           reg'.acts = reg.acts, reg'.spawned = reg.spawned,
           reg'.poison = reg.poison \/ reg.poison # reg.act.id,
           Gone' = Gone, call[c].pc \in OutPcs,
           call'[c].pc \in {"ready", "write", "rpc", "undo"}, call'[c].mode = call[c].mode,
           call'[c].id = call[c].id, call'[c].via = call[c].via,
           call'[c].pc \in {"ready", "write", "rpc"} =>
              \/ call[c].pc \in {"ready", "write", "rpc"}
              \/ reg.act.id = call[c].id /\ ~Gone /\ reg.poison # call[c].id
    PROVE  Calls'
<1>0. outq[1] = c /\ 1 \in DOMAIN outq
  BY CallTyped
<1>1. Past \subseteq Past'
  <2>1. c \in Past'
    BY DEF Past, PastPcs, OutPcs
  <2>2. \A d \in Past : d \in Past'
    BY <2>1 DEF Past, Others
  <2> QED BY <2>1, <2>2
<1>2. Counted'
  BY <1>1, CountedMore DEF Calls
<1>3. Queued'
  BY QueuedStep DEF Calls
<1>4. \A i \in DOMAIN outq : outq[i] \in Call /\ call'[outq[i]].id = call[outq[i]].id
  BY CallTyped DEF Others
<1>5. Outgoing'
  <2>0. Outgoing
    BY DEF Calls
  <2>1. ASSUME NEW d \in Call
        PROVE  /\ call'[d].pc \in BeforePcs => call'[d].mode = "none"
               /\ call'[d].pc \in OutPcs \cup {"end"} => call'[d].mode # "none"
               /\ call'[d].mode # "none" => call'[d].id \in 1..reg'.acts
               /\ call'[d].mode # "none" => call'[d].via # 0
               /\ call'[d].pc = "peek" => call'[d].via # 0
               /\ call'[d].pc \in OutPcs => \E i \in DOMAIN outq : outq[i] = d
               /\ call'[d].pc \in OutPcs \ {"out"} => outq[1] = d
    <3>1. CASE d = c
      <4>1. /\ call'[c].mode # "none" /\ call'[c].id \in 1..reg'.acts /\ call'[c].via # 0
        BY <2>0 DEF Outgoing
      <4> QED BY <1>0, <3>1, <4>1 DEF BeforePcs
    <3>2. CASE d # c
      <4>1. call'[d] = call[d]
        BY <3>2 DEF Others
      <4> QED BY <2>0, <4>1 DEF Outgoing
    <3> QED BY <3>1, <3>2
  <2>2. \A i \in DOMAIN outq : call'[outq[i]].pc \in OutPcs
    BY <2>0, <1>4 DEF Outgoing, Others, OutPcs
  <2>3. \A i, j \in DOMAIN outq : i < j => call'[outq[i]].id <= call'[outq[j]].id
    BY <2>0, <1>4 DEF Outgoing
  <2>4. \A d \in Call, i \in DOMAIN outq :
         call'[d].mode # "none" /\ call'[d].pc \notin OutPcs => call'[d].id <= call'[outq[i]].id
    <3>1. ASSUME NEW d \in Call, NEW i \in DOMAIN outq,
                 call'[d].mode # "none", call'[d].pc \notin OutPcs
          PROVE  call'[d].id <= call'[outq[i]].id
      <4>1. d # c
        BY <3>1 DEF OutPcs
      <4>2. call'[d] = call[d]
        BY <4>1 DEF Others
      <4> QED BY <2>0, <1>4, <3>1, <4>2 DEF Outgoing
    <3> QED BY <3>1
  <2>5. \A i, j \in DOMAIN outq : outq[i] = outq[j] => i = j
    BY <2>0 DEF Outgoing
  <2> QED BY <2>1, <2>2, <2>3, <2>4, <2>5 DEF Outgoing
<1>6. Poisoned'
  <2>1. ASSUME NEW d \in Call, FailedCall(d)'
        PROVE  /\ reg'.act.id = call'[d].id /\ ~Gone' => reg'.poison = call'[d].id
               /\ \A e \in Call : call'[e].id = call'[d].id => call'[e].pc \notin {"ready", "write", "rpc"}
    <3>1. d # c
      <4>1. ASSUME d = c PROVE FALSE
        <5>1. PICK i \in DOMAIN reg'.queue : reg'.queue[i].kind = "fail" /\ reg'.queue[i].c = c
          BY <2>1, <4>1 DEF FailedCall
        <5> QED BY <5>1 DEF Requeues, Quiet, Fits, Concerns
      <4> QED BY <4>1
    <3>2. call'[d] = call[d] /\ FailedCall(d)
      BY <2>1, <3>1, FailedBefore DEF Others
    <3>3. reg'.act.id = call'[d].id /\ ~Gone' => reg'.poison = call'[d].id
      BY <3>2 DEF Calls, Poisoned
    <3>4. ASSUME NEW e \in Call, call'[e].id = call'[d].id
          PROVE  call'[e].pc \notin {"ready", "write", "rpc"}
      <4>1. CASE e = c
        BY <3>2, <3>4, <4>1 DEF Calls, Poisoned
      <4>2. CASE e # c
        BY <3>2, <3>4, <4>2 DEF Others, Calls, Poisoned
      <4> QED BY <4>1, <4>2
    <3> QED BY <3>3, <3>4
  <2> QED BY <2>1 DEF Poisoned
<1> QED BY <1>2, <1>3, <1>5, <1>6 DEF Calls

(* The first call leaves the outbound queue: the child answered, or its    *)
(* message failed and the later ones of its activation with it.            *)
LEMMA OutLeaves ==
    ASSUME Typed, Once, Calls, reg' \in Endpoint, NEW c \in Call, Others(c),
           outq # <<>>, Head(outq) = c, outq' = Tail(outq), at' = at, Requeues(c, 0),
           reg'.act.id = reg.act.id, reg'.acts = reg.acts, reg'.spawned = reg.spawned,
           Gone' = Gone, call[c].pc \in OutPcs,
           call'[c].pc = "end", call'[c].mode = call[c].mode,
           call'[c].id = call[c].id, call'[c].via = call[c].via,
           reg'.poison = call[c].id \/ (reg'.poison = reg.poison /\ ~FailedCall(c)')
    PROVE  Calls'
<1>0. /\ outq[1] = c /\ 1 \in DOMAIN outq
      /\ outq' \in Seq(Call) /\ DOMAIN outq' = 1..(Len(outq) - 1) /\ DOMAIN outq = 1..Len(outq)
      /\ Len(outq) \in Nat
      /\ \A i \in DOMAIN outq' : i + 1 \in DOMAIN outq /\ outq'[i] = outq[i + 1]
  BY CallTyped
<1>a. Outgoing
  BY DEF Calls
<1>1. Past \subseteq Past'
  <2>1. c \in Past'
    BY DEF Past, PastPcs, OutPcs
  <2>2. \A d \in Past : d \in Past'
    BY <2>1 DEF Past, Others
  <2> QED BY <2>1, <2>2
<1>2. Counted'
  BY <1>1, CountedMore DEF Calls
<1>3. Queued'
  BY QueuedStep DEF Calls
<1>4. \A i \in DOMAIN outq' : outq'[i] \in Call \ {c} /\ call'[outq'[i]] = call[outq'[i]]
  <2>1. ASSUME NEW i \in DOMAIN outq' PROVE outq'[i] \in Call \ {c}
    <3>1. i + 1 \in DOMAIN outq /\ outq'[i] = outq[i + 1] /\ i + 1 # 1
      BY <1>0
    <3>2. outq[i + 1] # outq[1]
      BY <1>0, <1>a, <3>1 DEF Outgoing
    <3> QED BY <1>0, <3>1, <3>2, CallTyped
  <2> QED BY <2>1 DEF Others
<1>b. ASSUME NEW e \in Call PROVE call'[e].pc \notin {"ready", "write", "rpc", "undo"}
  <2>1. CASE e = c
    BY <2>1
  <2>2. CASE e # c
    <3>1. call'[e] = call[e]
      BY <2>2 DEF Others
    <3> QED BY <1>0, <1>a, <2>2, <3>1 DEF Outgoing, OutPcs
  <2> QED BY <2>1, <2>2
<1>5. Outgoing'
  <2>1. ASSUME NEW d \in Call
        PROVE  /\ call'[d].pc \in BeforePcs => call'[d].mode = "none"
               /\ call'[d].pc \in OutPcs \cup {"end"} => call'[d].mode # "none"
               /\ call'[d].mode # "none" => call'[d].id \in 1..reg'.acts
               /\ call'[d].mode # "none" => call'[d].via # 0
               /\ call'[d].pc = "peek" => call'[d].via # 0
               /\ call'[d].pc \in OutPcs => \E i \in DOMAIN outq' : outq'[i] = d
               /\ call'[d].pc \in OutPcs \ {"out"} => outq'[1] = d
    <3>1. CASE d = c
      <4>1. call'[c].mode # "none" /\ call'[c].id \in 1..reg'.acts /\ call'[c].via # 0
        BY <1>a DEF Outgoing
      <4> QED BY <3>1, <4>1 DEF BeforePcs, OutPcs
    <3>2. CASE d # c
      <4>1. call'[d] = call[d]
        BY <3>2 DEF Others
      <4>2. ASSUME call'[d].pc \in OutPcs PROVE \E i \in DOMAIN outq' : outq'[i] = d
        <5>1. PICK i \in DOMAIN outq : outq[i] = d
          BY <1>a, <4>1, <4>2 DEF Outgoing
        <5>2. i # 1
          BY <1>0, <3>2, <5>1
        <5>3. i - 1 \in DOMAIN outq' /\ (i - 1) + 1 = i
          BY <1>0, <5>1, <5>2
        <5>4. outq'[i - 1] = d
          BY <1>0, <5>1, <5>3
        <5> QED BY <5>3, <5>4
      <4>3. call'[d].pc \notin OutPcs \ {"out"}
        BY <1>b DEF OutPcs
      <4> QED BY <1>a, <4>1, <4>2, <4>3 DEF Outgoing
    <3> QED BY <3>1, <3>2
  <2>2. \A i \in DOMAIN outq' : call'[outq'[i]].pc \in OutPcs
    BY <1>0, <1>a, <1>4 DEF Outgoing
  <2>3. \A i, j \in DOMAIN outq' : i < j => call'[outq'[i]].id <= call'[outq'[j]].id
    <3>1. ASSUME NEW i \in DOMAIN outq', NEW j \in DOMAIN outq', i < j
          PROVE  call'[outq'[i]].id <= call'[outq'[j]].id
      <4>1. i + 1 < j + 1 /\ i + 1 \in DOMAIN outq /\ j + 1 \in DOMAIN outq
        BY <1>0, <3>1
      <4>2. call[outq[i + 1]].id <= call[outq[j + 1]].id
        BY <1>a, <4>1 DEF Outgoing
      <4> QED BY <1>0, <1>4, <3>1, <4>2
    <3> QED BY <3>1
  <2>4. \A d \in Call, i \in DOMAIN outq' :
         call'[d].mode # "none" /\ call'[d].pc \notin OutPcs => call'[d].id <= call'[outq'[i]].id
    <3>1. ASSUME NEW d \in Call, NEW i \in DOMAIN outq',
                 call'[d].mode # "none", call'[d].pc \notin OutPcs
          PROVE  call'[d].id <= call'[outq'[i]].id
      <4>0. /\ i + 1 \in DOMAIN outq /\ 1 < i + 1 /\ outq'[i] = outq[i + 1]
            /\ call'[outq'[i]] = call[outq[i + 1]]
        BY <1>0, <1>4
      <4>1. CASE d = c
        <5>1. call[outq[1]].id <= call[outq[i + 1]].id
          BY <1>0, <1>a, <4>0 DEF Outgoing
        <5> QED BY <1>0, <4>0, <4>1, <5>1
      <4>2. CASE d # c
        <5>1. call'[d] = call[d]
          BY <4>2 DEF Others
        <5>2. call[d].id <= call[outq[i + 1]].id
          BY <1>a, <3>1, <4>0, <5>1 DEF Outgoing
        <5> QED BY <4>0, <5>1, <5>2
      <4> QED BY <4>1, <4>2
    <3> QED BY <3>1
  <2>5. \A i, j \in DOMAIN outq' : outq'[i] = outq'[j] => i = j
    <3>1. ASSUME NEW i \in DOMAIN outq', NEW j \in DOMAIN outq', outq'[i] = outq'[j]
          PROVE  i = j
      <4>1. i + 1 = j + 1
        BY <1>0, <1>a, <3>1 DEF Outgoing
      <4> QED BY <1>0, <4>1
    <3> QED BY <3>1
  <2> QED BY <2>1, <2>2, <2>3, <2>4, <2>5 DEF Outgoing
<1>6. Poisoned'
  <2>1. ASSUME NEW d \in Call, FailedCall(d)', reg'.act.id = call'[d].id, ~Gone'
        PROVE  reg'.poison = call'[d].id
    <3>1. CASE d = c
      BY <2>1, <3>1
    <3>2. CASE d # c
      <4>1. call'[d] = call[d] /\ FailedCall(d)
        BY <2>1, <3>2, FailedBefore DEF Others
      <4>2. reg.poison = call[d].id
        BY <2>1, <4>1 DEF Calls, Poisoned
      <4>3. call[d].id <= call[c].id /\ call[d].id # 0
        BY <1>0, <4>1, FailedPast
      <4>4. call[c].id <= reg.acts /\ reg.acts = call[d].id
        BY <1>a, <2>1, <4>1, <4>3 DEF Outgoing, Once
      <4>5. call[c].id = call[d].id
        BY <4>3, <4>4, CallTyped
      <4> QED BY <4>1, <4>2, <4>5
    <3> QED BY <3>1, <3>2
  <2> QED BY <1>b, <2>1 DEF Poisoned
<1> QED BY <1>2, <1>3, <1>5, <1>6 DEF Calls

(* A call joins the outbound queue with the id of the open activation.     *)
LEMMA JoinsOut ==
    ASSUME Typed, Once, Calls, reg' \in Endpoint, NEW c \in Call, Others(c),
           outq' = Append(outq, c), Requeues(c, 1), Counted',
           \/ reg'.acts = reg.acts /\ reg'.act.id = reg.act.id /\ reg'.poison = reg.poison
           \/ reg'.acts = reg.acts + 1,
           reg'.act.id = reg'.acts, reg'.act.id # 0,
           Gone' = Gone, call[c].pc = "prep",
           call'[c].pc = "out", call'[c].mode # "none",
           call'[c].id = reg'.act.id, call'[c].via # 0
    PROVE  Calls'
<1>a. Outgoing /\ reg.acts \in Nat /\ reg'.acts \in Nat /\ reg.acts <= reg'.acts
  BY CallTyped DEF Calls
<1>0. /\ outq' \in Seq(Call) /\ DOMAIN outq' = 1..(Len(outq) + 1) /\ DOMAIN outq = 1..Len(outq)
      /\ Len(outq) \in Nat
      /\ outq'[Len(outq) + 1] = c
      /\ \A i \in DOMAIN outq : i \in DOMAIN outq' /\ outq'[i] = outq[i]
  BY CallTyped
<1>1. \A i \in DOMAIN outq : outq[i] \in Call \ {c} /\ call'[outq[i]] = call[outq[i]]
  <2>1. \A i \in DOMAIN outq : outq[i] # c /\ outq[i] \in Call
    BY <1>a, CallTyped DEF Outgoing, OutPcs
  <2> QED BY <2>1 DEF Others
<1>2. \A d \in Call \ {c} : call'[d] = call[d] /\ (call[d].mode # "none" => call[d].id <= reg.acts)
  BY <1>a, CallTyped DEF Outgoing, Others
<1>3. Queued'
  BY QueuedStep DEF Calls
<1>4. ASSUME NEW i \in DOMAIN outq', i \notin DOMAIN outq PROVE i = Len(outq) + 1 /\ outq'[i] = c
  BY <1>0, <1>4
<1>5. Outgoing'
  <2>1. ASSUME NEW d \in Call
        PROVE  /\ call'[d].pc \in BeforePcs => call'[d].mode = "none"
               /\ call'[d].pc \in OutPcs \cup {"end"} => call'[d].mode # "none"
               /\ call'[d].mode # "none" => call'[d].id \in 1..reg'.acts
               /\ call'[d].mode # "none" => call'[d].via # 0
               /\ call'[d].pc = "peek" => call'[d].via # 0
               /\ call'[d].pc \in OutPcs => \E i \in DOMAIN outq' : outq'[i] = d
               /\ call'[d].pc \in OutPcs \ {"out"} => outq'[1] = d
    <3>1. CASE d = c
      <4>1. call'[c].id \in 1..reg'.acts
        BY <1>a
      <4>2. Len(outq) + 1 \in DOMAIN outq' /\ outq'[Len(outq) + 1] = c
        BY <1>0
      <4> QED BY <3>1, <4>1, <4>2 DEF BeforePcs, OutPcs
    <3>2. CASE d # c
      <4>1. call'[d] = call[d]
        BY <3>2 DEF Others
      <4>2. call'[d].mode # "none" => call'[d].id \in 1..reg'.acts
        BY <1>a, <4>1, CallTyped DEF Outgoing
      <4>3. call'[d].pc \in OutPcs => \E i \in DOMAIN outq' : outq'[i] = d
        BY <1>0, <1>a, <4>1 DEF Outgoing
      <4>4. ASSUME call'[d].pc \in OutPcs \ {"out"} PROVE outq'[1] = d
        <5>1. outq[1] = d /\ \E i \in DOMAIN outq : outq[i] = d
          BY <1>a, <4>1, <4>4 DEF Outgoing
        <5>2. 1 \in DOMAIN outq
          BY <1>0, <5>1
        <5> QED BY <1>0, <5>1, <5>2
      <4> QED BY <1>a, <4>1, <4>2, <4>3, <4>4 DEF Outgoing
    <3> QED BY <3>1, <3>2
  <2>2. \A i \in DOMAIN outq' : call'[outq'[i]].pc \in OutPcs
    <3>1. ASSUME NEW i \in DOMAIN outq' PROVE call'[outq'[i]].pc \in OutPcs
      <4>1. CASE i \in DOMAIN outq
        BY <1>0, <1>1, <1>a, <4>1 DEF Outgoing
      <4>2. CASE i \notin DOMAIN outq
        BY <1>4, <4>2 DEF OutPcs
      <4> QED BY <4>1, <4>2
    <3> QED BY <3>1
  <2>3. ASSUME NEW i \in DOMAIN outq', NEW j \in DOMAIN outq', i < j
        PROVE  call'[outq'[i]].id <= call'[outq'[j]].id
    <3>1. i \in DOMAIN outq
      BY <1>0, <2>3
    <3>2. outq'[i] \in Call \ {c} /\ call'[outq'[i]] = call[outq[i]] /\ outq'[i] = outq[i]
      BY <1>0, <1>1, <3>1
    <3>3. CASE j \in DOMAIN outq
      BY <1>0, <1>1, <1>a, <2>3, <3>1, <3>2, <3>3 DEF Outgoing
    <3>4. CASE j \notin DOMAIN outq
      <4>1. call[outq[i]].id <= reg.acts
        BY <1>a, <3>1, <3>2, <1>2 DEF Outgoing, OutPcs
      <4>2. outq'[j] = c
        BY <1>4, <3>4
      <4>3. call[outq[i]].id \in Nat
        BY <3>1, CallTyped
      <4> QED BY <1>a, <3>2, <4>1, <4>2, <4>3
    <3> QED BY <3>3, <3>4
  <2>4. ASSUME NEW d \in Call, NEW i \in DOMAIN outq',
               call'[d].mode # "none", call'[d].pc \notin OutPcs
        PROVE  call'[d].id <= call'[outq'[i]].id
    <3>0. d # c
      BY <2>4 DEF OutPcs
    <3>1. call'[d] = call[d] /\ call[d].id <= reg.acts /\ call[d].id \in Nat
      BY <1>2, <2>4, <3>0, CallTyped
    <3>2. CASE i \in DOMAIN outq
      BY <1>0, <1>1, <1>a, <2>4, <3>1, <3>2 DEF Outgoing
    <3>3. CASE i \notin DOMAIN outq
      BY <1>4, <1>a, <3>1, <3>3
    <3> QED BY <3>2, <3>3
  <2>5. ASSUME NEW i \in DOMAIN outq', NEW j \in DOMAIN outq', outq'[i] = outq'[j]
        PROVE  i = j
    <3>1. CASE i \in DOMAIN outq /\ j \in DOMAIN outq
      BY <1>0, <1>a, <2>5, <3>1 DEF Outgoing
    <3>2. CASE i \notin DOMAIN outq /\ j \notin DOMAIN outq
      BY <1>4, <3>2
    <3>3. CASE i \in DOMAIN outq /\ j \notin DOMAIN outq
      BY <1>0, <1>1, <1>4, <2>5, <3>3
    <3>4. CASE i \notin DOMAIN outq /\ j \in DOMAIN outq
      BY <1>0, <1>1, <1>4, <2>5, <3>4
    <3> QED BY <3>1, <3>2, <3>3, <3>4
  <2> QED BY <2>1, <2>2, <2>3, <2>4, <2>5 DEF Outgoing
<1>6. Poisoned'
  <2>1. ASSUME NEW d \in Call, FailedCall(d)'
        PROVE  /\ reg'.act.id = call'[d].id /\ ~Gone' => reg'.poison = call'[d].id
               /\ \A e \in Call : call'[e].id = call'[d].id => call'[e].pc \notin {"ready", "write", "rpc"}
    <3>1. d # c
      <4>1. ASSUME d = c PROVE FALSE
        <5>1. PICK i \in DOMAIN reg'.queue : reg'.queue[i].kind = "fail" /\ reg'.queue[i].c = c
          BY <2>1, <4>1 DEF FailedCall
        <5> QED BY <5>1 DEF Requeues, Quiet, Fits, Concerns
      <4> QED BY <4>1
    <3>2. call'[d] = call[d] /\ FailedCall(d)
      BY <2>1, <3>1, FailedBefore DEF Others
    <3>3. ASSUME reg'.act.id = call'[d].id, ~Gone' PROVE reg'.poison = call'[d].id
      <4>1. call[d].id <= reg.acts
        BY <1>2, <3>1, <3>2, FailedPast
      <4>2. reg'.acts # reg.acts + 1
        BY <1>a, <3>2, <3>3, <4>1
      <4> QED BY <3>2, <3>3, <4>2 DEF Calls, Poisoned
    <3>4. ASSUME NEW e \in Call, call'[e].id = call'[d].id
          PROVE  call'[e].pc \notin {"ready", "write", "rpc"}
      <4>1. CASE e = c
        BY <4>1
      <4>2. CASE e # c
        BY <3>2, <3>4, <4>2 DEF Others, Calls, Poisoned
      <4> QED BY <4>1, <4>2
    <3> QED BY <3>3, <3>4
  <2> QED BY <2>1 DEF Poisoned
<1> QED BY <1>3, <1>5, <1>6 DEF Calls

-----------------------------------------------------------------------------
(* The steps of the registry and of what it listens to.                    *)

(* The inductive invariant.                                                *)
EndpointInv == Typed /\ Transports /\ Once /\ Calls

(* A handler that takes at most one task that is no call's keeps the       *)
(* invariant.                                                              *)
LEMMA HandlerKeeps ==
    ASSUME EndpointInv, NEW shift \in {0, 1}, Handles(reg, reg', shift), at' = at,
           call' = call, outq' = outq, lease' = lease, shut' = shut
    PROVE  EndpointInv'
<1>0. /\ Typed /\ Transports /\ Once /\ Calls
      /\ reg' \in Endpoint /\ Lowers(reg, reg') /\ Settling(reg, reg') /\ Carries(reg, reg', shift)
  BY DEF EndpointInv, Handles
<1>1. Typed'
  BY <1>0 DEF Typed
<1>2. Transports'
  BY <1>0, TransportsKept
<1>3. Once'
  BY <1>0, OnceKept
<1>4. reg'.acts = reg.acts /\ reg'.spawned = reg.spawned /\ Gone' = Gone
  BY <1>0 DEF Settling, Lowers, Gone
<1>5. Calls'
  BY <1>0, <1>4, CallsKept
<1> QED BY <1>1, <1>2, <1>3, <1>5 DEF EndpointInv

(* The first task of the queue.                                            *)
LEMMA Tops ==
    ASSUME Typed, NEW kind, HeadIs(kind)
    PROVE  /\ reg.queue # <<>> /\ 1 \in DOMAIN reg.queue /\ Head(reg.queue) = reg.queue[1]
           /\ Head(reg.queue) \in Task /\ Head(reg.queue).kind = kind
           /\ kind = "event" => /\ Head(reg.queue).g \in Spawn
                                /\ Head(reg.queue).ev \in EventKinds
           /\ Pop(reg) \in Endpoint /\ Handles(reg, Pop(reg), 1)
<1>1. reg.queue # <<>> /\ 1 \in DOMAIN reg.queue /\ Head(reg.queue) = reg.queue[1] /\ Head(reg.queue).kind = kind
  BY CallTyped DEF HeadIs
<1>2. Head(reg.queue) \in Task /\ (kind = "event" => Head(reg.queue).g \in Spawn /\ Head(reg.queue).ev \in EventKinds)
  BY <1>1, CallTyped, Tasks
<1>3. Pop(reg) \in Endpoint /\ Handles(reg, Pop(reg), 1)
  BY <1>1, Popped, CallTyped
<1> QED BY <1>1, <1>2, <1>3

(* The task is taken off the queue, and the handler goes on from there.    *)
LEMMA HandledKeeps ==
    ASSUME EndpointInv, NEW shift \in {0, 1}, NEW r \in Endpoint, Handles(reg, r, shift), reg' \in Endpoint,
           Follows(r, reg'), at' = at,
           call' = call, outq' = outq, lease' = lease, shut' = shut
    PROVE  EndpointInv'
<1>1. reg \in Endpoint
  BY DEF EndpointInv, Typed
<1>2. Handles(reg, reg', shift)
  BY <1>1, HandlesOn
<1> QED BY <1>2, HandlerKeeps

(* An event of the child is reduced.  An exit that is current was seen by  *)
(* no start-up that is still under way.                                    *)
LEMMA EventTaken == EndpointInv /\ TakeEvent => EndpointInv'
<1> SUFFICES ASSUME EndpointInv, TakeEvent PROVE EndpointInv'
  OBVIOUS
<1> DEFINE t == Head(reg.queue)
           r == Pop(reg)
<1>0. Typed /\ Transports
  BY DEF EndpointInv
<1>1. /\ reg.queue # <<>> /\ 1 \in DOMAIN reg.queue /\ t = reg.queue[1] /\ t \in Task /\ t.kind = "event"
      /\ t.g \in Spawn /\ t.ev \in EventKinds /\ r \in Endpoint /\ Handles(reg, r, 1)
  BY <1>0, Tops DEF TakeEvent
<1>2. /\ reg' = IF ~Current(t.g) THEN r
                ELSE IF t.ev = "exit"
                THEN IF r.client \in {0, t.g} THEN UnexpectedExit(r) ELSE r
                ELSE IF r.client = t.g THEN Reduce(r, t.ev) ELSE r
      /\ at' = at /\ call' = call /\ outq' = outq /\ lease' = lease /\ shut' = shut
  BY DEF TakeEvent
<1>3. r.cur = reg.cur /\ r.tr = reg.tr
  BY <1>0 DEF Pop, Typed, Endpoint
<1> HIDE DEF r, t
<1>4. CASE reg' = r
  <2>1. Follows(r, reg')
    BY <1>1, <1>4, FollowsItself
  <2> QED BY <1>1, <1>2, <1>4, <2>1, HandledKeeps
<1>5. CASE Current(t.g) /\ t.ev = "exit" /\ reg' = UnexpectedExit(r)
  <2>1. SeesExit(reg, t.g)
    BY <1>1, <1>5 DEF SeesExit
  <2>2. reg.tr[t.g].child \notin {"none", "live"}
    BY <1>0, <1>1, <2>1 DEF Transports, Stepwise
  <2>3. ~Starting(r, r.cur)
    <3>1. r.cur = t.g
      BY <1>3, <1>5 DEF Current
    <3> QED BY <1>0, <1>1, <1>3, <2>2, <3>1 DEF Starting, Transports, Stepwise
  <2>4. Follows(r, reg')
    BY <1>1, <1>5, <2>3, ExitFollows
  <2>5. reg' \in Endpoint
    BY <2>4 DEF Follows, Handles
  <2> QED BY <1>1, <1>2, <2>4, <2>5, HandledKeeps
<1>6. CASE t.ev # "exit" /\ reg' = Reduce(r, t.ev)
  <2>1. Follows(r, reg')
    BY <1>1, <1>6, ReduceFollows
  <2>2. reg' \in Endpoint
    BY <2>1 DEF Follows, Handles
  <2> QED BY <1>1, <1>2, <2>1, <2>2, HandledKeeps
<1> QED BY <1>2, <1>4, <1>5, <1>6

(* An abort is handled.                                                    *)
LEMMA AbortTaken == EndpointInv /\ TakeAbort => EndpointInv'
<1> SUFFICES ASSUME EndpointInv, TakeAbort PROVE EndpointInv'
  OBVIOUS
<1> DEFINE r == Pop(reg)
<1>1. r \in Endpoint /\ Handles(reg, r, 1)
  BY Tops DEF TakeAbort, EndpointInv
<1>2. reg' \in {r, AbortTold(r), AbortSettled(r)}
  BY DEF TakeAbort, AbortTold, AbortSettled, AbortGone
<1>3. at' = at /\ call' = call /\ outq' = outq /\ lease' = lease /\ shut' = shut
  BY DEF TakeAbort
<1> HIDE DEF r
<1>4. Follows(r, reg')
  BY <1>1, <1>2, FollowsItself, AbortToldFollows, AbortSettledFollows
<1>5. reg' \in Endpoint
  BY <1>4 DEF Follows, Handles
<1> QED BY <1>1, <1>3, <1>4, <1>5, HandledKeeps

(* A detach, or the release of an oversized transcript, is handled.        *)
LEMMA DetachTaken == EndpointInv /\ (TakeDetach \/ TakeRetain) => EndpointInv'
<1> SUFFICES ASSUME EndpointInv, TakeDetach \/ TakeRetain PROVE EndpointInv'
  OBVIOUS
<1> DEFINE r == Pop(reg)
           t == [kind |-> "detach", only |-> "epoch", id |-> r.acts]
<1>1. r \in Endpoint /\ Handles(reg, r, 1)
  BY Tops DEF TakeDetach, TakeRetain, EndpointInv
<1>2. reg' \in {r, Detach(r), Enqueue(r, t)}
  BY DEF TakeDetach, TakeRetain
<1>3. at' = at /\ call' = call /\ outq' = outq /\ lease' = lease /\ shut' = shut
  BY DEF TakeDetach, TakeRetain
<1> HIDE DEF r
<1>4. t \in OwnTask
  BY <1>1 DEF OwnTask, DetachTask, Endpoint
<1> HIDE DEF t
<1>5. Follows(r, Enqueue(r, t))
  BY <1>1, <1>4, OwnAppended, SettlingNothing, OfActivation
<1>6. Follows(r, reg')
  BY <1>1, <1>2, <1>5, FollowsItself, DetachFollows
<1>7. reg' \in Endpoint
  BY <1>6 DEF Follows, Handles
<1> QED BY <1>1, <1>3, <1>6, <1>7, HandledKeeps

(* A task that is no call's is added to an endpoint of which only the      *)
(* status and the timer change.                                            *)
LEMMA TaskAdded ==
    ASSUME EndpointInv, NEW r, Marks(reg, r), NEW t \in OwnTask, reg' = Enqueue(r, t),
           at' = at, call' = call, outq' = outq, lease' = lease, shut' = shut
    PROVE  EndpointInv'
<1>1. reg \in Endpoint
  BY DEF EndpointInv, Typed
<1>2. r \in Endpoint /\ Handles(reg, r, 0)
  BY <1>1, MarksFollow DEF Follows
<1>3. reg' \in Endpoint /\ Follows(r, reg')
  BY <1>2, OwnAppended, SettlingNothing, OfActivation
<1> QED BY <1>2, <1>3, HandledKeeps

(* Timers, users and the branch act on the endpoint without the queue, or  *)
(* add a task of their own.                                                *)
LEMMA UsersAndTimers ==
    ASSUME EndpointInv, TimerFires \/ UserAborts \/ UserDetaches \/ BranchDistrusts \/ BranchTrusts
    PROVE  EndpointInv'
<1>0. reg \in Endpoint
  BY DEF EndpointInv, Typed
<1>1. CASE TimerFires
  <2> DEFINE r == [reg EXCEPT !.timer = 0]
             t == [kind |-> "detach", only |-> "turn", id |-> reg.timer]
  <2>1. Marks(reg, r)
    BY <1>0 DEF Endpoint, Marks, SameTransports, SameQueue
  <2>2. t \in OwnTask
    BY <1>0 DEF OwnTask, DetachTask, Endpoint
  <2>3. reg' = Enqueue(r, t) /\ at' = at /\ call' = call /\ outq' = outq /\ lease' = lease /\ shut' = shut
    BY <1>1 DEF TimerFires
  <2> HIDE DEF r, t
  <2> QED BY <2>1, <2>2, <2>3, TaskAdded
<1>2. CASE UserAborts \/ UserDetaches
  <2> DEFINE a == [kind |-> "abort"]
             d == [kind |-> "detach", only |-> "any", id |-> 0]
  <2>1. Marks(reg, reg)
    BY <1>0 DEF Marks, SameTransports, SameQueue
  <2>2. a \in OwnTask /\ d \in OwnTask
    BY DEF OwnTask, DetachTask, AbortTask
  <2>3. reg' \in {Enqueue(reg, a), Enqueue(reg, d)}
    BY <1>2 DEF UserAborts, UserDetaches
  <2>4. at' = at /\ call' = call /\ outq' = outq /\ lease' = lease /\ shut' = shut
    BY <1>2 DEF UserAborts, UserDetaches
  <2> HIDE DEF a, d
  <2> QED BY <2>1, <2>2, <2>3, <2>4, TaskAdded
<1>3. CASE BranchDistrusts
  <2>1. Follows(reg, reg')
    BY <1>0, <1>3, InvalidateFollows DEF BranchDistrusts
  <2> QED BY <1>3, <2>1, HandlerKeeps DEF BranchDistrusts, Follows
<1>4. CASE BranchTrusts
  <2>1. Marks(reg, reg')
    BY <1>0, <1>4 DEF BranchTrusts, Endpoint, Statuses, Marks, SameTransports, SameQueue
  <2>2. Follows(reg, reg')
    BY <1>0, <2>1, MarksFollow
  <2> QED BY <1>4, <2>2, HandlerKeeps DEF BranchTrusts, Follows
<1> QED BY <1>1, <1>2, <1>3, <1>4

(* A transport whose turn or pipe changes, and neither its stage nor its   *)
(* child.                                                                  *)
PipeExit(x) == \E i \in DOMAIN x.pipe : x.pipe[i].kind = "exit"

(* The endpoint with the new turn or pipe.                                 *)
LEMMA TurnChanged ==
    ASSUME NEW r \in Endpoint, NEW g \in Spawn, NEW y \in TransportState,
           y.stage = r.tr[g].stage, y.child = r.tr[g].child, PipeExit(y) => PipeExit(r.tr[g]),
           NEW q, q = [r EXCEPT !.tr = [r.tr EXCEPT ![g] = y]]
    PROVE  /\ q \in Endpoint /\ SameActivation(r, q) /\ SameQueue(r, q) /\ Follows(r, q)
           /\ q.cur = r.cur /\ q.tr[g] = y /\ q.spawned = r.spawned
<1> DEFINE tr == [r.tr EXCEPT ![g] = y]
<1>1. tr \in [Spawn -> TransportState] /\ \A h \in Spawn : tr[h] = IF h = g THEN y ELSE r.tr[h]
  BY DEF Endpoint
<1> HIDE DEF tr
<1>2. q = [r EXCEPT !.tr = tr]
  BY DEF tr
<1>3. /\ q \in Endpoint /\ SameActivation(r, q) /\ SameQueue(r, q)
      /\ q.client = r.client /\ q.ready = r.ready /\ q.cur = r.cur /\ q.spawned = r.spawned
      /\ q.noted = r.noted /\ q.tr = tr
  BY <1>1, <1>2 DEF Endpoint, SameActivation, SameQueue
<1>4. Settling(r, q) /\ Adds(r, q)
  BY <1>3, SettlingNothing, AddsNothing
<1>5. Carries(r, q, 0)
  BY <1>3, <1>4, CarriesOfAdds
<1>6. \A h \in Spawn : /\ q.tr[h].stage = r.tr[h].stage /\ q.tr[h].child = r.tr[h].child
                       /\ PipeExit(q.tr[h]) => PipeExit(r.tr[h])
  BY <1>1, <1>3
<1>7. \A h \in Spawn : SeesExit(q, h) => SeesExit(r, h)
  BY <1>3, <1>6 DEF SeesExit, PipeExit, SameQueue
<1>8. r.client \in Spawn \cup {0}
  BY DEF Endpoint
<1>9. Lowers(r, q)
  BY <1>3, <1>6, <1>7, <1>8 DEF Lowers
<1> QED BY <1>1, <1>3, <1>4, <1>5, <1>9 DEF Follows, Handles

(* The types of what a transport has.                                      *)
LEMMA TransportTyped ==
    ASSUME NEW x \in TransportState
    PROVE  /\ x.pipe \in Seq(ChildEvent) /\ Len(x.pipe) \in Nat /\ DOMAIN x.pipe = 1..Len(x.pipe)
           /\ x.told \in SUBSET Act /\ x.why \in Causes
           /\ x.stage \in Stages /\ x.child \in Children /\ x.turn \in Turns
BY DEF TransportState

(* Events that are no exits are added to the pipe.                         *)
LEMMA Piped ==
    ASSUME NEW x \in TransportState, NEW events \in Seq(ChildEvent),
           \A i \in DOMAIN events : events[i].kind # "exit"
    PROVE  LET y == [x EXCEPT !.pipe = x.pipe \o events]
           IN  /\ y \in TransportState /\ y.stage = x.stage /\ y.child = x.child
               /\ PipeExit(y) => PipeExit(x)
<1> DEFINE y == [x EXCEPT !.pipe = x.pipe \o events]
<1>1. x.pipe \in Seq(ChildEvent) /\ x.pipe \o events \in Seq(ChildEvent)
  BY TransportTyped
<1>2. /\ y \in TransportState /\ y.stage = x.stage /\ y.child = x.child
      /\ y.pipe = x.pipe \o events
  BY <1>1 DEF TransportState
<1>3. \A i \in DOMAIN y.pipe :
         \/ i \in DOMAIN x.pipe /\ y.pipe[i] = x.pipe[i]
         \/ i - Len(x.pipe) \in DOMAIN events /\ y.pipe[i] = events[i - Len(x.pipe)]
  BY <1>1, <1>2
<1> HIDE DEF y
<1>4. PipeExit(y) => PipeExit(x)
  BY <1>3 DEF PipeExit
<1> QED BY <1>2, <1>4 DEF y

(* An event that is no exit.                                               *)
LEMMA OneEvent ==
    ASSUME NEW kind \in EventKinds \ {"exit"}, NEW told \in SUBSET Act
    PROVE  /\ <<Event(kind, told)>> \in Seq(ChildEvent)
           /\ \A i \in DOMAIN <<Event(kind, told)>> : <<Event(kind, told)>>[i].kind # "exit"
<1>1. Event(kind, told) \in ChildEvent /\ Event(kind, told).kind = kind
  BY DEF Event, ChildEvent
<1> HIDE DEF Event
<1> QED BY <1>1

(* The child works on its turn and reports events.                         *)
LEMMA ChildTurned == ASSUME EndpointInv, NEW g \in Spawn, ChildTurns(g) PROVE EndpointInv'
<1> DEFINE t == reg.tr[g]
<1>0. reg \in Endpoint /\ t \in TransportState
  BY DEF EndpointInv, Typed, Endpoint
<1>1. PICK turn \in Turns, events \in Seq(ChildEvent) :
         /\ \A i \in DOMAIN events : events[i].kind # "exit"
         /\ Emits(g, turn, events)
  <2>1. t.told \in SUBSET Act /\ {} \in SUBSET Act
    BY <1>0, TransportTyped
  <2>2. /\ <<Event("start", {})>> \in Seq(ChildEvent)
        /\ \A i \in DOMAIN <<Event("start", {})>> : <<Event("start", {})>>[i].kind # "exit"
    BY OneEvent DEF EventKinds
  <2>3. /\ <<Event("turns", {})>> \in Seq(ChildEvent)
        /\ \A i \in DOMAIN <<Event("turns", {})>> : <<Event("turns", {})>>[i].kind # "exit"
    BY OneEvent DEF EventKinds
  <2>4. /\ <<Event("completed", {})>> \in Seq(ChildEvent)
        /\ \A i \in DOMAIN <<Event("completed", {})>> : <<Event("completed", {})>>[i].kind # "exit"
    BY OneEvent DEF EventKinds
  <2>5. /\ <<Event("failed", {})>> \in Seq(ChildEvent)
        /\ \A i \in DOMAIN <<Event("failed", {})>> : <<Event("failed", {})>>[i].kind # "exit"
    BY OneEvent DEF EventKinds
  <2>6. /\ <<Event("settled", t.told)>> \in Seq(ChildEvent)
        /\ \A i \in DOMAIN <<Event("settled", t.told)>> : <<Event("settled", t.told)>>[i].kind # "exit"
    BY <2>1, OneEvent DEF EventKinds
  <2>7. <<>> \in Seq(ChildEvent) /\ \A i \in DOMAIN <<>> : <<>>[i].kind # "exit"
    OBVIOUS
  <2>8. {"busy", "quiet", "idle"} \subseteq Turns
    BY DEF Turns
  <2>9. \/ Emits(g, "busy", <<Event("start", {})>>)
        \/ Emits(g, "busy", <<Event("turns", {})>>)
        \/ Emits(g, "quiet", <<>>)
        \/ Emits(g, "quiet", <<Event("completed", {})>>)
        \/ Emits(g, "quiet", <<Event("failed", {})>>)
        \/ Emits(g, "idle", <<Event("settled", t.told)>>)
    BY DEF ChildTurns
  <2> HIDE DEF t
  <2> QED BY <2>2, <2>3, <2>4, <2>5, <2>6, <2>7, <2>8, <2>9
<1> DEFINE x == [t EXCEPT !.turn = turn]
           y == [x EXCEPT !.pipe = x.pipe \o events]
<1>2. x \in TransportState /\ x.stage = t.stage /\ x.child = t.child /\ x.pipe = t.pipe
  BY <1>0 DEF TransportState
<1>3. y = [t EXCEPT !.turn = turn, !.pipe = t.pipe \o events]
  BY <1>0 DEF TransportState
<1>4. reg' = [reg EXCEPT !.tr = [reg.tr EXCEPT ![g] = y]]
  BY <1>0, <1>1, <1>3 DEF Emits, Endpoint, TransportState
<1> HIDE DEF x, t
<1>5. /\ y \in TransportState /\ y.stage = x.stage /\ y.child = x.child /\ (PipeExit(y) => PipeExit(x))
  <2>2. events \in Seq(ChildEvent) /\ \A i \in DOMAIN events : events[i].kind # "exit"
    BY <1>1
  <2>3. x \in TransportState
    BY <1>2
  <2> QED BY <2>2, <2>3, Piped
<1>6. PipeExit(y) => PipeExit(t)
  BY <1>2, <1>5 DEF PipeExit
<1> HIDE DEF y
<1>7. Follows(reg, reg')
  BY <1>0, <1>2, <1>4, <1>5, <1>6, TurnChanged DEF t
<1> QED BY <1>7, HandlerKeeps DEF ChildTurns, Follows

(* An event leaves the pipe, and is queued while its spawn is current.     *)
LEMMA Delivered == ASSUME EndpointInv, NEW g \in Spawn, Deliver(g) PROVE EndpointInv'
<1> DEFINE x == reg.tr[g]
           y == [x EXCEPT !.pipe = Tail(x.pipe)]
           r == [reg EXCEPT !.tr = [reg.tr EXCEPT ![g] = y]]
           e == Head(x.pipe)
           t == [kind |-> "event", g |-> g, ev |-> e.kind, told |-> e.told]
<1>0. reg \in Endpoint /\ x \in TransportState
  BY DEF EndpointInv, Typed, Endpoint
<1>1. x.pipe # <<>> /\ reg' \in {r, Enqueue(r, t)}
  BY <1>0 DEF Deliver, Endpoint, TransportState
<1>2. /\ Tail(x.pipe) \in Seq(ChildEvent) /\ 1 \in DOMAIN x.pipe /\ e = x.pipe[1] /\ e \in ChildEvent
      /\ \A i \in DOMAIN Tail(x.pipe) : i + 1 \in DOMAIN x.pipe /\ Tail(x.pipe)[i] = x.pipe[i + 1]
  BY <1>0, <1>1, TransportTyped
<1>3. y \in TransportState /\ y.stage = x.stage /\ y.child = x.child /\ y.pipe = Tail(x.pipe)
  BY <1>0, <1>2 DEF TransportState
<1> HIDE DEF y
<1>4. PipeExit(y) => PipeExit(x)
  BY <1>2, <1>3 DEF PipeExit
<1>5. r \in Endpoint /\ Follows(reg, r) /\ SameActivation(reg, r) /\ SameQueue(reg, r)
  BY <1>0, <1>3, <1>4, TurnChanged
<1> HIDE DEF r
<1>6. CASE reg' = r
  BY <1>5, <1>6, HandlerKeeps DEF Follows, Deliver
<1>7. CASE reg' = Enqueue(r, t)
  <2>1. /\ t \in Task /\ t.kind = "event" /\ t.g = g /\ t.ev = e.kind
    BY <1>2 DEF Task, EventTask, ChildEvent
  <2> HIDE DEF t
  <2>2. /\ reg' \in Endpoint
        /\ SameTransports(r, reg') /\ SameActivation(r, reg')
        /\ DOMAIN reg'.queue = 1..(Len(r.queue) + 1)
        /\ reg'.queue[Len(r.queue) + 1] = t
        /\ \A i \in 1..Len(r.queue) : reg'.queue[i] = r.queue[i]
        /\ DOMAIN r.queue = 1..Len(r.queue) /\ Len(r.queue) \in Nat
    BY <1>5, <1>7, <2>1, Appended, QueueDomain
  <2>3. Settling(r, reg') /\ Settling(reg, r)
    BY <1>5, <2>2, SettlingNothing
  <2>4. Settling(reg, reg')
    BY <1>5, <2>2, SettlingNothing DEF SameActivation
  <2>5. Carries(reg, reg', 0)
    <3>1. ASSUME NEW i \in DOMAIN reg'.queue, ~Quiet(reg'.queue[i])
          PROVE  i + 0 \in DOMAIN reg.queue /\ reg'.queue[i] = reg.queue[i + 0]
      <4>1. i # Len(r.queue) + 1
        BY <2>1, <2>2, <3>1 DEF Quiet
      <4>2. i \in 1..Len(r.queue) /\ i + 0 = i
        BY <2>2, <4>1
      <4> QED BY <1>5, <2>2, <4>2 DEF SameQueue
    <3> QED BY <3>1 DEF Carries
  <2>6. \A h \in Spawn : SeesExit(reg', h) => SeesExit(reg, h)
    <3>1. ASSUME NEW h \in Spawn, SeesExit(reg', h) PROVE SeesExit(reg, h)
      <4>1. SeesExit(r, h) => SeesExit(reg, h)
        BY <1>5 DEF Follows, Handles, Lowers
      <4>2. ASSUME NEW i \in DOMAIN reg'.queue, reg'.queue[i].kind = "event", reg'.queue[i].g = h,
                   reg'.queue[i].ev = "exit"
            PROVE  SeesExit(reg, h)
        <5>1. CASE i \in 1..Len(r.queue)
          BY <2>2, <4>1, <4>2, <5>1 DEF SeesExit
        <5>2. CASE i = Len(r.queue) + 1
          BY <1>2, <2>1, <2>2, <4>2, <5>2 DEF SeesExit
        <5> QED BY <2>2, <5>1, <5>2
      <4>3. ASSUME NEW i \in DOMAIN reg'.tr[h].pipe, reg'.tr[h].pipe[i].kind = "exit"
            PROVE  SeesExit(reg, h)
        BY <2>2, <4>1, <4>3 DEF SameTransports, SeesExit
      <4> QED BY <3>1, <4>2, <4>3 DEF SeesExit
    <3> QED BY <3>1
  <2>7. Lowers(reg, reg')
    <3>1. Lowers(reg, r)
      BY <1>5 DEF Follows, Handles
    <3> QED BY <2>2, <2>6, <3>1 DEF Lowers, SameTransports, Starting
  <2> QED BY <2>2, <2>4, <2>5, <2>7, HandlerKeeps DEF Handles, Deliver
<1> QED BY <1>1, <1>6, <1>7

-----------------------------------------------------------------------------
(* The steps of one transport.                                             *)

(* Transport g alone changes.                                              *)
Alone(g, r, q) ==
    /\ q \in Endpoint /\ SameActivation(r, q) /\ SameQueue(r, q)
    /\ q.cur = r.cur /\ q.spawned = r.spawned
    /\ \A h \in Spawn \ {g} : q.tr[h] = r.tr[h]

(* A transport of which only the stage, its reason and the child change.   *)
Moved(x, stage, child, why) == [x EXCEPT !.stage = stage, !.child = child, !.why = why]

(* The transport that moved.                                               *)
LEMMA Staged ==
    ASSUME NEW x \in TransportState, NEW stage \in Stages, NEW child \in Children, NEW why \in Causes
    PROVE  /\ Moved(x, stage, child, why) \in TransportState
           /\ Moved(x, stage, child, why).stage = stage /\ Moved(x, stage, child, why).child = child
           /\ Moved(x, stage, child, why).pipe = x.pipe
BY DEF TransportState, Moved

(* No exit is seen that was not seen before.                               *)
LEMMA ExitsAlone ==
    ASSUME NEW r \in Endpoint, NEW g \in Spawn, NEW q, Alone(g, r, q), q.tr[g].pipe = r.tr[g].pipe
    PROVE  \A h \in Spawn : SeesExit(q, h) => SeesExit(r, h)
<1>1. \A h \in Spawn : q.tr[h].pipe = r.tr[h].pipe
  BY DEF Alone
<1> QED BY <1>1 DEF Alone, SameQueue, SeesExit

(* The types of what the endpoint has.                                     *)
LEMMA EndpointTyped ==
    ASSUME NEW r \in Endpoint
    PROVE  /\ r.status \in Statuses /\ r.client \in Spawn \cup {0} /\ r.ready \in Spawn \cup {0}
           /\ r.cur \in Spawn \cup {0} /\ r.spawned \in Spawn \cup {0} /\ r.spawned \in Nat
           /\ r.noted \in SUBSET Spawn
           /\ \A g \in Spawn : /\ r.tr[g] \in TransportState /\ g \in Nat /\ g # 0
                               /\ r.tr[g].stage \in Stages /\ r.tr[g].child \in Children
                               /\ r.tr[g].why \in Causes
<1>1. /\ r.status \in Statuses /\ r.client \in Spawn \cup {0} /\ r.ready \in Spawn \cup {0}
      /\ r.cur \in Spawn \cup {0} /\ r.spawned \in Spawn \cup {0} /\ r.noted \in SUBSET Spawn
      /\ \A g \in Spawn : r.tr[g] \in TransportState
  BY DEF Endpoint
<1> QED BY <1>1, Numbers, TransportTyped

(* A start-up that is lost.                                                *)
LEMMA Lost ==
    ASSUME NEW r \in Endpoint, NEW g \in Spawn
    PROVE  /\ Alone(g, r, Lose(r, g))
           /\ Lose(r, g).tr[g].stage = "lost" /\ Lose(r, g).tr[g].child = r.tr[g].child
           /\ Lose(r, g).tr[g].pipe = r.tr[g].pipe
           /\ Lose(r, g).ready = (IF r.cur = g THEN 0 ELSE r.ready)
           /\ Lose(r, g).client = r.client /\ Lose(r, g).noted = r.noted
<1> DEFINE x == r.tr[g]
           why == IF r.cur = g THEN "error" ELSE "rejected"
           y == Moved(x, "lost", x.child, why)
           tr == [r.tr EXCEPT ![g] = y]
           l == [r EXCEPT !.tr[g].stage = "lost", !.tr[g].why = why]
           q == Lose(r, g)
<1>1. /\ x \in TransportState /\ why \in Causes
      /\ x.child \in Children /\ r.tr \in [Spawn -> TransportState]
  BY EndpointTyped DEF Causes, Endpoint
<1>2. y \in TransportState /\ y.stage = "lost" /\ y.child = x.child /\ y.pipe = x.pipe
  <2>1. "lost" \in Stages
    BY DEF Stages
  <2> HIDE DEF x, why
  <2> QED BY <1>1, <2>1, Staged
<1>3. q = IF r.cur = g THEN [l EXCEPT !.status = "error", !.ready = 0] ELSE l
  BY DEF Lose
<1>4. l = [r EXCEPT !.tr = tr]
  <2>1. y = [x EXCEPT !.stage = "lost", !.why = why]
    BY <1>1 DEF TransportState, Moved
  <2> HIDE DEF why, y
  <2> QED BY <1>1, <2>1 DEF Endpoint
<1> HIDE DEF l, y, q
<1>5. tr \in [Spawn -> TransportState] /\ \A h \in Spawn : tr[h] = IF h = g THEN y ELSE r.tr[h]
  BY <1>1, <1>2
<1> HIDE DEF tr, x
<1>6. "error" \in Statuses
  BY DEF Statuses
<1>7. /\ q \in Endpoint /\ SameActivation(r, q) /\ SameQueue(r, q)
      /\ q.client = r.client /\ q.cur = r.cur /\ q.spawned = r.spawned
      /\ q.noted = r.noted /\ q.tr = tr /\ q.ready = (IF r.cur = g THEN 0 ELSE r.ready)
  <2>1. CASE r.cur = g
    BY <1>3, <1>4, <1>5, <1>6, <2>1 DEF Endpoint, SameActivation, SameQueue
  <2>2. CASE r.cur # g
    BY <1>3, <1>4, <1>5, <2>2 DEF Endpoint, SameActivation, SameQueue
  <2> QED BY <2>1, <2>2
<1>8. Alone(g, r, q)
  BY <1>5, <1>7 DEF Alone
<1> QED BY <1>2, <1>5, <1>7, <1>8 DEF q, x

(* ... and disposed of.                                                    *)
LEMMA LostAndDisposed ==
    ASSUME NEW r \in Endpoint, NEW g \in Spawn
    PROVE  LET q == Dispose(Lose(r, g), g)
           IN  /\ Alone(g, r, q)
               /\ q.tr[g].stage = "lost" /\ q.tr[g].pipe = r.tr[g].pipe
               /\ q.tr[g].child = (IF r.tr[g].child \in {"live", "exited"} THEN "disposing" ELSE r.tr[g].child)
               /\ q.ready = (IF r.cur = g THEN 0 ELSE r.ready)
               /\ q.client = r.client /\ q.noted = r.noted \cup {g}
<1> DEFINE l == Lose(r, g)
           q == Dispose(l, g)
<1>1. /\ Alone(g, r, l)
      /\ l.tr[g].stage = "lost" /\ l.tr[g].child = r.tr[g].child /\ l.tr[g].pipe = r.tr[g].pipe
      /\ l.ready = (IF r.cur = g THEN 0 ELSE r.ready)
      /\ l.client = r.client /\ l.noted = r.noted
  BY Lost
<1> HIDE DEF l
<1>2. l \in Endpoint /\ g # 0
  BY <1>1, EndpointTyped DEF Alone
<1> DEFINE x == l.tr[g]
           y == [x EXCEPT !.child = IF @ \in {"live", "exited"} THEN "disposing" ELSE @]
           tr == [l.tr EXCEPT ![g] = y]
<1>3. g \in Spawn /\ l.tr \in [Spawn -> TransportState] /\ x \in TransportState
  BY <1>2 DEF Endpoint
<1>4. /\ y \in TransportState /\ y.stage = x.stage /\ y.pipe = x.pipe
      /\ y.child = IF x.child \in {"live", "exited"} THEN "disposing" ELSE x.child
  BY <1>3 DEF TransportState, Children
<1>5. q = [l EXCEPT !.noted = l.noted \cup {g}, !.tr = tr]
  BY <1>2, <1>3 DEF Dispose, Endpoint
<1> HIDE DEF y, q
<1>6. tr \in [Spawn -> TransportState] /\ \A h \in Spawn : tr[h] = IF h = g THEN y ELSE l.tr[h]
  BY <1>3, <1>4
<1> HIDE DEF tr
<1>7. l.noted \cup {g} \in SUBSET Spawn
  BY <1>2, EndpointTyped
<1>8. /\ q \in Endpoint
      /\ SameActivation(l, q) /\ SameQueue(l, q)
      /\ q.client = l.client /\ q.ready = l.ready /\ q.cur = l.cur /\ q.spawned = l.spawned
      /\ q.noted = l.noted \cup {g} /\ q.tr = tr
  BY <1>2, <1>5, <1>6, <1>7 DEF Endpoint, SameActivation, SameQueue
<1>9. SameActivation(r, q) /\ SameQueue(r, q)
  BY <1>1, <1>8 DEF Alone, SameActivation, SameQueue
<1>10. \A h \in Spawn \ {g} : q.tr[h] = r.tr[h]
  BY <1>1, <1>6, <1>8 DEF Alone
<1>11. Alone(g, r, q)
  BY <1>1, <1>8, <1>9, <1>10 DEF Alone
<1> QED BY <1>1, <1>4, <1>6, <1>8, <1>11 DEF q, l

(* What a step of one transport leaves of the calls.                       *)
LEMMA AloneKeeps ==
    ASSUME EndpointInv, NEW g \in Spawn, Alone(g, reg, reg'), at' = at, call' = call, outq' = outq,
           shut' = shut, lease' \in [holder : Spawn \cup {0}, stuck : BOOLEAN]
    PROVE  Typed' /\ Once' /\ Calls'
<1>0. Typed /\ Once /\ Calls /\ reg \in Endpoint
  BY DEF EndpointInv, Typed
<1>1. /\ reg' \in Endpoint /\ SameActivation(reg, reg') /\ SameQueue(reg, reg')
      /\ reg'.spawned = reg.spawned
  BY DEF Alone
<1>2. Typed'
  BY <1>0, <1>1 DEF Typed
<1>3. Settling(reg, reg') /\ Carries(reg, reg', 0)
  BY <1>0, <1>1, SettlingNothing, AddsNothing, CarriesOfAdds
<1>4. Once'
  BY <1>0, <1>1, <1>3, OnceKept
<1>5. reg'.acts = reg.acts /\ Gone' = Gone
  BY <1>1 DEF SameActivation, Gone
<1>6. Calls'
  BY <1>0, <1>1, <1>3, <1>5, CallsKept
<1> QED BY <1>2, <1>4, <1>6

(* Its stage and its child stay in step.                                   *)
Consistent(x) ==
    /\ x.stage \in {"none", "barrier", "lease", "factory"} => x.child = "none"
    /\ x.stage \in {"shake", "cut", "up"} => x.child # "none"
    /\ x.stage = "lost" => x.child \notin {"live", "exited"}

(* Stages and children stay in step.                                       *)
LEMMA StepwiseAlone ==
    ASSUME EndpointInv, NEW g \in Spawn, Alone(g, reg, reg'), reg.tr[g].stage # "none",
           Consistent(reg'.tr[g]),
           SeesExit(reg', g) => reg'.tr[g].child \notin {"none", "live"}
    PROVE  Stepwise'
<1>0. Stepwise /\ reg \in Endpoint /\ reg'.spawned = reg.spawned
  BY DEF EndpointInv, Transports, Typed, Alone
<1>1. ASSUME NEW h \in Spawn
      PROVE  /\ h > reg'.spawned => reg'.tr[h].stage = "none"
             /\ Consistent(reg'.tr[h])
             /\ SeesExit(reg', h) => reg'.tr[h].child \notin {"none", "live"}
  <2>1. CASE h = g
    BY <1>0, <2>1 DEF Stepwise
  <2>2. CASE h # g
    <3>1. reg'.tr[h] = reg.tr[h] /\ reg'.queue = reg.queue
      BY <2>2 DEF Alone, SameQueue
    <3>2. SeesExit(reg', h) => SeesExit(reg, h)
      BY <3>1 DEF SeesExit
    <3> QED BY <1>0, <3>1, <3>2 DEF Stepwise, Consistent
  <2> QED BY <2>1, <2>2
<1> QED BY <1>1 DEF Stepwise, Consistent

(* The pipe and the queue see no new exit.                                 *)
LEMMA NoNewExit ==
    ASSUME EndpointInv, NEW g \in Spawn, Alone(g, reg, reg'), reg'.tr[g].pipe = reg.tr[g].pipe,
           reg'.tr[g].child \in {"none", "live"} => reg.tr[g].child \in {"none", "live"}
    PROVE  SeesExit(reg', g) => reg'.tr[g].child \notin {"none", "live"}
<1>0. Stepwise /\ reg \in Endpoint
  BY DEF EndpointInv, Transports, Typed
<1>1. SeesExit(reg', g) => SeesExit(reg, g)
  BY <1>0, ExitsAlone
<1> QED BY <1>0, <1>1 DEF Stepwise

(* The lease is kept, acquired by the only claim, released or stuck.       *)
Keeps(g) == /\ lease' = lease
            /\ Claims(g)' => Claims(g)
            /\ lease.holder = g => Claims(g)' /\ reg'.tr[g].child # "stuck"
            /\ reg.tr[g].child = "stuck" => reg'.tr[g].child = "stuck"
Acquires(g) == /\ lease.holder = 0 /\ ~lease.stuck
               /\ lease' = [lease EXCEPT !.holder = g]
               /\ reg'.tr[g].stage = "factory"
Yields(g) == /\ lease' = [lease EXCEPT !.holder = IF @ = g THEN 0 ELSE @]
             /\ ~Claims(g)'
Sticks(g) == /\ Claims(g) /\ reg'.tr[g].child = "stuck"
             /\ \/ lease' = [holder |-> 0, stuck |-> TRUE]
                \/ lease' = lease /\ lease.holder # g

(* One process claims the session, whatever transport g does with the      *)
(* lease.                                                                  *)
LEMMA LeasedAlone ==
    ASSUME EndpointInv, NEW g \in Spawn, Alone(g, reg, reg'), shut' = shut,
           Keeps(g) \/ Acquires(g) \/ Yields(g) \/ Sticks(g)
    PROVE  Leased' /\ lease' \in [holder : Spawn \cup {0}, stuck : BOOLEAN]
<1>0. /\ Leased /\ lease \in [holder : Spawn \cup {0}, stuck : BOOLEAN] /\ reg \in Endpoint
      /\ 0 \notin Spawn
  BY Numbers DEF EndpointInv, Transports, Typed
<1>1. \A h \in Spawn \ {g} : reg'.tr[h] = reg.tr[h] /\ (Claims(h)' <=> Claims(h))
  BY DEF Alone, Claims
<1>2. CASE Keeps(g)
  BY <1>0, <1>1, <1>2 DEF Keeps, Leased, Claims
<1>3. CASE Acquires(g)
  <2>1. \A h \in Spawn : ~Claims(h)
    BY <1>0, <1>3 DEF Acquires, Leased
  <2>2. \A h \in Spawn : Claims(h)' => h = g
    BY <1>1, <2>1
  <2>3. lease' \in [holder : Spawn \cup {0}, stuck : BOOLEAN] /\ lease'.holder = g
    BY <1>0, <1>3 DEF Acquires
  <2> QED BY <1>3, <2>2, <2>3 DEF Acquires, Leased
<1>4. CASE Yields(g)
  <2>1. /\ lease' \in [holder : Spawn \cup {0}, stuck : BOOLEAN] /\ lease'.stuck = lease.stuck
        /\ lease'.holder = IF lease.holder = g THEN 0 ELSE lease.holder
    BY <1>0, <1>4 DEF Yields
  <2> QED BY <1>0, <1>1, <1>4, <2>1 DEF Yields, Leased
<1>5. CASE Sticks(g)
  <2>0. \/ lease' = [holder |-> 0, stuck |-> TRUE]
        \/ lease' = lease /\ lease.holder # g
    BY <1>5 DEF Sticks
  <2>1. lease' \in [holder : Spawn \cup {0}, stuck : BOOLEAN] /\ lease'.stuck
    <3>1. CASE lease' = [holder |-> 0, stuck |-> TRUE]
      BY <3>1
    <3>2. CASE lease' = lease /\ lease.holder # g
      BY <1>0, <1>5, <3>2 DEF Sticks, Leased
    <3> QED BY <2>0, <3>1, <3>2
  <2>2. \A h \in Spawn : Claims(h)' => h = g
    BY <1>0, <1>1, <1>5 DEF Sticks, Leased
  <2>3. lease'.holder = 0 \/ (lease'.holder = lease.holder /\ lease.holder # g)
    <3>1. CASE lease' = [holder |-> 0, stuck |-> TRUE]
      BY <3>1
    <3>2. CASE lease' = lease /\ lease.holder # g
      BY <3>2
    <3> QED BY <2>0, <3>1, <3>2
  <2>4. \A h \in Spawn : lease'.holder = h =>
          reg'.tr[h].stage = "factory" \/ reg'.tr[h].child \in {"live", "exited", "disposing"}
    BY <1>0, <1>1, <2>3 DEF Leased
  <2> QED BY <1>5, <2>1, <2>2, <2>4 DEF Sticks, Leased
<1> QED BY <1>2, <1>3, <1>4, <1>5

(* The client and the start-up that is ready.                              *)
LEMMA InstalledAlone ==
    ASSUME EndpointInv, NEW g \in Spawn, Alone(g, reg, reg'), at' = at, shut' = shut,
           \/ /\ reg'.client = reg.client
              /\ reg.client = g => reg'.tr[g].stage = "up" /\ reg'.tr[g].child \in {"live", "exited"}
              /\ reg'.tr[g].stage = "up" /\ reg'.tr[g].child \in {"live", "exited"} => reg.client = g
           \/ /\ reg'.client = g /\ reg.cur = g /\ shut = "no"
              /\ reg.tr[g].stage = "shake" /\ reg.tr[g].child = "live"
              /\ reg'.tr[g].stage = "up" /\ reg'.tr[g].child = "live",
           \/ reg'.ready = reg.ready
           \/ reg'.ready = 0 /\ reg.cur = g /\ ~Starting(reg', g),
           Starting(reg', g) => Starting(reg, g),
           reg.noted \subseteq reg'.noted,
           reg'.tr[g].child = "disposing" => reg.tr[g].child = "disposing" \/ g \in reg'.noted
    PROVE  Installed' /\ (shut' # "no" => reg'.client = 0)
<1>0. /\ Installed /\ Leased /\ Drained /\ reg \in Endpoint /\ 0 \notin Spawn
  BY Numbers DEF EndpointInv, Transports, Typed
<1>1. \A h \in Spawn \ {g} : reg'.tr[h] = reg.tr[h] /\ (Starting(reg', h) <=> Starting(reg, h))
  BY DEF Alone, Starting
<1>2. reg'.cur = reg.cur /\ reg.client \in Spawn \cup {0}
  BY <1>0, EndpointTyped DEF Alone
<1>3. \/ reg'.client = reg.client
      \/ reg'.client = g /\ reg.client = 0 /\ reg.ready = g
         /\ \A h \in Spawn \ {g} : reg.tr[h].child \notin {"live", "exited"}
  <2>1. ASSUME reg.cur = g, reg.tr[g].stage = "shake", reg.tr[g].child = "live"
        PROVE  /\ reg.client = 0 /\ reg.ready = g
               /\ \A h \in Spawn \ {g} : reg.tr[h].child \notin {"live", "exited"}
    <3>1. reg.ready = g
      BY <1>0, <2>1 DEF Installed, Starting
    <3>2. \A h \in Spawn \ {g} : ~Claims(h)
      BY <1>0, <2>1 DEF Leased, Claims
    <3>3. reg.client = 0
      BY <1>0, <1>2, <2>1 DEF Installed
    <3> QED BY <3>1, <3>2, <3>3 DEF Claims
  <2> QED BY <2>1
<1>4. reg'.client # 0 =>
         /\ reg'.tr[reg'.client].stage = "up"
         /\ reg'.tr[reg'.client].child \in {"live", "exited"}
         /\ reg'.client = reg'.cur
  BY <1>0, <1>1, <1>2 DEF Installed
<1>5. \A h \in Spawn :
         reg'.tr[h].stage = "up" /\ reg'.tr[h].child \in {"live", "exited"} => h = reg'.client
  BY <1>0, <1>1, <1>2, <1>3 DEF Installed
<1>6. \A h \in Spawn : reg'.cur = h /\ Starting(reg', h) => reg'.ready = h
  BY <1>0, <1>1, <1>2 DEF Installed
<1>7. \A h \in Spawn : reg'.tr[h].child = "disposing" /\ ~Gone' => h \in reg'.noted
  BY <1>0, <1>1 DEF Installed, Gone
<1>8. at'.step = "spawn" => reg'.client = 0 /\ reg'.ready = 0
  BY <1>0, <1>3 DEF Installed
<1>9. shut' # "no" => reg'.client = 0
  BY <1>0 DEF Drained
<1> QED BY <1>4, <1>5, <1>6, <1>7, <1>8, <1>9 DEF Installed

(* A step of transport g keeps the invariant if it keeps what is said of   *)
(* the transports.                                                         *)
LEMMA AloneStep ==
    ASSUME EndpointInv, NEW g \in Spawn, Alone(g, reg, reg'), at' = at, call' = call, outq' = outq,
           shut' = shut, reg.tr[g].stage # "none", Consistent(reg'.tr[g]),
           SeesExit(reg', g) => reg'.tr[g].child \notin {"none", "live"},
           Keeps(g) \/ Acquires(g) \/ Yields(g) \/ Sticks(g),
           \/ /\ reg'.client = reg.client
              /\ reg.client = g => reg'.tr[g].stage = "up" /\ reg'.tr[g].child \in {"live", "exited"}
              /\ reg'.tr[g].stage = "up" /\ reg'.tr[g].child \in {"live", "exited"} => reg.client = g
           \/ /\ reg'.client = g /\ reg.cur = g /\ shut = "no"
              /\ reg.tr[g].stage = "shake" /\ reg.tr[g].child = "live"
              /\ reg'.tr[g].stage = "up" /\ reg'.tr[g].child = "live",
           \/ reg'.ready = reg.ready
           \/ reg'.ready = 0 /\ reg.cur = g /\ ~Starting(reg', g),
           Starting(reg', g) => Starting(reg, g),
           reg.noted \subseteq reg'.noted,
           reg'.tr[g].child = "disposing" => reg.tr[g].child = "disposing" \/ g \in reg'.noted,
           shut = "done" => lease'.holder = 0 /\ reg'.tr[g].child \in {"none", "gone", "stuck"}
    PROVE  EndpointInv'
<1>1. Leased' /\ lease' \in [holder : Spawn \cup {0}, stuck : BOOLEAN]
  BY LeasedAlone
<1>2. Typed' /\ Once' /\ Calls'
  BY <1>1, AloneKeeps
<1>3. Stepwise'
  BY StepwiseAlone
<1>4. Installed' /\ (shut' # "no" => reg'.client = 0)
  BY InstalledAlone
<1>5. Drained'
  <2>1. Drained /\ \A h \in Spawn \ {g} : reg'.tr[h] = reg.tr[h]
    BY DEF EndpointInv, Transports, Alone
  <2>2. shut' = "done" =>
          lease'.holder = 0 /\ \A h \in Spawn : reg'.tr[h].child \in {"none", "gone", "stuck"}
    BY <2>1 DEF Drained
  <2> QED BY <1>4, <2>2 DEF Drained
<1> QED BY <1>1, <1>2, <1>3, <1>4, <1>5 DEF EndpointInv, Transports

(* What the invariant says of one transport.                               *)
LEMMA OfTransport ==
    ASSUME EndpointInv, NEW g \in Spawn
    PROVE  /\ reg \in Endpoint /\ lease.holder \in Spawn \cup {0} /\ g # 0
           /\ lease \in [holder : Spawn \cup {0}, stuck : BOOLEAN]
           /\ Consistent(reg.tr[g])
           /\ SeesExit(reg, g) => reg.tr[g].child \notin {"none", "live"}
           /\ reg.client = g => /\ reg.tr[g].stage = "up" /\ reg.tr[g].child \in {"live", "exited"}
                                /\ reg.cur = g
           /\ reg.tr[g].stage = "up" /\ reg.tr[g].child \in {"live", "exited"} => reg.client = g
           /\ lease.holder = g => \/ reg.tr[g].stage = "factory"
                                  \/ reg.tr[g].child \in {"live", "exited", "disposing"}
           /\ Claims(g) => lease.holder = g \/ lease.stuck
           /\ Claims(g) /\ reg.tr[g].child # "stuck" /\ shut # "failed" => lease.holder = g
           /\ shut = "done" => lease.holder = 0 /\ reg.tr[g].child \in {"none", "gone", "stuck"}
           /\ shut # "no" => reg.client = 0
           /\ reg.tr[g].stage \in Stages /\ reg.tr[g].child \in Children
<1>1. /\ Typed /\ Stepwise /\ Leased /\ Installed /\ Drained
      /\ reg \in Endpoint /\ lease \in [holder : Spawn \cup {0}, stuck : BOOLEAN]
  BY DEF EndpointInv, Transports, Typed
<1>2. Consistent(reg.tr[g]) /\ (SeesExit(reg, g) => reg.tr[g].child \notin {"none", "live"})
  BY <1>1 DEF Stepwise, Consistent
<1>3. /\ reg.client = g => /\ reg.tr[g].stage = "up" /\ reg.tr[g].child \in {"live", "exited"}
                           /\ reg.cur = g
      /\ reg.tr[g].stage = "up" /\ reg.tr[g].child \in {"live", "exited"} => reg.client = g
  BY <1>1, Numbers DEF Installed
<1>4. /\ lease.holder = g => \/ reg.tr[g].stage = "factory"
                             \/ reg.tr[g].child \in {"live", "exited", "disposing"}
      /\ Claims(g) => lease.holder = g \/ lease.stuck
      /\ Claims(g) /\ reg.tr[g].child # "stuck" /\ shut # "failed" => lease.holder = g
  BY <1>1 DEF Leased
<1>5. /\ shut = "done" => lease.holder = 0 /\ reg.tr[g].child \in {"none", "gone", "stuck"}
      /\ shut # "no" => reg.client = 0
  BY <1>1 DEF Drained
<1> QED BY <1>1, <1>2, <1>3, <1>4, <1>5, EndpointTyped

(* A start-up without a child is lost.                                     *)
LEMMA LoseStep ==
    ASSUME EndpointInv, NEW g \in Spawn, at' = at, call' = call, outq' = outq, shut' = shut,
           reg' = Lose(reg, g), reg.tr[g].stage \in {"barrier", "lease", "factory"},
           \/ lease' = lease /\ reg.tr[g].stage # "factory"
           \/ lease' = [lease EXCEPT !.holder = IF @ = g THEN 0 ELSE @]
    PROVE  EndpointInv'
<1>1. reg \in Endpoint /\ reg.tr[g].child = "none" /\ reg.client # g /\ ~SeesExit(reg, g)
  BY OfTransport DEF Consistent
<1>2. /\ Alone(g, reg, reg')
      /\ reg'.tr[g].stage = "lost" /\ reg'.tr[g].child = "none" /\ reg'.tr[g].pipe = reg.tr[g].pipe
      /\ reg'.ready = (IF reg.cur = g THEN 0 ELSE reg.ready)
      /\ reg'.client = reg.client /\ reg'.noted = reg.noted
  BY <1>1, Lost
<1>3. ~SeesExit(reg', g)
  BY <1>1, <1>2, ExitsAlone
<1>4. Consistent(reg'.tr[g]) /\ ~Starting(reg', g) /\ ~Claims(g)'
  BY <1>2 DEF Consistent, Starting, Claims
<1>5. Keeps(g) \/ Yields(g)
  <2>1. CASE lease' = lease /\ reg.tr[g].stage # "factory"
    <3>1. lease.holder # g
      BY <1>1, <2>1, OfTransport
    <3> QED BY <1>1, <1>4, <2>1, <3>1 DEF Keeps
  <2>2. CASE lease' = [lease EXCEPT !.holder = IF @ = g THEN 0 ELSE @]
    BY <1>4, <2>2 DEF Yields
  <2> QED BY <2>1, <2>2
<1>6. shut = "done" => lease'.holder = 0 /\ reg'.tr[g].child \in {"none", "gone", "stuck"}
  BY <1>2, OfTransport
<1> QED BY <1>1, <1>2, <1>3, <1>4, <1>5, <1>6, AloneStep

(* A start-up with a child is lost, and the child disposed of.             *)
LEMMA LoseAndDisposeStep ==
    ASSUME EndpointInv, NEW g \in Spawn, at' = at, call' = call, outq' = outq, shut' = shut,
           reg' = Dispose(Lose(reg, g), g), reg.tr[g].stage \in {"shake", "cut"}, lease' = lease
    PROVE  EndpointInv'
<1>1. reg \in Endpoint /\ reg.tr[g].child # "none" /\ reg.client # g /\ reg.tr[g].child \in Children
  BY OfTransport DEF Consistent
<1>2. /\ Alone(g, reg, reg')
      /\ reg'.tr[g].stage = "lost" /\ reg'.tr[g].pipe = reg.tr[g].pipe
      /\ reg'.tr[g].child = (IF reg.tr[g].child \in {"live", "exited"} THEN "disposing"
                             ELSE reg.tr[g].child)
      /\ reg'.ready = (IF reg.cur = g THEN 0 ELSE reg.ready)
      /\ reg'.client = reg.client /\ reg'.noted = reg.noted \cup {g}
  BY <1>1, LostAndDisposed
<1>3. reg'.tr[g].child \in {"disposing", "gone", "stuck"}
  BY <1>1, <1>2 DEF Children
<1>4. Consistent(reg'.tr[g]) /\ ~Starting(reg', g)
  BY <1>2, <1>3 DEF Consistent, Starting
<1>5. Keeps(g)
  BY <1>1, <1>2, <1>3, OfTransport DEF Keeps, Claims
<1>6. shut = "done" => lease'.holder = 0 /\ reg'.tr[g].child \in {"none", "gone", "stuck"}
  BY <1>2, OfTransport
<1> QED BY <1>1, <1>2, <1>3, <1>4, <1>5, <1>6, AloneStep

(* A transport whose stage, or whose child, alone changes.                 *)
StageOf(r, g, stage) == [r EXCEPT !.tr[g].stage = stage]
ChildOf(r, g, child) == [r EXCEPT !.tr[g].child = child]

(* The endpoint whose transport g has another stage.                       *)
LEMMA StageSet ==
    ASSUME NEW r \in Endpoint, NEW g \in Spawn, NEW stage \in Stages
    PROVE  /\ Alone(g, r, StageOf(r, g, stage))
           /\ StageOf(r, g, stage).tr[g].stage = stage
           /\ StageOf(r, g, stage).tr[g].child = r.tr[g].child
           /\ StageOf(r, g, stage).tr[g].pipe = r.tr[g].pipe
           /\ StageOf(r, g, stage).ready = r.ready /\ StageOf(r, g, stage).client = r.client
           /\ StageOf(r, g, stage).noted = r.noted
<1> DEFINE x == r.tr[g]
           y == [x EXCEPT !.stage = stage]
           tr == [r.tr EXCEPT ![g] = y]
           q == StageOf(r, g, stage)
<1>1. x \in TransportState /\ r.tr \in [Spawn -> TransportState]
  BY DEF Endpoint
<1>2. y \in TransportState /\ y.stage = stage /\ y.child = x.child /\ y.pipe = x.pipe
  BY <1>1 DEF TransportState
<1>3. q = [r EXCEPT !.tr = tr]
  BY <1>1 DEF StageOf, Endpoint
<1> HIDE DEF y, q
<1>4. tr \in [Spawn -> TransportState] /\ \A h \in Spawn : tr[h] = IF h = g THEN y ELSE r.tr[h]
  BY <1>1, <1>2
<1> HIDE DEF tr, x
<1>5. /\ q \in Endpoint /\ SameActivation(r, q) /\ SameQueue(r, q)
      /\ q.client = r.client /\ q.ready = r.ready /\ q.cur = r.cur /\ q.spawned = r.spawned
      /\ q.noted = r.noted /\ q.tr = tr
  BY <1>3, <1>4 DEF Endpoint, SameActivation, SameQueue
<1>6. Alone(g, r, q)
  BY <1>4, <1>5 DEF Alone
<1> QED BY <1>2, <1>4, <1>5, <1>6 DEF q, x

(* The endpoint whose transport g has another child.                       *)
LEMMA ChildSet ==
    ASSUME NEW r \in Endpoint, NEW g \in Spawn, NEW child \in Children
    PROVE  /\ Alone(g, r, ChildOf(r, g, child))
           /\ ChildOf(r, g, child).tr[g].child = child
           /\ ChildOf(r, g, child).tr[g].stage = r.tr[g].stage
           /\ ChildOf(r, g, child).tr[g].pipe = r.tr[g].pipe
           /\ ChildOf(r, g, child).ready = r.ready /\ ChildOf(r, g, child).client = r.client
           /\ ChildOf(r, g, child).noted = r.noted
<1> DEFINE x == r.tr[g]
           y == [x EXCEPT !.child = child]
           tr == [r.tr EXCEPT ![g] = y]
           q == ChildOf(r, g, child)
<1>1. x \in TransportState /\ r.tr \in [Spawn -> TransportState]
  BY DEF Endpoint
<1>2. y \in TransportState /\ y.child = child /\ y.stage = x.stage /\ y.pipe = x.pipe
  BY <1>1 DEF TransportState
<1>3. q = [r EXCEPT !.tr = tr]
  BY <1>1 DEF ChildOf, Endpoint
<1> HIDE DEF y, q
<1>4. tr \in [Spawn -> TransportState] /\ \A h \in Spawn : tr[h] = IF h = g THEN y ELSE r.tr[h]
  BY <1>1, <1>2
<1> HIDE DEF tr, x
<1>5. /\ q \in Endpoint /\ SameActivation(r, q) /\ SameQueue(r, q)
      /\ q.client = r.client /\ q.ready = r.ready /\ q.cur = r.cur /\ q.spawned = r.spawned
      /\ q.noted = r.noted /\ q.tr = tr
  BY <1>3, <1>4 DEF Endpoint, SameActivation, SameQueue
<1>6. Alone(g, r, q)
  BY <1>4, <1>5 DEF Alone
<1> QED BY <1>2, <1>4, <1>5, <1>6 DEF q, x

(* Two changes of transport g are one.                                     *)
LEMMA AloneOn ==
    ASSUME NEW r, NEW q, NEW p, NEW g, Alone(g, r, q), Alone(g, q, p)
    PROVE  Alone(g, r, p)
BY DEF Alone, SameActivation, SameQueue

(* A start-up passes the barrier, and takes the lease.                     *)
LEMMA BarrierPassed ==
    ASSUME EndpointInv, NEW g \in Spawn, SpawnBarrier(g) \/ SpawnLease(g)
    PROVE  EndpointInv'
<1> DEFINE next == IF reg.tr[g].stage = "barrier" THEN "lease" ELSE "factory"
           stays == at' = at /\ call' = call /\ outq' = outq /\ shut' = shut
           moves == /\ Current(g)
                    /\ reg' = StageOf(reg, g, next) /\ next \in Stages
                    /\ reg.tr[g].stage = "barrier" => lease' = lease
                    /\ reg.tr[g].stage = "lease" =>
                         /\ lease.holder = 0 /\ ~lease.stuck
                         /\ lease' = [lease EXCEPT !.holder = g]
<1>0. /\ stays /\ reg.tr[g].stage \in {"barrier", "lease"}
      /\ (reg' = Lose(reg, g) /\ lease' = lease) \/ moves
  <2>1. CASE SpawnBarrier(g)
    BY <2>1 DEF SpawnBarrier, Settles, StageOf, Stages
  <2>2. CASE SpawnLease(g)
    BY <2>2 DEF SpawnLease, Settles, StageOf, Stages
  <2> QED BY <2>1, <2>2
<1>1. CASE reg' = Lose(reg, g) /\ lease' = lease
  BY <1>0, <1>1, LoseStep
<1>2. CASE moves
  <2>1. /\ at' = at /\ call' = call /\ outq' = outq /\ shut' = shut
        /\ reg.tr[g].stage \in {"barrier", "lease"} /\ Current(g)
        /\ reg' = StageOf(reg, g, next) /\ next \in Stages
        /\ reg.tr[g].stage = "barrier" => lease' = lease
        /\ reg.tr[g].stage = "lease" =>
             lease.holder = 0 /\ ~lease.stuck /\ lease' = [lease EXCEPT !.holder = g]
    BY <1>0, <1>2
  <2>2. /\ Alone(g, reg, reg') /\ reg'.tr[g].stage = next
        /\ reg'.tr[g].child = reg.tr[g].child /\ reg'.tr[g].pipe = reg.tr[g].pipe
        /\ reg'.ready = reg.ready /\ reg'.client = reg.client /\ reg'.noted = reg.noted
    BY <2>1, StageSet, OfTransport
  <2>3. reg.tr[g].child = "none" /\ reg.client # g /\ ~SeesExit(reg, g) /\ reg \in Endpoint
    BY <2>1, OfTransport DEF Consistent
  <2>4. ~SeesExit(reg', g)
    BY <2>2, <2>3, ExitsAlone
  <2>5. Consistent(reg'.tr[g]) /\ Starting(reg', g) /\ Starting(reg, g)
    BY <2>1, <2>2, <2>3 DEF Consistent, Starting
  <2>6. Keeps(g) \/ Acquires(g)
    <3>1. CASE reg.tr[g].stage = "barrier"
      <4>1. lease.holder # g
        BY <2>3, <3>1, OfTransport
      <4> QED BY <2>1, <2>2, <2>3, <3>1, <4>1 DEF Keeps, Claims
    <3>2. CASE reg.tr[g].stage = "lease"
      BY <2>1, <2>2, <3>2 DEF Acquires
    <3> QED BY <2>1, <3>1, <3>2
  <2>7. shut # "done"
    BY <2>1 DEF Current, Gone
  <2> QED BY <2>1, <2>2, <2>3, <2>4, <2>5, <2>6, <2>7, AloneStep
<1> QED BY <1>0, <1>1, <1>2

(* The factory returns a transport, or fails with or without a child.      *)
LEMMA FactoryReturned ==
    ASSUME EndpointInv, NEW g \in Spawn, SpawnFactory(g)
    PROVE  EndpointInv'
<1> DEFINE up == ChildOf(reg, g, "live")
           stuck == ChildOf(Lose(reg, g), g, "stuck")
<1>0. /\ reg.tr[g].stage = "factory"
      /\ at' = at /\ call' = call /\ outq' = outq /\ shut' = shut
      /\ \/ /\ reg' = IF Current(g) /\ shut = "no" THEN StageOf(up, g, "shake")
                      ELSE Dispose(Lose(up, g), g)
            /\ lease' = lease
         \/ reg' = Lose(reg, g) /\ Releases(g)
         \/ reg' = stuck /\ lease' = [holder |-> 0, stuck |-> TRUE]
  BY DEF SpawnFactory, ChildOf, StageOf
<1>1. /\ reg.tr[g].child = "none" /\ reg.client # g /\ ~SeesExit(reg, g) /\ reg \in Endpoint
      /\ Claims(g) /\ Starting(reg, g) /\ shut # "done"
  BY <1>0, OfTransport DEF Consistent, Claims, Starting
<1>2. /\ Alone(g, reg, up) /\ up.tr[g].child = "live" /\ up.tr[g].stage = "factory"
      /\ up.tr[g].pipe = reg.tr[g].pipe /\ up.ready = reg.ready /\ up.client = reg.client
      /\ up.noted = reg.noted /\ up \in Endpoint /\ up.cur = reg.cur
  <2>1. "live" \in Children
    BY DEF Children
  <2>2. /\ Alone(g, reg, up) /\ up.tr[g].child = "live" /\ up.tr[g].stage = "factory"
        /\ up.tr[g].pipe = reg.tr[g].pipe /\ up.ready = reg.ready /\ up.client = reg.client
        /\ up.noted = reg.noted
    BY <1>0, <1>1, <2>1, ChildSet
  <2> HIDE DEF up
  <2> QED BY <2>2 DEF Alone
<1>3. CASE /\ reg' = IF Current(g) /\ shut = "no" THEN StageOf(up, g, "shake")
                     ELSE Dispose(Lose(up, g), g)
           /\ lease' = lease
  <2> HIDE DEF up
  <2>1. CASE Current(g) /\ shut = "no"
    <3>1. "shake" \in Stages
      BY DEF Stages
    <3>2. /\ Alone(g, up, reg') /\ reg'.tr[g].stage = "shake" /\ reg'.tr[g].child = "live"
          /\ reg'.tr[g].pipe = reg.tr[g].pipe /\ reg'.ready = reg.ready
          /\ reg'.client = reg.client /\ reg'.noted = reg.noted
      BY <1>2, <1>3, <2>1, <3>1, StageSet
    <3>3. Alone(g, reg, reg')
      BY <1>2, <3>2, AloneOn
    <3>4. ~SeesExit(reg', g)
      BY <1>1, <3>2, <3>3, ExitsAlone
    <3>5. Consistent(reg'.tr[g]) /\ Keeps(g)
      BY <1>1, <1>3, <3>2 DEF Consistent, Keeps, Claims
    <3> QED BY <1>0, <1>1, <2>1, <3>2, <3>3, <3>4, <3>5, AloneStep
  <2>2. CASE ~(Current(g) /\ shut = "no")
    <3>1. reg' = Dispose(Lose(up, g), g)
      BY <1>3, <2>2
    <3>2. /\ Alone(g, up, reg') /\ reg'.tr[g].stage = "lost" /\ reg'.tr[g].child = "disposing"
          /\ reg'.tr[g].pipe = reg.tr[g].pipe
          /\ reg'.ready = (IF reg.cur = g THEN 0 ELSE reg.ready)
          /\ reg'.client = reg.client /\ reg'.noted = reg.noted \cup {g}
      BY <1>2, <3>1, LostAndDisposed
    <3>3. Alone(g, reg, reg')
      BY <1>2, <3>2, AloneOn
    <3>4. ~SeesExit(reg', g)
      BY <1>1, <3>2, <3>3, ExitsAlone
    <3>5. Consistent(reg'.tr[g]) /\ Keeps(g) /\ ~Starting(reg', g)
      BY <1>1, <1>3, <3>2 DEF Consistent, Keeps, Claims, Starting
    <3> QED BY <1>0, <1>1, <3>2, <3>3, <3>4, <3>5, AloneStep
  <2> QED BY <2>1, <2>2
<1>4. CASE reg' = Lose(reg, g) /\ Releases(g)
  BY <1>0, <1>4, LoseStep DEF Releases
<1>5. CASE reg' = stuck /\ lease' = [holder |-> 0, stuck |-> TRUE]
  <2> DEFINE lost == Lose(reg, g)
  <2>1. /\ Alone(g, reg, lost) /\ lost.tr[g].stage = "lost" /\ lost.tr[g].pipe = reg.tr[g].pipe
        /\ lost.ready = (IF reg.cur = g THEN 0 ELSE reg.ready)
        /\ lost.client = reg.client /\ lost.noted = reg.noted
    BY <1>1, Lost
  <2>2. reg' = ChildOf(lost, g, "stuck")
    BY <1>5
  <2> HIDE DEF lost
  <2>3. "stuck" \in Children /\ lost \in Endpoint
    BY <2>1 DEF Children, Alone
  <2>4. /\ Alone(g, lost, reg') /\ reg'.tr[g].stage = "lost" /\ reg'.tr[g].child = "stuck"
        /\ reg'.tr[g].pipe = reg.tr[g].pipe
        /\ reg'.ready = (IF reg.cur = g THEN 0 ELSE reg.ready)
        /\ reg'.client = reg.client /\ reg'.noted = reg.noted
    BY <2>1, <2>2, <2>3, ChildSet
  <2>5. Alone(g, reg, reg')
    BY <2>1, <2>4, AloneOn
  <2>6. ~SeesExit(reg', g)
    BY <1>1, <2>4, <2>5, ExitsAlone
  <2>7. Consistent(reg'.tr[g]) /\ Sticks(g) /\ ~Starting(reg', g)
    BY <1>1, <1>5, <2>4 DEF Consistent, Sticks, Starting
  <2> QED BY <1>0, <1>1, <2>4, <2>5, <2>6, <2>7, AloneStep
<1> QED BY <1>0, <1>3, <1>4, <1>5

(* The handshake ends.                                                     *)
LEMMA Shaken == ASSUME EndpointInv, NEW g \in Spawn, SpawnShake(g) PROVE EndpointInv'
<1>0. /\ reg.tr[g].stage \in {"shake", "cut"}
      /\ at' = at /\ call' = call /\ outq' = outq /\ shut' = shut /\ lease' = lease
      /\ \/ /\ reg.tr[g].stage = "shake" /\ reg.tr[g].child = "live" /\ Current(g) /\ shut = "no"
            /\ reg' = [reg EXCEPT !.tr[g].stage = "up", !.client = g, !.ready = 0]
         \/ reg' = Dispose(Lose(reg, g), g)
  BY DEF SpawnShake
<1>1. CASE reg' = Dispose(Lose(reg, g), g)
  BY <1>0, <1>1, LoseAndDisposeStep
<1>2. CASE /\ reg.tr[g].stage = "shake" /\ reg.tr[g].child = "live" /\ Current(g) /\ shut = "no"
           /\ reg' = [reg EXCEPT !.tr[g].stage = "up", !.client = g, !.ready = 0]
  <2> DEFINE up == StageOf(reg, g, "up")
  <2>1. reg \in Endpoint /\ reg.client # g /\ Starting(reg, g)
    BY <1>2, OfTransport DEF Starting
  <2>2. "up" \in Stages
    BY DEF Stages
  <2>3. /\ Alone(g, reg, up) /\ up.tr[g].stage = "up" /\ up.tr[g].child = "live"
        /\ up.tr[g].pipe = reg.tr[g].pipe /\ up.noted = reg.noted
    BY <1>2, <2>1, <2>2, StageSet
  <2>4. reg' = [up EXCEPT !.client = g, !.ready = 0]
    BY <1>2 DEF StageOf
  <2> HIDE DEF up
  <2>5. /\ up \in Endpoint /\ SameActivation(reg, up) /\ SameQueue(reg, up) /\ up.cur = reg.cur
        /\ up.spawned = reg.spawned /\ \A h \in Spawn \ {g} : up.tr[h] = reg.tr[h]
    BY <2>3 DEF Alone
  <2>6. /\ reg' \in Endpoint /\ SameActivation(up, reg') /\ SameQueue(up, reg')
        /\ reg'.cur = up.cur /\ reg'.spawned = up.spawned /\ reg'.tr = up.tr
        /\ reg'.client = g /\ reg'.ready = 0 /\ reg'.noted = up.noted
    BY <2>4, <2>5 DEF Endpoint, SameActivation, SameQueue
  <2>7. Alone(g, up, reg')
    BY <2>6 DEF Alone
  <2>8. Alone(g, reg, reg')
    BY <2>3, <2>7, AloneOn
  <2>9. SeesExit(reg', g) => reg'.tr[g].child \notin {"none", "live"}
    BY <1>2, <2>1, <2>3, <2>6, <2>8, NoNewExit
  <2>10. Consistent(reg'.tr[g]) /\ Keeps(g) /\ ~Starting(reg', g)
    BY <1>0, <1>2, <2>3, <2>6 DEF Consistent, Keeps, Claims, Starting
  <2>11. reg.cur = g
    BY <1>2 DEF Current
  <2>12. reg.tr[g].stage # "none"
    BY <1>2
  <2>13. /\ reg'.client = g /\ shut = "no"
         /\ reg.tr[g].stage = "shake" /\ reg.tr[g].child = "live"
         /\ reg'.tr[g].stage = "up" /\ reg'.tr[g].child = "live"
    BY <1>2, <2>3, <2>6
  <2>14. reg'.ready = 0 /\ ~Starting(reg', g) /\ reg.noted \subseteq reg'.noted
    BY <2>3, <2>6, <2>10
  <2> HIDE <1>2, <2>1, <2>2, <2>3, <2>4, <2>5, <2>6, <2>7
  <2> QED BY <1>0, <2>8, <2>9, <2>10, <2>11, <2>12, <2>13, <2>14, AloneStep, SMTT(40)
<1> QED BY <1>0, <1>1, <1>2

(* A disposal ends, or fails for good.                                     *)
LEMMA DisposalEnded == ASSUME EndpointInv, NEW g \in Spawn, DisposeEnds(g) PROVE EndpointInv'
<1>0. /\ reg.tr[g].child = "disposing"
      /\ at' = at /\ call' = call /\ outq' = outq /\ shut' = shut
      /\ \/ reg' = ChildOf(reg, g, "gone") /\ Releases(g)
         \/ /\ reg' = ChildOf(reg, g, "stuck")
            /\ lease' = IF lease.holder = g THEN [holder |-> 0, stuck |-> TRUE] ELSE lease
  BY DEF DisposeEnds, ChildOf
<1>1. /\ reg \in Endpoint /\ reg.client # g /\ shut # "done" /\ Claims(g)
      /\ reg.tr[g].stage \in {"shake", "cut", "up", "lost"}
  BY <1>0, OfTransport DEF Consistent, Claims, Stages
<1>2. PICK child \in {"gone", "stuck"} : reg' = ChildOf(reg, g, child) /\ (child = "gone" => Releases(g))
                          /\ (child = "stuck" =>
                                lease' = IF lease.holder = g THEN [holder |-> 0, stuck |-> TRUE] ELSE lease)
  BY <1>0
<1>3. child \in Children
  BY DEF Children
<1>4. /\ Alone(g, reg, reg') /\ reg'.tr[g].child = child /\ reg'.tr[g].stage = reg.tr[g].stage
      /\ reg'.tr[g].pipe = reg.tr[g].pipe /\ reg'.ready = reg.ready
      /\ reg'.client = reg.client /\ reg'.noted = reg.noted
  BY <1>1, <1>2, <1>3, ChildSet
<1>5. Consistent(reg'.tr[g]) /\ ~Starting(reg', g)
  BY <1>1, <1>4 DEF Consistent, Starting
<1>6. Yields(g) \/ Sticks(g)
  <2>1. CASE child = "gone"
    BY <1>1, <1>2, <1>4, <2>1 DEF Yields, Claims, Releases
  <2>2. CASE child = "stuck"
    BY <1>1, <1>2, <1>4, <2>2 DEF Sticks
  <2> QED BY <2>1, <2>2
<1>7. SeesExit(reg', g) => reg'.tr[g].child \notin {"none", "live"}
  BY <1>4
<1> QED BY <1>0, <1>1, <1>4, <1>5, <1>6, <1>7, AloneStep

(* A child exits, and its pipe says so.                                    *)
LEMMA ChildExited == ASSUME EndpointInv, NEW g \in Spawn, ChildExits(g) PROVE EndpointInv'
<1>0. /\ reg.tr[g].child = "live"
      /\ at' = at /\ call' = call /\ outq' = outq /\ shut' = shut /\ lease' = lease
      /\ reg' = [reg EXCEPT !.tr[g].child = "exited", !.tr[g].pipe = Append(@, Event("exit", {}))]
  BY DEF ChildExits
<1>1. /\ reg \in Endpoint /\ shut # "done" /\ Claims(g)
      /\ reg.tr[g].stage \in {"shake", "cut", "up"}
      /\ reg.tr[g].stage = "up" => reg.client = g
      /\ reg.client = g => reg.tr[g].stage = "up"
  BY <1>0, OfTransport DEF Consistent, Claims, Stages
<1> DEFINE x == reg.tr[g]
           pipe == Append(x.pipe, Event("exit", {}))
           y == [x EXCEPT !.child = "exited", !.pipe = pipe]
           tr == [reg.tr EXCEPT ![g] = y]
<1>2. x \in TransportState /\ reg.tr \in [Spawn -> TransportState]
  BY <1>1 DEF Endpoint
<1>3. pipe \in Seq(ChildEvent)
  <2>1. Event("exit", {}) \in ChildEvent
    BY DEF ChildEvent, Event, EventKinds
  <2> QED BY <1>2, <2>1, TransportTyped
<1>4. reg' = [reg EXCEPT !.tr = tr]
  BY <1>0, <1>1, <1>2 DEF Endpoint
<1> HIDE DEF pipe
<1>5. y \in TransportState /\ y.stage = x.stage /\ y.child = "exited"
  BY <1>2, <1>3 DEF TransportState, Children
<1> HIDE DEF y
<1>6. tr \in [Spawn -> TransportState] /\ \A h \in Spawn : tr[h] = IF h = g THEN y ELSE reg.tr[h]
  BY <1>2, <1>5
<1> HIDE DEF tr
<1>7. /\ reg' \in Endpoint /\ SameActivation(reg, reg') /\ SameQueue(reg, reg')
      /\ reg'.client = reg.client /\ reg'.ready = reg.ready /\ reg'.cur = reg.cur
      /\ reg'.spawned = reg.spawned /\ reg'.noted = reg.noted /\ reg'.tr = tr
  BY <1>1, <1>4, <1>6 DEF Endpoint, SameActivation, SameQueue
<1>8. Alone(g, reg, reg') /\ reg'.tr[g].stage = reg.tr[g].stage /\ reg'.tr[g].child = "exited"
  BY <1>5, <1>6, <1>7 DEF Alone
<1>9. Consistent(reg'.tr[g]) /\ ~Starting(reg', g) /\ Keeps(g)
  BY <1>0, <1>1, <1>8 DEF Consistent, Starting, Keeps, Claims
<1> QED BY <1>0, <1>1, <1>7, <1>8, <1>9, AloneStep

(* Nobody gets the lease any more.                                         *)
LEMMA LeaseStuck == EndpointInv /\ OthersStick => EndpointInv'
<1> SUFFICES ASSUME EndpointInv, OthersStick PROVE EndpointInv'
  OBVIOUS
<1>1. /\ reg' = reg /\ at' = at /\ outq' = outq /\ call' = call /\ shut' = shut
      /\ lease.holder = 0 /\ lease' = [lease EXCEPT !.stuck = TRUE]
      /\ Typed /\ Transports /\ Once /\ Calls
  BY DEF OthersStick, EndpointInv
<1>2. lease' \in [holder : Spawn \cup {0}, stuck : BOOLEAN] /\ lease'.holder = lease.holder /\ lease'.stuck
  BY <1>1 DEF Typed
<1>3. Typed'
  BY <1>1, <1>2 DEF Typed
<1>4. Stepwise' /\ Installed' /\ Drained'
  BY <1>1, <1>2 DEF Transports, Stepwise, Starting, SeesExit, Installed, Drained, Gone
<1>5. Leased'
  BY <1>1, <1>2 DEF Transports, Leased, Claims
<1>6. Once'
  BY <1>1 DEF Once
<1>7. Calls'
  <2>1. Follows(reg, reg)
    BY <1>1, FollowsItself DEF Typed
  <2> QED BY <1>1, <2>1, CallsKept DEF Follows, Handles, Gone, Typed
<1> QED BY <1>3, <1>4, <1>5, <1>6, <1>7 DEF EndpointInv, Transports

-----------------------------------------------------------------------------
(* The shutdown.                                                           *)

(* What its beginning does to the endpoint, up to the lease's holder.      *)
ShutDown(r) ==
    LET g == r.client
        a == Advance(Stop([r EXCEPT !.timer = 0], g))
        s == IF Open(a) THEN SettleActivationError(a, "cancelled") ELSE a
    IN  Dispose([s EXCEPT !.client = 0, !.ready = 0,
                          !.noted = @ \cup (IF g = 0 THEN {r.ready} \ {0} ELSE {})], g)

(* What the shutdown does at once to the endpoint is what a handler may    *)
(* do.                                                                     *)
LEMMA ShutDownFollows ==
    ASSUME NEW r \in Endpoint
    PROVE  ShutDown(r) \in Endpoint /\ Follows(r, ShutDown(r)) /\ ShutDown(r).client = 0
<1> DEFINE g == r.client
           t == [r EXCEPT !.timer = 0]
           p == Stop(t, g)
           a == Advance(p)
           s == IF Open(a) THEN SettleActivationError(a, "cancelled") ELSE a
           noted == s.noted \cup (IF g = 0 THEN {r.ready} \ {0} ELSE {})
           x == [s EXCEPT !.client = 0, !.ready = 0, !.noted = noted]
           q == Dispose(x, g)
<1>1. g \in Spawn \cup {0} /\ r.ready \in Spawn \cup {0} /\ 0 \in Act \cup {0}
  BY EndpointTyped
<1>2. Marks(r, t) /\ t.client = g
  BY <1>1 DEF Marks, Endpoint, SameTransports, SameQueue
<1>3. t \in Endpoint /\ Follows(r, t)
  BY <1>2, MarksFollow
<1> HIDE DEF t
<1>4. p \in Endpoint /\ Follows(t, p) /\ p.client = g
  BY <1>1, <1>2, <1>3, StoppedFollows, Stopped
<1> HIDE DEF p
<1>5. Follows(r, p)
  BY <1>3, <1>4, FollowsOn
<1>6. /\ a \in Endpoint /\ SameActivation(p, a) /\ SameQueue(p, a)
      /\ a.client = g /\ a.ready = p.ready /\ a.cur = 0 /\ a.spawned = p.spawned
      /\ a.noted = p.noted
      /\ \A h \in Spawn :
           /\ a.tr[h].stage = IF p.tr[h].stage = "shake" THEN "cut" ELSE p.tr[h].stage
           /\ a.tr[h].pipe = p.tr[h].pipe
           /\ a.tr[h].child = p.tr[h].child
  BY <1>4, Advanced
<1> HIDE DEF a
<1>7. s \in Endpoint /\ SameTransports(a, s) /\ Settling(a, s) /\ Adds(a, s)
  <2>1. CASE Open(a)
    BY <1>6, <2>1, SettledWithError DEF Hows
  <2>2. CASE ~Open(a)
    <3>1. s = a
      BY <2>2
    <3> QED BY <1>6, <3>1 DEF SameTransports, Settling, Adds
  <2> QED BY <2>1, <2>2
<1>8. x = [s EXCEPT !.client = 0, !.ready = 0,
                    !.noted = @ \cup (IF g = 0 THEN {r.ready} \ {0} ELSE {})]
  BY <1>7 DEF Endpoint
<1>9. ShutDown(r) = q
  BY <1>8 DEF ShutDown, a, p, t
<1> HIDE DEF s
<1>10. noted \in SUBSET Spawn /\ s.noted \subseteq noted
  BY <1>1, <1>7, EndpointTyped
<1> HIDE DEF noted
<1>11. /\ x \in Endpoint /\ SameActivation(s, x) /\ SameQueue(s, x)
       /\ x.client = 0 /\ x.ready = 0 /\ x.cur = s.cur /\ x.spawned = s.spawned
       /\ x.noted = noted /\ x.tr = s.tr
  BY <1>7, <1>10 DEF Endpoint, SameActivation, SameQueue
<1> HIDE DEF x
<1>12. Settling(p, x)
  BY <1>6, <1>7, <1>11 DEF Settling, SameActivation
<1>13. Adds(p, x)
  BY <1>6, <1>7, <1>11 DEF Adds, SameQueue
<1>14. /\ x.cur = 0 /\ x.spawned = p.spawned /\ p.noted \subseteq x.noted
       /\ \A h \in Spawn :
            /\ x.tr[h].stage = p.tr[h].stage \/ (p.tr[h].stage = "shake" /\ x.tr[h].stage = "cut")
            /\ x.tr[h].child = p.tr[h].child
            /\ x.tr[h].pipe = p.tr[h].pipe
  BY <1>6, <1>7, <1>10, <1>11 DEF SameTransports
<1>15. Follows(p, q)
  BY <1>1, <1>4, <1>11, <1>12, <1>13, <1>14, LetGo
<1>16. q \in Endpoint /\ q.client = 0
  BY <1>1, <1>11, Disposed
<1> HIDE DEF q
<1>17. Follows(r, q)
  BY <1>4, <1>5, <1>15, <1>16, FollowsOn
<1> QED BY <1>9, <1>16, <1>17

(* The shutdown begins: the start-up that holds the lease is disposed of   *)
(* too.                                                                    *)
LEMMA ShutdownBegun == EndpointInv /\ ShutBegins => EndpointInv'
<1> SUFFICES ASSUME EndpointInv, ShutBegins PROVE EndpointInv'
  OBVIOUS
<1> DEFINE d == ShutDown(reg)
           h == IF Pending THEN lease.holder ELSE 0
<1>0. /\ Typed /\ Transports /\ Once /\ Calls /\ reg \in Endpoint
      /\ lease.holder \in Spawn \cup {0}
  BY DEF EndpointInv, Typed
<1>1. /\ shut = "no" /\ shut' = "draining"
      /\ at' = at /\ outq' = outq /\ call' = call /\ lease' = lease
      /\ reg' = IF h # 0 /\ d.tr[h].child # "none" THEN Dispose(d, h) ELSE d
  BY DEF ShutBegins, ShutDown
<1>2. d \in Endpoint /\ Follows(reg, d) /\ d.client = 0
  BY <1>0, ShutDownFollows
<1>3. h \in Spawn \cup {0}
  BY <1>0
<1> HIDE DEF d, h
<1>4. reg' \in Endpoint /\ Follows(reg, reg') /\ reg'.client = 0
  <2>1. CASE h # 0 /\ d.tr[h].child # "none"
    <3>1. Dispose(d, h) \in Endpoint /\ Dispose(d, h).client = 0
      BY <1>2, <1>3, Disposed
    <3>2. Follows(d, Dispose(d, h))
      BY <1>2, <1>3, <2>1, DisposedFollows
    <3> QED BY <1>0, <1>1, <1>2, <2>1, <3>1, <3>2, FollowsOn
  <2>2. CASE ~(h # 0 /\ d.tr[h].child # "none")
    BY <1>1, <1>2, <2>2
  <2> QED BY <2>1, <2>2
<1>5. Lowers(reg, reg') /\ Settling(reg, reg') /\ Carries(reg, reg', 0)
  BY <1>4 DEF Follows, Handles
<1>6. Typed'
  BY <1>0, <1>1, <1>4 DEF Typed
<1>7. Transports'
  BY <1>0, <1>1, <1>4, <1>5, TransportsKept
<1>8. Once'
  BY <1>0, <1>4, <1>5, OnceKept
<1>9. reg'.acts = reg.acts /\ reg'.spawned = reg.spawned /\ (Gone => Gone')
  BY <1>1, <1>5 DEF Settling, Lowers, Gone
<1>10. Calls'
  BY <1>0, <1>1, <1>4, <1>5, <1>9, CallsKept
<1> QED BY <1>6, <1>7, <1>8, <1>10 DEF EndpointInv

(* The shutdown ends.  It succeeds when the barrier is empty and no start- *)
(* up holds the lease: then no child is left but those whose disposal      *)
(* failed.                                                                 *)
LEMMA ShutdownEnded == EndpointInv /\ ShutEnds => EndpointInv'
<1> SUFFICES ASSUME EndpointInv, ShutEnds PROVE EndpointInv'
  OBVIOUS
<1>0. /\ Typed /\ Transports /\ Once /\ Calls /\ reg \in Endpoint
      /\ Stepwise /\ Leased /\ Installed /\ Drained
      /\ lease \in [holder : Spawn \cup {0}, stuck : BOOLEAN]
  BY DEF EndpointInv, Typed, Transports
<1>1. /\ shut = "draining" /\ shut' \in {"done", "failed"}
      /\ at' = at /\ outq' = outq /\ call' = call
      /\ reg' = [reg EXCEPT !.poison = 0, !.noted = {}, !.timer = 0]
      /\ shut' = "done" => ~Busy(reg, reg.noted) /\ ~Pending /\ lease' = lease
      /\ \/ lease' = lease
         \/ lease' = [holder |-> 0, stuck |-> TRUE]
  BY DEF ShutEnds
<1>2. /\ reg' \in Endpoint /\ SameQueue(reg, reg') /\ reg'.tr = reg.tr
      /\ reg'.client = reg.client /\ reg'.ready = reg.ready /\ reg'.cur = reg.cur
      /\ reg'.spawned = reg.spawned /\ reg'.act = reg.act /\ reg'.acts = reg.acts
      /\ reg'.ended = reg.ended
  <2>1. {} \in SUBSET Spawn /\ 0 \in Act \cup {0}
    OBVIOUS
  <2> QED BY <1>0, <1>1, <2>1 DEF Endpoint, SameQueue
<1>3. Gone' /\ ~Gone
  BY <1>1 DEF Gone
<1>4. /\ lease' \in [holder : Spawn \cup {0}, stuck : BOOLEAN]
      /\ lease' = lease \/ (lease'.holder = 0 /\ lease'.stuck)
  <2>1. CASE lease' = lease
    BY <1>0, <2>1
  <2>2. CASE lease' = [holder |-> 0, stuck |-> TRUE]
    BY <2>2
  <2> QED BY <1>1, <2>1, <2>2
<1>5. Typed'
  BY <1>0, <1>1, <1>2, <1>4 DEF Typed
<1>6. Stepwise'
  BY <1>0, <1>2 DEF Stepwise, SeesExit, SameQueue
<1>7. \A g \in Spawn : Claims(g)' <=> Claims(g)
  BY <1>2 DEF Claims
<1>8. Leased'
  <2>1. 0 \notin Spawn
    BY Numbers
  <2>2. /\ \A g \in Spawn : Claims(g)' => lease'.holder = g \/ lease'.stuck
        /\ \A g, h \in Spawn : Claims(g)' /\ Claims(h)' => g = h
    BY <1>0, <1>4, <1>7 DEF Leased
  <2>3. \A g \in Spawn : lease'.holder = g =>
          reg'.tr[g].stage = "factory" \/ reg'.tr[g].child \in {"live", "exited", "disposing"}
    BY <1>0, <1>2, <1>4, <2>1 DEF Leased
  <2>4. \A g \in Spawn : Claims(g)' /\ reg'.tr[g].child # "stuck" /\ shut' # "failed" => lease'.holder = g
    BY <1>0, <1>1, <1>2, <1>7 DEF Leased
  <2> QED BY <2>2, <2>3, <2>4 DEF Leased
<1>9. Installed'
  <2>1. \A g \in Spawn : Starting(reg', g) <=> Starting(reg, g)
    BY <1>2 DEF Starting
  <2> QED BY <1>0, <1>1, <1>2, <1>3, <2>1 DEF Installed
<1>10. Drained'
  <2>1. reg'.client = 0 /\ reg.client = 0
    BY <1>0, <1>1, <1>2 DEF Drained
  <2>2. ASSUME shut' = "done"
        PROVE  /\ lease'.holder = 0
               /\ \A g \in Spawn : reg'.tr[g].child \in {"none", "gone", "stuck"}
    <3>1. lease.holder = 0
      <4>1. SUFFICES ASSUME lease.holder # 0 PROVE FALSE
        OBVIOUS
      <4>2. lease.holder \in Spawn /\ reg.tr[lease.holder].stage = "up"
        BY <1>0, <1>1, <2>2, <4>1 DEF Pending
      <4>3. reg.tr[lease.holder].child \in {"live", "exited", "disposing"}
        BY <1>0, <4>2 DEF Leased
      <4>4. reg.tr[lease.holder].child \notin {"live", "exited"}
        BY <1>0, <2>1, <4>1, <4>2 DEF Installed
      <4>5. lease.holder \in reg.noted /\ reg.tr[lease.holder].child = "disposing"
        BY <1>0, <1>3, <4>2, <4>3, <4>4 DEF Installed
      <4> QED BY <1>1, <2>2, <4>5 DEF Busy, Disposing
    <3>2. ASSUME NEW g \in Spawn PROVE reg.tr[g].child \in {"none", "gone", "stuck"}
      <4>1. reg.tr[g].child \in Children /\ g # 0
        BY <1>0, EndpointTyped
      <4>2. reg.tr[g].child \notin {"live", "exited", "disposing"}
        BY <1>0, <1>1, <3>1, <4>1 DEF Leased, Claims
      <4> QED BY <4>1, <4>2 DEF Children
    <3> QED BY <1>1, <1>2, <2>2, <3>1, <3>2
  <2> QED BY <2>1, <2>2 DEF Drained
<1>11. Once'
  BY <1>0, <1>2 DEF Once
<1>12. Carries(reg, reg', 0)
  BY <1>0, <1>2, AddsNothing, CarriesOfAdds
<1>13. Calls'
  BY <1>0, <1>1, <1>2, <1>3, <1>12, CallsKept
<1> QED BY <1>5, <1>6, <1>8, <1>9, <1>10, <1>11, <1>13 DEF EndpointInv, Transports

-----------------------------------------------------------------------------
(* The steps of one call before its message.                               *)

(* What a step of a call does to the queue.                                *)
LEMMA TaskLowers ==
    ASSUME NEW r \in Endpoint, NEW t \in Task, t.kind # "event"
    PROVE  Lowers(r, Enqueue(r, t))
<1> DEFINE q == Enqueue(r, t)
<1>1. /\ q \in Endpoint /\ SameTransports(r, q)
      /\ DOMAIN q.queue = 1..(Len(r.queue) + 1)
      /\ q.queue[Len(r.queue) + 1] = t
      /\ \A i \in 1..Len(r.queue) : q.queue[i] = r.queue[i]
  BY Appended
<1> HIDE DEF q
<1>2. ASSUME NEW g \in Spawn, SeesExit(q, g) PROVE SeesExit(r, g)
  <2>1. q.tr = r.tr
    BY <1>1 DEF SameTransports
  <2>2. CASE \E i \in DOMAIN q.tr[g].pipe : q.tr[g].pipe[i].kind = "exit"
    BY <2>1, <2>2 DEF SeesExit
  <2>3. CASE \E i \in DOMAIN q.queue : q.queue[i].kind = "event" /\ q.queue[i].g = g /\ q.queue[i].ev = "exit"
    <3>1. PICK i \in DOMAIN q.queue : q.queue[i].kind = "event" /\ q.queue[i].g = g /\ q.queue[i].ev = "exit"
      BY <2>3
    <3>2. i \in 1..Len(r.queue)
      BY <1>1, <3>1, QueueDomain
    <3> QED BY <1>1, <3>1, <3>2, QueueDomain DEF SeesExit
  <2> QED BY <1>2, <2>2, <2>3 DEF SeesExit
<1>3. Lowers(r, q)
  BY <1>1, <1>2 DEF Lowers, SameTransports, Starting
<1> QED BY <1>3 DEF q

(* A call that waits for no task has none in the queue.                    *)
LEMMA NoTaskOf ==
    ASSUME Typed, Queued, NEW c \in Call, call[c].pc \notin {"prep", "end"}
    PROVE  \A i \in DOMAIN reg.queue : ~Concerns(reg.queue[i], c)
BY DEF Queued, Concerns

(* A task of the call is added.                                            *)
LEMMA Requeued ==
    ASSUME Typed, Queued, NEW c \in Call, call[c].pc \notin {"prep", "end"},
           NEW r \in Endpoint, SameQueue(reg, r), NEW t \in Task, Fits(t, c), reg' = Enqueue(r, t)
    PROVE  Requeues(c, 0)
<1>1. reg \in Endpoint /\ Len(r.queue) = Len(reg.queue) /\ r.queue = reg.queue
  BY DEF Typed, SameQueue
<1>2. /\ DOMAIN reg'.queue = 1..(Len(reg.queue) + 1) /\ reg'.queue = Append(r.queue, t)
      /\ reg'.queue[Len(reg.queue) + 1] = t
      /\ \A i \in 1..Len(reg.queue) : reg'.queue[i] = reg.queue[i]
  BY <1>1, Appended
<1>3. Len(reg'.queue) = Len(reg.queue) + 1 /\ Len(reg.queue) \in Nat
      /\ DOMAIN reg.queue = 1..Len(reg.queue)
  BY <1>1, <1>2, QueueDomain
<1>4. ASSUME NEW i \in DOMAIN reg'.queue
      PROVE  \/ /\ i + 0 \in DOMAIN reg.queue
                /\ reg'.queue[i] = reg.queue[i + 0] /\ ~Concerns(reg.queue[i + 0], c)
             \/ i = Len(reg'.queue) /\ Fits(reg'.queue[i], c)
  <2>1. CASE i = Len(reg.queue) + 1
    BY <1>2, <1>3, <2>1
  <2>2. CASE i # Len(reg.queue) + 1
    <3>1. i \in DOMAIN reg.queue /\ i + 0 = i
      BY <1>2, <1>3, <2>2
    <3> QED BY <1>2, <1>3, <3>1, NoTaskOf
  <2> QED BY <2>1, <2>2
<1> QED BY <1>4 DEF Requeues

(* No task of the call is added.                                           *)
LEMMA NothingAsked ==
    ASSUME Typed, Queued, NEW c \in Call, call[c].pc \notin {"prep", "end"}, Carries(reg, reg', 0)
    PROVE  Requeues(c, 0)
<1>1. \A i \in DOMAIN reg.queue : ~Concerns(reg.queue[i], c)
  BY NoTaskOf
<1> QED BY <1>1 DEF Requeues, Carries

(* The first task is the call's, and is taken.                             *)
LEMMA TaskTaken ==
    ASSUME Typed, Queued, NEW c \in Call, NEW kind \in {"prep", "accept", "fail"}, HeadIs(kind),
           Head(reg.queue).c = c, reg' \in Endpoint, Carries(reg, reg', 1)
    PROVE  Requeues(c, 1) /\ call[c].pc = (IF kind = "prep" THEN "prep" ELSE "end")
<1>1. 1 \in DOMAIN reg.queue /\ Head(reg.queue) = reg.queue[1] /\ Head(reg.queue).kind = kind
  BY Tops
<1>2. Concerns(reg.queue[1], c)
  BY <1>1 DEF Concerns
<1>3. ASSUME NEW i \in DOMAIN reg'.queue, i + 1 \in DOMAIN reg.queue PROVE ~Concerns(reg.queue[i + 1], c)
  <2>1. i + 1 # 1
    BY <1>3, QueueDomain
  <2> QED BY <1>1, <1>2, <1>3, <2>1 DEF Queued
<1>4. Requeues(c, 1)
  BY <1>3 DEF Requeues, Carries
<1>5. call[c].pc = (IF kind = "prep" THEN "prep" ELSE "end")
  BY <1>1 DEF Queued
<1> QED BY <1>4, <1>5

(* The call's own state.                                                   *)
LEMMA WentTo ==
    ASSUME Typed, NEW c \in Call, NEW pc \in BeforePcs \cup PastPcs, Goto(c, pc)
    PROVE  /\ call' \in [Call -> CallState] /\ Others(c)
           /\ call'[c].pc = pc /\ call'[c].mode = call[c].mode /\ call'[c].id = call[c].id
           /\ call'[c].via = call[c].via
<1>1. call \in [Call -> CallState] /\ call[c] \in CallState
  BY CallTyped
<1> DEFINE y == [call[c] EXCEPT !.pc = pc]
<1>2. /\ y \in CallState /\ y.pc = pc /\ y.mode = call[c].mode /\ y.id = call[c].id
      /\ y.via = call[c].via
  BY <1>1 DEF CallState
<1>3. call' = [call EXCEPT ![c] = y]
  BY <1>1 DEF Goto
<1> HIDE DEF y
<1> QED BY <1>1, <1>2, <1>3 DEF Others

(* A step of a call that is not sent yet.                                  *)
LEMMA EarlyKeeps ==
    ASSUME EndpointInv, reg' \in Endpoint, NEW shift \in {0, 1}, NEW c \in Call, Others(c),
           call' \in [Call -> CallState], outq' = outq, lease' = lease, shut' = shut,
           at' = at \/ (at' = Idle /\ call'[c].pc = "err"),
           Requeues(c, shift), Settling(reg, reg'), Lowers(reg, reg'), call[c].pc \in BeforePcs,
           call'[c].pc \in {"peek", "linger", "prep", "err"}, call'[c].mode = call[c].mode,
           call'[c].pc = "peek" => call'[c].via # 0
    PROVE  EndpointInv'
<1>0. /\ Typed /\ Transports /\ Once /\ Calls
  BY DEF EndpointInv
<1>1. Typed'
  <2>1. CASE at' = at
    BY <1>0, <2>1 DEF Typed
  <2>2. CASE at' = Idle
    BY <1>0, <2>2 DEF Typed, Idle
  <2> QED BY <2>1, <2>2
<1>2. at'.step = "spawn" => at.step = "spawn"
  BY DEF Idle
<1>3. Transports'
  BY <1>0, <1>2, TransportsKept
<1>4. Once'
  BY <1>0, OnceKept
<1>5. call'[c].mode = "none"
  BY <1>0 DEF Calls, Outgoing
<1>6. at.step = "spawn" => at'.step = "spawn" \/ call'[c].pc = "err"
  OBVIOUS
<1>7. reg'.spawned = reg.spawned /\ Gone' = Gone
  BY DEF Lowers, Gone
<1>8. Calls'
  BY <1>0, <1>5, <1>6, <1>7, EarlyCall
<1> QED BY <1>1, <1>3, <1>4, <1>8 DEF EndpointInv

(* A call asks for its first transition.                                   *)
LEMMA Asked ==
    ASSUME EndpointInv, NEW c \in Call, call[c].pc \in {"new", "peek", "linger"},
           reg' = Enqueue(reg, Ask(c)), Goto(c, "prep"),
           at' = at, outq' = outq, lease' = lease, shut' = shut
    PROVE  EndpointInv'
<1>0. /\ Typed /\ Queued /\ reg \in Endpoint
  BY DEF EndpointInv, Typed, Calls
<1>1. Ask(c) \in Task /\ Ask(c).kind = "prep" /\ Ask(c).c = c
  BY DEF Ask, Task, PrepTask
<1>2. "prep" \in BeforePcs \cup PastPcs
  BY DEF BeforePcs
<1>3. /\ call' \in [Call -> CallState] /\ Others(c)
      /\ call'[c].pc = "prep" /\ call'[c].mode = call[c].mode
  BY <1>0, <1>2, WentTo
<1>4. reg' \in Endpoint /\ SameActivation(reg, reg') /\ Lowers(reg, reg')
  BY <1>0, <1>1, Appended, TaskLowers
<1>5. Settling(reg, reg')
  BY <1>4, SettlingNothing
<1>6. Fits(Ask(c), c) /\ SameQueue(reg, reg)
  BY <1>1, <1>3 DEF Fits, Concerns, SameQueue
<1>7. Requeues(c, 0)
  BY <1>0, <1>1, <1>6, Requeued
<1> QED BY <1>3, <1>4, <1>5, <1>7, EarlyKeeps DEF BeforePcs

(* A call begins, peeks at the child or waits for the turn to settle.      *)
LEMMA Activated ==
    ASSUME EndpointInv, NEW c \in Call, Activate(c) \/ Peek(c) \/ Linger(c)
    PROVE  EndpointInv'
<1>0. /\ Typed /\ Queued /\ Outgoing /\ reg \in Endpoint /\ call[c] \in CallState
      /\ call \in [Call -> CallState]
  BY CallTyped DEF EndpointInv, Typed, Calls
<1>1. /\ at' = at /\ outq' = outq /\ lease' = lease /\ shut' = shut
      /\ call[c].pc \in {"new", "peek", "linger"}
  BY DEF Activate, Peek, Linger
<1>2. /\ Follows(reg, reg) /\ Lowers(reg, reg) /\ Settling(reg, reg) /\ Carries(reg, reg, 0)
  BY <1>0, FollowsItself DEF Follows, Handles
<1>3. CASE reg' = Enqueue(reg, Ask(c)) /\ Goto(c, "prep")
  BY <1>1, <1>3, Asked
<1>4. CASE reg' = reg /\ Goto(c, "err")
  <2>1. /\ call' \in [Call -> CallState] /\ Others(c)
        /\ call'[c].pc = "err" /\ call'[c].mode = call[c].mode
    BY <1>0, <1>4, WentTo DEF PastPcs
  <2>2. Requeues(c, 0)
    BY <1>0, <1>1, <1>2, <1>4, NothingAsked
  <2> QED BY <1>0, <1>1, <1>2, <1>4, <2>1, <2>2, EarlyKeeps DEF BeforePcs
<1>5. CASE reg' = reg /\ Goto(c, "linger")
  <2>1. /\ call' \in [Call -> CallState] /\ Others(c)
        /\ call'[c].pc = "linger" /\ call'[c].mode = call[c].mode
    BY <1>0, <1>5, WentTo DEF BeforePcs
  <2>2. Requeues(c, 0)
    BY <1>0, <1>1, <1>2, <1>5, NothingAsked
  <2> QED BY <1>0, <1>1, <1>2, <1>5, <2>1, <2>2, EarlyKeeps DEF BeforePcs
<1>6. CASE /\ reg' = reg /\ reg.client # 0
           /\ call' = [call EXCEPT ![c].pc = "peek", ![c].id = reg.act.id, ![c].via = reg.client]
  <2> DEFINE y == [call[c] EXCEPT !.pc = "peek", !.id = reg.act.id, !.via = reg.client]
  <2>1. reg.act.id \in Act \cup {0} /\ reg.client \in Spawn \cup {0}
    BY <1>0, ActivationIds, EndpointTyped
  <2>2. y \in CallState /\ y.pc = "peek" /\ y.mode = call[c].mode /\ y.via = reg.client
    BY <1>0, <2>1 DEF CallState, BeforePcs
  <2>3. call' = [call EXCEPT ![c] = y]
    BY <1>0, <1>6
  <2> HIDE DEF y
  <2>4. /\ call' \in [Call -> CallState] /\ Others(c)
        /\ call'[c].pc = "peek" /\ call'[c].mode = call[c].mode /\ call'[c].via # 0
    BY <1>0, <1>6, <2>2, <2>3 DEF Others
  <2>5. Requeues(c, 0)
    BY <1>0, <1>1, <1>2, <1>6, NothingAsked
  <2> QED BY <1>0, <1>1, <1>2, <1>6, <2>4, <2>5, EarlyKeeps DEF BeforePcs
<1>7. CASE /\ Goto(c, "err")
           /\ reg' = Enqueue(reg, [kind |-> "detach", only |-> "turn", id |-> call[c].id])
  <2> DEFINE t == [kind |-> "detach", only |-> "turn", id |-> call[c].id]
  <2>1. /\ call' \in [Call -> CallState] /\ Others(c)
        /\ call'[c].pc = "err" /\ call'[c].mode = call[c].mode
    BY <1>0, <1>7, WentTo DEF PastPcs
  <2>2. t \in OwnTask /\ reg' = Enqueue(reg, t)
    BY <1>0, <1>7 DEF CallState, OwnTask, DetachTask
  <2> HIDE DEF t
  <2>3. /\ reg' \in Endpoint /\ SameTransports(reg, reg') /\ SameActivation(reg, reg')
        /\ Adds(reg, reg')
    BY <1>0, <2>2, OwnAppended
  <2>4. Settling(reg, reg')
    BY <2>3, SettlingNothing
  <2>5. Lowers(reg, reg') /\ Carries(reg, reg', 0)
    BY <1>0, <2>3, <2>4, OfActivation DEF Follows, Handles
  <2>6. Requeues(c, 0)
    BY <1>0, <1>1, <2>5, NothingAsked
  <2> QED BY <1>1, <2>1, <2>3, <2>4, <2>5, <2>6, EarlyKeeps DEF BeforePcs
<1> QED BY <1>3, <1>4, <1>5, <1>6, <1>7 DEF Activate, Peek, Linger

(* The first task, and what is left of the endpoint when it is done.       *)
LEMMA MarkedPop ==
    ASSUME Typed, reg.queue # <<>>, NEW r \in Endpoint, Marks(reg, r)
    PROVE  Pop(r) \in Endpoint /\ Handles(reg, Pop(r), 1)
<1>1. reg \in Endpoint /\ r.queue = reg.queue
  BY DEF Typed, Marks, SameQueue
<1>2. Pop(r) \in Endpoint /\ Handles(r, Pop(r), 1)
  BY <1>1, Popped
<1> DEFINE q == Pop(r)
<1> HIDE DEF q
<1>3. Follows(reg, r)
  BY <1>1, MarksFollow
<1>4. Carries(reg, Pop(r), 1)
  BY <1>1, <1>2 DEF Handles, Carries
<1>5. Settling(reg, Pop(r))
  BY <1>2 DEF Handles, Settling, Marks
<1>6. Lowers(reg, Pop(r))
  <2>1. r.tr = reg.tr /\ r.queue = reg.queue
    BY <1>1 DEF Marks, SameTransports
  <2>2. \A g \in Spawn : (SeesExit(r, g) <=> SeesExit(reg, g)) /\ (Starting(r, g) <=> Starting(reg, g))
    BY <2>1 DEF SeesExit, Starting
  <2> QED BY <1>2, <2>1, <2>2 DEF Handles, Lowers, Marks, SameTransports
<1> QED BY <1>2, <1>4, <1>5, <1>6 DEF Handles

(* A call that is refused.                                                 *)
LEMMA Refused ==
    ASSUME EndpointInv, NEW c \in Call, HeadIs("prep"), Head(reg.queue).c = c,
           NEW r \in Endpoint, Marks(reg, r), Reject(c, r), lease' = lease, shut' = shut
    PROVE  EndpointInv'
<1>0. /\ Typed /\ Queued /\ reg.queue # <<>>
      /\ reg' = Pop(r) /\ Goto(c, "err") /\ at' = Idle /\ outq' = outq
  BY DEF EndpointInv, Calls, Reject, HeadIs
<1>1. reg' \in Endpoint /\ Lowers(reg, reg') /\ Settling(reg, reg') /\ Carries(reg, reg', 1)
  BY <1>0, MarkedPop DEF Handles
<1>2. Requeues(c, 1) /\ call[c].pc = "prep"
  BY <1>0, <1>1, TaskTaken
<1>3. /\ call' \in [Call -> CallState] /\ Others(c)
      /\ call'[c].pc = "err" /\ call'[c].mode = call[c].mode
  BY <1>0, WentTo DEF PastPcs
<1> QED BY <1>0, <1>1, <1>2, <1>3, EarlyKeeps DEF BeforePcs

-----------------------------------------------------------------------------
(* The first transition of a call: what it waits for, and how it ends.     *)

(* The transition goes on to wait for something.                           *)
LEMMA Waited ==
    ASSUME EndpointInv, reg' \in Endpoint, Follows(reg, reg'),
           at' \in [step : {"none", "dispose", "trust", "spawn"}, waits : SUBSET Spawn,
                    mode : {"none", "steer", "prompt"}],
           at.step # "spawn", at'.step # "spawn",
           call' = call, outq' = outq, lease' = lease, shut' = shut
    PROVE  EndpointInv'
<1>0. /\ Typed /\ Transports /\ Once /\ Calls
      /\ Lowers(reg, reg') /\ Settling(reg, reg') /\ Carries(reg, reg', 0)
  BY DEF EndpointInv, Follows, Handles
<1>1. Typed'
  BY <1>0 DEF Typed
<1>2. Transports'
  BY <1>0, TransportsKept
<1>3. Once'
  BY <1>0, OnceKept
<1>4. reg'.acts = reg.acts /\ reg'.spawned = reg.spawned /\ Gone' = Gone
  BY <1>0 DEF Settling, Lowers, Gone
<1>5. Calls'
  BY <1>0, <1>4, CallsKept
<1> QED BY <1>1, <1>2, <1>3, <1>5 DEF EndpointInv

(* While its first transition is under way the call is not counted yet.    *)
LEMMA NotPast ==
    ASSUME Typed, Counted, NEW c \in Call, call[c].pc = "prep"
    PROVE  /\ c \notin Past /\ Cardinality(Past) \in Nat /\ Cardinality(Past) + 1 <= Cardinality(Call)
           /\ reg.acts <= Cardinality(Past) + (IF at.step = "spawn" THEN 1 ELSE 0)
           /\ reg.spawned <= Cardinality(Past)
<1>1. c \notin Past
  BY DEF Past, PastPcs, OutPcs
<1>2. Cardinality(Past) \in Nat /\ Cardinality(Past) < Cardinality(Call) /\ Cardinality(Call) \in Nat
  BY <1>1, PastCounts, Numbers
<1> QED BY <1>1, <1>2 DEF Counted

(* The activation that is made, or the open one.                           *)
LEMMA Joined ==
    ASSUME Typed, Once, Counted, NEW c \in Call, call[c].pc = "prep", at.step # "spawn",
           NEW r \in Endpoint, Marks(reg, r)
    PROVE  /\ Join(r) \in Endpoint /\ SameTransports(reg, Join(r)) /\ SameQueue(reg, Join(r))
           /\ Join(r).act.id = Join(r).acts /\ Join(r).act.id # 0 /\ Join(r).ended = reg.ended
           /\ \/ /\ Join(r).acts = reg.acts /\ Join(r).act.id = reg.act.id
                 /\ Join(r).poison = reg.poison
              \/ Join(r).acts = reg.acts + 1
           /\ Join(r).acts <= Cardinality(Past) + 1
<1>1. /\ r.act.id = reg.act.id /\ r.acts = reg.acts /\ r.poison = reg.poison /\ r.ended = reg.ended
      /\ SameTransports(reg, r) /\ SameQueue(reg, r)
  BY DEF Marks
<1>2. /\ reg.acts \in Nat /\ Cardinality(Past) \in Nat /\ reg.acts <= Cardinality(Past)
      /\ Cardinality(Past) + 1 <= Cardinality(Call) /\ Cardinality(Call) \in Nat
  BY NotPast, CallTyped, Numbers
<1>3. CASE Open(r)
  <2>1. Join(r) = r
    BY <1>3 DEF Join
  <2> QED BY <1>1, <1>2, <1>3, <2>1 DEF Once, Open
<1>4. CASE ~Open(r)
  <2> DEFINE act == [NoAct EXCEPT !.id = r.acts + 1]
             q == [r EXCEPT !.acts = r.acts + 1, !.act = act, !.poison = 0]
  <2>1. r.acts + 1 \in Act
    BY <1>1, <1>2 DEF Act
  <2>2. act \in Activation /\ act.id = r.acts + 1
    BY <2>1, NoActivation DEF Activation
  <2>3. Join(r) = q
    BY <1>4 DEF Join, Endpoint
  <2> HIDE DEF act
  <2>4. /\ q \in Endpoint /\ SameTransports(r, q) /\ SameQueue(r, q)
        /\ q.act = act /\ q.acts = r.acts + 1 /\ q.ended = r.ended
    BY <2>1, <2>2 DEF Endpoint, SameTransports, SameQueue
  <2> HIDE DEF q
  <2>5. SameTransports(reg, q) /\ SameQueue(reg, q)
    BY <1>1, <2>4 DEF SameTransports, SameQueue
  <2>6. q.act.id = q.acts /\ q.acts = reg.acts + 1 /\ q.act.id # 0 /\ q.ended = reg.ended
    BY <1>1, <1>2, <2>2, <2>4
  <2>7. q.acts <= Cardinality(Past) + 1
    BY <1>2, <2>6
  <2> QED BY <2>3, <2>4, <2>5, <2>6, <2>7
<1> QED BY <1>3, <1>4

(* A new activation is the newest, and has not ended.                      *)
LEMMA OnceJoined ==
    ASSUME Typed, Once, reg' \in Endpoint, reg'.act.id = reg'.acts, reg'.ended = reg.ended,
           \/ reg'.acts = reg.acts /\ reg'.act.id = reg.act.id
           \/ reg'.acts = reg.acts + 1
    PROVE  Once'
<1>1. /\ reg.acts \in Nat /\ Act \subseteq Nat \ {0}
      /\ reg.act.id \in Act \cup {0} /\ reg'.act.id \in Act \cup {0}
  BY CallTyped, Numbers, ActivationIds
<1>2. reg'.act.id # 0 => reg'.act.id = reg'.acts /\ reg'.ended[reg'.act.id] = "no"
  <2>1. CASE reg'.acts = reg.acts /\ reg'.act.id = reg.act.id
    BY <2>1 DEF Once
  <2>2. CASE reg'.acts = reg.acts + 1
    <3>1. reg'.act.id # 0 => reg'.act.id \in Act /\ reg'.act.id > reg.acts
      BY <1>1, <2>2
    <3> QED BY <3>1 DEF Once
  <2> QED BY <2>1, <2>2
<1>3. \A i \in Act : i > reg'.acts => reg'.ended[i] = "no"
  BY <1>1 DEF Once
<1>4. \A i \in Act : reg'.ended[i] # "twice"
  BY DEF Once
<1> QED BY <1>2, <1>3, <1>4 DEF Once

(* What is left of an endpoint whose first task is done.                   *)
LEMMA PopFields ==
    ASSUME NEW r \in Endpoint, r.queue # <<>>
    PROVE  /\ Pop(r) \in Endpoint /\ SameTransports(r, Pop(r)) /\ SameActivation(r, Pop(r))
           /\ Carries(r, Pop(r), 1)
           /\ \A g \in Spawn : SeesExit(Pop(r), g) => SeesExit(r, g)
<1>1. Pop(r) \in Endpoint /\ Handles(r, Pop(r), 1)
  BY Popped
<1>2. SameTransports(r, Pop(r)) /\ SameActivation(r, Pop(r))
  BY DEF Pop, Endpoint, SameTransports, SameActivation
<1> QED BY <1>1, <1>2 DEF Handles, Lowers

(* The transports do not change.                                           *)
LEMMA TransportsSame ==
    ASSUME NEW r \in Endpoint, NEW q \in Endpoint, SameTransports(r, q),
           \A g \in Spawn : SeesExit(q, g) => SeesExit(r, g)
    PROVE  Lowers(r, q)
BY DEF Lowers, SameTransports

(* Nor do the exits that are on their way.                                 *)
LEMMA SameExits ==
    ASSUME NEW r, NEW q, SameTransports(r, q), SameQueue(r, q)
    PROVE  \A g \in Spawn : SeesExit(q, g) => SeesExit(r, g)
BY DEF SameTransports, SameQueue, SeesExit

(* The mode of a message.                                                  *)
LEMMA ModeOf == ASSUME NEW r PROVE Mode(r) \in {"steer", "prompt"}
BY DEF Mode

(* The call waits for the barriers of its spawn.                           *)
LEMMA SpawnAwaited ==
    ASSUME EndpointInv, NEW c \in Call, call[c].pc = "prep", at.step # "spawn",
           NEW r \in Endpoint, Marks(reg, r), r.client = 0, r.ready = 0,
           Wait("spawn", Join(r), r.noted, Mode(r)), lease' = lease, shut' = shut
    PROVE  EndpointInv'
<1>0. /\ Typed /\ Transports /\ Once /\ Calls /\ reg \in Endpoint
      /\ Counted /\ Queued /\ Outgoing /\ Poisoned
  BY DEF EndpointInv, Typed, Calls
<1>1. /\ reg' = Join(r) /\ call' = call /\ outq' = outq
      /\ at' = [step |-> "spawn", waits |-> r.noted, mode |-> Mode(r)]
  BY DEF Wait
<1>2. /\ reg' \in Endpoint /\ SameTransports(reg, reg') /\ SameQueue(reg, reg')
      /\ reg'.act.id = reg'.acts /\ reg'.act.id # 0 /\ reg'.ended = reg.ended
      /\ \/ reg'.acts = reg.acts /\ reg'.act.id = reg.act.id /\ reg'.poison = reg.poison
         \/ reg'.acts = reg.acts + 1
      /\ reg'.acts <= Cardinality(Past) + 1
  BY <1>0, <1>1, Joined
<1>3. at' \in [step : {"none", "dispose", "trust", "spawn"}, waits : SUBSET Spawn,
               mode : {"none", "steer", "prompt"}] /\ at'.mode # "none" /\ at'.step = "spawn"
  BY <1>1, ModeOf, EndpointTyped
<1>4. Typed'
  BY <1>0, <1>1, <1>2, <1>3 DEF Typed
<1>5. Lowers(reg, reg')
  BY <1>0, <1>2, SameExits, TransportsSame
<1>6. reg'.client = 0 /\ reg'.ready = 0
  BY <1>2 DEF Marks, SameTransports
<1>7. Transports'
  BY <1>0, <1>2, <1>5, <1>6, TransportsKept
<1>8. Once'
  BY <1>0, <1>2, OnceJoined
<1>9. Calls'
  <2>1. reg.acts \in Nat /\ reg'.acts \in Nat /\ reg.acts <= reg'.acts
    BY <1>0, <1>2, CallTyped
  <2>2. Past' = Past /\ reg'.spawned = reg.spawned /\ Gone' = Gone
    BY <1>1, <1>2 DEF Past, SameTransports, Gone
  <2>3. Counted'
    BY <1>0, <1>2, <1>3, <2>2 DEF Counted
  <2>4. Queued'
    BY <1>0, <1>1, <1>2, AddsNothing, CarriesOfAdds, QueuedKept
  <2>5. Outgoing'
    <3>1. \A d \in Call : call'[d].mode # "none" => call'[d].id \in 1..reg'.acts
      BY <1>0, <1>1, <2>1, CallTyped DEF Outgoing
    <3> QED BY <1>0, <1>1, <3>1 DEF Outgoing
  <2>6. Poisoned'
    <3>1. ASSUME NEW d \in Call, FailedCall(d)'
          PROVE  /\ reg'.act.id = call'[d].id /\ ~Gone' => reg'.poison = call'[d].id
                 /\ \A e \in Call : call'[e].id = call'[d].id => call'[e].pc \notin {"ready", "write", "rpc"}
      <4>1. FailedCall(d)
        BY <1>1, <1>2, <3>1 DEF FailedCall, SameQueue
      <4>2. call[d].id \in 1..reg.acts
        BY <1>0, <4>1 DEF FailedCall, Outgoing
      <4>3. call[d].id \in Nat /\ call[d].id <= reg.acts
        BY <2>1, <4>2
      <4>4. reg'.act.id = call'[d].id /\ ~Gone' => reg'.poison = call'[d].id
        BY <1>0, <1>1, <1>2, <2>1, <2>2, <4>1, <4>3 DEF Poisoned
      <4> QED BY <1>0, <1>1, <4>1, <4>4 DEF Poisoned
    <3> QED BY <3>1 DEF Poisoned
  <2> QED BY <2>3, <2>4, <2>5, <2>6 DEF Calls
<1> QED BY <1>4, <1>7, <1>8, <1>9 DEF EndpointInv

(* The call joins the outbound queue.                                      *)
LEMMA PreparedCall ==
    ASSUME EndpointInv, NEW c \in Call, HeadIs("prep"), Head(reg.queue).c = c,
           NEW mode \in {"steer", "prompt"}, NEW j \in Endpoint, SameQueue(reg, j),
           Prepared(c, j, mode), j.client # 0 \/ j.ready # 0,
           j.act.id = j.acts, j.act.id # 0, j.ended = reg.ended,
           \/ j.acts = reg.acts /\ j.act.id = reg.act.id /\ j.poison = reg.poison
           \/ j.acts = reg.acts + 1,
           j.acts <= Cardinality(Past) + 1, j.spawned <= Cardinality(Past) + 1,
           lease' = lease, shut' = shut
    PROVE  Typed' /\ Once' /\ Calls' /\ at'.step = "none"
<1>0. /\ Typed /\ Once /\ Calls /\ Counted /\ Queued /\ reg \in Endpoint /\ reg.queue # <<>>
      /\ j.queue = reg.queue
  BY DEF EndpointInv, Typed, Calls, HeadIs, SameQueue
<1> DEFINE via == IF j.client # 0 THEN j.client ELSE j.ready
           y == [pc |-> "out", id |-> j.act.id, mode |-> mode, ans |-> "none", via |-> via]
<1>1. reg' = Pop(j) /\ at' = Idle /\ call' = [call EXCEPT ![c] = y] /\ outq' = Append(outq, c)
  BY DEF Prepared
<1>2. via \in Spawn \cup {0} /\ via # 0 /\ j.act.id \in Act \cup {0}
  BY EndpointTyped, ActivationIds
<1> HIDE DEF via
<1>3. y \in CallState /\ y.pc = "out" /\ y.mode = mode /\ y.id = j.act.id /\ y.via = via
  BY <1>2 DEF CallState, PastPcs, OutPcs
<1> HIDE DEF y
<1>4. /\ reg' \in Endpoint /\ SameTransports(j, reg') /\ SameActivation(j, reg')
      /\ Carries(j, reg', 1)
  BY <1>0, <1>1, PopFields
<1>5. Carries(reg, reg', 1)
  BY <1>0, <1>4 DEF Carries
<1>6. Requeues(c, 1) /\ call[c].pc = "prep"
  BY <1>0, <1>5, <1>4, TaskTaken
<1>7. /\ call' \in [Call -> CallState] /\ Others(c) /\ call'[c] = y
  BY <1>0, <1>1, <1>3, CallTyped DEF Others
<1>8. Typed'
  <2>1. outq' \in Seq(Call)
    BY <1>0, <1>1, CallTyped
  <2> QED BY <1>0, <1>1, <1>4, <1>7, <2>1 DEF Typed, Idle
<1>9. /\ reg'.act.id = reg'.acts /\ reg'.act.id # 0 /\ reg'.ended = reg.ended
      /\ \/ reg'.acts = reg.acts /\ reg'.act.id = reg.act.id /\ reg'.poison = reg.poison
         \/ reg'.acts = reg.acts + 1
      /\ reg'.acts = j.acts /\ reg'.spawned = j.spawned /\ reg'.act.id = j.act.id
  BY <1>4 DEF SameActivation, SameTransports
<1>10. Once'
  BY <1>0, <1>4, <1>9, OnceJoined
<1>11. Counted'
  <2>1. c \notin Past /\ c \in Past' /\ Past \subseteq Past'
    <3>1. c \notin Past /\ c \in Past'
      BY <1>3, <1>6, <1>7 DEF Past, PastPcs, OutPcs
    <3> QED BY <1>7, <3>1 DEF Past, Others
  <2>2. Cardinality(Past) + 1 <= Cardinality(Past') /\ Cardinality(Past') \in Nat
    BY <2>1, PastGrows
  <2>3. /\ Cardinality(Past) \in Nat /\ reg'.acts \in Nat /\ reg'.spawned \in Nat
    BY <1>4, EndpointTyped, ActivationIds, Numbers, PastCounts
  <2>4. at'.step # "spawn"
    BY <1>1 DEF Idle
  <2>5. reg'.acts <= Cardinality(Past') + 0 /\ reg'.spawned <= Cardinality(Past')
    BY <1>9, <2>2, <2>3
  <2>6. Cardinality(Past') = Cardinality(Past)'
    OBVIOUS
  <2> QED BY <2>4, <2>5, <2>6 DEF Counted
<1>12. Gone' = Gone
  BY DEF Gone
<1>13. Calls'
  BY <1>0, <1>1, <1>2, <1>3, <1>4, <1>6, <1>7, <1>9, <1>11, <1>12, JoinsOut
<1> QED BY <1>1, <1>8, <1>10, <1>13 DEF Idle

(* The transition is over, with an open transport: the call joins the      *)
(* outbound queue.                                                         *)
LEMMA PreparedOpen ==
    ASSUME EndpointInv, NEW c \in Call, HeadIs("prep"), Head(reg.queue).c = c, at.step # "spawn",
           NEW r \in Endpoint, Marks(reg, r), r.client # 0 \/ r.ready # 0,
           Prepared(c, Join(r), Mode(r)), lease' = lease, shut' = shut
    PROVE  EndpointInv'
<1>0. /\ Typed /\ Once /\ Transports /\ Queued /\ Counted /\ reg \in Endpoint /\ reg.queue # <<>>
  BY DEF EndpointInv, Typed, Calls, HeadIs
<1>1. call[c].pc = "prep"
  BY <1>0, Tops DEF Queued
<1> DEFINE j == Join(r)
<1>2. /\ j \in Endpoint /\ SameTransports(reg, j) /\ SameQueue(reg, j)
      /\ j.act.id = j.acts /\ j.act.id # 0 /\ j.ended = reg.ended
      /\ \/ j.acts = reg.acts /\ j.act.id = reg.act.id /\ j.poison = reg.poison
         \/ j.acts = reg.acts + 1
      /\ j.acts <= Cardinality(Past) + 1
  BY <1>0, <1>1, Joined
<1>3. Prepared(c, j, Mode(r)) /\ Mode(r) \in {"steer", "prompt"}
  BY ModeOf
<1> HIDE DEF j
<1>4. /\ j.client # 0 \/ j.ready # 0
      /\ j.spawned = reg.spawned /\ j.queue = reg.queue
  BY <1>2 DEF Marks, SameTransports, SameQueue
<1>5. j.spawned <= Cardinality(Past) + 1
  BY <1>0, <1>1, <1>4, NotPast, CallTyped
<1>6. Typed' /\ Once' /\ Calls' /\ at'.step = "none"
  BY <1>2, <1>3, <1>4, <1>5, PreparedCall
<1>7. reg' = Pop(j)
  BY <1>3 DEF Prepared
<1>8. /\ reg' \in Endpoint /\ SameTransports(j, reg')
      /\ \A g \in Spawn : SeesExit(reg', g) => SeesExit(j, g)
  BY <1>0, <1>2, <1>4, <1>7, PopFields
<1>9. \A g \in Spawn : SeesExit(j, g) => SeesExit(reg, g)
  BY <1>2, SameExits
<1>10. SameTransports(reg, reg')
  BY <1>2, <1>8 DEF SameTransports
<1>11. Lowers(reg, reg')
  BY <1>0, <1>8, <1>9, <1>10, TransportsSame
<1>12. Transports'
  BY <1>0, <1>6, <1>8, <1>11, TransportsKept
<1> QED BY <1>6, <1>12 DEF EndpointInv

(* The activation is made or joined, and the call waits for a spawn, or is *)
(* sent on.                                                                *)
LEMMA AllocateKeeps ==
    ASSUME EndpointInv, NEW c \in Call, HeadIs("prep"), Head(reg.queue).c = c, at.step # "spawn",
           NEW r \in Endpoint, Marks(reg, r), Allocate(c, r), shut' = shut
    PROVE  EndpointInv'
<1>1. call[c].pc = "prep" /\ lease' = lease
  BY Tops DEF EndpointInv, Calls, Queued, Allocate
<1>2. CASE r.client = 0 /\ r.ready = 0
  BY <1>1, <1>2, SpawnAwaited DEF Allocate
<1>3. CASE ~(r.client = 0 /\ r.ready = 0)
  BY <1>1, <1>3, PreparedOpen DEF Allocate
<1> QED BY <1>2, <1>3

(* A change of nothing.                                                    *)
LEMMA MarksItself == ASSUME NEW r \in Endpoint PROVE Marks(r, r)
BY DEF Marks, SameTransports, SameQueue

(* A change of the status.                                                 *)
LEMMA StatusMarks ==
    ASSUME NEW r \in Endpoint, NEW status \in Statuses
    PROVE  [r EXCEPT !.status = status] \in Endpoint /\ Marks(r, [r EXCEPT !.status = status])
<1>1. [r EXCEPT !.status = status] \in Endpoint
  BY DEF Endpoint
<1> QED BY <1>1 DEF Endpoint, Marks, SameTransports, SameQueue

(* The branch vouches for the endpoint again.                              *)
LEMMA TrustedMarks == ASSUME NEW r \in Endpoint PROVE Trusted(r) \in Endpoint /\ Marks(r, Trusted(r))
<1> DEFINE status == IF r.status = "unavailable" THEN "detached" ELSE r.status
<1>1. status \in Statuses
  BY EndpointTyped DEF Statuses
<1>2. Trusted(r) = [r EXCEPT !.status = status]
  BY DEF Trusted, Endpoint
<1> HIDE DEF status
<1> QED BY <1>1, <1>2, StatusMarks

(* The branch is asked before the transition goes on.                      *)
LEMMA TrustAwaited ==
    ASSUME EndpointInv, at.step # "spawn", Wait("trust", reg, {}, "none"),
           lease' = lease, shut' = shut
    PROVE  EndpointInv'
<1>1. /\ reg' = reg /\ call' = call /\ outq' = outq /\ reg \in Endpoint
      /\ at' = [step |-> "trust", waits |-> {}, mode |-> "none"]
  BY DEF Wait, EndpointInv, Typed
<1>2. at' \in [step : {"none", "dispose", "trust", "spawn"}, waits : SUBSET Spawn,
               mode : {"none", "steer", "prompt"}] /\ at'.step = "trust"
  BY <1>1
<1> QED BY <1>1, <1>2, FollowsItself, Waited

(* A failed endpoint lets go of its transport first.                       *)
LEMMA DisposeAwaited ==
    ASSUME EndpointInv, at.step # "spawn",
           LET a == [Advance(reg) EXCEPT !.client = 0, !.ready = 0]
               d == Dispose(a, reg.client)
           IN  Wait("dispose", d, d.noted, "none"),
           lease' = lease, shut' = shut
    PROVE  EndpointInv'
<1> DEFINE v == Advance(reg)
           a == [v EXCEPT !.client = 0, !.ready = 0]
           d == Dispose(a, reg.client)
<1>0. reg \in Endpoint /\ reg.client \in Spawn \cup {0}
  BY EndpointTyped DEF EndpointInv, Typed
<1>1. /\ reg' = d /\ call' = call /\ outq' = outq
      /\ at' = [step |-> "dispose", waits |-> d.noted, mode |-> "none"]
  BY DEF Wait
<1>2. /\ v \in Endpoint
      /\ SameActivation(reg, v) /\ SameQueue(reg, v)
      /\ v.cur = 0 /\ v.spawned = reg.spawned /\ v.noted = reg.noted
      /\ \A h \in Spawn :
           /\ v.tr[h].stage = IF reg.tr[h].stage = "shake" THEN "cut" ELSE reg.tr[h].stage
           /\ v.tr[h].pipe = reg.tr[h].pipe
           /\ v.tr[h].child = reg.tr[h].child
  BY <1>0, Advanced
<1> HIDE DEF v
<1>3. /\ a \in Endpoint /\ SameActivation(v, a) /\ SameQueue(v, a)
      /\ a.client = 0 /\ a.ready = 0 /\ a.cur = v.cur /\ a.spawned = v.spawned
      /\ a.noted = v.noted /\ a.tr = v.tr
  <2>1. a \in Endpoint
    BY <1>2, ZenonT(60) DEF Endpoint
  <2>2. SameActivation(v, a) /\ SameQueue(v, a)
    BY <1>2 DEF Endpoint, SameActivation, SameQueue
  <2>3. /\ a.client = 0 /\ a.ready = 0 /\ a.cur = v.cur /\ a.spawned = v.spawned
        /\ a.noted = v.noted /\ a.tr = v.tr
    BY <1>2 DEF Endpoint
  <2> QED BY <2>1, <2>2, <2>3
<1> HIDE DEF a
<1>4. SameActivation(reg, a) /\ SameQueue(reg, a)
  BY <1>2, <1>3 DEF SameActivation, SameQueue
<1>5. Settling(reg, a) /\ Adds(reg, a)
  BY <1>4, SettlingNothing, AddsNothing
<1>6. /\ a.cur = 0 /\ a.spawned = reg.spawned /\ a.noted = reg.noted
      /\ \A h \in Spawn :
           /\ a.tr[h].stage = reg.tr[h].stage \/ (reg.tr[h].stage = "shake" /\ a.tr[h].stage = "cut")
           /\ a.tr[h].child = reg.tr[h].child
           /\ a.tr[h].pipe = reg.tr[h].pipe
  BY <1>2, <1>3
<1>7. Follows(reg, d)
  BY <1>0, <1>3, <1>5, <1>6, LetGo
<1>8. d \in Endpoint
  BY <1>0, <1>3, Disposed
<1> HIDE DEF d
<1>9. d.noted \in SUBSET Spawn
  BY <1>8, EndpointTyped
<1>10. at' \in [step : {"none", "dispose", "trust", "spawn"}, waits : SUBSET Spawn,
                mode : {"none", "steer", "prompt"}] /\ at'.step = "dispose"
  BY <1>1, <1>9
<1> QED BY <1>1, <1>7, <1>8, <1>10, Waited

(* The first transition of a call, up to the wait for its spawn.           *)
LEMMA PrepKeeps ==
    ASSUME EndpointInv, NEW c \in Call, Prep(c) \/ PrepDisposed(c) \/ PrepTrusted(c)
    PROVE  EndpointInv'
<1>0. /\ Typed /\ reg \in Endpoint /\ HeadIs("prep") /\ Head(reg.queue).c = c /\ shut' = shut
      /\ at.step # "spawn" /\ Marks(reg, reg)
      /\ Trusted(reg) \in Endpoint /\ Marks(reg, Trusted(reg))
  BY MarksItself, TrustedMarks DEF EndpointInv, Typed, Prep, PrepDisposed, PrepTrusted, Idle
<1>1. lease' = lease
  BY DEF Prep, PrepDisposed, PrepTrusted, Allocate
<1>2. ASSUME NEW r \in {reg, Trusted(reg)}, Reject(c, r) \/ Allocate(c, r)
      PROVE  EndpointInv'
  BY <1>0, <1>1, <1>2, Refused, AllocateKeeps
<1>3. CASE Wait("trust", reg, {}, "none")
  BY <1>0, <1>1, <1>3, TrustAwaited
<1>4. CASE LET a == [Advance(reg) EXCEPT !.client = 0, !.ready = 0]
               d == Dispose(a, reg.client)
           IN  Wait("dispose", d, d.noted, "none")
  BY <1>0, <1>1, <1>4, DisposeAwaited
<1>5. CASE Reject(c, [reg EXCEPT !.status = "unavailable"])
  <2>1. "unavailable" \in Statuses
    BY DEF Statuses
  <2> DEFINE r == [reg EXCEPT !.status = "unavailable"]
  <2>2. r \in Endpoint /\ Marks(reg, r)
    BY <1>0, <2>1, StatusMarks
  <2>3. Reject(c, r)
    BY <1>5
  <2> HIDE DEF r
  <2> QED BY <1>0, <1>1, <2>2, <2>3, Refused
<1>6. CASE Prep(c)
  BY <1>2, <1>3, <1>4, <1>6 DEF Prep
<1>7. CASE PrepDisposed(c)
  BY <1>2, <1>3, <1>7 DEF PrepDisposed
<1>8. CASE PrepTrusted(c)
  BY <1>2, <1>5, <1>8 DEF PrepTrusted
<1> QED BY <1>6, <1>7, <1>8

(* The spawn: a new transport starts at the barrier.                       *)
Spawned(r) ==
    LET g == r.spawned + 1
    IN  [r EXCEPT !.status = "starting", !.spawned = g, !.cur = g, !.ready = g,
                  !.tr[g] = [Transport EXCEPT !.stage = "barrier", !.waits = r.noted]]

(* What the spawn changes of the endpoint.                                 *)
LEMMA SpawnedFields ==
    ASSUME NEW r \in Endpoint, NEW g \in Spawn, g = r.spawned + 1
    PROVE  /\ Spawned(r) \in Endpoint /\ SameActivation(r, Spawned(r)) /\ SameQueue(r, Spawned(r))
           /\ Spawned(r).client = r.client /\ Spawned(r).ready = g /\ Spawned(r).cur = g
           /\ Spawned(r).spawned = g /\ Spawned(r).noted = r.noted
           /\ Spawned(r).tr[g].stage = "barrier" /\ Spawned(r).tr[g].child = "none"
           /\ Spawned(r).tr[g].pipe = <<>>
           /\ \A h \in Spawn \ {g} : Spawned(r).tr[h] = r.tr[h]
<1> DEFINE y == [Transport EXCEPT !.stage = "barrier", !.waits = r.noted]
           tr == [r.tr EXCEPT ![g] = y]
           q == Spawned(r)
<1>1. Transport \in TransportState
  BY DEF Transport, TransportState, Stages, Causes, Children, Turns
<1>2. y \in TransportState /\ y.stage = "barrier" /\ y.child = "none" /\ y.pipe = <<>>
  <2>1. r.noted \in SUBSET Spawn /\ "barrier" \in Stages
    BY EndpointTyped DEF Stages
  <2>2. y \in TransportState /\ y.stage = "barrier" /\ y.child = Transport.child /\ y.pipe = Transport.pipe
    BY <1>1, <2>1 DEF TransportState
  <2>3. Transport.child = "none" /\ Transport.pipe = <<>>
    BY DEF Transport
  <2> HIDE DEF y
  <2> QED BY <2>2, <2>3
<1>3. q = [r EXCEPT !.status = "starting", !.spawned = g, !.cur = g, !.ready = g, !.tr = tr]
  BY DEF Spawned, Endpoint
<1> HIDE DEF y, q
<1>4. tr \in [Spawn -> TransportState] /\ \A h \in Spawn : tr[h] = IF h = g THEN y ELSE r.tr[h]
  BY <1>2 DEF Endpoint
<1> HIDE DEF tr
<1>5. "starting" \in Statuses
  BY DEF Statuses
<1>6. /\ q \in Endpoint /\ SameActivation(r, q) /\ SameQueue(r, q)
      /\ q.client = r.client /\ q.ready = g /\ q.cur = g /\ q.spawned = g
      /\ q.noted = r.noted /\ q.tr = tr
  BY <1>3, <1>4, <1>5 DEF Endpoint, SameActivation, SameQueue
<1> QED BY <1>2, <1>4, <1>6 DEF q

(* ... which holds no lease and is the only one that may become the client. *)
LEMMA SpawnedTransports ==
    ASSUME EndpointInv, at.step = "spawn", NEW g \in Spawn, g = reg.spawned + 1,
           NEW r, r = Spawned(reg), reg' \in Endpoint, SameTransports(r, reg'),
           \A h \in Spawn : SeesExit(reg', h) => SeesExit(r, h),
           at'.step = "none", lease' = lease, shut' = shut
    PROVE  Transports'
<1>0. /\ Typed /\ reg \in Endpoint /\ Stepwise /\ Leased /\ Installed /\ Drained
      /\ reg.client = 0 /\ reg.ready = 0
  BY DEF EndpointInv, Typed, Transports, Installed
<1>1. /\ r \in Endpoint /\ SameActivation(reg, r) /\ SameQueue(reg, r)
      /\ r.client = 0 /\ r.ready = g /\ r.cur = g /\ r.spawned = g /\ r.noted = reg.noted
      /\ r.tr[g].stage = "barrier" /\ r.tr[g].child = "none" /\ r.tr[g].pipe = <<>>
      /\ \A h \in Spawn \ {g} : r.tr[h] = reg.tr[h]
  BY <1>0, SpawnedFields
<1>2. /\ reg'.tr = r.tr /\ reg'.client = 0 /\ reg'.ready = g /\ reg'.cur = g /\ reg'.spawned = g
      /\ reg'.noted = reg.noted
  BY <1>1 DEF SameTransports
<1>3. /\ reg'.tr[g].stage = "barrier" /\ reg'.tr[g].child = "none"
      /\ \A h \in Spawn \ {g} : reg'.tr[h] = reg.tr[h]
  BY <1>1, <1>2
<1>4. /\ reg.tr[g].stage = "none" /\ reg.tr[g].child = "none" /\ ~SeesExit(reg, g) /\ lease.holder # g
  <2>1. g > reg.spawned
    BY <1>0, EndpointTyped
  <2>2. reg.tr[g].stage = "none"
    BY <1>0, <2>1 DEF Stepwise
  <2>3. reg.tr[g].child = "none"
    BY <1>0, <2>2 DEF Stepwise
  <2> QED BY <1>0, <2>2, <2>3 DEF Stepwise, Leased
<1>5. \A h \in Spawn : SeesExit(reg', h) => SeesExit(reg, h)
  <2>1. ASSUME NEW h \in Spawn, SeesExit(r, h) PROVE SeesExit(reg, h)
    <3>0. r.queue = reg.queue
      BY <1>1 DEF SameQueue
    <3>1. CASE h = g
      BY <1>1, <2>1, <3>0, <3>1 DEF SeesExit
    <3>2. CASE h # g
      BY <1>1, <2>1, <3>0, <3>2 DEF SeesExit
    <3> QED BY <3>1, <3>2
  <2> QED BY <2>1
<1>6. Stepwise'
  <2>1. ASSUME NEW h \in Spawn
        PROVE  /\ h > reg'.spawned => reg'.tr[h].stage = "none"
               /\ reg'.tr[h].stage \in {"none", "barrier", "lease", "factory"} => reg'.tr[h].child = "none"
               /\ reg'.tr[h].stage \in {"shake", "cut", "up"} => reg'.tr[h].child # "none"
               /\ reg'.tr[h].stage = "lost" => reg'.tr[h].child \notin {"live", "exited"}
               /\ SeesExit(reg', h) => reg'.tr[h].child \notin {"none", "live"}
    <3>1. CASE h = g
      <4>1. ~SeesExit(reg', h) /\ ~(h > reg'.spawned)
        BY <1>2, <1>4, <1>5, <3>1, Numbers
      <4> QED BY <1>3, <3>1, <4>1
    <3>2. CASE h # g
      <4>1. h > reg'.spawned => h > reg.spawned
        BY <1>0, <1>2, EndpointTyped
      <4> QED BY <1>0, <1>3, <1>5, <3>2, <4>1 DEF Stepwise
    <3> QED BY <3>1, <3>2
  <2> QED BY <2>1 DEF Stepwise
<1>7. Leased'
  <2>1. \A h \in Spawn : Claims(h)' => h # g /\ Claims(h)
    BY <1>3 DEF Claims
  <2>2. /\ \A h \in Spawn : Claims(h)' => lease'.holder = h \/ lease'.stuck
        /\ \A h, k \in Spawn : Claims(h)' /\ Claims(k)' => h = k
    BY <1>0, <2>1 DEF Leased
  <2>3. \A h \in Spawn : lease'.holder = h =>
          reg'.tr[h].stage = "factory" \/ reg'.tr[h].child \in {"live", "exited", "disposing"}
    BY <1>0, <1>3, <1>4 DEF Leased
  <2>4. \A h \in Spawn : Claims(h)' /\ reg'.tr[h].child # "stuck" /\ shut' # "failed" => lease'.holder = h
    BY <1>0, <1>3, <2>1 DEF Leased
  <2> QED BY <2>2, <2>3, <2>4 DEF Leased
<1>8. Installed'
  <2>1. \A h \in Spawn :
         reg'.tr[h].stage = "up" /\ reg'.tr[h].child \in {"live", "exited"} => h = reg'.client
    BY <1>0, <1>2, <1>3 DEF Installed
  <2>2. \A h \in Spawn : reg'.tr[h].child = "disposing" /\ ~Gone' => h \in reg'.noted
    BY <1>0, <1>2, <1>3 DEF Installed, Gone
  <2>3. \A h \in Spawn : reg'.cur = h /\ Starting(reg', h) => reg'.ready = h
    BY <1>2
  <2> QED BY <1>2, <2>1, <2>2, <2>3 DEF Installed
<1>9. Drained'
  BY <1>0, <1>2, <1>3 DEF Drained
<1> QED BY <1>6, <1>7, <1>8, <1>9 DEF Transports

(* The spawn: the newest, and the only one that is awaited.                *)
LEMMA SpawnKeeps ==
    ASSUME EndpointInv, NEW c \in Call, PrepSpawns(c)
    PROVE  EndpointInv'
<1> DEFINE g == reg.spawned + 1
           r == Spawned(reg)
<1>0. /\ Typed /\ Transports /\ Once /\ Calls /\ reg \in Endpoint /\ Counted /\ Queued
      /\ HeadIs("prep") /\ Head(reg.queue).c = c /\ at.step = "spawn" /\ reg.queue # <<>>
      /\ lease' = lease /\ shut' = shut
      /\ reg.client = 0 /\ reg.ready = 0
      /\ at.mode \in {"steer", "prompt"}
  BY DEF EndpointInv, Typed, Calls, PrepSpawns, HeadIs, Transports, Installed
<1>1. Reject(c, reg) \/ (Open(r) /\ Prepared(c, r, at.mode)) \/ (~Open(r) /\ Reject(c, r))
  BY DEF PrepSpawns, Spawned
<1>2. call[c].pc = "prep"
  BY <1>0, Tops DEF Queued
<1>3. /\ c \notin Past /\ Cardinality(Past) \in Nat /\ Cardinality(Past) + 1 <= Cardinality(Call)
      /\ reg.acts <= Cardinality(Past) + 1 /\ reg.spawned <= Cardinality(Past)
      /\ reg.spawned \in Nat /\ reg.acts \in Nat /\ Cardinality(Call) \in Nat
  BY <1>0, <1>2, NotPast, CallTyped, Numbers
<1>4. g \in Spawn /\ g <= Cardinality(Past) + 1
  BY <1>3 DEF Spawn
<1>5. /\ r \in Endpoint /\ SameActivation(reg, r) /\ SameQueue(reg, r)
      /\ r.ready = g /\ r.spawned = g
  BY <1>0, <1>4, SpawnedFields
<1> HIDE DEF r, g
<1>6. g # 0 /\ r.queue # <<>> /\ r.queue = reg.queue
  BY <1>0, <1>4, <1>5, Numbers DEF SameQueue
<1>7. CASE Reject(c, reg)
  BY <1>0, <1>7, MarksItself, Refused
<1>8. CASE Open(r) /\ Prepared(c, r, at.mode)
  <2>1. /\ r.act.id = r.acts /\ r.act.id # 0 /\ r.ended = reg.ended
        /\ r.acts = reg.acts /\ r.act.id = reg.act.id /\ r.poison = reg.poison
    BY <1>0, <1>5, <1>8 DEF SameActivation, Once, Open
  <2>2. Typed' /\ Once' /\ Calls' /\ at'.step = "none"
    BY <1>0, <1>3, <1>4, <1>5, <1>6, <1>8, <2>1, PreparedCall
  <2>3. /\ reg' \in Endpoint /\ SameTransports(r, reg')
        /\ \A h \in Spawn : SeesExit(reg', h) => SeesExit(r, h)
    BY <1>5, <1>6, <1>8, PopFields DEF Prepared
  <2>4. Transports'
    BY <1>0, <1>4, <2>2, <2>3, SpawnedTransports DEF r, g
  <2> QED BY <2>2, <2>4 DEF EndpointInv
<1>9. CASE ~Open(r) /\ Reject(c, r)
  <2>1. reg' = Pop(r) /\ Goto(c, "err") /\ at' = Idle /\ outq' = outq
    BY <1>9 DEF Reject
  <2>2. /\ reg' \in Endpoint /\ SameTransports(r, reg') /\ SameActivation(r, reg')
        /\ Carries(r, reg', 1)
        /\ \A h \in Spawn : SeesExit(reg', h) => SeesExit(r, h)
    BY <1>5, <1>6, <2>1, PopFields
  <2>3. Carries(reg, reg', 1)
    BY <1>6, <2>2 DEF Carries
  <2>4. SameActivation(reg, reg')
    BY <1>5, <2>2 DEF SameActivation
  <2>5. Settling(reg, reg')
    BY <2>4, SettlingNothing
  <2>6. Requeues(c, 1)
    BY <1>0, <2>2, <2>3, TaskTaken
  <2>7. /\ call' \in [Call -> CallState] /\ Others(c)
        /\ call'[c].pc = "err" /\ call'[c].mode = call[c].mode
    BY <1>0, <2>1, WentTo DEF PastPcs
  <2>8. at'.step = "none" /\ Typed'
    BY <1>0, <2>1, <2>2, <2>7 DEF Typed, Idle
  <2>9. Once'
    BY <1>0, <2>2, <2>5, OnceKept
  <2>10. Transports'
    BY <1>0, <1>4, <2>2, <2>8, SpawnedTransports DEF r, g
  <2>11. Counted'
    <3>1. c \in Past' /\ Past \subseteq Past'
      BY <1>3, <2>7 DEF Past, PastPcs, Others
    <3>2. Cardinality(Past) + 1 <= Cardinality(Past') /\ Cardinality(Past') \in Nat
      BY <1>3, <3>1, PastGrows
    <3>3. reg'.acts = reg.acts /\ reg'.spawned = g
      BY <1>5, <2>2, <2>4 DEF SameActivation, SameTransports
    <3>4. reg'.acts <= Cardinality(Past') + 0 /\ reg'.spawned <= Cardinality(Past')
      BY <1>3, <1>4, <3>2, <3>3, Numbers
    <3>5. Cardinality(Past') = Cardinality(Past)'
      OBVIOUS
    <3> QED BY <2>8, <3>4, <3>5 DEF Counted
  <2>12. call'[c].mode = "none" /\ Gone' = Gone
    BY <1>0, <1>2, <2>7 DEF Calls, Outgoing, BeforePcs, Gone
  <2>13. Calls'
    BY <1>0, <1>2, <2>1, <2>2, <2>5, <2>6, <2>7, <2>11, <2>12, EarlyCall DEF BeforePcs
  <2> QED BY <2>8, <2>9, <2>10, <2>13 DEF EndpointInv
<1> QED BY <1>1, <1>7, <1>8, <1>9

-----------------------------------------------------------------------------
(* The outbound queue: a message fails, or goes on.                        *)

(* The rest of the outbound queue.                                         *)
LEMMA SeqTail ==
    ASSUME NEW s \in Seq(Call), s # <<>>
    PROVE  Tail(s) \in Seq(Call)
OBVIOUS

(* The call leaves the outbound queue with a task for its last transition. *)
LEMMA LeavesKeeps ==
    ASSUME EndpointInv, NEW c \in Call, outq # <<>>, Head(outq) = c, call[c].pc \in OutPcs,
           NEW p \in Endpoint, SameTransports(reg, p), SameQueue(reg, p),
           p.act = reg.act, p.acts = reg.acts, p.ended = reg.ended,
           NEW t \in Task, t.kind \in {"accept", "fail"}, t.c = c, reg' = Enqueue(p, t),
           p.poison = call[c].id \/ (p.poison = reg.poison /\ t.kind = "accept"),
           outq' = Tail(outq), Goto(c, "end"),
           at' = at, lease' = lease, shut' = shut
    PROVE  EndpointInv'
<1>0. /\ Typed /\ Transports /\ Once /\ Calls /\ Queued /\ reg \in Endpoint
  BY DEF EndpointInv, Typed, Calls
<1>1. /\ call' \in [Call -> CallState] /\ Others(c)
      /\ call'[c].pc = "end" /\ call'[c].mode = call[c].mode
      /\ call'[c].id = call[c].id /\ call'[c].via = call[c].via
  BY <1>0, WentTo DEF PastPcs
<1>2. /\ reg' \in Endpoint /\ SameTransports(p, reg') /\ SameActivation(p, reg')
  BY Appended
<1>3. call[c].pc \notin {"prep", "end"}
  BY DEF OutPcs
<1>4. Fits(t, c)
  BY <1>1 DEF Fits, Concerns
<1>5. Requeues(c, 0)
  BY <1>0, <1>3, <1>4, Requeued
<1>6. Lowers(p, reg')
  BY TaskLowers
<1>7. Lowers(reg, reg')
  <2>1. SameTransports(reg, reg')
    BY <1>2 DEF SameTransports
  <2>2. \A g \in Spawn : SeesExit(reg', g) => SeesExit(reg, g)
    BY <1>6, SameExits DEF Lowers
  <2> QED BY <1>0, <1>2, <2>1, <2>2, TransportsSame
<1>8. outq' \in Seq(Call)
  BY <1>0, CallTyped, SeqTail
<1>9. Typed'
  BY <1>0, <1>1, <1>2, <1>8 DEF Typed
<1>10. Transports'
  BY <1>0, <1>2, <1>7, TransportsKept
<1>11. reg'.act = reg.act /\ reg'.acts = reg.acts /\ reg'.ended = reg.ended
  BY <1>2 DEF SameActivation
<1>12. Once'
  BY <1>0, <1>11 DEF Once
<1>13. reg'.spawned = reg.spawned /\ Gone' = Gone
  BY <1>7 DEF Lowers, Gone
<1>14. t.kind = "accept" => ~FailedCall(c)'
  <2>1. ASSUME t.kind = "accept", NEW i \in DOMAIN reg'.queue,
               reg'.queue[i].kind = "fail", reg'.queue[i].c = c
        PROVE  FALSE
    <3>1. ~Quiet(reg'.queue[i]) /\ Concerns(reg'.queue[i], c)
      BY <2>1 DEF Quiet, Concerns
    <3>2. i = Len(reg'.queue)
      BY <1>5, <3>1 DEF Requeues
    <3>3. /\ DOMAIN reg'.queue = 1..(Len(p.queue) + 1) /\ reg'.queue[Len(p.queue) + 1] = t
          /\ Len(p.queue) \in Nat
      BY Appended, QueueDomain
    <3>4. Len(reg'.queue) = Len(p.queue) + 1
      BY <1>2, <3>3, QueueDomain
    <3> QED BY <2>1, <3>2, <3>3, <3>4
  <2> QED BY <1>1, <2>1 DEF FailedCall
<1>15. reg'.poison = call[c].id \/ (reg'.poison = reg.poison /\ ~FailedCall(c)')
  BY <1>2, <1>14 DEF SameActivation
<1>16. Calls'
  BY <1>0, <1>1, <1>2, <1>5, <1>11, <1>13, <1>15, OutLeaves
<1> QED BY <1>9, <1>10, <1>12, <1>16 DEF EndpointInv

(* The message failed: the poison of its activation, and a task for the    *)
(* call.                                                                   *)
LEMMA MessageFails ==
    ASSUME EndpointInv, NEW c \in Call, outq # <<>>, Head(outq) = c, call[c].pc \in OutPcs,
           NEW r \in Endpoint, SameTransports(reg, r), SameQueue(reg, r),
           r.act = reg.act, r.acts = reg.acts, r.ended = reg.ended,
           NEW cause \in Causes, OutFails(c, r, cause),
           at' = at, lease' = lease, shut' = shut
    PROVE  EndpointInv'
<1> DEFINE p == [r EXCEPT !.poison = call[c].id, !.cause = cause]
           t == [kind |-> "fail", c |-> c, cause |-> cause]
<1>1. call[c].id \in Act \cup {0}
  BY CallTyped DEF EndpointInv
<1>2. /\ p \in Endpoint /\ p.poison = call[c].id /\ SameTransports(r, p) /\ SameQueue(r, p)
      /\ p.act = r.act /\ p.acts = r.acts /\ p.ended = r.ended
  <2>1. p \in Endpoint
    BY <1>1 DEF Endpoint
  <2>2. SameTransports(r, p) /\ SameQueue(r, p)
    BY <1>1 DEF Endpoint, SameTransports, SameQueue
  <2>3. p.poison = call[c].id /\ p.act = r.act /\ p.acts = r.acts /\ p.ended = r.ended
    BY <1>1 DEF Endpoint
  <2> QED BY <2>1, <2>2, <2>3
<1>3. t \in Task /\ t.kind = "fail" /\ t.c = c
  BY DEF Task, FailTask
<1>4. reg' = Enqueue(p, t) /\ outq' = Tail(outq) /\ Goto(c, "end")
  BY DEF OutFails
<1> HIDE DEF p, t
<1>5. SameTransports(reg, p) /\ SameQueue(reg, p)
  BY <1>2 DEF SameTransports, SameQueue
<1> QED BY <1>2, <1>3, <1>4, <1>5, LeavesKeeps

(* The first call of the outbound queue goes on.                           *)
LEMMA MessageMoves ==
    ASSUME EndpointInv, NEW c \in Call, Others(c), outq # <<>>, Head(outq) = c,
           call' \in [Call -> CallState], outq' = outq, at' = at, lease' = lease, shut' = shut,
           reg' \in Endpoint, Lowers(reg, reg'), Carries(reg, reg', 0),
           reg'.act = reg.act, reg'.acts = reg.acts, reg'.ended = reg.ended,
           reg'.poison = reg.poison \/ reg.poison # reg.act.id,
           call[c].pc \in OutPcs,
           call'[c].pc \in {"ready", "write", "rpc", "undo"}, call'[c].mode = call[c].mode,
           call'[c].id = call[c].id, call'[c].via = call[c].via,
           call'[c].pc \in {"ready", "write", "rpc"} =>
              \/ call[c].pc \in {"ready", "write", "rpc"}
              \/ reg.act.id = call[c].id /\ ~Gone /\ reg.poison # call[c].id
    PROVE  EndpointInv'
<1>0. /\ Typed /\ Transports /\ Once /\ Calls /\ Queued /\ reg \in Endpoint
  BY DEF EndpointInv, Typed, Calls
<1>1. call[c].pc \notin {"prep", "end"}
  BY DEF OutPcs
<1>2. Requeues(c, 0)
  BY <1>0, <1>1, NothingAsked
<1>3. Typed'
  BY <1>0 DEF Typed
<1>4. Transports'
  BY <1>0, TransportsKept
<1>5. Once'
  BY <1>0 DEF Once
<1>6. reg'.spawned = reg.spawned /\ Gone' = Gone
  BY DEF Lowers, Gone
<1>7. Calls'
  BY <1>0, <1>2, <1>6, OutMoves
<1> QED BY <1>3, <1>4, <1>5, <1>7 DEF EndpointInv

(* The turn of a message has come: it fails with an earlier one of its     *)
(* activation, or with its activation, or goes on.                         *)
LEMMA Begun == ASSUME EndpointInv, NEW c \in Call, OutBegins(c) PROVE EndpointInv'
<1> DEFINE clean == IF reg.poison # call[c].id THEN [reg EXCEPT !.poison = 0] ELSE reg
<1>0. /\ Typed /\ Outgoing /\ reg \in Endpoint
  BY DEF EndpointInv, Typed, Calls
<1>1. /\ clean \in Endpoint /\ SameTransports(reg, clean) /\ SameQueue(reg, clean)
      /\ clean.act = reg.act /\ clean.acts = reg.acts /\ clean.ended = reg.ended
      /\ clean.poison = reg.poison \/ reg.poison # call[c].id
  BY <1>0 DEF Endpoint, SameTransports, SameQueue
<1>2. /\ outq # <<>> /\ Head(outq) = c /\ call[c].pc = "out" /\ call[c].pc \in OutPcs
      /\ at' = at /\ lease' = lease /\ shut' = shut
  BY DEF OutBegins, First, OutPcs
<1>3. \/ OutFails(c, reg, reg.cause)
      \/ OutFails(c, clean, "error")
      \/ OutFails(c, clean, "rejected")
      \/ /\ Mine(c) /\ reg.poison # call[c].id
         /\ Goto(c, "ready") /\ reg' = clean /\ outq' = outq
  BY DEF OutBegins, Mine
<1> HIDE DEF clean
<1>4. CASE OutFails(c, reg, reg.cause)
  <2>1. reg.cause \in Causes /\ SameTransports(reg, reg) /\ SameQueue(reg, reg)
    BY <1>0 DEF Endpoint, SameTransports, SameQueue
  <2> QED BY <1>0, <1>2, <1>4, <2>1, MessageFails
<1>5. CASE OutFails(c, clean, "error") \/ OutFails(c, clean, "rejected")
  <2>1. PICK cause \in Causes : OutFails(c, clean, cause)
    BY <1>5 DEF Causes
  <2> QED BY <1>1, <1>2, <2>1, MessageFails
<1>6. CASE /\ Mine(c) /\ reg.poison # call[c].id
           /\ Goto(c, "ready") /\ reg' = clean /\ outq' = outq
  <2>1. /\ call' \in [Call -> CallState] /\ Others(c)
        /\ call'[c].pc = "ready" /\ call'[c].mode = call[c].mode
        /\ call'[c].id = call[c].id /\ call'[c].via = call[c].via
    BY <1>0, <1>6, WentTo DEF PastPcs, OutPcs
  <2>2. reg.act.id = call[c].id /\ ~Gone
    BY <1>6 DEF Mine
  <2>3. Lowers(reg, reg') /\ reg' \in Endpoint
    BY <1>0, <1>1, <1>6, SameExits, TransportsSame
  <2>4. Carries(reg, reg', 0)
    BY <1>0, <1>1, <1>6, AddsNothing, CarriesOfAdds
  <2>5. reg.poison # reg.act.id
    BY <1>6, <2>2
  <2> QED BY <1>1, <1>2, <1>6, <2>1, <2>2, <2>3, <2>4, <2>5, MessageMoves
<1> QED BY <1>3, <1>4, <1>5, <1>6

(* The message waits for its transport.                                    *)
LEMMA Readied == ASSUME EndpointInv, NEW c \in Call, OutReady(c) PROVE EndpointInv'
<1> DEFINE t == reg.tr[call[c].via]
<1>0. /\ Typed /\ Outgoing /\ reg \in Endpoint
  BY DEF EndpointInv, Typed, Calls
<1>1. /\ outq # <<>> /\ Head(outq) = c /\ call[c].pc = "ready" /\ call[c].pc \in OutPcs
      /\ at' = at /\ lease' = lease /\ shut' = shut
  BY DEF OutReady, First, OutPcs
<1>2. call[c].via \in Spawn
  <2>1. call[c].mode # "none"
    BY <1>0, <1>1 DEF Outgoing
  <2> QED BY <1>0, <2>1, CallTyped DEF Outgoing
<1>3. t.why \in Causes
  <2>1. t \in TransportState
    BY <1>0, <1>2 DEF Endpoint
  <2> QED BY <2>1, TransportTyped
<1>4. \/ OutFails(c, reg, "rejected") \/ OutFails(c, reg, t.why)
      \/ Goto(c, "write") /\ reg' = reg /\ outq' = outq
  BY DEF OutReady
<1> HIDE DEF t
<1>5. CASE OutFails(c, reg, "rejected") \/ OutFails(c, reg, t.why)
  <2>1. PICK cause \in Causes : OutFails(c, reg, cause)
    BY <1>3, <1>5 DEF Causes
  <2>2. SameTransports(reg, reg) /\ SameQueue(reg, reg)
    BY DEF SameTransports, SameQueue
  <2> QED BY <1>0, <1>1, <2>1, <2>2, MessageFails
<1>6. CASE Goto(c, "write") /\ reg' = reg /\ outq' = outq
  <2>1. /\ call' \in [Call -> CallState] /\ Others(c)
        /\ call'[c].pc = "write" /\ call'[c].mode = call[c].mode
        /\ call'[c].id = call[c].id /\ call'[c].via = call[c].via
    BY <1>0, <1>6, WentTo DEF PastPcs, OutPcs
  <2>2. Lowers(reg, reg') /\ Carries(reg, reg', 0)
    BY <1>0, <1>6, FollowsItself DEF Follows, Handles
  <2> QED BY <1>0, <1>1, <1>6, <2>1, <2>2, MessageMoves
<1> QED BY <1>4, <1>5, <1>6

(* The transport of a cancelled message has been disposed of.              *)
LEMMA Undone == ASSUME EndpointInv, NEW c \in Call, OutUndone(c) PROVE EndpointInv'
<1>0. /\ Typed /\ reg \in Endpoint
  BY DEF EndpointInv, Typed
<1>1. /\ outq # <<>> /\ Head(outq) = c /\ call[c].pc \in OutPcs
      /\ at' = at /\ lease' = lease /\ shut' = shut
  BY DEF OutUndone, First, OutPcs
<1>2. PICK cause \in Causes : OutFails(c, reg, cause)
  BY DEF OutUndone, Causes
<1>3. SameTransports(reg, reg) /\ SameQueue(reg, reg)
  BY DEF SameTransports, SameQueue
<1> QED BY <1>0, <1>1, <1>2, <1>3, MessageFails

(* The answer arrives, or the request fails.                               *)
LEMMA Answered == ASSUME EndpointInv, NEW c \in Call, OutAnswered(c) PROVE EndpointInv'
<1>0. /\ Typed /\ reg \in Endpoint
  BY DEF EndpointInv, Typed
<1>1. /\ outq # <<>> /\ Head(outq) = c /\ call[c].pc \in OutPcs
      /\ at' = at /\ lease' = lease /\ shut' = shut
  BY DEF OutAnswered, First, OutPcs
<1>2. SameTransports(reg, reg) /\ SameQueue(reg, reg)
  BY DEF SameTransports, SameQueue
<1> DEFINE t == [kind |-> "accept", c |-> c]
<1>3. t \in Task /\ t.kind = "accept" /\ t.c = c
  BY DEF Task, AcceptTask
<1>4. \/ OutFails(c, reg, "error")
      \/ reg' = Enqueue(reg, t) /\ outq' = Tail(outq) /\ Goto(c, "end")
  BY DEF OutAnswered
<1> HIDE DEF t
<1>5. CASE OutFails(c, reg, "error")
  <2>1. "error" \in Causes
    BY DEF Causes
  <2> QED BY <1>0, <1>1, <1>2, <1>5, <2>1, MessageFails
<1>6. CASE reg' = Enqueue(reg, t) /\ outq' = Tail(outq) /\ Goto(c, "end")
  BY <1>0, <1>1, <1>2, <1>3, <1>6, LeavesKeeps
<1> QED BY <1>4, <1>5, <1>6

(* What the child does with a message changes its turn and its pipe.       *)
LEMMA Steered ==
    ASSUME NEW r \in Endpoint, NEW g \in Spawn, NEW id \in Act
    PROVE  /\ Tell(r, g, id, "steer") \in Endpoint /\ SameActivation(r, Tell(r, g, id, "steer"))
           /\ Follows(r, Tell(r, g, id, "steer"))
<1> DEFINE t == r.tr[g]
           told == IF t.turn = "busy" THEN t.told \cup {id} ELSE t.told
           y == [t EXCEPT !.told = told]
           q == Tell(r, g, id, "steer")
<1>0. t \in TransportState
  BY DEF Endpoint
<1>1. told \in SUBSET Act
  BY <1>0, TransportTyped
<1>2. q = [r EXCEPT !.tr = [r.tr EXCEPT ![g] = y]]
  BY <1>0 DEF Tell, Endpoint, TransportState
<1> HIDE DEF told, q
<1>3. y \in TransportState /\ y.stage = t.stage /\ y.child = t.child /\ y.pipe = t.pipe
  BY <1>0, <1>1 DEF TransportState
<1> HIDE DEF y
<1>4. PipeExit(y) => PipeExit(t)
  BY <1>3 DEF PipeExit
<1>5. q \in Endpoint /\ SameActivation(r, q) /\ Follows(r, q)
  BY <1>2, <1>3, <1>4, TurnChanged
<1> QED BY <1>5 DEF q

(* A prompt begins a turn; one that was quiet reports first that it        *)
(* settled.                                                                *)
LEMMA Prompted ==
    ASSUME NEW r \in Endpoint, NEW g \in Spawn, NEW id \in Act, NEW mode, mode # "steer"
    PROVE  /\ Tell(r, g, id, mode) \in Endpoint /\ SameActivation(r, Tell(r, g, id, mode))
           /\ Follows(r, Tell(r, g, id, mode))
<1> DEFINE t == r.tr[g]
           A == IF t.turn = "quiet" THEN <<Event("settled", t.told)>> ELSE <<>>
           B == <<Event("start", {})>>
           x == [t EXCEPT !.turn = "busy", !.told = {id}]
           y == [x EXCEPT !.pipe = x.pipe \o A]
           z == [y EXCEPT !.pipe = y.pipe \o B]
           q == Tell(r, g, id, mode)
<1>0. t \in TransportState
  BY DEF Endpoint
<1>1. A \in Seq(ChildEvent) /\ \A i \in DOMAIN A : A[i].kind # "exit"
  <2>1. t.told \in SUBSET Act
    BY <1>0, TransportTyped
  <2>2. /\ <<Event("settled", t.told)>> \in Seq(ChildEvent)
        /\ \A i \in DOMAIN <<Event("settled", t.told)>> : <<Event("settled", t.told)>>[i].kind # "exit"
    BY <2>1, OneEvent DEF EventKinds
  <2>3. <<>> \in Seq(ChildEvent) /\ \A i \in DOMAIN <<>> : <<>>[i].kind # "exit"
    OBVIOUS
  <2>4. CASE t.turn = "quiet"
    BY <2>2, <2>4
  <2>5. CASE t.turn # "quiet"
    BY <2>3, <2>5
  <2> QED BY <2>4, <2>5
<1>2. B \in Seq(ChildEvent) /\ \A i \in DOMAIN B : B[i].kind # "exit"
  BY OneEvent DEF EventKinds
<1>3. /\ q = [r EXCEPT !.tr = [r.tr EXCEPT ![g] =
                  [t EXCEPT !.turn = "busy", !.told = {id}, !.pipe = (t.pipe \o A) \o B]]]
  BY <1>0, ZenonT(60) DEF Tell, Endpoint, TransportState
<1> HIDE DEF q, A, B
<1>4. x \in TransportState /\ x.stage = t.stage /\ x.child = t.child /\ x.pipe = t.pipe
  BY <1>0 DEF TransportState, Turns
<1>5. z = [t EXCEPT !.turn = "busy", !.told = {id}, !.pipe = (t.pipe \o A) \o B]
  BY <1>0 DEF TransportState
<1> HIDE DEF x
<1>6. /\ y \in TransportState /\ y.stage = x.stage /\ y.child = x.child
      /\ PipeExit(y) => PipeExit(x)
  BY <1>1, <1>4, Piped
<1> HIDE DEF y
<1>7. /\ z \in TransportState /\ z.stage = y.stage /\ z.child = y.child
      /\ PipeExit(z) => PipeExit(y)
  BY <1>2, <1>6, Piped
<1> HIDE DEF z
<1>8. PipeExit(x) => PipeExit(t)
  BY <1>4 DEF PipeExit
<1>9. q = [r EXCEPT !.tr = [r.tr EXCEPT ![g] = z]]
  BY <1>3, <1>5
<1>10. PipeExit(z) => PipeExit(t)
  BY <1>6, <1>7, <1>8
<1>11. z.stage = t.stage /\ z.child = t.child
  BY <1>4, <1>6, <1>7
<1>12. q \in Endpoint /\ SameActivation(r, q) /\ Follows(r, q)
  BY <1>7, <1>9, <1>10, <1>11, TurnChanged
<1> QED BY <1>12 DEF q

(* The message is written, or its transport is disposed of.                *)
LEMMA Written == ASSUME EndpointInv, NEW c \in Call, OutWrites(c) PROVE EndpointInv'
<1> DEFINE g == call[c].via
           x == [reg EXCEPT !.client = IF @ = g THEN 0 ELSE @]
           id == call[c].id
           mode == call[c].mode
           told == Tell(reg, g, id, mode)
<1>0. /\ Typed /\ Outgoing /\ reg \in Endpoint /\ call \in [Call -> CallState]
      /\ call[c] \in CallState
  BY CallTyped DEF EndpointInv, Typed, Calls
<1>1. /\ outq # <<>> /\ Head(outq) = c /\ call[c].pc = "write" /\ call[c].pc \in OutPcs
      /\ at' = at /\ lease' = lease /\ shut' = shut /\ outq' = outq
  BY DEF OutWrites, First, OutPcs
<1>2. g \in Spawn /\ id \in Act
  <2>1. call[c].mode # "none"
    BY <1>0, <1>1 DEF Outgoing
  <2>2. call[c].via # 0 /\ call[c].id \in 1..reg.acts
    BY <1>0, <2>1 DEF Outgoing
  <2>3. call[c].id # 0
    BY <2>2
  <2> QED BY <1>0, <2>2, <2>3, CallTyped
<1>3. \/ reg' = Dispose(x, g) /\ Goto(c, "undo")
      \/ reg' = told /\ call' = [call EXCEPT ![c].pc = "rpc", ![c].ans = "ok"]
      \/ reg' = reg /\ call' = [call EXCEPT ![c].pc = "rpc", ![c].ans = "no"]
  BY <1>0 DEF OutWrites, Typed, Endpoint
<1>4. /\ x \in Endpoint /\ SameActivation(reg, x) /\ SameQueue(reg, x)
      /\ x.spawned = reg.spawned /\ x.cur = reg.cur /\ x.ready = reg.ready
      /\ x.noted = reg.noted /\ x.tr = reg.tr
      /\ x.client = IF reg.client = g THEN 0 ELSE reg.client
  BY <1>0 DEF Endpoint, SameActivation, SameQueue
<1>5. told \in Endpoint /\ SameActivation(reg, told) /\ Follows(reg, told)
  BY <1>0, <1>2, Steered, Prompted
<1> HIDE DEF x, told
<1>6. CASE reg' = Dispose(x, g) /\ Goto(c, "undo")
  <2>1. /\ call' \in [Call -> CallState] /\ Others(c)
        /\ call'[c].pc = "undo" /\ call'[c].mode = call[c].mode
        /\ call'[c].id = call[c].id /\ call'[c].via = call[c].via
    BY <1>0, <1>6, WentTo DEF PastPcs, OutPcs
  <2>2. Settling(reg, x) /\ Adds(reg, x)
    BY <1>4, SettlingNothing, AddsNothing
  <2>3. \/ x.client = 0
        \/ x.client = reg.client /\ g # reg.client /\ x.cur = reg.cur
    BY <1>4
  <2>4. reg.client \in {g, 0, x.client}
    BY <1>4
  <2>5. g \in Spawn \cup {0}
    BY <1>2
  <2> HIDE DEF g
  <2>6. Follows(reg, Dispose(x, g))
    BY <1>0, <1>4, <2>2, <2>3, <2>4, <2>5, LetGo
  <2>7. SameActivation(x, Dispose(x, g))
    BY <1>4, <2>5, Disposed
  <2>8. /\ reg'.act = reg.act /\ reg'.acts = reg.acts /\ reg'.ended = reg.ended
        /\ reg'.poison = reg.poison
    BY <1>4, <1>6, <2>7 DEF SameActivation
  <2>9. reg' \in Endpoint /\ Lowers(reg, reg') /\ Carries(reg, reg', 0)
    BY <1>6, <2>6 DEF Follows, Handles
  <2> QED BY <1>1, <2>1, <2>8, <2>9, MessageMoves
<1>7. ASSUME NEW ans \in {"ok", "no"}, call' = [call EXCEPT ![c].pc = "rpc", ![c].ans = ans],
             reg' \in {reg, told}
      PROVE  EndpointInv'
  <2> DEFINE y == [call[c] EXCEPT !.pc = "rpc", !.ans = ans]
  <2>1. /\ y \in CallState /\ y.pc = "rpc" /\ y.mode = call[c].mode /\ y.id = call[c].id
        /\ y.via = call[c].via
    BY <1>0 DEF CallState, PastPcs, OutPcs
  <2>2. call' = [call EXCEPT ![c] = y]
    BY <1>0, <1>7
  <2> HIDE DEF y
  <2>3. /\ call' \in [Call -> CallState] /\ Others(c) /\ call'[c] = y
    BY <1>0, <2>1, <2>2 DEF Others
  <2>4. Follows(reg, reg') /\ SameActivation(reg, reg')
    BY <1>0, <1>5, <1>7, FollowsItself DEF SameActivation
  <2>5. reg' \in Endpoint /\ Lowers(reg, reg') /\ Carries(reg, reg', 0)
    BY <2>4 DEF Follows, Handles
  <2>6. /\ reg'.act = reg.act /\ reg'.acts = reg.acts /\ reg'.ended = reg.ended
        /\ reg'.poison = reg.poison
    BY <2>4 DEF SameActivation
  <2> QED BY <1>1, <2>1, <2>3, <2>5, <2>6, MessageMoves
<1> QED BY <1>3, <1>6, <1>7

(* The last transition of a call: its message was accepted, or it failed.  *)
LEMMA CallEnds ==
    ASSUME EndpointInv, NEW c \in Call, NEW kind \in {"accept", "fail"}, HeadIs(kind),
           Head(reg.queue).c = c, Handles(reg, reg', 1), NEW pc \in {"ok", "err"}, Goto(c, pc),
           pc = "err" => kind = "fail",
           at' = at, outq' = outq, lease' = lease, shut' = shut
    PROVE  EndpointInv'
<1>0. /\ Typed /\ Transports /\ Once /\ Calls /\ Queued /\ Outgoing
      /\ reg' \in Endpoint /\ Lowers(reg, reg') /\ Settling(reg, reg') /\ Carries(reg, reg', 1)
  BY DEF EndpointInv, Calls, Handles
<1>1. Requeues(c, 1) /\ call[c].pc = "end"
  BY <1>0, TaskTaken
<1>2. /\ call' \in [Call -> CallState] /\ Others(c)
      /\ call'[c].pc = pc /\ call'[c].mode = call[c].mode
      /\ call'[c].id = call[c].id /\ call'[c].via = call[c].via
  BY <1>0, WentTo DEF PastPcs
<1>3. call'[c].pc = "err" => FailedCall(c)
  <2>1. ASSUME kind = "fail" PROVE FailedCall(c)
    <3>1. /\ 1 \in DOMAIN reg.queue /\ Head(reg.queue) = reg.queue[1]
          /\ Head(reg.queue).kind = "fail"
      BY <1>0, <2>1, Tops
    <3>2. call[c].mode # "none"
      BY <1>0, <1>1 DEF Outgoing
    <3> QED BY <3>1, <3>2 DEF FailedCall
  <2> QED BY <1>2, <2>1
<1>4. Typed'
  BY <1>0, <1>2 DEF Typed
<1>5. Transports'
  BY <1>0, TransportsKept
<1>6. Once'
  BY <1>0, OnceKept
<1>7. reg'.spawned = reg.spawned /\ Gone' = Gone
  BY <1>0 DEF Lowers, Gone
<1>8. Calls'
  BY <1>0, <1>1, <1>2, <1>3, <1>7, ClosedCall
<1> QED BY <1>4, <1>5, <1>6, <1>8 DEF EndpointInv

(* The message was accepted.                                               *)
LEMMA CallAccepted == ASSUME EndpointInv, NEW c \in Call, Accepted(c) PROVE EndpointInv'
<1> DEFINE r == Pop(reg)
           q == [r EXCEPT !.status = "starting"]
<1>0. Typed
  BY DEF EndpointInv
<1>1. /\ HeadIs("accept") /\ Head(reg.queue).c = c /\ Goto(c, "ok")
      /\ at' = at /\ outq' = outq /\ lease' = lease /\ shut' = shut
      /\ reg' \in {r, q}
  BY DEF Accepted
<1>2. r \in Endpoint /\ Handles(reg, r, 1) /\ reg \in Endpoint
  BY <1>0, <1>1, Tops DEF Typed
<1> HIDE DEF r
<1>3. Marks(r, q)
  BY <1>2 DEF Endpoint, Statuses, Marks, SameTransports, SameQueue
<1>4. q \in Endpoint /\ Follows(r, q)
  BY <1>2, <1>3, MarksFollow
<1> HIDE DEF q
<1>5. Handles(reg, q, 1)
  BY <1>2, <1>4, HandlesOn
<1>6. Handles(reg, reg', 1)
  BY <1>1, <1>2, <1>5
<1> QED BY <1>1, <1>6, CallEnds

(* The message failed: the open activation ends with it, if it is the      *)
(* call's.                                                                 *)
LEMMA CallRejected == ASSUME EndpointInv, NEW c \in Call, Rejected(c) PROVE EndpointInv'
<1> DEFINE r == Pop(reg)
           error == Head(reg.queue).cause = "error"
           status == IF error THEN "error"
                     ELSE IF r.status = "starting" THEN "detached" ELSE r.status
           how == IF error THEN "error" ELSE "cancelled"
           x == [r EXCEPT !.status = status]
           q == End(x, how)
<1>0. Typed /\ Outgoing
  BY DEF EndpointInv, Calls
<1>1. /\ HeadIs("fail") /\ Head(reg.queue).c = c /\ Goto(c, "err")
      /\ at' = at /\ outq' = outq /\ lease' = lease /\ shut' = shut
      /\ reg' = r \/ (r.act.id = call[c].id /\ reg' = q)
  BY DEF Rejected
<1>2. r \in Endpoint /\ Handles(reg, r, 1) /\ reg \in Endpoint
  BY <1>0, <1>1, Tops DEF Typed
<1> HIDE DEF r
<1>3. status \in Statuses /\ how \in Hows
  BY <1>2 DEF Endpoint, Statuses, Hows
<1> HIDE DEF status, how, error
<1>4. Marks(r, x)
  BY <1>2, <1>3 DEF Endpoint, Marks, SameTransports, SameQueue
<1>5. x \in Endpoint /\ Follows(r, x) /\ x.act.id = r.act.id
  BY <1>2, <1>4, MarksFollow DEF Marks
<1> HIDE DEF x
<1>6. CASE r.act.id = call[c].id /\ reg' = q
  <2>1. call[c].id # 0
    <3>0. /\ 1 \in DOMAIN reg.queue /\ Head(reg.queue) = reg.queue[1]
          /\ Head(reg.queue).kind = "fail"
      BY <1>0, <1>1, Tops
    <3>1. call[c].pc = "end"
      BY <1>1, <3>0 DEF EndpointInv, Calls, Queued
    <3>2. call[c].id \in 1..reg.acts
      BY <1>0, <3>1 DEF Outgoing
    <3> QED BY <3>2
  <2>2. Open(x)
    BY <1>5, <1>6, <2>1 DEF Open
  <2>3. q \in Endpoint /\ SameTransports(x, q) /\ Adds(x, q) /\ Settling(x, q)
    BY <1>3, <1>5, <2>2, Ended
  <2> HIDE DEF q
  <2>4. Follows(x, q)
    BY <1>5, <2>3, OfActivation
  <2>5. Follows(r, q)
    BY <1>2, <1>5, <2>3, <2>4, FollowsOn
  <2>6. Handles(reg, reg', 1)
    BY <1>2, <1>6, <2>3, <2>5, HandlesOn
  <2> QED BY <1>1, <2>6, CallEnds
<1>7. CASE reg' = r
  BY <1>1, <1>2, <1>7, CallEnds
<1> QED BY <1>1, <1>6, <1>7

-----------------------------------------------------------------------------
(* The invariant holds at first, and every step keeps it.                  *)

(* At first nothing has been called and nothing runs.                      *)
LEMMA EndpointStarts == Init => EndpointInv
<1> SUFFICES ASSUME Init PROVE EndpointInv
  OBVIOUS
<1>1. /\ reg = [status |-> "registered", act |-> NoAct, acts |-> 0, client |-> 0, ready |-> 0,
                cur |-> 0, spawned |-> 0, timer |-> 0, poison |-> 0, cause |-> "none",
                noted |-> {}, queue |-> <<>>, tr |-> [g \in Spawn |-> Transport],
                ended |-> [i \in Act |-> "no"]]
      /\ at = [step |-> "none", waits |-> {}, mode |-> "none"]
      /\ outq = <<>>
      /\ call = [c \in Call |-> [pc |-> "new", id |-> 0, mode |-> "none", via |-> 0, ans |-> "none"]]
      /\ lease = [holder |-> 0, stuck |-> FALSE]
      /\ shut = "no"
  BY DEF Init
<1>2. Transport \in TransportState /\ Transport.stage = "none" /\ Transport.child = "none"
      /\ Transport.pipe = <<>>
  BY DEF Transport, TransportState, Stages, Causes, Children, Turns
<1> HIDE DEF Transport
<1>3. NoAct \in Activation /\ NoAct.id = 0
  BY NoActivation
<1>4. /\ [g \in Spawn |-> Transport] \in [Spawn -> TransportState]
      /\ [i \in Act |-> "no"] \in [Act -> Ends] /\ <<>> \in Seq(Task)
  BY <1>2 DEF Ends
<1>5. reg \in Endpoint
  BY <1>1, <1>3, <1>4 DEF Endpoint, Statuses, Causes
<1>6. call \in [Call -> CallState] /\ \A c \in Call : call[c].pc = "new" /\ call[c].mode = "none"
  BY <1>1 DEF CallState, BeforePcs
<1>7. Typed
  BY <1>1, <1>5, <1>6 DEF Typed
<1>8. /\ \A g \in Spawn : reg.tr[g].stage = "none" /\ reg.tr[g].child = "none" /\ reg.tr[g].pipe = <<>>
      /\ reg.queue = <<>> /\ reg.client = 0 /\ reg.act.id = 0 /\ reg.acts = 0 /\ reg.spawned = 0
      /\ \A i \in Act : reg.ended[i] = "no"
  BY <1>1, <1>2, <1>3
<1>9. Transports
  <2>1. \A g \in Spawn : ~SeesExit(reg, g) /\ ~Claims(g) /\ ~Starting(reg, g)
    BY <1>8 DEF SeesExit, Claims, Starting
  <2>2. Stepwise
    BY <1>8, <2>1 DEF Stepwise
  <2>3. Leased
    BY <1>1, <2>1, Numbers DEF Leased
  <2>4. Installed
    BY <1>1, <1>8, <2>1 DEF Installed
  <2>5. Drained
    BY <1>1 DEF Drained
  <2> QED BY <2>2, <2>3, <2>4, <2>5 DEF Transports
<1>10. Once
  BY <1>8 DEF Once
<1>11. Calls
  <2>1. Counted
    BY <1>1, <1>8, PastCounts DEF Counted
  <2>2. Queued
    BY <1>8 DEF Queued
  <2>3. Outgoing
    BY <1>1, <1>6 DEF Outgoing, OutPcs
  <2>4. Poisoned
    BY <1>6 DEF Poisoned, FailedCall
  <2> QED BY <2>1, <2>2, <2>3, <2>4 DEF Calls
<1> QED BY <1>7, <1>9, <1>10, <1>11 DEF EndpointInv

(* Nothing happens.                                                        *)
LEMMA EndpointStutters == EndpointInv /\ UNCHANGED vars => EndpointInv'
<1> SUFFICES ASSUME EndpointInv, UNCHANGED vars PROVE EndpointInv'
  OBVIOUS
<1>1. reg' = reg /\ at' = at /\ call' = call /\ outq' = outq /\ lease' = lease /\ shut' = shut
  BY DEF vars
<1>2. Handles(reg, reg', 0)
  BY <1>1, FollowsItself DEF EndpointInv, Typed, Follows
<1> QED BY <1>1, <1>2, HandlerKeeps

(* Every step keeps the invariant.                                         *)
LEMMA EndpointSteps == EndpointInv /\ [Next]_vars => EndpointInv'
<1> SUFFICES ASSUME EndpointInv, [Next]_vars PROVE EndpointInv'
  OBVIOUS
<1>1. CASE TakeEvent
  BY <1>1, EventTaken
<1>2. CASE TakeAbort
  BY <1>2, AbortTaken
<1>3. CASE TakeDetach \/ TakeRetain
  BY <1>3, DetachTaken
<1>4. CASE TimerFires \/ UserAborts \/ UserDetaches \/ BranchDistrusts \/ BranchTrusts
  BY <1>4, UsersAndTimers
<1>5. CASE ShutBegins
  BY <1>5, ShutdownBegun
<1>6. CASE ShutEnds
  BY <1>6, ShutdownEnded
<1>7. CASE OthersStick
  BY <1>7, LeaseStuck
<1>8. ASSUME NEW c \in Call, Activate(c) \/ Peek(c) \/ Linger(c)
      PROVE  EndpointInv'
  BY <1>8, Activated
<1>9. ASSUME NEW c \in Call, Prepares(c)
      PROVE  EndpointInv'
  BY <1>9, PrepKeeps, SpawnKeeps DEF Prepares
<1>10. ASSUME NEW c \in Call, Writes(c)
       PROVE  EndpointInv'
  BY <1>10, Begun, Readied, Written, Undone, Answered DEF Writes
<1>11. ASSUME NEW c \in Call, Accepted(c) \/ Rejected(c)
       PROVE  EndpointInv'
  BY <1>11, CallAccepted, CallRejected
<1>12. ASSUME NEW g \in Spawn, Starts(g)
       PROVE  EndpointInv'
  BY <1>12, BarrierPassed, FactoryReturned, Shaken DEF Starts
<1>13. ASSUME NEW g \in Spawn, DisposeEnds(g) \/ Deliver(g)
       PROVE  EndpointInv'
  BY <1>13, DisposalEnded, Delivered
<1>14. ASSUME NEW g \in Spawn, ChildTurns(g) \/ ChildExits(g)
       PROVE  EndpointInv'
  BY <1>14, ChildTurned, ChildExited
<1>15. CASE UNCHANGED vars
  BY <1>15, EndpointStutters
<1> QED BY <1>1, <1>2, <1>3, <1>4, <1>5, <1>6, <1>7, <1>8, <1>9, <1>10, <1>11, <1>12, <1>13,
           <1>14, <1>15 DEF Next, Serves, Takes

(* The inductive invariant holds in every reachable state, whatever        *)
(* children, users, the branch and the shutdown do, for any finite set of  *)
(* calls.                                                                  *)
THEOREM EndpointStaysConsistent == Spec => []EndpointInv
BY EndpointStarts, EndpointSteps, PTL DEF Spec

-----------------------------------------------------------------------------
(* What the invariant says.                                                *)

(* The type invariant of the runs.                                         *)
LEMMA InvTypes == EndpointInv => TypeOK
<1> SUFFICES ASSUME EndpointInv PROVE TypeOK
  OBVIOUS
<1>1. Typed
  BY DEF EndpointInv
<1>2. reg \in Endpoint
  BY <1>1 DEF Typed
<1>3. reg.act.id \in Act \cup {0}
  BY <1>2, ActivationIds
<1>4. \A g \in Spawn : reg.tr[g].stage \in Stages /\ reg.tr[g].child \in Children
  <2>1. \A g \in Spawn : reg.tr[g] \in TransportState
    BY <1>2 DEF Endpoint
  <2> QED BY <2>1, TransportTyped
<1>5. /\ reg.status \in Statuses /\ reg.acts \in Act \cup {0}
      /\ {reg.client, reg.ready, reg.cur, reg.spawned} \subseteq Spawn \cup {0}
      /\ reg.noted \subseteq Spawn
      /\ \A i \in Act : reg.ended[i] \in Ends
  BY <1>2 DEF Endpoint
<1>6. lease.holder \in Spawn \cup {0} /\ shut \in {"no", "draining", "done", "failed"}
  BY <1>1 DEF Typed
<1> QED BY <1>3, <1>4, <1>5, <1>6 DEF TypeOK, Statuses

(* Who may write claims the session, and one process at most does.         *)
LEMMA InvOneWriter == EndpointInv => SingleWriter
<1> SUFFICES ASSUME EndpointInv PROVE SingleWriter
  OBVIOUS
<1>1. Leased
  BY DEF EndpointInv, Transports
<1>2. \A g \in Writers : g \in Spawn /\ Claims(g)
  BY DEF Writers, Claims
<1>3. \A g \in Writers : lease.holder = g \/ lease.stuck
  BY <1>1, <1>2 DEF Leased
<1>4. Cardinality(Writers) <= 1
  <2>1. CASE Writers = {}
    BY <2>1, FS_EmptySet
  <2>2. CASE Writers # {}
    <3>1. PICK g \in Writers : TRUE
      BY <2>2
    <3>2. Writers = {g}
      BY <1>1, <1>2, <3>1 DEF Leased
    <3>3. Cardinality({g}) = 1
      BY FS_Singleton
    <3> QED BY <3>2, <3>3
  <2> QED BY <2>1, <2>2
<1> QED BY <1>3, <1>4 DEF SingleWriter

(* The installed client.                                                   *)
LEMMA InvCurrent == EndpointInv => ClientIsCurrent
BY DEF EndpointInv, Transports, Installed, ClientIsCurrent

(* A failed message is known by its call's end or by the task that waits   *)
(* for it.                                                                 *)
LEMMA InvNoWrite == EndpointInv => NoWriteAfterFailure
<1> SUFFICES ASSUME EndpointInv, NEW c \in Call, NEW d \in Call, Failing(d), call[c].id = call[d].id
             PROVE  call[c].pc # "rpc"
  BY DEF NoWriteAfterFailure
<1>1. FailedCall(d)
  <2>1. CASE call[d].pc = "err"
    BY <2>1 DEF Failing, FailedCall
  <2>2. ASSUME NEW cause, [kind |-> "fail", c |-> d, cause |-> cause] \in Waiting
        PROVE  FailedCall(d)
    <3>1. PICK i \in DOMAIN reg.queue : reg.queue[i] = [kind |-> "fail", c |-> d, cause |-> cause]
      BY <2>2 DEF Waiting
    <3> QED BY <3>1 DEF FailedCall, Failing
  <2> QED BY <2>1, <2>2 DEF Failing
<1> QED BY <1>1 DEF EndpointInv, Calls, Poisoned

(* The shutdown that succeeded.                                            *)
LEMMA InvDrained == EndpointInv => ShutdownLeavesNothing
BY DEF EndpointInv, Transports, Drained, ShutdownLeavesNothing

(* No two processes can write one session, the client is the newest start- *)
(* up and nobody disposes of it, no message is sent after an earlier one   *)
(* of its activation failed, and a shutdown that succeeded leaves no child *)
(* that can write (interactive-agent.ts: the session lease, the dispose    *)
(* barriers, the outbound queue and shutdown()).                           *)
THEOREM EndpointStaysSafe == Spec => []EndpointSafe
<1>1. EndpointInv => EndpointSafe
  BY InvTypes, InvOneWriter, InvCurrent, InvNoWrite, InvDrained DEF EndpointSafe
<1> QED BY <1>1, EndpointStaysConsistent, PTL

(* However its end is reported - by the child, a failed message, an abort, *)
(* a detach, an exit, the branch or the shutdown - an activation settles   *)
(* at most once.                                                           *)
THEOREM ActivationSettlesOnce == Spec => []SettlesOnce
<1>1. EndpointInv => SettlesOnce
  BY DEF EndpointInv, Once, SettlesOnce
<1> QED BY <1>1, EndpointStaysConsistent, PTL

=============================================================================
