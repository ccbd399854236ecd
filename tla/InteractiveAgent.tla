------------------------ MODULE InteractiveAgent ------------------------
(***************************************************************************)
(* One endpoint of the interactive registry (interactive-agent.ts): a      *)
(* child process that takes turns, the calls that activate and abort it,   *)
(* the transition queue and the outbound queue that order them, the       *)
(* start-up and the disposal of its transports, the lease on its session   *)
(* file, and the registry's shutdown.                                      *)
(*                                                                         *)
(* A transport is named by the spawn that makes it, 1, 2, ...  The         *)
(* code compares generations; reg.cur is the spawn whose generation is the *)
(* endpoint's, and 0 once something else has advanced it.                  *)
(***************************************************************************)
EXTENDS Naturals, Sequences, FiniteSets

CONSTANTS
    Call,        \* the calls of activate: each makes at most one transport
    Plans        \* what the environment may do: see the type of plan

ASSUME CallsAreFinite == IsFiniteSet(Call)

VARIABLES
    reg,      \* the endpoint and the registry's maps for its key
    at,       \* where the running transition waits
    outq,     \* the outbound queue: calls
    call,     \* the calls of activate
    lease,    \* the lease of the session file
    shut,     \* the registry's shutdown
    plan      \* what the environment may still do

vars == <<reg, at, outq, call, lease, shut, plan>>

Spawn == 1..Cardinality(Call)
Act == 1..Cardinality(Call)

NoAct == [id |-> 0, over |-> "none", begun |-> FALSE, done |-> FALSE]

Live == {"starting", "running"}
Unsettled == Live \cup {"registered"}
Gone == shut \in {"done", "failed"}      \* the maps have been cleared
Open(r) == r.act.id # 0

-----------------------------------------------------------------------------
(* What several handlers do to the endpoint.                               *)

Enqueue(r, task) == [r EXCEPT !.queue = Append(@, task)]

(* disposeTracked: dispose() runs once, and its end is on the barrier.     *)
Dispose(r, g) ==
    IF g = 0 THEN r
    ELSE [r EXCEPT !.noted = @ \cup {g},
                   !.tr[g].child = IF @ \in {"live", "exited"} THEN "disposing" ELSE @]

(* The generation advances and the waiter of a start-up is rejected.       *)
Advance(r) ==
    [r EXCEPT !.cur = 0,
              !.tr = [g \in Spawn |-> IF @[g].stage = "shake"
                                      THEN [@[g] EXCEPT !.stage = "cut"] ELSE @[g]]]

(* A transport is dropped: the generation advances, a start-up that is     *)
(* still running is put on the barrier, an installed client is disposed.   *)
Drop(r) ==
    LET a == Advance(r)
        b == [a EXCEPT !.noted = @ \cup ({r.ready} \ {0}), !.ready = 0, !.client = 0]
    IN  Dispose(b, r.client)

(* abort() of a transport: the running turn stops.                         *)
Stop(r, g) ==
    IF g = 0 THEN r ELSE [r EXCEPT !.tr[g].turn = IF @ = "busy" THEN "stopped" ELSE @]

(* A bug: the activation stays open after it settled. *)
End_Kept(r, how) == [r EXCEPT !.ended[r.act.id] = IF @ = "no" THEN how ELSE "twice"]

(* activation_settled: the activation ends and is cleared in one turn of   *)
(* the event loop; an oversized transcript is looked at afterwards.        *)
End(r, how) ==
    LET e == [r EXCEPT !.ended[r.act.id] = IF @ = "no" THEN how ELSE "twice",
                       !.act = NoAct]
    IN  IF plan.big /\ r.status \notin Live
        THEN Enqueue(e, [kind |-> "retain", epoch |-> r.acts]) ELSE e

SettleActivationError(r, how) ==
    LET s == [r EXCEPT !.status =
                 IF @ \notin Unsettled THEN @
                 ELSE CASE how = "max_turns" -> "idle"
                        [] how = "cancelled" -> "detached"
                        [] OTHER -> "error"]
    IN  IF Open(r) THEN End(s, how) ELSE s

(* A bug: an activation without an override ends for no reason. *)
Detach_Bare(r) ==
    LET s == [r EXCEPT !.status = IF Open(r) /\ @ \in Unsettled THEN "detached" ELSE @]
        e == IF Open(r)
             THEN SettleActivationError(s, r.act.over)
             ELSE s
        d == Drop(e)
    IN  [d EXCEPT !.timer = 0, !.poison = 0,
                  !.status = IF @ = "unavailable" THEN @ ELSE "detached"]

(* detach without the checks of its options.                               *)
Detach(r) ==
    LET s == [r EXCEPT !.status = IF Open(r) /\ @ \in Unsettled THEN "detached" ELSE @]
        e == IF Open(r)
             THEN SettleActivationError(s, IF r.act.over = "none" THEN "error" ELSE r.act.over)
             ELSE s
        d == Drop(e)
    IN  [d EXCEPT !.timer = 0, !.poison = 0,
                  !.status = IF @ = "unavailable" THEN @ ELSE "detached"]

(* applyUnavailable with invalidateLiveTransport: the branch no longer     *)
(* vouches for the endpoint.  It does not go through the queue.            *)
Invalidate(r) ==
    LET busy == r.status \in Live \/ Open(r) \/ r.client # 0 \/ r.ready # 0
        d == Drop(r)
        s == SettleActivationError([d EXCEPT !.timer = 0, !.poison = 0], "error")
    IN  [IF busy THEN s ELSE r EXCEPT !.status = "unavailable"]

(* handleUnexpectedTransportExit.                                          *)
UnexpectedExit(r) ==
    LET g == r.client
        d == [r EXCEPT !.client = 0, !.ready = 0, !.status = "error",
                       !.noted = @ \cup (IF g = 0 THEN {r.ready} \ {0} ELSE {})]
    IN  SettleActivationError(Dispose(d, g), "error")

Disposing(r, g) == r.tr[g].stage \notin {"up", "lost"} \/ r.tr[g].child = "disposing"
Busy(r, W) == \E g \in W : Disposing(r, g)
Failed(r, W) == \E g \in W : r.tr[g].child = "stuck"

-----------------------------------------------------------------------------
Transport == [stage |-> "none", why |-> "none", waits |-> {}, child |-> "none",
              turn |-> "idle", told |-> {}, pipe |-> <<>>]

Init ==
    /\ plan \in Plans
    /\ reg = [status |-> "registered", act |-> NoAct, acts |-> 0, client |-> 0, ready |-> 0,
              cur |-> 0, spawned |-> 0, timer |-> 0, poison |-> 0, cause |-> "none",
              noted |-> {}, queue |-> <<>>, tr |-> [g \in Spawn |-> Transport],
              ended |-> [i \in Act |-> "no"]]
    /\ at = [step |-> "none", waits |-> {}, mode |-> "none"]
    /\ outq = <<>>
    /\ call = [c \in Call |-> [pc |-> "new", id |-> 0, mode |-> "none", via |-> 0, ans |-> "none"]]
    /\ lease = [holder |-> 0, stuck |-> FALSE]
    /\ shut = "no"

Idle == [step |-> "none", waits |-> {}, mode |-> "none"]
HeadIs(kind) == reg.queue # <<>> /\ Head(reg.queue).kind = kind
Pop(r) == [r EXCEPT !.queue = Tail(@)]
Spend(what) == plan[what] > 0 /\ plan' = [plan EXCEPT ![what] = @ - 1]
Goto(c, pc) == call' = [call EXCEPT ![c].pc = pc]

-----------------------------------------------------------------------------
(* activate: the settle barrier before the first transition.               *)

Ask(c) == [kind |-> "prep", c |-> c]

Activate(c) ==
    /\ call[c].pc = "new"
    /\ \/ /\ shut # "no"
          /\ Goto(c, "err")
          /\ UNCHANGED reg
       \/ /\ shut = "no" /\ reg.client # 0 /\ Open(reg) /\ reg.status \in Unsettled \cup {"idle"}
          /\ call' = [call EXCEPT ![c].pc = "peek", ![c].id = reg.act.id, ![c].via = reg.client]
          /\ UNCHANGED reg
       \/ /\ shut = "no"
          /\ ~(reg.client # 0 /\ Open(reg) /\ reg.status \in Unsettled \cup {"idle"})
          /\ reg' = Enqueue(reg, Ask(c))
          /\ Goto(c, "prep")
    /\ UNCHANGED <<at, outq, lease, shut, plan>>

(* get_state answers: an idle child with an open activation has not yet    *)
(* reported that it settled.                                               *)
Peek(c) ==
    LET t == reg.tr[call[c].via]
        idle == /\ t.child = "live" /\ t.turn \in {"idle", "quiet"}
                /\ ~Gone /\ reg.client = call[c].via /\ reg.act.id = call[c].id
    IN  /\ call[c].pc = "peek"
        /\ IF idle THEN Goto(c, "linger") /\ UNCHANGED reg
           ELSE Goto(c, "prep") /\ reg' = Enqueue(reg, Ask(c))
        /\ UNCHANGED <<at, outq, lease, shut, plan>>

(* A bug: the call waits for the turn to settle without a limit. *)
Linger_Patient(c) ==
    /\ call[c].pc = "linger" /\ reg.act.id # call[c].id
    /\ Goto(c, "prep") /\ reg' = Enqueue(reg, Ask(c))
    /\ UNCHANGED <<at, outq, lease, shut, plan>>

(* The activation settles in time, or the call detaches it and fails.      *)
Linger(c) ==
    /\ call[c].pc = "linger"
    /\ IF reg.act.id # call[c].id
       THEN Goto(c, "prep") /\ reg' = Enqueue(reg, Ask(c))
       ELSE /\ Goto(c, "err")
            /\ reg' = Enqueue(reg, [kind |-> "detach", only |-> "turn", id |-> call[c].id])
    /\ UNCHANGED <<at, outq, lease, shut, plan>>

-----------------------------------------------------------------------------
(* activate, first phase: one transition with up to three waits.           *)

Reject(c, r) ==
    /\ reg' = Pop(r)
    /\ Goto(c, "err")
    /\ at' = Idle
    /\ UNCHANGED outq

Wait(step, r, waits, mode) ==
    /\ reg' = r
    /\ at' = [step |-> step, waits |-> waits, mode |-> mode]
    /\ UNCHANGED <<call, outq>>

(* The transition is over: the call joins the outbound queue.              *)
Prepared(c, r, mode) ==
    /\ reg' = Pop(r)
    /\ at' = Idle
    /\ call' = [call EXCEPT ![c] = [pc |-> "out", id |-> r.act.id, mode |-> mode, ans |-> "none",
                                    via |-> IF r.client # 0 THEN r.client ELSE r.ready]]
    /\ outq' = Append(outq, c)

Mode(r) == IF plan.runtime = "pi" /\ (Open(r) \/ r.status \in Live) THEN "steer" ELSE "prompt"

(* The activation is made, or the open one joined.                         *)
Join(r) ==
    IF Open(r) THEN r
    ELSE [r EXCEPT !.acts = @ + 1, !.act = [NoAct EXCEPT !.id = r.acts + 1], !.poison = 0]

Allocate(c, r) ==
    LET j == Join(r)
    IN  IF r.client = 0 /\ r.ready = 0
        THEN /\ Wait("spawn", j, r.noted, Mode(r))
             /\ UNCHANGED lease
        ELSE Prepared(c, j, Mode(r)) /\ UNCHANGED lease

Reopens(r) == r.client = 0 /\ r.ready = 0 /\ r.status \in {"error", "detached"}

Prep(c) ==
    LET r == reg
        failed == r.status \in {"error", "detached"} /\ r.client # 0
    IN  /\ HeadIs("prep") /\ Head(reg.queue).c = c /\ at = Idle
        /\ IF \/ Gone \/ r.status = "unavailable"
              \/ plan.runtime = "grok" /\ (Open(r) \/ r.status \in Live)
           THEN Reject(c, r)
           ELSE IF failed
           THEN LET a == [Advance(r) EXCEPT !.client = 0, !.ready = 0]
                    d == Dispose(a, r.client)
                IN  Wait("dispose", d, d.noted, "none")
           ELSE IF Reopens(r) THEN Wait("trust", r, {}, "none")
           ELSE Allocate(c, r)
        /\ UNCHANGED <<lease, shut, plan>>

PrepDisposed(c) ==
    /\ HeadIs("prep") /\ Head(reg.queue).c = c /\ at.step = "dispose"
    /\ ~Busy(reg, at.waits)
    /\ IF Failed(reg, at.waits) THEN Reject(c, reg)
       ELSE IF Reopens(reg) THEN Wait("trust", reg, {}, "none")
       ELSE Allocate(c, reg)
    /\ UNCHANGED <<lease, shut, plan>>

(* revalidateForReopen: the branch is asked again and vouches for the      *)
(* endpoint, or not; a pi endpoint whose session file exists waits for     *)
(* its lease and reads the transcript.                                     *)
Trusted(r) == [r EXCEPT !.status = IF @ = "unavailable" THEN "detached" ELSE @]

PrepTrusted(c) ==
    /\ HeadIs("prep") /\ Head(reg.queue).c = c /\ at.step = "trust"
    /\ \/ /\ Spend("untrusted")
          /\ \/ Reject(c, [reg EXCEPT !.status = "unavailable"])
             \/ plan.runtime = "pi" /\ Reject(c, Trusted(reg))
       \/ /\ plan.runtime = "grok" \/ ~plan.file \/ Open(reg)
          /\ Allocate(c, Trusted(reg))
          /\ UNCHANGED plan
       \/ /\ plan.runtime = "pi" /\ plan.file
          /\ lease.stuck \/ lease.holder = 0
          /\ \E r \in {reg, Trusted(reg)} : IF lease.stuck THEN Reject(c, r) ELSE Allocate(c, r)
          /\ UNCHANGED plan
    /\ UNCHANGED <<lease, shut>>

(* awaitSpawnDisposeBarriers, then the spawn.  The activation may have     *)
(* been ended meanwhile by what does not go through the queue.             *)
PrepSpawns(c) ==
    /\ HeadIs("prep") /\ Head(reg.queue).c = c /\ at.step = "spawn"
    /\ ~Busy(reg, at.waits)
    /\ Failed(reg, at.waits) \/ lease.stuck \/ lease.holder = 0
    /\ IF Failed(reg, at.waits) \/ lease.stuck
       THEN Reject(c, reg)
       ELSE LET g == reg.spawned + 1
                r == [reg EXCEPT !.status = "starting", !.spawned = g, !.cur = g, !.ready = g,
                                 !.tr[g] = [Transport EXCEPT !.stage = "barrier",
                                                             !.waits = reg.noted]]
            IN  IF Open(r) THEN Prepared(c, r, at.mode) ELSE Reject(c, r)
    /\ UNCHANGED <<lease, shut, plan>>

-----------------------------------------------------------------------------
(* spawnTransport: one start-up after another, each with its own waits.    *)

Current(g) == ~Gone /\ reg.cur = g

(* A start-up fails: only the current one is the endpoint's error.         *)
Lose(r, g) ==
    LET l == [r EXCEPT !.tr[g].stage = "lost",
                       !.tr[g].why = IF r.cur = g THEN "error" ELSE "rejected"]
    IN  IF r.cur = g THEN [l EXCEPT !.status = "error", !.ready = 0] ELSE l

Settles(g, stage) == [reg EXCEPT !.tr[g].stage = stage]

SpawnBarrier(g) ==
    /\ reg.tr[g].stage = "barrier"
    /\ ~Busy(reg, reg.tr[g].waits)
    /\ reg' = IF Failed(reg, reg.tr[g].waits) \/ ~Current(g) THEN Lose(reg, g)
              ELSE Settles(g, "lease")
    /\ UNCHANGED <<at, outq, call, lease, shut, plan>>

SpawnLease(g) ==
    /\ reg.tr[g].stage = "lease"
    /\ \/ /\ lease.stuck
          /\ reg' = Lose(reg, g)
          /\ UNCHANGED lease
       \/ /\ ~lease.stuck /\ lease.holder = 0
          /\ IF Current(g)
             THEN reg' = Settles(g, "factory") /\ lease' = [lease EXCEPT !.holder = g]
             ELSE reg' = Lose(reg, g) /\ UNCHANGED lease
    /\ UNCHANGED <<at, outq, call, shut, plan>>

Releases(g) == lease' = [lease EXCEPT !.holder = IF @ = g THEN 0 ELSE @]

(* A bug: a failed start is taken to leave no child. *)
SpawnFactory_Clean(g) ==
    /\ reg.tr[g].stage = "factory"
    /\ \/ /\ LET up == [reg EXCEPT !.tr[g].child = "live"]
             IN  reg' = IF Current(g) /\ shut = "no"
                        THEN [up EXCEPT !.tr[g].stage = "shake"]
                        ELSE Dispose(Lose(up, g), g)
          /\ UNCHANGED <<lease, plan>>
       \/ /\ Spend("faults")
          /\ reg' = Lose(reg, g)
          /\ Releases(g)
       \/ /\ Spend("stuck")
          /\ reg' = [Lose(reg, g) EXCEPT !.tr[g].child = "stuck"]
          /\ lease' = [lease EXCEPT !.holder = 0]
    /\ UNCHANGED <<at, outq, call, shut>>

(* The factory returns a transport, or fails with or without a child.      *)
SpawnFactory(g) ==
    /\ reg.tr[g].stage = "factory"
    /\ \/ /\ LET up == [reg EXCEPT !.tr[g].child = "live"]
             IN  reg' = IF Current(g) /\ shut = "no"
                        THEN [up EXCEPT !.tr[g].stage = "shake"]
                        ELSE Dispose(Lose(up, g), g)
          /\ UNCHANGED <<lease, plan>>
       \/ /\ Spend("faults")
          /\ reg' = Lose(reg, g)
          /\ Releases(g)
       \/ /\ Spend("stuck")
          /\ reg' = [Lose(reg, g) EXCEPT !.tr[g].child = "stuck"]
          /\ lease' = [holder |-> 0, stuck |-> TRUE]
    /\ UNCHANGED <<at, outq, call, shut>>

(* The handshake: get_state answers, fails, or is cancelled.               *)
SpawnShake(g) ==
    /\ reg.tr[g].stage \in {"shake", "cut"}
    /\ \/ /\ reg.tr[g].stage = "shake" /\ reg.tr[g].child = "live"
          /\ reg' = IF Current(g) /\ shut = "no"
                    THEN [reg EXCEPT !.tr[g].stage = "up", !.client = g, !.ready = 0]
                    ELSE Dispose(Lose(reg, g), g)
          /\ UNCHANGED plan
       \/ /\ \/ reg.tr[g].stage = "cut" \/ reg.tr[g].child # "live"
             \/ reg.tr[g].child = "live" /\ plan.faults > 0
          /\ reg' = Dispose(Lose(reg, g), g)
          /\ IF reg.tr[g].stage = "cut" \/ reg.tr[g].child # "live"
             THEN UNCHANGED plan ELSE Spend("faults")
    /\ UNCHANGED <<at, outq, call, lease, shut>>

(* dispose() ends: the lease is released, or sticks with the failure.      *)
DisposeEnds(g) ==
    /\ reg.tr[g].child = "disposing"
    /\ \/ /\ reg' = [reg EXCEPT !.tr[g].child = "gone"]
          /\ Releases(g)
          /\ UNCHANGED plan
       \/ /\ Spend("stuck")
          /\ reg' = [reg EXCEPT !.tr[g].child = "stuck"]
          /\ lease' = IF lease.holder = g THEN [holder |-> 0, stuck |-> TRUE] ELSE lease
    /\ UNCHANGED <<at, outq, call, shut>>

-----------------------------------------------------------------------------
(* activate, second phase: the message is written, one call at a time.     *)

Mine(c) == ~Gone /\ reg.act.id = call[c].id /\ reg.act.over # "cancelled"
First(c, pc) == outq # <<>> /\ Head(outq) = c /\ call[c].pc = pc

(* The write failed: the activation's later messages fail with it.         *)
OutFails(c, r, cause) ==
    /\ reg' = Enqueue([r EXCEPT !.poison = call[c].id, !.cause = cause],
                      [kind |-> "fail", c |-> c, cause |-> cause])
    /\ outq' = Tail(outq)
    /\ Goto(c, "end")

(* A bug: a message goes out after an earlier one failed. *)
OutBegins_Poisoned(c) ==
    /\ First(c, "out")
    /\ LET clean == IF reg.poison # call[c].id THEN [reg EXCEPT !.poison = 0] ELSE reg
       IN  IF FALSE THEN OutFails(c, reg, reg.cause)
           ELSE IF ~Mine(c) THEN OutFails(c, clean, IF Gone THEN "error" ELSE "rejected")
           ELSE Goto(c, "ready") /\ reg' = clean /\ UNCHANGED outq
    /\ UNCHANGED <<at, lease, shut, plan>>

OutBegins(c) ==
    /\ First(c, "out")
    /\ LET clean == IF reg.poison # call[c].id THEN [reg EXCEPT !.poison = 0] ELSE reg
       IN  IF reg.poison = call[c].id /\ ~Gone THEN OutFails(c, reg, reg.cause)
           ELSE IF ~Mine(c) THEN OutFails(c, clean, IF Gone THEN "error" ELSE "rejected")
           ELSE Goto(c, "ready") /\ reg' = clean /\ UNCHANGED outq
    /\ UNCHANGED <<at, lease, shut, plan>>

(* Readiness races with the end of the activation.                         *)
OutReady(c) ==
    /\ First(c, "ready")
    /\ LET t == reg.tr[call[c].via]
       IN  \/ reg.act.id # call[c].id /\ OutFails(c, reg, "rejected")
           \/ /\ reg.act.id = call[c].id /\ t.stage = "up"
              /\ Goto(c, "write") /\ UNCHANGED <<reg, outq>>
           \/ reg.act.id = call[c].id /\ t.stage = "lost" /\ OutFails(c, reg, t.why)
    /\ UNCHANGED <<at, lease, shut, plan>>

(* What the child does with a message.                                     *)
Event(kind, told) == [kind |-> kind, told |-> told]
Tell(r, g, id, mode) ==
    LET t == r.tr[g]
    IN  IF mode = "steer"
        THEN [r EXCEPT !.tr[g].told = IF t.turn = "busy" THEN @ \cup {id} ELSE @]
        ELSE [r EXCEPT !.tr[g].turn = "busy", !.tr[g].told = {id},
                       !.tr[g].pipe = @ \o (IF t.turn = "quiet"
                                            THEN <<Event("settled", t.told)>> ELSE <<>>)
                                        \o <<Event("start", {})>>]

Accepts(r, g, mode) ==
    r.tr[g].child = "live" /\ (mode = "steer" \/ r.tr[g].turn \in {"idle", "quiet"})

(* A bug: a transport that is disposed of stays installed. *)
OutWrites_Kept(c) ==
    LET g == call[c].via
        ok == Accepts(reg, g, call[c].mode)
    IN  /\ First(c, "write")
        /\ IF ~Mine(c)
           THEN reg' = Dispose(reg, g) /\ Goto(c, "undo")
           ELSE /\ reg' = IF ok THEN Tell(reg, g, call[c].id, call[c].mode) ELSE reg
                /\ call' = [call EXCEPT ![c].pc = "rpc", ![c].ans = IF ok THEN "ok" ELSE "no"]
        /\ UNCHANGED <<at, outq, lease, shut, plan>>

OutWrites(c) ==
    LET g == call[c].via
    IN  /\ First(c, "write")
        /\ IF ~Mine(c)
           THEN /\ reg' = Dispose([reg EXCEPT !.client = IF @ = g THEN 0 ELSE @], g)
                /\ Goto(c, "undo")
           ELSE LET ok == Accepts(reg, g, call[c].mode)
                IN  /\ reg' = IF ok THEN Tell(reg, g, call[c].id, call[c].mode) ELSE reg
                    /\ call' = [call EXCEPT ![c].pc = "rpc", ![c].ans = IF ok THEN "ok" ELSE "no"]
        /\ UNCHANGED <<at, outq, lease, shut, plan>>

OutUndone(c) ==
    /\ First(c, "undo")
    /\ ~Busy(reg, {call[c].via})
    /\ OutFails(c, reg, IF Failed(reg, {call[c].via}) THEN "error" ELSE "rejected")
    /\ UNCHANGED <<at, lease, shut, plan>>

(* The answer arrives; the child is lost first; or the request times out.  *)
OutAnswered(c) ==
    /\ First(c, "rpc")
    /\ \/ /\ call[c].ans = "ok" /\ reg.tr[call[c].via].child = "live"
          /\ reg' = Enqueue(reg, [kind |-> "accept", c |-> c])
          /\ outq' = Tail(outq)
          /\ Goto(c, "end")
          /\ UNCHANGED plan
       \/ /\ call[c].ans = "no" \/ reg.tr[call[c].via].child # "live"
          /\ OutFails(c, reg, "error")
          /\ UNCHANGED plan
       \/ Spend("faults") /\ OutFails(c, reg, "error")
    /\ UNCHANGED <<at, lease, shut>>

(* activate, third phase.                                                  *)
Accepted(c) ==
    /\ HeadIs("accept") /\ Head(reg.queue).c = c
    /\ LET r == Pop(reg)
       IN  reg' = IF ~Gone /\ r.act.id = call[c].id /\ r.status \in {"registered", "detached", "error"}
                  THEN [r EXCEPT !.status = "starting"] ELSE r
    /\ Goto(c, "ok")
    /\ UNCHANGED <<at, outq, lease, shut, plan>>

Rejected(c) ==
    /\ HeadIs("fail") /\ Head(reg.queue).c = c
    /\ LET r == Pop(reg)
           error == Head(reg.queue).cause = "error"
           status == IF error THEN "error"
                     ELSE IF r.status = "starting" THEN "detached" ELSE r.status
       IN  reg' = IF ~Gone /\ r.act.id = call[c].id
                  THEN End([r EXCEPT !.status = status], IF error THEN "error" ELSE "cancelled")
                  ELSE r
    /\ Goto(c, "err")
    /\ UNCHANGED <<at, outq, lease, shut, plan>>

-----------------------------------------------------------------------------
(* Events of the child, reduced one transition each (reduceEvent).         *)

(* An event leaves the pipe: it is queued while its spawn is current.      *)
Deliver(g) ==
    /\ reg.tr[g].pipe # <<>>
    /\ LET r == [reg EXCEPT !.tr[g].pipe = Tail(@)]
           e == Head(reg.tr[g].pipe)
       IN  reg' = IF reg.tr[g].stage \in {"shake", "cut", "up"} /\ Current(g)
                  THEN Enqueue(r, [kind |-> "event", g |-> g, ev |-> e.kind, told |-> e.told])
                  ELSE r
    /\ UNCHANGED <<at, outq, call, lease, shut, plan>>

(* A bug: a late report settles the activation that is open. *)
Settled_Late(r) ==
    LET grokCut == plan.runtime = "grok" /\ ~r.act.done /\ r.act.over = "none"
        over == IF grokCut THEN "cancelled" ELSE r.act.over
        how == IF over \in {"none", "max_turns"} THEN "ok" ELSE over
        status == IF over = "error" THEN "error" ELSE "idle"
        lru(q) == IF plan.lru THEN Enqueue(q, [kind |-> "detach", only |-> "idle", id |-> 0]) ELSE q
    IN  IF ~Open(r) THEN [r EXCEPT !.timer = 0, !.status = "idle"]
        ELSE lru(End([r EXCEPT !.timer = 0, !.status = status], how))

(* agent_settled.  A turn that the open activation did not see begin is    *)
(* not its own; a Grok turn without a completed prompt was cancelled.      *)
Settled(r) ==
    LET grokCut == plan.runtime = "grok" /\ ~r.act.done /\ r.act.over = "none"
        over == IF grokCut THEN "cancelled" ELSE r.act.over
        how == IF over \in {"none", "max_turns"} THEN "ok" ELSE over
        status == IF over = "error" THEN "error" ELSE "idle"
        lru(q) == IF plan.lru THEN Enqueue(q, [kind |-> "detach", only |-> "idle", id |-> 0]) ELSE q
    IN  IF ~Open(r) THEN [r EXCEPT !.timer = 0, !.status = "idle"]
        ELSE IF ~r.act.begun /\ r.act.over = "none" THEN [r EXCEPT !.timer = 0]
        ELSE lru(End([r EXCEPT !.timer = 0, !.status = status], how))

Reduce(r, ev) ==
    CASE ev = "start" ->
            [r EXCEPT !.status = "running", !.act.begun = @ \/ Open(r)]
      [] ev = "completed" -> [r EXCEPT !.act.done = @ \/ Open(r)]
      [] ev = "failed" ->
            [r EXCEPT !.status = "error", !.act.over = IF Open(r) THEN "error" ELSE @]
      [] ev = "turns" ->
            IF Open(r) /\ r.act.over = "none"
            THEN Stop([r EXCEPT !.act.over = "max_turns"], r.client) ELSE r
      [] ev = "settled" -> Settled(r)

TakeEvent ==
    /\ HeadIs("event")
    /\ LET t == Head(reg.queue)
           r == Pop(reg)
       IN  reg' = IF ~Current(t.g) THEN r
                  ELSE IF t.ev = "exit"
                  THEN IF r.client \in {0, t.g} THEN UnexpectedExit(r) ELSE r
                  ELSE IF r.client = t.g THEN Reduce(r, t.ev) ELSE r
    /\ UNCHANGED <<at, outq, call, lease, shut, plan>>

(* A bug: an abort arms no timer. *)
TakeAbort_Untimed ==
    /\ HeadIs("abort")
    /\ LET r == Pop(reg)
           told == Stop([r EXCEPT !.act.over = IF Open(r) /\ @ = "none" THEN "cancelled" ELSE @,
                                  !.noted = @], r.client)
           gone == Drop([r EXCEPT !.act.over = "cancelled", !.timer = 0])
       IN  reg' = CASE Gone -> r
                    [] ~Gone /\ r.client # 0 /\ (Open(r) \/ r.status \in Live) -> told
                    [] ~Gone /\ r.client = 0 /\ Open(r) ->
                         SettleActivationError([gone EXCEPT !.status =
                            IF @ \in {"starting", "registered"} THEN "detached" ELSE @], "cancelled")
                    [] OTHER -> r
    /\ UNCHANGED <<at, outq, call, lease, shut, plan>>

(* abort: a live child is told and a timer armed; a start-up is dropped.   *)
TakeAbort ==
    /\ HeadIs("abort")
    /\ LET r == Pop(reg)
           told == Stop([r EXCEPT !.act.over = IF Open(r) /\ @ = "none" THEN "cancelled" ELSE @,
                                  !.timer = IF Open(r) THEN r.act.id ELSE @], r.client)
           gone == Drop([r EXCEPT !.act.over = "cancelled", !.timer = 0])
       IN  reg' = CASE Gone -> r
                    [] ~Gone /\ r.client # 0 /\ (Open(r) \/ r.status \in Live) -> told
                    [] ~Gone /\ r.client = 0 /\ Open(r) ->
                         SettleActivationError([gone EXCEPT !.status =
                            IF @ \in {"starting", "registered"} THEN "detached" ELSE @], "cancelled")
                    [] OTHER -> r
    /\ UNCHANGED <<at, outq, call, lease, shut, plan>>

(* A bug: a detach does not look whether its turn is still open. *)
Applies_Any(t, r) ==
    CASE t.only = "turn" -> TRUE
      [] t.only = "idle" -> ~Open(r) /\ r.status = "idle"
      [] t.only = "epoch" -> r.acts = t.id /\ ~Open(r) /\ r.status \notin Live
      [] t.only = "any" -> TRUE

(* detach, and what its options ask of the endpoint first.                 *)
Applies(t, r) ==
    CASE t.only = "turn" -> r.act.id = t.id
      [] t.only = "idle" -> ~Open(r) /\ r.status = "idle"
      [] t.only = "epoch" -> r.acts = t.id /\ ~Open(r) /\ r.status \notin Live
      [] t.only = "any" -> TRUE

TakeDetach ==
    /\ HeadIs("detach")
    /\ LET r == Pop(reg)
       IN  reg' = IF ~Gone /\ Applies(Head(reg.queue), r) THEN Detach(r) ELSE r
    /\ UNCHANGED <<at, outq, call, lease, shut, plan>>

(* An oversized transcript is released, unless a newer activation began.   *)
TakeRetain ==
    /\ HeadIs("retain")
    /\ LET r == Pop(reg)
           epoch == Head(reg.queue).epoch
       IN  reg' = IF ~Gone /\ r.acts = epoch /\ ~Open(r) /\ r.status \notin Live
                  THEN Enqueue(r, [kind |-> "detach", only |-> "epoch", id |-> epoch]) ELSE r
    /\ UNCHANGED <<at, outq, call, lease, shut, plan>>

(* The abort settle timer.                                                 *)
TimerFires ==
    /\ reg.timer # 0
    /\ reg' = Enqueue([reg EXCEPT !.timer = 0],
                      [kind |-> "detach", only |-> "turn", id |-> reg.timer])
    /\ UNCHANGED <<at, outq, call, lease, shut, plan>>

-----------------------------------------------------------------------------
(* shutdown: outside the queue, under one deadline.                        *)

Bag(r) == {g \in Spawn : r.tr[g].child \in {"live", "exited", "disposing"}}
Pending == lease.holder # 0 /\ reg.tr[lease.holder].stage # "up"

ShutBegins ==
    /\ Spend("shutdown") /\ shut = "no"
    /\ shut' = "draining"
    /\ LET g == reg.client
           a == Advance(Stop([reg EXCEPT !.timer = 0], g))
           s == IF Open(a) THEN SettleActivationError(a, "cancelled") ELSE a
           d == Dispose([s EXCEPT !.client = 0, !.ready = 0,
                                  !.noted = @ \cup (IF g = 0 THEN {reg.ready} \ {0} ELSE {})], g)
           h == IF Pending THEN lease.holder ELSE 0
       IN  reg' = IF h # 0 /\ d.tr[h].child # "none" THEN Dispose(d, h) ELSE d
    /\ UNCHANGED <<at, outq, call, lease>>

(* A bug: the shutdown waits for installed transports only. *)
ShutEnds_Installed ==
    /\ shut = "draining"
    /\ \/ /\ ~Busy(reg, reg.noted)
          /\ shut' = IF Failed(reg, reg.noted) THEN "failed" ELSE "done"
          /\ UNCHANGED lease
       \/ /\ Busy(reg, reg.noted) \/ Pending
          /\ shut' = "failed"
          /\ lease' = IF lease.holder # 0 /\ (Pending \/ lease.holder \in Bag(reg))
                      THEN [holder |-> 0, stuck |-> TRUE] ELSE lease
    /\ reg' = [reg EXCEPT !.poison = 0, !.noted = {}, !.timer = 0]
    /\ UNCHANGED <<at, outq, call, plan>>

(* Every disposal has ended in time, or the deadline makes what is left    *)
(* fail closed.                                                            *)
ShutEnds ==
    /\ shut = "draining"
    /\ \/ /\ ~Busy(reg, reg.noted) /\ ~Pending
          /\ shut' = IF Failed(reg, reg.noted) THEN "failed" ELSE "done"
          /\ UNCHANGED lease
       \/ /\ Busy(reg, reg.noted) \/ Pending
          /\ shut' = "failed"
          /\ lease' = IF lease.holder # 0 /\ (Pending \/ lease.holder \in Bag(reg))
                      THEN [holder |-> 0, stuck |-> TRUE] ELSE lease
    /\ reg' = [reg EXCEPT !.poison = 0, !.noted = {}, !.timer = 0]
    /\ UNCHANGED <<at, outq, call, plan>>

-----------------------------------------------------------------------------
(* The environment: users, the branch, the children.                       *)

UserAborts ==
    /\ Spend("aborts") /\ shut = "no"
    /\ reg' = Enqueue(reg, [kind |-> "abort"])
    /\ UNCHANGED <<at, outq, call, lease, shut>>

UserDetaches ==
    /\ Spend("detaches") /\ ~Gone
    /\ reg' = Enqueue(reg, [kind |-> "detach", only |-> "any", id |-> 0])
    /\ UNCHANGED <<at, outq, call, lease, shut>>

(* restoreActiveBranch finds the link untrusted, or trusted again.         *)
BranchDistrusts ==
    /\ Spend("distrusts") /\ shut = "no"
    /\ reg' = Invalidate(reg)
    /\ UNCHANGED <<at, outq, call, lease, shut>>

(* Another registry of the process took the session and could not dispose  *)
(* of its child: nobody gets the lease any more.                           *)
OthersStick ==
    /\ Spend("stuck") /\ lease.holder = 0
    /\ lease' = [lease EXCEPT !.stuck = TRUE]
    /\ UNCHANGED <<reg, at, outq, call, shut>>

BranchTrusts ==
    /\ shut = "no" /\ reg.status = "unavailable"
    /\ reg' = [reg EXCEPT !.status = "detached"]
    /\ UNCHANGED <<at, outq, call, lease, shut, plan>>

Emits(g, turn, events) ==
    reg' = [reg EXCEPT !.tr[g].turn = turn, !.tr[g].pipe = @ \o events]

(* A run of the turn ends: the child retries or follows up, or it falls    *)
(* quiet and reports that it settled afterwards.                           *)
ChildTurns(g) ==
    LET t == reg.tr[g]
    IN  /\ t.child = "live"
        /\ \/ /\ t.turn = "busy" /\ plan.runtime = "pi"
              /\ Spend("retries")
              /\ Emits(g, "busy", <<Event("start", {})>>)
           \/ /\ t.turn = "busy"
              /\ Spend("turns")
              /\ Emits(g, "busy", <<Event("turns", {})>>)
           \/ /\ t.turn \in {"busy", "stopped"}
              /\ \/ Emits(g, "quiet", <<>>) /\ (plan.runtime = "pi" \/ t.turn = "stopped")
                 \/ plan.runtime = "grok" /\ Emits(g, "quiet", <<Event("completed", {})>>)
                 \/ plan.runtime = "grok" /\ Emits(g, "quiet", <<Event("failed", {})>>)
              /\ UNCHANGED plan
           \/ /\ t.turn = "quiet"
              /\ Emits(g, "idle", <<Event("settled", t.told)>>)
              /\ UNCHANGED plan
    /\ UNCHANGED <<at, outq, call, lease, shut>>

ChildExits(g) ==
    /\ reg.tr[g].child = "live"
    /\ Spend("exits")
    /\ reg' = [reg EXCEPT !.tr[g].child = "exited", !.tr[g].pipe = Append(@, Event("exit", {}))]
    /\ UNCHANGED <<at, outq, call, lease, shut>>

-----------------------------------------------------------------------------
Prepares(c) == Prep(c) \/ PrepDisposed(c) \/ PrepTrusted(c) \/ PrepSpawns(c)
Writes(c) == OutBegins(c) \/ OutReady(c) \/ OutWrites(c) \/ OutUndone(c) \/ OutAnswered(c)
Starts(g) == SpawnBarrier(g) \/ SpawnLease(g) \/ SpawnFactory(g) \/ SpawnShake(g)
Takes == TakeEvent \/ TakeAbort \/ TakeDetach \/ TakeRetain

Serves == \/ Takes \/ TimerFires \/ ShutEnds
          \/ \E c \in Call : Peek(c) \/ Linger(c) \/ Prepares(c) \/ Writes(c) \/ Accepted(c) \/ Rejected(c)
          \/ \E g \in Spawn : Starts(g) \/ DisposeEnds(g) \/ Deliver(g)

Next ==
    \/ Serves
    \/ \E c \in Call : Activate(c)
    \/ \E g \in Spawn : ChildTurns(g) \/ ChildExits(g)
    \/ UserAborts \/ UserDetaches \/ BranchDistrusts \/ BranchTrusts \/ OthersStick \/ ShutBegins

Spec == Init /\ [][Next]_vars

(* Every step of the registry, of its timers and of what it awaits is     *)
(* taken in the end; users and children need not do anything.             *)
Fairness ==
    /\ WF_vars(Takes) /\ WF_vars(TimerFires) /\ WF_vars(ShutEnds)
    /\ \A c \in Call : WF_vars(Peek(c)) /\ WF_vars(Linger(c)) /\ WF_vars(Prepares(c))
    /\ \A c \in Call : WF_vars(Writes(c)) /\ WF_vars(Accepted(c) \/ Rejected(c))
    /\ \A g \in Spawn : WF_vars(Starts(g)) /\ WF_vars(DisposeEnds(g)) /\ WF_vars(Deliver(g))

FairSpec == Spec /\ Fairness

-----------------------------------------------------------------------------
Stages == {"none", "barrier", "lease", "factory", "shake", "cut", "up", "lost"}
Children == {"none", "live", "exited", "disposing", "gone", "stuck"}
Ends == {"no", "ok", "error", "cancelled", "max_turns", "twice"}

(* The endpoint, its activation and its transports are of their types.     *)
TypeOK ==
    /\ reg.status \in {"registered", "starting", "running", "idle", "error", "detached",
                       "unavailable"}
    /\ reg.act.id \in Act \cup {0} /\ reg.acts \in Act \cup {0}
    /\ {reg.client, reg.ready, reg.cur, reg.spawned} \subseteq Spawn \cup {0}
    /\ reg.noted \subseteq Spawn
    /\ \A g \in Spawn : reg.tr[g].stage \in Stages /\ reg.tr[g].child \in Children
    /\ \A i \in Act : reg.ended[i] \in Ends
    /\ lease.holder \in Spawn \cup {0}
    /\ shut \in {"no", "draining", "done", "failed"}

(* No two child processes can write one session file: every process that  *)
(* may still run, the ones being disposed of and the ones whose disposal   *)
(* failed included, is covered by the session's lease, and there is one.   *)
Writers == {g \in Spawn : reg.tr[g].child \in {"live", "disposing", "stuck"}}
SingleWriter ==
    /\ Cardinality(Writers) <= 1
    /\ \A g \in Writers : lease.holder = g \/ lease.stuck

(* An activation settles at most once, whatever reports its end: the       *)
(* child, a failed message, an abort, a detach, an exit, the shutdown.     *)
SettlesOnce == \A i \in Act : reg.ended[i] # "twice"

(* The installed client has completed its start-up, it is the newest, and  *)
(* nobody is disposing of it: whoever drops a transport takes it out of    *)
(* the endpoint first, and a late start-up is never installed.             *)
ClientIsCurrent ==
    reg.client # 0 =>
        LET t == reg.tr[reg.client]
        IN  t.stage = "up" /\ t.child \in {"live", "exited"} /\ reg.client = reg.cur

(* Once the shutdown has succeeded no lease is held, no child runs and     *)
(* none is being disposed of: only a child whose disposal failed before    *)
(* may be left, under a lease that nobody can take.                        *)
ShutdownLeavesNothing ==
    shut = "done" =>
        lease.holder = 0 /\ \A g \in Spawn : reg.tr[g].child \in {"none", "gone", "stuck"}

Waiting == {reg.queue[i] : i \in DOMAIN reg.queue}

(* A message that failed takes the later messages of its turn with it:     *)
(* none of them is written any more, even before the failure has been      *)
(* dealt with by the transition queue.                                     *)
Failing(d) ==
    /\ call[d].mode # "none"
    /\ call[d].pc = "err" \/ [kind |-> "fail", c |-> d, cause |-> "error"] \in Waiting
                          \/ [kind |-> "fail", c |-> d, cause |-> "rejected"] \in Waiting
NoWriteAfterFailure ==
    \A c, d \in Call : Failing(d) /\ call[c].id = call[d].id => call[c].pc # "rpc"

(* An activation ends well only by the report of a turn that was told its  *)
(* message, never by the late report of an earlier one; and the time-outs  *)
(* that release an endpoint end no activation but the one they are for.    *)
EndsItsOwn ==
    [][\A i \in Act : reg.ended[i] = "no" /\ reg'.ended[i] # "no" =>
         /\ reg'.ended[i] = "ok" => HeadIs("event") /\ i \in Head(reg.queue).told
         /\ HeadIs("detach") /\ reg'.queue = Tail(reg.queue) =>
              Head(reg.queue).only = "any" \/ Head(reg.queue).id = i]_vars

(* Every call of activate returns or throws, whatever children, users and  *)
(* the branch do.                                                          *)
CallsReturn == \A c \in Call : call[c].pc # "new" ~> call[c].pc \in {"ok", "err"}

(* A turn that was cancelled ends, even when the child never reports.      *)
CancelEnds == \A i \in Act : (reg.act.id = i /\ reg.act.over = "cancelled") ~> reg.ended[i] # "no"

(* One process writes a session, the endpoint's client is the current one, *)
(* nothing is written after a failure and the shutdown leaves nothing      *)
(* free.                                                                   *)
EndpointSafe ==
    /\ TypeOK
    /\ SingleWriter
    /\ ClientIsCurrent
    /\ NoWriteAfterFailure
    /\ ShutdownLeavesNothing

(* An activation is settled once, by the turn that was begun for it.       *)
SettledByItsOwn == []SettlesOnce /\ EndsItsOwn

(* Calls return, and what was cancelled ends.                              *)
CallsSettle == CallsReturn /\ CancelEnds
=============================================================================
