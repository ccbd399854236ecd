--------------------------- MODULE RunCoordinator ---------------------------
(***************************************************************************)
(* The coordinator of one durable run (run-coordinator.ts) with the lanes  *)
(* that work on its units (execution/tool.ts), the final barrier           *)
(* (run-persistence.ts) and the resumption of a run after a crash.         *)
(*                                                                         *)
(* The run's record is on disk (run.json) and in memory (live).  Two       *)
(* queues order the writes: the coordinator's queue of durable writes,     *)
(* each of which ends by mirroring into live what it wrote, and the        *)
(* store's queue of calls for the run.  finishUnit writes without passing  *)
(* through the first one.  A step is what the process does between two     *)
(* waits: one call of the store with everything that follows it at once,   *)
(* or what a lane does until its next await.  A call that fails may or may *)
(* not have changed run.json.  The process may die between any two steps.  *)
(***************************************************************************)
EXTENDS Naturals, Sequences, SequencesExt

CONSTANTS Unit,        \* the units of runs
          Nothing,        \* no unit, no record
          Runs,        \* bounds: the units of a run, those that a fanout step
                       \* adds, how many calls fail, how often it is resumed
          MaxFlushes   \* bound: flushes in the queue at a time

VARIABLES
    runJson,     \* run.json
    live,     \* the record in memory
    active,   \* whether the run is registered with the coordinator
    timer,    \* whether a coalesced flush is scheduled
    durable,  \* the coordinator's queue of durable writes
    calls,    \* the store's queue of calls
    lane,     \* where the work on each unit is
    main,     \* where the run as a whole is
    told,     \* how often each unit's child got the original prompt
    ended,    \* each unit's status in its last unit_terminal event of this claim
    runEnd,   \* the status in run_terminal, if that is the log's last word
    children, \* the units that the fanout step adds: never changes
    resumed,  \* whether this is a resumption of the run
    faults,   \* how many calls may still fail
    resumes   \* how often the run may still be resumed

memory == <<live, active, timer>>
queues == <<durable, calls>>
events == <<told, ended, runEnd>>
bounds == <<children, resumed, faults, resumes>>
coordinatorVars == <<runJson, memory, queues, lane, main, events, bounds>>

ASSUME CoordinatorAssumption ==
    /\ Nothing \notin Unit
    /\ Runs \subseteq [units : SUBSET Unit, children : SUBSET Unit,
                       faults : Nat, resumes : Nat]
    /\ MaxFlushes \in Nat

Terminal == {"completed", "failed"}
UnitStatus == {"absent", "queued", "running"} \cup Terminal
RunStatus == {"running"} \cup Terminal

(* sessionFile absent; present with sessionPromptEstablished false; true.  *)
Session == {"none", "path", "prompted"}
SessionRank == [s \in Session |-> CASE s = "none" -> 0
                                    [] s = "path" -> 1
                                    [] s = "prompted" -> 2]

Attempt == [attempt : Nat, status : {"running"} \cup Terminal]
UnitRecord == [status : UnitStatus, attempt : Nat, attempts : Seq(Attempt),
               session : Session]
RunRecord == [status : RunStatus, units : [Unit -> UnitRecord],
              tasks : Nat, delivered : [Unit -> Nat]]

(* The durable writes, and the calls that are made outside their queue.    *)
Write == {"expand", "start", "session", "established", "delivered", "flush",
          "final"}
Call == [kind : Write \cup {"startEvent", "finish", "finishEvent", "runTerminal"},
         unit : Unit \cup {Nothing}, record : UnitRecord \cup {Nothing}, last : BOOLEAN]
CallFor(kind, u) == [kind |-> kind, unit |-> u, record |-> Nothing, last |-> FALSE]

LanePc == {"idle", "starting", "started", "stamping", "stamped", "prompting",
           "working", "ending", "failing", "failEnding", "done", "lost"}

CoordinatorTypeOK ==
    /\ runJson \in RunRecord
    /\ live \in RunRecord
    /\ active \in BOOLEAN
    /\ timer \in BOOLEAN
    /\ durable \in Seq(Call)
    /\ calls \in Seq(Call)
    /\ lane \in [Unit -> LanePc]
    /\ main \in {"work", "expanding", "stopped", "final", "over", "dead"}
    /\ told \in [Unit -> Nat]
    /\ ended \in [Unit -> Terminal \cup {"none"}]
    /\ runEnd \in RunStatus \cup {"none"}
    /\ children \subseteq Unit
    /\ resumed \in BOOLEAN
    /\ faults \in Nat
    /\ resumes \in Nat

(* startDurableRun: the record is written, claimed and set running.        *)
NewUnit == [status |-> "queued", attempt |-> 1, attempts |-> <<>>,
            session |-> "none"]
NewRun(units) ==
    [status |-> "running",
     units |-> [u \in Unit |-> IF u \in units THEN NewUnit
                               ELSE [NewUnit EXCEPT !.status = "absent"]],
     tasks |-> 0, delivered |-> [u \in Unit |-> 0]]

(* A run that "main" says is worked on, or not.                            *)
StartsAs(run, at) ==
    /\ runJson = NewRun(run.units)
    /\ children = run.children
    /\ faults = run.faults
    /\ resumes = run.resumes
    /\ live = runJson
    /\ active = TRUE
    /\ timer = FALSE
    /\ durable = <<>>
    /\ calls = <<>>
    /\ lane = [u \in Unit |-> "idle"]
    /\ main = at
    /\ told = [u \in Unit |-> 0]
    /\ ended = [u \in Unit |-> "none"]
    /\ runEnd = "none"
    /\ resumed = FALSE

CoordinatorInit == \E run \in Runs : StartsAs(run, "work")

-----------------------------------------------------------------------------
(* Records.                                                                *)
NeverStarted(unit) == unit.status = "queued" /\ unit.attempts = <<>>
Larger(m, n) == IF m > n THEN m ELSE n

(* mergeLiveIntoRecord: ordinary state comes from live; the attempt, the   *)
(* session, the set of units and the lower bound of deliveries from disk.  *)
MergedUnit(onDisk, inLive) ==
    IF "absent" \in {onDisk.status, inLive.status}
    THEN onDisk
    ELSE [inLive EXCEPT !.attempt = onDisk.attempt, !.session = onDisk.session]
Merged(record, from) ==
    [status |-> from.status,
     units |-> [u \in Unit |-> MergedUnit(record.units[u], from.units[u])],
     tasks |-> Larger(record.tasks, from.tasks),
     delivered |-> [u \in Unit |-> Larger(record.delivered[u], from.delivered[u])]]

(* mirrorAuthoritativeToLive, at the end of a merge.                       *)
MirroredUnit(onDisk, inLive) ==
    IF "absent" \in {onDisk.status, inLive.status}
    THEN onDisk
    ELSE [inLive EXCEPT !.attempt = onDisk.attempt, !.session = onDisk.session]
Mirrored(record, from) ==
    [from EXCEPT !.units = [u \in Unit |-> MirroredUnit(record.units[u], from.units[u])],
                 !.tasks = record.tasks,
                 !.delivered = record.delivered]
AfterMerge == Mirrored(Merged(runJson, live), live)

(* The unit as startUnit stages it: running, with one more open attempt.   *)
StartedUnit(unit) ==
    [unit EXCEPT !.status = "running",
                 !.attempts = Append(@, [attempt |-> unit.attempt, status |-> "running"])]

(* A bug: the terminal unit is a new record.                               *)
FinishedUnit_Fresh(unit, status) ==
    [NewUnit EXCEPT !.status = status, !.attempt = unit.attempt,
                    !.attempts = Append(unit.attempts,
                                        [attempt |-> unit.attempt, status |-> status])]

(* A bug: the end is added to the history without closing the attempt.     *)
FinishedUnit_Appends(unit, status) ==
    [unit EXCEPT !.status = status,
                 !.attempts = Append(@, [attempt |-> unit.attempt, status |-> status])]

(* The clone that finishUnit writes: its open attempt is closed, or one is *)
(* added to the history.                                                   *)
FinishedUnit(unit, status) ==
    LET closed == [attempt |-> unit.attempt, status |-> status]
        open == unit.attempts # <<>> /\ Last(unit.attempts) = [closed EXCEPT !.status = "running"]
    IN [unit EXCEPT !.status = status,
                    !.attempts = Append(IF open THEN Front(@) ELSE @, closed)]

-----------------------------------------------------------------------------
(* The queues.  The head of the durable queue has one call in the store's  *)
(* queue; when its last call is served, the next one makes its call.       *)
Enqueue(write) ==
    /\ durable' = Append(durable, write)
    /\ calls' = IF durable = <<>> THEN Append(calls, write) ELSE calls

Serving(kind) == calls # <<>> /\ Head(calls).kind = kind
Served == Head(calls)
For == Head(calls).unit

(* A durable write settles; what follows it at once enqueues some more.    *)
SettleThen(more) ==
    LET rest == Tail(durable) \o more
    IN /\ durable' = rest
       /\ calls' = Tail(calls) \o (IF rest = <<>> THEN <<>> ELSE <<Head(rest)>>)
Settle == SettleThen(<<>>)
NextCall(next) == calls' = Append(Tail(calls), next) /\ UNCHANGED durable
LastCall == calls' = Tail(calls) /\ UNCHANGED durable

(* A bug: a failure is swallowed and reported as done.                     *)
WritesRecord_Swallowed(record) == runJson' \in {runJson, record} /\ UNCHANGED faults

(* A call succeeds, or fails with the record as it was or already changed. *)
WritesRecord(record) == runJson' = record /\ UNCHANGED faults
FailsToWrite(record) ==
    /\ faults > 0
    /\ faults' = faults - 1
    /\ runJson' \in {runJson, record}
CallFails == faults > 0 /\ faults' = faults - 1 /\ UNCHANGED runJson

LaneGoes(u, to) == lane' = [lane EXCEPT ![u] = to]

-----------------------------------------------------------------------------
(* A lane: runStepWithContext for one unit.                                *)

(* beginUnit: startUnit cancels the flush and enqueues its strict write.   *)
BeginUnit(u) ==
    /\ active /\ main = "work"
    /\ lane[u] = "idle"
    /\ live.units[u].status = "queued"
    /\ timer' = FALSE
    /\ Enqueue(CallFor("start", u))
    /\ LaneGoes(u, "starting")
    /\ UNCHANGED <<runJson, live, active, main, events, bounds>>

ServeStart ==
    /\ Serving("start")
    /\ LET written == [Merged(runJson, live) EXCEPT !.units[For] = StartedUnit(@)]
       IN \/ /\ WritesRecord(written)
             /\ NextCall(CallFor("startEvent", For))
             /\ UNCHANGED lane
          \/ /\ FailsToWrite(written)
             /\ Settle
             /\ LaneGoes(For, "failing")
    /\ live' = AfterMerge
    /\ UNCHANGED <<active, timer, main, events, children, resumed, resumes>>

(* A bug: the started unit is not mirrored into live.                      *)
ServeStartEvent_NoMirror ==
    /\ Serving("startEvent")
    /\ LaneGoes(For, "started")
    /\ Settle
    /\ UNCHANGED <<runJson, live, active, timer, main, events, bounds>>

ServeStartEvent ==
    /\ Serving("startEvent")
    /\ \/ /\ live' = [live EXCEPT !.units[For] = StartedUnit(@)]
          /\ LaneGoes(For, "started")
          /\ UNCHANGED <<runJson, faults>>
       \/ /\ CallFails
          /\ LaneGoes(For, "failing")
          /\ UNCHANGED live
    /\ Settle
    /\ UNCHANGED <<active, timer, main, events, children, resumed, resumes>>

(* stampUnitSessionFile: persistSessionFile; the first path is written     *)
(* with sessionPromptEstablished false.                                    *)
Stamp(u) ==
    /\ lane[u] = "started"
    /\ Enqueue(CallFor("session", u))
    /\ LaneGoes(u, "stamping")
    /\ UNCHANGED <<runJson, memory, main, events, bounds>>

ServeSession ==
    /\ Serving("session")
    /\ LET session == IF runJson.units[For].session = "none" THEN "path"
                      ELSE runJson.units[For].session
           written == [runJson EXCEPT !.units[For].session = session]
       IN \/ /\ WritesRecord(written)
             /\ live' = [live EXCEPT !.units[For].session = session]
             /\ LaneGoes(For, "stamped")
          \/ /\ FailsToWrite(written)
             /\ LaneGoes(For, "failing")
             /\ UNCHANGED live
    /\ Settle
    /\ UNCHANGED <<active, timer, main, events, children, resumed, resumes>>

(* runSingleAgent: the child accepts the prompt, the original one unless   *)
(* the unit already had a session; onSessionPromptEstablished is awaited.  *)
Prompt(u) ==
    /\ lane[u] = "stamped"
    /\ told' = [told EXCEPT ![u] = IF live.units[u].session = "path" THEN @ + 1 ELSE @]
    /\ Enqueue(CallFor("established", u))
    /\ LaneGoes(u, "prompting")
    /\ UNCHANGED <<runJson, memory, main, ended, runEnd, bounds>>

(* The child does not accept the prompt; or the run is aborted before      *)
(* there is a result, and the lane ends without endUnit.                   *)
Refused(u) ==
    /\ lane[u] = "stamped"
    /\ \/ LaneGoes(u, "failing")
       \/ LaneGoes(u, "lost")
    /\ UNCHANGED <<runJson, memory, queues, main, events, bounds>>

(* Then, in a resumed run, onResumePromptAccepted is called, not awaited.  *)
ServeEstablished ==
    /\ Serving("established")
    /\ LET written == [runJson EXCEPT !.units[For].session = "prompted"]
       IN \/ /\ WritesRecord(written)
             /\ live' = [live EXCEPT !.units[For].session = "prompted"]
             /\ LaneGoes(For, "working")
             /\ SettleThen(IF resumed THEN <<CallFor("delivered", For)>> ELSE <<>>)
          \/ /\ FailsToWrite(written)
             /\ LaneGoes(For, "failing")
             /\ Settle
             /\ UNCHANGED live
    /\ UNCHANGED <<active, timer, main, events, children, resumed, resumes>>

(* persistContinuationDelivery: all of the accumulated tasks.              *)
ServeDelivered ==
    /\ Serving("delivered")
    /\ LET written == [runJson EXCEPT !.delivered[For] = runJson.tasks]
       IN \/ /\ WritesRecord(written)
             /\ live' = IF active
                        THEN [live EXCEPT !.tasks = runJson.tasks, !.delivered[For] = runJson.tasks]
                        ELSE live
          \/ FailsToWrite(written) /\ UNCHANGED live
    /\ Settle
    /\ UNCHANGED <<active, timer, lane, main, events, children, resumed, resumes>>

(* endUnit: finishUnit cancels the flush, clones the unit and calls the    *)
(* store directly.  A unit may end before it began (no worktree, no agent  *)
(* context), with its child's work, or as failed.                          *)
Finish(u, status, last) ==
    /\ timer' = FALSE
    /\ calls' = Append(calls, [kind |-> "finish", unit |-> u, last |-> last,
                               record |-> FinishedUnit(live.units[u], status)])
    /\ UNCHANGED <<runJson, live, active, durable, main, events, bounds>>
Unready(u) ==
    /\ active /\ main = "work"
    /\ lane[u] = "idle"
    /\ live.units[u].status = "queued"
    /\ Finish(u, "failed", TRUE)
    /\ LaneGoes(u, "failEnding")
End(u) ==
    /\ lane[u] = "working"
    /\ \E status \in Terminal : Finish(u, status, FALSE)
    /\ LaneGoes(u, "ending")
EndFailed(u) ==
    /\ lane[u] = "failing"
    /\ Finish(u, "failed", TRUE)
    /\ LaneGoes(u, "failEnding")

(* A bug: an error of endUnit is not caught.                               *)
Caught_Never(call) == UNCHANGED lane

(* A failure inside the lane ends the unit as failed, once.                *)
Caught(call) == LaneGoes(call.unit, IF call.last THEN "lost" ELSE "failing")

ServeFinish ==
    /\ Serving("finish")
    /\ LET written == [runJson EXCEPT !.units[For] = Served.record]
       IN \/ /\ WritesRecord(written)
             /\ NextCall([Served EXCEPT !.kind = "finishEvent"])
             /\ UNCHANGED lane
          \/ /\ FailsToWrite(written)
             /\ LastCall
             /\ Caught(Served)
    /\ UNCHANGED <<memory, main, events, children, resumed, resumes>>

ServeFinishEvent ==
    /\ Serving("finishEvent")
    /\ \/ /\ ended' = [ended EXCEPT ![For] = Served.record.status]
          /\ live' = [live EXCEPT !.units[For] = Served.record]
          /\ LaneGoes(For, "done")
          /\ UNCHANGED <<runJson, faults>>
       \/ /\ CallFails
          /\ live' = [live EXCEPT !.units[For] = runJson.units[For]]
          /\ Caught(Served)
          /\ ended' \in {ended, [ended EXCEPT ![For] = Served.record.status]}
    /\ LastCall
    /\ UNCHANGED <<active, timer, main, told, runEnd, children, resumed, resumes>>

-----------------------------------------------------------------------------
(* The run.                                                                *)
(* A bug: Promise.all fails fast, and the run ends with a lane in its end. *)
AtRest_FailFast == \A u \in Unit : lane[u] \in {"idle", "ending", "done", "lost"}

(* The workers have settled: mapWithConcurrencyLimit waits for all of them. *)
AtRest == \A u \in Unit : lane[u] \in {"idle", "done", "lost"}
Awaiting(kind) == \E i \in DOMAIN durable : durable[i].kind = kind

(* A fanout step expands before its workers are scheduled.                 *)
Expand ==
    /\ main = "work" /\ AtRest
    /\ \E u \in children : live.units[u].status = "absent"
    /\ Enqueue(CallFor("expand", Nothing))
    /\ main' = "expanding"
    /\ UNCHANGED <<runJson, memory, lane, events, bounds>>

WithChildren(record) ==
    [record EXCEPT !.units =
        [u \in Unit |-> IF u \in children /\ record.units[u].status = "absent"
                        THEN NewUnit ELSE record.units[u]]]
ServeExpand ==
    /\ Serving("expand")
    /\ \/ /\ WritesRecord(WithChildren(runJson))
          /\ live' = WithChildren(live)
          /\ main' = "work"
       \/ /\ FailsToWrite(WithChildren(runJson))
          /\ main' = "stopped"
          /\ UNCHANGED live
    /\ Settle
    /\ UNCHANGED <<active, timer, lane, events, children, resumed, resumes>>

(* persist: an update arms the timer, if it is not armed.                  *)
PersistUpdate ==
    /\ active /\ ~timer
    /\ main \in {"work", "stopped"} /\ \E u \in Unit : lane[u] # "idle"
    /\ timer' = TRUE
    /\ UNCHANGED <<runJson, live, active, queues, lane, main, events, bounds>>

(* The timer fires: writeRun.                                              *)
Flushing == Len(SelectSeq(durable, LAMBDA w : w.kind = "flush"))
TimerFires ==
    /\ timer
    /\ Flushing < MaxFlushes
    /\ timer' = FALSE
    /\ Enqueue(CallFor("flush", Nothing))
    /\ UNCHANGED <<runJson, live, active, lane, main, events, bounds>>

(* Its failure is swallowed.                                               *)
ServeFlush ==
    /\ Serving("flush")
    /\ LET written == IF active THEN Merged(runJson, live) ELSE runJson
       IN WritesRecord(written) \/ FailsToWrite(written)
    /\ live' = IF active THEN AfterMerge ELSE live
    /\ Settle
    /\ UNCHANGED <<active, timer, lane, main, events, children, resumed, resumes>>

(* finalizeDurableRun: finalizeRun, the run_terminal event, unregisterRun, *)
(* and the claim given back; or unregisterRun and the claim abandoned.     *)
FinishWork ==
    /\ active /\ main \in {"work", "stopped"}
    /\ AtRest
    /\ Enqueue(CallFor("final", Nothing))
    /\ main' = "final"
    /\ UNCHANGED <<runJson, memory, lane, events, bounds>>

(* A bug: the run takes the status of a unit that never started.           *)
FinalStatus_Derived ==
    IF \E u \in Unit : live.units[u].status = "queued" THEN "queued" ELSE "completed"

(* deriveRunStatus, or failed if the workflow ended with an error.         *)
FinalStatus ==
    IF \A u \in Unit : live.units[u].status \in {"absent", "completed"}
    THEN "completed" ELSE "failed"
unregisterRun == active' = FALSE /\ timer' = FALSE

ServeFinal ==
    /\ Serving("final")
    /\ LET written == [Merged(runJson, live) EXCEPT !.status = FinalStatus]
       IN \/ /\ WritesRecord(written)
             /\ live' = [AfterMerge EXCEPT !.status = FinalStatus]
             /\ durable' = Tail(durable)
             /\ calls' = Tail(calls) \o (IF Len(durable) > 1 THEN <<durable[2]>> ELSE <<>>)
                         \o <<CallFor("runTerminal", Nothing)>>
             /\ UNCHANGED <<active, timer, main>>
          \/ /\ FailsToWrite(written)
             /\ live' = AfterMerge
             /\ Settle
             /\ unregisterRun
             /\ main' = "over"
    /\ UNCHANGED <<lane, events, children, resumed, resumes>>

ServeRunTerminal ==
    /\ Serving("runTerminal")
    /\ \/ runEnd' = live.status /\ UNCHANGED <<runJson, faults>>
       \/ CallFails /\ runEnd' \in {"none", live.status}
    /\ LastCall
    /\ unregisterRun
    /\ main' = "over"
    /\ UNCHANGED <<live, lane, told, ended, children, resumed, resumes>>

-----------------------------------------------------------------------------
(* The process dies: run.json is all that is left.                         *)
ProcessStops ==
    /\ main \notin {"over", "dead"}
    /\ main' = "dead"
    /\ unregisterRun
    /\ durable' = <<>> /\ calls' = <<>>
    /\ lane' = [u \in Unit |-> "idle"]
    /\ live' = runJson
    /\ UNCHANGED <<runJson, events, bounds>>

(* The units a resumption is about.                                        *)
Present == {u \in Unit : runJson.units[u].status # "absent"}
Incomplete == {u \in Present : runJson.units[u].status # "completed"}
Targets == IF Incomplete # {} THEN Incomplete ELSE Present
(* A bug: a session path is enough, whether or not its prompt is known.    *)
MayResume_AnyPath(continued) ==
    /\ Incomplete = {} => continued
    /\ \A u \in Targets :
           NeverStarted(runJson.units[u]) \/ runJson.units[u].session # "none"

(* inspectResumeRecord: a unit that was attempted needs its session, with  *)
(* the original prompt established.                                        *)
MayResume(continued) ==
    /\ Incomplete = {} => continued
    /\ \A u \in Targets :
           NeverStarted(runJson.units[u]) \/ runJson.units[u].session = "prompted"

(* reopenCompletedUnitsForResume, incrementIncompleteAttempts, and no      *)
(* planned session for a unit that never started.                          *)
ResumedUnit(unit) ==
    IF NeverStarted(unit)
    THEN [unit EXCEPT !.session = "none"]
    ELSE LET Closed(a) == IF a.status = "running" THEN [a EXCEPT !.status = "failed"] ELSE a
         IN [unit EXCEPT !.status = "queued",
                         !.attempt = @ + 1,
                         !.attempts = [i \in DOMAIN @ |-> IF i = Len(@) THEN Closed(@[i])
                                                         ELSE @[i]]]
Resumed(continued) ==
    [runJson EXCEPT !.status = "running",
                 !.units = [u \in Unit |-> IF u \in Targets THEN ResumedUnit(runJson.units[u])
                                          ELSE runJson.units[u]],
                 !.tasks = IF continued THEN @ + 1 ELSE @]

Resume ==
    /\ main \in {"over", "dead"} /\ calls = <<>>
    /\ resumes > 0
    /\ resumes' = resumes - 1
    /\ resumed' = TRUE
    /\ runEnd' = "none"
    /\ ended' = [u \in Unit |-> "none"]
    /\ \E continued \in BOOLEAN :
           /\ MayResume(continued)
           /\ \/ /\ WritesRecord(Resumed(continued))
                 /\ live' = Resumed(continued)
                 /\ active' = TRUE
                 /\ main' = "work"
                 /\ lane' = [u \in Unit |-> IF u \in Present \ Targets THEN "done" ELSE "idle"]
              \/ /\ FailsToWrite(Resumed(continued))
                 /\ UNCHANGED <<live, active, main, lane>>
    /\ UNCHANGED <<timer, queues, told, children>>

Lane(u) ==
    \/ BeginUnit(u) \/ Stamp(u) \/ Prompt(u) \/ Refused(u)
    \/ Unready(u) \/ End(u) \/ EndFailed(u)
Serve ==
    \/ ServeStart \/ ServeStartEvent \/ ServeSession \/ ServeEstablished
    \/ ServeDelivered \/ ServeFinish \/ ServeFinishEvent
    \/ ServeExpand \/ ServeFlush \/ ServeFinal \/ ServeRunTerminal

CoordinatorNext ==
    \/ \E u \in Unit : Lane(u)
    \/ Serve
    \/ Expand \/ PersistUpdate \/ TimerFires \/ FinishWork
    \/ ProcessStops \/ Resume

CoordinatorSpec == CoordinatorInit /\ [][CoordinatorNext]_coordinatorVars

(* The store serves its calls; a lane goes on, whose child ends its work;  *)
(* the workflow returns.                                                   *)
Fairness ==
    /\ WF_coordinatorVars(Serve)
    /\ \A u \in Unit : WF_coordinatorVars(Lane(u))
    /\ WF_coordinatorVars(FinishWork)
CoordinatorFairSpec == CoordinatorSpec /\ Fairness

-----------------------------------------------------------------------------
(* Every durable write is disk-first: what lives in memory as strict state *)
(* -- the attempt, the session, the deliveries, the units -- is on disk,   *)
(* whatever failed and whatever else was written in between.  (A unit that *)
(* ends because its session could not be written is replaced by a clone    *)
(* taken before; a flush may have shown live the path by then.)            *)
LiveNotAhead ==
    active =>
        /\ live.tasks <= runJson.tasks
        /\ \A u \in Unit :
              /\ live.delivered[u] <= runJson.delivered[u]
              /\ live.units[u].attempt <= runJson.units[u].attempt
              /\ lane[u] \notin {"failEnding", "lost"} =>
                    SessionRank[live.units[u].session] <= SessionRank[runJson.units[u].session]
              /\ live.units[u].status # "absent" => runJson.units[u].status # "absent"

(* A crash never leaves a session path, or a child that got a prompt,      *)
(* behind a unit that reads as never started (tool.ts, beginUnit).         *)
AttemptsOnRecord ==
    \A u \in Unit :
        /\ runJson.units[u].session # "none" => ~NeverStarted(runJson.units[u])
        /\ told[u] > 0 => runJson.units[u].session # "none"

(* Over all crashes and resumptions a unit's child gets the original       *)
(* prompt once.                                                            *)
OriginalPromptOnce == \A u \in Unit : told[u] <= 1

(* While the child works, run.json says that the unit runs, with the open  *)
(* attempt at the end of its history; no flush and no other unit's end     *)
(* writes an older state over it.                                          *)
WorkOnRecord ==
    \A u \in Unit : lane[u] \in {"started", "stamped", "prompting", "working"} =>
        LET unit == runJson.units[u]
        IN /\ unit.status = "running"
           /\ Last(unit.attempts) = [attempt |-> unit.attempt, status |-> "running"]

(* The history on disk: no attempt is open but the last one, and their     *)
(* numbers never fall, nor pass the unit's.                                *)
AttemptsAreHistory ==
    \A u \in Unit :
        LET history == runJson.units[u].attempts
        IN \A i \in DOMAIN history :
              /\ history[i].status = "running" => i = Len(history)
              /\ \A j \in i..Len(history) : history[i].attempt <= history[j].attempt
              /\ history[i].attempt <= runJson.units[u].attempt

(* When the log says that the run ended, run.json says so too, with the    *)
(* same status, and every unit whose end was reported has that status.     *)
EndsOnRecord ==
    runEnd # "none" =>
        /\ runJson.status = runEnd
        /\ \A u \in Unit : lane[u] = "done" /\ ended[u] # "none" => runJson.units[u].status = ended[u]

(* "so a mid-flight write cannot merge a still-running live unit over the  *)
(* terminal disk commit" (run-coordinator.ts, finishUnit): a unit that is  *)
(* ended on disk does not read as running again in the same attempt.       *)
TerminalStands ==
    [][\A u \in Unit :
          /\ runJson.units[u].status \in Terminal
          /\ runJson'.units[u].attempt = runJson.units[u].attempt
          => runJson'.units[u].status # "running"]_coordinatorVars

(* A run that is worked on comes to its end, or its process dies: whatever *)
(* fails, no queue stops and no lane waits forever.                        *)
RunEnds == (main = "work") ~> (main \in {"over", "dead"})

(* Memory is never ahead of run.json, and run.json holds every attempt,    *)
(* the work that goes on and the ends that were told.                      *)
RecordKept ==
    /\ CoordinatorTypeOK
    /\ LiveNotAhead
    /\ AttemptsOnRecord
    /\ WorkOnRecord
    /\ AttemptsAreHistory
    /\ EndsOnRecord
=============================================================================
