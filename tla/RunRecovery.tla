---------------------------- MODULE RunRecovery -----------------------------
(***************************************************************************)
(* The life of one run across processes of pi: it is created and claimed   *)
(* by a call of the agent tool, or resumed by one; it ends by the barrier  *)
(* of finalizeDurableRun; and a session that starts marks it interrupted   *)
(* when its owner died (the session_start handler of index.ts).            *)
(*                                                                         *)
(* A claim is what RunClaims shows it to be: at most one call of a live    *)
(* process owns the run, the claim of a dead process stays open until the  *)
(* next scan ends it, and a call that loses withdraws its ticket at once.  *)
(* An update of run.json is atomic (StrictTx); one that fails may still be *)
(* on disk.  The units of the run follow its status.                       *)
(***************************************************************************)
EXTENDS Naturals, FiniteSets

CONSTANTS Actor,       \* the tool calls and session starts
          Process,     \* the processes of pi
          ProcessOf,   \* which process each of them runs in
          NoActor,     \* nobody
          MaxFailures, \* bound on calls of the store that fail
          MaxDeaths   \* bound on deaths of a process

ASSUME RecoveryAssumption ==
    /\ ProcessOf \in [Actor -> Process]
    /\ NoActor \notin Actor
    /\ MaxFailures \in Nat /\ MaxDeaths \in Nat

VARIABLES
    runStatus,  \* record.status of run.json, "none" before it exists
    holder,     \* whose claim on the run is open
    orphan,     \* a dead process left its claim open
    registered, \* the processes whose coordinator has the run
    jobAt,      \* where each actor is
    task,       \* the resumption brings a task of its own
    outcome,    \* the status finalizeRun returned
    kept,       \* a claim whose release failed: its process keeps it
    failures,
    deaths

recoveryVars == <<runStatus, holder, orphan, registered, jobAt, task,
                  outcome, kept, failures, deaths>>
budget == <<failures, deaths>>

Ended == {"completed", "failed", "interrupted"}
LeftRunning == {"running", "queued"}
JobPlaces == {"idle", "claimNew", "start", "claimOld", "recheck", "announce", "commit",
              "working", "tellEnd", "release", "giveBack",
              "inspect", "reclaim", "mark", "tellMark", "unclaim"}

RecoveryTypeOK ==
    /\ runStatus \in {"none"} \cup LeftRunning \cup Ended
    /\ holder \in Actor \cup {NoActor}
    /\ orphan \in BOOLEAN /\ kept \in BOOLEAN
    /\ orphan => holder = NoActor
    /\ registered \subseteq Process
    /\ jobAt \in [Actor -> JobPlaces]
    /\ task \in [Actor -> BOOLEAN]
    /\ outcome \in [Actor -> Ended]
    /\ failures \in 0..MaxFailures /\ deaths \in 0..MaxDeaths

RecoveryInit ==
    /\ runStatus = "none"
    /\ holder = NoActor /\ orphan = FALSE
    /\ registered = {}
    /\ jobAt = [a \in Actor |-> "idle"]
    /\ task = [a \in Actor |-> FALSE]
    /\ outcome = [a \in Actor |-> "failed"]
    /\ kept = FALSE /\ failures = 0 /\ deaths = 0

Moves(a, from, to) == jobAt[a] = from /\ jobAt' = [jobAt EXCEPT ![a] = to]

(* What a call knew of the run is gone when it ends or starts its work.    *)
Forget(a) ==
    /\ task' = [task EXCEPT ![a] = FALSE]
    /\ outcome' = [outcome EXCEPT ![a] = "failed"]

(* A call of the store rejects.                                            *)
Rejects == failures < MaxFailures /\ failures' = failures + 1 /\ UNCHANGED deaths

(* appendEventLine: the event is in the log, or the call rejects.          *)
Tells(a, from, to, failed) ==
    \/ Moves(a, from, to) /\ UNCHANGED budget
    \/ Moves(a, from, failed) /\ Rejects

----------------------------------------------------------------------------
(* claimRun: the scan ends the claim of a dead process and the ticket is   *)
(* owned, or it meets a live owner and the ticket is withdrawn.            *)

(* A bug: the scan goes past a dead owner without ending its claim.        *)
WinClaim_Skips(a) ==
    /\ holder = NoActor /\ holder' = a
    /\ UNCHANGED orphan

(* A bug: the ticket is taken for owned whoever has a lower one.           *)
WinClaim_Any(a) ==
    /\ holder' = a
    /\ orphan' = FALSE

WinClaim(a) ==
    /\ holder = NoActor /\ holder' = a
    /\ orphan' = FALSE

Claims(a, from, to) ==
    \/ /\ WinClaim(a)
       /\ Moves(a, from, to)
       /\ UNCHANGED <<runStatus, registered, task, outcome, kept, budget>>
    \/ /\ holder # NoActor
       /\ Moves(a, from, "idle") /\ Forget(a)
       /\ UNCHANGED <<runStatus, holder, orphan, registered, kept, budget>>
    \/ /\ Rejects
       /\ Moves(a, from, "idle") /\ Forget(a)
       /\ orphan' \in {orphan, FALSE}
       /\ UNCHANGED <<runStatus, holder, registered, kept>>

(* releaseRun and abandonRun: to the others they are the same.             *)
EndsClaim == holder' = NoActor /\ UNCHANGED <<orphan, kept>>

----------------------------------------------------------------------------
(* startDurableRun.                                                        *)
CreateRun(a) ==
    /\ runStatus = "none" /\ runStatus' = "queued"
    /\ Tells(a, "idle", "claimNew", "idle")
    /\ UNCHANGED <<holder, orphan, registered, task, outcome, kept>>

ClaimNew(a) == Claims(a, "claimNew", "start")

StartRun(a) ==
    /\ \/ /\ Moves(a, "start", "working")
          /\ runStatus' = "running"
          /\ registered' = registered \cup {ProcessOf[a]}
          /\ UNCHANGED budget
       \/ /\ Moves(a, "start", "giveBack")
          /\ Rejects
          /\ runStatus' \in {runStatus, "running"}
          /\ UNCHANGED registered
    /\ UNCHANGED <<holder, orphan, task, outcome, kept>>

----------------------------------------------------------------------------
(* The resumption of executeResume: a look before the claim, and the same  *)
(* look under it.                                                          *)
Resumable(withTask) == runStatus = "completed" => withTask

Preflight(a, withTask) ==
    /\ runStatus # "none" /\ Resumable(withTask)
    /\ ProcessOf[a] \notin registered
    /\ Moves(a, "idle", "claimOld")
    /\ task' = [task EXCEPT ![a] = withTask]
    /\ UNCHANGED <<runStatus, holder, orphan, registered, outcome, kept, budget>>

ClaimOld(a) == Claims(a, "claimOld", "recheck")

(* A bug: what the look before the claim saw still holds.                  *)
Recheck_Trusts(a) ==
    /\ Moves(a, "recheck", "announce")
    /\ UNCHANGED <<runStatus, holder, orphan, registered, task, outcome, kept, budget>>

RecheckRun(a) ==
    /\ \/ Resumable(task[a]) /\ Moves(a, "recheck", "announce")
       \/ ~Resumable(task[a]) /\ Moves(a, "recheck", "giveBack")
    /\ UNCHANGED <<runStatus, holder, orphan, registered, task, outcome, kept, budget>>

Announce(a) ==
    /\ Tells(a, "announce", "commit", "giveBack")
    /\ UNCHANGED <<runStatus, holder, orphan, registered, task, outcome, kept>>

CommitResume(a) ==
    /\ \/ /\ Moves(a, "commit", "working")
          /\ runStatus' = "running"
          /\ registered' = registered \cup {ProcessOf[a]}
          /\ UNCHANGED budget
       \/ /\ Moves(a, "commit", "giveBack")
          /\ Rejects
          /\ runStatus' \in {runStatus, "running"}
          /\ registered' = registered \ {ProcessOf[a]}
    /\ Forget(a)
    /\ UNCHANGED <<holder, orphan, kept>>

----------------------------------------------------------------------------
(* finalizeDurableRun: the strict record, the strict event, the            *)
(* coordinator forgets the run, the claim is released; whatever fails, the *)
(* coordinator forgets the run and the claim is abandoned.                 *)
EndRun(a, status) ==
    /\ Moves(a, "working", "tellEnd")
    /\ runStatus' = status
    /\ outcome' = [outcome EXCEPT ![a] = status]
    /\ UNCHANGED <<holder, orphan, registered, task, kept, budget>>

(* A bug: an end whose record failed is told all the same.                 *)
EndRunFails_Tells(a, status) ==
    /\ Moves(a, "working", "tellEnd")
    /\ Rejects
    /\ runStatus' \in {runStatus, status}
    /\ outcome' = [outcome EXCEPT ![a] = status]
    /\ UNCHANGED <<holder, orphan, registered, task, kept>>

EndRunFails(a, status) ==
    /\ Moves(a, "working", "giveBack")
    /\ Rejects
    /\ runStatus' \in {runStatus, status}
    /\ registered' = registered \ {ProcessOf[a]}
    /\ UNCHANGED <<holder, orphan, task, outcome, kept>>

(* A bug: the claim is given back before the coordinator forgets the run.  *)
TellEnd_KeepsRun(a) ==
    /\ Moves(a, "tellEnd", "release")
    /\ UNCHANGED <<runStatus, holder, orphan, registered, task, outcome, kept, budget>>

TellEnd(a) ==
    /\ Tells(a, "tellEnd", "release", "giveBack")
    /\ registered' = registered \ {ProcessOf[a]}
    /\ UNCHANGED <<runStatus, holder, orphan, task, outcome, kept>>

ReleaseRun(a) ==
    /\ \/ Moves(a, "release", "idle") /\ EndsClaim /\ UNCHANGED budget
       \/ Moves(a, "release", "giveBack") /\ Rejects /\ UNCHANGED <<holder, orphan, kept>>
    /\ Forget(a)
    /\ UNCHANGED <<runStatus, registered>>

(* safeAbandon and safeRelease.                                            *)
GiveBack(a) ==
    /\ Moves(a, "giveBack", "idle")
    /\ \/ EndsClaim /\ UNCHANGED budget
       \/ Rejects /\ kept' = TRUE /\ UNCHANGED <<holder, orphan>>
    /\ Forget(a)
    /\ UNCHANGED <<runStatus, registered>>

----------------------------------------------------------------------------
(* A session starts: the runs are listed, then each is looked at in turn.  *)
ListRun(a) ==
    /\ runStatus \in LeftRunning
    /\ Moves(a, "idle", "inspect")
    /\ UNCHANGED <<runStatus, holder, orphan, registered, task, outcome, kept, budget>>

(* A bug: only a run without an open claim counts as left by its owner.    *)
OwnerDied_NoClaim == holder = NoActor /\ ~orphan

OwnerDied == orphan

(* The run is not ours, and its lowest open claim is of a dead process.    *)
InspectClaims(a) ==
    /\ IF ProcessOf[a] \notin registered /\ OwnerDied
          THEN Moves(a, "inspect", "reclaim")
          ELSE Moves(a, "inspect", "idle")
    /\ UNCHANGED <<runStatus, holder, orphan, registered, task, outcome, kept, budget>>

Reclaim(a) == Claims(a, "reclaim", "mark")

(* A bug: a mark that fails ends the handler where it is.                  *)
MarkRun_Throws(a) ==
    /\ \/ Moves(a, "mark", "tellMark") /\ runStatus' = "interrupted" /\ UNCHANGED budget
       \/ Moves(a, "mark", "idle") /\ Rejects /\ runStatus' \in {runStatus, "interrupted"}
    /\ UNCHANGED <<holder, orphan, registered, task, outcome, kept>>

(* The status on disk is written over, whatever it is by now.              *)
MarkRun(a) ==
    /\ \/ Moves(a, "mark", "tellMark") /\ runStatus' = "interrupted" /\ UNCHANGED budget
       \/ Moves(a, "mark", "unclaim") /\ Rejects /\ runStatus' \in {runStatus, "interrupted"}
    /\ UNCHANGED <<holder, orphan, registered, task, outcome, kept>>

TellMark(a) ==
    /\ Tells(a, "tellMark", "unclaim", "unclaim")
    /\ UNCHANGED <<runStatus, holder, orphan, registered, task, outcome, kept>>

(* The finally of the handler.                                             *)
Unclaim(a) ==
    /\ Moves(a, "unclaim", "idle")
    /\ \/ EndsClaim /\ UNCHANGED budget
       \/ Rejects /\ kept' = TRUE /\ UNCHANGED <<holder, orphan>>
    /\ UNCHANGED <<runStatus, registered, task, outcome>>

----------------------------------------------------------------------------
Died(p) == {a \in Actor : ProcessOf[a] = p}

(* A process dies, and another takes its place.                            *)
ProcessDies(p) ==
    /\ deaths < MaxDeaths /\ deaths' = deaths + 1
    /\ jobAt' = [a \in Actor |-> IF a \in Died(p) THEN "idle" ELSE jobAt[a]]
    /\ task' = [a \in Actor |-> IF a \in Died(p) THEN FALSE ELSE task[a]]
    /\ outcome' = [a \in Actor |-> IF a \in Died(p) THEN "failed" ELSE outcome[a]]
    /\ registered' = registered \ {p}
    /\ IF holder \in Died(p)
          THEN holder' = NoActor /\ orphan' = TRUE /\ kept' = FALSE
          ELSE UNCHANGED <<holder, orphan, kept>>
    /\ UNCHANGED <<runStatus, failures>>

(* What an actor does once it has begun.                                   *)
JobStep(a) ==
    \/ ClaimNew(a) \/ StartRun(a)
    \/ ClaimOld(a) \/ RecheckRun(a) \/ Announce(a) \/ CommitResume(a)
    \/ TellEnd(a) \/ ReleaseRun(a) \/ GiveBack(a)
    \/ InspectClaims(a) \/ Reclaim(a) \/ MarkRun(a) \/ TellMark(a) \/ Unclaim(a)

RecoveryNext ==
    \/ \E a \in Actor :
        \/ CreateRun(a) \/ ListRun(a)
        \/ \E withTask \in BOOLEAN : Preflight(a, withTask)
        \/ \E status \in Ended : EndRun(a, status) \/ EndRunFails(a, status)
        \/ JobStep(a)
    \/ \E p \in Process : ProcessDies(p)

RecoverySpec == RecoveryInit /\ [][RecoveryNext]_recoveryVars

(* The event loop of a live process takes the next step of what it began.  *)
RecoveryFair == \A a \in Actor : WF_recoveryVars(JobStep(a))

----------------------------------------------------------------------------
(* While a call works on the run, the record says so: no session that      *)
(* starts marks a run under a live owner, and no other call resumes it.    *)
WorkIsRunning == \A a \in Actor : jobAt[a] = "working" => runStatus = "running"

(* A coordinator never has a run whose claim its process gave back         *)
(* (finalizeDurableRun forgets the run first).                             *)
RegisteredHasClaim ==
    \A p \in registered : holder # NoActor /\ ProcessOf[holder] = p

(* A live process that has nothing to do with the run any more leaves no   *)
(* claim on it, which would keep every resumption out until it exits;      *)
(* unless the release itself failed.                                       *)
ClaimNotLeft == \A a \in Actor : holder = a /\ jobAt[a] = "idle" => kept

(* The log tells an end only when the record has it: an end whose strict   *)
(* record failed is never told (the order of finalizeDurableRun).          *)
EndToldAfterRecord == [][\A a \in Actor : TellEnd(a) => runStatus = outcome[a]]_recoveryVars

(* A completed run is resumed only with a task of its own, even when it    *)
(* completed after the resumption looked at it (RecheckRun).               *)
ReopenedForTask ==
    [][\A a \in Actor :
        CommitResume(a) /\ runStatus = "completed" => task[a]]_recoveryVars

LeftRunFound ==
    orphan /\ runStatus = "running" /\ \E a \in Actor : jobAt[a] = "inspect"
LeftRunTakenUp ==
    \/ runStatus \notin LeftRunning
    \/ \E a \in Actor : jobAt[a] = "working"
    \/ failures > 0 \/ deaths > 1

(* A session start that finds a run left running by a process that died    *)
(* has it marked interrupted, or taken up by a resumption, unless a call   *)
(* of the store fails or another process dies (the session_start handler). *)
LeftRunIsMarked == LeftRunFound ~> LeftRunTakenUp

(* Only a run that was left running is marked interrupted (the README's    *)
(* words for what the session_start handler does).                         *)
OnlyLeftRunsMarked ==
    [][\A a \in Actor :
        MarkRun(a) /\ runStatus' = "interrupted" => runStatus \in LeftRunning \cup {"interrupted"}]_recoveryVars

(* A run at work says so in its record, is claimed by who works on it, and *)
(* leaves no claim behind.                                                 *)
RecoverySafe ==
    /\ RecoveryTypeOK
    /\ WorkIsRunning
    /\ RegisteredHasClaim
    /\ ClaimNotLeft
=============================================================================
