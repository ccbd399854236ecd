----------------------------- MODULE Background -----------------------------
(***************************************************************************)
(* Calls of the agent tool, in the foreground or as background jobs:       *)
(* runWithBackgroundOption and finalizeDurable of tool.ts, the manager of  *)
(* background.ts, the abort signal of run-lifecycle.ts and the             *)
(* session_shutdown handler of index.ts.                                   *)
(*                                                                         *)
(* What a run does is Workflow's; here it goes on until it ends, well or   *)
(* not.  A call is kept when it has a durable run.  Its end is written to  *)
(* run.json, then its log ends and its claim is given back                 *)
(* (finalizeDurableRun); either half may fail.                             *)
(***************************************************************************)
EXTENDS Naturals, FiniteSets

CONSTANTS Calls,      \* the calls of the tool
          MaxJobs,    \* DEFAULT_MAX_BACKGROUND_JOBS
          MaxLost     \* bound: ends of runs that fail to be recorded

ASSUME BackgroundAssumption ==
    /\ IsFiniteSet(Calls)
    /\ MaxJobs \in Nat \ {0}
    /\ MaxLost \in Nat

VARIABLES
    phase,     \* where each call is
    lane,      \* foreground or background
    kept,      \* the calls with a durable run
    settled,   \* the latch of a job's notification (and its details.status)
    told,      \* how often the end of the call was told to the session
    said,      \* what was told last
    origin,    \* lifecycle.origin, "none" while the signal is not aborted
    ended,     \* how the run ended
    verdict,   \* the flags that finalize was called with
    onRecord,  \* the status of the call's run.json
    claimed,   \* the calls whose run is claimed
    late,      \* the jobs launched after cancelAll
    lost,      \* the calls whose end failed to be recorded
    host,      \* session_shutdown: no, cancelled, draining, idle
    pending    \* the jobs waitForIdle waits for

callVars == <<phase, settled, told, said, origin, ended, verdict, onRecord,
              claimed, late, lost>>
kinds == <<lane, kept>>
hostVars == <<host, pending>>
backgroundVars == <<callVars, kinds, hostVars>>

Statuses == {"completed", "failed", "cancelled", "interrupted"}

BackgroundTypeOK ==
    /\ phase \in [Calls -> {"none", "starting", "refused", "running", "ending",
                            "recorded", "over"}]
    /\ lane \in [Calls -> {"foreground", "background"}]
    /\ kept \subseteq Calls
    /\ settled \subseteq Calls
    /\ told \in [Calls -> Nat]
    /\ said \in [Calls -> Statuses \cup {"nothing", "refused", "error"}]
    /\ origin \in [Calls -> {"none", "user", "session_shutdown"}]
    /\ ended \in [Calls -> {"no", "ok", "error", "thrown"}]
    /\ verdict \in [Calls -> Statuses \cup {"none"}]
    /\ onRecord \in [Calls -> Statuses \cup {"none", "running"}]
    /\ claimed \subseteq Calls
    /\ late \subseteq Calls
    /\ lost \subseteq Calls
    /\ host \in {"open", "cancelled", "draining", "idle"}
    /\ pending \subseteq Calls

BackgroundInit ==
    /\ phase = [c \in Calls |-> "none"]
    /\ lane \in [Calls -> {"foreground", "background"}]
    /\ kept \in SUBSET Calls
    /\ settled = {} /\ claimed = {} /\ late = {} /\ lost = {} /\ pending = {}
    /\ told = [c \in Calls |-> 0]
    /\ said = [c \in Calls |-> "nothing"]
    /\ origin = [c \in Calls |-> "none"]
    /\ ended = [c \in Calls |-> "no"]
    /\ verdict = [c \in Calls |-> "none"]
    /\ onRecord = [c \in Calls |-> "none"]
    /\ host = "open"

(* The map of jobs.                                                        *)
Jobs == {c \in Calls : lane[c] = "background"
                       /\ phase[c] \in {"running", "ending", "recorded"}}
Running == Jobs \ settled

Aborted(c) == origin[c] # "none"

(* A bug: the origin itself is written.                                    *)
OfOrigin_Raw(o) == o

(* originToFinalizeFlags and originToRunStatus.                            *)
OfOrigin(o) == IF o = "user" THEN "cancelled" ELSE "interrupted"

Tell(c, what) ==
    /\ told' = [told EXCEPT ![c] = @ + 1]
    /\ said' = [said EXCEPT ![c] = what]

-----------------------------------------------------------------------------
(* A call begins: its durable run is created and claimed.                  *)
Begin(c) ==
    /\ phase[c] = "none" /\ host = "open"
    /\ phase' = [phase EXCEPT ![c] = "starting"]
    /\ IF c \in kept
       THEN /\ onRecord' = [onRecord EXCEPT ![c] = "running"]
            /\ claimed' = claimed \cup {c}
       ELSE UNCHANGED <<onRecord, claimed>>
    /\ UNCHANGED <<settled, told, said, origin, ended, verdict, late, lost,
                   kinds, hostVars>>

RunForeground(c) ==
    /\ phase[c] = "starting" /\ lane[c] = "foreground"
    /\ phase' = [phase EXCEPT ![c] = "running"]
    /\ UNCHANGED <<settled, told, said, origin, ended, verdict, onRecord, claimed,
                   late, lost, kinds, hostVars>>

(* A bug: one job more than the limit.                                     *)
Launch_OffByOne(c) ==
    /\ phase[c] = "starting" /\ lane[c] = "background"
    /\ Cardinality(Running) <= MaxJobs
    /\ phase' = [phase EXCEPT ![c] = "running"]
    /\ late' = IF host = "open" THEN late ELSE late \cup {c}
    /\ UNCHANGED <<settled, told, said, origin, ended, verdict, onRecord, claimed,
                   lost, kinds, hostVars>>

Launch(c) ==
    /\ phase[c] = "starting" /\ lane[c] = "background"
    /\ Cardinality(Running) < MaxJobs
    /\ phase' = [phase EXCEPT ![c] = "running"]
    /\ late' = IF host = "open" THEN late ELSE late \cup {c}
    /\ UNCHANGED <<settled, told, said, origin, ended, verdict, onRecord, claimed,
                   lost, kinds, hostVars>>

(* A bug: the run of a refused call is not finalized.                      *)
Refuse_Claimed(c) ==
    /\ phase[c] = "starting" /\ lane[c] = "background"
    /\ Cardinality(Running) >= MaxJobs
    /\ phase' = [phase EXCEPT ![c] = "over"]
    /\ Tell(c, "refused")
    /\ UNCHANGED <<settled, origin, ended, verdict, onRecord, claimed, late, lost,
                   kinds, hostVars>>

(* Too many jobs: the run that was created is finalized as failed, and     *)
(* the call answers with an error.                                         *)
Refuse(c) ==
    /\ phase[c] = "starting" /\ lane[c] = "background"
    /\ Cardinality(Running) >= MaxJobs
    /\ IF c \in kept
       THEN /\ phase' = [phase EXCEPT ![c] = "refused"]
            /\ verdict' = [verdict EXCEPT ![c] =
                 IF Aborted(c) THEN OfOrigin(origin[c]) ELSE "failed"]
            /\ UNCHANGED <<told, said>>
       ELSE /\ phase' = [phase EXCEPT ![c] = "over"]
            /\ Tell(c, "refused")
            /\ UNCHANGED verdict
    /\ UNCHANGED <<settled, origin, ended, onRecord, claimed, late, lost, kinds,
                   hostVars>>

(* What a run is finalized as: an aborted background run is interrupted,   *)
(* whoever aborted it.                                                     *)
Flags(c, how) ==
    IF Aborted(c) THEN IF lane[c] = "background" THEN "interrupted"
                       ELSE OfOrigin(origin[c])
    ELSE IF how = "ok" THEN "completed" ELSE "failed"

(* What the session is told at the end: a job's notification follows its   *)
(* flags; the result of a foreground call is stamped from the signal as it *)
(* is by then (stampRunOnDetails).                                         *)
Word(c, how, flags) ==
    IF lane[c] = "background" THEN IF flags = "interrupted" THEN "cancelled" ELSE flags
    ELSE IF how = "thrown" THEN "error"
    ELSE IF Aborted(c) THEN OfOrigin(origin[c])
    ELSE IF how = "ok" THEN "completed" ELSE "failed"

(* finish, behind the latch.                                               *)
Finish(c, how, flags) ==
    /\ IF c \in settled THEN UNCHANGED <<told, said>>
       ELSE Tell(c, Word(c, how, flags))
    /\ settled' = settled \cup {c}
    /\ phase' = [phase EXCEPT ![c] = "over"]

(* A bug: the session is told before the end is on record.                 *)
RunEnds_TellFirst(c, how) ==
    /\ phase[c] = "running"
    /\ ended' = [ended EXCEPT ![c] = how]
    /\ verdict' = [verdict EXCEPT ![c] = Flags(c, how)]
    /\ Finish(c, how, Flags(c, how))
    /\ UNCHANGED <<origin, onRecord, claimed, late, lost, kinds, hostVars>>

RunEnds(c, how) ==
    /\ phase[c] = "running"
    /\ ended' = [ended EXCEPT ![c] = how]
    /\ verdict' = [verdict EXCEPT ![c] = Flags(c, how)]
    /\ IF c \in kept
       THEN /\ phase' = [phase EXCEPT ![c] = "ending"]
            /\ UNCHANGED <<told, said, settled>>
       ELSE Finish(c, how, Flags(c, how))
    /\ UNCHANGED <<origin, onRecord, claimed, late, lost, kinds, hostVars>>

(* finalizeRun: the strict write of the status.                            *)
Recorded(c) ==
    /\ phase[c] = "ending"
    /\ phase' = [phase EXCEPT ![c] = "recorded"]
    /\ onRecord' = [onRecord EXCEPT ![c] = verdict[c]]
    /\ UNCHANGED <<settled, told, said, origin, ended, verdict, claimed, late, lost,
                   kinds, hostVars>>

(* The log has its last event and the claim is released.                   *)
Answered(c) ==
    /\ phase[c] = "recorded"
    /\ claimed' = claimed \ {c}
    /\ Finish(c, ended[c], verdict[c])
    /\ UNCHANGED <<origin, ended, verdict, onRecord, late, lost, kinds, hostVars>>

(* The whole of it for a call that was refused.                            *)
RefusalRecorded(c) ==
    /\ phase[c] = "refused"
    /\ phase' = [phase EXCEPT ![c] = "over"]
    /\ onRecord' = [onRecord EXCEPT ![c] = verdict[c]]
    /\ claimed' = claimed \ {c}
    /\ Tell(c, "refused")
    /\ UNCHANGED <<settled, origin, ended, verdict, late, lost, kinds, hostVars>>

(* Either half fails: the claim is abandoned.  A foreground call answers   *)
(* with the error; a job is removed and its finish is skipped.             *)
FinalizeFails(c) ==
    /\ phase[c] \in {"ending", "recorded", "refused"}
    /\ Cardinality(lost) < MaxLost
    /\ phase' = [phase EXCEPT ![c] = "over"]
    /\ claimed' = claimed \ {c}
    /\ lost' = lost \cup {c}
    /\ IF c \in Jobs THEN UNCHANGED <<told, said>> ELSE Tell(c, "error")
    /\ UNCHANGED <<settled, origin, ended, verdict, onRecord, late, kinds, hostVars>>

(* The user stops the turn that made the call: the signal of the tool is   *)
(* bridged to a durable run, also after a launch has returned; a job       *)
(* without one does not listen to it.                                      *)
UserAborts(c) ==
    /\ phase[c] \notin {"none", "over"} /\ origin[c] = "none"
    /\ c \in kept \/ lane[c] = "foreground"
    /\ origin' = [origin EXCEPT ![c] = "user"]
    /\ UNCHANGED <<phase, settled, told, said, ended, verdict, onRecord, claimed,
                   late, lost, kinds, hostVars>>

(* A bug: jobs are also told again when they end.                          *)
CancelAll_Unlatched ==
    /\ host = "open"
    /\ host' = "cancelled"
    /\ origin' = [c \in Calls |-> IF c \in Running THEN "session_shutdown" ELSE origin[c]]
    /\ told' = [c \in Calls |-> IF c \in Running THEN told[c] + 1 ELSE told[c]]
    /\ said' = [c \in Calls |-> IF c \in Running THEN "cancelled" ELSE said[c]]
    /\ UNCHANGED <<phase, settled, ended, verdict, onRecord, claimed, late, lost, kinds,
                   pending>>

(* A bug: a job that is cancelled leaves the map at once.                  *)
CancelAll_Removes ==
    /\ host = "open"
    /\ host' = "cancelled"
    /\ origin' = [c \in Calls |-> IF c \in Running THEN "session_shutdown" ELSE origin[c]]
    /\ told' = [c \in Calls |-> IF c \in Running THEN told[c] + 1 ELSE told[c]]
    /\ said' = [c \in Calls |-> IF c \in Running THEN "cancelled" ELSE said[c]]
    /\ settled' = settled \cup Running
    /\ phase' = [c \in Calls |-> IF c \in Running THEN "over" ELSE phase[c]]
    /\ UNCHANGED <<ended, verdict, onRecord, claimed, late, lost, kinds, pending>>

(* A bug: the cancelled jobs are told, but their runs not aborted.         *)
CancelAll_RunsOn ==
    /\ host = "open"
    /\ host' = "cancelled"
    /\ told' = [c \in Calls |-> IF c \in Running THEN told[c] + 1 ELSE told[c]]
    /\ said' = [c \in Calls |-> IF c \in Running THEN "cancelled" ELSE said[c]]
    /\ settled' = settled \cup Running
    /\ UNCHANGED <<phase, origin, ended, verdict, onRecord, claimed, late, lost, kinds,
                   pending>>

(* A bug: the jobs are settled without a notification.                     *)
CancelAll_Unsaid ==
    /\ host = "open"
    /\ host' = "cancelled"
    /\ origin' = [c \in Calls |-> IF c \in Running THEN "session_shutdown" ELSE origin[c]]
    /\ settled' = settled \cup Running
    /\ UNCHANGED <<phase, told, said, ended, verdict, onRecord, claimed, late, lost, kinds,
                   pending>>

(* session_shutdown: every running job is aborted and told as cancelled.   *)
CancelAll ==
    /\ host = "open"
    /\ host' = "cancelled"
    /\ origin' = [c \in Calls |-> IF c \in Running THEN "session_shutdown" ELSE origin[c]]
    /\ told' = [c \in Calls |-> IF c \in Running THEN told[c] + 1 ELSE told[c]]
    /\ said' = [c \in Calls |-> IF c \in Running THEN "cancelled" ELSE said[c]]
    /\ settled' = settled \cup Running
    /\ UNCHANGED <<phase, ended, verdict, onRecord, claimed, late, lost, kinds, pending>>

(* waitForIdle looks at the map, and again when all it saw has ended.      *)
Drain ==
    /\ host = "cancelled" \/ (host = "draining" /\ pending \cap Jobs = {})
    /\ IF Jobs = {} THEN host' = "idle" /\ pending' = {}
       ELSE host' = "draining" /\ pending' = Jobs
    /\ UNCHANGED <<callVars, kinds>>

Step(c) == \/ RunForeground(c) \/ Launch(c) \/ Refuse(c)
           \/ Recorded(c) \/ Answered(c) \/ RefusalRecorded(c)

BackgroundNext ==
    \/ \E c \in Calls : \/ Begin(c) \/ Step(c) \/ FinalizeFails(c) \/ UserAborts(c)
                        \/ \E how \in {"ok", "error", "thrown"} : RunEnds(c, how)
    \/ CancelAll
    \/ Drain

(* Calls go on and the shutdown looks; a run ends if it is aborted.        *)
RunsGoOn == \/ \E c \in Calls : Step(c) \/ (Aborted(c) /\ RunEnds(c, "error"))
            \/ Drain
BackgroundFair == WF_backgroundVars(RunsGoOn)

BackgroundSpec ==
    BackgroundInit /\ [][BackgroundNext]_backgroundVars /\ BackgroundFair

-----------------------------------------------------------------------------
(* The end of a call is told once: the notification of cancelAll and that  *)
(* of the run's own end do not add up.                                     *)
ToldOnce == \A c \in Calls : told[c] <= 1

(* No call ends in silence, unless it is a job whose end was not recorded. *)
NoSilentEnd ==
    \A c \in Calls : phase[c] = "over" => told[c] > 0 \/ (c \in lost /\ lane[c] = "background")

(* What a session is told of a durable run that succeeded or failed is     *)
(* what its record says by then.                                           *)
ToldAsRecorded ==
    \A c \in kept : said[c] \in {"completed", "failed"} => onRecord[c] = said[c]

(* There are never more running jobs than the limit.                       *)
LimitHeld == Cardinality(Running) <= MaxJobs

(* A call that is over, also one that was refused, has left no claim that  *)
(* would keep its run from being resumed.                                  *)
NoClaimKept == \A c \in claimed : phase[c] # "over"

(* When the shutdown goes on, every run that was a job at its beginning    *)
(* has its end on record.                                                  *)
DrainedIsRecorded ==
    host = "idle" =>
        \A c \in kept : /\ lane[c] = "background" /\ c \notin late \cup lost
                        /\ phase[c] \notin {"none", "starting", "refused"}
                        => onRecord[c] \in Statuses

(* The shutdown gets past the jobs, unless one was launched after it began.*)
Drains == host = "cancelled" ~> host = "idle" \/ late # {}

(* The end of a call is told, once, and as it is on record.                *)
EndIsTold == ToldOnce /\ NoSilentEnd /\ ToldAsRecorded

(* No more jobs than the limit run, none that is over keeps its claim, and *)
(* the shutdown waits until they are on record.                            *)
JobsKept == BackgroundTypeOK /\ LimitHeld /\ NoClaimKept /\ DrainedIsRecorded
=============================================================================
