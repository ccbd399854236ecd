------------------------------- MODULE MCRun --------------------------------
(***************************************************************************)
(* Small instances of the four parts of a durable run, which share no      *)
(* state: the transactions of run.json, the coordinator, the artifacts and *)
(* the life of a run across processes.  A behaviour is one of "system";    *)
(* the others stay in their first state, so that their states add up.      *)
(***************************************************************************)
EXTENDS StrictTx, RunCoordinator, Artifacts, RunRecovery, TLC

VARIABLE system

runSystemVars == <<system, vars, coordinatorVars, artifactVars, recoveryVars>>

CONSTANTS u1, u2, a1, a2, a3, s1, s2

Machine(failing, dying, journaled) ==
    [faults |-> failing, deaths |-> dying, ordered |-> journaled]

(* A journaled disk whose calls fail, a disk that reorders under power     *)
(* losses, a machine whose unlinks fail too, and one where no call fails.  *)
Journaling == Machine({"write", "sync"}, {"process", "power"}, TRUE)
Reordering == Machine({"write"}, {"power"}, FALSE)
Failing == Machine({"write", "unlink", "sync"}, {"process"}, TRUE)
Sound == Machine({}, {"process", "power"}, TRUE)
MCHosts == {Journaling, Reordering, Failing, Sound}

(* Parallel units with a fault or a resumption, a step that fans out with  *)
(* a fault, one unit with two faults and a resumption.                     *)
MCUnits == {u1, u2}
Shape(first, added, failing, again) ==
    [units |-> first, children |-> added, faults |-> failing, resumes |-> again]
Simple == Shape({u1}, {}, 2, 1)
MCParallel == {Shape(MCUnits, {}, 0, 0)}
MCRuns == {Shape(MCUnits, {}, 1, 0), Shape(MCUnits, {}, 0, 1),
           Shape({u1}, {u2}, 1, 0), Simple}

(* Two calls in one process, a third in another.                           *)
MCProcessOf == a1 :> s1 @@ a2 :> s1 @@ a3 :> s2

RunInit ==
    /\ system \in {"transaction", "coordinator", "artifacts", "recovery"}
    /\ Init /\ ArtifactsInit /\ RecoveryInit
    /\ IF system = "coordinator" THEN CoordinatorInit ELSE StartsAs(Simple, "dead")
    /\ system # "transaction" => host = Sound
    /\ system # "artifacts" => syncable

Transacts(A) == system = "transaction" /\ A /\ UNCHANGED <<system, coordinatorVars, artifactVars, recoveryVars>>
Coordinates(A) == system = "coordinator" /\ A /\ UNCHANGED <<system, vars, artifactVars, recoveryVars>>
Stores(A) == system = "artifacts" /\ A /\ UNCHANGED <<system, vars, coordinatorVars, recoveryVars>>
Recovers(A) == system = "recovery" /\ A /\ UNCHANGED <<system, vars, coordinatorVars, artifactVars>>

RunNext ==
    \/ Transacts(Next)
    \/ Coordinates(CoordinatorNext)
    \/ Stores(ArtifactsNext)
    \/ Recovers(RecoveryNext)

(* The fairness of each, where it is the one at work.                      *)
RunFair ==
    /\ WF_vars(system = "transaction" /\ Work /\ UNCHANGED host)
    /\ WF_vars(system = "transaction" /\ Load /\ UNCHANGED <<readers, crashes, host>>)
    /\ WF_coordinatorVars(system = "coordinator" /\ Serve)
    /\ \A u \in Unit : WF_coordinatorVars(system = "coordinator" /\ Lane(u))
    /\ WF_coordinatorVars(system = "coordinator" /\ FinishWork)
    /\ \A a \in Actor : WF_recoveryVars(system = "recovery" /\ JobStep(a))

RunSpec == RunInit /\ [][RunNext]_runSystemVars
RunFairSpec == RunSpec /\ RunFair

(* What an interruption left goes, a coordinator at work comes to an end,  *)
(* and a run left running is marked: LeftoversGo, RunEnds, LeftRunIsMarked *)
(* of whichever part is at work, as one property.                          *)
Unsettled == \/ system = "transaction" /\ Faults = {} /\ ~Quiet
             \/ system = "coordinator" /\ main = "work"
             \/ system = "recovery" /\ LeftRunFound
Settled == \/ system = "transaction" /\ Quiet
           \/ system = "coordinator" /\ main \in {"over", "dead"}
           \/ system = "recovery" /\ LeftRunTakenUp
RunSettles == Unsettled ~> Settled
=============================================================================
