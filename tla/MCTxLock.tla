------------------------------ MODULE MCTxLock ------------------------------
(* The instance of the transaction lock that shows the race of a release:  *)
(* three processes that may die between the link of release.intent and the *)
(* rename that uses it.                                                    *)
EXTENDS TxLock, TLC

CONSTANTS p1, p2, p3

MCThree == {p1, p2, p3}
MCSymmetry == Permutations(Proc)
MCReleaseRace == {[procs |-> {p1, p2, p3}, crashAt |-> {"relRecheck", "relMove"}]}
=============================================================================
