------------------------------ MODULE MCLocks -------------------------------
(***************************************************************************)
(* Small instances of the three locks of pi-agents, which share no state:  *)
(* the ownership claims of a run, the lease of a session and the           *)
(* transaction lock of a run directory.  A behaviour is one of "system";   *)
(* the others stay in their first state, so that their states add up and   *)
(* do not multiply.                                                        *)
(*                                                                         *)
(* Claims: three claims by three instances, the pid of one given to        *)
(* another process when it dies, the scan of one may fail.  Lease: three   *)
(* calls and a watcher.  Lock: see MCSound.                                *)
(***************************************************************************)
EXTENDS RunClaims, SessionLease, TxLock, TLC

VARIABLE system

lockSystemVars == <<system, claimVars, leaseVars, vars>>

CONSTANTS c1, c2, c3, i1, i2, i3, l1, l2, l3, p1, p2, p3

MCInstanceOf == c1 :> i1 @@ c2 :> i2 @@ c3 :> i3
MCThree == {p1, p2, p3}

(* Inside a takeover and its recovery, but not between the last two calls, *)
(* and not while finishing a release.                                      *)
MCTakeover == PcValues \ (Releasing \cup {"finish", "sweep", "dropIntent"})

(* Three processes that die there, or two that die anywhere.               *)
MCSound == {[procs |-> MCThree, crashAt |-> MCTakeover],
            [procs |-> {p1, p2}, crashAt |-> PcValues]}

LocksInit ==
    /\ system \in {"claims", "lease", "txlock"}
    /\ ClaimsInit /\ LeaseInit /\ Init
    /\ system # "txlock" => crashAt = PcValues

LocksNext ==
    /\ UNCHANGED system
    /\ \/ system = "claims" /\ ClaimsNext /\ UNCHANGED <<leaseVars, vars>>
       \/ system = "lease" /\ LeaseNext /\ UNCHANGED <<claimVars, vars>>
       \/ system = "txlock" /\ Next /\ UNCHANGED <<claimVars, leaseVars>>

(* The fairness of each, where it is the one at work.                      *)
LocksFair ==
    /\ \A c \in Claim :
        WF_claimVars(system = "claims" /\ claimPc[c] # "idle" /\ ClaimStep(c))
    /\ \A c \in Call :
        /\ WF_leaseVars(system = "lease" /\ LeaseStep(c))
        /\ WF_leaseVars(/\ system = "lease"
                        /\ \E r \in {"released", "failed"} : ReleaseLease(c, r))
    /\ \A w \in Watch : WF_leaseVars(system = "lease" /\ Seen(w))
    /\ \A p \in Proc : WF_vars(system = "txlock" /\ Step(p))

LocksSpec == LocksInit /\ [][LocksNext]_lockSystemVars /\ LocksFair

(* The n-th claim, call or process: its call goes on, and is answered; it  *)
(* is due, and is served.                                                  *)
ClaimN == <<c1, c2, c3>>
CallN == <<l1, l2, l3>>
ProcN == <<p1, p2, p3>>
Calls(n) == \/ system = "claims" /\ ClaimRuns(ClaimN[n])
            \/ system = "lease" /\ callPc[CallN[n]] = "queued"
            \/ system = "txlock" /\ pc[ProcN[n]] # "idle"
Returns(n) == \/ system = "claims" /\ ~ClaimRuns(ClaimN[n])
              \/ system = "lease" /\ callPc[CallN[n]] \in {"owner", "ended", "refused"}
              \/ system = "txlock" /\ Over(ProcN[n])
Due(n) == \/ system = "claims" /\ ClaimDue(ClaimN[n])
          \/ system = "lease" /\ \E w \in Watch : watch[w] = "waiting"
          \/ system = "txlock" /\ LockDue(ProcN[n])
Served(n) == \/ system = "claims" /\ ClaimGranted(ClaimN[n])
             \/ system = "lease" /\ \A w \in Watch : watch[w] # "waiting"
             \/ system = "txlock" /\ LockGranted(ProcN[n])

(* Every call of the three locks is answered, dead owners do not block,    *)
(* and nothing is left that nobody waits for: ClaimReturns, Answered and   *)
(* CallsEnd, then DeadClaimsDoNotBlock and NoPermanentBusy, of whichever   *)
(* lock is at work.                                                        *)
LocksServe ==
    /\ []NoTailLeft
    /\ \A n \in 1..3 : Calls(n) ~> Returns(n)
    /\ \A n \in 1..3 : Due(n) ~> Served(n)
=============================================================================
