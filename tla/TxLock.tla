------------------------------- MODULE TxLock -------------------------------
(***************************************************************************)
(* The cross-process transaction lock of one run directory: run-store.ts   *)
(* from tryAcquireTxLockOnce through tryStealStaleLock and                 *)
(* recoverDeadStealIntent to releaseTxLock.                                *)
(*                                                                         *)
(* The lock is a directory under one fixed name.  A contender publishes a  *)
(* complete candidate directory by rename; a lock whose owner died is      *)
(* taken over inside the directory, under an exclusive steal.intent; an    *)
(* owner gives it back by moving the directory to a tombstone, under an    *)
(* exclusive release.intent.  Every call names its files by pathname, so   *)
(* it acts on whatever directory has the fixed name at that moment.        *)
(*                                                                         *)
(* A process makes one acquisition; its name stands for its token, and for *)
(* the inode of each directory and owner file it creates.  Each step is    *)
(* one system call, or one call of unlinkNamedInDir, readLockOwnerVia or   *)
(* writeExclusiveInLockDir; any other process may run between two steps.   *)
(***************************************************************************)
EXTENDS Naturals

CONSTANTS Proc,       \* the acquisitions
          None,       \* an absent file, directory or token
          Regimes     \* who takes part, and where a process may die

VARIABLES
    pc,       \* where each acquisition is
    alive,    \* the live processes
    crashAt,  \* the control states in which a process may die: never changes
    fixed,    \* the directory that has the fixed lock name
    tomb,     \* the directory that has each token's tombstone name
    owner,    \* owner.json of each directory: a token
    previous, \* owner.previous of each directory
    temps,    \* the new-owner temps in each directory
    steal,    \* steal.intent of each directory
    release,  \* release.intent of each directory
    seen      \* what a process read and acts upon: an intent

names == <<fixed, tomb>>
owners == <<owner, previous, temps>>
intents == <<steal, release>>
vars == <<pc, alive, crashAt, names, owners, intents, seen>>

Stealing == {"temp", "link", "recheck", "undo", "transfer", "setAside",
             "install", "dropPrevious", "dropIntent"}
Recovering == {"recover", "clear", "clearRestore", "dropOwner", "restore",
               "clearIntent"}
Releasing == {"relLink", "relRecheck", "relMove", "relSweep"}

(* The states of a process that has an intent in the lock directory.       *)
Transitions == {"recheck", "undo", "transfer", "setAside", "install",
                "dropPrevious", "dropIntent", "relRecheck", "relMove"}

PcValues == {"idle", "try", "publish", "check", "readRelease", "readOwner",
             "finish", "sweep", "verify", "wait", "held",
             "done", "busy", "failed"} \cup Stealing \cup Recovering \cup Releasing

ASSUME LockAssumption ==
    /\ None \notin Proc
    /\ Regimes \subseteq [procs : SUBSET Proc, crashAt : SUBSET PcValues]

ProcOrNone == Proc \cup {None}
Intent == [by : ProcOrNone, owner : ProcOrNone, dir : ProcOrNone]
NoIntent == [by |-> None, owner |-> None, dir |-> None]

TypeOK ==
    /\ pc \in [Proc -> PcValues]
    /\ alive \subseteq Proc
    /\ crashAt \subseteq PcValues
    /\ fixed \in ProcOrNone
    /\ tomb \in [Proc -> ProcOrNone]
    /\ owner \in [Proc -> ProcOrNone]
    /\ previous \in [Proc -> ProcOrNone]
    /\ temps \in [Proc -> SUBSET Proc]
    /\ steal \in [Proc -> Intent]
    /\ release \in [Proc -> Intent]
    /\ seen \in [Proc -> Intent]

Init ==
    /\ pc = [p \in Proc |-> "idle"]
    /\ \E r \in Regimes : alive = r.procs /\ crashAt = r.crashAt
    /\ fixed = None
    /\ tomb = [t \in Proc |-> None]
    /\ owner = [d \in Proc |-> None]
    /\ previous = [d \in Proc |-> None]
    /\ temps = [d \in Proc |-> {}]
    /\ steal = [d \in Proc |-> NoIntent]
    /\ release = [d \in Proc |-> NoIntent]
    /\ seen = [p \in Proc |-> NoIntent]

-----------------------------------------------------------------------------
At(p, label) == p \in alive /\ pc[p] = label
GoTo(p, label) == pc' = [pc EXCEPT ![p] = label]
Forget(p) == seen' = [seen EXCEPT ![p] = NoIntent]

(* End of an attempt that did not get the lock: sleep, then look again.    *)
GiveWay(p) == GoTo(p, "wait") /\ Forget(p)

(* A bug: a process whose death is not proven counts as dead.              *)
ProvenDead_Unknown(q) == q \in Proc

(* isProcessAliveWithStart says "dead": the pid is free, or its start      *)
(* identity is another process's.  "unknown" counts as alive.              *)
ProvenDead(q) == q \in Proc \ alive

Present == fixed # None
OwnedBy(p) == Present /\ owner[fixed] = p

(* writeExclusiveInLockDir: the hard link fails if the name exists.        *)
CanLink(intent) == Present /\ intent[fixed] = NoIntent

(* unlinkNamedInDir for the temp that q wrote, and for steal.intent if it  *)
(* is still the file that was read.                                        *)
DropTempOf(q) ==
    temps' = [d \in Proc |-> IF d = fixed THEN temps[d] \ {q} ELSE temps[d]]
DropSteal(intent) ==
    steal' = [d \in Proc |-> IF d = fixed /\ steal[d] = intent
                            THEN NoIntent ELSE steal[d]]

(* removeVerifiedLockSideDir on the tombstones of some tokens.             *)
Removable(t, d) == tomb[t] = d /\ d # None /\ owner[d] \in {t, None}
RemoveTombs(T) ==
    LET gone == {tomb[t] : t \in T}
        Wipe(f, nothing) == [d \in Proc |-> IF d \in gone THEN nothing ELSE f[d]]
    IN /\ tomb' = [t \in Proc |-> IF t \in T THEN None ELSE tomb[t]]
       /\ owner' = Wipe(owner, None)
       /\ previous' = Wipe(previous, None)
       /\ temps' = Wipe(temps, {})
       /\ steal' = Wipe(steal, NoIntent)
       /\ release' = Wipe(release, NoIntent)

-----------------------------------------------------------------------------
(* acquireTxLock: first collect the tombstones of dead owners.             *)
Start(p) ==
    /\ At(p, "idle")
    /\ RemoveTombs({t \in Proc : ProvenDead(t) /\ tomb[t] # None /\ owner[tomb[t]] = t})
    /\ GoTo(p, "try")
    /\ UNCHANGED <<alive, crashAt, fixed, seen>>

(* One attempt.  No lock: build a candidate, complete with owner.json.     *)
SeeNoLock(p) ==
    /\ At(p, "try")
    /\ ~Present
    /\ GoTo(p, "publish")
    /\ UNCHANGED <<alive, names, owners, intents, seen>>

(* A lock: an intent of a live contender, the caller's own included, means *)
(* busy; the intent of a dead one is recovered.                            *)
SeeStealIntent(p) ==
    /\ At(p, "try")
    /\ Present /\ steal[fixed] # NoIntent
    /\ IF ProvenDead(steal[fixed].by)
       THEN seen' = [seen EXCEPT ![p] = steal[fixed]] /\ GoTo(p, "recover")
       ELSE GiveWay(p)
    /\ UNCHANGED <<alive, names, owners, intents>>

SeeNoStealIntent(p) ==
    /\ At(p, "try")
    /\ Present /\ steal[fixed] = NoIntent
    /\ GoTo(p, "readRelease")
    /\ UNCHANGED <<alive, names, owners, intents, seen>>

(* The rename of the candidate fails if the name is taken.                 *)
Publish(p) ==
    /\ At(p, "publish")
    /\ IF Present
       THEN GiveWay(p) /\ UNCHANGED <<fixed, owner>>
       ELSE /\ owner[p] = None        \* bound: one published directory each
            /\ fixed' = p
            /\ owner' = [owner EXCEPT ![p] = p]
            /\ GoTo(p, "check")
            /\ UNCHANGED seen
    /\ UNCHANGED <<alive, tomb, previous, temps, intents>>

(* A bug: the held lock remembers its token and not its directory.         *)
Hold_TokenOnly(p) == /\ seen' = [seen EXCEPT ![p] = [by |-> p, owner |-> p]]
                     /\ GoTo(p, "held")

Hold(p) == /\ seen' = [seen EXCEPT ![p] = [by |-> p, owner |-> p, dir |-> fixed]]
           /\ GoTo(p, "held")

CheckPublished(p) ==
    /\ At(p, "check")
    /\ IF OwnedBy(p) THEN Hold(p) ELSE GiveWay(p)
    /\ UNCHANGED <<alive, names, owners, intents>>

Retry(p) ==
    /\ At(p, "wait")
    /\ GoTo(p, "try")
    /\ UNCHANGED <<alive, names, owners, intents, seen>>

(* The deadline (2 s) is far longer than the few attempts a call needs     *)
(* when nobody else is active, so it only expires while somebody is.       *)
Over(q) == q \notin alive \/ pc[q] \in {"done", "busy", "failed"}
Quiet(p) == \A q \in Proc \ {p} : Over(q)

TimeOut(p) ==
    /\ At(p, "wait")
    /\ ~Quiet(p)
    /\ GoTo(p, "busy")
    /\ UNCHANGED <<alive, names, owners, intents, seen>>

-----------------------------------------------------------------------------
(* tryStealStaleLock: a release.intent is completed if its owner is dead.  *)
ReadRelease(p) ==
    /\ At(p, "readRelease")
    /\ IF ~Present \/ release[fixed] = NoIntent
       THEN GoTo(p, "readOwner") /\ UNCHANGED seen
       ELSE LET r == release[fixed]
            IN IF OwnedBy(r.by) /\ ProvenDead(r.by) /\ r.dir = fixed
               THEN seen' = [seen EXCEPT ![p] = r] /\ GoTo(p, "finish")
               ELSE GiveWay(p)
    /\ UNCHANGED <<alive, names, owners, intents>>

(* The rename names the lock by its path only.                             *)
FinishRelease(p) ==
    /\ At(p, "finish")
    /\ IF Present /\ tomb[seen[p].by] = None
       THEN /\ tomb' = [tomb EXCEPT ![seen[p].by] = fixed]
            /\ fixed' = None
            /\ GoTo(p, "sweep")
            /\ UNCHANGED seen
       ELSE GiveWay(p) /\ UNCHANGED <<fixed, tomb>>
    /\ UNCHANGED <<alive, owners, intents>>

SweepReleased(p) ==
    /\ At(p, "sweep")
    /\ RemoveTombs({t \in {seen[p].by} : Removable(t, seen[p].dir)})
    /\ GiveWay(p)
    /\ UNCHANGED <<alive, fixed>>

ReadOwner(p) ==
    /\ At(p, "readOwner")
    /\ IF Present /\ ProvenDead(owner[fixed])
       THEN /\ seen' = [seen EXCEPT ![p] =
                          [by |-> p, owner |-> owner[fixed], dir |-> fixed]]
            /\ GoTo(p, "temp")
       ELSE GiveWay(p)
    /\ UNCHANGED <<alive, names, owners, intents>>

WriteTemp(p) ==
    /\ At(p, "temp")
    /\ IF Present
       THEN /\ temps' = [temps EXCEPT ![fixed] = @ \cup {p}]
            /\ GoTo(p, "link")
            /\ UNCHANGED seen
       ELSE GiveWay(p) /\ UNCHANGED temps
    /\ UNCHANGED <<alive, names, owner, previous, intents>>

(* A bug: steal.intent is renamed into place, over another contender's.    *)
LinkSteal_Replaces(p) ==
    /\ At(p, "link")
    /\ IF Present
       THEN /\ steal' = [steal EXCEPT ![fixed] = seen[p]]
            /\ GoTo(p, "recheck")
            /\ UNCHANGED <<temps, seen>>
       ELSE DropTempOf(p) /\ GiveWay(p) /\ UNCHANGED steal
    /\ UNCHANGED <<alive, names, owner, previous, release>>

(* The hard link of steal.intent: the first contender wins.                *)
LinkSteal(p) ==
    /\ At(p, "link")
    /\ IF CanLink(steal)
       THEN /\ steal' = [steal EXCEPT ![fixed] = seen[p]]
            /\ GoTo(p, "recheck")
            /\ UNCHANGED <<temps, seen>>
       ELSE DropTempOf(p) /\ GiveWay(p) /\ UNCHANGED steal
    /\ UNCHANGED <<alive, names, owner, previous, release>>

(* A bug: only the directory is compared, not the owner in it.             *)
Unchanged_DirectoryOnly(p) == fixed = seen[p].dir

Unchanged(p) == fixed = seen[p].dir /\ OwnedBy(seen[p].owner)

Recheck(p) ==
    /\ At(p, "recheck")
    /\ GoTo(p, IF Unchanged(p) /\ ProvenDead(seen[p].owner)
               THEN "transfer" ELSE "undo")
    /\ UNCHANGED <<alive, names, owners, intents, seen>>

(* A bug: the temp is cleaned up and the intent forgotten.                 *)
Undo_TempOnly(p) ==
    /\ At(p, "undo")
    /\ DropTempOf(p)
    /\ GiveWay(p)
    /\ UNCHANGED <<alive, names, owner, previous, intents>>

Undo(p) ==                    \* the caller's own intent and temp
    /\ At(p, "undo")
    /\ DropSteal(seen[p])
    /\ DropTempOf(p)
    /\ GiveWay(p)
    /\ UNCHANGED <<alive, names, owner, previous, release>>

(* The transfer; each failure leaves the intent and drops only the temp.   *)
CheckTransfer(p) ==
    /\ At(p, "transfer")
    /\ IF Unchanged(p) /\ previous[fixed] = None
       THEN GoTo(p, "setAside") /\ UNCHANGED <<temps, seen>>
       ELSE DropTempOf(p) /\ GiveWay(p)
    /\ UNCHANGED <<alive, names, owner, previous, intents>>

SetOwnerAside(p) ==
    /\ At(p, "setAside")
    /\ IF Present /\ owner[fixed] # None
       THEN /\ previous' = [previous EXCEPT ![fixed] = owner[fixed]]
            /\ owner' = [owner EXCEPT ![fixed] = None]
            /\ GoTo(p, "install")
            /\ UNCHANGED <<temps, seen>>
       ELSE DropTempOf(p) /\ GiveWay(p) /\ UNCHANGED <<owner, previous>>
    /\ UNCHANGED <<alive, names, intents>>

InstallOwner(p) ==
    /\ At(p, "install")
    /\ IF Present /\ p \in temps[fixed]
       THEN /\ owner' = [owner EXCEPT ![fixed] = p]
            /\ DropTempOf(p)
            /\ GoTo(p, "dropPrevious")
            /\ UNCHANGED seen
       ELSE GiveWay(p) /\ UNCHANGED <<owner, temps>>
    /\ UNCHANGED <<alive, names, previous, intents>>

DropPrevious(p) ==
    /\ At(p, "dropPrevious")
    /\ IF OwnedBy(p)
       THEN /\ previous' = [previous EXCEPT ![fixed] =
                              IF @ = seen[p].owner THEN None ELSE @]
            /\ GoTo(p, "dropIntent")
            /\ UNCHANGED seen
       ELSE GiveWay(p) /\ UNCHANGED previous
    /\ UNCHANGED <<alive, names, owner, temps, intents>>

DropOwnIntent(p) ==
    /\ At(p, "dropIntent")
    /\ DropSteal(seen[p])
    /\ GoTo(p, "verify")
    /\ UNCHANGED <<alive, names, owners, release, seen>>

(* The token must be visible; else retry without sleeping.                 *)
VerifyStolen(p) ==
    /\ At(p, "verify")
    /\ IF OwnedBy(p) THEN Hold(p) ELSE GoTo(p, "try") /\ Forget(p)
    /\ UNCHANGED <<alive, names, owners, intents>>

-----------------------------------------------------------------------------
(* A bug: nothing is done about an owner that was set aside.               *)
TransferState_NotSetAside(d, intent) ==
    LET hasTemp == intent.by \in temps[d]
        old == intent.owner
    IN CASE owner[d] = old /\ previous[d] = None /\ hasTemp  -> "clear"
         [] owner[d] = old /\ previous[d] = None /\ ~hasTemp -> "clearIntent"
         [] OTHER -> "wait"

(* recoverDeadStealIntent: which of its four recognised states the lock    *)
(* directory is in, named for the first call that undoes it.               *)
TransferState(d, intent) ==
    LET hasTemp == intent.by \in temps[d]
        old == intent.owner
    IN CASE owner[d] = old  /\ previous[d] = None /\ hasTemp  -> "clear"
         [] owner[d] = None /\ previous[d] = old  /\ hasTemp  -> "clearRestore"
         [] owner[d] \notin {None, old} /\ previous[d] = old /\ ~hasTemp -> "dropOwner"
         [] owner[d] = old  /\ previous[d] = None /\ ~hasTemp -> "clearIntent"
         [] OTHER -> "wait"

Recover(p) ==
    /\ At(p, "recover")
    /\ IF fixed = seen[p].dir /\ TransferState(fixed, seen[p]) # "wait"
       THEN GoTo(p, TransferState(fixed, seen[p])) /\ UNCHANGED seen
       ELSE GiveWay(p)
    /\ UNCHANGED <<alive, names, owners, intents>>

(* The dead contender's temp; with the owner set aside, restore it next.   *)
ClearTemp(p) ==
    /\ p \in alive
    /\ pc[p] \in {"clear", "clearRestore"}
    /\ DropTempOf(seen[p].by)
    /\ GoTo(p, IF pc[p] = "clear" THEN "clearIntent" ELSE "restore")
    /\ UNCHANGED <<alive, names, owner, previous, intents, seen>>

(* The dead contender's owner.json, removed by name: no identity is given. *)
DropOwner(p) ==
    /\ At(p, "dropOwner")
    /\ owner' = [d \in Proc |-> IF d = fixed THEN None ELSE owner[d]]
    /\ GoTo(p, "restore")
    /\ UNCHANGED <<alive, names, previous, temps, intents, seen>>

(* The rename of owner.previous onto owner.json, and its identity check.   *)
Restore(p) ==
    /\ At(p, "restore")
    /\ IF Present /\ previous[fixed] # None
       THEN /\ owner' = [owner EXCEPT ![fixed] = previous[fixed]]
            /\ previous' = [previous EXCEPT ![fixed] = None]
            /\ IF previous[fixed] = seen[p].owner
               THEN GoTo(p, "clearIntent") /\ UNCHANGED seen
               ELSE GiveWay(p)
       ELSE GiveWay(p) /\ UNCHANGED <<owner, previous>>
    /\ UNCHANGED <<alive, names, temps, intents>>

ClearIntent(p) ==
    /\ At(p, "clearIntent")
    /\ DropSteal(seen[p])
    /\ GiveWay(p)
    /\ UNCHANGED <<alive, names, owners, release>>

-----------------------------------------------------------------------------
(* releaseTxLock, after the critical section.                              *)
Owns(p) == fixed = seen[p].dir /\ OwnedBy(p)

Release(p) ==
    /\ At(p, "held")
    /\ GoTo(p, IF Owns(p) THEN "relLink" ELSE "failed")
    /\ UNCHANGED <<alive, names, owners, intents, seen>>

LinkRelease(p) ==
    /\ At(p, "relLink")
    /\ IF CanLink(release)
       THEN /\ release' = [release EXCEPT ![fixed] = seen[p]]
            /\ GoTo(p, "relRecheck")
       ELSE GoTo(p, "failed") /\ UNCHANGED release
    /\ UNCHANGED <<alive, names, owners, steal, seen>>

RecheckRelease(p) ==
    /\ At(p, "relRecheck")
    /\ IF Owns(p)
       THEN GoTo(p, "relMove") /\ UNCHANGED release
       ELSE /\ release' = [d \in Proc |-> IF d = fixed /\ release[d] = seen[p]
                                        THEN NoIntent ELSE release[d]]
            /\ GoTo(p, "failed")
    /\ UNCHANGED <<alive, names, owners, steal, seen>>

(* The rename to the tombstone, by path.                                   *)
MoveLock(p) ==
    /\ At(p, "relMove")
    /\ IF Present /\ tomb[p] = None
       THEN /\ tomb' = [tomb EXCEPT ![p] = fixed]
            /\ fixed' = None
            /\ GoTo(p, "relSweep")
       ELSE GoTo(p, "failed") /\ UNCHANGED <<fixed, tomb>>
    /\ UNCHANGED <<alive, owners, intents, seen>>

SweepOwn(p) ==
    /\ At(p, "relSweep")
    /\ RemoveTombs({t \in {p} : Removable(t, seen[p].dir)})
    /\ GoTo(p, IF Removable(p, seen[p].dir) THEN "done" ELSE "failed")
    /\ UNCHANGED <<alive, fixed, seen>>

(* The process dies, at a point where this behaviour lets it.              *)
Crash(p) ==
    /\ p \in alive
    /\ pc[p] \in crashAt
    /\ alive' = alive \ {p}
    /\ UNCHANGED <<pc, crashAt, names, owners, intents, seen>>

-----------------------------------------------------------------------------
Acquire(p) == \/ SeeNoLock(p) \/ SeeStealIntent(p) \/ SeeNoStealIntent(p)
              \/ Publish(p) \/ CheckPublished(p) \/ Retry(p) \/ TimeOut(p)
              \/ ReadRelease(p) \/ FinishRelease(p) \/ SweepReleased(p)
              \/ ReadOwner(p)
Steal(p) == \/ WriteTemp(p) \/ LinkSteal(p) \/ Recheck(p) \/ Undo(p)
            \/ CheckTransfer(p) \/ SetOwnerAside(p) \/ InstallOwner(p)
            \/ DropPrevious(p) \/ DropOwnIntent(p) \/ VerifyStolen(p)
RecoverDead(p) == \/ Recover(p) \/ ClearTemp(p) \/ DropOwner(p)
                  \/ Restore(p) \/ ClearIntent(p)
GiveBack(p) == \/ Release(p) \/ LinkRelease(p) \/ RecheckRelease(p)
               \/ MoveLock(p) \/ SweepOwn(p)

Step(p) == /\ Acquire(p) \/ Steal(p) \/ RecoverDead(p) \/ GiveBack(p)
           /\ UNCHANGED crashAt
Next == \E p \in Proc : Start(p) \/ Step(p) \/ Crash(p)

Spec == Init /\ [][Next]_vars

(* A call that has started runs on while its process lives; it sleeps only *)
(* for the retry interval, and its critical section is synchronous.        *)
FairSpec == Spec /\ \A p \in Proc : WF_vars(Step(p))

-----------------------------------------------------------------------------
(* The acquisitions inside their critical section.                         *)
Inside == {p \in alive : pc[p] = "held"}

(* Two live processes never run a transaction of the same run at once,     *)
(* however their attempts, takeovers, recoveries and releases interleave.  *)
MutualExclusion == \A p, q \in Inside : p = q

(* Nobody has died in the middle of a takeover, a recovery or a release.   *)
Undisturbed ==
    \A p \in Proc \ alive : pc[p] \notin Transitions \cup Recovering \cup {"finish", "sweep"}

(* While a process is inside, the fixed name is the directory it acquired  *)
(* and owner.json there is its own: nobody moved, took over or damaged the *)
(* lock under it.                                                          *)
HolderKeepsLock == Undisturbed => \A p \in Inside : Owns(p)

(* The owner's release never reports lost ownership: it is still the owner *)
(* when it links its intent, when it checks again and when it moves the    *)
(* directory, and what it moves away is its own lock.                      *)
ReleaseSucceeds == Undisturbed => \A p \in Proc : pc[p] # "failed"

(* The transaction lock as an exclusive resource.                          *)
Use == INSTANCE ExclusiveUse WITH Client <- Proc, users <- Inside
UseSpec == Use!Spec

(* A crash never locks a run for ever: a call that starts an attempt when  *)
(* every other process is over or dead gets the lock, unless it dies too.  *)
LockDue(p) == pc[p] = "try" /\ Quiet(p)
LockGranted(p) == pc[p] = "held" \/ p \notin alive
NoPermanentBusy == \A p \in Proc : LockDue(p) ~> LockGranted(p)

(* Every call that has started comes to its end: it gets the lock and      *)
(* gives it back, or is told that the run is busy, or that it lost it.     *)
CallsEnd == \A p \in Proc : (pc[p] # "idle") ~> Over(p)

(* One process is inside, and the directory is its own until it has        *)
(* released it, which succeeds.                                            *)
LockSafe == TypeOK /\ MutualExclusion /\ HolderKeepsLock /\ ReleaseSucceeds
=============================================================================
