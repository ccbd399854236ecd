------------------------------ MODULE StrictTx ------------------------------
(***************************************************************************)
(* The durable replacement of run.json in run-store.ts: updateRunStrict    *)
(* and updateRun over writeRunContentsLocked, the recovery every locked    *)
(* call performs first (recoverStrictTransactionLocked), and the load that *)
(* reads without the lock (loadRunJson).                                   *)
(*                                                                         *)
(* Three names of the run directory matter: run.json, the rollback copy    *)
(* and the transaction marker.  "dir" is what processes see, "disk" the    *)
(* directories a power loss may leave; an fsync of the directory reduces   *)
(* them to the one that is seen.  A file system keeps the order of changes *)
(* (a journal) or may keep any of them.  The lock of TxLock is taken as    *)
(* exclusive: one call works at a time, in steps of one rename, unlink or  *)
(* fsync, and it may die after each.  A record is its version.  A file is  *)
(* written to a temporary, flushed and renamed, so a name never shows a    *)
(* partial file; a failure before the rename changes nothing.              *)
(***************************************************************************)
EXTENDS Naturals

CONSTANTS MaxVersion, \* the bound on updates
          MaxCrashes, \* the bound on deaths and power losses
          Hosts,      \* the machines to consider: the calls that may fail there,
                      \* what may die, and whether a journal keeps the order
          Reader      \* the processes that load without the lock

ASSUME StrictAssumption ==
    /\ MaxVersion \in Nat /\ MaxCrashes \in Nat
    /\ Hosts \subseteq [faults : SUBSET {"write", "unlink", "sync"},
                        deaths : SUBSET {"process", "power"}, ordered : BOOLEAN]

VARIABLES
    host,            \* the machine, one of Hosts
    dir,             \* run.json, the rollback copy and the marker
    disk,            \* the directories a power loss may leave
    pc, kind, from,  \* the call that has the lock, and who recovers
    old, new,        \* the versions an update replaces and writes
    lock,            \* whether the lock directory exists
    allowed,         \* the versions callers may take as current
    reader, got,     \* each reader, and what it read
    crashes

call == <<kind, from, old, new>>
readers == <<reader, got>>
vars == <<host, dir, disk, pc, call, lock, allowed, readers, crashes>>

Faults == host.faults
Deaths == host.deaths
Ordered == host.ordered

Version == 0..MaxVersion
None == MaxVersion + 1
NoMarker == [phase |-> "none", old |-> 0, new |-> 0]
Marker == [phase : {"prepared", "committed"}, old : Version, new : Version] \cup {NoMarker}
Dir == [run : Version, rollback : Version \cup {None}, marker : Marker]
FirstDir == [run |-> 0, rollback |-> None, marker |-> NoMarker]

Writing == {"backup", "backupSync", "prepare", "prepareSync", "publish",
            "publishSync", "commit", "commitSync", "reprepare",
            "reprepareSync", "restore", "plain", "plainSync"}
Undoing == {"undo", "undoSync", "dropMarker", "dropMarkerSync", "dropRollback",
            "dropRollbackSync"}
Forgetting == {"forgetRollback", "forgetRollbackSync", "forgetMarker",
               "forgetMarkerSync"}
PcValues == {"free", "recover", "orphan", "orphanSync"} \cup Writing \cup Undoing \cup Forgetting

TypeOK ==
    /\ host \in Hosts
    /\ dir \in Dir /\ disk \subseteq Dir /\ dir \in disk
    /\ pc \in PcValues /\ kind \in {"load", "update", "strict"}
    /\ from \in {"first", "second", "write", "orphan"}
    /\ old \in Version /\ new \in Version /\ lock \in BOOLEAN
    /\ allowed \subseteq Version
    /\ reader \in [Reader -> {"idle", "probed", "read", "returned"}]
    /\ got \in [Reader -> Version] /\ crashes \in 0..MaxCrashes

Init ==
    /\ host \in Hosts
    /\ dir = FirstDir /\ disk = {FirstDir}
    /\ pc = "free" /\ kind = "load" /\ from = "first" /\ old = 0 /\ new = 0
    /\ lock = FALSE /\ allowed = {0}
    /\ reader = [r \in Reader |-> "idle"] /\ got = [r \in Reader |-> 0]
    /\ crashes = 0

------------------------------------------------------------------------------
(* The changes of the directory.                                           *)
OnDisk == IF Ordered THEN {dir} ELSE disk
SetRun(v) == /\ dir' = [dir EXCEPT !.run = v]
             /\ disk' = disk \cup {[d EXCEPT !.run = v] : d \in OnDisk}
SetRollback(v) == /\ dir' = [dir EXCEPT !.rollback = v]
                  /\ disk' = disk \cup {[d EXCEPT !.rollback = v] : d \in OnDisk}
SetMarker(m) == /\ dir' = [dir EXCEPT !.marker = m]
                /\ disk' = disk \cup {[d EXCEPT !.marker = m] : d \in OnDisk}
Sync == disk' = {dir} /\ UNCHANGED dir
Same == UNCHANGED <<dir, disk>>

GoTo(l) == pc' = l /\ UNCHANGED <<call, lock, allowed>>

(* The call returns: it succeeded, it left run.json as it was, or it does  *)
(* not say.                                                                *)
Answer(versions) == /\ pc' = "free" /\ lock' = FALSE /\ allowed' = versions
                    /\ UNCHANGED call
Done == Answer({new})
Restored == Answer({old})
Unchanged == Answer(allowed)
Unknown == Answer(allowed \cup {new})
FailWith(c) == IF c = "write" THEN Unknown ELSE Unchanged

(* A recovery is over.  A load reads run.json and returns; an update reads *)
(* it and recovers once more inside writeRunContentsLocked, then writes.   *)
Recovered ==
    \/ from = "first" /\ kind = "load" /\ Unchanged
    \/ /\ from = "first" /\ kind # "load"
       /\ pc' = "recover" /\ from' = "second"
       /\ UNCHANGED <<kind, old, new, lock, allowed>>
    \/ /\ from = "second" /\ old' = dir.run
       /\ pc' = IF kind = "strict" THEN "backup" ELSE "plain"
       /\ from' = "write" /\ UNCHANGED <<kind, new, lock, allowed>>

(* A call takes the lock, from nobody or from a dead owner.                *)
Load == /\ pc = "free" /\ pc' = "recover" /\ kind' = "load" /\ from' = "first"
        /\ (dir.marker # NoMarker \/ dir.rollback # None \/ lock)
        /\ lock' = TRUE /\ Same /\ UNCHANGED <<old, new, allowed>>

Update(k) == /\ pc = "free" /\ new < MaxVersion /\ new' = new + 1
             /\ pc' = "recover" /\ kind' = k /\ from' = "first"
             /\ lock' = TRUE /\ Same /\ UNCHANGED <<old, allowed>>

------------------------------------------------------------------------------
(* recoverStrictTransactionLocked: what the files say must happen.         *)
Orphan == dir.marker = NoMarker /\ dir.rollback # None
Consistent ==
    /\ Orphan => dir.run = dir.rollback
    /\ dir.marker.phase = "prepared" => dir.rollback = dir.marker.old
    /\ dir.marker.phase = "committed" => dir.run = dir.marker.new

(* A bug: a recovery rolls a committed update back.                        *)
Recover_UndoesCommitted ==
    /\ pc = "recover" /\ Same
    /\ \/ ~Consistent /\ Unchanged
       \/ Consistent /\ Orphan /\ GoTo("orphan")
       \/ dir.marker = NoMarker /\ dir.rollback = None /\ Recovered
       \/ Consistent /\ dir.marker # NoMarker /\ GoTo("undo")

Recover ==
    /\ pc = "recover" /\ Same
    /\ \/ ~Consistent /\ Unchanged
       \/ Consistent /\ Orphan /\ GoTo("orphan")
       \/ dir.marker = NoMarker /\ dir.rollback = None /\ Recovered
       \/ Consistent /\ dir.marker.phase = "prepared" /\ GoTo("undo")
       \/ Consistent /\ dir.marker.phase = "committed" /\ GoTo("forgetRollback")

DropOrphan ==
    /\ pc = "orphan"
    /\ \/ SetRollback(None) /\ GoTo("orphanSync")
       \/ "unlink" \in Faults /\ Same /\ Unchanged

SyncOrphan ==
    /\ pc = "orphanSync"
    /\ \/ Sync /\ Recovered
       \/ "sync" \in Faults /\ Same /\ Unchanged

(* The old record is put back: by a recovery, or by restoreFromRollback of *)
(* the update itself.                                                      *)
Restore ==
    /\ pc = "restore" /\ Same
    /\ IF dir.rollback = old THEN GoTo("undo") ELSE Unknown

Undo ==
    /\ pc = "undo"
    /\ \/ /\ SetRun(dir.rollback) /\ GoTo("undoSync")
       \/ "write" \in Faults /\ Same /\ FailWith(from)

(* A bug: a rollback leaves the marker and the copy behind.                *)
SyncUndo_KeepsFiles ==
    /\ pc = "undoSync"
    /\ Sync /\ IF from = "write" THEN Restored ELSE Recovered

SyncUndo ==
    /\ pc = "undoSync"
    /\ \/ Sync /\ GoTo("dropMarker")
       \/ "sync" \in Faults /\ Same /\ FailWith(from)

(* cleanupTxPhase, prepared order: the marker goes first.                  *)
DropMarker ==
    /\ pc = "dropMarker"
    /\ \/ dir.marker = NoMarker /\ Same /\ GoTo("dropRollback")
       \/ dir.marker # NoMarker /\ SetMarker(NoMarker) /\ GoTo("dropMarkerSync")
       \/ "unlink" \in Faults /\ dir.marker # NoMarker /\ Same /\ FailWith(from)

SyncDropMarker ==
    /\ pc = "dropMarkerSync"
    /\ \/ Sync /\ GoTo("dropRollback")
       \/ "sync" \in Faults /\ Same /\ FailWith(from)

DropRollback ==
    /\ pc = "dropRollback"
    /\ \/ SetRollback(None) /\ GoTo("dropRollbackSync")
       \/ "unlink" \in Faults /\ Same /\ FailWith(from)

SyncDropRollback ==
    /\ pc = "dropRollbackSync"
    /\ \/ /\ Sync
          /\ \/ from = "write" /\ Restored
             \/ from = "orphan" /\ Unchanged
             \/ Recovered
       \/ "sync" \in Faults /\ Same /\ FailWith(from)

------------------------------------------------------------------------------
(* cleanupTxPhase, committed order: the marker goes last.  A failure is    *)
(* accepted when revalidateCommittedState finds the new record decided.    *)
Forgotten == IF from = "write" THEN Done ELSE Recovered
StillCommitted ==
    dir.marker.phase # "prepared" /\ (dir.marker # NoMarker => dir.marker.new = dir.run)
Tolerate == IF StillCommitted THEN Forgotten ELSE FailWith(from)

(* A bug: the marker goes before the rollback copy.                        *)
ForgetRollback_MarkerFirst ==
    /\ pc = "forgetRollback"
    /\ SetMarker(NoMarker) /\ GoTo("forgetRollbackSync")

ForgetRollback ==
    /\ pc = "forgetRollback"
    /\ \/ dir.rollback = None /\ Same /\ GoTo("forgetMarker")
       \/ dir.rollback # None /\ SetRollback(None) /\ GoTo("forgetRollbackSync")
       \/ "unlink" \in Faults /\ dir.rollback # None /\ Same /\ Tolerate

SyncForgetRollback ==
    /\ pc = "forgetRollbackSync"
    /\ \/ Sync /\ GoTo("forgetMarker")
       \/ "sync" \in Faults /\ Same /\ Tolerate

ForgetMarker ==
    /\ pc = "forgetMarker"
    /\ \/ SetMarker(NoMarker) /\ GoTo("forgetMarkerSync")
       \/ "unlink" \in Faults /\ Same /\ Tolerate

SyncForgetMarker ==
    /\ pc = "forgetMarkerSync"
    /\ \/ Sync /\ Forgotten
       \/ "sync" \in Faults /\ Same /\ Tolerate

------------------------------------------------------------------------------
(* writeRunContentsLocked, strict: rollback copy, prepared marker, new     *)
(* run.json, committed marker, each followed by an fsync of the directory. *)
Backup ==
    /\ pc = "backup"
    /\ \/ SetRollback(old) /\ GoTo("backupSync")
       \/ "write" \in Faults /\ Same /\ Unchanged

SyncBackup ==
    /\ pc = "backupSync"
    /\ \/ Sync /\ GoTo("prepare")
       \/ "sync" \in Faults /\ Same /\ Unchanged

Prepare ==
    /\ pc = "prepare"
    /\ \/ /\ SetMarker([phase |-> "prepared", old |-> old, new |-> new])
          /\ GoTo("prepareSync")
       \/ /\ "write" \in Faults /\ Same
          /\ pc' = "dropMarker" /\ from' = "orphan"
          /\ UNCHANGED <<kind, old, new, lock, allowed>>

SyncPrepare ==
    /\ pc = "prepareSync"
    /\ \/ Sync /\ GoTo("publish")
       \/ "sync" \in Faults /\ Same /\ GoTo("restore")

Publish ==
    /\ pc = "publish"
    /\ \/ SetRun(new) /\ GoTo("publishSync")
       \/ "write" \in Faults /\ Same /\ GoTo("restore")

(* A bug: the update commits before its record is synced.                  *)
SyncPublish_Skipped ==
    /\ pc = "publishSync" /\ Same /\ GoTo("commit")

SyncPublish ==
    /\ pc = "publishSync"
    /\ \/ Sync /\ GoTo("commit")
       \/ "sync" \in Faults /\ Same /\ GoTo("restore")

Commit ==
    /\ pc = "commit"
    /\ \/ /\ SetMarker([phase |-> "committed", old |-> old, new |-> new])
          /\ GoTo("commitSync")
       \/ "write" \in Faults /\ Same /\ GoTo("restore")

SyncCommit ==
    /\ pc = "commitSync"
    /\ \/ Sync /\ GoTo("forgetRollback")
       \/ "sync" \in Faults /\ Same /\ GoTo("reprepare")

(* The committed marker may or may not survive: only a durable prepared    *)
(* marker makes the old record safe to restore.                            *)
Reprepare ==
    /\ pc = "reprepare"
    /\ \/ /\ SetMarker([phase |-> "prepared", old |-> old, new |-> new])
          /\ GoTo("reprepareSync")
       \/ "write" \in Faults /\ Same /\ Unknown

SyncReprepare ==
    /\ pc = "reprepareSync"
    /\ \/ Sync /\ GoTo("restore")
       \/ "sync" \in Faults /\ Same /\ Unknown

(* writeRunContentsLocked, ordinary: run.json is replaced directly.        *)
Plain ==
    /\ pc = "plain"
    /\ \/ SetRun(new) /\ GoTo("plainSync")
       \/ "write" \in Faults /\ Same /\ Unchanged

SyncPlain ==
    /\ pc = "plainSync"
    /\ \/ Sync /\ Done
       \/ "sync" \in Faults /\ Same /\ Unknown

------------------------------------------------------------------------------
(* The lock-free load: no artifacts, read, still no artifacts.             *)
Quiet == dir.marker = NoMarker /\ dir.rollback = None /\ ~lock

Probe(r) == /\ reader[r] = "idle" /\ Quiet
            /\ reader' = [reader EXCEPT ![r] = "probed"] /\ UNCHANGED got
ReadFile(r) == /\ reader[r] = "probed" /\ got' = [got EXCEPT ![r] = dir.run]
               /\ reader' = [reader EXCEPT ![r] = "read"]
(* A bug: a load does not look for artifacts again.                        *)
Reprobe_Skipped(r) ==
    /\ reader[r] = "read" /\ UNCHANGED got
    /\ reader' = [reader EXCEPT ![r] = "returned"]

Reprobe(r) == /\ reader[r] = "read" /\ UNCHANGED got
              /\ reader' = [reader EXCEPT ![r] = IF Quiet THEN "returned" ELSE "idle"]
Again(r) == /\ reader[r] = "returned" /\ UNCHANGED got
            /\ reader' = [reader EXCEPT ![r] = "idle"]

(* The process that has the lock dies; its files stay, and its lock        *)
(* directory.  A power loss stops every process.                           *)
Expected ==
    IF pc # "free" /\ (pc \in Writing \/ from = "write") THEN allowed \cup {new} ELSE allowed

Crash ==
    /\ "process" \in Deaths /\ pc # "free" /\ crashes < MaxCrashes /\ crashes' = crashes + 1
    /\ pc' = "free" /\ allowed' = Expected
    /\ Same /\ UNCHANGED <<call, lock, readers>>

PowerLoss ==
    /\ "power" \in Deaths /\ crashes < MaxCrashes /\ crashes' = crashes + 1
    /\ dir' \in disk /\ disk' = {dir'}
    /\ pc' = "free" /\ lock' \in {lock, FALSE}
    /\ allowed' = Expected
    /\ reader' = [r \in Reader |-> "idle"]
    /\ UNCHANGED <<call, got>>

Recovery == Recover \/ DropOrphan \/ SyncOrphan
Undoes == Restore \/ Undo \/ SyncUndo \/ DropMarker \/ SyncDropMarker
          \/ DropRollback \/ SyncDropRollback
Forgets == ForgetRollback \/ SyncForgetRollback \/ ForgetMarker \/ SyncForgetMarker
Writes == Backup \/ SyncBackup \/ Prepare \/ SyncPrepare \/ Publish \/ SyncPublish
          \/ Commit \/ SyncCommit \/ Reprepare \/ SyncReprepare \/ Plain \/ SyncPlain

Work == (Recovery \/ Undoes \/ Forgets \/ Writes) /\ UNCHANGED <<readers, crashes>>
Begin == (Load \/ \E k \in {"update", "strict"} : Update(k)) /\ UNCHANGED <<readers, crashes>>
ReadStep == /\ \E r \in Reader : Probe(r) \/ ReadFile(r) \/ Reprobe(r) \/ Again(r)
            /\ Same /\ UNCHANGED <<pc, call, lock, allowed, crashes>>

Next == (Begin \/ Work \/ ReadStep \/ Crash \/ PowerLoss) /\ UNCHANGED host

Spec == Init /\ [][Next]_vars

(* A call that has the lock is one synchronous function: it goes on until  *)
(* it returns or dies.  Artifacts are met by the next load.                *)
FairSpec ==
    /\ Spec /\ WF_vars(Work /\ UNCHANGED host)
    /\ WF_vars(Load /\ UNCHANGED <<readers, crashes, host>>)

------------------------------------------------------------------------------
(* What a recovery of a directory settles on; None when it fails.          *)
Authority(d) ==
    IF d.marker.phase = "prepared" THEN IF d.rollback = d.marker.old THEN d.rollback ELSE None
    ELSE IF d.marker.phase = "committed" THEN IF d.run = d.marker.new THEN d.run ELSE None
    ELSE IF d.rollback \in {None, d.run} THEN d.run ELSE None

(* Whatever directory a power loss leaves, and so the one that processes   *)
(* see, the next recovery (recoverStrictTransactionLocked) finds a record, *)
(* and one that callers may expect: the new one once updateRunStrict       *)
(* returned, the old one once it reported that the prior run.json is       *)
(* restored.                                                               *)
AlwaysDurable == \A d \in disk : Authority(d) \in Expected

(* The same where no unlink fails (cleanupTxPhase always succeeds or the   *)
(* process dies).                                                          *)
Durable == "unlink" \notin Faults => AlwaysDurable

(* Only the rename of the committed marker, the rename of a re-prepared    *)
(* one, an ordinary rename, or a power loss decides a record: neither the  *)
(* recovery of recoverStrictTransactionLocked nor any cleanup changes the  *)
(* authority.                                                              *)
DecidedOnce ==
    [][Authority(dir)' # Authority(dir)
          => pc \in {"commit", "reprepare", "plain"} \/ crashes' # crashes]_vars

(* A load without the lock (loadRunJson) never returns a record whose      *)
(* strict update is still undecided.                                       *)
FastReadDecided ==
    [][\A r \in Reader : reader[r] = "read" /\ reader'[r] = "returned"
          => ~(dir.marker.phase = "prepared" /\ got[r] = dir.marker.new)]_vars

(* Where no call fails, leftovers of interrupted transactions are          *)
(* eventually removed by the loads that meet them                          *)
(* (recoverStrictTransactionLocked).                                       *)
LeftoversGo == Faults = {} => []<>Quiet

(* Whatever was interrupted, run.json recovers to a version that callers   *)
(* may take as current.                                                    *)
TxSafe == TypeOK /\ Durable

(* An update is decided once, and the load without the lock returns only   *)
(* decided versions.                                                       *)
TxDecides == DecidedOnce /\ FastReadDecided
==============================================================================
