---------------------------- MODULE StoreProofs -----------------------------
(***************************************************************************)
(* Proofs about what the run store keeps for one run: run.json, the files  *)
(* of large results, and the claim of who works on the run.                *)
(*                                                                         *)
(* StrictTx.  On a file system that keeps the order of directory changes,  *)
(* and as long as an unlink does not fail, whatever directory a death, a   *)
(* failed write or fsync, or a power loss leaves, the next recovery finds  *)
(* a record that callers may expect.  The invariant says, at each step of  *)
(* the call that has the lock, what the three files are, and where the     *)
(* disk may not differ from them: an answer narrows what callers may       *)
(* expect, so every directory on the disk must already agree with it.      *)
(*                                                                         *)
(* Artifacts.  The invariant says what each place of a call knows of the   *)
(* path: at a sync, the directories below are durable; with a reference in *)
(* hand, all are, or the file was another's.  No name ever shows a file    *)
(* that was not flushed.                                                   *)
(*                                                                         *)
(* RunRecovery.  For any number of processes and calls: the types, that a  *)
(* run is worked on only while its record says so, that a coordinator has  *)
(* only runs its process has claimed, and that the end in the log is the   *)
(* one on record.  None of them is inductive alone.  What carries them is  *)
(* that whoever is between its claim and the end of it is the holder       *)
(* (Owned), so that no other call writes the status in between.            *)
(***************************************************************************)
EXTENDS StrictTx, Artifacts, RunRecovery, TLAPS

-----------------------------------------------------------------------------
(* The files of large results.                                             *)

(* Only a whole file gets the name.                                        *)
WholeOnly ==
    /\ content \in {"none", "whole"}
    /\ \A w \in Writer : writer[w] = "rename" => temporary[w] = "whole"

(* A call that takes the file of another has seen it.                      *)
SeenFile ==
    \A w \in Writer :
        writer[w] \in {"verify", "dropMatch", "drop", "got",
                       "sync1", "sync2", "sync3", "sync4"} => entries = File

FaultedFirst ==
    \A w \in Writer : writer[w] \in {"dropFailed", "refused"} => faulted > 0

(* The syncs go from the file up to the run directory.                     *)
SyncedBelow ==
    \A w \in Writer :
        /\ \A n \in Entries : writer[w] = SyncOf[n] => syncable /\ (n + 1)..File \subseteq synced
        /\ writer[w] = "drop" /\ syncable => Durable4
        /\ writer[w] = "got" /\ syncable => Durable4 \/ unsynced

RecordedDurable == onRecord /\ syncable => Durable4 \/ unsynced

ArtifactsInv ==
    /\ ArtifactsTypeOK /\ WholeOnly /\ SeenFile /\ FaultedFirst
    /\ SyncedBelow /\ RecordedDurable

LEMMA SyncPlaces ==
    ASSUME NEW n \in Entries
    PROVE  /\ SyncOf[n] \in Places
           /\ SyncOf[n] \in {"sync1", "sync2", "sync3", "sync4"}
           /\ \A m \in Entries : SyncOf[m] = SyncOf[n] => m = n
<1>1. n \in {1, 2, 3, 4} /\ Entries = {1, 2, 3, 4}
    BY DEF Entries
<1> QED BY <1>1 DEF SyncOf, Places

LEMMA InvInit == ArtifactsInit => ArtifactsInv
<1> SUFFICES ASSUME ArtifactsInit PROVE ArtifactsInv
    OBVIOUS
<1>1. ArtifactsTypeOK
    <2>1. entries \in 0..File /\ synced \subseteq 1..entries /\ (content = "none" <=> entries < File)
        BY DEF ArtifactsInit, File
    <2>2. writer \in [Writer -> Places] /\ temporary \in [Writer -> Contents]
        BY DEF ArtifactsInit, Places, Contents
    <2>3. faulted \in 0..MaxFaults /\ stops \in 0..MaxStops
        BY ArtifactsAssumption DEF ArtifactsInit
    <2> QED BY <2>1, <2>2, <2>3 DEF ArtifactsInit, ArtifactsTypeOK, Contents
<1>2. WholeOnly /\ SeenFile /\ FaultedFirst /\ RecordedDurable
    BY DEF ArtifactsInit, WholeOnly, SeenFile, FaultedFirst, RecordedDurable
<1>3. SyncedBelow
    BY SyncPlaces DEF ArtifactsInit, SyncedBelow
<1> QED BY <1>1, <1>2, <1>3 DEF ArtifactsInv

(* How each action is looked at: what the places are made of, and what a   *)
(* call at a place knows.                                                  *)
LEMMA StepKeeps ==
    ASSUME ArtifactsInv, NEW w \in Writer, WriterStep(w)
    PROVE  ArtifactsInv'
<1> USE ArtifactsAssumption DEF Goes, Keeps, Succeeds, Fails, tree, references, chances, File
<1>0. /\ ArtifactsTypeOK /\ WholeOnly /\ SeenFile /\ FaultedFirst
      /\ SyncedBelow /\ RecordedDurable
    BY DEF ArtifactsInv
<1>1. CASE Spill(w)
    <2>1. ArtifactsTypeOK'
        BY <1>0, <1>1, SyncPlaces DEF ArtifactsTypeOK, Spill, Places, Contents, Readable, WholeOnly, Entries
    <2>2. WholeOnly'
        BY <1>0, <1>1, SyncPlaces DEF ArtifactsTypeOK, WholeOnly, Spill, Entries
    <2>3. SeenFile'
        BY <1>0, <1>1, SyncPlaces DEF ArtifactsTypeOK, SeenFile, Spill, Readable, Entries
    <2>4. FaultedFirst'
        BY <1>0, <1>1, SyncPlaces DEF ArtifactsTypeOK, FaultedFirst, SeenFile, WholeOnly, Spill, Readable, Entries
    <2>5. SyncedBelow'
        BY <1>0, <1>1, SyncPlaces DEF ArtifactsTypeOK, SyncedBelow, Spill, Durable4, Entries
    <2>6. RecordedDurable'
        BY <1>0, <1>1, SyncPlaces DEF ArtifactsTypeOK, SyncedBelow, RecordedDurable, Spill, Durable4, Entries
    <2> QED BY <2>1, <2>2, <2>3, <2>4, <2>5, <2>6 DEF ArtifactsInv
<1>2. CASE MakeDirectories(w)
    <2>1. ArtifactsTypeOK'
        BY <1>0, <1>2, SyncPlaces DEF ArtifactsTypeOK, MakeDirectories, Places, Contents, Readable, WholeOnly, Entries
    <2>2. WholeOnly'
        BY <1>0, <1>2, SyncPlaces DEF ArtifactsTypeOK, WholeOnly, MakeDirectories, Entries
    <2>3. SeenFile'
        BY <1>0, <1>2, SyncPlaces DEF ArtifactsTypeOK, SeenFile, MakeDirectories, Readable, Entries
    <2>4. FaultedFirst'
        BY <1>0, <1>2, SyncPlaces DEF ArtifactsTypeOK, FaultedFirst, SeenFile, WholeOnly, MakeDirectories, Readable, Entries
    <2>5. SyncedBelow'
        BY <1>0, <1>2, SyncPlaces DEF ArtifactsTypeOK, SyncedBelow, MakeDirectories, Durable4, Entries
    <2>6. RecordedDurable'
        BY <1>0, <1>2, SyncPlaces DEF ArtifactsTypeOK, SyncedBelow, RecordedDurable, MakeDirectories, Durable4, Entries
    <2> QED BY <2>1, <2>2, <2>3, <2>4, <2>5, <2>6 DEF ArtifactsInv
<1>3. CASE Look(w)
    <2>1. ArtifactsTypeOK'
        BY <1>0, <1>3, SyncPlaces DEF ArtifactsTypeOK, Look, Places, Contents, Readable, WholeOnly, Entries
    <2>2. WholeOnly'
        BY <1>0, <1>3, SyncPlaces DEF ArtifactsTypeOK, WholeOnly, Look, Entries
    <2>3. SeenFile'
        BY <1>0, <1>3, SyncPlaces DEF ArtifactsTypeOK, SeenFile, Look, Readable, Entries
    <2>4. FaultedFirst'
        BY <1>0, <1>3, SyncPlaces DEF ArtifactsTypeOK, FaultedFirst, SeenFile, WholeOnly, Look, Readable, Entries
    <2>5. SyncedBelow'
        BY <1>0, <1>3, SyncPlaces DEF ArtifactsTypeOK, SyncedBelow, Look, Durable4, Entries
    <2>6. RecordedDurable'
        BY <1>0, <1>3, SyncPlaces DEF ArtifactsTypeOK, SyncedBelow, RecordedDurable, Look, Durable4, Entries
    <2> QED BY <2>1, <2>2, <2>3, <2>4, <2>5, <2>6 DEF ArtifactsInv
<1>4. CASE Verify(w)
    <2>1. ArtifactsTypeOK'
        <3>1. unsynced' \in BOOLEAN
            BY <1>0, <1>4 DEF ArtifactsTypeOK, Verify
        <3>2. writer' \in [Writer -> Places]
            BY <1>0, <1>4, SyncPlaces DEF ArtifactsTypeOK, Verify, Places, Entries
        <3>3. faulted' \in 0..MaxFaults /\ stops' \in 0..MaxStops
            BY <1>0, <1>4 DEF ArtifactsTypeOK, Verify
        <3> QED BY <1>0, <1>4, <3>1, <3>2, <3>3 DEF ArtifactsTypeOK, Verify
    <2>2. WholeOnly'
        BY <1>0, <1>4, SyncPlaces DEF ArtifactsTypeOK, WholeOnly, Verify, Entries
    <2>3. SeenFile'
        BY <1>0, <1>4, SyncPlaces DEF ArtifactsTypeOK, SeenFile, Verify, Readable, Entries
    <2>4. FaultedFirst'
        BY <1>0, <1>4, SyncPlaces DEF ArtifactsTypeOK, FaultedFirst, SeenFile, WholeOnly, Verify, Readable, Entries
    <2>5. SyncedBelow'
        BY <1>0, <1>4, SyncPlaces DEF ArtifactsTypeOK, SyncedBelow, Verify, Durable4, Entries
    <2>6. RecordedDurable'
        BY <1>0, <1>4, SyncPlaces DEF ArtifactsTypeOK, SyncedBelow, RecordedDurable, Verify, Durable4, Entries
    <2> QED BY <2>1, <2>2, <2>3, <2>4, <2>5, <2>6 DEF ArtifactsInv
<1>5. CASE Stage(w)
    <2>1. ArtifactsTypeOK'
        BY <1>0, <1>5, SyncPlaces DEF ArtifactsTypeOK, Stage, Places, Contents, Readable, WholeOnly, Entries
    <2>2. WholeOnly'
        BY <1>0, <1>5, SyncPlaces DEF ArtifactsTypeOK, WholeOnly, Stage, Entries
    <2>3. SeenFile'
        BY <1>0, <1>5, SyncPlaces DEF ArtifactsTypeOK, SeenFile, Stage, Readable, Entries
    <2>4. FaultedFirst'
        BY <1>0, <1>5, SyncPlaces DEF ArtifactsTypeOK, FaultedFirst, SeenFile, WholeOnly, Stage, Readable, Entries
    <2>5. SyncedBelow'
        BY <1>0, <1>5, SyncPlaces DEF ArtifactsTypeOK, SyncedBelow, Stage, Durable4, Entries
    <2>6. RecordedDurable'
        BY <1>0, <1>5, SyncPlaces DEF ArtifactsTypeOK, SyncedBelow, RecordedDurable, Stage, Durable4, Entries
    <2> QED BY <2>1, <2>2, <2>3, <2>4, <2>5, <2>6 DEF ArtifactsInv
<1>6. CASE WriteTemporary(w)
    <2>1. ArtifactsTypeOK'
        BY <1>0, <1>6, SyncPlaces DEF ArtifactsTypeOK, WriteTemporary, FailsBefore, Places, Contents, Readable, WholeOnly, Entries
    <2>2. WholeOnly'
        BY <1>0, <1>6, SyncPlaces DEF ArtifactsTypeOK, WholeOnly, WriteTemporary, FailsBefore, Entries
    <2>3. SeenFile'
        BY <1>0, <1>6, SyncPlaces DEF ArtifactsTypeOK, SeenFile, WriteTemporary, FailsBefore, Readable, Entries
    <2>4. FaultedFirst'
        BY <1>0, <1>6, SyncPlaces DEF ArtifactsTypeOK, FaultedFirst, SeenFile, WholeOnly, WriteTemporary, FailsBefore, Readable, Entries
    <2>5. SyncedBelow'
        BY <1>0, <1>6, SyncPlaces DEF ArtifactsTypeOK, SyncedBelow, WriteTemporary, FailsBefore, Durable4, Entries
    <2>6. RecordedDurable'
        BY <1>0, <1>6, SyncPlaces DEF ArtifactsTypeOK, SyncedBelow, RecordedDurable, WriteTemporary, FailsBefore, Durable4, Entries
    <2> QED BY <2>1, <2>2, <2>3, <2>4, <2>5, <2>6 DEF ArtifactsInv
<1>7. CASE FlushTemporary(w)
    <2>1. ArtifactsTypeOK'
        BY <1>0, <1>7, SyncPlaces DEF ArtifactsTypeOK, FlushTemporary, Places, Contents, Readable, WholeOnly, Entries
    <2>2. WholeOnly'
        BY <1>0, <1>7, SyncPlaces DEF ArtifactsTypeOK, WholeOnly, FlushTemporary, Entries
    <2>3. SeenFile'
        BY <1>0, <1>7, SyncPlaces DEF ArtifactsTypeOK, SeenFile, FlushTemporary, Readable, Entries
    <2>4. FaultedFirst'
        BY <1>0, <1>7, SyncPlaces DEF ArtifactsTypeOK, FaultedFirst, SeenFile, WholeOnly, FlushTemporary, Readable, Entries
    <2>5. SyncedBelow'
        BY <1>0, <1>7, SyncPlaces DEF ArtifactsTypeOK, SyncedBelow, FlushTemporary, Durable4, Entries
    <2>6. RecordedDurable'
        BY <1>0, <1>7, SyncPlaces DEF ArtifactsTypeOK, SyncedBelow, RecordedDurable, FlushTemporary, Durable4, Entries
    <2> QED BY <2>1, <2>2, <2>3, <2>4, <2>5, <2>6 DEF ArtifactsInv
<1>8. CASE RenameIt(w)
    <2>1. ArtifactsTypeOK'
        <3>0. \/ /\ writer[w] = "rename" /\ entries' = 4 /\ content' = temporary[w]
                 /\ synced' = synced /\ temporary' = [temporary EXCEPT ![w] = "none"]
              \/ /\ entries' = entries /\ content' = content
                 /\ synced' = synced /\ temporary' = temporary
            BY <1>8 DEF RenameIt
        <3>1. entries' \in 0..4 /\ synced' \subseteq 1..entries'
            <4>1. entries \in 0..4 /\ synced \subseteq 1..entries /\ entries' \in {entries, 4}
                BY <1>0, <3>0 DEF ArtifactsTypeOK
            <4>2. 1..entries \subseteq 1..entries'
                BY <4>1
            <4>3. synced' = synced
                BY <3>0
            <4> QED BY <4>1, <4>2, <4>3
        <3>5. content' \in Contents /\ (content' = "none" <=> entries' < 4)
            BY <1>0, <3>0 DEF ArtifactsTypeOK, WholeOnly, Contents
        <3>4. temporary' \in [Writer -> Contents]
            BY <1>0, <3>0 DEF ArtifactsTypeOK, Contents
        <3>2. writer' \in [Writer -> Places]
            BY <1>0, <1>8, SyncPlaces DEF ArtifactsTypeOK, RenameIt, FailsBefore, Places, Entries
        <3>3. faulted' \in 0..MaxFaults /\ stops' \in 0..MaxStops
            BY <1>0, <1>8 DEF ArtifactsTypeOK, RenameIt, FailsBefore
        <3> QED BY <1>0, <1>8, <3>1, <3>2, <3>3, <3>4, <3>5 DEF ArtifactsTypeOK, RenameIt, FailsBefore
    <2>2. WholeOnly'
        BY <1>0, <1>8, SyncPlaces DEF ArtifactsTypeOK, WholeOnly, RenameIt, FailsBefore, Entries
    <2>3. SeenFile'
        BY <1>0, <1>8, SyncPlaces DEF ArtifactsTypeOK, SeenFile, RenameIt, FailsBefore, Readable, Entries
    <2>4. FaultedFirst'
        BY <1>0, <1>8, SyncPlaces DEF ArtifactsTypeOK, FaultedFirst, SeenFile, WholeOnly, RenameIt, FailsBefore, Readable, Entries
    <2>5. SyncedBelow'
        BY <1>0, <1>8, SyncPlaces DEF ArtifactsTypeOK, SyncedBelow, RenameIt, FailsBefore, Durable4, Entries
    <2>6. RecordedDurable'
        BY <1>0, <1>8, SyncPlaces DEF ArtifactsTypeOK, SyncedBelow, RecordedDurable, RenameIt, FailsBefore, Durable4, Entries
    <2> QED BY <2>1, <2>2, <2>3, <2>4, <2>5, <2>6 DEF ArtifactsInv
<1>9. CASE DropStaging(w)
    <2>1. ArtifactsTypeOK'
        BY <1>0, <1>9, SyncPlaces DEF ArtifactsTypeOK, DropStaging, Places, Contents, Readable, WholeOnly, Entries
    <2>2. WholeOnly'
        BY <1>0, <1>9, SyncPlaces DEF ArtifactsTypeOK, WholeOnly, DropStaging, Entries
    <2>3. SeenFile'
        BY <1>0, <1>9, SyncPlaces DEF ArtifactsTypeOK, SeenFile, DropStaging, Readable, Entries
    <2>4. FaultedFirst'
        BY <1>0, <1>9, SyncPlaces DEF ArtifactsTypeOK, FaultedFirst, SeenFile, WholeOnly, DropStaging, Readable, Entries
    <2>5. SyncedBelow'
        BY <1>0, <1>9, SyncPlaces DEF ArtifactsTypeOK, SyncedBelow, DropStaging, Durable4, Entries
    <2>6. RecordedDurable'
        BY <1>0, <1>9, SyncPlaces DEF ArtifactsTypeOK, SyncedBelow, RecordedDurable, DropStaging, Durable4, Entries
    <2> QED BY <2>1, <2>2, <2>3, <2>4, <2>5, <2>6 DEF ArtifactsInv
<1>10. CASE RecordReference(w)
    <2>1. ArtifactsTypeOK'
        <3>0. \/ faulted' = faulted /\ stops' = stops
              \/ faulted < MaxFaults /\ faulted' = faulted + 1 /\ stops' = stops
            BY <1>10, Zenon DEF RecordReference
        <3>1. onRecord' \in BOOLEAN
            BY <1>0, <1>10 DEF ArtifactsTypeOK, RecordReference
        <3>2. writer' \in [Writer -> Places]
            BY <1>0, <1>10, SyncPlaces DEF ArtifactsTypeOK, RecordReference, Places, Entries
        <3>3. faulted' \in 0..MaxFaults /\ stops' \in 0..MaxStops
            BY <1>0, <3>0 DEF ArtifactsTypeOK
        <3> QED BY <1>0, <1>10, <3>1, <3>2, <3>3 DEF ArtifactsTypeOK, RecordReference
    <2>2. WholeOnly'
        BY <1>0, <1>10, SyncPlaces DEF ArtifactsTypeOK, WholeOnly, RecordReference, Entries
    <2>3. SeenFile'
        BY <1>0, <1>10, SyncPlaces DEF ArtifactsTypeOK, SeenFile, RecordReference, Readable, Entries
    <2>4. FaultedFirst'
        <3>0. \/ faulted' = faulted /\ stops' = stops
              \/ faulted < MaxFaults /\ faulted' = faulted + 1 /\ stops' = stops
            BY <1>10, Zenon DEF RecordReference
        <3>1. faulted' >= faulted
            BY <1>0, <3>0 DEF ArtifactsTypeOK
        <3>a. writer' = [writer EXCEPT ![w] = "idle"]
            BY <1>10 DEF RecordReference
        <3>2. \A v \in Writer : writer'[v] \in {"dropFailed", "refused"} => writer'[v] = writer[v]
            BY <1>0, <3>a DEF ArtifactsTypeOK
        <3>b. faulted \in Nat /\ faulted' \in Nat
            BY <1>0, <3>0 DEF ArtifactsTypeOK
        <3>c. FaultedFirst
            BY <1>0
        <3> QED BY <3>1, <3>2, <3>b, <3>c DEF FaultedFirst
    <2>5. SyncedBelow'
        BY <1>0, <1>10, SyncPlaces DEF ArtifactsTypeOK, SyncedBelow, RecordReference, Durable4, Entries
    <2>6. RecordedDurable'
        BY <1>0, <1>10, SyncPlaces DEF ArtifactsTypeOK, SyncedBelow, RecordedDurable, RecordReference, Durable4, Entries
    <2> QED BY <2>1, <2>2, <2>3, <2>4, <2>5, <2>6 DEF ArtifactsInv
<1>11. CASE RecordRefusal(w)
    <2>1. ArtifactsTypeOK'
        BY <1>0, <1>11, SyncPlaces DEF ArtifactsTypeOK, RecordRefusal, Places, Contents, Readable, WholeOnly, Entries
    <2>2. WholeOnly'
        BY <1>0, <1>11, SyncPlaces DEF ArtifactsTypeOK, WholeOnly, RecordRefusal, Entries
    <2>3. SeenFile'
        BY <1>0, <1>11, SyncPlaces DEF ArtifactsTypeOK, SeenFile, RecordRefusal, Readable, Entries
    <2>4. FaultedFirst'
        BY <1>0, <1>11, SyncPlaces DEF ArtifactsTypeOK, FaultedFirst, SeenFile, WholeOnly, RecordRefusal, Readable, Entries
    <2>5. SyncedBelow'
        BY <1>0, <1>11, SyncPlaces DEF ArtifactsTypeOK, SyncedBelow, RecordRefusal, Durable4, Entries
    <2>6. RecordedDurable'
        BY <1>0, <1>11, SyncPlaces DEF ArtifactsTypeOK, SyncedBelow, RecordedDurable, RecordRefusal, Durable4, Entries
    <2> QED BY <2>1, <2>2, <2>3, <2>4, <2>5, <2>6 DEF ArtifactsInv
<1>12. CASE \E k \in Entries : SyncDirectory(w, k)
    <2> SUFFICES ASSUME NEW k \in Entries, SyncDirectory(w, k) PROVE ArtifactsInv'
        BY <1>12
    <2>1. entries = File
        BY <1>0, SyncPlaces DEF SeenFile, SyncDirectory
    <2>2. ArtifactsTypeOK'
        <3>1. synced' \subseteq 1..entries'
            BY <1>0, <2>1 DEF ArtifactsTypeOK, SyncDirectory, Entries
        <3>2. writer' \in [Writer -> Places]
            BY <1>0, SyncPlaces DEF ArtifactsTypeOK, SyncDirectory, Places, Entries
        <3> QED BY <1>0, <3>1, <3>2 DEF ArtifactsTypeOK, SyncDirectory
    <2>3. WholeOnly'
        BY <1>0, SyncPlaces DEF ArtifactsTypeOK, WholeOnly, SyncDirectory, Entries
    <2>4. SeenFile'
        BY <1>0, <2>1 DEF SeenFile, SyncDirectory
    <2>5. FaultedFirst'
        BY <1>0, SyncPlaces DEF ArtifactsTypeOK, FaultedFirst, SyncDirectory, Entries
    <2>6. SyncedBelow'
        BY <1>0, SyncPlaces DEF ArtifactsTypeOK, SyncedBelow, SyncDirectory, Durable4, Entries
    <2>7. RecordedDurable'
        BY <1>0 DEF RecordedDurable, SyncDirectory, Durable4
    <2> QED BY <2>2, <2>3, <2>4, <2>5, <2>6, <2>7 DEF ArtifactsInv
<1> QED BY <1>1, <1>2, <1>3, <1>4, <1>5, <1>6, <1>7, <1>8, <1>9, <1>10, <1>11, <1>12 DEF WriterStep

LEMMA WriterDiesKeeps ==
    ASSUME ArtifactsInv, NEW w \in Writer, WriterDies(w)
    PROVE  ArtifactsInv'
<1>1. ArtifactsTypeOK'
    BY ArtifactsAssumption DEF ArtifactsInv, ArtifactsTypeOK, WriterDies, Goes, Keeps, Stops, tree, references, Places, Contents
<1>2. /\ WholeOnly' /\ SeenFile' /\ FaultedFirst' /\ RecordedDurable'
    BY DEF ArtifactsInv, ArtifactsTypeOK, WholeOnly, SeenFile, FaultedFirst, RecordedDurable,
           WriterDies, Goes, Keeps, Stops, tree, references, Durable4
<1>3. SyncedBelow'
    BY SyncPlaces DEF ArtifactsInv, ArtifactsTypeOK, SyncedBelow, WriterDies, Goes, Stops, tree, references, Durable4
<1> QED BY <1>1, <1>2, <1>3 DEF ArtifactsInv

LEMMA PowerKeeps ==
    ASSUME ArtifactsInv, PowerFails
    PROVE  ArtifactsInv'
<1>1. PICK left \in 0..entries :
        /\ \A n \in 1..entries : 1..n \subseteq synced => n <= left
        /\ entries' = left /\ synced' = 1..left
        /\ content' \in CASE left < File -> {"none"}
                          [] left = File /\ content = "unflushed" -> {"whole", "torn"}
                          [] OTHER -> {content}
    BY DEF PowerFails
<1>2. /\ writer' = [w \in Writer |-> "idle"] /\ temporary' = [w \in Writer |-> "none"]
      /\ UNCHANGED <<syncable, references>> /\ Stops
    BY DEF PowerFails
<1>3. entries \in 0..4 /\ content \in {"none", "whole"} /\ (content = "none" <=> entries < 4)
    BY DEF ArtifactsInv, ArtifactsTypeOK, WholeOnly, File
<1>4. content' \in {"none", "whole"} /\ (content' = "none" <=> entries' < 4)
    BY <1>1, <1>3 DEF File
<1>5. ArtifactsTypeOK'
    <2>1. entries' \in 0..File /\ synced' \subseteq 1..entries'
        BY <1>1, <1>3 DEF File
    <2>2. writer' \in [Writer -> Places] /\ temporary' \in [Writer -> Contents]
        BY <1>2 DEF Places, Contents
    <2>3. /\ syncable' \in BOOLEAN /\ onRecord' \in BOOLEAN /\ unsynced' \in BOOLEAN
          /\ faulted' \in 0..MaxFaults /\ stops' \in 0..MaxStops
        BY <1>2, ArtifactsAssumption DEF ArtifactsInv, ArtifactsTypeOK, Stops, references
    <2> QED BY <1>4, <2>1, <2>2, <2>3 DEF ArtifactsTypeOK, Contents, File
<1>6. WholeOnly' /\ SeenFile' /\ FaultedFirst'
    BY <1>2, <1>4 DEF WholeOnly, SeenFile, FaultedFirst
<1>7. SyncedBelow'
    BY <1>2, SyncPlaces DEF SyncedBelow
<1>8. RecordedDurable'
    <2>1. Durable4 => Durable4'
        <3> SUFFICES ASSUME 1..4 \subseteq synced PROVE 1..4 \subseteq synced'
            BY DEF Durable4, File
        <3>1. synced \subseteq 1..entries
            BY DEF ArtifactsInv, ArtifactsTypeOK
        <3>2. entries = 4
            BY <1>3, <3>1
        <3>3. left = 4
            BY <1>1, <3>2
        <3> QED BY <1>1, <3>3
    <2> QED BY <1>2, <2>1 DEF ArtifactsInv, RecordedDurable, references
<1> QED BY <1>5, <1>6, <1>7, <1>8 DEF ArtifactsInv

LEMMA Inductive == ArtifactsInv /\ [ArtifactsNext]_artifactVars => ArtifactsInv'
<1> SUFFICES ASSUME ArtifactsInv, [ArtifactsNext]_artifactVars PROVE ArtifactsInv'
    OBVIOUS
<1>1. CASE ArtifactsNext
    BY <1>1, StepKeeps, WriterDiesKeeps, PowerKeeps DEF ArtifactsNext
<1>2. CASE UNCHANGED artifactVars
    <2> USE <1>2 DEF artifactVars
    <2>1. (ArtifactsTypeOK /\ WholeOnly /\ SeenFile)'
        BY DEF ArtifactsInv, ArtifactsTypeOK, WholeOnly, SeenFile
    <2>2. (FaultedFirst /\ SyncedBelow /\ RecordedDurable)'
        BY DEF ArtifactsInv, FaultedFirst, SyncedBelow, RecordedDurable, Durable4
    <2> QED BY <2>1, <2>2 DEF ArtifactsInv
<1> QED BY <1>1, <1>2

(* Every behaviour keeps the invariant.                                    *)
THEOREM ArtifactsInvariant == ArtifactsSpec => []ArtifactsInv
<1> QED BY InvInit, Inductive, PTL DEF ArtifactsSpec

(* Type correctness: what fsyncs made durable exists, and the last entry   *)
(* of the path exists exactly when a file has the name (writeBytes).       *)
THEOREM ArtifactsTyped == ArtifactsSpec => []ArtifactsTypeOK
<1>1. ArtifactsInv => ArtifactsTypeOK
    BY DEF ArtifactsInv
<1> QED BY <1>1, ArtifactsInvariant, PTL

(* For any number of writers, faults, deaths and power losses, a reference *)
(* in run.json reads back, unless it was given for a file that another had *)
(* published and not made durable (writeBytes, finishUnit).                *)
THEOREM ReferencesRead == ArtifactsSpec => []ReferenceReads
<1>1. ArtifactsInv => ReferenceReads
    <2> SUFFICES ASSUME ArtifactsInv, onRecord, syncable, ~unsynced PROVE Readable
        BY DEF ReferenceReads
    <2>1. 1..4 \subseteq synced /\ synced \subseteq 1..entries /\ entries \in 0..4
        BY DEF ArtifactsInv, RecordedDurable, Durable4, ArtifactsTypeOK, File
    <2>2. entries = 4
        BY <2>1
    <2> QED BY <2>2 DEF ArtifactsInv, WholeOnly, Readable, File
<1> QED BY <1>1, ArtifactsInvariant, PTL

(* A result is refused only when a call failed: neither a death nor a      *)
(* power loss leaves at the path what refuses the content for good.        *)
THEOREM RefusalsHaveCause == ArtifactsSpec => []RefusedForFault
<1>1. ArtifactsInv => RefusedForFault
    BY DEF ArtifactsInv, FaultedFirst, RefusedForFault
<1> QED BY <1>1, ArtifactsInvariant, PTL

(* What the runs check of artifacts together.                              *)
THEOREM ArtifactsAreSafe == ArtifactsSpec => []ArtifactsSafe
BY ArtifactsTyped, ReferencesRead, RefusalsHaveCause, PTL DEF ArtifactsSafe

-----------------------------------------------------------------------------
(* One run across processes.                                               *)

Owning == {"start", "recheck", "announce", "commit", "working", "tellEnd",
           "release", "giveBack", "mark", "tellMark", "unclaim"}

(* RecoveryTypeOK in three parts: one for arithmetic and sets, two for     *)
(* Booleans.                                                               *)
Values ==
    /\ runStatus \in {"none"} \cup LeftRunning \cup Ended
    /\ holder \in Actor \cup {NoActor}
    /\ registered \subseteq Process
    /\ jobAt \in [Actor -> JobPlaces]
    /\ outcome \in [Actor -> Ended]
    /\ failures \in 0..MaxFailures /\ deaths \in 0..MaxDeaths
Flags == orphan \in BOOLEAN /\ kept \in BOOLEAN /\ task \in [Actor -> BOOLEAN]
OrphanAlone == orphan => holder = NoActor

Owned == \A a \in Actor : jobAt[a] \in Owning => holder = a

HasRun == \A p \in registered :
    /\ holder # NoActor /\ ProcessOf[holder] = p
    /\ jobAt[holder] \in {"working", "tellEnd"}

HeldFor == \A a \in Actor : holder = a => jobAt[a] \in Owning \/ kept

EndRecorded == \A a \in Actor : jobAt[a] = "tellEnd" => runStatus = outcome[a]

RecoveryInv ==
    /\ Values /\ Flags /\ OrphanAlone
    /\ Owned
    /\ HasRun
    /\ WorkIsRunning
    /\ EndRecorded
    /\ HeldFor

USE DEF JobPlaces, Ended, LeftRunning

LEMMA RecoveryInitial == RecoveryInit => RecoveryInv
<1> SUFFICES ASSUME RecoveryInit PROVE RecoveryInv
  OBVIOUS
<1>1. Values
  BY RecoveryAssumption DEF RecoveryInit, Values
<1>2. Flags
  BY RecoveryAssumption DEF RecoveryInit, Flags
<1>3. OrphanAlone
  BY RecoveryAssumption DEF RecoveryInit, OrphanAlone
<1>4. Owned
  BY RecoveryAssumption DEF RecoveryInit, Owned, Owning
<1>5. HasRun
  BY RecoveryAssumption DEF RecoveryInit, HasRun
<1>6. WorkIsRunning
  BY RecoveryAssumption DEF RecoveryInit, WorkIsRunning
<1>7. EndRecorded
  BY RecoveryAssumption DEF RecoveryInit, EndRecorded
<1>9. HeldFor
  BY RecoveryAssumption DEF RecoveryInit, HeldFor, Owning, Values
<1> QED
  BY <1>1, <1>2, <1>3, <1>4, <1>5, <1>6, <1>7, <1>9 DEF RecoveryInv

(* Every way through claimRun keeps the invariant.                         *)
LEMMA ClaimsKeep ==
  ASSUME NEW a \in Actor, NEW source \in {"claimNew", "claimOld", "reclaim"},
         NEW to \in {"start", "recheck", "mark"},
         RecoveryInv, Claims(a, source, to)
  PROVE  RecoveryInv'
<1> USE DEF Moves
<1>0. Values /\ Flags /\ OrphanAlone /\ Owned /\ HasRun /\ WorkIsRunning /\ EndRecorded /\ HeldFor
  BY DEF RecoveryInv
<1>1. CASE /\ holder = NoActor /\ holder' = a /\ orphan' = FALSE
           /\ Moves(a, source, to)
           /\ UNCHANGED <<runStatus, registered, task, outcome, kept, failures, deaths>>
  <2>1. Values'
    BY <1>0, <1>1, RecoveryAssumption DEF Values
  <2>2. Flags'
    BY <1>0, <1>1, RecoveryAssumption DEF Flags
  <2>3. OrphanAlone'
    BY <1>0, <1>1, RecoveryAssumption DEF OrphanAlone
  <2>4. Owned'
    BY <1>0, <1>1, RecoveryAssumption DEF Owned, Owning, Values
  <2>5. HasRun'
    BY <1>0, <1>1, RecoveryAssumption DEF HasRun, Owned, Owning, Values
  <2>6. WorkIsRunning'
    BY <1>0, <1>1, RecoveryAssumption DEF WorkIsRunning, Values
  <2>7. EndRecorded'
    BY <1>0, <1>1, RecoveryAssumption DEF EndRecorded, Values
  <2>9. HeldFor'
    BY <1>0, <1>1, RecoveryAssumption DEF HeldFor, Owning, Values
  <2> QED
    BY <2>1, <2>2, <2>3, <2>4, <2>5, <2>6, <2>7, <2>9 DEF RecoveryInv
<1>2. CASE /\ Moves(a, source, "idle") /\ Forget(a)
           /\ orphan' \in {orphan, FALSE}
           /\ UNCHANGED <<runStatus, holder, registered, kept, deaths>>
           /\ failures' \in 0..MaxFailures
  <2>1. Values'
    BY <1>0, <1>2, RecoveryAssumption DEF Forget, Values
  <2>2. Flags'
    BY <1>0, <1>2, RecoveryAssumption DEF Forget, Flags
  <2>3. OrphanAlone'
    BY <1>0, <1>2, RecoveryAssumption DEF Forget, OrphanAlone
  <2>4. Owned'
    BY <1>0, <1>2, RecoveryAssumption DEF Forget, Owned, Owning, Values
  <2>5. HasRun'
    BY <1>0, <1>2, RecoveryAssumption DEF Forget, HasRun, Owned, Owning, Values
  <2>6. WorkIsRunning'
    BY <1>0, <1>2, RecoveryAssumption DEF Forget, WorkIsRunning, Values
  <2>7. EndRecorded'
    BY <1>0, <1>2, RecoveryAssumption DEF Forget, EndRecorded, Values
  <2>9. HeldFor'
    BY <1>0, <1>2, RecoveryAssumption DEF Forget, HeldFor, Owning, Values
  <2> QED
    BY <2>1, <2>2, <2>3, <2>4, <2>5, <2>6, <2>7, <2>9 DEF RecoveryInv
<1>3. failures < MaxFailures /\ failures' = failures + 1 => failures' \in 0..MaxFailures
  BY <1>0, RecoveryAssumption DEF Values
<1>4. failures' = failures => failures' \in 0..MaxFailures
  BY <1>0 DEF Values
<1>5. CASE WinClaim(a) /\ Moves(a, source, to) /\ UNCHANGED <<runStatus, registered, task, outcome, kept, budget>>
  BY <1>1, <1>5 DEF WinClaim, budget
<1>6. CASE holder # NoActor /\ Moves(a, source, "idle") /\ Forget(a)
             /\ UNCHANGED <<runStatus, holder, orphan, registered, kept, budget>>
  BY <1>2, <1>4, <1>6 DEF budget
<1>7. CASE /\ Rejects /\ Moves(a, source, "idle") /\ Forget(a)
           /\ orphan' \in {orphan, FALSE}
           /\ UNCHANGED <<runStatus, holder, registered, kept>>
  BY <1>2, <1>3, <1>7 DEF Rejects
<1>8. QED
  BY <1>5, <1>6, <1>7 DEF Claims

LEMMA StartKeeps ==
  ASSUME NEW a \in Actor, RecoveryInv, CreateRun(a) \/ StartRun(a)
  PROVE  RecoveryInv'
  BY RecoveryAssumption DEF CreateRun, StartRun, Moves, Tells, Rejects, budget,
     RecoveryInv, Values, Flags, OrphanAlone, Owned, Owning, HasRun, WorkIsRunning, EndRecorded, HeldFor

LEMMA ResumeKeeps ==
  ASSUME NEW a \in Actor, RecoveryInv,
         (\E withTask \in BOOLEAN : Preflight(a, withTask))
            \/ RecheckRun(a) \/ Announce(a) \/ CommitResume(a)
  PROVE  RecoveryInv'
<1> USE DEF Moves, Forget, Tells, Rejects, budget,
            RecoveryInv, Values, Flags, OrphanAlone, Owned, Owning, HasRun, WorkIsRunning, EndRecorded, HeldFor
<1>1. ASSUME NEW withTask \in BOOLEAN, Preflight(a, withTask) PROVE RecoveryInv'
  BY <1>1, RecoveryAssumption DEF Preflight
<1>2. CASE RecheckRun(a)
  BY <1>2, RecoveryAssumption DEF RecheckRun
<1>3. CASE Announce(a)
  BY <1>3, RecoveryAssumption DEF Announce
<1>4. CASE CommitResume(a)
  <2>0. Values
    OBVIOUS
  <2>1. Values'
    <3> USE DEF Values
    <3>1. failures' \in 0..MaxFailures /\ deaths' \in 0..MaxDeaths
      BY <1>4, <2>0, RecoveryAssumption DEF CommitResume
    <3>2. /\ runStatus' \in {"none"} \cup LeftRunning \cup Ended
          /\ holder' \in Actor \cup {NoActor} /\ registered' \subseteq Process
      BY <1>4, <2>0, RecoveryAssumption DEF CommitResume
    <3>3. jobAt' \in [Actor -> JobPlaces] /\ outcome' \in [Actor -> Ended]
      BY <1>4, <2>0 DEF CommitResume
    <3>4. QED
      BY <3>1, <3>2, <3>3
  <2>2. Flags'
    BY <1>4, RecoveryAssumption DEF CommitResume
  <2>3. OrphanAlone'
    BY <1>4, RecoveryAssumption DEF CommitResume
  <2>4. Owned'
    BY <1>4, RecoveryAssumption DEF CommitResume
  <2>5. HasRun'
    BY <1>4, RecoveryAssumption DEF CommitResume
  <2>6. WorkIsRunning'
    BY <1>4, RecoveryAssumption DEF CommitResume
  <2>7. EndRecorded'
    BY <1>4, RecoveryAssumption DEF CommitResume
  <2>9. HeldFor'
    BY <1>4, RecoveryAssumption DEF CommitResume
  <2>8. QED
    BY <2>1, <2>2, <2>3, <2>4, <2>5, <2>6, <2>7, <2>9 DEF RecoveryInv
<1>5. QED
  BY <1>1, <1>2, <1>3, <1>4

LEMMA EndKeeps ==
  ASSUME NEW a \in Actor, RecoveryInv,
         (\E status \in Ended : EndRun(a, status) \/ EndRunFails(a, status))
            \/ TellEnd(a) \/ ReleaseRun(a) \/ GiveBack(a)
  PROVE  RecoveryInv'
<1> USE DEF Moves, Forget, Tells, Rejects, EndsClaim, budget,
            RecoveryInv, Values, Flags, OrphanAlone, Owned, Owning, HasRun, WorkIsRunning, EndRecorded, HeldFor
<1>1. ASSUME NEW status \in Ended, EndRun(a, status) PROVE RecoveryInv'
  BY <1>1, RecoveryAssumption DEF EndRun
<1>2. ASSUME NEW status \in Ended, EndRunFails(a, status) PROVE RecoveryInv'
  BY <1>2, RecoveryAssumption DEF EndRunFails
<1>3. CASE TellEnd(a)
  BY <1>3, RecoveryAssumption DEF TellEnd
<1>4. CASE ReleaseRun(a)
  BY <1>4, RecoveryAssumption DEF ReleaseRun
<1>5. CASE GiveBack(a)
  <2>1. Values'
    BY <1>5, RecoveryAssumption DEF GiveBack
  <2>2. Flags'
    BY <1>5, RecoveryAssumption DEF GiveBack
  <2>3. OrphanAlone'
    BY <1>5, RecoveryAssumption DEF GiveBack
  <2>4. Owned'
    BY <1>5, RecoveryAssumption DEF GiveBack
  <2>5. HasRun'
    BY <1>5, RecoveryAssumption DEF GiveBack
  <2>6. WorkIsRunning'
    BY <1>5, RecoveryAssumption DEF GiveBack
  <2>7. EndRecorded'
    BY <1>5, RecoveryAssumption DEF GiveBack
  <2>9. HeldFor'
    BY <1>5, RecoveryAssumption DEF GiveBack
  <2>8. QED
    BY <2>1, <2>2, <2>3, <2>4, <2>5, <2>6, <2>7, <2>9 DEF RecoveryInv
<1>6. QED
  BY <1>1, <1>2, <1>3, <1>4, <1>5

(* A session start writes the status only as the holder of the run.        *)
LEMMA MarkKeeps ==
  ASSUME NEW a \in Actor, RecoveryInv,
         ListRun(a) \/ InspectClaims(a) \/ MarkRun(a) \/ TellMark(a) \/ Unclaim(a)
  PROVE  RecoveryInv'
<1> USE DEF Moves, Forget, Tells, Rejects, EndsClaim, OwnerDied, budget,
            RecoveryInv, Values, Flags, OrphanAlone, Owned, Owning, HasRun, WorkIsRunning, EndRecorded, HeldFor
<1>1. CASE ListRun(a)
  BY <1>1, RecoveryAssumption DEF ListRun
<1>2. CASE InspectClaims(a)
  BY <1>2, RecoveryAssumption DEF InspectClaims
<1>3. CASE MarkRun(a)
  BY <1>3, RecoveryAssumption DEF MarkRun
<1>4. CASE TellMark(a)
  BY <1>4, RecoveryAssumption DEF TellMark
<1>5. CASE Unclaim(a)
  <2>1. Values'
    BY <1>5, RecoveryAssumption DEF Unclaim
  <2>2. Flags'
    BY <1>5, RecoveryAssumption DEF Unclaim
  <2>3. OrphanAlone'
    BY <1>5, RecoveryAssumption DEF Unclaim
  <2>4. Owned'
    BY <1>5, RecoveryAssumption DEF Unclaim
  <2>5. HasRun'
    BY <1>5, RecoveryAssumption DEF Unclaim
  <2>6. WorkIsRunning'
    BY <1>5, RecoveryAssumption DEF Unclaim
  <2>7. EndRecorded'
    BY <1>5, RecoveryAssumption DEF Unclaim
  <2>9. HeldFor'
    BY <1>5, RecoveryAssumption DEF Unclaim
  <2>8. QED
    BY <2>1, <2>2, <2>3, <2>4, <2>5, <2>6, <2>7, <2>9 DEF RecoveryInv
<1>6. QED
  BY <1>1, <1>2, <1>3, <1>4, <1>5

LEMMA DeathKeeps ==
  ASSUME NEW p \in Process, RecoveryInv, ProcessDies(p)
  PROVE  RecoveryInv'
<1> USE DEF RecoveryInv, Values, Flags, OrphanAlone, Owned, Owning, HasRun, WorkIsRunning, EndRecorded, HeldFor
<1>1. Values'
  BY RecoveryAssumption DEF ProcessDies, Died
<1>2. Flags'
  BY RecoveryAssumption DEF ProcessDies, Died
<1>3. OrphanAlone'
  BY RecoveryAssumption DEF ProcessDies, Died
<1>4. Owned'
  BY RecoveryAssumption DEF ProcessDies, Died
<1>5. HasRun'
  BY RecoveryAssumption DEF ProcessDies, Died
<1>6. WorkIsRunning'
  BY RecoveryAssumption DEF ProcessDies, Died
<1>7. EndRecorded'
  BY RecoveryAssumption DEF ProcessDies, Died
<1>9. HeldFor'
  BY RecoveryAssumption DEF ProcessDies, Died
<1>8. QED
  BY <1>1, <1>2, <1>3, <1>4, <1>5, <1>6, <1>7, <1>9 DEF RecoveryInv

LEMMA RecoveryStep == RecoveryInv /\ [RecoveryNext]_recoveryVars => RecoveryInv'
<1> SUFFICES ASSUME RecoveryInv, [RecoveryNext]_recoveryVars PROVE RecoveryInv'
  OBVIOUS
<1>1. ASSUME NEW a \in Actor, JobStep(a) PROVE RecoveryInv'
  <2>1. ClaimNew(a) \/ ClaimOld(a) \/ Reclaim(a) => RecoveryInv'
    BY ClaimsKeep DEF ClaimNew, ClaimOld, Reclaim
  <2>2. QED
    BY <1>1, <2>1, StartKeeps, ResumeKeeps, EndKeeps, MarkKeeps DEF JobStep
<1>2. CASE UNCHANGED recoveryVars
  BY <1>2 DEF recoveryVars, RecoveryInv, Values, Flags, OrphanAlone, Owned, HasRun, WorkIsRunning, EndRecorded, HeldFor
<1>3. QED
  BY <1>1, <1>2, StartKeeps, ResumeKeeps, EndKeeps, MarkKeeps, DeathKeeps DEF RecoveryNext

LEMMA RecoveryHolds == RecoverySpec => []RecoveryInv
  BY RecoveryInitial, RecoveryStep, PTL DEF RecoverySpec

----------------------------------------------------------------------------
(* The types: above all, a claim left by a dead process and one of a live  *)
(* process are never open together once a scan has ended the first.        *)
THEOREM RecoveryTyped == RecoverySpec => []RecoveryTypeOK
<1>1. RecoveryInv => RecoveryTypeOK
  BY DEF RecoveryInv, Values, Flags, OrphanAlone, RecoveryTypeOK
<1>2. QED
  BY <1>1, RecoveryHolds, PTL

(* No session start, and no resumption, writes the status of a run that a  *)
(* live call works on.                                                     *)
THEOREM NeverMarkedAtWork == RecoverySpec => []WorkIsRunning
<1>1. RecoveryInv => WorkIsRunning
  BY DEF RecoveryInv
<1>2. QED
  BY <1>1, RecoveryHolds, PTL

(* A registered run is claimed by the process that has it registered.      *)
THEOREM RegisteredIsClaimed == RecoverySpec => []RegisteredHasClaim
<1>1. RecoveryInv => RegisteredHasClaim
  BY DEF RecoveryInv, HasRun, RegisteredHasClaim
<1>2. QED
  BY <1>1, RecoveryHolds, PTL

(* The claim of a live process that is done with the run is open only when *)
(* its release failed.                                                     *)
THEOREM NoClaimLeft == RecoverySpec => []ClaimNotLeft
<1>1. RecoveryInv => ClaimNotLeft
  BY DEF RecoveryInv, HeldFor, Owning, ClaimNotLeft
<1>2. QED
  BY <1>1, RecoveryHolds, PTL

(* An end is told only when it is on record.                               *)
THEOREM ToldIsRecorded == RecoverySpec => EndToldAfterRecord
<1>1. RecoveryInv /\ [RecoveryNext]_recoveryVars
        => [\A a \in Actor : TellEnd(a) => runStatus = outcome[a]]_recoveryVars
  BY DEF RecoveryInv, EndRecorded, TellEnd, Tells, Moves
<1>2. QED
  BY <1>1, RecoveryHolds, PTL DEF RecoverySpec, EndToldAfterRecord

(* A resumption that has looked at the record under its claim may go on    *)
(* for as long as it has the claim.                                        *)
Reopening ==
    \A a \in Actor : jobAt[a] \in {"announce", "commit"} /\ runStatus = "completed" => task[a]

LEMMA ReopeningStep ==
    RecoveryInv /\ Reopening /\ [RecoveryNext]_recoveryVars => Reopening'
<1> SUFFICES ASSUME RecoveryInv, Reopening, [RecoveryNext]_recoveryVars,
                    NEW b \in Actor, jobAt'[b] \in {"announce", "commit"},
                    runStatus' = "completed"
             PROVE  task'[b]
  BY DEF Reopening
<1>0. Owned /\ jobAt \in [Actor -> JobPlaces]
  BY DEF RecoveryInv, Values
<1>1. ASSUME NEW a \in Actor, a # b,
             task' = task \/ task' = [task EXCEPT ![a] = task'[a]],
             jobAt' = [jobAt EXCEPT ![a] = jobAt'[a]],
             runStatus # "completed" => jobAt[a] = "working"
      PROVE  task'[b]
  <2>1. jobAt[b] \in {"announce", "commit"} /\ task'[b] = task[b]
    BY <1>0, <1>1 DEF RecoveryInv, Flags
  <2>2. runStatus = "completed"
    BY <1>0, <1>1, <2>1 DEF Owned, Owning
  <2> QED BY <2>1, <2>2 DEF Reopening
<1>2. ASSUME NEW a \in Actor, NEW withTask \in BOOLEAN, Preflight(a, withTask) PROVE task'[b]
  BY <1>0, <1>1, <1>2 DEF Preflight, Moves, RecoveryInv, Flags
<1>3. ASSUME NEW a \in Actor, NEW status \in Ended, EndRun(a, status) \/ EndRunFails(a, status)
      PROVE task'[b]
  BY <1>0, <1>1, <1>3 DEF EndRun, EndRunFails, Moves
<1>4. ASSUME NEW a \in Actor, a = b, RecheckRun(a) \/ Announce(a) PROVE task'[b]
  BY <1>0, <1>4 DEF RecheckRun, Resumable, Announce, Tells, Moves, Reopening
<1>5. ASSUME NEW a \in Actor, CreateRun(a) \/ ListRun(a) PROVE task'[b]
  BY <1>0, <1>1, <1>5 DEF CreateRun, ListRun, Tells, Moves
<1>6. ASSUME NEW a \in Actor, CommitResume(a) \/ ReleaseRun(a) \/ GiveBack(a) PROVE task'[b]
  BY <1>0, <1>1, <1>6 DEF CommitResume, ReleaseRun, GiveBack, Moves, Forget, RecoveryInv, Flags
<1>7. ASSUME NEW a \in Actor, NEW source \in {"claimNew", "claimOld", "reclaim"},
             NEW to \in {"start", "recheck", "mark"}, Claims(a, source, to)
      PROVE  task'[b]
  BY <1>0, <1>1, <1>7 DEF Claims, WinClaim, Moves, Forget, RecoveryInv, Flags
<1>8. ASSUME NEW p \in Process, ProcessDies(p) PROVE task'[b]
  BY <1>0, <1>8 DEF ProcessDies, Died, Reopening
<1>9. CASE UNCHANGED recoveryVars
  BY <1>9 DEF recoveryVars, Reopening
<1>10. ASSUME NEW a \in Actor, JobStep(a) PROVE task'[b]
  <2>1. CASE ClaimNew(a)
    BY <2>1, <1>7 DEF ClaimNew
  <2>2. CASE ClaimOld(a)
    BY <2>2, <1>7 DEF ClaimOld
  <2>3. CASE Reclaim(a)
    BY <2>3, <1>7 DEF Reclaim
  <2>4. CASE (RecheckRun(a) \/ Announce(a)) /\ a = b
    BY <2>4, <1>4
  <2>5. CASE CommitResume(a) \/ ReleaseRun(a) \/ GiveBack(a)
    BY <2>5, <1>6
  <2>6. CASE StartRun(a)
    BY <1>0, <1>1, <2>6 DEF StartRun, Moves
  <2>7. CASE RecheckRun(a) /\ a # b
    BY <1>0, <1>1, <2>7 DEF RecheckRun, Moves
  <2>8. CASE Announce(a) /\ a # b
    BY <1>0, <1>1, <2>8 DEF Announce, Tells, Moves
  <2>9. CASE TellEnd(a)
    BY <1>0, <1>1, <2>9 DEF TellEnd, Tells, Moves
  <2>10. CASE InspectClaims(a) \/ MarkRun(a) \/ TellMark(a) \/ Unclaim(a)
    BY <1>0, <1>1, <2>10 DEF InspectClaims, MarkRun, TellMark, Unclaim, Tells, Moves
  <2> QED BY <1>10, <2>1, <2>2, <2>3, <2>4, <2>5, <2>6, <2>7, <2>8, <2>9, <2>10 DEF JobStep
<1> QED BY <1>2, <1>3, <1>5, <1>10, <1>8, <1>9 DEF RecoveryNext

(* A completed run is resumed only with a task of its own, whatever        *)
(* happened since the resumption looked at it first.                       *)
THEOREM ReopenedOnlyForTask == RecoverySpec => ReopenedForTask
<1>1. RecoveryInit => Reopening
  BY RecoveryAssumption DEF RecoveryInit, Reopening
<1>2. RecoverySpec => []Reopening
  BY <1>1, RecoveryHolds, ReopeningStep, PTL DEF RecoverySpec
<1>3. Reopening /\ [RecoveryNext]_recoveryVars
        => [\A a \in Actor : CommitResume(a) /\ runStatus = "completed" => task[a]]_recoveryVars
  BY DEF Reopening, CommitResume, Moves
<1> QED BY <1>2, <1>3, PTL DEF RecoverySpec, ReopenedForTask

(* What the runs check of a run's life together.                           *)
THEOREM RecoveryIsSafe == RecoverySpec => []RecoverySafe
BY RecoveryTyped, NeverMarkedAtWork, RegisteredIsClaimed, NoClaimLeft, PTL DEF RecoverySafe

-----------------------------------------------------------------------------
(* run.json, the rollback copy and the marker.                             *)

Journaled == Ordered = TRUE /\ "unlink" \notin Faults
AllJournaled == \A h \in Hosts : h.ordered = TRUE /\ "unlink" \notin h.faults

Prepared == /\ dir.marker = [phase |-> "prepared", old |-> old, new |-> new]
            /\ dir.rollback = old
Committed == dir.marker.phase = "committed" /\ dir.run = dir.marker.new
Clean == dir.marker = NoMarker /\ dir.rollback = None
OnlyCopy == dir.marker = NoMarker /\ dir.rollback = dir.run
AllDisk(S) == \A d \in disk : Authority(d) \in S

(* Who works at each step.                                                 *)
Callers ==
    /\ pc \in Writing => from = "write"
    /\ pc \in {"recover", "orphan", "orphanSync"} => from \in {"first", "second"}
    /\ pc \in {"undo", "undoSync"} \cup Forgetting => from \in {"first", "second", "write"}

(* What a recovery found and did.                                          *)
Recovering ==
    /\ pc = "recover" /\ from = "second" => dir.rollback = None /\ dir.marker.phase # "prepared"
    /\ pc = "orphan" => OnlyCopy
    /\ pc = "orphanSync" => Clean
    /\ pc \in {"undo", "undoSync"} =>
          dir.marker.phase = "prepared" /\ dir.rollback = dir.marker.old
    /\ pc \in {"undo", "undoSync"} /\ from = "write" => dir.rollback = old
    /\ pc \in {"undoSync", "dropMarker"} => dir.run = dir.rollback
    /\ pc = "dropMarker" => Consistent
    /\ pc \in {"dropMarkerSync", "dropRollback"} => OnlyCopy
    /\ pc = "dropRollbackSync" => Clean
    /\ pc \in Undoing \ {"undo", "undoSync"} /\ from = "write" => dir.run = old
    /\ pc \in {"forgetRollback", "forgetRollbackSync", "forgetMarker"} => Committed
    /\ pc = "forgetRollback" /\ from = "second" => dir.rollback = None
    /\ pc = "forgetRollbackSync" => from # "second"
    /\ pc \in {"forgetRollbackSync", "forgetMarker"} => dir.rollback = None
    /\ pc = "forgetMarkerSync" => Clean
    /\ pc \in Forgetting /\ from = "write" => dir.run = new /\ AllDisk({new})

(* What a write did.                                                       *)
Writings ==
    /\ pc \in {"backup", "plain"} => Clean /\ dir.run = old
    /\ pc \in {"backupSync", "prepare"} => OnlyCopy /\ dir.run = old
    /\ pc \in {"backup", "plain", "backupSync", "prepare"} => AllDisk(allowed)
    /\ pc \in {"prepareSync", "publish", "publishSync", "commit", "reprepareSync", "restore"}
          => Prepared
    /\ pc \in {"publishSync", "commit", "commitSync", "reprepare"} => dir.run = new
    /\ pc \in {"commitSync", "reprepare"} =>
          dir.marker = [phase |-> "committed", old |-> old, new |-> new] /\ dir.rollback = old
    /\ pc = "plainSync" => Clean /\ dir.run = new
    /\ pc \in Writing => old \in allowed

IInv == TypeOK /\ AlwaysDurable /\ Callers /\ Recovering /\ Writings

------------------------------------------------------------------------------
(* On a journaled file system each change adds one directory to the disk.  *)
LEMMA Fields ==
    ASSUME TypeOK
    PROVE  /\ dir.run \in Version /\ dir.rollback \in Version \cup {None} /\ dir.marker \in Marker
           /\ None \notin Version /\ NoMarker \in Marker /\ NoMarker.phase = "none"
BY StrictAssumption DEF TypeOK, Dir, Version, None, Marker, NoMarker

LEMMA ChangeRun ==
    ASSUME Journaled, TypeOK, NEW v \in Version, SetRun(v)
    PROVE  /\ dir'.run = v /\ dir'.rollback = dir.rollback /\ dir'.marker = dir.marker
           /\ dir' \in Dir /\ disk' = disk \cup {dir'} /\ disk' \subseteq Dir
BY DEF Journaled, SetRun, OnDisk, TypeOK, Dir

LEMMA ChangeRollback ==
    ASSUME Journaled, TypeOK, NEW v \in Version \cup {None}, SetRollback(v)
    PROVE  /\ dir'.rollback = v /\ dir'.run = dir.run /\ dir'.marker = dir.marker
           /\ dir' \in Dir /\ disk' = disk \cup {dir'} /\ disk' \subseteq Dir
BY DEF Journaled, SetRollback, OnDisk, TypeOK, Dir

LEMMA ChangeMarker ==
    ASSUME Journaled, TypeOK, NEW m \in Marker, SetMarker(m)
    PROVE  /\ dir'.marker = m /\ dir'.run = dir.run /\ dir'.rollback = dir.rollback
           /\ dir' \in Dir /\ disk' = disk \cup {dir'} /\ disk' \subseteq Dir
BY DEF Journaled, SetMarker, OnDisk, TypeOK, Dir

LEMMA IInvInit == Init => IInv
<1> SUFFICES ASSUME Init PROVE IInv
    OBVIOUS
<1> USE StrictAssumption DEF Init, FirstDir, NoMarker
<1>1. 0 \in Version /\ None \notin Version
    BY DEF Version, None
<1>2. TypeOK
    <2>1. FirstDir \in Dir
        BY <1>1 DEF Dir, Marker
    <2>2. crashes \in 0..MaxCrashes /\ pc \in PcValues
        BY DEF PcValues
    <2> QED
        BY <1>1, <2>1, <2>2 DEF TypeOK
<1>3. AlwaysDurable /\ Callers /\ Recovering /\ Writings
    BY <1>1 DEF AlwaysDurable, Authority, Expected, Callers, Recovering, Writings, Writing, Undoing,
       Forgetting
<1> QED
    BY <1>2, <1>3 DEF IInv

LEMMA JournalRecoveryStep ==
    ASSUME Journaled, IInv, Recovery, UNCHANGED <<readers, crashes, host>>
    PROVE  IInv'
<1> USE DEF Journaled, IInv, TypeOK, AlwaysDurable, Callers, Recovering, Writings
<1> USE DEF Expected, Authority, AllDisk, OnlyCopy, Clean, Prepared, Committed
<1> USE DEF Consistent, Orphan, Writing, Undoing, Forgetting
<1> USE DEF GoTo, Answer, Unchanged, Unknown, Done, Restored, call, readers, Same, Sync
<1>1. CASE Recover
    <2>1. TypeOK'
        BY <1>1, Fields DEF Recover, Recovered, PcValues
    <2>2. AlwaysDurable'
        BY <1>1, Fields DEF Recover, Recovered
    <2>3. Callers' /\ Recovering' /\ Writings'
        BY <1>1, Fields DEF Recover, Recovered
    <2> QED
        BY <2>1, <2>2, <2>3
<1>2. CASE DropOrphan
    <2>0. ASSUME SetRollback(None)
          PROVE  /\ dir'.rollback = None /\ dir'.run = dir.run /\ dir'.marker = dir.marker
                 /\ dir' \in Dir /\ disk' = disk \cup {dir'} /\ disk' \subseteq Dir
        BY <2>0, Fields, ChangeRollback DEF Marker
    <2>1. TypeOK'
        BY <1>2, Fields, <2>0 DEF DropOrphan, Recovered, PcValues
    <2>2. AlwaysDurable'
        BY <1>2, Fields, <2>0 DEF DropOrphan, Recovered
    <2>3. Callers' /\ Recovering' /\ Writings'
        BY <1>2, Fields, <2>0 DEF DropOrphan, Recovered
    <2> QED
        BY <2>1, <2>2, <2>3
<1>3. CASE SyncOrphan
    <2>1. TypeOK'
        BY <1>3, Fields DEF SyncOrphan, Recovered, PcValues
    <2>2. AlwaysDurable'
        BY <1>3, Fields DEF SyncOrphan, Recovered
    <2>3. Callers' /\ Recovering' /\ Writings'
        BY <1>3, Fields DEF SyncOrphan, Recovered
    <2> QED
        BY <2>1, <2>2, <2>3
<1> QED
    BY <1>1, <1>2, <1>3 DEF Recovery

LEMMA UndoesStep ==
    ASSUME Journaled, IInv, Undoes, UNCHANGED <<readers, crashes, host>>
    PROVE  IInv'
<1> USE DEF Journaled, IInv, TypeOK, AlwaysDurable, Callers, Recovering, Writings
<1> USE DEF Expected, Authority, AllDisk, OnlyCopy, Clean, Prepared, Committed
<1> USE DEF Consistent, Orphan, Writing, Undoing, Forgetting
<1> USE DEF GoTo, Answer, Unchanged, Unknown, Done, Restored, call, readers, Same, Sync
<1>1. CASE Restore
    <2>1. TypeOK'
        BY <1>1, Fields DEF Restore, FailWith, Recovered, PcValues
    <2>2. AlwaysDurable'
        BY <1>1, Fields DEF Restore, FailWith, Recovered
    <2>3. Callers' /\ Recovering' /\ Writings'
        BY <1>1, Fields DEF Restore, FailWith, Recovered
    <2> QED
        BY <2>1, <2>2, <2>3
<1>2. CASE Undo
    <2>9. dir.rollback \in Version
        BY <1>2, Fields DEF Undo, Marker
    <2>0. ASSUME dir.rollback \in Version, SetRun(dir.rollback)
          PROVE  /\ dir'.run = dir.rollback /\ dir'.rollback = dir.rollback /\ dir'.marker = dir.marker
                 /\ dir' \in Dir /\ disk' = disk \cup {dir'} /\ disk' \subseteq Dir
        BY <2>0, Fields, ChangeRun DEF Marker
    <2>1. TypeOK'
        <3> HIDE DEF AlwaysDurable, Expected, Authority, Writings, Recovering
        <3> QED
            BY <1>2, Fields, <2>0, <2>9 DEF Undo, FailWith, Recovered, PcValues
    <2>2. AlwaysDurable'
        BY <1>2, Fields, <2>0, <2>9 DEF Undo, FailWith, Recovered
    <2>3. Callers' /\ Recovering' /\ Writings'
        BY <1>2, Fields, <2>0, <2>9 DEF Undo, FailWith, Recovered
    <2> QED
        BY <2>1, <2>2, <2>3
<1>3. CASE SyncUndo
    <2>1. TypeOK'
        <3> HIDE DEF AlwaysDurable, Expected, Authority, Writings, Recovering
        <3> QED
            BY <1>3, Fields DEF SyncUndo, FailWith, Recovered, PcValues
    <2>2. AlwaysDurable'
        BY <1>3, Fields DEF SyncUndo, FailWith, Recovered
    <2>3. Callers' /\ Recovering' /\ Writings'
        BY <1>3, Fields DEF SyncUndo, FailWith, Recovered
    <2> QED
        BY <2>1, <2>2, <2>3
<1>4. CASE DropMarker
    <2>0. ASSUME SetMarker(NoMarker)
          PROVE  /\ dir'.marker = NoMarker
                 /\ dir'.run = dir.run /\ dir'.rollback = dir.rollback
                 /\ dir' \in Dir /\ disk' = disk \cup {dir'} /\ disk' \subseteq Dir
        BY <2>0, Fields, ChangeMarker DEF Marker
    <2>1. TypeOK'
        BY <1>4, Fields, <2>0 DEF DropMarker, FailWith, Recovered, PcValues
    <2>2. AlwaysDurable'
        BY <1>4, Fields, <2>0 DEF DropMarker, FailWith, Recovered
    <2>3. Callers' /\ Recovering' /\ Writings'
        BY <1>4, Fields, <2>0 DEF DropMarker, FailWith, Recovered
    <2> QED
        BY <2>1, <2>2, <2>3
<1>5. CASE SyncDropMarker
    <2>1. TypeOK'
        <3> HIDE DEF AlwaysDurable, Expected, Authority, Writings, Recovering
        <3> QED
            BY <1>5, Fields DEF SyncDropMarker, FailWith, Recovered, PcValues
    <2>2. AlwaysDurable'
        BY <1>5, Fields DEF SyncDropMarker, FailWith, Recovered
    <2>3. Callers' /\ Recovering' /\ Writings'
        BY <1>5, Fields DEF SyncDropMarker, FailWith, Recovered
    <2> QED
        BY <2>1, <2>2, <2>3
<1>6. CASE DropRollback
    <2>0. ASSUME SetRollback(None)
          PROVE  /\ dir'.rollback = None /\ dir'.run = dir.run /\ dir'.marker = dir.marker
                 /\ dir' \in Dir /\ disk' = disk \cup {dir'} /\ disk' \subseteq Dir
        BY <2>0, Fields, ChangeRollback DEF Marker
    <2>1. TypeOK'
        BY <1>6, Fields, <2>0 DEF DropRollback, FailWith, Recovered, PcValues
    <2>2. AlwaysDurable'
        BY <1>6, Fields, <2>0 DEF DropRollback, FailWith, Recovered
    <2>3. Callers' /\ Recovering' /\ Writings'
        BY <1>6, Fields, <2>0 DEF DropRollback, FailWith, Recovered
    <2> QED
        BY <2>1, <2>2, <2>3
<1>7. CASE SyncDropRollback
    <2>1. TypeOK'
        <3>1. Sync \/ Same
            BY <1>7 DEF SyncDropRollback
        <3>2. dir' \in Dir /\ disk' \subseteq Dir /\ dir' \in disk' /\ host' \in Hosts
            BY <3>1
        <3> HIDE DEF AlwaysDurable, Expected, Authority, Writings, Recovering
        <3>3. /\ pc' \in PcValues /\ from' \in {"first", "second", "write", "orphan"}
              /\ old' \in Version /\ lock' \in BOOLEAN /\ allowed' \subseteq Version
              /\ UNCHANGED <<kind, new>>
            BY <1>7, Fields DEF SyncDropRollback, FailWith, Recovered, PcValues
        <3> QED
            BY <3>2, <3>3
    <2>2. AlwaysDurable'
        BY <1>7, Fields DEF SyncDropRollback, FailWith, Recovered
    <2>3. Callers' /\ Recovering' /\ Writings'
        BY <1>7, Fields DEF SyncDropRollback, FailWith, Recovered
    <2> QED
        BY <2>1, <2>2, <2>3
<1> QED
    BY <1>1, <1>2, <1>3, <1>4, <1>5, <1>6, <1>7 DEF Undoes

LEMMA ForgetsStep ==
    ASSUME Journaled, IInv, Forgets, UNCHANGED <<readers, crashes, host>>
    PROVE  IInv'
<1> USE DEF Journaled, IInv, TypeOK, AlwaysDurable, Callers, Recovering, Writings
<1> USE DEF Expected, Authority, AllDisk, OnlyCopy, Clean, Prepared, Committed
<1> USE DEF Consistent, Orphan, Writing, Undoing, Forgetting
<1> USE DEF GoTo, Answer, Unchanged, Unknown, Done, Restored, call, readers, Same, Sync
<1>1. CASE ForgetRollback
    <2>0. ASSUME SetRollback(None)
          PROVE  /\ dir'.rollback = None /\ dir'.run = dir.run /\ dir'.marker = dir.marker
                 /\ dir' \in Dir /\ disk' = disk \cup {dir'} /\ disk' \subseteq Dir
        BY <2>0, Fields, ChangeRollback DEF Marker
    <2>1. TypeOK'
        BY <1>1, Fields, <2>0 DEF ForgetRollback, FailWith, Recovered, Forgotten,
           Tolerate, StillCommitted, PcValues
    <2>2. AlwaysDurable'
        BY <1>1, Fields, <2>0 DEF ForgetRollback, FailWith, Recovered, Forgotten,
           Tolerate, StillCommitted
    <2>3. Callers' /\ Recovering' /\ Writings'
        BY <1>1, Fields, <2>0 DEF ForgetRollback, FailWith, Recovered, Forgotten,
           Tolerate, StillCommitted
    <2> QED
        BY <2>1, <2>2, <2>3
<1>2. CASE SyncForgetRollback
    <2>1. TypeOK'
        <3> HIDE DEF AlwaysDurable, Expected, Authority, Writings, Recovering
        <3> QED
            BY <1>2, Fields DEF SyncForgetRollback, FailWith, Recovered,
               Forgotten, Tolerate, StillCommitted, PcValues
    <2>2. AlwaysDurable'
        BY <1>2, Fields DEF SyncForgetRollback, FailWith, Recovered, Forgotten,
           Tolerate, StillCommitted
    <2>3. Callers' /\ Recovering' /\ Writings'
        BY <1>2, Fields DEF SyncForgetRollback, FailWith, Recovered, Forgotten,
           Tolerate, StillCommitted
    <2> QED
        BY <2>1, <2>2, <2>3
<1>3. CASE ForgetMarker
    <2>0. ASSUME SetMarker(NoMarker)
          PROVE  /\ dir'.marker = NoMarker
                 /\ dir'.run = dir.run /\ dir'.rollback = dir.rollback
                 /\ dir' \in Dir /\ disk' = disk \cup {dir'} /\ disk' \subseteq Dir
        BY <2>0, Fields, ChangeMarker DEF Marker
    <2>1. TypeOK'
        BY <1>3, Fields, <2>0 DEF ForgetMarker, FailWith, Recovered, Forgotten,
           Tolerate, StillCommitted, PcValues
    <2>2. AlwaysDurable'
        BY <1>3, Fields, <2>0 DEF ForgetMarker, FailWith, Recovered, Forgotten,
           Tolerate, StillCommitted
    <2>3. Callers' /\ Recovering' /\ Writings'
        BY <1>3, Fields, <2>0 DEF ForgetMarker, FailWith, Recovered, Forgotten,
           Tolerate, StillCommitted
    <2> QED
        BY <2>1, <2>2, <2>3
<1>4. CASE SyncForgetMarker
    <2>1. TypeOK'
        <3>1. Sync \/ Same
            BY <1>4 DEF SyncForgetMarker
        <3>2. dir' \in Dir /\ disk' \subseteq Dir /\ dir' \in disk' /\ host' \in Hosts
            BY <3>1
        <3> HIDE DEF AlwaysDurable, Expected, Authority, Writings, Recovering
        <3>3. /\ pc' \in PcValues /\ from' \in {"first", "second", "write", "orphan"}
              /\ old' \in Version /\ lock' \in BOOLEAN /\ allowed' \subseteq Version
              /\ UNCHANGED <<kind, new>>
            BY <1>4, Fields DEF SyncForgetMarker, FailWith, Recovered, Forgotten,
               Tolerate, StillCommitted, PcValues
        <3> QED
            BY <3>2, <3>3
    <2>2. AlwaysDurable'
        BY <1>4, Fields DEF SyncForgetMarker, FailWith, Recovered, Forgotten,
           Tolerate, StillCommitted
    <2>3. Callers' /\ Recovering' /\ Writings'
        BY <1>4, Fields DEF SyncForgetMarker, FailWith, Recovered, Forgotten,
           Tolerate, StillCommitted
    <2> QED
        BY <2>1, <2>2, <2>3
<1> QED
    BY <1>1, <1>2, <1>3, <1>4 DEF Forgets

LEMMA WritesStep ==
    ASSUME Journaled, IInv, Writes, UNCHANGED <<readers, crashes, host>>
    PROVE  IInv'
<1> USE DEF Journaled, IInv, TypeOK, AlwaysDurable, Callers, Recovering, Writings
<1> USE DEF Expected, Authority, AllDisk, OnlyCopy, Clean, Prepared, Committed
<1> USE DEF Consistent, Orphan, Writing, Undoing, Forgetting
<1> USE DEF GoTo, Answer, Unchanged, Unknown, Done, Restored, call, readers, Same, Sync
<1>1. CASE Backup
    <2>0. ASSUME SetRollback(old)
          PROVE  /\ dir'.rollback = old /\ dir'.run = dir.run /\ dir'.marker = dir.marker
                 /\ dir' \in Dir /\ disk' = disk \cup {dir'} /\ disk' \subseteq Dir
        BY <2>0, Fields, ChangeRollback DEF Marker
    <2>1. TypeOK'
        BY <1>1, Fields, <2>0 DEF Backup, PcValues
    <2>2. AlwaysDurable'
        BY <1>1, Fields, <2>0 DEF Backup
    <2>3. Callers' /\ Recovering' /\ Writings'
        BY <1>1, Fields, <2>0 DEF Backup
    <2> QED
        BY <2>1, <2>2, <2>3
<1>2. CASE SyncBackup
    <2>1. TypeOK'
        BY <1>2, Fields DEF SyncBackup, PcValues
    <2>2. AlwaysDurable'
        BY <1>2, Fields DEF SyncBackup
    <2>3. Callers' /\ Recovering' /\ Writings'
        BY <1>2, Fields DEF SyncBackup
    <2> QED
        BY <2>1, <2>2, <2>3
<1>3. CASE Prepare
    <2>0. ASSUME SetMarker([phase |-> "prepared", old |-> old, new |-> new])
          PROVE  /\ dir'.marker = [phase |-> "prepared", old |-> old, new |-> new]
                 /\ dir'.run = dir.run /\ dir'.rollback = dir.rollback
                 /\ dir' \in Dir /\ disk' = disk \cup {dir'} /\ disk' \subseteq Dir
        BY <2>0, Fields, ChangeMarker DEF Marker
    <2>1. TypeOK'
        BY <1>3, Fields, <2>0 DEF Prepare, PcValues
    <2>2. AlwaysDurable'
        BY <1>3, Fields, <2>0 DEF Prepare
    <2>3. Callers' /\ Recovering' /\ Writings'
        BY <1>3, Fields, <2>0 DEF Prepare
    <2> QED
        BY <2>1, <2>2, <2>3
<1>4. CASE SyncPrepare
    <2>1. TypeOK'
        BY <1>4, Fields DEF SyncPrepare, PcValues
    <2>2. AlwaysDurable'
        BY <1>4, Fields DEF SyncPrepare
    <2>3. Callers' /\ Recovering' /\ Writings'
        BY <1>4, Fields DEF SyncPrepare
    <2> QED
        BY <2>1, <2>2, <2>3
<1>5. CASE Publish
    <2>0. ASSUME SetRun(new)
          PROVE  /\ dir'.run = new /\ dir'.rollback = dir.rollback /\ dir'.marker = dir.marker
                 /\ dir' \in Dir /\ disk' = disk \cup {dir'} /\ disk' \subseteq Dir
        BY <2>0, Fields, ChangeRun DEF Marker
    <2>1. TypeOK'
        BY <1>5, Fields, <2>0 DEF Publish, PcValues
    <2>2. AlwaysDurable'
        BY <1>5, Fields, <2>0 DEF Publish
    <2>3. Callers' /\ Recovering' /\ Writings'
        BY <1>5, Fields, <2>0 DEF Publish
    <2> QED
        BY <2>1, <2>2, <2>3
<1>6. CASE SyncPublish
    <2>1. TypeOK'
        BY <1>6, Fields DEF SyncPublish, PcValues
    <2>2. AlwaysDurable'
        BY <1>6, Fields DEF SyncPublish
    <2>3. Callers' /\ Recovering' /\ Writings'
        BY <1>6, Fields DEF SyncPublish
    <2> QED
        BY <2>1, <2>2, <2>3
<1>7. CASE Commit
    <2>0. ASSUME SetMarker([phase |-> "committed", old |-> old, new |-> new])
          PROVE  /\ dir'.marker = [phase |-> "committed", old |-> old, new |-> new]
                 /\ dir'.run = dir.run /\ dir'.rollback = dir.rollback
                 /\ dir' \in Dir /\ disk' = disk \cup {dir'} /\ disk' \subseteq Dir
        BY <2>0, Fields, ChangeMarker DEF Marker
    <2>1. TypeOK'
        BY <1>7, Fields, <2>0 DEF Commit, PcValues
    <2>2. AlwaysDurable'
        BY <1>7, Fields, <2>0 DEF Commit
    <2>3. Callers' /\ Recovering' /\ Writings'
        BY <1>7, Fields, <2>0 DEF Commit
    <2> QED
        BY <2>1, <2>2, <2>3
<1>8. CASE SyncCommit
    <2>1. TypeOK'
        BY <1>8, Fields DEF SyncCommit, PcValues
    <2>2. AlwaysDurable'
        BY <1>8, Fields DEF SyncCommit
    <2>3. Callers' /\ Recovering' /\ Writings'
        BY <1>8, Fields DEF SyncCommit
    <2> QED
        BY <2>1, <2>2, <2>3
<1>9. CASE Reprepare
    <2>0. ASSUME SetMarker([phase |-> "prepared", old |-> old, new |-> new])
          PROVE  /\ dir'.marker = [phase |-> "prepared", old |-> old, new |-> new]
                 /\ dir'.run = dir.run /\ dir'.rollback = dir.rollback
                 /\ dir' \in Dir /\ disk' = disk \cup {dir'} /\ disk' \subseteq Dir
        BY <2>0, Fields, ChangeMarker DEF Marker
    <2>1. TypeOK'
        BY <1>9, Fields, <2>0 DEF Reprepare, PcValues
    <2>2. AlwaysDurable'
        BY <1>9, Fields, <2>0 DEF Reprepare
    <2>3. Callers' /\ Recovering' /\ Writings'
        BY <1>9, Fields, <2>0 DEF Reprepare
    <2> QED
        BY <2>1, <2>2, <2>3
<1>10. CASE SyncReprepare
    <2>1. TypeOK'
        BY <1>10, Fields DEF SyncReprepare, PcValues
    <2>2. AlwaysDurable'
        BY <1>10, Fields DEF SyncReprepare
    <2>3. Callers' /\ Recovering' /\ Writings'
        BY <1>10, Fields DEF SyncReprepare
    <2> QED
        BY <2>1, <2>2, <2>3
<1>11. CASE Plain
    <2>0. ASSUME SetRun(new)
          PROVE  /\ dir'.run = new /\ dir'.rollback = dir.rollback /\ dir'.marker = dir.marker
                 /\ dir' \in Dir /\ disk' = disk \cup {dir'} /\ disk' \subseteq Dir
        BY <2>0, Fields, ChangeRun DEF Marker
    <2>1. TypeOK'
        BY <1>11, Fields, <2>0 DEF Plain, PcValues
    <2>2. AlwaysDurable'
        BY <1>11, Fields, <2>0 DEF Plain
    <2>3. Callers' /\ Recovering' /\ Writings'
        BY <1>11, Fields, <2>0 DEF Plain
    <2> QED
        BY <2>1, <2>2, <2>3
<1>12. CASE SyncPlain
    <2>1. TypeOK'
        BY <1>12, Fields DEF SyncPlain, PcValues
    <2>2. AlwaysDurable'
        BY <1>12, Fields DEF SyncPlain
    <2>3. Callers' /\ Recovering' /\ Writings'
        BY <1>12, Fields DEF SyncPlain
    <2> QED
        BY <2>1, <2>2, <2>3
<1> QED
    BY <1>1, <1>2, <1>3, <1>4, <1>5, <1>6, <1>7, <1>8, <1>9, <1>10, <1>11, <1>12 DEF Writes

LEMMA OtherStep ==
    ASSUME Journaled, IInv, Begin \/ ReadStep \/ Crash \/ PowerLoss \/ UNCHANGED vars,
           UNCHANGED host
    PROVE  IInv'
<1> USE StrictAssumption DEF IInv, call, readers, Same
<1>1. CASE Begin
    <2>1. TypeOK'
        <3>1. ASSUME NEW k \in {"update", "strict"}, Update(k) PROVE new' \in Version
            BY <3>1 DEF Update, TypeOK, Version
        <3> QED
            BY <1>1, <3>1 DEF Begin, Load, Update, TypeOK, PcValues
    <2>2. AlwaysDurable' /\ Callers' /\ Recovering' /\ Writings'
        BY <1>1 DEF Begin, Load, Update, AlwaysDurable, Expected, Callers, Recovering, Writings, Writing,
           Undoing, Forgetting, Authority
    <2> QED
        BY <2>1, <2>2
<1>2. CASE ReadStep
    <2>1. TypeOK'
        BY <1>2, Fields DEF ReadStep, Probe, ReadFile, Reprobe, Again, TypeOK
    <2>2. AlwaysDurable' /\ Callers' /\ Recovering' /\ Writings'
        BY <1>2 DEF ReadStep, AlwaysDurable, Expected, Callers, Recovering, Writings, Authority, AllDisk,
           OnlyCopy, Clean, Prepared, Committed, Consistent, Orphan
    <2> QED
        BY <2>1, <2>2
<1>3. CASE Crash \/ PowerLoss
    <2>1. Expected' = Expected /\ pc' = "free" /\ disk' \subseteq disk
        BY <1>3 DEF Crash, PowerLoss, Expected
    <2>2. TypeOK'
        <3>1. Expected \subseteq Version
            BY DEF Expected, TypeOK
        <3>2. crashes' \in 0..MaxCrashes
            <4>1. crashes < MaxCrashes /\ crashes' = crashes + 1
                BY <1>3 DEF Crash, PowerLoss
            <4>2. crashes \in 0..MaxCrashes
                BY DEF TypeOK
            <4> HIDE DEF IInv
            <4> QED
                BY <4>1, <4>2
        <3>3. dir' \in Dir /\ disk' \subseteq Dir /\ dir' \in disk' /\ allowed' = Expected
            BY <1>3 DEF Crash, PowerLoss, TypeOK
        <3>4. /\ reader' \in [Reader -> {"idle", "probed", "read", "returned"}]
              /\ lock' \in BOOLEAN /\ UNCHANGED <<call, got>>
            BY <1>3 DEF Crash, PowerLoss, TypeOK
        <3> QED
            BY <2>1, <3>1, <3>2, <3>3, <3>4 DEF TypeOK, PcValues
    <2>3. AlwaysDurable' /\ Callers' /\ Recovering' /\ Writings'
        BY <2>1 DEF AlwaysDurable, Authority, Callers, Recovering, Writings, Writing, Undoing, Forgetting
    <2> QED
        BY <2>2, <2>3
<1>4. CASE UNCHANGED vars
    BY <1>4 DEF vars, TypeOK, AlwaysDurable, Expected, Callers, Recovering, Writings, Authority, AllDisk,
       OnlyCopy, Clean, Prepared, Committed, Consistent, Orphan
<1> QED
    BY <1>1, <1>2, <1>3, <1>4

(* The inductive invariant holds in every state of the calls that hold the *)
(* transaction lock (writeRunContentsLocked,                               *)
(* recoverStrictTransactionLocked), on a journaled file system where no    *)
(* unlink fails.                                                           *)
THEOREM IInvAlways == ASSUME AllJournaled PROVE Spec => []IInv
<1>1. IInv => Journaled
    BY DEF IInv, TypeOK, AllJournaled, Journaled, Faults, Ordered
<1>2. ASSUME IInv, [Next]_vars PROVE IInv'
    <2>1. UNCHANGED host
        BY <1>2 DEF Next, vars
    <2> QED
        BY <1>1, <1>2, <2>1, JournalRecoveryStep, UndoesStep, ForgetsStep, WritesStep, OtherStep
           DEF Next, Work
<1> QED
    BY <1>2, IInvInit, PTL DEF Spec

(* Every variable keeps its type: no recovery renames an absent rollback   *)
(* copy over run.json (recoverStrictTransactionLocked).                    *)
THEOREM Typing == ASSUME AllJournaled PROVE Spec => []TypeOK
BY IInvAlways, PTL DEF IInv

(* Whatever directory a death, a failed write or fsync, or a power loss    *)
(* leaves, the next recovery (recoverStrictTransactionLocked) finds a      *)
(* record that callers of updateRunStrict and updateRun may expect, for    *)
(* any number of updates and deaths.                                       *)
THEOREM Durability == ASSUME AllJournaled PROVE Spec => []Durable
<1>1. IInv => Durable
    BY DEF IInv, Durable
<1> QED
    BY <1>1, IInvAlways, PTL

(* What the runs check of run.json's contents together.                    *)
THEOREM TxIsSafe == ASSUME AllJournaled PROVE Spec => []TxSafe
BY Typing, Durability, PTL DEF TxSafe

------------------------------------------------------------------------------
(* A step that changes the directory leaves what a recovery of it settles  *)
(* on as it was, but at the steps that decide.                             *)
Deciding == pc \in {"commit", "reprepare", "plain"}

LEMMA SameAuthority ==
    ASSUME Journaled, IInv, Next, ~Deciding, crashes' = crashes
    PROVE  Authority(dir') = Authority(dir)
<1> USE DEF Journaled, IInv, Callers, Recovering, Writings, Authority, OnlyCopy, Clean, Prepared,
            Committed, Consistent, Orphan
<1>0. ASSUME dir' = dir PROVE Authority(dir') = Authority(dir)
    BY <1>0
<1>1. CASE Begin \/ ReadStep
    <2>1. dir' = dir
        BY <1>1 DEF Begin, Load, Update, ReadStep, Same
    <2> QED
        BY <2>1
<1>2. ~(Crash \/ PowerLoss)
    <2>1. crashes \in Nat
        BY StrictAssumption DEF TypeOK
    <2>2. crashes + 1 # crashes
        BY <2>1
    <2>3. Crash \/ PowerLoss => crashes' = crashes + 1
        BY DEF Crash, PowerLoss
    <2> QED
        BY <2>2, <2>3
<1>3. CASE Recovery
    <2>1. CASE DropOrphan
        <3>1. ASSUME SetRollback(None)
              PROVE  dir'.rollback = None /\ dir'.run = dir.run /\ dir'.marker = dir.marker
            BY <3>1, Fields, ChangeRollback
        <3> QED
            BY <2>1, <3>1, Fields DEF DropOrphan, Same
    <2> QED
        BY <1>0, <1>3, <2>1 DEF Recovery, Recover, SyncOrphan, Same, Sync
<1>4. CASE Undoes
    <2>1. CASE Undo
        <3>1. dir.rollback \in Version
            BY <2>1, Fields DEF Undo, Marker
        <3>2. ASSUME SetRun(dir.rollback)
              PROVE  dir'.rollback = dir.rollback /\ dir'.marker = dir.marker
            BY <3>1, <3>2, ChangeRun
        <3> QED
            BY <2>1, <3>2, Fields DEF Undo, Same
    <2>2. CASE DropMarker
        <3>1. ASSUME SetMarker(NoMarker)
              PROVE  dir'.rollback = dir.rollback /\ dir'.run = dir.run /\ dir'.marker = NoMarker
            BY <3>1, Fields, ChangeMarker
        <3> QED
            BY <2>2, <3>1, Fields DEF DropMarker, Same, Marker
    <2>3. CASE DropRollback
        <3>1. ASSUME SetRollback(None)
              PROVE  dir'.rollback = None /\ dir'.run = dir.run /\ dir'.marker = dir.marker
            BY <3>1, Fields, ChangeRollback
        <3> QED
            BY <2>3, <3>1, Fields DEF DropRollback, Same
    <2> QED
        BY <1>0, <1>4, <2>1, <2>2, <2>3
           DEF Undoes, Restore, SyncUndo, SyncDropMarker, SyncDropRollback, Same, Sync
<1>5. CASE Forgets
    <2>1. CASE ForgetRollback
        <3>1. ASSUME SetRollback(None)
              PROVE  dir'.rollback = None /\ dir'.run = dir.run /\ dir'.marker = dir.marker
            BY <3>1, Fields, ChangeRollback
        <3> QED
            BY <2>1, <3>1, Fields DEF ForgetRollback, Same
    <2>2. CASE ForgetMarker
        <3>1. ASSUME SetMarker(NoMarker)
              PROVE  dir'.rollback = dir.rollback /\ dir'.run = dir.run /\ dir'.marker = NoMarker
            BY <3>1, Fields, ChangeMarker
        <3> QED
            BY <2>2, <3>1, Fields DEF ForgetMarker, Same
    <2> QED
        BY <1>0, <1>5, <2>1, <2>2 DEF Forgets, SyncForgetRollback, SyncForgetMarker, Same, Sync
<1>6. CASE Writes
    <2>0. new \in Version /\ old \in Version
        BY DEF TypeOK
    <2>1. CASE Backup
        <3>1. ASSUME SetRollback(old)
              PROVE  dir'.rollback = old /\ dir'.run = dir.run /\ dir'.marker = dir.marker
            BY <2>0, <3>1, Fields, ChangeRollback
        <3> QED
            BY <2>1, <3>1, Fields DEF Backup, Same
    <2>2. CASE Prepare
        <3>1. ASSUME SetMarker([phase |-> "prepared", old |-> old, new |-> new])
              PROVE  /\ dir'.rollback = dir.rollback /\ dir'.run = dir.run
                     /\ dir'.marker = [phase |-> "prepared", old |-> old, new |-> new]
            <4>1. [phase |-> "prepared", old |-> old, new |-> new] \in Marker
                BY <2>0 DEF Marker
            <4> QED
                BY <3>1, <4>1, Fields, ChangeMarker
        <3> QED
            BY <2>2, <3>1, Fields DEF Prepare, Same
    <2>3. CASE Publish
        <3>1. ASSUME SetRun(new)
              PROVE  dir'.rollback = dir.rollback /\ dir'.marker = dir.marker
            BY <2>0, <3>1, Fields, ChangeRun
        <3> QED
            BY <2>3, <3>1, Fields DEF Publish, Same
    <2> QED
        BY <1>0, <1>6, <2>1, <2>2, <2>3
           DEF Writes, Deciding, Commit, Reprepare, Plain, SyncBackup, SyncPrepare, SyncPublish,
               SyncCommit, SyncReprepare, SyncPlain, Same, Sync
<1> QED
    BY <1>1, <1>2, <1>3, <1>4, <1>5, <1>6 DEF Next, Work

(* No recovery and no cleanup changes what was decided, and the load       *)
(* without the lock (loadRunJson) returns only what was.                   *)
THEOREM TxIsDecided == ASSUME AllJournaled PROVE Spec => TxDecides
<1>1. IInv => Journaled
    BY DEF IInv, TypeOK, AllJournaled, Journaled, Faults, Ordered
<1>2. IInv /\ [Next]_vars
        => [Authority(dir)' # Authority(dir) => Deciding \/ crashes' # crashes]_vars
    <2> SUFFICES ASSUME IInv, Next, ~Deciding, crashes' = crashes
                 PROVE  Authority(dir)' = Authority(dir)
        OBVIOUS
    <2>1. Authority(dir') = Authority(dir)
        BY <1>1, SameAuthority
    <2>2. Authority(dir)' = Authority(dir')
        BY DEF Authority
    <2> QED
        BY <2>1, <2>2
<1>3. IInv /\ [Next]_vars
        => [\A r \in Reader : reader[r] = "read" /\ reader'[r] = "returned"
               => ~(dir.marker.phase = "prepared" /\ got[r] = dir.marker.new)]_vars
    <2> SUFFICES ASSUME IInv, Next, NEW r \in Reader, reader[r] = "read", reader'[r] = "returned",
                        dir.marker.phase = "prepared"
                 PROVE  FALSE
        OBVIOUS
    <2>1. reader \in [Reader -> {"idle", "probed", "read", "returned"}]
        BY DEF IInv, TypeOK
    <2>2. ReadStep
        BY <2>1 DEF Next, Begin, Work, Crash, PowerLoss, readers
    <2>3. Quiet
        BY <2>1, <2>2 DEF ReadStep, Probe, ReadFile, Reprobe, Again
    <2> QED
        BY <2>3, Fields DEF Quiet, IInv
<1>4. Spec => DecidedOnce
    BY <1>2, IInvAlways, PTL DEF Spec, DecidedOnce, Deciding
<1>5. Spec => FastReadDecided
    BY <1>3, IInvAlways, PTL DEF Spec, FastReadDecided
<1> QED
    BY <1>4, <1>5 DEF TxDecides
=============================================================================
