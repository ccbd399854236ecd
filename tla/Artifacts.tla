----------------------------- MODULE Artifacts ------------------------------
(***************************************************************************)
(* The content-addressed artifacts of a run (run/artifact-store.ts) as     *)
(* finishUnit uses them: a result too large for run.json is written to     *)
(* artifacts/sha256/<prefix>/<digest>, and then the strict update of       *)
(* run.json records a reference to it.                                     *)
(*                                                                         *)
(* One content is followed.  Its path has four entries, which appear from  *)
(* the first (artifacts in the run directory) to the last (the file):      *)
(* "entries" is how many exist.  An fsync of a directory makes its entry   *)
(* durable; a power loss may take any other entry, with all that lies      *)
(* below it.  A call of the file system may fail, a process may die        *)
(* between two calls.                                                      *)
(* Several processes may write the same content, as the store's tests do.  *)
(* The strict update of run.json is durable (StrictTx).                    *)
(***************************************************************************)
EXTENDS Naturals

CONSTANTS Writer,    \* the calls of finishUnit
          MaxFaults, \* bound on failing calls
          MaxStops   \* bound on deaths of a process and power losses

ASSUME ArtifactsAssumption == MaxFaults \in Nat /\ MaxStops \in Nat

VARIABLES
    syncable,   \* the file system can fsync a directory
    entries,       \* how many entries of the artifact's path exist
    synced,     \* those that an fsync made durable
    content,    \* what is at the end of the path
    writer,     \* where each call is
    temporary,  \* its staging file
    onRecord,   \* run.json holds a reference
    unsynced,   \* a call was given a reference to a path not yet durable
    faulted,
    stops

artifactVars == <<syncable, entries, synced, content, writer, temporary,
                  onRecord, unsynced, faulted, stops>>

Entries == 1..4
File == 4
Places == {"idle", "directories", "look", "verify", "stage", "write", "flush",
           "rename", "drop", "dropMatch", "dropFailed", "got", "refused"}
          \cup {"sync1", "sync2", "sync3", "sync4"}
SyncOf == <<"sync1", "sync2", "sync3", "sync4">>
Contents == {"none", "unflushed", "whole", "torn"}

ArtifactsTypeOK ==
    /\ syncable \in BOOLEAN
    /\ entries \in 0..File /\ synced \subseteq 1..entries
    /\ content \in Contents
    /\ content = "none" <=> entries < File
    /\ writer \in [Writer -> Places]
    /\ temporary \in [Writer -> Contents]
    /\ onRecord \in BOOLEAN /\ unsynced \in BOOLEAN
    /\ faulted \in 0..MaxFaults /\ stops \in 0..MaxStops

ArtifactsInit ==
    /\ syncable \in BOOLEAN
    /\ entries = 0 /\ synced = {} /\ content = "none"
    /\ writer = [w \in Writer |-> "idle"]
    /\ temporary = [w \in Writer |-> "none"]
    /\ onRecord = FALSE /\ unsynced = FALSE
    /\ faulted = 0 /\ stops = 0

tree == <<entries, synced, content>>
references == <<onRecord, unsynced>>
chances == <<faulted, stops>>

Goes(w, from, to) == writer[w] = from /\ writer' = [writer EXCEPT ![w] = to]
Keeps(w, what) == temporary' = [temporary EXCEPT ![w] = what]
Succeeds == UNCHANGED chances
Fails == faulted < MaxFaults /\ faulted' = faulted + 1 /\ UNCHANGED stops

----------------------------------------------------------------------------
(* externalizeTerminalResult: a result that is too large for the record is *)
(* written; one too large for an artifact is refused.                      *)
Spill(w) ==
    /\ Goes(w, "idle", "directories")
    /\ UNCHANGED <<syncable, tree, temporary, references, chances>>

(* The three mkdirs, each of which may find its directory there.           *)
MakeDirectories(w) ==
    /\ \/ entries < File - 1 /\ entries' = entries + 1 /\ UNCHANGED writer /\ Succeeds
       \/ entries >= File - 1 /\ Goes(w, "directories", "look") /\ UNCHANGED entries /\ Succeeds
       \/ Goes(w, "directories", "refused") /\ UNCHANGED entries /\ Fails
    /\ writer[w] = "directories"
    /\ UNCHANGED <<syncable, synced, content, temporary, references>>

Look(w) ==
    /\ Goes(w, "look", IF entries = File THEN "verify" ELSE "stage")
    /\ UNCHANGED <<syncable, tree, temporary, references, chances>>

(* What verifyFile finds: the file is there and has the digest.            *)
Readable == entries = File /\ content # "torn"

Durable4 == 1..File \subseteq synced

(* A file that is already there is taken as it is, once it is verified.    *)
Verify(w) ==
    /\ \/ Readable /\ Goes(w, "verify", "got") /\ unsynced' = (unsynced \/ ~Durable4) /\ Succeeds
       \/ ~Readable /\ Goes(w, "verify", "refused") /\ UNCHANGED unsynced /\ Succeeds
       \/ Goes(w, "verify", "refused") /\ UNCHANGED unsynced /\ Fails
    /\ UNCHANGED <<syncable, tree, temporary, onRecord>>

(* A staging directory of its own.                                         *)
Stage(w) ==
    /\ \/ Goes(w, "stage", "write") /\ Succeeds
       \/ Goes(w, "stage", "refused") /\ Fails
    /\ UNCHANGED <<syncable, tree, temporary, references>>

(* Before the rename, a call that fails looks for the file of another.     *)
FailsBefore(w, from) ==
    /\ Goes(w, from, IF entries = File THEN "dropMatch" ELSE "dropFailed")
    /\ Fails

WriteTemporary(w) ==
    /\ \/ Goes(w, "write", "flush") /\ Succeeds
       \/ FailsBefore(w, "write")
    /\ Keeps(w, "unflushed")
    /\ UNCHANGED <<syncable, tree, references>>

(* A bug: the staging file is not flushed.                                 *)
Flush_Skipped(w) ==
    /\ Goes(w, "flush", "rename")
    /\ UNCHANGED <<syncable, tree, temporary, references, chances>>

(* The fsync of the staging file.                                          *)
FlushTemporary(w) ==
    /\ \/ Goes(w, "flush", "rename") /\ Keeps(w, "whole") /\ Succeeds
       \/ Goes(w, "flush", "dropFailed") /\ UNCHANGED temporary /\ Fails
    /\ UNCHANGED <<syncable, tree, references>>

(* The new entry is not durable, even when it replaces one that was.       *)
RenameIt(w) ==
    /\ \/ /\ Goes(w, "rename", IF syncable THEN SyncOf[File] ELSE "drop")
          /\ entries' = File /\ content' = temporary[w]
          /\ UNCHANGED synced
          /\ Keeps(w, "none") /\ Succeeds
       \/ /\ FailsBefore(w, "rename")
          /\ UNCHANGED <<tree, temporary>>
    /\ UNCHANGED <<syncable, references>>

(* A bug: only the directory of the file is made durable.                  *)
SyncDirectory_One(w, n) ==
    /\ \/ Goes(w, SyncOf[n], "drop") /\ synced' = synced \cup {n} /\ Succeeds
       \/ Goes(w, SyncOf[n], "dropFailed") /\ UNCHANGED synced /\ Fails
    /\ UNCHANGED <<syncable, entries, content, temporary, references>>

(* The fsync of the directory that has the n-th entry.                     *)
SyncDirectory(w, n) ==
    /\ \/ /\ Goes(w, SyncOf[n], IF n = 1 THEN "drop" ELSE SyncOf[n - 1])
          /\ synced' = synced \cup {n} /\ Succeeds
       \/ Goes(w, SyncOf[n], "dropFailed") /\ UNCHANGED synced /\ Fails
    /\ UNCHANGED <<syncable, entries, content, temporary, references>>

(* A bug: a failure takes the file that was published back.                *)
DropStaging_Unpublishes(w) ==
    /\ \/ Goes(w, "drop", "got") /\ UNCHANGED tree
       \/ Goes(w, "dropMatch", "verify") /\ UNCHANGED tree
       \/ /\ Goes(w, "dropFailed", "refused")
          /\ entries' = IF entries = File THEN File - 1 ELSE entries
          /\ content' = "none" /\ UNCHANGED synced
    /\ Keeps(w, "none")
    /\ UNCHANGED <<syncable, references, chances>>

(* The staging file and its directory are removed, whatever comes of it.   *)
DropStaging(w) ==
    /\ \/ Goes(w, "drop", "got")
       \/ Goes(w, "dropMatch", "verify")
       \/ Goes(w, "dropFailed", "refused")
    /\ Keeps(w, "none")
    /\ UNCHANGED <<syncable, tree, references, chances>>

(* finishUnit: the strict update records the reference, or fails with or   *)
(* without it on disk.                                                     *)
RecordReference(w) ==
    /\ Goes(w, "got", "idle")
    /\ \/ onRecord' = TRUE /\ Succeeds
       \/ onRecord' \in {onRecord, TRUE} /\ Fails
    /\ UNCHANGED <<syncable, tree, temporary, unsynced>>

(* The unit is recorded as failed, without the result.                     *)
RecordRefusal(w) ==
    /\ Goes(w, "refused", "idle")
    /\ UNCHANGED <<syncable, tree, temporary, references, chances>>

----------------------------------------------------------------------------
Stops == stops < MaxStops /\ stops' = stops + 1 /\ UNCHANGED faulted

WriterDies(w) ==
    /\ writer[w] # "idle" /\ Goes(w, writer[w], "idle")
    /\ Keeps(w, "none")
    /\ Stops
    /\ UNCHANGED <<syncable, tree, references>>

(* What is left of the path goes on being there.                           *)
PowerFails ==
    /\ Stops
    /\ \E left \in 0..entries :
        /\ \A n \in 1..entries : 1..n \subseteq synced => n <= left
        /\ entries' = left /\ synced' = 1..left
        /\ content' \in CASE left < File -> {"none"}
                          [] left = File /\ content = "unflushed" -> {"whole", "torn"}
                          [] OTHER -> {content}
    /\ writer' = [w \in Writer |-> "idle"]
    /\ temporary' = [w \in Writer |-> "none"]
    /\ UNCHANGED <<syncable, references>>

WriterStep(w) ==
    \/ Spill(w) \/ MakeDirectories(w) \/ Look(w) \/ Verify(w) \/ Stage(w)
    \/ WriteTemporary(w) \/ FlushTemporary(w) \/ RenameIt(w)
    \/ \E n \in Entries : SyncDirectory(w, n)
    \/ DropStaging(w) \/ RecordReference(w) \/ RecordRefusal(w)

ArtifactsNext ==
    \/ \E w \in Writer : WriterStep(w) \/ WriterDies(w)
    \/ PowerFails

ArtifactsSpec == ArtifactsInit /\ [][ArtifactsNext]_artifactVars

----------------------------------------------------------------------------
(* A reference in run.json reads back, whatever died, failed or lost power *)
(* before, in between or after (writeBytes syncs the whole path before it  *)
(* returns), unless it was given for a file that another had published and *)
(* not made durable, or directories cannot be synced.                      *)
ReferenceReads == onRecord /\ syncable /\ ~unsynced => Readable

(* A result is refused only when a call failed: what a death or a power    *)
(* loss leaves at the path never stands in the way of writing the same     *)
(* content again (the fsync before the rename).                            *)
RefusedForFault == \A w \in Writer : writer[w] = "refused" => faulted > 0

(* What run.json refers to can be read after any interruption, and only a  *)
(* fault refuses a result.                                                 *)
ArtifactsSafe == ArtifactsTypeOK /\ ReferenceReads /\ RefusedForFault
=============================================================================
