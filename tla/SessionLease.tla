---------------------------- MODULE SessionLease ----------------------------
(***************************************************************************)
(* The lease of one session key: session-lease.ts.                         *)
(*                                                                         *)
(* A process that runs a session (a child pi or a Grok connection) owns    *)
(* the session's lease while it may touch the session's files.  Calls of   *)
(* acquireSessionLease take turns: each waits for the slot of the call     *)
(* before it, then for the lease in the store, then installs its own.  A   *)
(* release with an error stays in the store, rejected, so that nobody uses *)
(* a session whose process may still be alive.                             *)
(*                                                                         *)
(* A step is what runs between two awaits.  A call stands for its token    *)
(* and for its slot promise.                                               *)
(***************************************************************************)
EXTENDS Naturals, FiniteSets

CONSTANTS Call,    \* the calls of acquireSessionLease
          Watch,   \* the calls of awaitSessionLease
          NoCall   \* no call

ASSUME LeaseAssumption == NoCall \notin Call /\ Call \cap Watch = {}

VARIABLES
    callPc,  \* where each call is
    pred,    \* the slot each call waits for
    tail,    \* acquireTails: the last slot of the key
    lease,   \* leases: the call whose record the store holds
    waitsOn, \* the record each call or watcher waits for
    state,   \* the deferred of each record: open, released or failed
    watch    \* where each watcher is

leaseVars == <<callPc, pred, tail, lease, waitsOn, state, watch>>

LeaseTypeOK ==
    /\ callPc \in [Call -> {"idle", "queued", "waiting", "owner", "ended", "refused"}]
    /\ pred \in [Call -> Call \cup {NoCall}] /\ tail \in Call \cup {NoCall}
    /\ lease \in Call \cup {NoCall}
    /\ waitsOn \in [Call \cup Watch -> Call \cup {NoCall}]
    /\ \A c \in Call : callPc[c] = "waiting" => waitsOn[c] # NoCall
    /\ state \in [Call -> {"none", "open", "released", "failed"}]
    /\ watch \in [Watch -> {"idle", "waiting", "done", "refused"}]

LeaseInit ==
    /\ callPc = [c \in Call |-> "idle"] /\ pred = [c \in Call |-> NoCall] /\ tail = NoCall
    /\ lease = NoCall /\ waitsOn = [c \in Call \cup Watch |-> NoCall]
    /\ state = [c \in Call |-> "none"] /\ watch = [w \in Watch |-> "idle"]

(* acquireSessionLease until its first await: the call queues behind the   *)
(* slot at the tail.                                                       *)
AcquireLease(c) ==
    /\ callPc[c] = "idle"
    /\ callPc' = [callPc EXCEPT ![c] = "queued"] /\ pred' = [pred EXCEPT ![c] = tail] /\ tail' = c
    /\ UNCHANGED <<lease, waitsOn, state, watch>>

(* A bug: the slot is freed before the call waits for the lease.           *)
SlotFree_Queued(c) == c # NoCall => callPc[c] # "queued"

(* A bug: a call that fails does not free its slot.                        *)
SlotFree_OnSuccess(c) == c # NoCall => callPc[c] \in {"owner", "ended"}

(* The slot promise of a call has resolved: its try block is over.         *)
SlotFree(c) == c # NoCall => callPc[c] \in {"owner", "ended", "refused"}

(* A bug: the tail is dropped whoever queued behind.                       *)
FreeSlot_DropTail(c, result) == callPc' = [callPc EXCEPT ![c] = result] /\ tail' = NoCall

(* A bug: the tail is never dropped.                                       *)
FreeSlot_KeepsTail(c, result) == callPc' = [callPc EXCEPT ![c] = result] /\ tail' = tail

(* The call is over: it frees its slot and, when nobody queued behind it,  *)
(* drops the tail.                                                         *)
FreeSlot(c, result) ==
    /\ callPc' = [callPc EXCEPT ![c] = result]
    /\ tail' = IF tail = c THEN NoCall ELSE tail

Install(c) ==
    /\ lease' = c /\ state' = [state EXCEPT ![c] = "open"] /\ FreeSlot(c, "owner")

(* A bug: the call awaits its predecessor and not the lease in the store.  *)
Turn_AwaitsPred(c) ==
    /\ callPc[c] = "queued" /\ SlotFree(pred[c])
    /\ \/ lease = NoCall /\ Install(c) /\ UNCHANGED waitsOn
       \/ /\ lease # NoCall /\ waitsOn' = [waitsOn EXCEPT ![c] = pred[c]]
          /\ callPc' = [callPc EXCEPT ![c] = "waiting"] /\ UNCHANGED <<tail, lease, state>>
    /\ UNCHANGED <<pred, watch>>

(* The turn of a call: it installs its lease, or waits for the one that is *)
(* in the store.                                                           *)
Turn(c) ==
    /\ callPc[c] = "queued" /\ SlotFree(pred[c])
    /\ \/ lease = NoCall /\ Install(c) /\ UNCHANGED waitsOn
       \/ /\ lease # NoCall /\ waitsOn' = [waitsOn EXCEPT ![c] = lease]
          /\ callPc' = [callPc EXCEPT ![c] = "waiting"] /\ UNCHANGED <<tail, lease, state>>
    /\ UNCHANGED <<pred, watch>>

(* A bug: a failed release lets the next call in.                          *)
Resume_IgnoresFailure(c) ==
    /\ callPc[c] = "waiting" /\ state[waitsOn[c]] # "open" /\ Install(c)
    /\ UNCHANGED <<pred, waitsOn, watch>>

(* The awaited record settles: the call installs its own, or fails with    *)
(* the sticky error.                                                       *)
Resume(c) ==
    /\ callPc[c] = "waiting"
    /\ \/ state[waitsOn[c]] = "released" /\ Install(c)
       \/ state[waitsOn[c]] = "failed" /\ FreeSlot(c, "refused") /\ UNCHANGED <<lease, state>>
    /\ UNCHANGED <<pred, waitsOn, watch>>

(* release: the record settles once, and later releases are ignored; a     *)
(* clean release empties the store, an uncertain exit of the process       *)
(* (releaseSessionLeaseWithCertainty) keeps the rejected record.           *)
ReleaseLease(c, result) ==
    /\ callPc[c] = "owner"
    /\ callPc' = [callPc EXCEPT ![c] = "ended"] /\ state' = [state EXCEPT ![c] = result]
    /\ lease' = IF result = "released" THEN NoCall ELSE lease
    /\ UNCHANGED <<pred, tail, waitsOn, watch>>

(* awaitSessionLease: a watcher waits for the owner it finds.              *)
Look(w) ==
    /\ watch[w] = "idle"
    /\ watch' = [watch EXCEPT ![w] = IF lease = NoCall THEN "done" ELSE "waiting"]
    /\ waitsOn' = [waitsOn EXCEPT ![w] = lease]
    /\ UNCHANGED <<callPc, pred, tail, lease, state>>

Seen(w) ==
    /\ watch[w] = "waiting" /\ state[waitsOn[w]] # "open"
    /\ watch' = [watch EXCEPT ![w] = IF state[waitsOn[w]] = "failed" THEN "refused" ELSE "done"]
    /\ UNCHANGED <<callPc, pred, tail, lease, waitsOn, state>>

LeaseStep(c) == Turn(c) \/ Resume(c)
LeaseNext ==
    \/ \E c \in Call :
        \/ AcquireLease(c) \/ LeaseStep(c)
        \/ \E r \in {"released", "failed"} : ReleaseLease(c, r)
    \/ \E w \in Watch : Look(w) \/ Seen(w)

LeaseSpec == LeaseInit /\ [][LeaseNext]_leaseVars

(* The event loop runs what a settled promise wakes, and every session     *)
(* process ends.                                                           *)
LeaseFairSpec ==
    /\ LeaseSpec
    /\ \A c \in Call :
        /\ WF_leaseVars(LeaseStep(c))
        /\ WF_leaseVars(\E r \in {"released", "failed"} : ReleaseLease(c, r))
    /\ \A w \in Watch : WF_leaseVars(Seen(w))

------------------------------------------------------------------------------
Owners == {c \in Call : callPc[c] = "owner"}

(* One call at a time owns the session (acquireSessionLease), and the      *)
(* store names it.                                                         *)
OneOwner == \A c \in Owners : lease = c /\ Cardinality(Owners) = 1

(* After an uncertain exit nobody owns the session again (the sticky       *)
(* rejection of acquireSessionLease).                                      *)
FailClosed == (\E c \in Call : state[c] = "failed") => Owners = {}

(* When no call is under way the store keeps no tail (acquireTails).       *)
NoTailLeft == (\A c \in Call : callPc[c] \notin {"queued", "waiting"}) => tail = NoCall

(* Every call of acquireSessionLease and awaitSessionLease is answered     *)
(* once the owners before it let go: no waiter is forgotten.               *)
Answered ==
    /\ \A c \in Call : callPc[c] = "queued" ~> callPc[c] \in {"owner", "ended", "refused"}
    /\ \A w \in Watch : watch[w] = "waiting" ~> watch[w] # "waiting"

(* The lease of a session (acquireSessionLease) is an exclusive resource.  *)
LeaseUse == INSTANCE ExclusiveUse WITH Client <- Call, users <- Owners
LeaseUseSpec == LeaseUse!Spec

(* A session has one owner, and none after a release that is uncertain.    *)
LeaseSafe == LeaseTypeOK /\ OneOwner /\ FailClosed
==============================================================================
