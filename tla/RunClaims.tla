----------------------------- MODULE RunClaims ------------------------------
(***************************************************************************)
(* Ownership of one durable run: the ticket directories under              *)
(* <run>/claims/ that RunStore.claimRun, releaseRun and abandonRun of      *)
(* run-store.ts publish, scan and terminate.                               *)
(*                                                                         *)
(* A claim is one call of claimRun, with its own claimId; InstanceOf gives *)
(* the store instance (one per OS process) that makes it.  Instances share *)
(* nothing but the file system, so the calls interleave at every directory *)
(* listing, rename, read and hard link.  A dead instance takes no step and *)
(* leaves its directories behind.                                          *)
(***************************************************************************)
EXTENDS Naturals

CONSTANTS Claim,        \* the calls of claimRun
          Instance,     \* the store instances
          InstanceOf,   \* which instance makes which call
          NoClaim,      \* "no owner.json", "no record.owner"
          MaxTicket,    \* bound on ticket numbers
          ReusedPid,    \* instances whose pid the system gives to another
                        \* process after their death (or answers EPERM for)
          FaultyScan    \* calls whose scan may meet an I/O error

ASSUME ClaimAssumption ==
    /\ InstanceOf \in [Claim -> Instance]
    /\ NoClaim \notin Claim
    /\ MaxTicket \in Nat
    /\ ReusedPid \subseteq Instance
    /\ FaultyScan \subseteq Claim

Ticket == 1..MaxTicket

VARIABLES
    claimPc,   \* where each call of claimRun is
    my,        \* the ticket the call tries to publish, then the one it owns
    scan,      \* the next ticket lowestEligibleTicket looks at
    ownerFile, \* claims/<ticket>/owner.json: a claimId, or not published
    terminal,  \* claims/<ticket>/terminal.json
    recOwner,  \* record.owner of run.json
    liveOwners \* the live instances

claimVars == <<claimPc, my, scan, ownerFile, terminal, recOwner, liveOwners>>

ClaimPcs == {"idle", "publish", "scan", "record", "withdraw", "held",
             "denied", "released"}

ClaimsTypeOK ==
    /\ claimPc \in [Claim -> ClaimPcs]
    /\ my \in [Claim -> 0..MaxTicket]
    /\ scan \in [Claim -> 0..MaxTicket + 1]
    /\ ownerFile \in [Ticket -> Claim \cup {NoClaim}]
    /\ terminal \in [Ticket -> {"none", "released", "abandoned"}]
    /\ recOwner \in Claim \cup {NoClaim}
    /\ liveOwners \subseteq Instance

ClaimsInit ==
    /\ claimPc = [c \in Claim |-> "idle"]
    /\ my = [c \in Claim |-> 0]
    /\ scan = [c \in Claim |-> 0]
    /\ ownerFile = [t \in Ticket |-> NoClaim]
    /\ terminal = [t \in Ticket |-> "none"]
    /\ recOwner = NoClaim
    /\ liveOwners = Instance

-----------------------------------------------------------------------------
Live(c) == InstanceOf[c] \in liveOwners

Published == {t \in Ticket : ownerFile[t] # NoClaim}

(* Two bugs isPidAlive could have: EPERM taken for death, ESRCH ignored.   *)
PidAlive_EpermIsDead(i) == i \in liveOwners \ ReusedPid
PidAlive_NeverDead(i) == i \in Instance

(* isPidAlive answers "dead" only for ESRCH.                               *)
PidAlive(i) == i \in liveOwners \/ i \in ReusedPid

(* An instance never asks about itself.                                    *)
OwnerAlive(c, t) == \/ InstanceOf[ownerFile[t]] = InstanceOf[c]
                    \/ PidAlive(InstanceOf[ownerFile[t]])

ClaimGoesTo(c, label) == claimPc' = [claimPc EXCEPT ![c] = label]

(* terminal.json is hard-linked into place: the first publication wins.    *)
Terminate(t, state) ==
    terminal' = [terminal EXCEPT ![t] = IF @ = "none" THEN state ELSE @]

(* listPublishedTickets, and the staged owner for one past the highest.    *)
List(c) ==
    /\ Live(c)
    /\ claimPc[c] = "idle"
    /\ \E t \in Ticket :
         /\ \A s \in Published : s < t
         /\ t - 1 \in Published \cup {0}
         /\ my' = [my EXCEPT ![c] = t]
    /\ ClaimGoesTo(c, "publish")
    /\ UNCHANGED <<scan, ownerFile, terminal, recOwner, liveOwners>>

(* The rename of the staging directory onto the free ticket name, after    *)
(* which lowestEligibleTicket starts its scan at the lowest ticket.        *)
PublishWins(c) ==
    /\ Live(c)
    /\ claimPc[c] = "publish"
    /\ my[c] \notin Published
    /\ ownerFile' = [ownerFile EXCEPT ![my[c]] = c]
    /\ scan' = [scan EXCEPT ![c] = 1]
    /\ ClaimGoesTo(c, "scan")
    /\ UNCHANGED <<my, terminal, recOwner, liveOwners>>

(* A bug: the call renames to the same ticket again, without a new list.   *)
PublishLoses_SameTicket(c) ==
    /\ Live(c)
    /\ claimPc[c] = "publish"
    /\ my[c] \in Published
    /\ UNCHANGED claimVars

(* The rename met a published ticket: list again and try a higher one.     *)
PublishLoses(c) ==
    /\ Live(c)
    /\ claimPc[c] = "publish"
    /\ my[c] \in Published
    /\ ClaimGoesTo(c, "idle")
    /\ UNCHANGED <<my, scan, ownerFile, terminal, recOwner, liveOwners>>

(* One round of the loop of lowestEligibleTicket: a terminated ticket is   *)
(* skipped, the ticket of a dead instance is abandoned and skipped, and    *)
(* any other ticket ends the scan; claimRun goes on only if it is its own. *)
ScanSkips(c) ==
    /\ Live(c)
    /\ claimPc[c] = "scan"
    /\ scan[c] \in Published
    /\ terminal[scan[c]] # "none"
    /\ scan' = [scan EXCEPT ![c] = @ + 1]
    /\ UNCHANGED <<claimPc, my, ownerFile, terminal, recOwner, liveOwners>>

ScanAbandons(c) ==
    /\ Live(c)
    /\ claimPc[c] = "scan"
    /\ scan[c] \in Published
    /\ terminal[scan[c]] = "none"
    /\ ~OwnerAlive(c, scan[c])
    /\ Terminate(scan[c], "abandoned")
    /\ scan' = [scan EXCEPT ![c] = @ + 1]
    /\ UNCHANGED <<claimPc, my, ownerFile, recOwner, liveOwners>>

(* A bug: any open ticket of a live instance grants the claim.             *)
ScanEnds_AnyTicket(c) ==
    /\ Live(c)
    /\ claimPc[c] = "scan"
    /\ scan[c] \in Published
    /\ terminal[scan[c]] = "none"
    /\ ClaimGoesTo(c, "record")
    /\ UNCHANGED <<my, scan, ownerFile, terminal, recOwner, liveOwners>>

ScanEnds(c) ==
    /\ Live(c)
    /\ claimPc[c] = "scan"
    /\ IF scan[c] \in Published
       THEN /\ terminal[scan[c]] = "none"
            /\ OwnerAlive(c, scan[c])
            /\ ClaimGoesTo(c, IF scan[c] = my[c] THEN "record" ELSE "withdraw")
       ELSE ClaimGoesTo(c, "withdraw")      \* the loop ran out: ticket -1
    /\ UNCHANGED <<my, scan, ownerFile, terminal, recOwner, liveOwners>>

(* A ticket cannot be read, or a dead one not be abandoned.                *)
ScanFails(c) ==
    /\ Live(c)
    /\ claimPc[c] = "scan"
    /\ c \in FaultyScan
    /\ ClaimGoesTo(c, "withdraw")
    /\ UNCHANGED <<my, scan, ownerFile, terminal, recOwner, liveOwners>>

(* A bug: record.owner names the instance and not the claim.               *)
Record_InstanceId(c) ==
    /\ Live(c)
    /\ claimPc[c] = "record"
    /\ recOwner' = InstanceOf[c]
    /\ ClaimGoesTo(c, "held")
    /\ UNCHANGED <<my, scan, ownerFile, terminal, liveOwners>>

(* updateRun writes record.owner, and claimRun returns the ticket.         *)
Record(c) ==
    /\ Live(c)
    /\ claimPc[c] = "record"
    /\ recOwner' = c
    /\ ClaimGoesTo(c, "held")
    /\ UNCHANGED <<my, scan, ownerFile, terminal, liveOwners>>

(* updateRun failed, before its write (busy transaction lock, corrupt      *)
(* record) or after it (the lock's release): terminate the ticket.         *)
RecordFails(c) ==
    /\ Live(c)
    /\ claimPc[c] = "record"
    /\ recOwner' \in {recOwner, c}
    /\ ClaimGoesTo(c, "withdraw")
    /\ UNCHANGED <<my, scan, ownerFile, terminal, liveOwners>>

Withdraw(c) ==
    /\ Live(c)
    /\ claimPc[c] = "withdraw"
    /\ Terminate(my[c], "released")
    /\ ClaimGoesTo(c, "denied")
    /\ UNCHANGED <<my, scan, ownerFile, recOwner, liveOwners>>

(* A bug: the ticket of another instance's claim is terminated as well.    *)
ReleaseClaim_Foreign(i, c, state) ==
    /\ i \in liveOwners
    /\ claimPc[c] = "held"
    /\ \E t \in Published : ownerFile[t] = c /\ Terminate(t, state)
    /\ IF InstanceOf[c] = i THEN ClaimGoesTo(c, "released") ELSE UNCHANGED claimPc
    /\ UNCHANGED <<my, scan, ownerFile, recOwner, liveOwners>>

(* releaseRun and abandonRun by an instance, for a claimId it may have     *)
(* read from run.json: only a ticket whose owner.json names that claimId   *)
(* and this very instance is terminated.                                   *)
ReleaseClaim(i, c, state) ==
    /\ i \in liveOwners
    /\ claimPc[c] = "held"
    /\ InstanceOf[c] = i
    /\ \E t \in Published : ownerFile[t] = c /\ Terminate(t, state)
    /\ ClaimGoesTo(c, "released")
    /\ UNCHANGED <<my, scan, ownerFile, recOwner, liveOwners>>

(* The process of an instance dies, at any point of any of its calls.      *)
InstanceDies(i) ==
    /\ i \in liveOwners
    /\ liveOwners' = liveOwners \ {i}
    /\ UNCHANGED <<claimPc, my, scan, ownerFile, terminal, recOwner>>

ClaimStep(c) ==
    \/ List(c) \/ PublishWins(c) \/ PublishLoses(c)
    \/ ScanSkips(c) \/ ScanAbandons(c) \/ ScanEnds(c) \/ ScanFails(c)
    \/ Record(c) \/ RecordFails(c) \/ Withdraw(c)

ClaimsNext ==
    \/ \E c \in Claim : ClaimStep(c)
    \/ \E i \in Instance, c \in Claim, state \in {"released", "abandoned"} :
         ReleaseClaim(i, c, state)
    \/ \E i \in Instance : InstanceDies(i)

ClaimsSpec == ClaimsInit /\ [][ClaimsNext]_claimVars

(* A call of claimRun that has started runs on as long as its process      *)
(* lives: it has no wait but the bounded one for the transaction lock.     *)
ClaimsFairSpec == ClaimsSpec /\ \A c \in Claim : WF_claimVars(claimPc[c] # "idle" /\ ClaimStep(c))

-----------------------------------------------------------------------------
(* The live claims that claimRun has granted, or is about to grant.        *)
Granted == {c \in Claim : Live(c) /\ claimPc[c] \in {"record", "held"}}
Holding == {c \in Claim : Live(c) /\ claimPc[c] = "held"}

(* Two live calls never both pass the scan, whatever the order of their    *)
(* listings, renames and scans, and whoever died before or between: no two *)
(* coordinators run the same durable run.                                  *)
ExclusiveClaim == \A c, d \in Granted : c = d

(* While a claim is held, record.owner of run.json names it: the delayed   *)
(* updateRun of an earlier claimant never overwrites it.                   *)
RecordNamesHolder == \A c \in Holding : recOwner = c

(* A ticket whose holder lives and has not given it back stays open, so no *)
(* scan may pass it: nobody else's abandon or release terminates it.       *)
HeldTicketStaysOpen ==
    \A c \in Granted : ownerFile[my[c]] = c /\ terminal[my[c]] = "none"

(* The claims as an exclusive resource.                                    *)
ClaimUse == INSTANCE ExclusiveUse WITH Client <- Claim, users <- Holding
ClaimUseSpec == ClaimUse!Spec

(* A call of claimRun that has published its ticket comes to an answer,    *)
(* unless its process dies: contention, dead tickets and failed updates    *)
(* never leave it scanning or retrying for ever.                           *)
ClaimRuns(c) == claimPc[c] \notin {"idle", "held", "denied", "released"} /\ Live(c)
ClaimReturns == \A c \in Claim : ClaimRuns(c) ~> ~ClaimRuns(c)

(* Crashed owners do not lock a run for ever: a call that starts its scan  *)
(* when every other claim is over or died (with its pid free) is granted,  *)
(* or gives up only because its own updateRun failed.                      *)
ClaimOver(d) ==
    \/ claimPc[d] \in {"denied", "released"}
    \/ ~Live(d) /\ InstanceOf[d] \notin ReusedPid
OthersOver(c) == \A d \in Claim \ {c} : ClaimOver(d)
ClaimDue(c) == claimPc[c] = "scan" /\ scan[c] = 1 /\ OthersOver(c) /\ c \notin FaultyScan
ClaimGranted(c) == claimPc[c] \in {"record", "held"} \/ ~Live(c)
DeadClaimsDoNotBlock == \A c \in Claim : ClaimDue(c) ~> ClaimGranted(c)

(* One claim of a live process owns a run, and while it does its ticket is *)
(* open and the record names it.                                           *)
ClaimsSafe ==
    /\ ClaimsTypeOK
    /\ ExclusiveClaim
    /\ RecordNamesHolder
    /\ HeldTicketStaysOpen
=============================================================================
