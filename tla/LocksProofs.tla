----------------------------- MODULE LocksProofs ----------------------------
(***************************************************************************)
(* Proofs about the three locks of pi-agents, which share no state: the    *)
(* ownership claims of a run (RunClaims), the lease of a session           *)
(* (SessionLease) and the transaction lock of a run directory (TxLock).    *)
(* Each is shown to implement ExclusiveUse.                                *)
(***************************************************************************)
EXTENDS RunClaims, SessionLease, TxLock, FiniteSetTheorems, TLAPS

(***************************************************************************)
(* Proofs about RunClaims, for any number of claims, instances and tickets *)
(* and for any set of reused pids.                                         *)
(*                                                                         *)
(* The invariants are not inductive alone.  What carries them is that the  *)
(* published tickets have no gap, that a ticket and its owner name each    *)
(* other, that a live claim's ticket stays open from its publication to    *)
(* its end, and that a scan leaves only terminated tickets behind it.  Two *)
(* granted claims would then have two open tickets, one below the other.   *)
(***************************************************************************)

PublishedPc == {"scan", "record", "withdraw", "held", "denied", "released"}
OpenPc == {"scan", "record", "held"}

NoGap == \A s, t \in Ticket : s < t /\ t \in Published => s \in Published

Blank == \A t \in Ticket : t \notin Published => terminal[t] = "none"

Choosing == \A c \in Claim : claimPc[c] = "publish" =>
              /\ my[c] \in Ticket
              /\ \A s \in Ticket : s < my[c] => s \in Published

Signed == /\ \A c \in Claim : claimPc[c] \in PublishedPc =>
               my[c] \in Ticket /\ ownerFile[my[c]] = c
          /\ \A c \in Claim, t \in Ticket : ownerFile[t] = c =>
               claimPc[c] \in PublishedPc /\ my[c] = t

Open == \A c \in Claim : Live(c) /\ claimPc[c] \in OpenPc => terminal[my[c]] = "none"

Scanned == \A c \in Claim : Live(c) /\ claimPc[c] = "scan" =>
             /\ scan[c] \in Ticket
             /\ scan[c] <= my[c]
             /\ \A s \in Ticket : s < scan[c] => terminal[s] # "none"

Lowest == \A c \in Granted, s \in Ticket : s < my[c] => terminal[s] # "none"

ClaimsInv == /\ ClaimsTypeOK /\ NoGap /\ Blank /\ Choosing /\ Signed /\ Open /\ Scanned
             /\ Lowest /\ RecordNamesHolder

(* Two granted claims would own two open tickets, and the holder of the    *)
(* higher one would have left the lower one terminated behind its scan.    *)
LEMMA ClaimsInvExclusive == ClaimsInv => ExclusiveClaim
<1> SUFFICES ASSUME ClaimsInv, NEW c \in Granted, NEW d \in Granted, c # d
             PROVE FALSE
    BY DEF ExclusiveClaim
<1>1. /\ c \in Claim /\ d \in Claim
      /\ my[c] \in Ticket /\ my[d] \in Ticket
      /\ ownerFile[my[c]] = c /\ ownerFile[my[d]] = d
    BY DEF ClaimsInv, Signed, Granted, PublishedPc
<1>2. terminal[my[c]] = "none" /\ terminal[my[d]] = "none"
    BY DEF ClaimsInv, Open, Granted, OpenPc
<1>3. my[c] < my[d] \/ my[d] < my[c]
    BY <1>1, ClaimAssumption DEF Ticket
<1> QED
    BY <1>1, <1>2, <1>3 DEF ClaimsInv, Lowest

LEMMA ClaimsInvInit == ClaimsInit => ClaimsInv
BY ClaimAssumption DEF ClaimsInit, ClaimsInv, ClaimsTypeOK, NoGap, Blank, Choosing, Signed, Open, Scanned,
   Lowest, RecordNamesHolder, Published, Holding, Granted, PublishedPc, OpenPc,
   ClaimPcs, Ticket

LEMMA ClaimsInvStep == ClaimsInv /\ [ClaimsNext]_claimVars => ClaimsInv'
<1> SUFFICES ASSUME ClaimsInv, [ClaimsNext]_claimVars PROVE ClaimsInv'
    OBVIOUS
<1> USE ClaimAssumption
    DEF ClaimsInv, ClaimsTypeOK, NoGap, Blank, Choosing, Signed, Open, Scanned, Lowest,
        RecordNamesHolder, Published, Holding, Granted, PublishedPc, OpenPc,
        ClaimPcs, Ticket, Live, ClaimGoesTo
<1>1. ASSUME NEW c \in Claim, List(c) PROVE ClaimsInv'
    BY SMTT(30), <1>1 DEF List
<1>2. ASSUME NEW c \in Claim, PublishWins(c) PROVE ClaimsInv'
    <2>1. /\ my[c] \in Ticket /\ my[c] \notin Published
          /\ claimPc' = [claimPc EXCEPT ![c] = "scan"]
          /\ ownerFile' = [ownerFile EXCEPT ![my[c]] = c]
          /\ scan' = [scan EXCEPT ![c] = 1]
          /\ UNCHANGED <<my, terminal, recOwner, liveOwners>>
        BY <1>2 DEF PublishWins
    <2>2. terminal[my[c]] = "none"
        BY <2>1
    <2>3. (NoGap /\ Blank /\ Choosing)'
        <3>1. \A t \in Ticket : ownerFile'[t] # NoClaim <=> t \in Published \/ t = my[c]
            BY <2>1
        <3>2. \A s \in Ticket : s < my[c] => s \in Published
            BY <1>2 DEF PublishWins
        <3>3. NoGap'
            BY <3>1, <3>2
        <3>4. Blank'
            BY <2>1, <3>1
        <3>5. Choosing'
            BY <2>1, <3>1
        <3> QED
            BY <3>3, <3>4, <3>5
    <2>4. Signed'
        BY <2>1
    <2>5. (ClaimsTypeOK /\ Open /\ Scanned)'
        BY <2>1, <2>2
    <2>6. (Lowest /\ RecordNamesHolder)'
        BY <2>1
    <2> QED
        BY <2>3, <2>4, <2>5, <2>6
<1>3. ASSUME NEW c \in Claim, PublishLoses(c) PROVE ClaimsInv'
    BY <1>3 DEF PublishLoses
<1>4. ASSUME NEW c \in Claim, ScanSkips(c) PROVE ClaimsInv'
    <2>1. /\ scan[c] \in Ticket /\ terminal[scan[c]] # "none" /\ claimPc[c] = "scan"
          /\ scan' = [scan EXCEPT ![c] = scan[c] + 1]
          /\ UNCHANGED <<claimPc, my, ownerFile, terminal, recOwner, liveOwners>>
        BY <1>4 DEF ScanSkips
    <2>2. scan[c] < my[c]        \* the caller's own ticket is open
        BY <1>4, <2>1 DEF ScanSkips
    <2>3. Scanned'
        BY <2>1, <2>2
    <2>4. ClaimsTypeOK'
        BY <2>1, <2>2
    <2>5. (NoGap /\ Blank /\ Choosing /\ Signed /\ Open)'
        BY <2>1
    <2>6. (Lowest /\ RecordNamesHolder)'
        BY <2>1
    <2> QED
        BY <2>3, <2>4, <2>5, <2>6
<1>5. ASSUME NEW c \in Claim, ScanAbandons(c) PROVE ClaimsInv'
    <2>1. /\ scan[c] \in Ticket /\ ownerFile[scan[c]] \in Claim
          /\ ~Live(ownerFile[scan[c]])
        BY <1>5 DEF ScanAbandons, OwnerAlive, PidAlive
    <2>2. scan[c] < my[c]        \* the caller's own ticket has a live owner
        BY <1>5, <2>1 DEF ScanAbandons
    <2>3. terminal' = [terminal EXCEPT ![scan[c]] = "abandoned"]
        BY <1>5 DEF ScanAbandons, Terminate
    <2>4. \A d \in Claim : Live(d) /\ claimPc[d] \in OpenPc => my[d] # scan[c]
        BY <2>1
    <2>5. Open'
        BY <1>5, <2>1, <2>3, <2>4 DEF ScanAbandons
    <2>6. Scanned'
        BY SMTT(30), <1>5, <2>1, <2>2, <2>3 DEF ScanAbandons
    <2>7. Lowest'
        BY <1>5, <2>1, <2>3 DEF ScanAbandons
    <2>8. (ClaimsTypeOK /\ NoGap /\ Blank /\ Choosing /\ Signed /\ RecordNamesHolder)'
        BY <1>5, <2>1, <2>2, <2>3 DEF ScanAbandons
    <2> QED
        BY <2>5, <2>6, <2>7, <2>8
<1>6. ASSUME NEW c \in Claim, ScanEnds(c) PROVE ClaimsInv'
    <2>1. Lowest'
        <3> SUFFICES ASSUME NEW d \in Granted', NEW s \in Ticket, s < my'[d]
                     PROVE terminal'[s] # "none"
            OBVIOUS
        <3>1. /\ d \in Claim /\ Live(d)
              /\ UNCHANGED <<my, terminal>>
              /\ d # c => d \in Granted
              /\ d = c => my[c] = scan[c]
            BY <1>6 DEF ScanEnds
        <3> QED
            BY <1>6, <3>1 DEF ScanEnds
    <2>2. (ClaimsTypeOK /\ NoGap /\ Blank /\ Choosing /\ Signed /\ Open /\ Scanned)'
        <3>1. PICK label \in {"record", "withdraw"} :
                /\ claimPc[c] = "scan" /\ claimPc' = [claimPc EXCEPT ![c] = label]
                /\ UNCHANGED <<my, scan, ownerFile, terminal, recOwner, liveOwners>>
            BY <1>6 DEF ScanEnds
        <3> QED
            BY <3>1
    <2>3. RecordNamesHolder'
        BY <1>6 DEF ScanEnds
    <2> QED
        BY <2>1, <2>2, <2>3
<1>7. ASSUME NEW c \in Claim, ScanFails(c) PROVE ClaimsInv'
    BY <1>7 DEF ScanFails
<1>8. ASSUME NEW c \in Claim, Record(c) PROVE ClaimsInv'
    <2>1. \A d \in Granted : d = c
        BY <1>8, ClaimsInvExclusive DEF Record, ExclusiveClaim
    <2>2. RecordNamesHolder'
        BY <1>8, <2>1 DEF Record
    <2>3. (ClaimsTypeOK /\ NoGap /\ Blank /\ Choosing /\ Signed /\ Open /\ Scanned /\ Lowest)'
        BY <1>8 DEF Record
    <2> QED
        BY <2>2, <2>3
<1>9. ASSUME NEW c \in Claim, RecordFails(c) PROVE ClaimsInv'
    BY <1>9, ClaimsInvExclusive DEF RecordFails, ExclusiveClaim
<1>10. ASSUME NEW c \in Claim, Withdraw(c) PROVE ClaimsInv'
    BY <1>10 DEF Withdraw, Terminate
<1>11. ASSUME NEW i \in Instance, NEW c \in Claim,
              NEW ending \in {"released", "abandoned"}, ReleaseClaim(i, c, ending)
       PROVE ClaimsInv'
    BY <1>11 DEF ReleaseClaim, Terminate
<1>12. ASSUME NEW i \in Instance, InstanceDies(i) PROVE ClaimsInv'
    BY <1>12 DEF InstanceDies
<1>13. CASE UNCHANGED claimVars
    BY <1>13 DEF claimVars
<1> HIDE DEF ClaimsInv
<1> QED
    BY <1>1, <1>2, <1>3, <1>4, <1>5, <1>6, <1>7, <1>8, <1>9, <1>10, <1>11,
       <1>12, <1>13 DEF ClaimsNext, ClaimStep

THEOREM ClaimsInvAlways == ClaimsSpec => []ClaimsInv
<1>1. ClaimsInit => ClaimsInv
    BY ClaimsInvInit
<1>2. ClaimsInv /\ [ClaimsNext]_claimVars => ClaimsInv'
    BY ClaimsInvStep
<1> QED
    BY <1>1, <1>2, PTL DEF ClaimsSpec

(* Every variable keeps its type: in particular no call ever needs a       *)
(* ticket beyond one past the highest published one.                       *)
THEOREM ClaimsTyped == ClaimsSpec => []ClaimsTypeOK
<1>1. ClaimsInv => ClaimsTypeOK
    BY DEF ClaimsInv
<1> QED
    BY <1>1, ClaimsInvAlways, PTL

(* No two live calls of claimRun are granted the same run, whatever the    *)
(* interleaving and whoever crashed.                                       *)
THEOREM ClaimsExclude == ClaimsSpec => []ExclusiveClaim
    BY ClaimsInvExclusive, ClaimsInvAlways, PTL

(* record.owner of run.json names the live holder of the claim.            *)
THEOREM RecordTrue == ClaimsSpec => []RecordNamesHolder
<1>1. ClaimsInv => RecordNamesHolder
    BY DEF ClaimsInv
<1> QED
    BY <1>1, ClaimsInvAlways, PTL

(* Nobody terminates the ticket of a live claim that has not given it up.  *)
THEOREM TicketStaysOpen == ClaimsSpec => []HeldTicketStaysOpen
<1>1. ClaimsInv => HeldTicketStaysOpen
    BY DEF ClaimsInv, Signed, Open, HeldTicketStaysOpen, Granted, PublishedPc, OpenPc
<1> QED
    BY <1>1, ClaimsInvAlways, PTL

-----------------------------------------------------------------------------
(* The holders of claims use the run as an exclusive resource: the update  *)
(* of record.owner enters it, a release, an abandon or a death leaves it.  *)
LEMMA ClaimUseInit == ClaimsInit => ClaimUse!Init
BY DEF ClaimsInit, ClaimUse!Init, Holding

LEMMA ClaimUseStep == ClaimsInv /\ [ClaimsNext]_claimVars => [ClaimUse!Next]_Holding
<1> SUFFICES ASSUME ClaimsInv, [ClaimsNext]_claimVars PROVE [ClaimUse!Next]_Holding
    OBVIOUS
<1> USE ClaimAssumption DEF Holding, Live, ClaimGoesTo
<1>0. claimPc \in [Claim -> ClaimPcs] /\ liveOwners \subseteq Instance
    BY DEF ClaimsInv, ClaimsTypeOK
<1>1. ASSUME NEW c \in Claim, Record(c) PROVE ClaimUse!Next
    <2>1. Holding = {}
        BY <1>1, ClaimsInvExclusive DEF Record, ExclusiveClaim, Granted
    <2>2. Holding' = {c}
        BY <1>0, <1>1, <2>1 DEF Record
    <2> QED
        BY <2>1, <2>2 DEF ClaimUse!Next, ClaimUse!Enter
<1>2. ASSUME NEW i \in Instance, NEW c \in Claim,
             NEW ending \in {"released", "abandoned"}, ReleaseClaim(i, c, ending)
      PROVE ClaimUse!Next
    <2>1. c \in Holding /\ Holding' = Holding \ {c}
        BY <1>0, <1>2 DEF ReleaseClaim
    <2>2. ClaimUse!Leave({c})
        BY <2>1 DEF ClaimUse!Leave
    <2> QED
        BY <2>2 DEF ClaimUse!Next
<1>3. ASSUME NEW i \in Instance, InstanceDies(i) PROVE [ClaimUse!Next]_Holding
    <2> DEFINE gone == {c \in Holding : InstanceOf[c] = i}
    <2>1. Holding' = Holding \ gone /\ gone \in SUBSET Claim
        BY <1>0, <1>3 DEF InstanceDies
    <2>2. CASE gone = {}
        BY <2>1, <2>2
    <2>3. CASE gone # {}
        BY <2>1, <2>3 DEF ClaimUse!Next, ClaimUse!Leave
    <2> QED
        BY <2>2, <2>3
<1>4. ASSUME NEW c \in Claim,
             \/ List(c) \/ PublishWins(c) \/ PublishLoses(c) \/ ScanSkips(c)
             \/ ScanAbandons(c) \/ ScanEnds(c) \/ ScanFails(c) \/ RecordFails(c)
             \/ Withdraw(c)
      PROVE UNCHANGED Holding
    BY <1>0, <1>4 DEF List, PublishWins, PublishLoses, ScanSkips, ScanAbandons,
       ScanEnds, ScanFails, RecordFails, Withdraw
<1>5. CASE UNCHANGED claimVars
    BY <1>5 DEF claimVars
<1> QED
    BY <1>1, <1>2, <1>3, <1>4, <1>5 DEF ClaimsNext, ClaimStep

(* The ticket protocol implements exclusive use of the run.                *)
THEOREM ClaimsRefine == ClaimsSpec => ClaimUseSpec
    BY ClaimUseInit, ClaimUseStep, ClaimsInvAlways, PTL DEF ClaimsSpec, ClaimUseSpec, ClaimUse!Spec

(* What the runs check of claims together.                                 *)
THEOREM ClaimsAreSafe == ClaimsSpec => []ClaimsSafe
BY ClaimsTyped, ClaimsExclude, RecordTrue, TicketStaysOpen, PTL DEF ClaimsSafe

-----------------------------------------------------------------------------
(***************************************************************************)
(* Proofs about SessionLease: one owner at a time, none after an uncertain *)
(* exit, for any number of calls.                                          *)
(*                                                                         *)
(* The calls under way form a queue: each but the first has the one before *)
(* it as its predecessor, and the tail is the last.  So only the first     *)
(* ever looks at the store, and what it awaits is what the store holds     *)
(* until that record is released.                                          *)
(***************************************************************************)
UnderWay == {"queued", "waiting"}

Queue(q, n) ==
    /\ n \in Nat /\ q \in [1..n -> Call]
    /\ \A i, j \in 1..n : q[i] = q[j] => i = j
    /\ \A c \in Call : callPc[c] \in UnderWay <=> \E i \in 1..n : q[i] = c
    /\ n = 0 => tail = NoCall
    /\ n # 0 => tail = q[n]
    /\ \A i \in 1..n : i # 1 => callPc[q[i]] = "queued" /\ pred[q[i]] = q[i - 1]

Queued == \E n \in Nat : \E q \in [1..n -> Call] : Queue(q, n)

Records ==
    /\ \A c \in Call : callPc[c] = "owner" => lease = c
    /\ lease # NoCall => \/ state[lease] = "open" /\ callPc[lease] = "owner"
                         \/ state[lease] = "failed" /\ callPc[lease] = "ended"
    /\ \A c \in Call : state[c] = "failed" => lease = c
    /\ \A c \in Call : callPc[c] \in {"idle", "queued", "waiting", "refused"} => state[c] = "none"

Awaited ==
    \A c \in Call : callPc[c] = "waiting" =>
        /\ waitsOn[c] # NoCall
        /\ lease = waitsOn[c] \/ (lease = NoCall /\ state[waitsOn[c]] = "released")

Watched == \A w \in Watch : watch[w] = "waiting" => waitsOn[w] # NoCall

LeaseInv == LeaseTypeOK /\ Queued /\ Records /\ Awaited

LEMMA LeaseInvInit == LeaseInit => LeaseInv
<1> SUFFICES ASSUME LeaseInit PROVE LeaseInv
    OBVIOUS
<1>1. LeaseTypeOK /\ Records /\ Awaited
    BY DEF LeaseInit, LeaseTypeOK, Records, Awaited
<1>2. Queue([i \in 1..0 |-> NoCall], 0) /\ [i \in 1..0 |-> NoCall] \in [1..0 -> Call]
    BY DEF LeaseInit, Queue, UnderWay
<1> QED
    BY <1>1, <1>2 DEF LeaseInv, Queued

(* Only the first call of the queue has its turn or waits for a record.    *)
LEMMA First ==
    ASSUME LeaseTypeOK, NEW n \in Nat, NEW q \in [1..n -> Call], Queue(q, n), NEW c \in Call,
           (callPc[c] = "queued" /\ SlotFree(pred[c])) \/ callPc[c] = "waiting"
    PROVE  n # 0 /\ c = q[1]
<1>1. PICK i \in 1..n : q[i] = c
    BY DEF Queue, UnderWay
<1>2. i = 1
    <2> SUFFICES ASSUME i # 1 PROVE FALSE
        OBVIOUS
    <2>1. i - 1 \in 1..n /\ callPc[q[i - 1]] \in UnderWay
        BY <1>1 DEF Queue
    <2>2. q[i - 1] \in Call /\ q[i - 1] # NoCall
        BY <2>1, LeaseAssumption
    <2> QED
        BY <1>1, <2>1, <2>2 DEF Queue, SlotFree, UnderWay
<1> QED
    BY <1>1, <1>2

(* A call that frees its slot leaves the queue at its head.                *)
LEMMA Dequeue ==
    ASSUME LeaseTypeOK, NEW n \in Nat, NEW q \in [1..n -> Call], Queue(q, n), n # 0,
           NEW r \in {"owner", "refused"}, FreeSlot(q[1], r), UNCHANGED pred
    PROVE  Queued'
<1> DEFINE m == n - 1
           p == [i \in 1..m |-> q[i + 1]]
<1>1. m \in Nat /\ p \in [1..m -> Call] /\ \A i \in 1..m : i + 1 \in 1..n /\ p[i] = q[i + 1]
    OBVIOUS
<1>2. \A i, j \in 1..m : p[i] = p[j] => i = j
    <2> SUFFICES ASSUME NEW i \in 1..m, NEW j \in 1..m, p[i] = p[j] PROVE i = j
        OBVIOUS
    <2>1. i + 1 = j + 1
        BY <1>1 DEF Queue
    <2> QED
        BY <2>1
<1>3. \A c \in Call : c # q[1] => callPc'[c] = callPc[c]
    BY DEF FreeSlot, LeaseTypeOK
<1>4. callPc'[q[1]] = r /\ q[1] \in Call
    BY DEF FreeSlot, LeaseTypeOK
<1>5. \A i \in 1..m : p[i] # q[1]
    <2> SUFFICES ASSUME NEW i \in 1..m, p[i] = q[1] PROVE FALSE
        OBVIOUS
    <2>1. i + 1 = 1
        BY <1>1 DEF Queue
    <2> QED
        BY <2>1
<1>6. \A c \in Call : callPc'[c] \in UnderWay <=> \E i \in 1..m : p[i] = c
    <2> SUFFICES ASSUME NEW c \in Call
                 PROVE  callPc'[c] \in UnderWay <=> \E i \in 1..m : p[i] = c
        OBVIOUS
    <2>1. CASE c = q[1]
        BY <1>4, <1>5, <2>1 DEF UnderWay
    <2>2. ASSUME c # q[1], NEW i \in 1..n, q[i] = c PROVE \E k \in 1..m : p[k] = c
        <3>1. i - 1 \in 1..m /\ p[i - 1] = c
            BY <2>2
        <3> QED
            BY <3>1
    <2> QED
        BY <1>1, <1>3, <2>1, <2>2 DEF Queue
<1>7. (m = 0 => tail' = NoCall) /\ (m # 0 => tail' = p[m])
    <2>1. CASE m = 0
        BY <2>1 DEF FreeSlot, Queue
    <2>2. CASE m # 0
        <3>1. p[m] = q[n] /\ p[m] # q[1]
            BY <1>5, <2>2
        <3> QED
            BY <2>2, <3>1 DEF FreeSlot, Queue
    <2> QED
        BY <2>1, <2>2
<1>8. \A i \in 1..m : i # 1 => callPc'[p[i]] = "queued" /\ pred'[p[i]] = p[i - 1]
    <2> SUFFICES ASSUME NEW i \in 1..m, i # 1
                 PROVE  callPc'[p[i]] = "queued" /\ pred'[p[i]] = p[i - 1]
        OBVIOUS
    <2>1. i + 1 \in 1..n /\ i + 1 # 1 /\ p[i] = q[i + 1] /\ p[i - 1] = q[i] /\ (i + 1) - 1 = i
        BY <1>1
    <2>2. callPc[q[i + 1]] = "queued" /\ pred[q[i + 1]] = q[i]
        BY <2>1 DEF Queue
    <2> QED
        BY <1>1, <1>3, <1>5, <2>1, <2>2
<1> HIDE DEF m, p
<1>9. Queue(p, m)'
    BY <1>1, <1>2, <1>6, <1>7, <1>8 DEF Queue
<1> QED
    BY <1>1, <1>9 DEF Queued

(* A call that starts joins the queue at its tail.                         *)
LEMMA Enqueue ==
    ASSUME LeaseTypeOK, NEW n \in Nat, NEW q \in [1..n -> Call], Queue(q, n),
           NEW c \in Call, AcquireLease(c)
    PROVE  Queued'
<1> DEFINE m == n + 1
           p == [i \in 1..m |-> IF i = m THEN c ELSE q[i]]
<1>1. m \in Nat /\ p \in [1..m -> Call] /\ p[m] = c /\ \A i \in 1..n : i \in 1..m /\ p[i] = q[i]
    OBVIOUS
<1>2. \A i \in 1..m : i = m \/ i \in 1..n
    OBVIOUS
<1>3. \A i \in 1..n : q[i] # c
    BY DEF Queue, AcquireLease, UnderWay
<1>4. /\ callPc'[c] = "queued" /\ pred'[c] = tail
      /\ \A d \in Call : d # c => callPc'[d] = callPc[d] /\ pred'[d] = pred[d]
    BY DEF AcquireLease, LeaseTypeOK
<1>5. \A i, j \in 1..m : p[i] = p[j] => i = j
    BY <1>1, <1>2, <1>3 DEF Queue
<1>6. \A d \in Call : callPc'[d] \in UnderWay <=> \E i \in 1..m : p[i] = d
    <2> SUFFICES ASSUME NEW d \in Call
                 PROVE  callPc'[d] \in UnderWay <=> \E i \in 1..m : p[i] = d
        OBVIOUS
    <2>1. CASE d = c
        <3>1. m \in 1..m /\ p[m] = d
            BY <1>1, <2>1
        <3> QED
            BY <1>4, <2>1, <3>1 DEF UnderWay
    <2>2. CASE d # c
        BY <1>1, <1>2, <1>4, <2>2 DEF Queue
    <2> QED
        BY <2>1, <2>2
<1>7. \A i \in 1..m : i # 1 => callPc'[p[i]] = "queued" /\ pred'[p[i]] = p[i - 1]
    <2> SUFFICES ASSUME NEW i \in 1..m, i # 1
                 PROVE  callPc'[p[i]] = "queued" /\ pred'[p[i]] = p[i - 1]
        OBVIOUS
    <2>1. CASE i = m
        <3>1. n # 0 /\ i - 1 = n /\ n \in 1..n
            BY <2>1
        <3> QED
            BY <1>1, <1>4, <2>1, <3>1 DEF Queue
    <2>2. CASE i # m
        <3>1. i \in 1..n /\ i - 1 \in 1..n
            BY <2>2
        <3>2. callPc[q[i]] = "queued" /\ pred[q[i]] = q[i - 1] /\ q[i] \in Call /\ q[i] # c
            BY <1>3, <3>1 DEF Queue
        <3> QED
            BY <1>1, <1>4, <3>1, <3>2
    <2> QED
        BY <2>1, <2>2
<1>8. tail' = p[m] /\ m # 0
    BY <1>1 DEF AcquireLease
<1> HIDE DEF m, p
<1>9. Queue(p, m)'
    BY <1>1, <1>5, <1>6, <1>7, <1>8 DEF Queue
<1> QED
    BY <1>1, <1>9 DEF Queued

Moves(c, r) == callPc' = [callPc EXCEPT ![c] = r] /\ UNCHANGED <<pred, tail>>

(* A call that is not behind another keeps the queue as it is when it      *)
(* neither joins nor leaves it.                                            *)
LEMMA Stay ==
    ASSUME LeaseTypeOK, NEW n \in Nat, NEW q \in [1..n -> Call], Queue(q, n),
           NEW c \in Call, NEW r, Moves(c, r),
           callPc[c] \in UnderWay <=> r \in UnderWay, \A i \in 1..n : i # 1 => q[i] # c
    PROVE  Queued'
<1>1. callPc'[c] = r /\ \A d \in Call : d # c => callPc'[d] = callPc[d]
    BY DEF LeaseTypeOK, Moves
<1>2. \A d \in Call : callPc'[d] \in UnderWay <=> callPc[d] \in UnderWay
    BY <1>1
<1>3. \A i \in 1..n : i # 1 => callPc'[q[i]] = "queued" /\ pred'[q[i]] = q[i - 1]
    BY <1>1 DEF Queue, Moves
<1>4. Queue(q, n)'
    BY <1>2, <1>3 DEF Queue, Moves
<1> QED
    BY <1>4 DEF Queued

(* The call at the head of the queue, which finds the store empty or its   *)
(* record released, installs its own.                                      *)
LEMMA InstallKeeps ==
    ASSUME LeaseInv, NEW c \in Call, (callPc[c] = "queued" /\ SlotFree(pred[c])) \/ callPc[c] = "waiting",
           lease = NoCall, Install(c), UNCHANGED <<pred, waitsOn, watch>>
    PROVE  LeaseInv'
<1> USE LeaseAssumption
<1>1. LeaseTypeOK'
    BY DEF LeaseInv, LeaseTypeOK, Install, FreeSlot
<1>2. PICK n \in Nat : \E q \in [1..n -> Call] : Queue(q, n)
    BY DEF LeaseInv, Queued
<1>3. PICK q \in [1..n -> Call] : Queue(q, n)
    BY <1>2
<1>4. n # 0 /\ c = q[1]
    BY <1>3, First DEF LeaseInv
<1>5. Queued'
    BY <1>3, <1>4, Dequeue DEF LeaseInv, Install
<1>6. \A d \in Call : d # c => callPc[d] # "waiting"
    BY <1>3, <1>4, First DEF LeaseInv
<1>7. callPc'[c] = "owner" /\ state'[c] = "open" /\ lease' = c
      /\ \A d \in Call : d # c => callPc'[d] = callPc[d] /\ state'[d] = state[d]
    BY DEF LeaseInv, LeaseTypeOK, Install, FreeSlot
<1>8. Records'
    BY <1>7 DEF LeaseInv, Records
<1>9. Awaited'
    BY <1>6, <1>7 DEF Awaited
<1> QED
    BY <1>1, <1>5, <1>8, <1>9 DEF LeaseInv

LEMMA AcquireKeeps == ASSUME LeaseInv, NEW c \in Call, AcquireLease(c) PROVE LeaseInv'
<1>1. LeaseTypeOK'
    BY DEF LeaseInv, LeaseTypeOK, AcquireLease
<1>2. Queued'
    BY Enqueue DEF LeaseInv, Queued
<1>3. callPc'[c] = "queued" /\ callPc[c] = "idle" /\ \A d \in Call : d # c => callPc'[d] = callPc[d]
    BY DEF LeaseInv, LeaseTypeOK, AcquireLease
<1>4. Records' /\ Awaited'
    BY <1>3, LeaseAssumption DEF LeaseInv, Records, Awaited, AcquireLease, LeaseTypeOK
<1> QED
    BY <1>1, <1>2, <1>4 DEF LeaseInv

LEMMA TurnKeeps == ASSUME LeaseInv, NEW c \in Call, Turn(c) PROVE LeaseInv'
<1> USE LeaseAssumption
<1>1. CASE lease = NoCall /\ Install(c) /\ UNCHANGED waitsOn
    BY <1>1, InstallKeeps DEF Turn
<1>2. CASE /\ lease # NoCall /\ waitsOn' = [waitsOn EXCEPT ![c] = lease]
           /\ callPc' = [callPc EXCEPT ![c] = "waiting"] /\ UNCHANGED <<tail, lease, state>>
    <2>1. LeaseTypeOK'
        BY <1>2 DEF LeaseInv, LeaseTypeOK, Turn
    <2>2. PICK n \in Nat : \E q \in [1..n -> Call] : Queue(q, n)
        BY DEF LeaseInv, Queued
    <2>3. PICK q \in [1..n -> Call] : Queue(q, n)
        BY <2>2
    <2>4. n # 0 /\ c = q[1]
        BY <2>3, First DEF LeaseInv, Turn
    <2>5. \A i \in 1..n : i # 1 => q[i] # c
        BY <2>3, <2>4 DEF Queue
    <2>6. /\ LeaseTypeOK /\ Moves(c, "waiting")
          /\ callPc[c] \in UnderWay <=> "waiting" \in UnderWay
        BY <1>2 DEF LeaseInv, Turn, UnderWay, Moves
    <2>7. Queued'
        BY <2>3, <2>5, <2>6, Stay
    <2>8. callPc'[c] = "waiting" /\ waitsOn'[c] = lease
          /\ \A d \in Call : d # c => callPc'[d] = callPc[d] /\ waitsOn'[d] = waitsOn[d]
        BY <1>2 DEF LeaseInv, LeaseTypeOK
    <2>9. callPc[c] = "queued"
        BY DEF Turn
    <2>10. Records'
        BY <1>2, <2>8, <2>9 DEF LeaseInv, Records, LeaseTypeOK
    <2>11. Awaited'
        BY <1>2, <2>8 DEF LeaseInv, Awaited
    <2> QED
        BY <2>1, <2>7, <2>10, <2>11 DEF LeaseInv
<1> QED
    BY <1>1, <1>2 DEF Turn

LEMMA ResumeKeeps == ASSUME LeaseInv, NEW c \in Call, Resume(c) PROVE LeaseInv'
<1> USE LeaseAssumption
<1>1. CASE state[waitsOn[c]] = "released" /\ Install(c)
    <2>1. lease = NoCall
        BY <1>1 DEF LeaseInv, Records, Awaited, Resume
    <2> QED
        BY <1>1, <2>1, InstallKeeps DEF Resume
<1>2. CASE FreeSlot(c, "refused") /\ UNCHANGED <<lease, state>>
    <2>1. LeaseTypeOK'
        BY <1>2 DEF LeaseInv, LeaseTypeOK, FreeSlot, Resume
    <2>2. PICK n \in Nat : \E q \in [1..n -> Call] : Queue(q, n)
        BY DEF LeaseInv, Queued
    <2>3. PICK q \in [1..n -> Call] : Queue(q, n)
        BY <2>2
    <2>4. n # 0 /\ c = q[1]
        BY <2>3, First DEF LeaseInv, Resume
    <2>5. Queued'
        BY <1>2, <2>3, <2>4, Dequeue DEF LeaseInv, Resume
    <2>6. callPc'[c] = "refused" /\ callPc[c] = "waiting" /\ \A d \in Call : d # c => callPc'[d] = callPc[d]
        BY <1>2 DEF LeaseInv, LeaseTypeOK, FreeSlot, Resume
    <2>7. Records' /\ Awaited'
        BY <1>2, <2>6 DEF LeaseInv, Records, Awaited, Resume, LeaseTypeOK
    <2> QED
        BY <2>1, <2>5, <2>7 DEF LeaseInv
<1> QED
    BY <1>1, <1>2 DEF Resume

LEMMA ReleaseKeeps ==
    ASSUME LeaseInv, NEW c \in Call, NEW r \in {"released", "failed"}, ReleaseLease(c, r) PROVE LeaseInv'
<1> USE LeaseAssumption
<1>1. LeaseTypeOK'
    BY DEF LeaseInv, LeaseTypeOK, ReleaseLease
<1>2. PICK n \in Nat : \E q \in [1..n -> Call] : Queue(q, n)
    BY DEF LeaseInv, Queued
<1>3. PICK q \in [1..n -> Call] : Queue(q, n)
    BY <1>2
<1>4. /\ LeaseTypeOK /\ Moves(c, "ended")
      /\ callPc[c] \notin UnderWay /\ (callPc[c] \in UnderWay <=> "ended" \in UnderWay)
    BY DEF LeaseInv, ReleaseLease, UnderWay, Moves
<1>5. \A i \in 1..n : q[i] # c
    BY <1>3, <1>4 DEF Queue
<1>6. Queued'
    BY <1>3, <1>4, <1>5, Stay
<1>7. callPc'[c] = "ended" /\ callPc[c] = "owner" /\ state'[c] = r /\ lease = c
      /\ \A d \in Call : d # c => callPc'[d] = callPc[d] /\ state'[d] = state[d]
    BY DEF LeaseInv, LeaseTypeOK, Records, ReleaseLease
<1>8. Records'
    BY <1>7 DEF LeaseInv, Records, ReleaseLease, LeaseTypeOK
<1>9. Awaited'
    BY <1>7 DEF LeaseInv, Records, Awaited, ReleaseLease, LeaseTypeOK
<1> QED
    BY <1>1, <1>6, <1>8, <1>9 DEF LeaseInv

(* A watcher, and a step that does nothing, leave the calls alone.         *)
LEMMA WatchKeeps ==
    ASSUME LeaseInv, (\E w \in Watch : Look(w) \/ Seen(w)) \/ UNCHANGED leaseVars PROVE LeaseInv'
<1>1. UNCHANGED <<callPc, pred, tail, lease, state>> /\ \A c \in Call : waitsOn'[c] = waitsOn[c]
    BY LeaseAssumption DEF Look, Seen, leaseVars, LeaseInv, LeaseTypeOK
<1>2. LeaseTypeOK'
    BY <1>1 DEF Look, Seen, leaseVars, LeaseInv, LeaseTypeOK
<1>3. Queued'
    BY <1>1 DEF LeaseInv, Queued, Queue
<1>4. Records' /\ Awaited'
    BY <1>1 DEF LeaseInv, Records, Awaited
<1> QED
    BY <1>2, <1>3, <1>4 DEF LeaseInv

LEMMA LeaseInvStep == LeaseInv /\ [LeaseNext]_leaseVars => LeaseInv'
<1> SUFFICES ASSUME LeaseInv, [LeaseNext]_leaseVars PROVE LeaseInv'
    OBVIOUS
<1>1. ASSUME NEW c \in Call, AcquireLease(c) PROVE LeaseInv'
    BY <1>1, AcquireKeeps
<1>2. ASSUME NEW c \in Call, LeaseStep(c) PROVE LeaseInv'
    BY <1>2, TurnKeeps, ResumeKeeps DEF LeaseStep
<1>3. ASSUME NEW c \in Call, NEW r \in {"released", "failed"}, ReleaseLease(c, r) PROVE LeaseInv'
    BY <1>3, ReleaseKeeps
<1>4. CASE (\E w \in Watch : Look(w) \/ Seen(w)) \/ UNCHANGED leaseVars
    BY <1>4, WatchKeeps
<1> QED
    BY <1>1, <1>2, <1>3, <1>4 DEF LeaseNext

(* The queue, the store and the awaited records stay consistent, whatever  *)
(* order the promises of acquireSessionLease settle in.                    *)
THEOREM LeaseInvAlways == LeaseSpec => []LeaseInv
<1> QED
    BY LeaseInvInit, LeaseInvStep, PTL DEF LeaseSpec

(* The state of the calls keeps its type.                                  *)
THEOREM LeaseTyped == LeaseSpec => []LeaseTypeOK
<1>1. LeaseInv => LeaseTypeOK
    BY DEF LeaseInv
<1> QED
    BY <1>1, LeaseInvAlways, PTL

(* One call at a time owns the session (acquireSessionLease), and the      *)
(* store names it.                                                         *)
THEOREM LeaseOwner == LeaseSpec => []OneOwner
<1>1. ASSUME LeaseInv PROVE OneOwner
    <2> SUFFICES ASSUME NEW c \in Owners PROVE lease = c /\ Cardinality(Owners) = 1
        BY DEF OneOwner
    <2>1. lease = c
        BY <1>1 DEF LeaseInv, Records, Owners
    <2>2. Owners = {c}
        BY <1>1, <2>1 DEF LeaseInv, Records, Owners
    <2> QED
        BY <2>1, <2>2, FS_Singleton
<1> QED
    BY <1>1, LeaseInvAlways, PTL

(* After an uncertain exit nobody owns the session again (the sticky       *)
(* rejection of acquireSessionLease).                                      *)
THEOREM LeaseClosed == LeaseSpec => []FailClosed
<1>1. ASSUME LeaseInv PROVE FailClosed
    <2> SUFFICES ASSUME NEW c \in Call, state[c] = "failed", NEW d \in Owners PROVE FALSE
        BY DEF FailClosed
    <2>1. lease = c /\ lease = d /\ callPc[d] = "owner" /\ c # NoCall
        BY <1>1, LeaseAssumption DEF LeaseInv, Records, Owners
    <2> QED
        BY <1>1, <2>1 DEF LeaseInv, Records
<1> QED
    BY <1>1, LeaseInvAlways, PTL

(* The lease is an exclusive resource: a call starts to use the session    *)
(* only when nobody does.                                                  *)
THEOREM LeaseRefines == LeaseSpec => LeaseUseSpec
<1>1. LeaseInit => LeaseUse!Init
    BY DEF LeaseInit, LeaseUse!Init, Owners
<1>2. ASSUME LeaseInv, LeaseNext PROVE [LeaseUse!Next]_Owners
    <2> USE <1>2
    <2>1. ASSUME NEW c \in Call, (callPc[c] = "queued" \/ callPc[c] = "waiting"), lease = NoCall, Install(c)
          PROVE  LeaseUse!Next
        <3>1. Owners = {}
            BY <2>1, LeaseAssumption DEF LeaseInv, Records, Owners
        <3>2. Owners' = {c}
            BY <2>1, <3>1 DEF LeaseInv, LeaseTypeOK, Install, FreeSlot, Owners
        <3> QED
            BY <3>1, <3>2 DEF LeaseUse!Next, LeaseUse!Enter
    <2>2. ASSUME NEW c \in Call, NEW r \in {"queued", "waiting", "refused"},
                 callPc' = [callPc EXCEPT ![c] = r], callPc[c] # "owner"
          PROVE  UNCHANGED Owners
        BY <2>2 DEF LeaseInv, LeaseTypeOK, Owners
    <2>3. ASSUME NEW c \in Call, AcquireLease(c) PROVE UNCHANGED Owners
        BY <2>2, <2>3 DEF AcquireLease
    <2>4. ASSUME NEW c \in Call, Turn(c) PROVE [LeaseUse!Next]_Owners
        BY <2>1, <2>2, <2>4 DEF Turn
    <2>5. ASSUME NEW c \in Call, Resume(c) PROVE [LeaseUse!Next]_Owners
        <3>1. state[waitsOn[c]] = "released" => lease = NoCall
            BY <2>5, LeaseAssumption DEF LeaseInv, Records, Awaited, Resume
        <3> QED
            BY <2>1, <2>2, <2>5, <3>1 DEF Resume, FreeSlot
    <2>6. ASSUME NEW c \in Call, NEW r \in {"released", "failed"}, ReleaseLease(c, r) PROVE LeaseUse!Next
        <3>1. Owners' = Owners \ {c} /\ {c} \subseteq Owners /\ {c} # {} /\ {c} \in SUBSET Call
            BY <2>6 DEF LeaseInv, LeaseTypeOK, ReleaseLease, Owners
        <3> QED
            BY <3>1 DEF LeaseUse!Next, LeaseUse!Leave
    <2>7. ASSUME NEW w \in Watch, Look(w) \/ Seen(w) PROVE UNCHANGED Owners
        BY <2>7 DEF Look, Seen, Owners
    <2> QED
        BY <2>3, <2>4, <2>5, <2>6, <2>7 DEF LeaseNext, LeaseStep
<1>3. UNCHANGED leaseVars => UNCHANGED Owners
    BY DEF leaseVars, Owners
<1>4. LeaseInv /\ [LeaseNext]_leaseVars => [LeaseUse!Next]_Owners
    BY <1>2, <1>3
<1> QED
    BY <1>1, <1>4, LeaseInvAlways, PTL DEF LeaseSpec, LeaseUseSpec, LeaseUse!Spec

(* What the runs check of leases together.                                 *)
THEOREM LeaseIsSafe == LeaseSpec => []LeaseSafe
BY LeaseTyped, LeaseOwner, LeaseClosed, PTL DEF LeaseSafe

-----------------------------------------------------------------------------
(***************************************************************************)
(* The transaction lock excludes for any number of processes, as long as   *)
(* none dies while it has an intent in the lock directory.  (The runs show *)
(* what a death there may do.)                                             *)
(*                                                                         *)
(* The inductive invariant says what the files of the fixed directory mean *)
(* at each step of the one process that is changing it: an intent there is *)
(* that of a live process in the middle of its transition; a stealer past  *)
(* its recheck sees the directory, the dead owner and its own temp exactly *)
(* as it read them; and a directory, once published, never has the fixed   *)
(* name again after it has lost it.                                        *)
(***************************************************************************)
NoDeathInside == \A r \in Regimes : r.crashAt \cap Transitions = {}

(* What NoDeathInside says of the behaviour at hand.                       *)
Sheltered == crashAt \cap Transitions = {}

Owning == {"check", "verify", "held", "relLink", "relRecheck", "relMove"}
AtWork == {"temp", "link", "recheck", "undo", "transfer", "setAside", "install",
           "dropPrevious", "dropIntent"}

(* The process has published its directory, or never will.                 *)
Past(d) == \/ d \notin alive
           \/ pc[d] \in {"check", "held", "relLink", "relRecheck", "relMove",
                         "relSweep", "done", "busy", "failed"}

Unused == \A p \in Proc : pc[p] \notin Recovering \cup {"finish", "sweep", "failed"}

LiveInside == \A p \in Proc : pc[p] \in Transitions => p \in alive

Directories ==
    /\ Present => Past(fixed)
    /\ \A t \in Proc : tomb[t] # None =>
         /\ pc[t] = "relSweep"
         /\ tomb[t] # fixed
         /\ Past(tomb[t])
         /\ owner[tomb[t]] = t

(* A directory that was never published is as it was created.              *)
Unpublished == \A d \in Proc : ~Past(d) =>
    owner[d] = None /\ previous[d] = None /\ steal[d] = NoIntent /\ release[d] = NoIntent

StealIntents ==
    Present /\ steal[fixed] # NoIntent =>
      /\ steal[fixed].by \in Proc
      /\ pc[steal[fixed].by] \in AtWork \ {"temp", "link"}
      /\ steal[fixed] = seen[steal[fixed].by]

ReleaseIntents ==
    Present /\ release[fixed] # NoIntent =>
      /\ release[fixed].by \in Proc
      /\ pc[release[fixed].by] \in {"relRecheck", "relMove"}
      /\ owner[fixed] = release[fixed].by

PreviousOwner ==
    Present /\ previous[fixed] # None =>
      /\ steal[fixed] # NoIntent
      /\ pc[steal[fixed].by] \in {"install", "dropPrevious"}
      /\ previous[fixed] = seen[steal[fixed].by].owner

Stealers ==
    \A p \in Proc :
      /\ pc[p] \in AtWork =>
           /\ seen[p].by = p /\ seen[p].dir \in Proc /\ seen[p].owner \in Proc
           /\ seen[p].owner \notin alive
           /\ Past(seen[p].dir)
      /\ pc[p] \in AtWork \ {"temp", "dropPrevious", "dropIntent"}
           /\ fixed = seen[p].dir => p \in temps[fixed]
      /\ pc[p] \in {"recheck", "undo"} /\ fixed = seen[p].dir => steal[fixed] = seen[p]
      /\ pc[p] \in {"transfer", "setAside", "install", "dropPrevious", "dropIntent"}
           => fixed = seen[p].dir /\ steal[fixed] = seen[p]
      /\ pc[p] \in {"transfer", "setAside"} => owner[fixed] = seen[p].owner
      /\ pc[p] = "install" => owner[fixed] = None
      /\ pc[p] \in {"dropPrevious", "dropIntent"} => owner[fixed] = p

OwnerFiles ==
    \A p \in alive :
      /\ pc[p] \in Owning => OwnedBy(p)
      /\ pc[p] \in {"held", "relLink", "relRecheck", "relMove"} =>
           seen[p] = [by |-> p, owner |-> p, dir |-> fixed]
      /\ pc[p] \in {"relRecheck", "relMove"} => release[fixed] = seen[p]
      /\ pc[p] = "relSweep" => tomb[p] = seen[p].dir /\ tomb[p] # None

LockInv == /\ TypeOK /\ Unused /\ LiveInside /\ Directories /\ Unpublished
           /\ StealIntents
           /\ ReleaseIntents /\ PreviousOwner /\ Stealers /\ OwnerFiles

LEMMA ShelteredAlways == ASSUME NoDeathInside PROVE Spec => []Sheltered
<1>1. Init => Sheltered
    BY DEF Init, Sheltered, NoDeathInside
<1>2. Sheltered /\ [Next]_vars => Sheltered'
    BY DEF Sheltered, Next, vars, Start, Step, Crash
<1> QED
    BY <1>1, <1>2, PTL DEF Spec

LEMMA LockInvExclusive == LockInv => MutualExclusion
BY DEF LockInv, OwnerFiles, Owning, MutualExclusion, Inside, OwnedBy

LEMMA LockInvInit == Init => LockInv
BY LockAssumption
   DEF Init, LockInv, TypeOK, Unused, LiveInside, Directories, Unpublished, StealIntents,
       ReleaseIntents, PreviousOwner, Stealers, OwnerFiles, Owning, AtWork, Past,
       Transitions, Recovering, PcValues, ProcOrNone, Intent, NoIntent, Present

(* The labels the actions go to.                                           *)
LEMMA Labels ==
    {"idle", "try", "publish", "check", "readRelease", "readOwner", "finish",
     "sweep", "verify", "wait", "held", "done", "busy", "failed", "temp", "link",
     "recheck", "undo", "transfer", "setAside", "install", "dropPrevious",
     "dropIntent", "recover", "clear", "clearRestore", "dropOwner", "restore",
     "clearIntent", "relLink", "relRecheck", "relMove", "relSweep"} \subseteq PcValues
BY DEF PcValues, Stealing, Recovering, Releasing

LEMMA IntentTypes ==
    /\ NoIntent \in Intent
    /\ \A i \in Intent : i.by \in ProcOrNone /\ i.owner \in ProcOrNone /\ i.dir \in ProcOrNone
    /\ \A p, q, d \in ProcOrNone : [by |-> p, owner |-> q, dir |-> d] \in Intent
BY DEF Intent, NoIntent, ProcOrNone

LEMMA GaveWay ==
    ASSUME TypeOK, NEW p \in Proc, GiveWay(p)
    PROVE  pc' \in [Proc -> PcValues] /\ seen' \in [Proc -> Intent]
<1>1. "wait" \in PcValues
    BY Labels
<1> QED
    BY <1>1, IntentTypes DEF TypeOK, GiveWay, GoTo, Forget

LEMMA TempDropped ==
    ASSUME TypeOK, NEW q \in Proc, DropTempOf(q)
    PROVE  temps' \in [Proc -> SUBSET Proc]
BY DEF TypeOK, DropTempOf

LEMMA TypeStep == TypeOK /\ [Next]_vars => TypeOK'
<1> USE IntentTypes, GaveWay DEF TypeOK, ProcOrNone, Present, CanLink, At, GoTo,
            names, owners, intents
<1>1. ASSUME TypeOK, NEW p \in Proc, Start(p), UNCHANGED crashAt
      PROVE  TypeOK'
    <2>1. "try" \in PcValues
        BY Labels
    <2> QED
        BY <1>1, <2>1 DEF Start, RemoveTombs
<1>2. ASSUME TypeOK, NEW p \in Proc, SeeNoLock(p), UNCHANGED crashAt
      PROVE  TypeOK'
    <2>1. "publish" \in PcValues
        BY Labels
    <2> QED
        BY <1>2, <2>1 DEF SeeNoLock
<1>3. ASSUME TypeOK, NEW p \in Proc, SeeStealIntent(p), UNCHANGED crashAt
      PROVE  TypeOK'
    <2>1. "wait" \in PcValues /\ "recover" \in PcValues
        BY Labels
    <2>2. CASE ProvenDead(steal[fixed].by)
        <3>1. pc' \in [Proc -> PcValues]
            BY <1>3, <2>1, <2>2 DEF SeeStealIntent
        <3>2. seen' \in [Proc -> Intent]
            <4>1. fixed \in Proc /\ seen' = [seen EXCEPT ![p] = steal[fixed]]
                BY <1>3, <2>2 DEF SeeStealIntent
            <4>2. steal[fixed] \in Intent
                BY <1>3, <4>1
            <4> QED
                BY <1>3, <4>1, <4>2
        <3> QED
            BY <1>3, <2>1, <2>2, <3>1, <3>2 DEF SeeStealIntent
    <2>3. CASE ~(ProvenDead(steal[fixed].by))
        BY <1>3, <2>1, <2>3 DEF SeeStealIntent
    <2> QED
        BY ONLY <2>2, <2>3
<1>4. ASSUME TypeOK, NEW p \in Proc, SeeNoStealIntent(p), UNCHANGED crashAt
      PROVE  TypeOK'
    <2>1. "readRelease" \in PcValues
        BY Labels
    <2> QED
        BY <1>4, <2>1 DEF SeeNoStealIntent
<1>5. ASSUME TypeOK, NEW p \in Proc, Publish(p), UNCHANGED crashAt
      PROVE  TypeOK'
    <2>1. "wait" \in PcValues /\ "check" \in PcValues
        BY Labels
    <2>2. CASE Present
        BY <1>5, <2>1, <2>2 DEF Publish
    <2>3. CASE ~(Present)
        <3>1. pc' \in [Proc -> PcValues]
            BY <1>5, <2>1, <2>3 DEF Publish
        <3>2. owner' \in [Proc -> ProcOrNone]
            BY <1>5, <2>1, <2>3 DEF Publish
        <3> QED
            BY <1>5, <2>1, <2>3, <3>1, <3>2 DEF Publish
    <2> QED
        BY ONLY <2>2, <2>3
<1>6. ASSUME TypeOK, NEW p \in Proc, CheckPublished(p), UNCHANGED crashAt
      PROVE  TypeOK'
    <2>1. "held" \in PcValues /\ "wait" \in PcValues
        BY Labels
    <2>2. CASE OwnedBy(p)
        <3>1. pc' \in [Proc -> PcValues]
            BY <1>6, <2>1, <2>2 DEF CheckPublished, Hold, OwnedBy
        <3>2. seen' \in [Proc -> Intent]
            BY <1>6, <2>1, <2>2 DEF CheckPublished, Hold, OwnedBy
        <3> QED
            BY <1>6, <2>1, <2>2, <3>1, <3>2 DEF CheckPublished, Hold, OwnedBy
    <2>3. CASE ~(OwnedBy(p))
        BY <1>6, <2>1, <2>3 DEF CheckPublished, Hold, OwnedBy
    <2> QED
        BY ONLY <2>2, <2>3
<1>7. ASSUME TypeOK, NEW p \in Proc, Retry(p), UNCHANGED crashAt
      PROVE  TypeOK'
    <2>1. "try" \in PcValues
        BY Labels
    <2> QED
        BY <1>7, <2>1 DEF Retry
<1>8. ASSUME TypeOK, NEW p \in Proc, TimeOut(p), UNCHANGED crashAt
      PROVE  TypeOK'
    <2>1. "busy" \in PcValues
        BY Labels
    <2> QED
        BY <1>8, <2>1 DEF TimeOut
<1>9. ASSUME TypeOK, NEW p \in Proc, ReadRelease(p), UNCHANGED crashAt
      PROVE  TypeOK'
    <2>1. "readOwner" \in PcValues /\ "finish" \in PcValues /\ "wait" \in PcValues
        BY Labels
    <2>2. CASE ~Present \/ release[fixed] = NoIntent
        BY <1>9, <2>1, <2>2 DEF ReadRelease
    <2>3. CASE ~(~Present \/ release[fixed] = NoIntent) /\ (OwnedBy(release[fixed].by)
             /\ ProvenDead(release[fixed].by) /\ release[fixed].dir = fixed)
        <3>1. pc' \in [Proc -> PcValues]
            BY <1>9, <2>1, <2>3 DEF ReadRelease
        <3>2. seen' \in [Proc -> Intent]
            BY <1>9, <2>1, <2>3 DEF ReadRelease
        <3> QED
            BY <1>9, <2>1, <2>3, <3>1, <3>2 DEF ReadRelease
    <2>4. CASE ~(~Present \/ release[fixed] = NoIntent) /\ ~(OwnedBy(release[fixed].by)
             /\ ProvenDead(release[fixed].by) /\ release[fixed].dir = fixed)
        BY <1>9, <2>1, <2>4 DEF ReadRelease
    <2> QED
        BY ONLY <2>2, <2>3, <2>4
<1>10. ASSUME TypeOK, NEW p \in Proc, FinishRelease(p), UNCHANGED crashAt
      PROVE  TypeOK'
    <2>1. "sweep" \in PcValues /\ "wait" \in PcValues
        BY Labels
    <2>2. CASE Present /\ tomb[seen[p].by] = None
        <3>1. fixed \in Proc /\ fixed' = None /\ tomb' = [tomb EXCEPT ![seen[p].by] = fixed]
            BY <1>10, <2>2 DEF FinishRelease
        <3>2. tomb' \in [Proc -> ProcOrNone]
            BY <1>10, <3>1
        <3>3. /\ pc' = [pc EXCEPT ![p] = "sweep"] /\ fixed' = None
              /\ UNCHANGED <<seen, alive, crashAt, owner, previous, temps, steal, release>>
            BY ONLY <1>10, <2>2 DEF FinishRelease, GoTo, owners, intents
        <3> QED
            BY <1>10, <2>1, <3>2, <3>3
    <2>3. CASE ~(Present /\ tomb[seen[p].by] = None)
        BY <1>10, <2>1, <2>3 DEF FinishRelease
    <2> QED
        BY ONLY <2>2, <2>3
<1>11. ASSUME TypeOK, NEW p \in Proc, SweepReleased(p), UNCHANGED crashAt
      PROVE  TypeOK'
    <2>1. "wait" \in PcValues
        BY Labels
    <2> QED
        BY <1>11, <2>1 DEF SweepReleased, RemoveTombs
<1>12. ASSUME TypeOK, NEW p \in Proc, ReadOwner(p), UNCHANGED crashAt
      PROVE  TypeOK'
    <2>1. "temp" \in PcValues /\ "wait" \in PcValues
        BY Labels
    <2>2. CASE Present /\ ProvenDead(owner[fixed])
        <3>1. pc' \in [Proc -> PcValues]
            BY <1>12, <2>1, <2>2 DEF ReadOwner, ProvenDead
        <3>2. seen' \in [Proc -> Intent]
            <4> DEFINE intent == [by |-> p, owner |-> owner[fixed], dir |-> fixed]
            <4>1. intent \in Intent
                BY <1>12, <2>2
            <4>2. seen' = [seen EXCEPT ![p] = intent]
                BY <1>12, <2>2 DEF ReadOwner
            <4> HIDE DEF intent
            <4> QED
                BY <1>12, <4>1, <4>2
        <3> QED
            BY <1>12, <2>1, <2>2, <3>1, <3>2 DEF ReadOwner, ProvenDead
    <2>3. CASE ~(Present /\ ProvenDead(owner[fixed]))
        BY <1>12, <2>1, <2>3 DEF ReadOwner, ProvenDead
    <2> QED
        BY ONLY <2>2, <2>3
<1>13. ASSUME TypeOK, NEW p \in Proc, WriteTemp(p), UNCHANGED crashAt
      PROVE  TypeOK'
    <2>1. "link" \in PcValues /\ "wait" \in PcValues
        BY Labels
    <2>2. CASE Present
        <3>1. pc' \in [Proc -> PcValues]
            BY <1>13, <2>1, <2>2 DEF WriteTemp
        <3>2. temps' \in [Proc -> SUBSET Proc]
            <4>1. fixed \in Proc
                BY <1>13, <2>2
            <4>2. temps' = [temps EXCEPT ![fixed] = temps[fixed] \cup {p}]
                BY <1>13, <2>2 DEF WriteTemp
            <4> QED
                BY <1>13, <4>1, <4>2, Zenon
        <3> QED
            BY <1>13, <2>1, <2>2, <3>1, <3>2 DEF WriteTemp
    <2>3. CASE ~(Present)
        BY <1>13, <2>1, <2>3 DEF WriteTemp
    <2> QED
        BY ONLY <2>2, <2>3
<1>14. ASSUME TypeOK, NEW p \in Proc, LinkSteal(p), UNCHANGED crashAt
      PROVE  TypeOK'
    <2>1. "recheck" \in PcValues /\ "wait" \in PcValues
        BY Labels
    <2>2. CASE Present /\ steal[fixed] = NoIntent
        <3>1. pc' \in [Proc -> PcValues]
            BY <1>14, <2>1, <2>2 DEF LinkSteal, DropTempOf
        <3>2. steal' \in [Proc -> Intent]
            <4>1. fixed \in Proc /\ seen[p] \in Intent
                BY <1>14, <2>2
            <4>2. steal' = [steal EXCEPT ![fixed] = seen[p]]
                BY <1>14, <2>2 DEF LinkSteal
            <4> QED
                BY <1>14, <4>1, <4>2
        <3> QED
            BY <1>14, <2>1, <2>2, <3>1, <3>2 DEF LinkSteal, DropTempOf
    <2>3. CASE ~(Present /\ steal[fixed] = NoIntent)
        <3>1. temps' \in [Proc -> SUBSET Proc]
            BY <1>14, <2>1, <2>3 DEF LinkSteal, DropTempOf
        <3>2. pc' \in [Proc -> PcValues]
            BY <1>14, <2>1, <2>3 DEF LinkSteal, DropTempOf
        <3>3. seen' \in [Proc -> Intent]
            BY <1>14, <2>1, <2>3 DEF LinkSteal, DropTempOf
        <3> QED
            BY <1>14, <2>1, <2>3, <3>1, <3>2, <3>3 DEF LinkSteal, DropTempOf
    <2> QED
        BY ONLY <2>2, <2>3
<1>15. ASSUME TypeOK, NEW p \in Proc, Recheck(p), UNCHANGED crashAt
      PROVE  TypeOK'
    <2>1. "transfer" \in PcValues /\ "undo" \in PcValues
        BY Labels
    <2> QED
        BY <1>15, <2>1 DEF Recheck
<1>16. ASSUME TypeOK, NEW p \in Proc, Undo(p), UNCHANGED crashAt
      PROVE  TypeOK'
    <2>1. "wait" \in PcValues
        BY Labels
    <2> QED
        BY <1>16, <2>1 DEF Undo, DropTempOf, DropSteal
<1>17. ASSUME TypeOK, NEW p \in Proc, CheckTransfer(p), UNCHANGED crashAt
      PROVE  TypeOK'
    <2>1. "setAside" \in PcValues /\ "wait" \in PcValues
        BY Labels
    <2>2. CASE Unchanged(p) /\ previous[fixed] = None
        BY <1>17, <2>1, <2>2 DEF CheckTransfer, DropTempOf
    <2>3. CASE ~(Unchanged(p) /\ previous[fixed] = None)
        <3>1. temps' \in [Proc -> SUBSET Proc]
            BY ONLY <1>17, <2>3, TempDropped DEF CheckTransfer
        <3>2. pc' \in [Proc -> PcValues] /\ seen' \in [Proc -> Intent]
            BY <1>17, <2>1, <2>3 DEF CheckTransfer
        <3> QED
            BY <1>17, <2>3, <3>1, <3>2 DEF CheckTransfer
    <2> QED
        BY ONLY <2>2, <2>3
<1>18. ASSUME TypeOK, NEW p \in Proc, SetOwnerAside(p), UNCHANGED crashAt
      PROVE  TypeOK'
    <2>1. "install" \in PcValues /\ "wait" \in PcValues
        BY Labels
    <2>2. CASE Present /\ owner[fixed] # None
        <3>1. pc' \in [Proc -> PcValues]
            BY <1>18, <2>1, <2>2 DEF SetOwnerAside, DropTempOf
        <3>2. owner' \in [Proc -> ProcOrNone]
            BY <1>18, <2>1, <2>2 DEF SetOwnerAside, DropTempOf
        <3>3. previous' \in [Proc -> ProcOrNone]
            BY <1>18, <2>1, <2>2 DEF SetOwnerAside, DropTempOf
        <3> QED
            BY <1>18, <2>1, <2>2, <3>1, <3>2, <3>3 DEF SetOwnerAside, DropTempOf
    <2>3. CASE ~(Present /\ owner[fixed] # None)
        <3>1. temps' \in [Proc -> SUBSET Proc]
            BY ONLY <1>18, <2>3, TempDropped DEF SetOwnerAside
        <3>2. pc' \in [Proc -> PcValues] /\ seen' \in [Proc -> Intent]
            BY <1>18, <2>1, <2>3 DEF SetOwnerAside
        <3> QED
            BY <1>18, <2>3, <3>1, <3>2 DEF SetOwnerAside
    <2> QED
        BY ONLY <2>2, <2>3
<1>19. ASSUME TypeOK, NEW p \in Proc, InstallOwner(p), UNCHANGED crashAt
      PROVE  TypeOK'
    <2>1. "dropPrevious" \in PcValues /\ "wait" \in PcValues
        BY Labels
    <2>2. CASE Present /\ p \in temps[fixed]
        <3>1. pc' \in [Proc -> PcValues]
            BY <1>19, <2>1, <2>2 DEF InstallOwner, DropTempOf
        <3>2. owner' \in [Proc -> ProcOrNone]
            BY <1>19, <2>1, <2>2 DEF InstallOwner, DropTempOf
        <3>3. temps' \in [Proc -> SUBSET Proc]
            BY <1>19, <2>1, <2>2 DEF InstallOwner, DropTempOf
        <3> QED
            BY <1>19, <2>1, <2>2, <3>1, <3>2, <3>3 DEF InstallOwner, DropTempOf
    <2>3. CASE ~(Present /\ p \in temps[fixed])
        BY <1>19, <2>1, <2>3 DEF InstallOwner, DropTempOf
    <2> QED
        BY ONLY <2>2, <2>3
<1>20. ASSUME TypeOK, NEW p \in Proc, DropPrevious(p), UNCHANGED crashAt
      PROVE  TypeOK'
    <2>1. "dropIntent" \in PcValues /\ "wait" \in PcValues
        BY Labels
    <2>2. CASE OwnedBy(p)
        <3>1. pc' \in [Proc -> PcValues]
            BY <1>20, <2>1, <2>2 DEF DropPrevious
        <3>2. previous' \in [Proc -> ProcOrNone]
            <4>1. CASE previous[fixed] = seen[p].owner
                <5>1. previous' = [previous EXCEPT ![fixed] = None]
                    BY <1>20, <2>2, <4>1 DEF DropPrevious
                <5> QED
                    BY <1>20, <5>1
            <4>2. CASE previous[fixed] # seen[p].owner
                <5>1. previous' = [previous EXCEPT ![fixed] = previous[fixed]]
                    BY <1>20, <2>2, <4>2 DEF DropPrevious
                <5> QED
                    BY <1>20, <5>1
            <4> QED
                BY ONLY <4>1, <4>2
        <3> QED
            BY <1>20, <2>1, <2>2, <3>1, <3>2 DEF DropPrevious
    <2>3. CASE ~(OwnedBy(p))
        BY <1>20, <2>1, <2>3 DEF DropPrevious
    <2> QED
        BY ONLY <2>2, <2>3
<1>21. ASSUME TypeOK, NEW p \in Proc, DropOwnIntent(p), UNCHANGED crashAt
      PROVE  TypeOK'
    <2>1. "verify" \in PcValues
        BY Labels
    <2> QED
        BY <1>21, <2>1 DEF DropOwnIntent, DropSteal
<1>22. ASSUME TypeOK, NEW p \in Proc, VerifyStolen(p), UNCHANGED crashAt
      PROVE  TypeOK'
    <2>1. "held" \in PcValues /\ "try" \in PcValues
        BY Labels
    <2>2. CASE OwnedBy(p)
        <3>1. pc' \in [Proc -> PcValues]
            BY <1>22, <2>1, <2>2 DEF VerifyStolen, Hold, OwnedBy
        <3>2. seen' \in [Proc -> Intent]
            BY <1>22, <2>1, <2>2 DEF VerifyStolen, Hold, OwnedBy
        <3> QED
            BY <1>22, <2>1, <2>2, <3>1, <3>2 DEF VerifyStolen, Hold, OwnedBy
    <2>3. CASE ~(OwnedBy(p))
        <3>1. pc' \in [Proc -> PcValues]
            BY <1>22, <2>1, <2>3 DEF VerifyStolen, Forget, OwnedBy
        <3>2. seen' \in [Proc -> Intent]
            BY <1>22, <2>1, <2>3 DEF VerifyStolen, Forget, OwnedBy
        <3> QED
            BY <1>22, <2>1, <2>3, <3>1, <3>2 DEF VerifyStolen, Forget, OwnedBy
    <2> QED
        BY ONLY <2>2, <2>3
<1>23. ASSUME TypeOK, NEW p \in Proc, Recover(p), UNCHANGED crashAt
      PROVE  TypeOK'
    <2>1. "clear" \in PcValues /\ "clearRestore" \in PcValues /\ "dropOwner" \in PcValues
             /\ "clearIntent" \in PcValues /\ "wait" \in PcValues
        BY Labels
    <2>2. CASE fixed = seen[p].dir /\ TransferState(fixed, seen[p]) # "wait"
        <3>0. TransferState(fixed, seen[p]) \in PcValues
            BY ONLY <2>1, <2>2 DEF TransferState
        <3>1. pc' \in [Proc -> PcValues]
            BY <1>23, <2>2, <3>0 DEF Recover
        <3> QED
            BY <1>23, <2>2, <3>1 DEF Recover
    <2>3. CASE ~(fixed = seen[p].dir /\ TransferState(fixed, seen[p]) # "wait")
        BY <1>23, <2>1, <2>3 DEF Recover, TransferState
    <2> QED
        BY ONLY <2>2, <2>3
<1>24. ASSUME TypeOK, NEW p \in Proc, ClearTemp(p), UNCHANGED crashAt
      PROVE  TypeOK'
    <2>1. "clearIntent" \in PcValues /\ "restore" \in PcValues
        BY Labels
    <2> QED
        BY <1>24, <2>1 DEF ClearTemp, DropTempOf
<1>25. ASSUME TypeOK, NEW p \in Proc, DropOwner(p), UNCHANGED crashAt
      PROVE  TypeOK'
    <2>1. "restore" \in PcValues
        BY Labels
    <2> QED
        BY <1>25, <2>1 DEF DropOwner
<1>26. ASSUME TypeOK, NEW p \in Proc, Restore(p), UNCHANGED crashAt
      PROVE  TypeOK'
    <2>1. "clearIntent" \in PcValues /\ "wait" \in PcValues
        BY Labels
    <2>2. CASE ~(Present /\ previous[fixed] # None)
        BY <1>26, <2>1, <2>2 DEF Restore
    <2>3. CASE ~(~(Present /\ previous[fixed] # None)) /\ (previous[fixed] = seen[p].owner)
        BY <1>26, <2>1, <2>3 DEF Restore
    <2>4. CASE ~(~(Present /\ previous[fixed] # None)) /\ ~(previous[fixed] = seen[p].owner)
        BY <1>26, <2>1, <2>4 DEF Restore
    <2> QED
        BY ONLY <2>2, <2>3, <2>4
<1>27. ASSUME TypeOK, NEW p \in Proc, ClearIntent(p), UNCHANGED crashAt
      PROVE  TypeOK'
    <2>1. "wait" \in PcValues
        BY Labels
    <2> QED
        BY <1>27, <2>1 DEF ClearIntent, DropSteal
<1>28. ASSUME TypeOK, NEW p \in Proc, Release(p), UNCHANGED crashAt
      PROVE  TypeOK'
    <2>1. "relLink" \in PcValues /\ "failed" \in PcValues
        BY Labels
    <2> QED
        BY <1>28, <2>1 DEF Release
<1>29. ASSUME TypeOK, NEW p \in Proc, LinkRelease(p), UNCHANGED crashAt
      PROVE  TypeOK'
    <2>1. "relRecheck" \in PcValues /\ "failed" \in PcValues
        BY Labels
    <2>2. CASE Present /\ release[fixed] = NoIntent
        BY <1>29, <2>1, <2>2 DEF LinkRelease
    <2>3. CASE ~(Present /\ release[fixed] = NoIntent)
        BY <1>29, <2>1, <2>3 DEF LinkRelease
    <2> QED
        BY ONLY <2>2, <2>3
<1>30. ASSUME TypeOK, NEW p \in Proc, RecheckRelease(p), UNCHANGED crashAt
      PROVE  TypeOK'
    <2>1. "relMove" \in PcValues /\ "failed" \in PcValues
        BY Labels
    <2> QED
        <3>1. pc' \in [Proc -> PcValues]
            BY <1>30, <2>1 DEF RecheckRelease
        <3>2. release' \in [Proc -> Intent]
            <4>1. CASE Owns(p)
                BY <1>30, <4>1 DEF RecheckRelease
            <4>2. CASE ~Owns(p)
                BY <1>30, <4>2 DEF RecheckRelease
            <4> QED
                BY ONLY <4>1, <4>2
        <3> QED
            BY <1>30, <2>1, <3>1, <3>2 DEF RecheckRelease
<1>31. ASSUME TypeOK, NEW p \in Proc, MoveLock(p), UNCHANGED crashAt
      PROVE  TypeOK'
    <2>1. "relSweep" \in PcValues /\ "failed" \in PcValues
        BY Labels
    <2> QED
        <3>1. pc' \in [Proc -> PcValues]
            BY <1>31, <2>1 DEF MoveLock
        <3>2. tomb' \in [Proc -> ProcOrNone]
            BY SMTT(30), <1>31, <2>1 DEF MoveLock
        <3>3. fixed' \in ProcOrNone
            BY <1>31, <2>1 DEF MoveLock
        <3> QED
            BY <1>31, <2>1, <3>1, <3>2, <3>3 DEF MoveLock
<1>32. ASSUME TypeOK, NEW p \in Proc, SweepOwn(p), UNCHANGED crashAt
      PROVE  TypeOK'
    <2>1. "done" \in PcValues /\ "failed" \in PcValues
        BY Labels
    <2> QED
        BY <1>32, <2>1 DEF SweepOwn, RemoveTombs
<1>33. ASSUME TypeOK, NEW p \in Proc, Crash(p), UNCHANGED crashAt
      PROVE  TypeOK'
    BY <1>33 DEF Crash
<1>34. ASSUME TypeOK, UNCHANGED vars PROVE TypeOK'
    BY <1>34 DEF vars
<1>35. [Next]_vars => UNCHANGED crashAt
    BY DEF Next, vars, Start, Step, Crash
<1> HIDE DEF TypeOK
<1> QED
    BY <1>1, <1>2, <1>3, <1>4, <1>5, <1>6, <1>7, <1>8, <1>9, <1>10, <1>11,
       <1>12, <1>13, <1>14, <1>15, <1>16, <1>17, <1>18, <1>19, <1>20, <1>21,
       <1>22, <1>23, <1>24, <1>25, <1>26, <1>27, <1>28, <1>29, <1>30, <1>31,
       <1>32, <1>33, <1>34, <1>35
       DEF Next, Step, Acquire, Steal, RecoverDead, GiveBack
LEMMA NoIntentBy == NoIntent.by = None
BY DEF NoIntent

(* What a releasing owner knows of the fixed directory.                    *)
LEMMA OwnerFacts ==
    ASSUME LockInv, NEW p \in alive
    PROVE  /\ pc[p] \in {"held", "relLink", "relRecheck", "relMove"} =>
                /\ fixed \in Proc /\ owner[fixed] = p
                /\ seen[p].by = p /\ seen[p].owner = p /\ seen[p].dir = fixed
           /\ pc[p] \in Owning =>
                Present /\ \A q \in alive \ {p} : pc[q] \notin Owning
           /\ pc[p] = "relSweep" =>
                /\ seen[p].dir = tomb[p] /\ tomb[p] \in Proc
                /\ tomb[p] # fixed /\ owner[tomb[p]] = p
<1>1. ASSUME pc[p] \in {"held", "relLink", "relRecheck", "relMove"}
      PROVE  /\ fixed \in Proc /\ owner[fixed] = p
             /\ seen[p].by = p /\ seen[p].owner = p /\ seen[p].dir = fixed
    <2>1. seen[p] = [by |-> p, owner |-> p, dir |-> fixed]
        BY <1>1 DEF LockInv, OwnerFiles
    <2>2. OwnedBy(p)
        BY <1>1 DEF LockInv, OwnerFiles, Owning
    <2> QED
        BY <2>1, <2>2 DEF OwnedBy, Present, LockInv, TypeOK, ProcOrNone
<1>2. ASSUME pc[p] \in Owning
      PROVE  Present /\ \A q \in alive \ {p} : pc[q] \notin Owning
    BY <1>2 DEF LockInv, OwnerFiles, OwnedBy
<1>3. ASSUME pc[p] = "relSweep"
      PROVE  /\ seen[p].dir = tomb[p] /\ tomb[p] \in Proc
             /\ tomb[p] # fixed /\ owner[tomb[p]] = p
    <2>1. p \in Proc
        BY DEF LockInv, TypeOK
    <2>2. seen[p].dir = tomb[p] /\ tomb[p] # None
        BY <1>3 DEF LockInv, OwnerFiles
    <2>3. tomb[p] # fixed /\ owner[tomb[p]] = p
        BY <2>1, <2>2 DEF LockInv, Directories
    <2>4. tomb[p] \in Proc
        BY <2>1, <2>2 DEF LockInv, TypeOK, ProcOrNone
    <2> QED
        BY <2>2, <2>3, <2>4
<1> QED
    BY <1>1, <1>2, <1>3

LEMMA LockInvStep == LockInv /\ Sheltered /\ [Next]_vars => LockInv'
<1> USE LockAssumption, NoIntentBy
    DEF LockInv, TypeOK, Unused, LiveInside, Directories, Unpublished, StealIntents, ReleaseIntents,
        PreviousOwner, Stealers, OwnerFiles, Owning, AtWork, Past, Transitions, Recovering,
        ProcOrNone, Present, CanLink, OwnedBy, At, GoTo, names, owners, intents
<1>1. ASSUME LockInv, TypeOK', NEW p \in Proc, Start(p) PROVE LockInv'
    <2>1. Unused'
        BY <1>1 DEF Start, RemoveTombs, ProvenDead
    <2>2. LiveInside'
        BY <1>1 DEF Start, RemoveTombs, ProvenDead
    <2>3. Directories'
        BY <1>1 DEF Start, RemoveTombs, ProvenDead
    <2>4. Unpublished'
        BY <1>1 DEF Start, RemoveTombs, ProvenDead
    <2>5. StealIntents'
        <3>1. Present => steal'[fixed] = steal[fixed]
            BY <1>1 DEF Start, RemoveTombs
        <3>2. pc[p] = "idle" /\ pc' = [pc EXCEPT ![p] = "try"] /\ UNCHANGED <<fixed, seen>>
            BY <1>1 DEF Start
        <3> QED
            BY <1>1, <3>1, <3>2
    <2>6. ReleaseIntents'
        BY <1>1 DEF Start, RemoveTombs, ProvenDead
    <2>7. PreviousOwner'
        <3>1. Present => steal'[fixed] = steal[fixed] /\ previous'[fixed] = previous[fixed]
            BY <1>1 DEF Start, RemoveTombs
        <3>2. pc[p] = "idle" /\ pc' = [pc EXCEPT ![p] = "try"] /\ UNCHANGED <<fixed, seen>>
            BY <1>1 DEF Start
        <3> QED
            BY <1>1, <3>1, <3>2
    <2>8. Stealers'
        BY <1>1 DEF Start, RemoveTombs, ProvenDead
    <2>9. OwnerFiles'
        BY <1>1 DEF Start, RemoveTombs, ProvenDead
    <2> QED
        BY <1>1, <2>1, <2>2, <2>3, <2>4, <2>5, <2>6, <2>7, <2>8, <2>9
<1>2. ASSUME LockInv, TypeOK', NEW p \in Proc, SeeNoLock(p) PROVE LockInv'
    BY <1>2 DEF SeeNoLock
<1>3. ASSUME LockInv, TypeOK', NEW p \in Proc, SeeStealIntent(p) PROVE LockInv'
    <2>1. Unused'
        BY <1>3 DEF SeeStealIntent, ProvenDead, GiveWay, Forget
    <2>2. LiveInside'
        BY <1>3 DEF SeeStealIntent, ProvenDead, GiveWay, Forget
    <2>3. Directories'
        BY <1>3 DEF SeeStealIntent, ProvenDead, GiveWay, Forget
    <2>4. Unpublished'
        BY <1>3 DEF SeeStealIntent, ProvenDead, GiveWay, Forget
    <2>5. StealIntents'
        BY <1>3 DEF SeeStealIntent, ProvenDead, GiveWay, Forget
    <2>6. ReleaseIntents'
        BY <1>3 DEF SeeStealIntent, ProvenDead, GiveWay, Forget
    <2>7. PreviousOwner'
        BY <1>3 DEF SeeStealIntent, ProvenDead, GiveWay, Forget
    <2>8. Stealers'
        BY <1>3 DEF SeeStealIntent, ProvenDead, GiveWay, Forget
    <2>9. OwnerFiles'
        BY <1>3 DEF SeeStealIntent, ProvenDead, GiveWay, Forget
    <2> QED
        BY <1>3, <2>1, <2>2, <2>3, <2>4, <2>5, <2>6, <2>7, <2>8, <2>9
<1>4. ASSUME LockInv, TypeOK', NEW p \in Proc, SeeNoStealIntent(p) PROVE LockInv'
    BY <1>4 DEF SeeNoStealIntent
<1>5. ASSUME LockInv, TypeOK', NEW p \in Proc, Publish(p) PROVE LockInv'
    <2>1. Unused'
        BY <1>5 DEF Publish, GiveWay, Forget
    <2>2. LiveInside'
        BY <1>5 DEF Publish, GiveWay, Forget
    <2>3. Directories'
        BY <1>5 DEF Publish, GiveWay, Forget
    <2>4. Unpublished'
        BY <1>5 DEF Publish, GiveWay, Forget
    <2>5. StealIntents'
        BY <1>5 DEF Publish, GiveWay, Forget
    <2>6. ReleaseIntents'
        BY <1>5 DEF Publish, GiveWay, Forget
    <2>7. PreviousOwner'
        BY <1>5 DEF Publish, GiveWay, Forget
    <2>8. Stealers'
        BY <1>5 DEF Publish, GiveWay, Forget
    <2>9. OwnerFiles'
        <3>1. CASE Present
            BY <1>5, OwnerFacts, <3>1 DEF Publish, GiveWay, Forget
        <3>2. CASE ~Present
            <4>1. \A q \in alive : pc[q] \notin Owning
                BY <1>5, OwnerFacts, <3>2
            <4>2. /\ pc' = [pc EXCEPT ![p] = "check"] /\ fixed' = p
                  /\ owner' = [owner EXCEPT ![p] = p]
                  /\ UNCHANGED <<alive, tomb, seen, release>>
                BY <1>5, OwnerFacts, <3>2 DEF Publish
            <4> QED
                BY <1>5, OwnerFacts, <4>1, <4>2
        <3> QED
            BY ONLY <3>1, <3>2
    <2> QED
        BY <1>5, <2>1, <2>2, <2>3, <2>4, <2>5, <2>6, <2>7, <2>8, <2>9
<1>6. ASSUME LockInv, TypeOK', NEW p \in Proc, CheckPublished(p) PROVE LockInv'
    <2>1. /\ OwnedBy(p) /\ p \in alive /\ pc[p] = "check"
          /\ pc' = [pc EXCEPT ![p] = "held"]
          /\ seen' = [seen EXCEPT ![p] = [by |-> p, owner |-> p, dir |-> fixed]]
          /\ UNCHANGED <<alive, names, owners, intents>>
        BY <1>6 DEF CheckPublished, Hold
    <2>2. Unused'
        BY <1>6, <2>1
    <2>3. LiveInside'
        BY <1>6, <2>1
    <2>4. Directories'
        BY <1>6, <2>1
    <2>5. Unpublished'
        BY <1>6, <2>1
    <2>6. StealIntents'
        BY <1>6, <2>1
    <2>7. ReleaseIntents'
        BY <1>6, <2>1
    <2>8. PreviousOwner'
        BY <1>6, <2>1
    <2>9. Stealers'
        BY <1>6, <2>1
    <2>10. OwnerFiles'
        BY <1>6, <2>1
    <2> QED
        BY <1>6, <2>2, <2>3, <2>4, <2>5, <2>6, <2>7, <2>8, <2>9, <2>10
<1>7. ASSUME LockInv, TypeOK', NEW p \in Proc, Retry(p) PROVE LockInv'
    BY <1>7 DEF Retry
<1>8. ASSUME LockInv, TypeOK', NEW p \in Proc, TimeOut(p) PROVE LockInv'
    BY <1>8 DEF TimeOut
<1>9. ASSUME LockInv, TypeOK', NEW p \in Proc, ReadRelease(p) PROVE LockInv'
    BY <1>9 DEF ReadRelease, ProvenDead, GiveWay, Forget
<1>10. ASSUME LockInv, TypeOK', NEW p \in Proc, ReadOwner(p) PROVE LockInv'
    <2>1. Unused'
        BY <1>10 DEF ReadOwner, ProvenDead, GiveWay, Forget
    <2>2. LiveInside'
        BY <1>10 DEF ReadOwner, ProvenDead, GiveWay, Forget
    <2>3. Directories'
        BY <1>10 DEF ReadOwner, ProvenDead, GiveWay, Forget
    <2>4. Unpublished'
        BY <1>10 DEF ReadOwner, ProvenDead, GiveWay, Forget
    <2>5. StealIntents'
        BY <1>10 DEF ReadOwner, ProvenDead, GiveWay, Forget
    <2>6. ReleaseIntents'
        BY <1>10 DEF ReadOwner, ProvenDead, GiveWay, Forget
    <2>7. PreviousOwner'
        BY <1>10 DEF ReadOwner, ProvenDead, GiveWay, Forget
    <2>8. Stealers'
        BY <1>10 DEF ReadOwner, ProvenDead, GiveWay, Forget
    <2>9. OwnerFiles'
        BY <1>10 DEF ReadOwner, ProvenDead, GiveWay, Forget
    <2> QED
        BY <1>10, <2>1, <2>2, <2>3, <2>4, <2>5, <2>6, <2>7, <2>8, <2>9
<1>11. ASSUME LockInv, TypeOK', NEW p \in Proc, WriteTemp(p) PROVE LockInv'
    <2>1. Unused'
        BY <1>11 DEF WriteTemp, GiveWay, Forget
    <2>2. LiveInside'
        BY <1>11 DEF WriteTemp, GiveWay, Forget
    <2>3. Directories'
        BY <1>11 DEF WriteTemp, GiveWay, Forget
    <2>4. Unpublished'
        BY <1>11 DEF WriteTemp, GiveWay, Forget
    <2>5. StealIntents'
        BY <1>11 DEF WriteTemp, GiveWay, Forget
    <2>6. ReleaseIntents'
        BY <1>11 DEF WriteTemp, GiveWay, Forget
    <2>7. PreviousOwner'
        BY <1>11 DEF WriteTemp, GiveWay, Forget
    <2>8. Stealers'
        BY <1>11 DEF WriteTemp, GiveWay, Forget
    <2>9. OwnerFiles'
        BY <1>11 DEF WriteTemp, GiveWay, Forget
    <2> QED
        BY <1>11, <2>1, <2>2, <2>3, <2>4, <2>5, <2>6, <2>7, <2>8, <2>9
<1>12. ASSUME LockInv, TypeOK', NEW p \in Proc, LinkSteal(p) PROVE LockInv'
    <2>1. Unused'
        BY <1>12 DEF LinkSteal, DropTempOf, GiveWay, Forget
    <2>2. LiveInside'
        BY <1>12 DEF LinkSteal, DropTempOf, GiveWay, Forget
    <2>3. Directories'
        BY <1>12 DEF LinkSteal, DropTempOf, GiveWay, Forget
    <2>4. Unpublished'
        BY <1>12 DEF LinkSteal, DropTempOf, GiveWay, Forget
    <2>5. StealIntents'
        BY <1>12 DEF LinkSteal, DropTempOf, GiveWay, Forget
    <2>6. ReleaseIntents'
        BY <1>12 DEF LinkSteal, DropTempOf, GiveWay, Forget
    <2>7. PreviousOwner'
        BY <1>12 DEF LinkSteal, DropTempOf, GiveWay, Forget
    <2>8. Stealers'
        BY <1>12 DEF LinkSteal, DropTempOf, GiveWay, Forget
    <2>9. OwnerFiles'
        BY <1>12 DEF LinkSteal, DropTempOf, GiveWay, Forget
    <2> QED
        BY <1>12, <2>1, <2>2, <2>3, <2>4, <2>5, <2>6, <2>7, <2>8, <2>9
<1>13. ASSUME LockInv, TypeOK', NEW p \in Proc, Recheck(p) PROVE LockInv'
    BY <1>13 DEF Recheck, Unchanged, ProvenDead
<1>14. ASSUME LockInv, TypeOK', NEW p \in Proc, Undo(p) PROVE LockInv'
    <2>1. Unused'
        BY <1>14 DEF Undo, DropTempOf, DropSteal, GiveWay, Forget
    <2>2. LiveInside'
        BY <1>14 DEF Undo, DropTempOf, DropSteal, GiveWay, Forget
    <2>3. Directories'
        BY <1>14 DEF Undo, DropTempOf, DropSteal, GiveWay, Forget
    <2>4. Unpublished'
        BY <1>14 DEF Undo, DropTempOf, DropSteal, GiveWay, Forget
    <2>5. StealIntents'
        BY <1>14 DEF Undo, DropTempOf, DropSteal, GiveWay, Forget
    <2>6. ReleaseIntents'
        BY <1>14 DEF Undo, DropTempOf, DropSteal, GiveWay, Forget
    <2>7. PreviousOwner'
        BY <1>14 DEF Undo, DropTempOf, DropSteal, GiveWay, Forget
    <2>8. Stealers'
        BY <1>14 DEF Undo, DropTempOf, DropSteal, GiveWay, Forget
    <2>9. OwnerFiles'
        BY <1>14 DEF Undo, DropTempOf, DropSteal, GiveWay, Forget
    <2> QED
        BY <1>14, <2>1, <2>2, <2>3, <2>4, <2>5, <2>6, <2>7, <2>8, <2>9
<1>15. ASSUME LockInv, TypeOK', NEW p \in Proc, CheckTransfer(p) PROVE LockInv'
    BY <1>15 DEF CheckTransfer, Unchanged, DropTempOf, GiveWay, Forget
<1>16. ASSUME LockInv, TypeOK', NEW p \in Proc, SetOwnerAside(p) PROVE LockInv'
    <2>1. Unused'
        BY <1>16 DEF SetOwnerAside, DropTempOf, GiveWay, Forget
    <2>2. LiveInside'
        BY <1>16 DEF SetOwnerAside, DropTempOf, GiveWay, Forget
    <2>3. Directories'
        BY <1>16 DEF SetOwnerAside, DropTempOf, GiveWay, Forget
    <2>4. Unpublished'
        BY <1>16 DEF SetOwnerAside, DropTempOf, GiveWay, Forget
    <2>5. StealIntents'
        BY <1>16 DEF SetOwnerAside, DropTempOf, GiveWay, Forget
    <2>6. ReleaseIntents'
        BY <1>16 DEF SetOwnerAside, DropTempOf, GiveWay, Forget
    <2>7. PreviousOwner'
        BY <1>16 DEF SetOwnerAside, DropTempOf, GiveWay, Forget
    <2>8. Stealers'
        BY <1>16 DEF SetOwnerAside, DropTempOf, GiveWay, Forget
    <2>9. OwnerFiles'
        BY <1>16 DEF SetOwnerAside, DropTempOf, GiveWay, Forget
    <2> QED
        BY <1>16, <2>1, <2>2, <2>3, <2>4, <2>5, <2>6, <2>7, <2>8, <2>9
<1>17. ASSUME LockInv, TypeOK', NEW p \in Proc, InstallOwner(p) PROVE LockInv'
    <2>1. Unused'
        BY <1>17 DEF InstallOwner, DropTempOf, GiveWay, Forget
    <2>2. LiveInside'
        BY <1>17 DEF InstallOwner, DropTempOf, GiveWay, Forget
    <2>3. Directories'
        BY <1>17 DEF InstallOwner, DropTempOf, GiveWay, Forget
    <2>4. Unpublished'
        BY <1>17 DEF InstallOwner, DropTempOf, GiveWay, Forget
    <2>5. StealIntents'
        BY <1>17 DEF InstallOwner, DropTempOf, GiveWay, Forget
    <2>6. ReleaseIntents'
        BY <1>17 DEF InstallOwner, DropTempOf, GiveWay, Forget
    <2>7. PreviousOwner'
        BY <1>17 DEF InstallOwner, DropTempOf, GiveWay, Forget
    <2>8. Stealers'
        BY <1>17 DEF InstallOwner, DropTempOf, GiveWay, Forget
    <2>9. OwnerFiles'
        BY <1>17 DEF InstallOwner, DropTempOf, GiveWay, Forget
    <2> QED
        BY <1>17, <2>1, <2>2, <2>3, <2>4, <2>5, <2>6, <2>7, <2>8, <2>9
<1>18. ASSUME LockInv, TypeOK', NEW p \in Proc, DropPrevious(p) PROVE LockInv'
    <2>1. Unused'
        BY <1>18 DEF DropPrevious, GiveWay, Forget
    <2>2. LiveInside'
        BY <1>18 DEF DropPrevious, GiveWay, Forget
    <2>3. Directories'
        BY <1>18 DEF DropPrevious, GiveWay, Forget
    <2>4. Unpublished'
        BY <1>18 DEF DropPrevious, GiveWay, Forget
    <2>5. StealIntents'
        BY <1>18 DEF DropPrevious, GiveWay, Forget
    <2>6. ReleaseIntents'
        BY <1>18 DEF DropPrevious, GiveWay, Forget
    <2>7. PreviousOwner'
        BY <1>18 DEF DropPrevious, GiveWay, Forget
    <2>8. Stealers'
        BY <1>18 DEF DropPrevious, GiveWay, Forget
    <2>9. OwnerFiles'
        BY <1>18 DEF DropPrevious, GiveWay, Forget
    <2> QED
        BY <1>18, <2>1, <2>2, <2>3, <2>4, <2>5, <2>6, <2>7, <2>8, <2>9
<1>19. ASSUME LockInv, TypeOK', NEW p \in Proc, DropOwnIntent(p) PROVE LockInv'
    <2>1. Unused'
        BY <1>19 DEF DropOwnIntent, DropSteal
    <2>2. LiveInside'
        BY <1>19 DEF DropOwnIntent, DropSteal
    <2>3. Directories'
        BY <1>19 DEF DropOwnIntent, DropSteal
    <2>4. Unpublished'
        BY <1>19 DEF DropOwnIntent, DropSteal
    <2>5. StealIntents'
        <3>1. pc[p] = "dropIntent" /\ fixed \in Proc /\ steal[fixed] = seen[p]
            BY <1>19 DEF DropOwnIntent
        <3>2. steal'[fixed] = NoIntent /\ fixed' = fixed
            BY <1>19, <3>1 DEF DropOwnIntent, DropSteal
        <3> QED
            BY <3>2
    <2>6. ReleaseIntents'
        BY <1>19 DEF DropOwnIntent, DropSteal
    <2>7. PreviousOwner'
        BY <1>19 DEF DropOwnIntent, DropSteal
    <2>8. Stealers'
        BY <1>19 DEF DropOwnIntent, DropSteal
    <2>9. OwnerFiles'
        BY <1>19 DEF DropOwnIntent, DropSteal
    <2> QED
        BY <1>19, <2>1, <2>2, <2>3, <2>4, <2>5, <2>6, <2>7, <2>8, <2>9
<1>20. ASSUME LockInv, TypeOK', NEW p \in Proc, VerifyStolen(p) PROVE LockInv'
    <2>1. /\ OwnedBy(p) /\ p \in alive /\ pc[p] = "verify"
          /\ pc' = [pc EXCEPT ![p] = "held"]
          /\ seen' = [seen EXCEPT ![p] = [by |-> p, owner |-> p, dir |-> fixed]]
          /\ UNCHANGED <<alive, names, owners, intents>>
        BY <1>20 DEF VerifyStolen, Hold
    <2>2. Unused'
        BY <1>20, <2>1
    <2>3. LiveInside'
        BY <1>20, <2>1
    <2>4. Directories'
        BY <1>20, <2>1
    <2>5. Unpublished'
        BY <1>20, <2>1
    <2>6. StealIntents'
        BY <1>20, <2>1
    <2>7. ReleaseIntents'
        BY <1>20, <2>1
    <2>8. PreviousOwner'
        BY <1>20, <2>1
    <2>9. Stealers'
        BY <1>20, <2>1
    <2>10. OwnerFiles'
        BY <1>20, <2>1
    <2> QED
        BY <1>20, <2>2, <2>3, <2>4, <2>5, <2>6, <2>7, <2>8, <2>9, <2>10
<1>21. ASSUME LockInv, TypeOK', NEW p \in Proc, Release(p) PROVE LockInv'
    <2>1. /\ p \in alive /\ pc[p] = "held" /\ pc' = [pc EXCEPT ![p] = "relLink"]
          /\ UNCHANGED <<alive, names, owners, intents, seen>>
        <3>1. p \in alive /\ pc[p] = "held"
            BY <1>21 DEF Release
        <3>2. OwnedBy(p) /\ seen[p].dir = fixed
            BY <1>21, OwnerFacts, <3>1
        <3>3. Owns(p)
            BY <1>21, OwnerFacts, <3>2 DEF Owns
        <3> QED
            BY <1>21, OwnerFacts, <3>1, <3>3 DEF Release
    <2>2. Unused'
        BY <1>21, <2>1
    <2>3. LiveInside'
        BY <1>21, <2>1
    <2>4. Directories'
        BY <1>21, <2>1
    <2>5. Unpublished'
        BY <1>21, <2>1
    <2>6. StealIntents'
        BY <1>21, <2>1
    <2>7. ReleaseIntents'
        BY <1>21, <2>1
    <2>8. PreviousOwner'
        BY <1>21, <2>1
    <2>9. Stealers'
        BY <1>21, <2>1
    <2>10. OwnerFiles'
        BY <1>21, <2>1
    <2> QED
        BY <1>21, <2>2, <2>3, <2>4, <2>5, <2>6, <2>7, <2>8, <2>9, <2>10
<1>22. ASSUME LockInv, TypeOK', NEW p \in Proc, LinkRelease(p) PROVE LockInv'
    <2>1. /\ p \in alive /\ pc[p] = "relLink" /\ pc' = [pc EXCEPT ![p] = "relRecheck"]
          /\ release' = [release EXCEPT ![fixed] = seen[p]]
          /\ UNCHANGED <<alive, names, owners, steal, seen>>
        <3>1. p \in alive /\ pc[p] = "relLink"
            BY <1>22 DEF LinkRelease
        <3>2. Present /\ owner[fixed] = p
            BY <1>22, OwnerFacts, <3>1
        <3>3. release[fixed] = NoIntent
            BY <1>22, OwnerFacts, <3>1, <3>2
        <3> QED
            BY <1>22, OwnerFacts, <3>1, <3>2, <3>3 DEF LinkRelease
    <2>2. Unused'
        BY <1>22, <2>1
    <2>3. LiveInside'
        BY <1>22, <2>1
    <2>4. Directories'
        BY <1>22, <2>1
    <2>5. Unpublished'
        BY <1>22, <2>1
    <2>6. StealIntents'
        BY <1>22, <2>1
    <2>7. ReleaseIntents'
        <3>1. owner[fixed] = p /\ seen[p].by = p
            BY <1>22, OwnerFacts, <2>1
        <3> QED
            BY <1>22, OwnerFacts, <2>1, <3>1
    <2>8. PreviousOwner'
        BY <1>22, <2>1
    <2>9. Stealers'
        BY <1>22, <2>1
    <2>10. OwnerFiles'
        <3>1. \A q \in alive \ {p} : pc[q] \notin Owning
            BY <1>22, OwnerFacts, <2>1
        <3>2. fixed \in Proc
            BY <1>22, OwnerFacts, <2>1
        <3> QED
            BY <1>22, OwnerFacts, <2>1, <3>1, <3>2
    <2> QED
        BY <1>22, <2>2, <2>3, <2>4, <2>5, <2>6, <2>7, <2>8, <2>9, <2>10
<1>23. ASSUME LockInv, TypeOK', NEW p \in Proc, RecheckRelease(p) PROVE LockInv'
    <2>1. /\ p \in alive /\ pc[p] = "relRecheck" /\ pc' = [pc EXCEPT ![p] = "relMove"]
          /\ UNCHANGED <<alive, names, owners, intents, seen>>
        <3>1. p \in alive /\ pc[p] = "relRecheck"
            BY <1>23 DEF RecheckRelease
        <3>2. OwnedBy(p) /\ seen[p].dir = fixed
            BY <1>23, OwnerFacts, <3>1
        <3>3. Owns(p)
            BY <1>23, OwnerFacts, <3>2 DEF Owns
        <3> QED
            BY <1>23, OwnerFacts, <3>1, <3>3 DEF RecheckRelease
    <2>2. Unused'
        BY <1>23, <2>1
    <2>3. LiveInside'
        BY <1>23, <2>1
    <2>4. Directories'
        BY <1>23, <2>1
    <2>5. Unpublished'
        BY <1>23, <2>1
    <2>6. StealIntents'
        BY <1>23, <2>1
    <2>7. ReleaseIntents'
        BY <1>23, <2>1
    <2>8. PreviousOwner'
        BY <1>23, <2>1
    <2>9. Stealers'
        BY <1>23, <2>1
    <2>10. OwnerFiles'
        BY <1>23, <2>1
    <2> QED
        BY <1>23, <2>2, <2>3, <2>4, <2>5, <2>6, <2>7, <2>8, <2>9, <2>10
<1>24. ASSUME LockInv, TypeOK', NEW p \in Proc, MoveLock(p) PROVE LockInv'
    <2>1. /\ p \in alive /\ pc[p] = "relMove" /\ pc' = [pc EXCEPT ![p] = "relSweep"]
          /\ fixed \in Proc /\ owner[fixed] = p /\ seen[p].dir = fixed
          /\ tomb' = [tomb EXCEPT ![p] = fixed] /\ fixed' = None
          /\ UNCHANGED <<alive, owners, intents, seen>>
        <3>1. p \in alive /\ pc[p] = "relMove"
            BY <1>24 DEF MoveLock
        <3>2. Present /\ owner[fixed] = p /\ seen[p].dir = fixed
            BY <1>24, OwnerFacts, <3>1
        <3>3. tomb[p] = None
            BY <1>24, OwnerFacts, <3>1
        <3> QED
            BY <1>24, OwnerFacts, <3>1, <3>2, <3>3 DEF MoveLock
    <2>2. Unused'
        BY <1>24, <2>1
    <2>3. LiveInside'
        BY <1>24, <2>1
    <2>4. Directories'
        BY <1>24, <2>1
    <2>5. Unpublished'
        BY <1>24, <2>1
    <2>6. StealIntents'
        BY <1>24, <2>1
    <2>7. ReleaseIntents'
        BY <1>24, <2>1
    <2>8. PreviousOwner'
        BY <1>24, <2>1
    <2>9. Stealers'
        BY <1>24, <2>1
    <2>10. OwnerFiles'
        <3>1. \A q \in alive \ {p} : pc[q] \notin Owning
            BY <1>24, OwnerFacts, <2>1
        <3> QED
            BY <1>24, OwnerFacts, <2>1, <3>1
    <2> QED
        BY <1>24, <2>2, <2>3, <2>4, <2>5, <2>6, <2>7, <2>8, <2>9, <2>10
<1>25. ASSUME LockInv, TypeOK', NEW p \in Proc, SweepOwn(p) PROVE LockInv'
    <2>1. /\ p \in alive /\ pc[p] = "relSweep" /\ pc' = [pc EXCEPT ![p] = "done"]
          /\ tomb[p] \in Proc /\ tomb[p] # fixed /\ owner[tomb[p]] = p
          /\ tomb' = [tomb EXCEPT ![p] = None]
          /\ \A d \in Proc \ {tomb[p]} :
               /\ owner'[d] = owner[d] /\ previous'[d] = previous[d] /\ temps'[d] = temps[d]
               /\ steal'[d] = steal[d] /\ release'[d] = release[d]
          /\ owner'[tomb[p]] = None /\ previous'[tomb[p]] = None
          /\ steal'[tomb[p]] = NoIntent /\ release'[tomb[p]] = NoIntent
          /\ UNCHANGED <<alive, fixed, seen>>
        <3>1. p \in alive /\ pc[p] = "relSweep"
            BY <1>25 DEF SweepOwn
        <3>2. tomb[p] \in Proc /\ tomb[p] # fixed /\ owner[tomb[p]] = p
                 /\ seen[p].dir = tomb[p]
            BY <1>25, OwnerFacts, <3>1
        <3>3. Removable(p, seen[p].dir)
            BY <1>25, OwnerFacts, <3>2 DEF Removable
        <3>4. {t \in {p} : Removable(t, seen[p].dir)} = {p}
                 /\ {tomb[t] : t \in {p}} = {tomb[p]}
            BY <3>3
        <3>5. RemoveTombs({p})
            BY ZenonT(40), <1>25, <3>4 DEF SweepOwn
        <3>6. \A d \in Proc : d \in {tomb[t] : t \in {p}} <=> d = tomb[p]
            BY <3>4
        <3>7. tomb' = [tomb EXCEPT ![p] = None]
            BY <1>25, <3>5 DEF RemoveTombs
        <3>8. \A d \in Proc :
                /\ owner'[d] = IF d = tomb[p] THEN None ELSE owner[d]
                /\ previous'[d] = IF d = tomb[p] THEN None ELSE previous[d]
                /\ temps'[d] = IF d = tomb[p] THEN {} ELSE temps[d]
                /\ steal'[d] = IF d = tomb[p] THEN NoIntent ELSE steal[d]
                /\ release'[d] = IF d = tomb[p] THEN NoIntent ELSE release[d]
            BY <3>5, <3>6 DEF RemoveTombs
        <3>9. pc' = [pc EXCEPT ![p] = "done"] /\ UNCHANGED <<alive, fixed, seen>>
            BY <1>25, <3>3 DEF SweepOwn
        <3> QED
            BY <3>1, <3>2, <3>7, <3>8, <3>9
    <2>2. Unused'
        BY <1>25, <2>1
    <2>3. LiveInside'
        BY <1>25, <2>1
    <2>4. Directories'
        BY <1>25, <2>1
    <2>5. Unpublished'
        BY <1>25, <2>1
    <2>6. StealIntents'
        BY <1>25, <2>1
    <2>7. ReleaseIntents'
        BY <1>25, <2>1
    <2>8. PreviousOwner'
        BY <1>25, <2>1
    <2>9. Stealers'
        BY <1>25, <2>1
    <2>10. OwnerFiles'
        BY <1>25, <2>1
    <2> QED
        BY <1>25, <2>2, <2>3, <2>4, <2>5, <2>6, <2>7, <2>8, <2>9, <2>10
<1>26. ASSUME LockInv, TypeOK', Sheltered, NEW p \in Proc, Crash(p) PROVE LockInv'
    BY <1>26 DEF Crash, Sheltered
<1>27. ASSUME LockInv, NEW p \in Proc, FinishRelease(p) \/ SweepReleased(p) \/ RecoverDead(p)
       PROVE FALSE
    BY <1>27 DEF FinishRelease, SweepReleased, RecoverDead, Recover, ClearTemp,
       DropOwner, Restore, ClearIntent
<1>28. ASSUME LockInv, UNCHANGED vars PROVE LockInv'
    BY <1>28 DEF vars, names, owners, intents
<1> SUFFICES ASSUME LockInv, Sheltered, [Next]_vars PROVE LockInv'
    OBVIOUS
<1>29. TypeOK'
    BY TypeStep DEF LockInv
<1> HIDE DEF LockInv, TypeOK
<1> QED
    BY <1>1, <1>2, <1>3, <1>4, <1>5, <1>6, <1>7, <1>8, <1>9, <1>10, <1>11,
       <1>12, <1>13, <1>14, <1>15, <1>16, <1>17, <1>18, <1>19, <1>20, <1>21,
       <1>22, <1>23, <1>24, <1>25, <1>26, <1>27, <1>28, <1>29 DEF Next, Step,
       Acquire, Steal, GiveBack

(* The inductive invariant holds in every state of the lock protocol       *)
(* (tryAcquireTxLockOnce to releaseTxLock) when no process dies while it   *)
(* has an intent in the lock directory.  The theorems below rest on it.    *)
THEOREM LockInvAlways == ASSUME NoDeathInside PROVE Spec => []LockInv
BY ShelteredAlways, LockInvStep, LockInvInit, PTL DEF Spec

(* Every variable keeps its type: no step acts on an absent file.          *)
THEOREM LockTyped == ASSUME NoDeathInside PROVE Spec => []TypeOK
<1>1. LockInv => TypeOK
    BY DEF LockInv
<1> QED
    BY <1>1, LockInvAlways, PTL

(* No two live processes are in their critical section at once             *)
(* (tryAcquireTxLockOnce, tryStealStaleLock, releaseTxLock), for any       *)
(* number of processes.                                                    *)
THEOREM Exclusion == ASSUME NoDeathInside PROVE Spec => []MutualExclusion
BY LockInvExclusive, LockInvAlways, PTL

(* A holder's directory and owner.json stay its own until it releases.     *)
THEOREM HolderKeeps == ASSUME NoDeathInside PROVE Spec => []HolderKeepsLock
<1>1. LockInv => HolderKeepsLock
    <2> SUFFICES ASSUME LockInv, NEW p \in Inside PROVE Owns(p)
        BY DEF HolderKeepsLock
    <2>1. p \in alive /\ pc[p] = "held"
        BY DEF Inside
    <2> QED
        BY <2>1, OwnerFacts DEF Owns, OwnedBy, Present, Owning
<1> QED
    BY <1>1, LockInvAlways, PTL

(* The release of a live owner never reports that it lost the lock.        *)
THEOREM Releases == ASSUME NoDeathInside PROVE Spec => []ReleaseSucceeds
<1>1. LockInv => ReleaseSucceeds
    BY DEF LockInv, Unused, ReleaseSucceeds
<1> QED
    BY <1>1, LockInvAlways, PTL

(* The steps of the refinement: a process enters only an empty critical    *)
(* section, and one at a time.                                             *)
LEMMA LockUseInit == Init => Use!Init
BY LockAssumption DEF Init, Use!Init, Inside

LEMMA LockUseStep == LockInv /\ [Next]_vars => [Use!Next]_Inside
<1> SUFFICES ASSUME LockInv, [Next]_vars PROVE [Use!Next]_Inside
    OBVIOUS
<1> USE DEF Inside, At, GoTo
<1>0. pc \in [Proc -> PcValues] /\ alive \subseteq Proc
    BY DEF LockInv, TypeOK
<1>1. ASSUME NEW p \in Proc, CheckPublished(p) \/ VerifyStolen(p)
      PROVE  [Use!Next]_Inside
    <2>1. p \in alive /\ pc[p] \in {"check", "verify"}
        BY <1>1 DEF CheckPublished, VerifyStolen
    <2>2. Inside = {}
        BY <2>1, OwnerFacts DEF Owning
    <2>3. Inside' = {p} \/ Inside' = {}
        <3>1. alive' = alive /\ \E label \in {"held", "wait", "try"} :
                 pc' = [pc EXCEPT ![p] = label]
            BY <1>1 DEF CheckPublished, VerifyStolen, Hold, GiveWay
        <3> QED
            BY <1>0, <2>1, <2>2, <3>1
    <2> QED
        BY <2>2, <2>3 DEF Use!Next, Use!Enter
<1>2. ASSUME NEW p \in Proc, Release(p) \/ Crash(p) PROVE [Use!Next]_Inside
    <2>1. Inside' = Inside \ {p}
        BY <1>0, <1>2 DEF Release, Crash
    <2>2. CASE p \in Inside
        <3>1. {p} \in SUBSET Proc /\ Use!Leave({p})
            BY <2>1, <2>2 DEF Use!Leave
        <3> QED
            BY <3>1 DEF Use!Next
    <2>3. CASE p \notin Inside
        BY <2>1, <2>3
    <2> QED
        BY <2>2, <2>3
<1>3. ASSUME NEW p \in Proc,
             \/ Start(p) \/ SeeNoLock(p) \/ SeeStealIntent(p) \/ SeeNoStealIntent(p)
             \/ Publish(p) \/ Retry(p) \/ TimeOut(p)
             \/ ReadRelease(p) \/ FinishRelease(p) \/ SweepReleased(p) \/ ReadOwner(p)
      PROVE  UNCHANGED Inside
    BY <1>0, <1>3 DEF Start, SeeNoLock, SeeStealIntent, SeeNoStealIntent, Publish,
       Retry, TimeOut, ReadRelease, FinishRelease, SweepReleased, ReadOwner, GiveWay
<1>4. ASSUME NEW p \in Proc,
             \/ WriteTemp(p) \/ LinkSteal(p) \/ Recheck(p) \/ Undo(p)
             \/ CheckTransfer(p) \/ SetOwnerAside(p) \/ InstallOwner(p)
             \/ DropPrevious(p) \/ DropOwnIntent(p)
      PROVE  UNCHANGED Inside
    BY <1>0, <1>4 DEF WriteTemp, LinkSteal, Recheck, Undo, CheckTransfer,
       SetOwnerAside, InstallOwner, DropPrevious, DropOwnIntent, GiveWay
<1>5. ASSUME NEW p \in Proc,
             \/ RecoverDead(p) \/ LinkRelease(p) \/ RecheckRelease(p)
             \/ MoveLock(p) \/ SweepOwn(p)
      PROVE  UNCHANGED Inside
    <2>1. pc[p] \notin Recovering
        BY DEF LockInv, Unused
    <2>2. ~RecoverDead(p)
        BY <2>1 DEF RecoverDead, Recover, ClearTemp, DropOwner, Restore, ClearIntent,
           Recovering
    <2> QED
        BY <1>0, <1>5, <2>2 DEF LinkRelease, RecheckRelease, MoveLock, SweepOwn
<1>6. CASE UNCHANGED vars
    BY <1>6 DEF vars
<1> QED
    BY <1>1, <1>2, <1>3, <1>4, <1>5, <1>6 DEF Next, Step, Acquire, Steal, GiveBack

(* The lock implements the exclusive resource of ExclusiveUse: only the    *)
(* VerifyStolen and CheckPublished steps (tryAcquireTxLockOnce) enter it,  *)
(* and they find it free.                                                  *)
THEOREM LockRefines == ASSUME NoDeathInside PROVE Spec => UseSpec
BY LockUseInit, LockUseStep, LockInvAlways, PTL DEF Spec, UseSpec, Use!Spec

(* What the runs check of the lock together.                               *)
THEOREM LockIsSafe == ASSUME NoDeathInside PROVE Spec => []LockSafe
BY LockTyped, Exclusion, HolderKeeps, Releases, PTL DEF LockSafe
=============================================================================
