------------------------ MODULE RunCoordinatorProofs ------------------------
(***************************************************************************)
(* Proofs about RunCoordinator, for any units, any failures of calls and   *)
(* any number of deaths and resumptions: run.json and memory tell the same *)
(* story (RecordIsKept), and no child gets the original prompt twice       *)
(* (PromptedOnce).                                                         *)
(*                                                                         *)
(* The invariant relates each unit on disk to the same unit in memory by   *)
(* where its lane is (InMemoryKept), and to how often its child was        *)
(* prompted (OnDiskKept).  What a lane waits for ties it to the queues: a  *)
(* write of a lane waits once, while its lane says so, and the end of a    *)
(* unit, which bypasses the queue of durable writes, carries a record that *)
(* goes with whatever was written since (EndKept).                         *)
(***************************************************************************)
EXTENDS RunCoordinator, TLAPS

(* One unit, whatever wrote it: an attempt is open only at the end of its  *)
(* history, and exactly while it runs; who has a session was attempted.    *)
HistoryKept(unit) ==
    /\ \A i \in DOMAIN unit.attempts :
          /\ unit.attempts[i].status = "running" => i = Len(unit.attempts) /\ unit.status = "running"
          /\ \A j \in i..Len(unit.attempts) : unit.attempts[i].attempt <= unit.attempts[j].attempt
          /\ unit.attempts[i].attempt <= unit.attempt
    /\ unit.status = "running" =>
          /\ unit.attempts # <<>>
          /\ unit.attempts[Len(unit.attempts)] = [attempt |-> unit.attempt, status |-> "running"]
    /\ unit.status = "absent" => unit = [NewUnit EXCEPT !.status = "absent"]
    /\ unit.session # "none" => unit.attempts # <<>>

(* On disk, a child that got its prompt has a session; it got one.         *)
OnDiskKept(disk, prompts) ==
    /\ HistoryKept(disk)
    /\ prompts \in {0, 1}
    /\ prompts > 0 => disk.session # "none"

(* In memory, where the lane of the unit is "at".                          *)
BeforePrompt == {"idle", "starting", "started", "stamping", "stamped"}
AtWork == {"started", "stamping", "stamped", "prompting", "working"}
InMemoryKept(disk, mem, at, prompts) ==
    /\ HistoryKept(mem)
    /\ mem.attempt = disk.attempt
    /\ mem.status # "absent" => disk.status # "absent"
    /\ at # "idle" => mem.status # "absent"
    /\ disk.session # "none" => mem.attempts # <<>>
    /\ at \notin {"failEnding", "lost"} => SessionRank[mem.session] <= SessionRank[disk.session]
    /\ at = "starting" => mem.status = "queued"
    /\ at \in AtWork => mem.status = "running" /\ disk.status = "running"
    /\ at = "stamped" => mem.session # "none"
    /\ at \in {"working", "ending"} => mem.session = "prompted"
    /\ prompts > 0 => mem.session # "none"
    /\ prompts > 0 /\ at \in BeforePrompt => mem.session = "prompted"

(* The end of a unit on its way to run.json.                               *)
EndKept(call, disk, mem, at, prompts) ==
    /\ HistoryKept(call.record)
    /\ call.record.status \in Terminal
    /\ call.record.attempts # <<>>
    /\ call.record.attempt = disk.attempt
    /\ call.record.session # "none" => mem.attempts # <<>>
    /\ prompts > 0 => call.record.session # "none"
    /\ at = IF call.last THEN "failEnding" ELSE "ending"
    /\ at = "ending" => call.record.session = "prompted"
    /\ call.kind = "finishEvent" => call.record.session = disk.session

UnitsKept ==
    /\ \A u \in Unit : OnDiskKept(runJson.units[u], told[u])
    /\ active => \A u \in Unit : InMemoryKept(runJson.units[u], live.units[u], lane[u], told[u])

TasksKept ==
    /\ \A u \in Unit : runJson.delivered[u] <= runJson.tasks
    /\ active => /\ live.tasks <= runJson.tasks
                 /\ \A u \in Unit : live.delivered[u] <= runJson.delivered[u]

(* Where the run is, the lanes are.                                        *)
MainKept ==
    /\ active <=> main \notin {"over", "dead"}
    /\ main \in {"final", "over", "dead"} => AtRest

(* The two queues, whoever waits for them: no write of a lane or of the    *)
(* run waits twice, and the store has one call of the durable queue, that  *)
(* of its head, one of each lane that ends, and that of the run's end.     *)
Awaited == {durable[i] : i \in DOMAIN durable}
Asked == {calls[i] : i \in DOMAIN calls}
Strict(write) == write.kind \notin {"flush", "delivered"}
OfQueue(call) == call.kind \in Write \cup {"startEvent"}
OfEnd(call) == call.kind \in {"finish", "finishEvent"}
SameCaller(c, d) ==
    \/ OfQueue(c) /\ OfQueue(d)
    \/ OfEnd(c) /\ OfEnd(d) /\ c.unit = d.unit
    \/ c.kind = "runTerminal" /\ d.kind = "runTerminal"

QueuesKept ==
    /\ \A write \in Awaited : write.kind \in Write /\ write = CallFor(write.kind, write.unit)
    /\ \A i, j \in DOMAIN durable : durable[i] = durable[j] /\ Strict(durable[i]) => i = j
    /\ \A call \in Asked :
          /\ call.kind \in Write => durable # <<>> /\ call = Head(durable)
          /\ call.kind = "startEvent" => durable # <<>> /\ Head(durable) = CallFor("start", call.unit)
    /\ \A i, j \in DOMAIN calls : SameCaller(calls[i], calls[j]) => i = j

(* A durable write of a lane or of the run is awaited there.               *)
LaneWrites == {"start", "session", "established", "delivered"}
AwaitedKept == \A write \in Awaited :
    /\ write.kind \in LaneWrites => write.unit \in Unit
    /\ write.kind = "start" => lane[write.unit] = "starting"
    /\ write.kind = "session" => lane[write.unit] = "stamping"
    /\ write.kind = "established" => lane[write.unit] = "prompting"
    /\ write.kind = "expand" => main = "expanding" /\ write.unit = Nothing
    /\ write.kind = "final" => main = "final" /\ write.unit = Nothing

(* What a call is about is as the call has it.                             *)
CallKept(call) ==
    /\ call.kind = "startEvent" =>
          runJson.units[call.unit] = StartedUnit(live.units[call.unit])
    /\ OfEnd(call) =>
          /\ call.unit \in Unit /\ call.record \in UnitRecord
          /\ EndKept(call, runJson.units[call.unit], live.units[call.unit],
                     lane[call.unit], told[call.unit])
    /\ call.kind = "runTerminal" =>
          /\ main = "final"
          /\ \A write \in Awaited : write.kind # "final"
          /\ runJson.status = live.status /\ runJson.units = live.units
AskedKept == \A call \in Asked : CallKept(call)

(* What was told of an end is what is in memory.                           *)
EndsKept ==
    /\ active => \A u \in Unit : lane[u] = "done" /\ ended[u] # "none" => live.units[u].status = ended[u]
    /\ runEnd # "none" => main = "over"
    /\ EndsOnRecord

CoordinatorInv ==
    /\ CoordinatorTypeOK /\ UnitsKept /\ TasksKept /\ MainKept /\ EndsKept
    /\ QueuesKept /\ AwaitedKept /\ AskedKept

USE DEF Terminal, UnitStatus, RunStatus, Session

LEMMA SessionRanks ==
    /\ SessionRank["none"] = 0 /\ SessionRank["path"] = 1 /\ SessionRank["prompted"] = 2
BY DEF SessionRank

LEMMA Ranked ==
    ASSUME NEW a \in Session, NEW b \in Session
    PROVE  SessionRank[a] <= SessionRank[b] <=>
             (a = "none" \/ b = "prompted" \/ (a = "path" /\ b = "path"))
BY SessionRanks

LEMMA UnitFields ==
    ASSUME NEW unit \in UnitRecord
    PROVE  /\ unit.status \in UnitStatus
           /\ unit.attempt \in Nat
           /\ unit.attempts \in Seq(Attempt)
           /\ unit.session \in Session
BY DEF UnitRecord

(* Changing one part of a unit's record.                                   *)
LEMMA SessionSet ==
    ASSUME NEW unit \in UnitRecord, NEW s \in Session
    PROVE  /\ [unit EXCEPT !.session = s] \in UnitRecord
           /\ [unit EXCEPT !.session = s].session = s
           /\ [unit EXCEPT !.session = s].status = unit.status
           /\ [unit EXCEPT !.session = s].attempt = unit.attempt
           /\ [unit EXCEPT !.session = s].attempts = unit.attempts
BY DEF UnitRecord

LEMMA AttemptAndSessionSet ==
    ASSUME NEW unit \in UnitRecord, NEW n \in Nat, NEW s \in Session
    PROVE  LET new == [unit EXCEPT !.attempt = n, !.session = s]
           IN  /\ new \in UnitRecord
               /\ new.session = s /\ new.attempt = n
               /\ new.status = unit.status /\ new.attempts = unit.attempts
BY DEF UnitRecord

LEMMA StatusAndAttemptsSet ==
    ASSUME NEW unit \in UnitRecord, NEW status \in UnitStatus, NEW history \in Seq(Attempt)
    PROVE  LET new == [unit EXCEPT !.status = status, !.attempts = history]
           IN  /\ new \in UnitRecord
               /\ new.session = unit.session /\ new.attempt = unit.attempt
               /\ new.status = status /\ new.attempts = history
BY DEF UnitRecord

LEMMA NewUnitKept ==
    /\ NewUnit \in UnitRecord /\ HistoryKept(NewUnit)
    /\ [NewUnit EXCEPT !.status = "absent"] \in UnitRecord
    /\ HistoryKept([NewUnit EXCEPT !.status = "absent"])
    /\ NewUnit.status = "queued" /\ NewUnit.attempts = <<>> /\ NewUnit.session = "none"
    /\ NewUnit.attempt = 1
    /\ [NewUnit EXCEPT !.status = "absent"].attempts = <<>>
    /\ [NewUnit EXCEPT !.status = "absent"].attempt = 1
    /\ [NewUnit EXCEPT !.status = "absent"].session = "none"
    /\ [NewUnit EXCEPT !.status = "absent"].status = "absent"
<1> DEFINE gone == [NewUnit EXCEPT !.status = "absent"]
<1>1. <<>> \in Seq(Attempt) /\ DOMAIN <<>> = {}
    OBVIOUS
<1>2. /\ NewUnit \in UnitRecord /\ gone \in UnitRecord
      /\ NewUnit.status = "queued" /\ NewUnit.attempts = <<>> /\ NewUnit.session = "none"
      /\ NewUnit.attempt = 1
      /\ gone.attempts = <<>> /\ gone.attempt = 1 /\ gone.session = "none" /\ gone.status = "absent"
    BY <1>1 DEF NewUnit, UnitRecord
<1> HIDE DEF gone
<1>3. HistoryKept(NewUnit)
    BY <1>1, <1>2 DEF HistoryKept
<1>4. HistoryKept(gone)
    <2>1. gone = [NewUnit EXCEPT !.status = "absent"]
        BY DEF gone
    <2> QED
        BY <1>1, <1>2, <2>1 DEF HistoryKept
<1> QED
    BY <1>2, <1>3, <1>4 DEF gone

(* A unit with the history of another, its number and its status.          *)
LEMMA SameHistory ==
    ASSUME NEW old \in UnitRecord, NEW new \in UnitRecord, HistoryKept(old),
           new.status = old.status, new.attempts = old.attempts, new.attempt = old.attempt,
           new.status # "absent", new.session # "none" => new.attempts # <<>>
    PROVE  HistoryKept(new)
BY UnitFields DEF HistoryKept

LEMMA MergedUnitFields ==
    ASSUME NEW disk \in UnitRecord, NEW mem \in UnitRecord,
           mem.status # "absent", disk.status # "absent"
    PROVE  LET m == MergedUnit(disk, mem)
           IN  /\ m \in UnitRecord
               /\ m.session = disk.session /\ m.attempt = disk.attempt
               /\ m.status = mem.status /\ m.attempts = mem.attempts
<1>1. MergedUnit(disk, mem) = [mem EXCEPT !.attempt = disk.attempt, !.session = disk.session]
    BY DEF MergedUnit
<1>2. disk.attempt \in Nat /\ disk.session \in Session
    BY UnitFields
<1> QED
    BY <1>1, <1>2 DEF UnitRecord

LEMMA MergeKeeps ==
    ASSUME NEW disk \in UnitRecord, NEW mem \in UnitRecord, NEW at, NEW prompts \in Nat,
           OnDiskKept(disk, prompts), InMemoryKept(disk, mem, at, prompts)
    PROVE  LET m == MergedUnit(disk, mem)
           IN  /\ m \in UnitRecord
               /\ m.session = disk.session /\ m.attempt = disk.attempt
               /\ mem.status # "absent" => m.status = mem.status /\ m.attempts = mem.attempts
               /\ mem.status = "absent" => m = disk
               /\ mem.attempts # <<>> => m.attempts # <<>>
               /\ OnDiskKept(m, prompts)
               /\ InMemoryKept(m, m, at, prompts)
               /\ InMemoryKept(disk, m, at, prompts)
<1> DEFINE m == MergedUnit(disk, mem)
<1>1. CASE mem.status = "absent"
    <2>1. m = disk
        BY <1>1 DEF MergedUnit
    <2>2. mem = [NewUnit EXCEPT !.status = "absent"] /\ mem.attempts = <<>> /\ mem.session = "none"
        BY <1>1, NewUnitKept DEF InMemoryKept, HistoryKept
    <2>3. at = "idle" /\ prompts = 0 /\ disk.session = "none"
        BY <1>1, <2>2 DEF InMemoryKept, OnDiskKept
    <2>4. InMemoryKept(disk, disk, at, prompts)
        BY <2>3, UnitFields, Ranked DEF InMemoryKept, OnDiskKept, AtWork, BeforePrompt
    <2> QED
        BY <1>1, <2>1, <2>2, <2>4, UnitFields
<1>2. CASE mem.status # "absent"
    <2>1. disk.status # "absent"
        BY <1>2 DEF InMemoryKept
    <2>2. /\ m \in UnitRecord
          /\ m.session = disk.session /\ m.attempt = disk.attempt
          /\ m.status = mem.status /\ m.attempts = mem.attempts
        BY <1>2, <2>1, MergedUnitFields
    <2> HIDE DEF m
    <2>3. HistoryKept(m)
        BY <1>2, <2>2, SameHistory DEF InMemoryKept
    <2>4. OnDiskKept(m, prompts)
        BY <2>2, <2>3 DEF OnDiskKept
    <2>5. disk.session \in Session /\ mem.session \in Session
        BY UnitFields
    <2>6. InMemoryKept(m, m, at, prompts)
        BY <1>2, <2>2, <2>3, <2>5, Ranked DEF InMemoryKept, OnDiskKept, AtWork, BeforePrompt
    <2>7. InMemoryKept(disk, m, at, prompts)
        BY <1>2, <2>2, <2>3, <2>5, Ranked DEF InMemoryKept, OnDiskKept, AtWork, BeforePrompt
    <2> QED
        BY <1>2, <2>2, <2>4, <2>6, <2>7 DEF m
<1> QED
    BY <1>1, <1>2

(* The attempt that a unit begins: open, under the unit's number.          *)
LEMMA StartedUnitFields ==
    ASSUME NEW unit \in UnitRecord, HistoryKept(unit), unit.status = "queued"
    PROVE  LET new == StartedUnit(unit)
           IN  /\ new \in UnitRecord /\ HistoryKept(new)
               /\ new.session = unit.session /\ new.attempt = unit.attempt
               /\ new.status = "running" /\ new.attempts # <<>>
<1> DEFINE open == [attempt |-> unit.attempt, status |-> "running"]
           new == StartedUnit(unit)
           old == unit.attempts
<1>1. open \in Attempt /\ open.attempt = unit.attempt /\ open.status = "running"
    BY UnitFields DEF Attempt
<1>2. old \in Seq(Attempt) /\ unit.attempt \in Nat
    BY UnitFields
<1> HIDE DEF open
<1>3. /\ new \in UnitRecord
      /\ new.session = unit.session /\ new.attempt = unit.attempt
      /\ new.status = "running" /\ new.attempts = Append(old, open)
    <2>1. new = [unit EXCEPT !.status = "running", !.attempts = Append(old, open)]
        BY DEF StartedUnit, open
    <2>2. Append(old, open) \in Seq(Attempt)
        BY <1>1, <1>2
    <2> QED
        BY <2>1, <2>2 DEF UnitRecord
<1> HIDE DEF new
<1>4. /\ Append(old, open) # <<>> /\ Len(Append(old, open)) = Len(old) + 1
      /\ Append(old, open)[Len(old) + 1] = open
      /\ \A i \in 1..Len(old) : Append(old, open)[i] = old[i]
      /\ DOMAIN Append(old, open) = 1..(Len(old) + 1) /\ DOMAIN old = 1..Len(old) /\ Len(old) \in Nat
    BY <1>1, <1>2
<1>5. \A i \in 1..Len(old) :
          /\ old[i] \in Attempt /\ old[i].attempt \in Nat
          /\ old[i].status # "running"
          /\ \A j \in i..Len(old) : old[i].attempt <= old[j].attempt
          /\ old[i].attempt <= unit.attempt
    <2> SUFFICES ASSUME NEW i \in 1..Len(old)
                 PROVE  /\ old[i] \in Attempt /\ old[i].attempt \in Nat
                        /\ old[i].status # "running"
                        /\ \A j \in i..Len(old) : old[i].attempt <= old[j].attempt
                        /\ old[i].attempt <= unit.attempt
        OBVIOUS
    <2>1. old[i] \in Attempt
        BY <1>2
    <2>2. old[i].attempt \in Nat
        BY <2>1 DEF Attempt
    <2>3. i \in DOMAIN old
        BY <1>4
    <2> QED
        BY <2>1, <2>2, <2>3 DEF HistoryKept
<1>6. HistoryKept(new)
    <2> DEFINE all == Append(old, open)
    <2>1. all = new.attempts /\ DOMAIN all = 1..Len(all) /\ Len(all) = Len(old) + 1 /\ Len(old) \in Nat
        BY <1>3, <1>4
    <2>2. all[Len(all)] = open /\ \A i \in 1..Len(old) : all[i] = old[i]
        BY <1>4
    <2> HIDE DEF all, old
    <2>3. ASSUME NEW i \in 1..Len(all)
          PROVE  /\ all[i].status = "running" => i = Len(all)
                 /\ \A j \in i..Len(all) : all[i].attempt <= all[j].attempt
                 /\ all[i].attempt <= unit.attempt
        <3>1. CASE i = Len(all)
            BY <1>1, <1>2, <2>1, <2>2, <3>1
        <3>2. CASE i \in 1..Len(old)
            BY SMTT(30), <1>1, <1>2, <1>5, <2>1, <2>2, <3>2
        <3> QED
            BY <2>1, <3>1, <3>2
    <2>4. new.status = "running" /\ new.attempt = unit.attempt /\ new.session = unit.session
          /\ all # <<>> /\ all[Len(all)] = [attempt |-> new.attempt, status |-> "running"]
        BY <1>3, <1>4, <2>2 DEF all, open
    <2> QED
        BY <2>1, <2>3, <2>4 DEF HistoryKept
<1> QED
    BY <1>3, <1>4, <1>6 DEF new

(* The end of an attempt: it closes the one that is open, or is added.     *)
LEMMA FinishedUnitFields ==
    ASSUME NEW unit \in UnitRecord, HistoryKept(unit), NEW status \in Terminal
    PROVE  LET new == FinishedUnit(unit, status)
           IN  /\ new \in UnitRecord /\ HistoryKept(new)
               /\ new.session = unit.session /\ new.attempt = unit.attempt
               /\ new.status = status /\ new.attempts # <<>>
<1> DEFINE closed == [attempt |-> unit.attempt, status |-> status]
           new == FinishedUnit(unit, status)
           old == unit.attempts
           open == old # <<>> /\ Last(old) = [closed EXCEPT !.status = "running"]
           past == IF open THEN Front(old) ELSE old
<1>1. closed \in Attempt /\ closed.attempt = unit.attempt /\ closed.status = status
      /\ closed.status # "running"
      /\ [closed EXCEPT !.status = "running"] = [attempt |-> unit.attempt, status |-> "running"]
    BY UnitFields DEF Attempt
<1>2. old \in Seq(Attempt) /\ unit.attempt \in Nat /\ DOMAIN old = 1..Len(old) /\ Len(old) \in Nat
    BY UnitFields
<1>3. new = [unit EXCEPT !.status = status, !.attempts = Append(past, closed)]
    BY DEF FinishedUnit
<1>4. /\ past \in Seq(Attempt) /\ Len(past) \in Nat /\ Len(past) <= Len(old)
      /\ \A i \in 1..Len(past) : past[i] = old[i]
      /\ open => Len(past) = Len(old) - 1
      /\ ~open => past = old
    <2>1. CASE open
        BY <1>2, <2>1 DEF Front
    <2>2. CASE ~open
        BY <1>2, <2>2
    <2> QED
        BY <2>1, <2>2
<1>5. \A i \in 1..Len(past) :
          /\ past[i].attempt \in Nat
          /\ past[i].status # "running"
          /\ \A j \in i..Len(past) : past[i].attempt <= past[j].attempt
          /\ past[i].attempt <= unit.attempt
    <2> SUFFICES ASSUME NEW i \in 1..Len(past)
                 PROVE  /\ past[i].attempt \in Nat
                        /\ past[i].status # "running"
                        /\ \A j \in i..Len(past) : past[i].attempt <= past[j].attempt
                        /\ past[i].attempt <= unit.attempt
        OBVIOUS
    <2>1. /\ i \in 1..Len(old) /\ past[i] = old[i] /\ old[i] \in Attempt
          /\ old[i].attempt \in Nat /\ old[i].attempt <= unit.attempt
          /\ old[i].status = "running" => i = Len(old) /\ unit.status = "running"
          /\ \A j \in i..Len(old) : old[i].attempt <= old[j].attempt
        <3>1. i \in 1..Len(old) /\ i \in DOMAIN old /\ past[i] = old[i]
            BY <1>2, <1>4
        <3>2. old[i] \in Attempt
            BY <1>2, <3>1
        <3>3. old[i].attempt \in Nat
            BY <3>2 DEF Attempt
        <3> QED
            BY <3>1, <3>2, <3>3 DEF HistoryKept
    <2>2. past[i].status # "running"
        <3> SUFFICES ASSUME old[i].status = "running" PROVE FALSE
            BY <2>1
        <3>1. i = Len(old) /\ unit.status = "running" /\ old # <<>>
            BY <2>1
        <3>2. Last(old) = [attempt |-> unit.attempt, status |-> "running"]
            BY <3>1 DEF HistoryKept, Last
        <3>3. open
            BY <1>1, <3>1, <3>2
        <3> QED
            BY <1>2, <1>4, <3>1, <3>3
    <2>3. \A j \in i..Len(past) : past[i].attempt <= past[j].attempt
        <3>1. ASSUME NEW j \in i..Len(past)
              PROVE  past[i].attempt <= past[j].attempt
            <4>1. j \in i..Len(old) /\ j \in 1..Len(past)
                BY <1>2, <1>4
            <4>2. past[j] = old[j]
                BY <1>4, <4>1
            <4> QED
                BY <2>1, <4>1, <4>2
        <3> QED
            BY <3>1
    <2> QED
        BY <2>1, <2>2, <2>3
<1> HIDE DEF past, closed, open
<1> DEFINE all == Append(past, closed)
<1>6. /\ all \in Seq(Attempt) /\ all # <<>> /\ Len(all) = Len(past) + 1
      /\ all[Len(all)] = closed /\ DOMAIN all = 1..Len(all)
      /\ \A i \in 1..Len(past) : all[i] = past[i]
    BY <1>1, <1>4
<1>7. /\ new \in UnitRecord
      /\ new.session = unit.session /\ new.attempt = unit.attempt
      /\ new.status = status /\ new.attempts = all
    BY <1>3, <1>6 DEF UnitRecord
<1> HIDE DEF new, all
<1>8. HistoryKept(new)
    <2>1. ASSUME NEW i \in 1..Len(all)
          PROVE  /\ all[i].status # "running"
                 /\ \A j \in i..Len(all) : all[i].attempt <= all[j].attempt
                 /\ all[i].attempt <= unit.attempt
        <3>1. CASE i = Len(all)
            <4>1. all[i] = closed /\ i \in Nat /\ unit.attempt \in Nat
                BY <1>2, <1>6, <3>1
            <4>2. \A j \in i..Len(all) : j = i
                BY <3>1, <4>1
            <4>3. \A j \in i..Len(all) : all[i].attempt = unit.attempt /\ all[j].attempt = unit.attempt
                BY <1>1, <4>1, <4>2
            <4> QED
                BY <1>1, <4>1, <4>3
        <3>2. CASE i \in 1..Len(past)
            <4>1. all[i] = past[i] /\ past[i].attempt \in Nat /\ past[i].status # "running"
                  /\ past[i].attempt <= unit.attempt
                BY <1>5, <1>6, <3>2
            <4>2. ASSUME NEW j \in i..Len(all)
                  PROVE  all[i].attempt <= all[j].attempt
                <5>1. j = Len(all) \/ (j \in i..Len(past) /\ j \in 1..Len(past))
                    BY <1>4, <1>6, <3>2
                <5> QED
                    BY <1>1, <1>5, <1>6, <3>2, <4>1, <5>1
            <4> QED
                BY <4>1, <4>2
        <3> QED
            BY <1>4, <1>6, <3>1, <3>2
    <2> QED
        BY <1>6, <1>7, <2>1 DEF HistoryKept
<1> QED
    BY <1>6, <1>7, <1>8 DEF new

(* What each step of a lane makes of the unit, on disk and in memory.      *)
LEMMA StartKeeps ==
    ASSUME NEW disk \in UnitRecord, NEW mem \in UnitRecord, NEW prompts \in Nat,
           OnDiskKept(disk, prompts), InMemoryKept(disk, mem, "starting", prompts)
    PROVE  LET m == MergedUnit(disk, mem)
               s == StartedUnit(m)
           IN  /\ m \in UnitRecord /\ s \in UnitRecord
               /\ OnDiskKept(s, prompts)
               /\ InMemoryKept(s, m, "starting", prompts)
               /\ InMemoryKept(s, m, "failing", prompts)
               /\ InMemoryKept(disk, m, "failing", prompts)
               /\ InMemoryKept(s, s, "started", prompts)
<1> DEFINE m == MergedUnit(disk, mem)
           s == StartedUnit(m)
<1>1. mem.status = "queued" /\ mem.status # "absent" /\ disk.status # "absent"
    BY DEF InMemoryKept
<1>2. /\ m \in UnitRecord
      /\ m.session = disk.session /\ m.attempt = disk.attempt
      /\ m.status = "queued" /\ m.attempts = mem.attempts
      /\ OnDiskKept(m, prompts)
      /\ InMemoryKept(m, m, "starting", prompts)
      /\ InMemoryKept(disk, m, "starting", prompts)
    BY <1>1, MergeKeeps
<1> HIDE DEF m
<1>3. HistoryKept(m)
    BY <1>2 DEF InMemoryKept
<1>4. /\ s \in UnitRecord /\ HistoryKept(s)
      /\ s.session = m.session /\ s.attempt = m.attempt
      /\ s.status = "running" /\ s.attempts # <<>>
    BY <1>2, <1>3, StartedUnitFields
<1> HIDE DEF s
<1>5. m.session \in Session /\ disk.session \in Session
    BY <1>2, UnitFields
<1>6. OnDiskKept(s, prompts)
    BY <1>2, <1>4 DEF OnDiskKept
<1>7. InMemoryKept(s, m, "starting", prompts)
    BY <1>2, <1>4, <1>5, Ranked DEF InMemoryKept, AtWork, BeforePrompt
<1>8. InMemoryKept(s, m, "failing", prompts)
    BY <1>2, <1>4, <1>5, Ranked DEF InMemoryKept, AtWork, BeforePrompt
<1>9. InMemoryKept(disk, m, "failing", prompts)
    BY <1>2, <1>5, Ranked DEF InMemoryKept, AtWork, BeforePrompt
<1>10. InMemoryKept(s, s, "started", prompts)
    BY <1>2, <1>4, <1>5, Ranked DEF InMemoryKept, AtWork, BeforePrompt
<1> QED
    BY <1>2, <1>4, <1>6, <1>7, <1>8, <1>9, <1>10 DEF m, s

(* In the same state of both, the lane goes where less is claimed of it.   *)
LEMMA LaneMoves ==
    ASSUME NEW disk \in UnitRecord, NEW mem \in UnitRecord, NEW prompts \in Nat,
           NEW from, NEW to, InMemoryKept(disk, mem, from, prompts), OnDiskKept(disk, prompts),
           \/ from = "idle" /\ to = "starting" /\ mem.status = "queued"
           \/ from = "idle" /\ to = "failEnding" /\ mem.status = "queued"
           \/ from = "started" /\ to = "stamping"
           \/ from \in {"starting", "stamping", "stamped", "prompting", "ending"} /\ to = "failing"
           \/ from = "failing" /\ to = "failEnding"
           \/ from = "working" /\ to = "ending"
           \/ from # "idle" /\ to = "lost"
    PROVE  InMemoryKept(disk, mem, to, prompts)
<1>1. disk.session \in Session /\ mem.session \in Session
    BY UnitFields
<1> QED
    BY <1>1 DEF InMemoryKept, AtWork, BeforePrompt

LEMMA SessionKeeps ==
    ASSUME NEW disk \in UnitRecord, NEW mem \in UnitRecord, NEW prompts \in Nat,
           OnDiskKept(disk, prompts), InMemoryKept(disk, mem, "stamping", prompts)
    PROVE  LET s == IF disk.session = "none" THEN "path" ELSE disk.session
               d == [disk EXCEPT !.session = s]
               l == [mem EXCEPT !.session = s]
           IN  /\ d \in UnitRecord /\ l \in UnitRecord
               /\ OnDiskKept(d, prompts)
               /\ InMemoryKept(d, l, "stamped", prompts)
               /\ InMemoryKept(d, mem, "failing", prompts)
               /\ InMemoryKept(disk, mem, "failing", prompts)
<1> DEFINE s == IF disk.session = "none" THEN "path" ELSE disk.session
           d == [disk EXCEPT !.session = s]
           l == [mem EXCEPT !.session = s]
<1>1. disk.session \in Session /\ mem.session \in Session /\ s \in Session /\ s # "none"
      /\ (disk.session # "none" => s = disk.session)
    BY UnitFields
<1> HIDE DEF s
<1>2. /\ d \in UnitRecord
      /\ d.session = s /\ d.status = disk.status
      /\ d.attempt = disk.attempt /\ d.attempts = disk.attempts
    BY SMTT(30), <1>1 DEF UnitRecord
<1>3. /\ l \in UnitRecord
      /\ l.session = s /\ l.status = mem.status
      /\ l.attempt = mem.attempt /\ l.attempts = mem.attempts
    BY <1>1, SessionSet
<1> HIDE DEF d, l
<1>4. /\ HistoryKept(disk) /\ HistoryKept(mem) /\ disk.status = "running" /\ mem.status = "running"
      /\ disk.attempts # <<>> /\ mem.attempts # <<>>
    BY DEF OnDiskKept, InMemoryKept, AtWork, HistoryKept
<1>5. HistoryKept(d)
    BY <1>2, <1>4, SameHistory
<1>6. HistoryKept(l)
    BY <1>3, <1>4, SameHistory
<1>7. OnDiskKept(d, prompts)
    BY <1>1, <1>2, <1>5 DEF OnDiskKept
<1>8. InMemoryKept(d, l, "stamped", prompts)
    BY <1>1, <1>2, <1>3, <1>4, <1>6, Ranked DEF InMemoryKept, AtWork, BeforePrompt
<1>9. InMemoryKept(d, mem, "failing", prompts)
    BY <1>1, <1>2, <1>4, Ranked DEF InMemoryKept, AtWork, BeforePrompt
<1>10. InMemoryKept(disk, mem, "failing", prompts)
    BY LaneMoves
<1> QED
    BY <1>2, <1>3, <1>7, <1>8, <1>9, <1>10 DEF d, l, s

LEMMA PromptKeeps ==
    ASSUME NEW disk \in UnitRecord, NEW mem \in UnitRecord, NEW prompts \in Nat,
           OnDiskKept(disk, prompts), InMemoryKept(disk, mem, "stamped", prompts),
           NEW now, now = IF mem.session = "path" THEN prompts + 1 ELSE prompts
    PROVE  /\ now \in Nat
           /\ OnDiskKept(disk, now)
           /\ InMemoryKept(disk, mem, "prompting", now)
<1>1. disk.session \in Session /\ mem.session \in Session
    BY UnitFields
<1>2. mem.session # "none" /\ disk.session # "none"
    BY <1>1, Ranked DEF InMemoryKept
<1>3. mem.session = "path" => prompts = 0
    BY <1>1 DEF InMemoryKept, BeforePrompt
<1>4. now \in {0, 1} /\ prompts \in {0, 1}
    BY <1>3 DEF OnDiskKept
<1>5. OnDiskKept(disk, now)
    BY <1>2, <1>4 DEF OnDiskKept
<1> QED
    BY <1>2, <1>4, <1>5 DEF InMemoryKept, AtWork, BeforePrompt

LEMMA EstablishedKeeps ==
    ASSUME NEW disk \in UnitRecord, NEW mem \in UnitRecord, NEW prompts \in Nat,
           OnDiskKept(disk, prompts), InMemoryKept(disk, mem, "prompting", prompts)
    PROVE  LET d == [disk EXCEPT !.session = "prompted"]
               l == [mem EXCEPT !.session = "prompted"]
           IN  /\ d \in UnitRecord /\ l \in UnitRecord
               /\ OnDiskKept(d, prompts)
               /\ InMemoryKept(d, l, "working", prompts)
               /\ InMemoryKept(d, mem, "failing", prompts)
               /\ InMemoryKept(disk, mem, "failing", prompts)
<1> DEFINE d == [disk EXCEPT !.session = "prompted"]
           l == [mem EXCEPT !.session = "prompted"]
<1>1. disk.session \in Session /\ mem.session \in Session
    BY UnitFields
<1>2. /\ d \in UnitRecord
      /\ d.session = "prompted" /\ d.status = disk.status
      /\ d.attempt = disk.attempt /\ d.attempts = disk.attempts
    BY SessionSet
<1>3. /\ l \in UnitRecord
      /\ l.session = "prompted" /\ l.status = mem.status
      /\ l.attempt = mem.attempt /\ l.attempts = mem.attempts
    BY SessionSet
<1> HIDE DEF d, l
<1>4. /\ HistoryKept(disk) /\ HistoryKept(mem) /\ disk.status = "running" /\ mem.status = "running"
      /\ disk.attempts # <<>> /\ mem.attempts # <<>>
    BY DEF OnDiskKept, InMemoryKept, AtWork, HistoryKept
<1>5. HistoryKept(d)
    BY <1>2, <1>4, SameHistory
<1>6. HistoryKept(l)
    BY <1>3, <1>4, SameHistory
<1>7. OnDiskKept(d, prompts)
    BY <1>1, <1>2, <1>5 DEF OnDiskKept
<1>8. InMemoryKept(d, l, "working", prompts)
    BY <1>1, <1>2, <1>3, <1>4, <1>6, Ranked DEF InMemoryKept, AtWork, BeforePrompt
<1>9. InMemoryKept(d, mem, "failing", prompts)
    BY <1>1, <1>2, <1>4, Ranked DEF InMemoryKept, AtWork, BeforePrompt
<1>10. InMemoryKept(disk, mem, "failing", prompts)
    BY LaneMoves
<1> QED
    BY <1>2, <1>3, <1>7, <1>8, <1>9, <1>10 DEF d, l

(* The end of a unit: as it is asked for, written and told.                *)
LEMMA EndStays ==
    ASSUME NEW call, NEW disk, NEW mem, NEW disk2, NEW mem2, NEW at, NEW prompts,
           EndKept(call, disk, mem, at, prompts),
           disk2.attempt = disk.attempt, disk2.session = disk.session,
           mem.attempts # <<>> => mem2.attempts # <<>>
    PROVE  EndKept(call, disk2, mem2, at, prompts)
BY DEF EndKept

LEMMA EndBegins ==
    ASSUME NEW disk \in UnitRecord, NEW mem \in UnitRecord, NEW prompts \in Nat, NEW at,
           OnDiskKept(disk, prompts), InMemoryKept(disk, mem, at, prompts),
           NEW status \in Terminal, NEW last \in BOOLEAN, ~last => at = "working",
           NEW call, call.kind = "finish", call.last = last, call.record = FinishedUnit(mem, status)
    PROVE  /\ call.record \in UnitRecord
           /\ EndKept(call, disk, mem, IF last THEN "failEnding" ELSE "ending", prompts)
<1>1. HistoryKept(mem)
    BY DEF InMemoryKept
<1>2. /\ call.record \in UnitRecord /\ HistoryKept(call.record)
      /\ call.record.session = mem.session /\ call.record.attempt = mem.attempt
      /\ call.record.status = status /\ call.record.attempts # <<>>
    BY <1>1, FinishedUnitFields
<1>3. mem.attempt = disk.attempt /\ (prompts > 0 => mem.session # "none")
      /\ (~last => mem.session = "prompted")
    BY DEF InMemoryKept
<1>4. mem.session # "none" => mem.attempts # <<>>
    BY <1>1 DEF HistoryKept
<1> QED
    BY <1>2, <1>3, <1>4 DEF EndKept

LEMMA EndWritten ==
    ASSUME NEW disk \in UnitRecord, NEW mem \in UnitRecord, NEW prompts \in Nat, NEW at,
           OnDiskKept(disk, prompts), InMemoryKept(disk, mem, at, prompts),
           NEW call, call.kind = "finish", call.record \in UnitRecord, call.last \in BOOLEAN,
           EndKept(call, disk, mem, at, prompts),
           NEW next, next.kind = "finishEvent", next.record = call.record, next.last = call.last
    PROVE  LET caught == IF call.last THEN "lost" ELSE "failing"
           IN  /\ OnDiskKept(call.record, prompts)
               /\ InMemoryKept(call.record, mem, at, prompts)
               /\ InMemoryKept(call.record, mem, caught, prompts)
               /\ InMemoryKept(disk, mem, caught, prompts)
               /\ EndKept(next, call.record, mem, at, prompts)
<1> DEFINE record == call.record
<1>1. /\ HistoryKept(record) /\ record.status \in Terminal /\ record.attempts # <<>>
      /\ record.attempt = disk.attempt /\ (record.session # "none" => mem.attempts # <<>>)
      /\ (prompts > 0 => record.session # "none")
      /\ at = (IF call.last THEN "failEnding" ELSE "ending")
      /\ (at = "ending" => record.session = "prompted")
    BY DEF EndKept
<1>2. record \in UnitRecord /\ record.session \in Session /\ mem.session \in Session
    BY UnitFields
<1> HIDE DEF record
<1>3. OnDiskKept(record, prompts)
    BY <1>1 DEF OnDiskKept
<1>4. InMemoryKept(record, mem, at, prompts)
    BY <1>1, <1>2, Ranked DEF InMemoryKept, AtWork, BeforePrompt
<1>5. EndKept(next, record, mem, at, prompts)
    BY <1>1 DEF EndKept, record
<1>6. at \in {"failEnding", "ending"} /\ (~call.last => at = "ending")
    BY <1>1
<1>7. InMemoryKept(record, mem, "lost", prompts) /\ InMemoryKept(disk, mem, "lost", prompts)
    BY <1>2, <1>3, <1>4, <1>6, LaneMoves
<1>8. ~call.last => InMemoryKept(record, mem, "failing", prompts) /\ InMemoryKept(disk, mem, "failing", prompts)
    BY <1>2, <1>3, <1>4, <1>6, LaneMoves
<1> QED
    BY <1>3, <1>4, <1>5, <1>7, <1>8 DEF record

LEMMA EndTold ==
    ASSUME NEW disk \in UnitRecord, NEW mem \in UnitRecord, NEW prompts \in Nat, NEW at,
           OnDiskKept(disk, prompts), InMemoryKept(disk, mem, at, prompts),
           NEW call, call.kind = "finishEvent", call.record \in UnitRecord, call.last \in BOOLEAN,
           EndKept(call, disk, mem, at, prompts)
    PROVE  /\ InMemoryKept(disk, call.record, "done", prompts)
           /\ InMemoryKept(disk, disk, IF call.last THEN "lost" ELSE "failing", prompts)
<1>1. /\ HistoryKept(call.record) /\ call.record.status \in Terminal /\ call.record.attempts # <<>>
      /\ call.record.attempt = disk.attempt /\ call.record.session = disk.session
      /\ at \in {"failEnding", "ending"}
    BY DEF EndKept
<1>2. call.record.session \in Session /\ disk.session \in Session
    BY UnitFields
<1>3. HistoryKept(disk) /\ disk.status # "absent" /\ (prompts > 0 => disk.session # "none")
      /\ (disk.session # "none" => disk.attempts # <<>>)
    BY <1>1 DEF OnDiskKept, InMemoryKept, HistoryKept
<1>4. InMemoryKept(disk, call.record, "done", prompts)
    BY <1>1, <1>2, <1>3, Ranked DEF InMemoryKept, AtWork, BeforePrompt
<1>5. InMemoryKept(disk, disk, "lost", prompts) /\ InMemoryKept(disk, disk, "failing", prompts)
    BY <1>2, <1>3, Ranked DEF InMemoryKept, AtWork, BeforePrompt
<1> QED
    BY <1>4, <1>5

(* A unit that a fanout step adds.                                         *)
LEMMA AddedKeeps ==
    ASSUME NEW disk \in UnitRecord, NEW mem \in UnitRecord, NEW prompts \in Nat, NEW at,
           NEW disk2, disk2 \in {disk, IF disk.status = "absent" THEN NewUnit ELSE disk},
           NEW mem2, \/ mem2 = mem
                     \/ /\ mem2 = IF mem.status = "absent" THEN NewUnit ELSE mem
                        /\ disk2.status # "absent"
    PROVE  /\ disk2 \in UnitRecord /\ mem2 \in UnitRecord
           /\ OnDiskKept(disk, prompts) =>
                /\ OnDiskKept(disk2, prompts)
                /\ disk2.attempt = disk.attempt /\ disk2.session = disk.session
           /\ OnDiskKept(disk, prompts) /\ InMemoryKept(disk, mem, at, prompts) =>
                /\ InMemoryKept(disk2, mem2, at, prompts)
                /\ mem.attempts # <<>> => mem2.attempts # <<>>
<1>0. /\ NewUnit \in UnitRecord /\ HistoryKept(NewUnit) /\ NewUnit.attempts = <<>>
      /\ NewUnit.session = "none" /\ NewUnit.attempt = 1 /\ NewUnit.status = "queued"
    BY NewUnitKept
<1>1. \A unit \in UnitRecord : HistoryKept(unit) /\ unit.status = "absent" =>
          unit.attempts = <<>> /\ unit.attempt = 1 /\ unit.session = "none"
    BY NewUnitKept DEF HistoryKept
<1>2. disk2 \in UnitRecord /\ mem2 \in UnitRecord
    BY <1>0
<1>3. ASSUME OnDiskKept(disk, prompts)
      PROVE  /\ OnDiskKept(disk2, prompts)
             /\ disk2.attempt = disk.attempt /\ disk2.session = disk.session
             /\ disk.status # "absent" => disk2.status # "absent"
             /\ disk2.status = disk.status \/ (disk.status = "absent" /\ disk2 = NewUnit)
    BY <1>0, <1>1, <1>3 DEF OnDiskKept
<1>4. ASSUME OnDiskKept(disk, prompts), InMemoryKept(disk, mem, at, prompts)
      PROVE  /\ InMemoryKept(disk2, mem2, at, prompts)
             /\ mem.attempts # <<>> => mem2.attempts # <<>>
    <2>1. /\ HistoryKept(mem) /\ HistoryKept(mem2)
          /\ mem2.attempt = mem.attempt /\ mem2.session = mem.session /\ mem2.attempts = mem.attempts
          /\ mem.status # "absent" => mem2 = mem
          /\ mem2.status # "absent" => disk2.status # "absent"
        BY <1>0, <1>1, <1>3, <1>4 DEF InMemoryKept
    <2>2. mem.status = "absent" => at = "idle"
        BY <1>4 DEF InMemoryKept
    <2>3. mem.status = "running" => mem2.status = "running"
        BY <2>1
    <2>4. disk.status = "running" => disk2.status = "running"
        BY <1>3, <1>4
    <2>5. mem.status # "absent" => InMemoryKept(disk2, mem, at, prompts)
        BY <1>3, <1>4, <2>1, <2>4 DEF InMemoryKept
    <2>6. mem.status = "absent" => InMemoryKept(disk2, mem2, "idle", prompts)
        BY <1>3, <1>4, <2>1, <2>2 DEF InMemoryKept, AtWork, BeforePrompt
    <2> QED
        BY <2>1, <2>2, <2>5, <2>6
<1> QED
    BY <1>2, <1>3, <1>4

(* A unit that a resumption takes up, or leaves as it is.                  *)
LEMMA ResumedKeeps ==
    ASSUME NEW disk \in UnitRecord, NEW prompts \in Nat, OnDiskKept(disk, prompts),
           disk.status # "absent", NeverStarted(disk) \/ disk.session = "prompted"
    PROVE  LET r == ResumedUnit(disk)
           IN  /\ r \in UnitRecord
               /\ OnDiskKept(r, prompts) /\ InMemoryKept(r, r, "idle", prompts)
<1> DEFINE r == ResumedUnit(disk)
<1>0. HistoryKept(disk) /\ prompts \in {0, 1} /\ (prompts > 0 => disk.session # "none")
    BY DEF OnDiskKept
<1>1. CASE NeverStarted(disk)
    <2>1. /\ r \in UnitRecord /\ r.session = "none" /\ r.attempts = <<>> /\ r.status = "queued"
          /\ r.attempt = disk.attempt
        <3>1. r = [disk EXCEPT !.session = "none"]
            BY <1>1 DEF ResumedUnit
        <3>2. /\ [disk EXCEPT !.session = "none"] \in UnitRecord
              /\ [disk EXCEPT !.session = "none"].session = "none"
              /\ [disk EXCEPT !.session = "none"].status = disk.status
              /\ [disk EXCEPT !.session = "none"].attempt = disk.attempt
              /\ [disk EXCEPT !.session = "none"].attempts = disk.attempts
            BY SessionSet
        <3>3. disk.status = "queued" /\ disk.attempts = <<>>
            BY <1>1 DEF NeverStarted
        <3> HIDE DEF r
        <3> QED
            BY <3>1, <3>2, <3>3
    <2>2. prompts = 0
        BY <1>0, <1>1 DEF HistoryKept, NeverStarted
    <2> HIDE DEF r
    <2>3. HistoryKept(r)
        BY <2>1 DEF HistoryKept
    <2>4. r.session \in Session
        BY <2>1
    <2> QED
        BY <2>1, <2>2, <2>3, <2>4, Ranked DEF OnDiskKept, InMemoryKept, AtWork, BeforePrompt, r
<1>2. CASE ~NeverStarted(disk)
    <2> DEFINE old == disk.attempts
               Closed(a) == IF a.status = "running" THEN [a EXCEPT !.status = "failed"] ELSE a
               all == [i \in DOMAIN old |-> IF i = Len(old) THEN Closed(old[i]) ELSE old[i]]
    <2>1. r = [disk EXCEPT !.status = "queued", !.attempt = disk.attempt + 1, !.attempts = all]
        BY <1>2 DEF ResumedUnit
    <2>2. /\ old \in Seq(Attempt) /\ disk.attempt \in Nat /\ DOMAIN old = 1..Len(old)
          /\ Len(old) \in Nat /\ old # <<>>
        BY <1>0, <1>2, UnitFields DEF HistoryKept
    <2>3. \A a \in Attempt : Closed(a) \in Attempt /\ Closed(a).attempt = a.attempt
                             /\ Closed(a).status # "running"
        BY DEF Attempt
    <2>4. \A i \in 1..Len(old) : old[i] \in Attempt
        BY <2>2
    <2> HIDE DEF Closed
    <2>5. all \in Seq(Attempt) /\ Len(all) = Len(old) /\ DOMAIN all = 1..Len(old) /\ all # <<>>
        BY <2>2, <2>3, <2>4
    <2>6. \A i \in 1..Len(old) : all[i] \in Attempt /\ all[i].attempt = old[i].attempt
                                 /\ all[i].status # "running"
        <3> SUFFICES ASSUME NEW i \in 1..Len(old)
                     PROVE  all[i] \in Attempt /\ all[i].attempt = old[i].attempt
                            /\ all[i].status # "running"
            OBVIOUS
        <3>1. CASE i = Len(old)
            BY <2>2, <2>3, <2>4, <3>1
        <3>2. CASE i # Len(old)
            BY <1>0, <2>2, <2>4, <3>2 DEF HistoryKept
        <3> QED
            BY <3>1, <3>2
    <2> HIDE DEF all
    <2>7. /\ r \in UnitRecord /\ r.session = "prompted" /\ r.attempts = all /\ r.status = "queued"
          /\ r.attempt = disk.attempt + 1
        <3>1. disk.session = "prompted"
            BY <1>2
        <3>2. disk.attempt + 1 \in Nat
            BY <2>2
        <3> HIDE DEF r
        <3> QED
            BY <2>1, <2>5, <3>1, <3>2 DEF UnitRecord
    <2> HIDE DEF r
    <2>8. HistoryKept(r)
        <3>1. ASSUME NEW i \in 1..Len(old)
              PROVE  /\ \A j \in i..Len(old) : all[i].attempt <= all[j].attempt
                     /\ all[i].attempt <= disk.attempt + 1
            <4>1. /\ old[i].attempt \in Nat /\ old[i].attempt <= disk.attempt
                  /\ \A j \in i..Len(old) : old[i].attempt <= old[j].attempt
                <5>1. old[i].attempt \in Nat
                    BY <2>4 DEF Attempt
                <5> QED
                    BY <1>0, <2>2, <5>1 DEF HistoryKept
            <4>2. \A j \in i..Len(old) : j \in 1..Len(old)
                BY <2>2
            <4>3. \A j \in i..Len(old) : all[i].attempt <= all[j].attempt
                BY <2>6, <4>1, <4>2
            <4>4. all[i].attempt <= disk.attempt + 1
                BY <2>2, <2>6, <4>1
            <4> QED
                BY <4>3, <4>4
        <3> QED
            BY <2>5, <2>6, <2>7, <3>1 DEF HistoryKept
    <2>9. r.session \in Session
        BY <2>7
    <2> QED
        BY <1>0, <2>5, <2>7, <2>8, <2>9, Ranked DEF OnDiskKept, InMemoryKept, AtWork, BeforePrompt, r
<1> QED
    BY <1>1, <1>2

LEMMA LeftKeeps ==
    ASSUME NEW disk \in UnitRecord, NEW prompts \in Nat, OnDiskKept(disk, prompts)
    PROVE  /\ disk.status = "absent" => InMemoryKept(disk, disk, "idle", prompts)
           /\ disk.status = "completed" => InMemoryKept(disk, disk, "done", prompts)
<1>1. disk.session \in Session
    BY UnitFields
<1>2. HistoryKept(disk) /\ (prompts > 0 => disk.session # "none")
      /\ (disk.session # "none" => disk.attempts # <<>>)
    BY DEF OnDiskKept, HistoryKept
<1>3. disk.status = "absent" => disk.session = "none"
    BY <1>2, NewUnitKept DEF HistoryKept
<1> QED
    BY <1>1, <1>2, <1>3, Ranked DEF InMemoryKept, AtWork, BeforePrompt

-----------------------------------------------------------------------------
(* The queues.                                                             *)
LEMMA CallForFields ==
    ASSUME NEW k, NEW u
    PROVE  /\ CallFor(k, u).kind = k /\ CallFor(k, u).unit = u
           /\ CallFor(k, u).record = Nothing /\ CallFor(k, u).last = FALSE
BY DEF CallFor

LEMMA CallForTyped ==
    ASSUME NEW k \in Write \cup {"startEvent", "runTerminal"}, NEW u \in Unit \cup {Nothing}
    PROVE  CallFor(k, u) \in Call
BY DEF CallFor, Call

(* A durable write is added.                                               *)
LEMMA EnqueueKeeps ==
    ASSUME durable \in Seq(Call), calls \in Seq(Call), QueuesKept,
           NEW write \in Call, write.kind \in Write, write = CallFor(write.kind, write.unit),
           Strict(write) => write \notin Awaited,
           Enqueue(write)
    PROVE  /\ durable' \in Seq(Call) /\ calls' \in Seq(Call) /\ QueuesKept'
           /\ Awaited' = Awaited \cup {write}
           /\ Asked' \subseteq Asked \cup {write}
<1>1. durable' = Append(durable, write) /\ durable' \in Seq(Call)
    BY DEF Enqueue
<1>2. /\ durable' # <<>> /\ Len(durable') = Len(durable) + 1 /\ durable'[Len(durable) + 1] = write
      /\ \A i \in DOMAIN durable : durable'[i] = durable[i]
      /\ DOMAIN durable = 1..Len(durable) /\ DOMAIN durable' = 1..(Len(durable) + 1)
      /\ Len(durable) \in Nat
    BY <1>1
<1>3. /\ durable # <<>> => Head(durable') = Head(durable)
      /\ durable = <<>> => Head(durable') = write
    BY <1>1
<1>4. Awaited' = Awaited \cup {write}
    BY <1>2 DEF Awaited
<1>5. \A i, j \in DOMAIN durable' : durable'[i] = durable'[j] /\ Strict(durable'[i]) => i = j
    BY <1>2 DEF QueuesKept, Awaited
<1>6. CASE durable # <<>>
    <2>1. calls' = calls
        BY <1>6 DEF Enqueue
    <2>2. Asked' = Asked
        BY <2>1 DEF Asked
    <2> QED
        BY <1>1, <1>2, <1>3, <1>4, <1>5, <1>6, <2>1, <2>2 DEF QueuesKept
<1>7. CASE durable = <<>>
    <2>1. calls' = Append(calls, write) /\ calls' \in Seq(Call)
        BY <1>7 DEF Enqueue
    <2>2. /\ Len(calls') = Len(calls) + 1 /\ calls'[Len(calls) + 1] = write
          /\ \A i \in DOMAIN calls : calls'[i] = calls[i]
          /\ DOMAIN calls = 1..Len(calls) /\ DOMAIN calls' = 1..(Len(calls) + 1)
          /\ Len(calls) \in Nat
        BY <2>1
    <2>3. Asked' = Asked \cup {write}
        BY <2>2 DEF Asked
    <2>4. \A i \in DOMAIN calls : ~OfQueue(calls[i])
        BY <1>7 DEF QueuesKept, Asked, OfQueue
    <2>5. \A i \in DOMAIN calls : ~SameCaller(calls[i], write) /\ ~SameCaller(write, calls[i])
        BY <2>4 DEF SameCaller, OfQueue, OfEnd, Write
    <2>6. \A i, j \in DOMAIN calls' : SameCaller(calls'[i], calls'[j]) => i = j
        BY <2>2, <2>5 DEF QueuesKept
    <2>7. \A call \in Asked :  ~OfQueue(call)
        BY <2>4 DEF Asked
    <2>8. \A call \in Asked' :
              /\ call.kind \in Write => durable' # <<>> /\ call = Head(durable')
              /\ call.kind = "startEvent" =>
                    durable' # <<>> /\ Head(durable') = CallFor("start", call.unit)
        BY <1>2, <1>3, <1>7, <2>3, <2>7 DEF OfQueue, Write
    <2> QED
        BY <1>1, <1>4, <1>5, <2>1, <2>3, <2>6, <2>8 DEF QueuesKept
<1> QED
    BY <1>6, <1>7

(* The first call is served; those behind it are of other callers.         *)
LEMMA FirstCall ==
    ASSUME calls \in Seq(Call), QueuesKept, calls # <<>>
    PROVE  /\ Served \in Asked /\ Served \in Call
           /\ Tail(calls) \in Seq(Call) /\ Len(Tail(calls)) = Len(calls) - 1
           /\ \A i \in DOMAIN Tail(calls) : i + 1 \in DOMAIN calls /\ Tail(calls)[i] = calls[i + 1]
           /\ \A i \in DOMAIN Tail(calls) :
                 /\ Tail(calls)[i] \in Asked /\ ~SameCaller(Tail(calls)[i], Served)
           /\ \A i, j \in DOMAIN Tail(calls) : SameCaller(Tail(calls)[i], Tail(calls)[j]) => i = j
<1>1. /\ Tail(calls) \in Seq(Call) /\ Len(Tail(calls)) = Len(calls) - 1
      /\ DOMAIN Tail(calls) = 1..(Len(calls) - 1) /\ DOMAIN calls = 1..Len(calls)
      /\ Len(calls) \in Nat /\ 1 \in DOMAIN calls /\ Served = calls[1] /\ Served \in Call
    BY DEF Served
<1>2. \A i \in DOMAIN Tail(calls) : i + 1 \in DOMAIN calls /\ Tail(calls)[i] = calls[i + 1]
    BY <1>1
<1>3. \A i \in DOMAIN Tail(calls) : i + 1 # 1 /\ i \in Nat
    BY <1>1
<1>4. \A i \in DOMAIN Tail(calls) : Tail(calls)[i] \in Asked /\ ~SameCaller(Tail(calls)[i], Served)
    BY <1>1, <1>2, <1>3 DEF QueuesKept, Asked
<1>5. \A i, j \in DOMAIN Tail(calls) : SameCaller(Tail(calls)[i], Tail(calls)[j]) => i = j
    <2> SUFFICES ASSUME NEW i \in DOMAIN Tail(calls), NEW j \in DOMAIN Tail(calls),
                        SameCaller(Tail(calls)[i], Tail(calls)[j])
                 PROVE  i = j
        OBVIOUS
    <2>1. i + 1 = j + 1
        BY <1>2 DEF QueuesKept
    <2> QED
        BY <1>3, <2>1
<1>6. Served \in Asked
    BY <1>1 DEF Asked
<1> QED
    BY <1>1, <1>2, <1>4, <1>5, <1>6

LEMMA LastCallKeeps ==
    ASSUME durable \in Seq(Call), calls \in Seq(Call), QueuesKept, calls # <<>>, LastCall
    PROVE  /\ durable' \in Seq(Call) /\ calls' \in Seq(Call) /\ QueuesKept'
           /\ Awaited' = Awaited
           /\ \A call \in Asked' : call \in Asked /\ ~SameCaller(call, Served)
<1>1. durable' = durable /\ calls' = Tail(calls)
    BY DEF LastCall
<1>2. Awaited' = Awaited
    BY <1>1 DEF Awaited
<1>3. \A call \in Asked' : call \in Asked /\ ~SameCaller(call, Served)
    BY <1>1, FirstCall DEF Asked
<1> QED
    BY <1>1, <1>2, <1>3, FirstCall DEF QueuesKept

LEMMA NextCallKeeps ==
    ASSUME durable \in Seq(Call), calls \in Seq(Call), QueuesKept, calls # <<>>,
           NEW next \in Call, NextCall(next), next.unit = For,
           \/ Served.kind = "start" /\ next.kind = "startEvent"
           \/ Served.kind = "finish" /\ next.kind = "finishEvent"
    PROVE  /\ durable' \in Seq(Call) /\ calls' \in Seq(Call) /\ QueuesKept'
           /\ Awaited' = Awaited
           /\ \A call \in Asked' : \/ call = next
                                   \/ call \in Asked /\ ~SameCaller(call, Served)
<1> DEFINE rest == Tail(calls)
<1>1. durable' = durable /\ calls' = Append(rest, next)
    BY DEF NextCall
<1>2. Awaited' = Awaited
    BY <1>1 DEF Awaited
<1>3. rest \in Seq(Call) /\ DOMAIN rest = 1..Len(rest) /\ Len(rest) \in Nat
    BY FirstCall
<1>4. \A i \in DOMAIN rest : rest[i] \in Asked /\ ~SameCaller(rest[i], Served)
    BY FirstCall
<1>5. \A i, j \in DOMAIN rest : SameCaller(rest[i], rest[j]) => i = j
    BY FirstCall
<1> HIDE DEF rest
<1>6. /\ calls' \in Seq(Call) /\ Len(calls') = Len(rest) + 1 /\ calls'[Len(rest) + 1] = next
      /\ \A i \in DOMAIN rest : calls'[i] = rest[i]
      /\ DOMAIN calls' = 1..(Len(rest) + 1)
    BY <1>1, <1>3
<1>7. \A call \in Asked' : \/ call = next
                           \/ call \in Asked /\ ~SameCaller(call, Served)
    BY <1>3, <1>4, <1>6 DEF Asked
<1>8. \A c : ~SameCaller(c, Served) => ~SameCaller(c, next) /\ ~SameCaller(next, c)
    BY DEF SameCaller, OfQueue, OfEnd, Write, For, Served
<1>9. \A i, j \in DOMAIN calls' : SameCaller(calls'[i], calls'[j]) => i = j
    BY SMTT(30), <1>3, <1>4, <1>5, <1>6, <1>8
<1>10. Served \in Asked
    BY FirstCall
<1>11. \A c : OfQueue(c) /\ ~SameCaller(c, Served) => ~OfQueue(Served)
    BY DEF SameCaller
<1>12. \A call \in Asked' :
          /\ call.kind \in Write => durable # <<>> /\ call = Head(durable)
          /\ call.kind = "startEvent" => durable # <<>> /\ Head(durable) = CallFor("start", call.unit)
    <2> SUFFICES ASSUME NEW call \in Asked'
                 PROVE  /\ call.kind \in Write => durable # <<>> /\ call = Head(durable)
                        /\ call.kind = "startEvent" =>
                              durable # <<>> /\ Head(durable) = CallFor("start", call.unit)
        OBVIOUS
    <2>1. CASE call = next
        <3>1. call.kind \notin Write
            BY <2>1 DEF Write
        <3>2. ASSUME call.kind = "startEvent"
              PROVE  durable # <<>> /\ Head(durable) = CallFor("start", call.unit)
            <4>1. Served.kind = "start"
                BY <2>1, <3>2
            <4>2. durable # <<>> /\ Served = Head(durable) /\ Served \in Awaited
                BY <1>10, <4>1 DEF QueuesKept, Write, Awaited
            <4>3. Served = CallFor("start", For)
                BY <4>1, <4>2 DEF QueuesKept, For, Served
            <4> QED
                BY <2>1, <4>2, <4>3
        <3> QED
            BY <3>1, <3>2
    <2>2. CASE call \in Asked
        BY <2>2 DEF QueuesKept
    <2> QED
        BY <1>7, <2>1, <2>2
<1> QED
    BY <1>1, <1>2, <1>6, <1>7, <1>9, <1>12 DEF QueuesKept

(* A call behind calls of others is alone of its caller again.             *)
CallersApart(list) ==
    \A i, j \in DOMAIN list : SameCaller(list[i], list[j]) => i = j

LEMMA OneMoreCaller ==
    ASSUME NEW list \in Seq(Call), NEW next \in Call, CallersApart(list),
           \A i \in DOMAIN list : ~SameCaller(list[i], next) /\ ~SameCaller(next, list[i])
    PROVE  /\ Append(list, next) \in Seq(Call)
           /\ CallersApart(Append(list, next))
           /\ Append(list, next)[Len(list) + 1] = next
           /\ DOMAIN Append(list, next) = 1..(Len(list) + 1) /\ Len(list) \in Nat
           /\ DOMAIN list = 1..Len(list) /\ Len(Append(list, next)) = Len(list) + 1
           /\ \A i \in DOMAIN list : Append(list, next)[i] = list[i]
           /\ \A i \in DOMAIN Append(list, next) :
                 \/ i \in DOMAIN list /\ Append(list, next)[i] = list[i]
                 \/ i = Len(list) + 1 /\ Append(list, next)[i] = next
<1> DEFINE all == Append(list, next)
<1>1. /\ all \in Seq(Call) /\ Len(all) = Len(list) + 1 /\ DOMAIN all = 1..(Len(list) + 1)
      /\ Len(list) \in Nat /\ DOMAIN list = 1..Len(list)
      /\ all[Len(list) + 1] = next /\ \A i \in DOMAIN list : all[i] = list[i]
    OBVIOUS
<1> HIDE DEF all
<1>2. \A i \in DOMAIN all : \/ i \in DOMAIN list /\ all[i] = list[i]
                            \/ i = Len(list) + 1 /\ all[i] = next
    BY <1>1
<1>3. \A i, j \in DOMAIN all : SameCaller(all[i], all[j]) => i = j
    BY <1>2 DEF CallersApart
<1> QED
    BY <1>1, <1>2, <1>3 DEF CallersApart, all

(* The write that was served settles, and the next one makes its call.     *)
LEMMA SettleKeeps ==
    ASSUME durable \in Seq(Call), calls \in Seq(Call), QueuesKept, calls # <<>>,
           OfQueue(Served), NEW more \in Seq(Call), SettleThen(more),
           more = <<>> \/ \E u \in Unit : more = <<CallFor("delivered", u)>>
    PROVE  /\ durable' \in Seq(Call) /\ calls' \in Seq(Call) /\ QueuesKept'
           /\ durable # <<>> /\ Head(durable) \in Awaited
           /\ Served.kind \in Write => Served = Head(durable)
           /\ Served.kind = "startEvent" => Head(durable) = CallFor("start", For)
           /\ \A write \in Awaited' :
                 \/ write \in Awaited /\ (Strict(write) => write # Head(durable))
                 \/ \E i \in DOMAIN more : write = more[i]
           /\ \A call \in Asked' : \/ call.kind \in Write
                                   \/ call \in Asked /\ ~SameCaller(call, Served)
<1> DEFINE past == Tail(durable)
           rest == past \o more
           left == Tail(calls)
<1>1. /\ Served \in Asked /\ Served \in Call
      /\ left \in Seq(Call) /\ DOMAIN left = 1..Len(left) /\ Len(left) \in Nat
      /\ \A i \in DOMAIN left : left[i] \in Asked /\ ~SameCaller(left[i], Served)
      /\ \A i, j \in DOMAIN left : SameCaller(left[i], left[j]) => i = j
    BY FirstCall
<1>2. /\ durable # <<>>
      /\ Served.kind \in Write => Served = Head(durable)
      /\ Served.kind = "startEvent" => Head(durable) = CallFor("start", For)
    BY <1>1 DEF QueuesKept, OfQueue, For, Served
<1>3. /\ past \in Seq(Call) /\ Len(past) \in Nat /\ DOMAIN past = 1..Len(past)
      /\ DOMAIN durable = 1..Len(durable) /\ Len(past) = Len(durable) - 1 /\ Len(durable) \in Nat
      /\ \A i \in DOMAIN past : i + 1 \in DOMAIN durable /\ past[i] = durable[i + 1]
      /\ 1 \in DOMAIN durable /\ Head(durable) = durable[1]
    BY <1>2
<1>4. Head(durable) \in Awaited
    BY <1>3 DEF Awaited
<1>5. \A i \in DOMAIN past :
          past[i] \in Awaited /\ (Strict(past[i]) => past[i] # Head(durable))
    <2> SUFFICES ASSUME NEW i \in DOMAIN past
                 PROVE  past[i] \in Awaited /\ (Strict(past[i]) => past[i] # Head(durable))
        OBVIOUS
    <2>1. i + 1 \in DOMAIN durable /\ past[i] = durable[i + 1] /\ i + 1 # 1
        BY <1>3
    <2> QED
        BY <1>3, <2>1 DEF QueuesKept, Awaited
<1>6. \A i, j \in DOMAIN past : past[i] = past[j] /\ Strict(past[i]) => i = j
    <2> SUFFICES ASSUME NEW i \in DOMAIN past, NEW j \in DOMAIN past,
                        past[i] = past[j], Strict(past[i])
                 PROVE  i = j
        OBVIOUS
    <2>1. i + 1 = j + 1
        BY <1>3 DEF QueuesKept
    <2> QED
        BY <1>3, <2>1
<1> HIDE DEF past, left
<1>7. durable' = rest /\ rest \in Seq(Call)
    BY <1>3 DEF SettleThen, past
<1>8. /\ \A i \in DOMAIN more : more[i].kind = "delivered" /\ more[i] = CallFor("delivered", more[i].unit)
                                /\ i = 1
      /\ DOMAIN more = 1..Len(more) /\ Len(more) \in Nat /\ Len(more) <= 1
    <2>1. CASE more = <<>>
        BY <2>1
    <2>2. ASSUME NEW u \in Unit, more = <<CallFor("delivered", u)>>
          PROVE  /\ \A i \in DOMAIN more : /\ more[i].kind = "delivered"
                                           /\ more[i] = CallFor("delivered", more[i].unit)
                                           /\ i = 1
                 /\ DOMAIN more = 1..Len(more) /\ Len(more) \in Nat /\ Len(more) <= 1
        <3> DEFINE w == CallFor("delivered", u)
        <3>0. CallFor("delivered", u).kind = "delivered" /\ CallFor("delivered", u).unit = u
            BY CallForFields
        <3>1. w.kind = "delivered" /\ w.unit = u /\ w = CallFor("delivered", w.unit)
            BY <3>0
        <3> HIDE DEF w
        <3>2. more = <<w>>
            BY <2>2 DEF w
        <3>3. DOMAIN more = {1} /\ more[1] = w /\ Len(more) = 1 /\ 1..1 = {1}
            BY <3>2
        <3> QED
            BY <3>1, <3>3
    <2> QED
        BY <2>1, <2>2
<1>9. /\ Len(rest) = Len(past) + Len(more) /\ DOMAIN rest = 1..Len(rest)
      /\ \A i \in DOMAIN past : rest[i] = past[i]
      /\ \A i \in DOMAIN rest : i \notin DOMAIN past => i = Len(past) + 1 /\ rest[i] = more[1] /\ 1 \in DOMAIN more
    <2>1. /\ Len(rest) = Len(past) + Len(more) /\ DOMAIN rest = 1..Len(rest)
          /\ \A i \in 1..Len(past) : rest[i] = past[i]
          /\ \A i \in (Len(past) + 1)..(Len(past) + Len(more)) : rest[i] = more[i - Len(past)]
        BY <1>3, <1>8
    <2> HIDE DEF rest
    <2> QED
        BY <1>3, <1>8, <2>1
<1> HIDE DEF rest
<1>10. \A write \in Awaited' :
          \/ write \in Awaited /\ (Strict(write) => write # Head(durable))
          \/ \E i \in DOMAIN more : write = more[i]
    BY SMTT(30), <1>5, <1>7, <1>9 DEF Awaited
<1>11. \A write \in Awaited' : write.kind \in Write /\ write = CallFor(write.kind, write.unit)
    BY <1>8, <1>10 DEF QueuesKept, Write
<1>12. \A i, j \in DOMAIN durable' : durable'[i] = durable'[j] /\ Strict(durable'[i]) => i = j
    <2>1. \A i \in DOMAIN rest : i \notin DOMAIN past => ~Strict(rest[i])
        BY <1>8, <1>9 DEF Strict
    <2> QED
        BY <1>6, <1>7, <1>9, <2>1
<1>13. \A c : OfQueue(c) => SameCaller(c, Served)
    BY DEF SameCaller
<1>14. CASE rest = <<>>
    <2>1. calls' = left
        BY <1>1, <1>14 DEF SettleThen, rest, past, left
    <2>2. \A call \in Asked' : call \in Asked /\ ~SameCaller(call, Served)
        BY <1>1, <2>1 DEF Asked
    <2>3. \A call \in Asked' : ~OfQueue(call)
        BY <1>13, <2>2
    <2>4. \A call \in Asked' : call.kind \notin Write /\ call.kind # "startEvent"
        BY <2>3 DEF OfQueue
    <2>5. QueuesKept'
        BY <1>1, <1>11, <1>12, <2>1, <2>4 DEF QueuesKept
    <2> QED
        BY <1>1, <1>2, <1>4, <1>7, <1>10, <2>1, <2>2, <2>5
<1>15. CASE rest # <<>>
    <2> DEFINE next == Head(rest)
    <2>1. calls' = Append(left, next)
        <3>1. calls' = left \o <<next>>
            BY <1>15 DEF SettleThen, rest, past, left
        <3> QED
            BY <1>1, <3>1
    <2>2. next \in Call /\ next \in Awaited' /\ durable' # <<>> /\ Head(durable') = next
        BY <1>7, <1>15 DEF Awaited
    <2>3. next.kind \in Write
        BY <1>11, <2>2
    <2> HIDE DEF next
    <2>3a. \A c : ~SameCaller(c, Served) => ~SameCaller(c, next) /\ ~SameCaller(next, c)
        BY <2>3 DEF SameCaller, OfQueue, OfEnd, Write
    <2>3b. CallersApart(left)
        BY <1>1 DEF CallersApart
    <2>4. /\ calls' \in Seq(Call) /\ CallersApart(calls')
          /\ \A i \in DOMAIN calls' : \/ i \in DOMAIN left /\ calls'[i] = left[i]
                                      \/ calls'[i] = next
        <3>1. \A i \in DOMAIN left : ~SameCaller(left[i], next) /\ ~SameCaller(next, left[i])
            BY <1>1, <2>3a
        <3>2. left \in Seq(Call) /\ next \in Call
            BY <1>1, <2>2
        <3>3. /\ Append(left, next) \in Seq(Call) /\ CallersApart(Append(left, next))
              /\ \A i \in DOMAIN Append(left, next) :
                    \/ i \in DOMAIN left /\ Append(left, next)[i] = left[i]
                    \/ i = Len(left) + 1 /\ Append(left, next)[i] = next
            BY <2>3b, <3>1, <3>2, OneMoreCaller
        <3> QED
            BY ONLY <2>1, <3>3
    <2>5. \A call \in Asked' : \/ call = next
                               \/ call \in Asked /\ ~SameCaller(call, Served)
        BY <1>1, <2>4 DEF Asked
    <2>6. \A call \in Asked' : call = next \/ ~OfQueue(call)
        BY <1>13, <2>5
    <2>8. \A i, j \in DOMAIN calls' : SameCaller(calls'[i], calls'[j]) => i = j
        BY <2>4 DEF CallersApart
    <2>9. \A call \in Asked' :
              /\ call.kind \in Write => durable' # <<>> /\ call = Head(durable')
              /\ call.kind = "startEvent" =>
                    durable' # <<>> /\ Head(durable') = CallFor("start", call.unit)
        <3>1. next.kind # "startEvent"
            BY <2>3 DEF Write
        <3>2. \A call \in Asked' : call # next => call.kind \notin Write /\ call.kind # "startEvent"
            BY <2>6 DEF OfQueue
        <3> QED
            BY <2>2, <3>1, <3>2
    <2>10. QueuesKept'
        BY <1>11, <1>12, <2>8, <2>9 DEF QueuesKept
    <2>11. \A call \in Asked' : \/ call.kind \in Write
                                \/ call \in Asked /\ ~SameCaller(call, Served)
        BY <2>3, <2>5
    <2> QED
        BY <1>2, <1>4, <1>7, <1>10, <2>4, <2>10, <2>11
<1> QED
    BY <1>14, <1>15

(* A lane asks for the end of its unit, of which nothing is asked yet.     *)
LEMMA FinishIsAsked ==
    ASSUME durable \in Seq(Call), calls \in Seq(Call), QueuesKept,
           NEW call \in Call, call.kind = "finish",
           calls' = Append(calls, call), durable' = durable,
           \A c \in Asked : OfEnd(c) => c.unit # call.unit
    PROVE  /\ durable' \in Seq(Call) /\ calls' \in Seq(Call) /\ QueuesKept'
           /\ Awaited' = Awaited /\ Asked' = Asked \cup {call}
<1>1. /\ calls' \in Seq(Call) /\ Len(calls') = Len(calls) + 1 /\ calls'[Len(calls) + 1] = call
      /\ \A i \in DOMAIN calls : calls'[i] = calls[i]
      /\ DOMAIN calls = 1..Len(calls) /\ DOMAIN calls' = 1..(Len(calls) + 1) /\ Len(calls) \in Nat
    OBVIOUS
<1>2. Awaited' = Awaited
    BY DEF Awaited
<1>3. Asked' = Asked \cup {call}
    BY <1>1 DEF Asked
<1>4. \A c \in Asked : ~SameCaller(c, call) /\ ~SameCaller(call, c)
    BY DEF SameCaller, OfQueue, OfEnd, Write
<1>5. \A i \in DOMAIN calls : calls[i] \in Asked
    BY DEF Asked
<1>6. \A i, j \in DOMAIN calls' : SameCaller(calls'[i], calls'[j]) => i = j
    BY <1>1, <1>4, <1>5 DEF QueuesKept
<1>7. call.kind \notin Write /\ call.kind # "startEvent"
    BY DEF Write
<1> QED
    BY <1>1, <1>2, <1>3, <1>6, <1>7 DEF QueuesKept

(* The last update settles, and the end of the run is told.                *)
LEMMA FinalKeeps ==
    ASSUME durable \in Seq(Call), calls \in Seq(Call), QueuesKept, calls # <<>>,
           Served.kind = "final", \A c \in Asked : c.kind # "runTerminal",
           durable' = Tail(durable),
           calls' = Tail(calls) \o (IF Len(durable) > 1 THEN <<durable[2]>> ELSE <<>>)
                       \o <<CallFor("runTerminal", Nothing)>>
    PROVE  /\ durable' \in Seq(Call) /\ calls' \in Seq(Call) /\ QueuesKept'
           /\ \A write \in Awaited' : write \in Awaited /\ write # Served
           /\ \A call \in Asked' : \/ call.kind \in Write
                                   \/ call = CallFor("runTerminal", Nothing)
                                   \/ call \in Asked /\ ~SameCaller(call, Served)
<1> DEFINE rest == Tail(durable)
           end == CallFor("runTerminal", Nothing)
<1>0. calls \in Seq(Call) /\ QueuesKept /\ calls # <<>>
    OBVIOUS
<1>1. PICK left \in Seq(Call) :
          /\ left = Tail(calls)
          /\ \A i \in DOMAIN left : left[i] \in Asked /\ ~SameCaller(left[i], Served)
          /\ CallersApart(left)
    BY ONLY <1>0, FirstCall DEF CallersApart
<1>2. /\ Served \in Asked /\ Served \in Call
      /\ durable # <<>> /\ Served = Head(durable) /\ OfQueue(Served) /\ Served \in Awaited
    <2>1. Served \in Asked /\ Served \in Call
        BY ONLY <1>0, FirstCall
    <2> QED
        BY <2>1 DEF QueuesKept, OfQueue, Write, Awaited
<1>3. /\ rest \in Seq(Call) /\ Len(rest) \in Nat /\ DOMAIN rest = 1..Len(rest)
      /\ DOMAIN durable = 1..Len(durable) /\ Len(rest) = Len(durable) - 1 /\ Len(durable) \in Nat
      /\ \A i \in DOMAIN rest : i + 1 \in DOMAIN durable /\ rest[i] = durable[i + 1]
      /\ 1 \in DOMAIN durable /\ Served = durable[1]
    BY <1>2
<1>4. \A i \in DOMAIN rest : rest[i] \in Awaited /\ rest[i] # Served
    <2> SUFFICES ASSUME NEW i \in DOMAIN rest
                 PROVE  rest[i] \in Awaited /\ rest[i] # Served
        OBVIOUS
    <2>1. i + 1 \in DOMAIN durable /\ rest[i] = durable[i + 1] /\ i + 1 # 1
        BY <1>3
    <2>2. Strict(Served)
        BY DEF Strict
    <2> QED
        BY <1>3, <2>1, <2>2 DEF QueuesKept, Awaited
<1>5. \A i, j \in DOMAIN rest : rest[i] = rest[j] /\ Strict(rest[i]) => i = j
    <2> SUFFICES ASSUME NEW i \in DOMAIN rest, NEW j \in DOMAIN rest,
                        rest[i] = rest[j], Strict(rest[i])
                 PROVE  i = j
        OBVIOUS
    <2>1. i + 1 = j + 1
        BY <1>3 DEF QueuesKept
    <2> QED
        BY <1>3, <2>1
<1>6. end \in Call /\ end.kind = "runTerminal"
    BY CallForTyped, CallForFields
<1>7. durable' = rest
    OBVIOUS
<1>8. \A i \in DOMAIN left : ~OfQueue(left[i]) /\ left[i].kind # "runTerminal"
    BY <1>1, <1>2 DEF SameCaller
<1>9. PICK list \in Seq(Call) :
          /\ CallersApart(list)
          /\ calls' = list \o <<end>>
          /\ \A i \in DOMAIN list :
                \/ list[i] \in Asked /\ ~SameCaller(list[i], Served)
                \/ list[i].kind \in Write /\ rest # <<>> /\ list[i] = Head(rest)
    <2>1. CASE Len(durable) > 1
        <3> DEFINE next == durable[2]
        <3>1. /\ rest # <<>> /\ 1 \in DOMAIN rest /\ Head(rest) = rest[1] /\ rest[1] = next
              /\ next \in Call
            <4>1. 1 \in DOMAIN rest /\ 1 + 1 = 2 /\ 2 \in DOMAIN durable
                BY <1>3, <2>1
            <4>2. rest[1] = next
                BY <1>3, <4>1
            <4>3. next \in Call
                BY <4>1
            <4> HIDE DEF rest
            <4>4. rest # <<>> /\ Head(rest) = rest[1]
                BY <1>3, <4>1
            <4> QED
                BY <4>1, <4>2, <4>3, <4>4
        <3>2. next.kind \in Write
            BY <1>4, <3>1 DEF QueuesKept
        <3>3. calls' = left \o <<next>> \o <<end>>
            BY <1>1, <2>1
        <3> HIDE DEF next, end, rest
        <3>4. \A i \in DOMAIN left : ~SameCaller(left[i], next) /\ ~SameCaller(next, left[i])
            BY <1>8, <3>2 DEF SameCaller, OfQueue, OfEnd, Write
        <3>5. /\ Append(left, next) \in Seq(Call) /\ CallersApart(Append(left, next))
              /\ \A i \in DOMAIN Append(left, next) :
                    \/ i \in DOMAIN left /\ Append(left, next)[i] = left[i]
                    \/ i = Len(left) + 1 /\ Append(left, next)[i] = next
            <4>1. left \in Seq(Call) /\ next \in Call /\ CallersApart(left)
                BY <1>1, <3>1
            <4> QED
                BY ONLY <3>4, <4>1, OneMoreCaller
        <3>6. left \o <<next>> = Append(left, next)
            BY ONLY <1>1, <3>1
        <3>7. \A i \in DOMAIN Append(left, next) :
                 \/ Append(left, next)[i] \in Asked /\ ~SameCaller(Append(left, next)[i], Served)
                 \/ /\ Append(left, next)[i].kind \in Write /\ rest # <<>>
                    /\ Append(left, next)[i] = Head(rest)
            BY ONLY <1>1, <3>1, <3>2, <3>5
        <3>8. calls' = Append(left, next) \o <<end>>
            BY ONLY <3>3, <3>6
        <3> QED
            BY ONLY <3>5, <3>7, <3>8
    <2>2. CASE ~(Len(durable) > 1)
        <3>1. calls' = left \o <<>> \o <<end>>
            BY <1>1, <2>2
        <3>2. left \o <<>> = left
            BY ONLY <1>1
        <3> QED
            BY ONLY <1>1, <3>1, <3>2
    <2> QED
        BY ONLY <2>1, <2>2
<1> HIDE DEF rest, end
<1>10. \A i \in DOMAIN list : ~SameCaller(list[i], end) /\ ~SameCaller(end, list[i])
    <2>1. \A c : SameCaller(c, end) \/ SameCaller(end, c) => c.kind = "runTerminal"
        BY <1>6 DEF SameCaller, OfQueue, OfEnd, Write
    <2> QED
        BY <1>9, <2>1 DEF Write
<1>11. /\ calls' \in Seq(Call) /\ CallersApart(calls')
       /\ \A i \in DOMAIN calls' : \/ i \in DOMAIN list /\ calls'[i] = list[i]
                                   \/ calls'[i] = end
    <2>1. calls' = Append(list, end)
        BY ONLY <1>6, <1>9
    <2>2. /\ Append(list, end) \in Seq(Call) /\ CallersApart(Append(list, end))
          /\ \A i \in DOMAIN Append(list, end) :
                \/ i \in DOMAIN list /\ Append(list, end)[i] = list[i]
                \/ i = Len(list) + 1 /\ Append(list, end)[i] = end
        BY ONLY <1>6, <1>9, <1>10, OneMoreCaller
    <2> QED
        BY ONLY <2>1, <2>2
<1>12. \A call \in Asked' :
          \/ call = end
          \/ call \in Asked /\ ~SameCaller(call, Served)
          \/ call.kind \in Write /\ rest # <<>> /\ call = Head(rest)
    BY ONLY <1>9, <1>11 DEF Asked
<1>13. \A write \in Awaited' : write \in Awaited /\ write # Served
    BY ONLY <1>4, <1>7 DEF Awaited
<1>14. \A call \in Asked' :
          /\ call.kind \in Write => durable' # <<>> /\ call = Head(durable')
          /\ call.kind = "startEvent" =>
                durable' # <<>> /\ Head(durable') = CallFor("start", call.unit)
    <2>1. end.kind \notin Write /\ end.kind # "startEvent"
        BY <1>6 DEF Write
    <2>2. \A call : call \in Asked /\ ~SameCaller(call, Served) =>
              call.kind \notin Write /\ call.kind # "startEvent"
        BY <1>2 DEF SameCaller, OfQueue
    <2>3. \A call : call.kind \in Write => call.kind # "startEvent"
        BY DEF Write
    <2> QED
        BY ONLY <1>7, <1>12, <2>1, <2>2, <2>3
<1>15. QueuesKept'
    <2>1. \A write \in Awaited' : write.kind \in Write /\ write = CallFor(write.kind, write.unit)
        BY ONLY <1>0, <1>13 DEF QueuesKept
    <2>2. \A i, j \in DOMAIN durable' : durable'[i] = durable'[j] /\ Strict(durable'[i]) => i = j
        BY ONLY <1>5, <1>7
    <2>3. \A i, j \in DOMAIN calls' : SameCaller(calls'[i], calls'[j]) => i = j
        BY ONLY <1>11 DEF CallersApart
    <2> QED
        BY ONLY <1>14, <2>1, <2>2, <2>3 DEF QueuesKept
<1>16. durable' \in Seq(Call)
    BY ONLY <1>3, <1>7
<1>17. \A call \in Asked' : \/ call.kind \in Write
                            \/ call = CallFor("runTerminal", Nothing)
                            \/ call \in Asked /\ ~SameCaller(call, Served)
    BY ONLY <1>12 DEF end
<1> QED
    BY ONLY <1>11, <1>13, <1>15, <1>16, <1>17

-----------------------------------------------------------------------------
(* The record of the run.                                                  *)
LEMMA RunFields ==
    ASSUME NEW run \in RunRecord
    PROVE  /\ run.status \in RunStatus /\ run.units \in [Unit -> UnitRecord]
           /\ run.tasks \in Nat /\ run.delivered \in [Unit -> Nat]
           /\ \A u \in Unit : run.units[u] \in UnitRecord /\ run.delivered[u] \in Nat
BY DEF RunRecord

LEMMA UnitPut ==
    ASSUME NEW run \in RunRecord, NEW u \in Unit, NEW unit \in UnitRecord
    PROVE  LET new == [run EXCEPT !.units[u] = unit]
           IN  /\ new \in RunRecord /\ new.units[u] = unit
               /\ \A v \in Unit : v # u => new.units[v] = run.units[v]
               /\ new.status = run.status /\ new.tasks = run.tasks /\ new.delivered = run.delivered
BY DEF RunRecord

LEMMA SessionPut ==
    ASSUME NEW run \in RunRecord, NEW u \in Unit, NEW s \in Session
    PROVE  [run EXCEPT !.units[u].session = s]
             = [run EXCEPT !.units[u] = [run.units[u] EXCEPT !.session = s]]
BY DEF RunRecord

LEMMA MergeFields ==
    ASSUME NEW disk \in RunRecord, NEW mem \in RunRecord,
           mem.tasks <= disk.tasks, \A u \in Unit : mem.delivered[u] <= disk.delivered[u],
           \A u \in Unit : MergedUnit(disk.units[u], mem.units[u]) \in UnitRecord
    PROVE  LET m == Merged(disk, mem)
               a == Mirrored(m, mem)
           IN  /\ m \in RunRecord /\ a \in RunRecord
               /\ m.status = mem.status /\ a.status = mem.status
               /\ m.units = a.units
               /\ \A u \in Unit : m.units[u] = MergedUnit(disk.units[u], mem.units[u])
               /\ m.tasks = disk.tasks /\ a.tasks = disk.tasks
               /\ m.delivered = disk.delivered /\ a.delivered = disk.delivered
<1> DEFINE m == Merged(disk, mem)
           a == Mirrored(m, mem)
           M(u) == MergedUnit(disk.units[u], mem.units[u])
<1>1. /\ disk.units \in [Unit -> UnitRecord] /\ mem.units \in [Unit -> UnitRecord]
      /\ disk.tasks \in Nat /\ mem.tasks \in Nat
      /\ disk.delivered \in [Unit -> Nat] /\ mem.delivered \in [Unit -> Nat]
      /\ mem.status \in RunStatus
    BY RunFields
<1>2. Larger(disk.tasks, mem.tasks) = disk.tasks
    BY <1>1 DEF Larger
<1>3. [u \in Unit |-> Larger(disk.delivered[u], mem.delivered[u])] = disk.delivered
    <2>1. \A u \in Unit : Larger(disk.delivered[u], mem.delivered[u]) = disk.delivered[u]
        BY <1>1 DEF Larger
    <2> QED
        BY <1>1, <2>1
<1>4. m = [status |-> mem.status, units |-> [u \in Unit |-> M(u)],
           tasks |-> disk.tasks, delivered |-> disk.delivered]
    BY <1>2, <1>3 DEF Merged
<1>5. \A u \in Unit : MirroredUnit(M(u), mem.units[u]) = M(u)
    <2> SUFFICES ASSUME NEW u \in Unit PROVE MirroredUnit(M(u), mem.units[u]) = M(u)
        OBVIOUS
    <2>1. disk.units[u] \in UnitRecord /\ mem.units[u] \in UnitRecord
        BY <1>1
    <2>2. CASE "absent" \in {disk.units[u].status, mem.units[u].status}
        <3>1. M(u) = disk.units[u]
            BY <2>2 DEF MergedUnit
        <3> QED
            BY <2>2, <3>1 DEF MirroredUnit
    <2>3. CASE "absent" \notin {disk.units[u].status, mem.units[u].status}
        <3>1. /\ M(u).session = disk.units[u].session /\ M(u).attempt = disk.units[u].attempt
              /\ M(u).status = mem.units[u].status
            BY <2>1, <2>3, MergedUnitFields
        <3>2. M(u) = [mem.units[u] EXCEPT !.attempt = disk.units[u].attempt,
                                          !.session = disk.units[u].session]
            BY <2>3 DEF MergedUnit
        <3> QED
            BY <2>3, <3>1, <3>2 DEF MirroredUnit
    <2> QED
        BY <2>2, <2>3
<1>6. a = [mem EXCEPT !.units = [u \in Unit |-> M(u)], !.tasks = disk.tasks,
                      !.delivered = disk.delivered]
    <2>1. /\ m.units = [u \in Unit |-> M(u)] /\ m.tasks = disk.tasks
          /\ m.delivered = disk.delivered
        BY <1>4
    <2>2. [u \in Unit |-> MirroredUnit(m.units[u], mem.units[u])] = [u \in Unit |-> M(u)]
        BY <1>5, <2>1
    <2> QED
        BY <2>1, <2>2 DEF Mirrored
<1>7. [u \in Unit |-> M(u)] \in [Unit -> UnitRecord]
    OBVIOUS
<1> HIDE DEF M
<1>8. /\ m \in RunRecord /\ m.status = mem.status /\ m.units = [u \in Unit |-> M(u)]
      /\ m.tasks = disk.tasks /\ m.delivered = disk.delivered
    BY <1>1, <1>4, <1>7 DEF RunRecord
<1>9. /\ a \in RunRecord /\ a.status = mem.status /\ a.units = [u \in Unit |-> M(u)]
      /\ a.tasks = disk.tasks /\ a.delivered = disk.delivered
    BY <1>1, <1>6, <1>7 DEF RunRecord
<1> QED
    BY <1>8, <1>9 DEF M

-----------------------------------------------------------------------------
(* The steps.                                                              *)
LEMMA Typed ==
    ASSUME CoordinatorTypeOK
    PROVE  /\ runJson \in RunRecord /\ live \in RunRecord
           /\ durable \in Seq(Call) /\ calls \in Seq(Call)
           /\ lane \in [Unit -> LanePc] /\ told \in [Unit -> Nat]
           /\ ended \in [Unit -> Terminal \cup {"none"}]
           /\ \A u \in Unit : /\ runJson.units[u] \in UnitRecord /\ live.units[u] \in UnitRecord
                              /\ told[u] \in Nat /\ runJson.delivered[u] \in Nat
                              /\ live.delivered[u] \in Nat
           /\ runJson.tasks \in Nat /\ live.tasks \in Nat
           /\ runJson.units \in [Unit -> UnitRecord] /\ live.units \in [Unit -> UnitRecord]
           /\ live.status \in RunStatus /\ runJson.status \in RunStatus
BY RunFields DEF CoordinatorTypeOK

(* Nobody works when the run has come to its end.                          *)
LEMMA AtRestThen ==
    ASSUME CoordinatorInv, NEW u \in Unit, lane[u] \notin {"idle", "done", "lost"}
    PROVE  active /\ main \notin {"final", "over", "dead"}
BY DEF CoordinatorInv, MainKept, AtRest

LEMMA CallsOf ==
    ASSUME CoordinatorInv, NEW call \in Asked
    PROVE  /\ OfEnd(call) => /\ call.unit \in Unit /\ call.record \in UnitRecord
                             /\ lane[call.unit] \in {"ending", "failEnding"}
           /\ call.kind = "startEvent" =>
                /\ call.unit \in Unit /\ lane[call.unit] = "starting"
                /\ runJson.units[call.unit] = StartedUnit(live.units[call.unit])
           /\ call.kind \in LaneWrites => call.unit \in Unit
           /\ call.kind = "start" => lane[call.unit] = "starting"
           /\ call.kind = "session" => lane[call.unit] = "stamping"
           /\ call.kind = "established" => lane[call.unit] = "prompting"
           /\ call.kind = "expand" => main = "expanding"
           /\ call.kind = "final" => main = "final"
           /\ call.kind = "runTerminal" => main = "final"
<1>0. QueuesKept /\ AwaitedKept /\ CallKept(call) /\ durable \in Seq(Call)
    BY Typed DEF CoordinatorInv, AskedKept
<1>1. durable # <<>> => Head(durable) \in Awaited
    BY <1>0 DEF Awaited
<1>2. call.kind \in Write => call \in Awaited
    BY <1>0, <1>1 DEF QueuesKept
<1>3. call.kind = "startEvent" =>
         call.unit \in Unit /\ lane[call.unit] = "starting"
    <2> SUFFICES ASSUME call.kind = "startEvent"
                 PROVE  call.unit \in Unit /\ lane[call.unit] = "starting"
        OBVIOUS
    <2>1. CallFor("start", call.unit) \in Awaited
        BY <1>0, <1>1 DEF QueuesKept
    <2> DEFINE write == CallFor("start", call.unit)
    <2>2. write.kind = "start" /\ write.unit = call.unit
        BY DEF CallFor
    <2>3. write \in Awaited
        BY <2>1
    <2> HIDE DEF write
    <2> QED
        BY <1>0, <2>2, <2>3 DEF AwaitedKept, LaneWrites
<1>4. OfEnd(call) => /\ call.unit \in Unit /\ call.record \in UnitRecord
                     /\ lane[call.unit] \in {"ending", "failEnding"}
    BY <1>0 DEF CallKept, EndKept
<1> QED
    BY <1>0, <1>2, <1>3, <1>4 DEF AwaitedKept, CallKept, Write, LaneWrites

(* A step of the lane of one unit, or of a call for it: it leaves the      *)
(* other units alone, and what it leaves in the queues is of others.       *)
Untouched(v) ==
    /\ runJson'.units[v] = runJson.units[v] /\ live'.units[v] = live.units[v]
    /\ lane'[v] = lane[v] /\ told'[v] = told[v] /\ ended'[v] = ended[v]

LEMMA LaneStepKeeps ==
    ASSUME CoordinatorInv, CoordinatorTypeOK', QueuesKept', NEW u \in Unit,
           active, main \notin {"final", "over", "dead"}, active' = active, main' = main,
           runJson'.tasks = runJson.tasks, runJson'.delivered = runJson.delivered,
           live'.tasks = live.tasks, live'.delivered = live.delivered,
           \A v \in Unit : v # u => Untouched(v),
           OnDiskKept(runJson'.units[u], told'[u]),
           InMemoryKept(runJson'.units[u], live'.units[u], lane'[u], told'[u]),
           lane'[u] = "done" => live'.units[u].status = ended'[u],
           runEnd' = runEnd,
           \A write \in Awaited' :
              \/ /\ write \in Awaited
                 /\ write.kind \in {"start", "session", "established"} => write.unit # u
              \/ write.kind = "delivered" /\ write.unit \in Unit
              \/ /\ write.unit = u
                 /\ \/ write.kind = "start" /\ lane'[u] = "starting"
                    \/ write.kind = "session" /\ lane'[u] = "stamping"
                    \/ write.kind = "established" /\ lane'[u] = "prompting",
           \A call \in Asked' :
              \/ call.kind \in Write
              \/ call \in Asked /\ (OfEnd(call) \/ call.kind = "startEvent" => call.unit # u)
              \/ call.kind # "runTerminal" /\ CallKept(call)'
    PROVE  CoordinatorInv'
<1>1. UnitsKept'
    <2>1. \A v \in Unit : OnDiskKept(runJson'.units[v], told'[v])
        BY DEF CoordinatorInv, UnitsKept, Untouched
    <2>2. \A v \in Unit : InMemoryKept(runJson'.units[v], live'.units[v], lane'[v], told'[v])
        BY DEF CoordinatorInv, UnitsKept, Untouched
    <2> QED
        BY <2>1, <2>2 DEF UnitsKept
<1>2. TasksKept'
    BY DEF CoordinatorInv, TasksKept
<1>3. MainKept'
    BY DEF CoordinatorInv, MainKept
<1>4. EndsKept'
    <2>1. runEnd' = "none"
        BY DEF CoordinatorInv, EndsKept
    <2>2. \A v \in Unit : lane'[v] = "done" /\ ended'[v] # "none" => live'.units[v].status = ended'[v]
        BY DEF CoordinatorInv, EndsKept, Untouched
    <2> QED
        BY <2>1, <2>2 DEF EndsKept, EndsOnRecord
<1>5. AwaitedKept'
    <2> SUFFICES ASSUME NEW write \in Awaited'
                 PROVE  /\ write.kind \in LaneWrites => write.unit \in Unit
                        /\ write.kind = "start" => lane'[write.unit] = "starting"
                        /\ write.kind = "session" => lane'[write.unit] = "stamping"
                        /\ write.kind = "established" => lane'[write.unit] = "prompting"
                        /\ write.kind = "expand" => main' = "expanding" /\ write.unit = Nothing
                        /\ write.kind = "final" => main' = "final" /\ write.unit = Nothing
        BY DEF AwaitedKept
    <2>1. CASE /\ write \in Awaited
               /\ write.kind \in {"start", "session", "established"} => write.unit # u
        BY <2>1 DEF CoordinatorInv, AwaitedKept, Untouched, LaneWrites
    <2>2. CASE write.kind = "delivered" /\ write.unit \in Unit
        BY <2>2
    <2>3. CASE /\ write.unit = u
               /\ \/ write.kind = "start" /\ lane'[u] = "starting"
                  \/ write.kind = "session" /\ lane'[u] = "stamping"
                  \/ write.kind = "established" /\ lane'[u] = "prompting"
        BY <2>3
    <2> QED
        BY <2>1, <2>2, <2>3
<1>6. AskedKept'
    <2> SUFFICES ASSUME NEW call \in Asked' PROVE CallKept(call)'
        BY DEF AskedKept
    <2>1. CASE call.kind \in Write
        BY <2>1 DEF CallKept, OfEnd, Write
    <2>2. CASE call \in Asked /\ (OfEnd(call) \/ call.kind = "startEvent" => call.unit # u)
        <3>1. CallKept(call) /\ call.kind # "runTerminal"
            BY <2>2, CallsOf DEF CoordinatorInv, AskedKept
        <3>2. OfEnd(call) \/ call.kind = "startEvent" => Untouched(call.unit)
            BY <2>2, CallsOf
        <3> QED
            BY <3>1, <3>2 DEF CallKept, Untouched
    <2> QED
        BY <2>1, <2>2
<1> QED
    BY <1>1, <1>2, <1>3, <1>4, <1>5, <1>6 DEF CoordinatorInv

(* What the lane's unit is like, and that nothing asked is for it.         *)
LEMMA LaneIsAt ==
    ASSUME CoordinatorInv, NEW u \in Unit
    PROVE  /\ OnDiskKept(runJson.units[u], told[u])
           /\ active => InMemoryKept(runJson.units[u], live.units[u], lane[u], told[u])
           /\ lane[u] \notin {"starting", "stamping", "prompting"} =>
                \A write \in Awaited :
                    write.kind \in {"start", "session", "established"} => write.unit # u
           /\ lane[u] \notin {"starting", "ending", "failEnding"} =>
                \A call \in Asked : OfEnd(call) \/ call.kind = "startEvent" => call.unit # u
<1>1. \A write \in Awaited : 
          /\ write.kind = "start" => lane[write.unit] = "starting"
          /\ write.kind = "session" => lane[write.unit] = "stamping"
          /\ write.kind = "established" => lane[write.unit] = "prompting"
    BY DEF CoordinatorInv, AwaitedKept
<1>2. \A call \in Asked :
          /\ OfEnd(call) => lane[call.unit] \in {"ending", "failEnding"}
          /\ call.kind = "startEvent" => lane[call.unit] = "starting"
    BY CallsOf
<1> QED
    BY <1>1, <1>2 DEF CoordinatorInv, UnitsKept

(* A lane asks for a durable write and waits for it.                       *)
LEMMA AskingKeeps ==
    ASSUME CoordinatorInv, NEW u \in Unit, NEW k, NEW to,
           \/ k = "start" /\ to = "starting"
           \/ k = "session" /\ to = "stamping"
           \/ k = "established" /\ to = "prompting",
           active, main \notin {"final", "over", "dead"},
           lane[u] \notin {"starting", "stamping", "prompting", "ending", "failEnding"},
           Enqueue(CallFor(k, u)),
           lane' = [lane EXCEPT ![u] = to], timer' \in BOOLEAN,
           runJson' = runJson, live' = live, active' = active, main' = main,
           told' \in [Unit -> Nat], \A v \in Unit : v # u => told'[v] = told[v],
           ended' = ended, runEnd' = runEnd, UNCHANGED bounds,
           OnDiskKept(runJson.units[u], told'[u]),
           InMemoryKept(runJson.units[u], live.units[u], to, told'[u])
    PROVE  CoordinatorInv'
<1> DEFINE write == CallFor(k, u)
<1>1. to \in {"starting", "stamping", "prompting"} /\ k \in {"start", "session", "established"}
    OBVIOUS
<1>2. write \in Call /\ write.kind = k /\ write.unit = u /\ k \in Write
    <2>1. k \in Write /\ k \in Write \cup {"startEvent", "runTerminal"}
        BY <1>1 DEF Write
    <2>2. CallFor(k, u) \in Call
        BY <2>1, CallForTyped
    <2> QED
        BY <2>1, <2>2 DEF CallFor
<1>3. write \notin Awaited
    BY <1>1, <1>2, LaneIsAt
<1>4. write = CallFor(write.kind, write.unit) /\ Enqueue(write)
    BY <1>2
<1> HIDE DEF write
<1>5. /\ durable' \in Seq(Call) /\ calls' \in Seq(Call) /\ QueuesKept'
      /\ Awaited' = Awaited \cup {write} /\ Asked' \subseteq Asked \cup {write}
    BY <1>2, <1>3, <1>4, EnqueueKeeps, Typed DEF CoordinatorInv
<1>6. /\ lane' \in [Unit -> LanePc] /\ lane'[u] = to
      /\ \A v \in Unit : v # u => lane'[v] = lane[v]
    BY <1>1, Typed DEF CoordinatorInv, LanePc
<1>7. CoordinatorTypeOK'
    BY <1>5, <1>6 DEF CoordinatorInv, CoordinatorTypeOK, bounds
<1>8. \A v \in Unit : v # u => Untouched(v)
    BY <1>6 DEF Untouched
<1>9. \A call \in Asked' :
          \/ call.kind \in Write
          \/ call \in Asked /\ (OfEnd(call) \/ call.kind = "startEvent" => call.unit # u)
    BY <1>2, <1>5, LaneIsAt DEF Write
<1>10. \A other \in Awaited' :
          \/ /\ other \in Awaited
             /\ other.kind \in {"start", "session", "established"} => other.unit # u
          \/ other = write
    BY <1>5, LaneIsAt
<1>11. lane'[u] # "done"
    BY <1>1, <1>6
<1> QED
    BY <1>2, <1>5, <1>6, <1>7, <1>8, <1>9, <1>10, <1>11, LaneStepKeeps

LEMMA BeginUnitKeeps ==
    ASSUME CoordinatorInv, NEW u \in Unit, BeginUnit(u) PROVE CoordinatorInv'
<1>1. /\ active /\ main = "work" /\ lane[u] = "idle" /\ live.units[u].status = "queued"
      /\ lane' = [lane EXCEPT ![u] = "starting"] /\ timer' = FALSE
      /\ Enqueue(CallFor("start", u)) /\ told' = told
      /\ runJson' = runJson /\ live' = live /\ active' = active /\ main' = main
      /\ ended' = ended /\ runEnd' = runEnd /\ UNCHANGED bounds
    BY DEF BeginUnit, LaneGoes, events
<1>2. InMemoryKept(runJson.units[u], live.units[u], "starting", told[u])
    BY <1>1, LaneIsAt, LaneMoves, Typed DEF CoordinatorInv
<1>3. OnDiskKept(runJson.units[u], told[u]) /\ told' \in [Unit -> Nat]
    BY <1>1, LaneIsAt, Typed DEF CoordinatorInv
<1> QED
    BY <1>1, <1>2, <1>3, AskingKeeps

LEMMA StampKeeps ==
    ASSUME CoordinatorInv, NEW u \in Unit, Stamp(u) PROVE CoordinatorInv'
<1>1. /\ lane[u] = "started" /\ lane' = [lane EXCEPT ![u] = "stamping"]
      /\ Enqueue(CallFor("session", u)) /\ told' = told /\ timer' = timer
      /\ runJson' = runJson /\ live' = live /\ active' = active /\ main' = main
      /\ ended' = ended /\ runEnd' = runEnd /\ UNCHANGED bounds
    BY DEF Stamp, LaneGoes, events, memory
<1>2. active /\ main \notin {"final", "over", "dead"}
    BY <1>1, AtRestThen
<1>3. InMemoryKept(runJson.units[u], live.units[u], "stamping", told[u])
    BY <1>1, <1>2, LaneIsAt, LaneMoves, Typed DEF CoordinatorInv
<1>4. timer' \in BOOLEAN
    BY <1>1 DEF CoordinatorInv, CoordinatorTypeOK
<1> QED
    BY <1>1, <1>2, <1>3, <1>4, LaneIsAt, AskingKeeps, Typed DEF CoordinatorInv

LEMMA PromptStepKeeps ==
    ASSUME CoordinatorInv, NEW u \in Unit, Prompt(u) PROVE CoordinatorInv'
<1>1. /\ lane[u] = "stamped" /\ lane' = [lane EXCEPT ![u] = "prompting"]
      /\ told' = [told EXCEPT ![u] = IF live.units[u].session = "path" THEN @ + 1 ELSE @]
      /\ Enqueue(CallFor("established", u)) /\ timer' = timer
      /\ runJson' = runJson /\ live' = live /\ active' = active /\ main' = main
      /\ ended' = ended /\ runEnd' = runEnd /\ UNCHANGED bounds
    BY DEF Prompt, LaneGoes, memory
<1>2. active /\ main \notin {"final", "over", "dead"}
    BY <1>1, AtRestThen
<1>3. /\ told'[u] = IF live.units[u].session = "path" THEN told[u] + 1 ELSE told[u]
      /\ told' \in [Unit -> Nat] /\ \A v \in Unit : v # u => told'[v] = told[v]
    BY <1>1, Typed DEF CoordinatorInv
<1>4. /\ OnDiskKept(runJson.units[u], told'[u])
      /\ InMemoryKept(runJson.units[u], live.units[u], "prompting", told'[u])
    BY <1>1, <1>2, <1>3, LaneIsAt, PromptKeeps, Typed DEF CoordinatorInv
<1>5. timer' \in BOOLEAN
    BY <1>1 DEF CoordinatorInv, CoordinatorTypeOK
<1> QED
    BY <1>1, <1>2, <1>3, <1>4, <1>5, LaneIsAt, AskingKeeps

LEMMA RefusedKeeps ==
    ASSUME CoordinatorInv, NEW u \in Unit, Refused(u) PROVE CoordinatorInv'
<1>1. /\ lane[u] = "stamped" /\ \E to \in {"failing", "lost"} : lane' = [lane EXCEPT ![u] = to]
      /\ durable' = durable /\ calls' = calls /\ told' = told /\ timer' = timer
      /\ runJson' = runJson /\ live' = live /\ active' = active /\ main' = main
      /\ ended' = ended /\ runEnd' = runEnd /\ UNCHANGED bounds
    BY DEF Refused, LaneGoes, events, memory, queues
<1>2. PICK to \in {"failing", "lost"} : lane' = [lane EXCEPT ![u] = to]
    BY <1>1
<1>3. active /\ main \notin {"final", "over", "dead"}
    BY <1>1, AtRestThen
<1>4. InMemoryKept(runJson.units[u], live.units[u], to, told[u])
    BY <1>1, <1>2, <1>3, LaneIsAt, LaneMoves, Typed DEF CoordinatorInv
<1>5. /\ lane' \in [Unit -> LanePc] /\ lane'[u] = to
      /\ \A v \in Unit : v # u => lane'[v] = lane[v]
    BY <1>2, Typed DEF CoordinatorInv, LanePc
<1>6. Awaited' = Awaited /\ Asked' = Asked /\ QueuesKept'
    BY <1>1 DEF CoordinatorInv, QueuesKept, Awaited, Asked
<1>7. CoordinatorTypeOK'
    BY <1>1, <1>5 DEF CoordinatorInv, CoordinatorTypeOK, bounds
<1>8. \A v \in Unit : v # u => Untouched(v)
    BY <1>1, <1>5 DEF Untouched
<1>9. lane'[u] # "done"
    BY <1>5
<1> QED
    BY <1>1, <1>3, <1>4, <1>5, <1>6, <1>7, <1>8, <1>9, LaneIsAt, LaneStepKeeps

(* A lane asks for the end of its unit.                                    *)
LEMMA EndingKeeps ==
    ASSUME CoordinatorInv, NEW u \in Unit, NEW status \in Terminal, NEW last \in BOOLEAN, NEW to,
           Finish(u, status, last), LaneGoes(u, to),
           active, main \notin {"final", "over", "dead"},
           \/ last /\ to = "failEnding" /\ lane[u] = "failing"
           \/ last /\ to = "failEnding" /\ lane[u] = "idle" /\ live.units[u].status = "queued"
           \/ ~last /\ to = "ending" /\ lane[u] = "working"
    PROVE  CoordinatorInv'
<1>0. PICK call :
          call = [kind |-> "finish", unit |-> u, last |-> last,
                  record |-> FinishedUnit(live.units[u], status)]
    OBVIOUS
<1>1. /\ lane' = [lane EXCEPT ![u] = to] /\ calls' = Append(calls, call)
      /\ durable' = durable /\ told' = told /\ timer' = FALSE
      /\ runJson' = runJson /\ live' = live /\ active' = active /\ main' = main
      /\ ended' = ended /\ runEnd' = runEnd /\ UNCHANGED bounds
    BY <1>0 DEF Finish, LaneGoes, events
<1>2. /\ OnDiskKept(runJson.units[u], told[u])
      /\ InMemoryKept(runJson.units[u], live.units[u], lane[u], told[u])
      /\ runJson.units[u] \in UnitRecord /\ live.units[u] \in UnitRecord /\ told[u] \in Nat
    BY LaneIsAt, Typed DEF CoordinatorInv
<1>3. /\ call.kind = "finish" /\ call.unit = u /\ call.last = last
      /\ call.record = FinishedUnit(live.units[u], status)
      /\ to = IF last THEN "failEnding" ELSE "ending"
    BY <1>0
<1>4. /\ call.record \in UnitRecord
      /\ EndKept(call, runJson.units[u], live.units[u], to, told[u])
    BY <1>2, <1>3, EndBegins
<1>5. call \in Call
    BY <1>0, <1>3, <1>4 DEF Call
<1>6. \A c \in Asked : OfEnd(c) \/ c.kind = "startEvent" => c.unit # u
    BY LaneIsAt
<1>7. /\ durable' \in Seq(Call) /\ calls' \in Seq(Call) /\ QueuesKept'
      /\ Awaited' = Awaited /\ Asked' = Asked \cup {call}
    BY <1>1, <1>3, <1>5, <1>6, FinishIsAsked, Typed DEF CoordinatorInv
<1>8. /\ lane' \in [Unit -> LanePc] /\ lane'[u] = to
      /\ \A v \in Unit : v # u => lane'[v] = lane[v]
    BY <1>1, Typed DEF CoordinatorInv, LanePc
<1>9. CoordinatorTypeOK'
    BY <1>1, <1>7, <1>8 DEF CoordinatorInv, CoordinatorTypeOK, bounds
<1>10. InMemoryKept(runJson.units[u], live.units[u], to, told[u])
    BY <1>2, LaneMoves
<1>11. \A v \in Unit : v # u => Untouched(v)
    BY <1>1, <1>8 DEF Untouched
<1>12. CallKept(call)' /\ call.kind # "runTerminal"
    BY <1>1, <1>3, <1>4, <1>8 DEF CallKept, OfEnd
<1>13. \A write \in Awaited : write.kind \in {"start", "session", "established"} => write.unit # u
    BY LaneIsAt
<1>14. lane'[u] # "done"
    BY <1>8
<1> QED
    BY <1>1, <1>2, <1>6, <1>7, <1>8, <1>9, <1>10, <1>11, <1>12, <1>13, <1>14, LaneStepKeeps

LEMMA LaneKeeps ==
    ASSUME CoordinatorInv, NEW u \in Unit, Lane(u) PROVE CoordinatorInv'
<1>1. CASE BeginUnit(u)
    BY <1>1, BeginUnitKeeps
<1>2. CASE Stamp(u)
    BY <1>2, StampKeeps
<1>3. CASE Prompt(u)
    BY <1>3, PromptStepKeeps
<1>4. CASE Refused(u)
    BY <1>4, RefusedKeeps
<1>5. CASE Unready(u)
    BY <1>5, EndingKeeps DEF Unready
<1>6. CASE End(u)
    <2>1. lane[u] = "working" /\ LaneGoes(u, "ending")
        BY <1>6 DEF End
    <2>2. PICK status \in Terminal : Finish(u, status, FALSE)
        BY <1>6 DEF End
    <2> QED
        BY <2>1, <2>2, AtRestThen, EndingKeeps
<1>7. CASE EndFailed(u)
    <2>1. lane[u] = "failing" /\ LaneGoes(u, "failEnding") /\ Finish(u, "failed", TRUE)
        BY <1>7 DEF EndFailed
    <2> QED
        BY <2>1, AtRestThen, EndingKeeps
<1> QED
    BY <1>1, <1>2, <1>3, <1>4, <1>5, <1>6, <1>7 DEF Lane

(* A call for one unit was served as a durable write, which settles.       *)
LEMMA ServedForLane ==
    ASSUME CoordinatorInv, NEW u \in Unit, NEW more \in Seq(Call),
           calls # <<>>, For = u, SettleThen(more),
           more = <<>> \/ more = <<CallFor("delivered", u)>>,
           Served.kind \in {"start", "startEvent", "session", "established"},
           timer' \in BOOLEAN, active' = active, main' = main, ended' = ended, runEnd' = runEnd,
           told' = told, children' = children, resumed' = resumed, faults' \in Nat, resumes' = resumes,
           runJson' \in RunRecord, live' \in RunRecord,
           runJson'.tasks = runJson.tasks, runJson'.delivered = runJson.delivered,
           live'.tasks = live.tasks, live'.delivered = live.delivered,
           NEW to \in LanePc, to # "done", lane' = [lane EXCEPT ![u] = to],
           \A v \in Unit : v # u =>
               runJson'.units[v] = runJson.units[v] /\ live'.units[v] = live.units[v],
           OnDiskKept(runJson'.units[u], told[u]),
           InMemoryKept(runJson'.units[u], live'.units[u], to, told[u])
    PROVE  CoordinatorInv'
<1>1. Served \in Asked /\ Served.unit = u
    BY FirstCall, Typed DEF CoordinatorInv, For, Served
<1>2. /\ lane[u] \in {"starting", "stamping", "prompting"}
      /\ active /\ main \notin {"final", "over", "dead"}
    <2>1. lane[u] \in {"starting", "stamping", "prompting"}
        BY <1>1, CallsOf
    <2> QED
        BY <2>1, AtRestThen
<1>3. OfQueue(Served)
    BY DEF OfQueue, Write
<1>4. /\ durable' \in Seq(Call) /\ calls' \in Seq(Call) /\ QueuesKept'
      /\ durable # <<>> /\ Head(durable) \in Awaited
      /\ Served.kind \in Write => Served = Head(durable)
      /\ Served.kind = "startEvent" => Head(durable) = CallFor("start", For)
      /\ \A write \in Awaited' :
            \/ write \in Awaited /\ (Strict(write) => write # Head(durable))
            \/ \E i \in DOMAIN more : write = more[i]
      /\ \A call \in Asked' : \/ call.kind \in Write
                              \/ call \in Asked /\ ~SameCaller(call, Served)
    BY <1>3, SettleKeeps, Typed DEF CoordinatorInv
<1>5. /\ lane' \in [Unit -> LanePc] /\ lane'[u] = to
      /\ \A v \in Unit : v # u => lane'[v] = lane[v]
    BY Typed DEF CoordinatorInv
<1>6. CoordinatorTypeOK'
    BY <1>4, <1>5 DEF CoordinatorInv, CoordinatorTypeOK
<1>7. \A v \in Unit : v # u => Untouched(v)
    BY <1>5 DEF Untouched
<1>8. \A call \in Asked' :
          \/ call.kind \in Write
          \/ call \in Asked /\ (OfEnd(call) \/ call.kind = "startEvent" => call.unit # u)
    <2>1. \A call \in Asked : OfEnd(call) => call.unit # u
        BY <1>2, CallsOf
    <2>2. \A call : ~SameCaller(call, Served) => ~OfQueue(call)
        BY <1>3 DEF SameCaller
    <2> QED
        BY <1>4, <2>1, <2>2 DEF OfQueue
<1>9. \A i \in DOMAIN more : more[i].kind = "delivered" /\ more[i].unit \in Unit
    <2>1. CASE more = <<>>
        BY <2>1
    <2>2. CASE more = <<CallFor("delivered", u)>>
        <3>1. \A i \in DOMAIN more : more[i] = CallFor("delivered", u)
            BY <2>2
        <3> QED
            BY <3>1 DEF CallFor
    <2> QED
        BY <2>1, <2>2
<1>10. \A write \in Awaited :
          write.kind \in {"start", "session", "established"} /\ write.unit = u => write = Head(durable)
    <2> DEFINE head == Head(durable)
    <2>1. /\ head \in Awaited /\ head.unit = u
          /\ head.kind \in {"start", "session", "established"}
        <3>1. CASE Served.kind = "startEvent"
            BY <1>1, <1>4, <3>1 DEF CallFor
        <3>2. CASE Served.kind # "startEvent"
            BY <1>1, <1>4, <3>2 DEF Write
        <3> QED
            BY <3>1, <3>2
    <2> HIDE DEF head
    <2>2. \A write \in Awaited : 
              /\ write = CallFor(write.kind, write.unit)
              /\ write.kind = "start" => lane[write.unit] = "starting"
              /\ write.kind = "session" => lane[write.unit] = "stamping"
              /\ write.kind = "established" => lane[write.unit] = "prompting"
        BY DEF CoordinatorInv, AwaitedKept, QueuesKept
    <2>3. \A write \in Awaited :
              write.kind \in {"start", "session", "established"} /\ write.unit = u => write.kind = head.kind
        BY <2>1, <2>2
    <2> QED
        BY <2>1, <2>2, <2>3 DEF head
<1>11. \A write \in Awaited' :
          \/ /\ write \in Awaited
             /\ write.kind \in {"start", "session", "established"} => write.unit # u
          \/ write.kind = "delivered" /\ write.unit \in Unit
    BY <1>4, <1>9, <1>10 DEF Strict
<1>12. lane'[u] # "done"
    BY <1>5
<1> QED
    BY <1>2, <1>4, <1>5, <1>6, <1>7, <1>8, <1>11, <1>12, LaneStepKeeps

LEMMA ServeStartEventKeeps ==
    ASSUME CoordinatorInv, ServeStartEvent PROVE CoordinatorInv'
<1>1. /\ calls # <<>> /\ Served.kind = "startEvent" /\ SettleThen(<<>>)
      /\ active' = active /\ timer' = timer /\ main' = main /\ told' = told /\ ended' = ended
      /\ runEnd' = runEnd /\ children' = children /\ resumed' = resumed /\ resumes' = resumes
      /\ runJson' = runJson
    BY DEF ServeStartEvent, Serving, Served, Settle, events, CallFails
<1>2. PICK u : u = For
    OBVIOUS
<1>3. /\ u \in Unit /\ lane[u] = "starting"
      /\ runJson.units[u] = StartedUnit(live.units[u])
    BY <1>1, <1>2, FirstCall, CallsOf, Typed DEF CoordinatorInv, For, Served
<1>4. active /\ main \notin {"final", "over", "dead"}
    BY <1>3, AtRestThen
<1>5. <<>> \in Seq(Call) /\ timer' \in BOOLEAN
    BY <1>1 DEF CoordinatorInv, CoordinatorTypeOK
<1>6. /\ OnDiskKept(runJson.units[u], told[u])
      /\ InMemoryKept(runJson.units[u], live.units[u], "starting", told[u])
      /\ runJson.units[u] \in UnitRecord /\ live.units[u] \in UnitRecord /\ told[u] \in Nat
      /\ runJson \in RunRecord /\ live \in RunRecord /\ faults \in Nat
    BY <1>3, <1>4, LaneIsAt, Typed DEF CoordinatorInv, CoordinatorTypeOK
<1>7. CASE /\ live' = [live EXCEPT !.units[u] = StartedUnit(@)] /\ LaneGoes(u, "started")
           /\ faults' = faults
    <2> DEFINE unit == runJson.units[u]
    <2>1. live' = [live EXCEPT !.units[u] = unit]
        BY <1>3, <1>7
    <2>2. /\ live' \in RunRecord /\ live'.units[u] = unit
          /\ \A v \in Unit : v # u => live'.units[v] = live.units[v]
          /\ live'.tasks = live.tasks /\ live'.delivered = live.delivered
        BY <1>3, <1>6, <2>1, UnitPut
    <2>3. InMemoryKept(unit, unit, "started", told[u])
        <3>1. /\ HistoryKept(live.units[u]) /\ live.units[u].status = "queued"
              /\ unit = StartedUnit(live.units[u])
            BY <1>3, <1>6 DEF InMemoryKept
        <3>2. unit.status = "running" /\ unit.attempts # <<>> /\ unit.session = live.units[u].session
            BY <1>6, <3>1, StartedUnitFields
        <3>3. HistoryKept(unit) /\ unit.session \in Session
            BY <1>6, UnitFields DEF OnDiskKept
        <3> HIDE DEF unit
        <3> QED
            BY <1>6, <3>2, <3>3, Ranked DEF InMemoryKept, AtWork, BeforePrompt
    <2>4. lane' = [lane EXCEPT ![u] = "started"] /\ "started" \in LanePc
        BY <1>7 DEF LaneGoes, LanePc
    <2> QED
        BY <1>1, <1>2, <1>3, <1>5, <1>6, <1>7, <2>2, <2>3, <2>4, ServedForLane
<1>8. CASE CallFails /\ LaneGoes(u, "failing") /\ live' = live
    <2>1. InMemoryKept(runJson.units[u], live.units[u], "failing", told[u])
        BY <1>6, LaneMoves
    <2>2. lane' = [lane EXCEPT ![u] = "failing"] /\ "failing" \in LanePc /\ faults' \in Nat
        BY <1>6, <1>8 DEF LaneGoes, LanePc, CallFails
    <2> QED
        BY <1>1, <1>2, <1>3, <1>5, <1>6, <1>8, <2>1, <2>2, ServedForLane
<1> QED
    BY <1>2, <1>7, <1>8 DEF ServeStartEvent

LEMMA WritesOne ==
    ASSUME NEW run \in RunRecord, NEW u \in Unit, NEW unit \in UnitRecord, NEW disk,
           disk \in {run, [run EXCEPT !.units[u] = unit]}
    PROVE  /\ disk \in RunRecord /\ disk.units[u] \in {run.units[u], unit}
           /\ \A v \in Unit : v # u => disk.units[v] = run.units[v]
           /\ disk.status = run.status /\ disk.tasks = run.tasks /\ disk.delivered = run.delivered
<1> DEFINE put == [run EXCEPT !.units[u] = unit]
<1>1. /\ put \in RunRecord /\ put.units[u] = unit
      /\ \A v \in Unit : v # u => put.units[v] = run.units[v]
      /\ put.status = run.status /\ put.tasks = run.tasks /\ put.delivered = run.delivered
    BY UnitPut
<1>2. disk = run \/ disk = put
    OBVIOUS
<1> HIDE DEF put
<1> QED
    BY ONLY <1>1, <1>2, run \in RunRecord

LEMMA ServeSessionKeeps ==
    ASSUME CoordinatorInv, ServeSession PROVE CoordinatorInv'
<1>1. /\ calls # <<>> /\ Served.kind = "session" /\ SettleThen(<<>>)
      /\ active' = active /\ timer' = timer /\ main' = main /\ told' = told /\ ended' = ended
      /\ runEnd' = runEnd /\ children' = children /\ resumed' = resumed /\ resumes' = resumes
    BY DEF ServeSession, Serving, Served, Settle, events
<1>2. PICK u : u = For
    OBVIOUS
<1>3. u \in Unit /\ lane[u] = "stamping"
    BY <1>1, <1>2, FirstCall, CallsOf, Typed DEF CoordinatorInv, For, Served, LaneWrites
<1>4. active /\ main \notin {"final", "over", "dead"}
    BY <1>3, AtRestThen
<1>5. <<>> \in Seq(Call) /\ timer' \in BOOLEAN
    BY <1>1 DEF CoordinatorInv, CoordinatorTypeOK
<1>6. /\ OnDiskKept(runJson.units[u], told[u])
      /\ InMemoryKept(runJson.units[u], live.units[u], "stamping", told[u])
      /\ runJson.units[u] \in UnitRecord /\ live.units[u] \in UnitRecord /\ told[u] \in Nat
      /\ runJson \in RunRecord /\ live \in RunRecord /\ faults \in Nat
    BY <1>3, <1>4, LaneIsAt, Typed DEF CoordinatorInv, CoordinatorTypeOK
<1>7. PICK s \in Session :
          s = IF runJson.units[u].session = "none" THEN "path" ELSE runJson.units[u].session
    BY <1>6, UnitFields
<1>8. PICK disk, mem :
          disk = [runJson.units[u] EXCEPT !.session = s] /\ mem = [live.units[u] EXCEPT !.session = s]
    OBVIOUS
<1>9. /\ disk \in UnitRecord /\ mem \in UnitRecord
      /\ OnDiskKept(disk, told[u])
      /\ InMemoryKept(disk, mem, "stamped", told[u])
      /\ InMemoryKept(disk, live.units[u], "failing", told[u])
      /\ InMemoryKept(runJson.units[u], live.units[u], "failing", told[u])
    BY <1>6, <1>7, <1>8, SessionKeeps
<1>10. /\ [runJson EXCEPT !.units[u].session = s] = [runJson EXCEPT !.units[u] = disk]
       /\ [live EXCEPT !.units[u].session = s] = [live EXCEPT !.units[u] = mem]
    BY <1>3, <1>6, <1>8, SessionPut
<1>11. CASE /\ WritesRecord([runJson EXCEPT !.units[u].session = s])
            /\ live' = [live EXCEPT !.units[u].session = s] /\ LaneGoes(u, "stamped")
    <2>1. runJson' = [runJson EXCEPT !.units[u] = disk] /\ live' = [live EXCEPT !.units[u] = mem]
          /\ faults' = faults
        BY <1>10, <1>11 DEF WritesRecord
    <2>2. /\ runJson' \in RunRecord /\ runJson'.units[u] = disk
          /\ \A v \in Unit : v # u => runJson'.units[v] = runJson.units[v]
          /\ runJson'.tasks = runJson.tasks /\ runJson'.delivered = runJson.delivered
        BY <1>3, <1>6, <1>9, <2>1, UnitPut
    <2>3. /\ live' \in RunRecord /\ live'.units[u] = mem
          /\ \A v \in Unit : v # u => live'.units[v] = live.units[v]
          /\ live'.tasks = live.tasks /\ live'.delivered = live.delivered
        BY <1>3, <1>6, <1>9, <2>1, UnitPut
    <2>4. lane' = [lane EXCEPT ![u] = "stamped"] /\ "stamped" \in LanePc
        BY <1>11 DEF LaneGoes, LanePc
    <2> QED
        BY <1>1, <1>2, <1>3, <1>5, <1>6, <1>9, <2>1, <2>2, <2>3, <2>4, ServedForLane
<1>12. CASE /\ FailsToWrite([runJson EXCEPT !.units[u].session = s])
            /\ live' = live /\ LaneGoes(u, "failing")
    <2>1. runJson' \in {runJson, [runJson EXCEPT !.units[u] = disk]} /\ faults' \in Nat
        BY <1>6, <1>10, <1>12 DEF FailsToWrite
    <2>2. /\ runJson' \in RunRecord /\ runJson'.units[u] \in {runJson.units[u], disk}
          /\ \A v \in Unit : v # u => runJson'.units[v] = runJson.units[v]
          /\ runJson'.tasks = runJson.tasks /\ runJson'.delivered = runJson.delivered
        BY <1>3, <1>6, <1>9, <2>1, WritesOne
    <2>3. /\ OnDiskKept(runJson'.units[u], told[u])
          /\ InMemoryKept(runJson'.units[u], live'.units[u], "failing", told[u])
        BY <1>6, <1>9, <1>12, <2>2
    <2>4. lane' = [lane EXCEPT ![u] = "failing"] /\ "failing" \in LanePc
        BY <1>12 DEF LaneGoes, LanePc
    <2> QED
        BY <1>1, <1>2, <1>3, <1>5, <1>6, <1>12, <2>1, <2>2, <2>3, <2>4, ServedForLane
<1> QED
    BY <1>2, <1>7, <1>11, <1>12 DEF ServeSession

LEMMA ServeEstablishedKeeps ==
    ASSUME CoordinatorInv, ServeEstablished PROVE CoordinatorInv'
<1>1. /\ calls # <<>> /\ Served.kind = "established"
      /\ active' = active /\ timer' = timer /\ main' = main /\ told' = told /\ ended' = ended
      /\ runEnd' = runEnd /\ children' = children /\ resumed' = resumed /\ resumes' = resumes
    BY DEF ServeEstablished, Serving, Served, events
<1>2. PICK u : u = For
    OBVIOUS
<1>3. u \in Unit /\ lane[u] = "prompting"
    BY <1>1, <1>2, FirstCall, CallsOf, Typed DEF CoordinatorInv, For, Served, LaneWrites
<1>4. active /\ main \notin {"final", "over", "dead"}
    BY <1>3, AtRestThen
<1>5. PICK more : more = (IF resumed THEN <<CallFor("delivered", u)>> ELSE <<>>)
    OBVIOUS
<1>6. /\ <<>> \in Seq(Call) /\ timer' \in BOOLEAN /\ more \in Seq(Call)
      /\ more = <<>> \/ more = <<CallFor("delivered", u)>>
    <2>1. CallFor("delivered", u) \in Call
        BY <1>3, CallForTyped DEF Write
    <2> QED
        BY <1>1, <1>5, <2>1 DEF CoordinatorInv, CoordinatorTypeOK
<1>7. /\ OnDiskKept(runJson.units[u], told[u])
      /\ InMemoryKept(runJson.units[u], live.units[u], "prompting", told[u])
      /\ runJson.units[u] \in UnitRecord /\ live.units[u] \in UnitRecord /\ told[u] \in Nat
      /\ runJson \in RunRecord /\ live \in RunRecord /\ faults \in Nat
    BY <1>3, <1>4, LaneIsAt, Typed DEF CoordinatorInv, CoordinatorTypeOK
<1>8. PICK disk, mem : /\ disk = [runJson.units[u] EXCEPT !.session = "prompted"]
                       /\ mem = [live.units[u] EXCEPT !.session = "prompted"]
    OBVIOUS
<1>9. /\ disk \in UnitRecord /\ mem \in UnitRecord
      /\ OnDiskKept(disk, told[u])
      /\ InMemoryKept(disk, mem, "working", told[u])
      /\ InMemoryKept(disk, live.units[u], "failing", told[u])
      /\ InMemoryKept(runJson.units[u], live.units[u], "failing", told[u])
    BY <1>7, <1>8, EstablishedKeeps
<1>10. /\ [runJson EXCEPT !.units[u].session = "prompted"] = [runJson EXCEPT !.units[u] = disk]
       /\ [live EXCEPT !.units[u].session = "prompted"] = [live EXCEPT !.units[u] = mem]
    BY <1>3, <1>7, <1>8, SessionPut
<1>11. CASE /\ WritesRecord([runJson EXCEPT !.units[u].session = "prompted"])
            /\ live' = [live EXCEPT !.units[u].session = "prompted"] /\ LaneGoes(u, "working")
            /\ SettleThen(more)
    <2>1. runJson' = [runJson EXCEPT !.units[u] = disk] /\ live' = [live EXCEPT !.units[u] = mem]
          /\ faults' = faults
        BY <1>10, <1>11 DEF WritesRecord
    <2>2. /\ runJson' \in RunRecord /\ runJson'.units[u] = disk
          /\ \A v \in Unit : v # u => runJson'.units[v] = runJson.units[v]
          /\ runJson'.tasks = runJson.tasks /\ runJson'.delivered = runJson.delivered
        BY <1>3, <1>7, <1>9, <2>1, UnitPut
    <2>3. /\ live' \in RunRecord /\ live'.units[u] = mem
          /\ \A v \in Unit : v # u => live'.units[v] = live.units[v]
          /\ live'.tasks = live.tasks /\ live'.delivered = live.delivered
        BY <1>3, <1>7, <1>9, <2>1, UnitPut
    <2>4. lane' = [lane EXCEPT ![u] = "working"] /\ "working" \in LanePc
        BY <1>11 DEF LaneGoes, LanePc
    <2>5. /\ OnDiskKept(runJson'.units[u], told[u])
          /\ InMemoryKept(runJson'.units[u], live'.units[u], "working", told[u])
        BY <1>9, <2>2, <2>3
    <2>6. /\ SettleThen(more) /\ faults' \in Nat /\ calls # <<>> /\ For = u
          /\ Served.kind \in {"start", "startEvent", "session", "established"}
        BY <1>1, <1>2, <1>7, <1>11, <2>1
    <2> QED
        BY ONLY CoordinatorInv, <1>1, <1>3, <1>6, <2>2, <2>3, <2>4, <2>5, <2>6, ServedForLane
<1>12. CASE /\ FailsToWrite([runJson EXCEPT !.units[u].session = "prompted"])
            /\ live' = live /\ LaneGoes(u, "failing") /\ SettleThen(<<>>)
    <2>1. runJson' \in {runJson, [runJson EXCEPT !.units[u] = disk]} /\ faults' \in Nat
        BY <1>7, <1>10, <1>12 DEF FailsToWrite
    <2>2. /\ runJson' \in RunRecord /\ runJson'.units[u] \in {runJson.units[u], disk}
          /\ \A v \in Unit : v # u => runJson'.units[v] = runJson.units[v]
          /\ runJson'.tasks = runJson.tasks /\ runJson'.delivered = runJson.delivered
        BY <1>3, <1>7, <1>9, <2>1, WritesOne
    <2>3. /\ OnDiskKept(runJson'.units[u], told[u])
          /\ InMemoryKept(runJson'.units[u], live'.units[u], "failing", told[u])
        BY <1>7, <1>9, <1>12, <2>2
    <2>4. lane' = [lane EXCEPT ![u] = "failing"] /\ "failing" \in LanePc
        BY <1>12 DEF LaneGoes, LanePc
    <2> QED
        BY <1>1, <1>2, <1>3, <1>6, <1>7, <1>12, <2>1, <2>2, <2>3, <2>4, ServedForLane
<1> QED
    BY <1>2, <1>5, <1>11, <1>12 DEF ServeEstablished, Settle

(* A step of the run, or of a call that is about more than one unit: what  *)
(* is left in the queues is as it was, for the lanes that it leaves alone. *)
LEMMA RunStepKeeps ==
    ASSUME CoordinatorInv, CoordinatorTypeOK', QueuesKept', UnitsKept', TasksKept', MainKept', EndsKept',
           told' = told,
           \A v \in Unit : /\ runJson'.units[v].attempt = runJson.units[v].attempt
                           /\ runJson'.units[v].session = runJson.units[v].session
                           /\ live.units[v].attempts # <<>> => live'.units[v].attempts # <<>>,
           \A write \in Awaited' :
              \/ /\ write \in Awaited
                 /\ write.kind \in {"start", "session", "established"} =>
                       lane'[write.unit] = lane[write.unit]
                 /\ write.kind \in {"expand", "final"} => main' = main
              \/ write.kind = "flush"
              \/ write.kind = "expand" /\ main' = "expanding" /\ write.unit = Nothing
              \/ write.kind = "final" /\ main' = "final" /\ write.unit = Nothing,
           \A call \in Asked' :
              \/ call.kind \in Write
              \/ call \in Asked /\ OfEnd(call) /\ lane'[call.unit] = lane[call.unit]
              \/ CallKept(call)'
    PROVE  CoordinatorInv'
<1>1. AwaitedKept'
    <2> SUFFICES ASSUME NEW write \in Awaited'
                 PROVE  /\ write.kind \in LaneWrites => write.unit \in Unit
                        /\ write.kind = "start" => lane'[write.unit] = "starting"
                        /\ write.kind = "session" => lane'[write.unit] = "stamping"
                        /\ write.kind = "established" => lane'[write.unit] = "prompting"
                        /\ write.kind = "expand" => main' = "expanding" /\ write.unit = Nothing
                        /\ write.kind = "final" => main' = "final" /\ write.unit = Nothing
        BY DEF AwaitedKept
    <2>1. CASE /\ write \in Awaited
               /\ write.kind \in {"start", "session", "established"} =>
                     lane'[write.unit] = lane[write.unit]
               /\ write.kind \in {"expand", "final"} => main' = main
        BY <2>1 DEF CoordinatorInv, AwaitedKept
    <2>2. CASE write.kind = "flush"
        BY <2>2 DEF LaneWrites
    <2>3. CASE write.kind = "expand" /\ main' = "expanding" /\ write.unit = Nothing
        BY <2>3 DEF LaneWrites
    <2>4. CASE write.kind = "final" /\ main' = "final" /\ write.unit = Nothing
        BY <2>4 DEF LaneWrites
    <2> QED
        BY <2>1, <2>2, <2>3, <2>4
<1>2. AskedKept'
    <2> SUFFICES ASSUME NEW call \in Asked' PROVE CallKept(call)'
        BY DEF AskedKept
    <2>1. CASE call.kind \in Write
        BY <2>1 DEF CallKept, OfEnd, Write
    <2>2. CASE call \in Asked /\ OfEnd(call) /\ lane'[call.unit] = lane[call.unit]
        <3>1. CallKept(call)
            BY <2>2 DEF CoordinatorInv, AskedKept
        <3>2. /\ call.unit \in Unit /\ call.record \in UnitRecord
              /\ EndKept(call, runJson.units[call.unit], live.units[call.unit],
                         lane[call.unit], told[call.unit])
            BY <2>2, <3>1 DEF CallKept
        <3>3. EndKept(call, runJson'.units[call.unit], live'.units[call.unit],
                      lane'[call.unit], told'[call.unit])
            BY <2>2, <3>2, EndStays
        <3> QED
            BY <2>2, <3>2, <3>3 DEF CallKept, OfEnd
    <2> QED
        BY <2>1, <2>2
<1> QED
    BY <1>1, <1>2 DEF CoordinatorInv

(* mergeLiveIntoRecord, for the run and for each of its units.             *)
LEMMA MergedRun ==
    ASSUME CoordinatorInv, active
    PROVE  LET m == Merged(runJson, live)
           IN  /\ m \in RunRecord /\ AfterMerge \in RunRecord
               /\ m.status = live.status /\ AfterMerge.status = live.status
               /\ m.units = AfterMerge.units
               /\ \A v \in Unit : m.units[v] = MergedUnit(runJson.units[v], live.units[v])
               /\ m.tasks = runJson.tasks /\ AfterMerge.tasks = runJson.tasks
               /\ m.delivered = runJson.delivered /\ AfterMerge.delivered = runJson.delivered
<1>1. runJson \in RunRecord /\ live \in RunRecord
    BY Typed DEF CoordinatorInv
<1>2. live.tasks <= runJson.tasks /\ \A v \in Unit : live.delivered[v] <= runJson.delivered[v]
    BY DEF CoordinatorInv, TasksKept
<1>3. \A v \in Unit : MergedUnit(runJson.units[v], live.units[v]) \in UnitRecord
    BY LaneIsAt, MergeKeeps, Typed DEF CoordinatorInv
<1> QED
    BY <1>1, <1>2, <1>3, MergeFields DEF AfterMerge

Merging(v) ==
    LET merged == MergedUnit(runJson.units[v], live.units[v])
    IN live'.units[v] = merged /\ runJson'.units[v] \in {runJson.units[v], merged}

LEMMA MergingKeeps ==
    ASSUME CoordinatorInv, active, NEW v \in Unit, Merging(v)
    PROVE  /\ OnDiskKept(runJson'.units[v], told[v])
           /\ InMemoryKept(runJson'.units[v], live'.units[v], lane[v], told[v])
           /\ runJson'.units[v].attempt = runJson.units[v].attempt
           /\ runJson'.units[v].session = runJson.units[v].session
           /\ live.units[v].attempts # <<>> => live'.units[v].attempts # <<>>
           /\ lane[v] # "idle" => live'.units[v].status = live.units[v].status
           /\ runJson.units[v] = live.units[v] =>
                runJson'.units[v] = runJson.units[v] /\ live'.units[v] = live.units[v]
<1> DEFINE disk == runJson.units[v]
           mem == live.units[v]
           m == MergedUnit(disk, mem)
<1>1. /\ OnDiskKept(disk, told[v]) /\ InMemoryKept(disk, mem, lane[v], told[v])
      /\ disk \in UnitRecord /\ mem \in UnitRecord /\ told[v] \in Nat
    BY LaneIsAt, Typed DEF CoordinatorInv
<1>2. /\ m \in UnitRecord
      /\ m.session = disk.session /\ m.attempt = disk.attempt
      /\ mem.status # "absent" => m.status = mem.status /\ m.attempts = mem.attempts
      /\ mem.attempts # <<>> => m.attempts # <<>>
      /\ OnDiskKept(m, told[v])
      /\ InMemoryKept(m, m, lane[v], told[v])
      /\ InMemoryKept(disk, m, lane[v], told[v])
    BY <1>1, MergeKeeps
<1>3. lane[v] # "idle" => mem.status # "absent"
    BY <1>1 DEF InMemoryKept
<1>4. live'.units[v] = m /\ runJson'.units[v] \in {disk, m}
    BY DEF Merging
<1>5. ASSUME disk = mem PROVE m = disk
    <2>1. CASE "absent" \in {disk.status, mem.status}
        BY <2>1 DEF MergedUnit
    <2>2. CASE "absent" \notin {disk.status, mem.status}
        <3>1. m = [disk EXCEPT !.attempt = disk.attempt, !.session = disk.session]
            BY <1>5, <2>2 DEF MergedUnit
        <3> QED
            BY <1>1, <3>1 DEF UnitRecord
    <2> QED
        BY <2>1, <2>2
<1> HIDE DEF m
<1> QED
    BY <1>1, <1>2, <1>3, <1>4, <1>5

(* What a durable write that settles leaves in the queues.                 *)
LEMMA Settling ==
    ASSUME CoordinatorInv, calls # <<>>, OfQueue(Served), SettleThen(<<>>)
    PROVE  /\ durable' \in Seq(Call) /\ calls' \in Seq(Call) /\ QueuesKept'
           /\ durable # <<>> /\ Head(durable) \in Awaited
           /\ Served.kind \in Write => Served = Head(durable)
           /\ Served.kind = "startEvent" => Head(durable) = CallFor("start", For)
           /\ \A write \in Awaited' : write \in Awaited /\ (Strict(write) => write # Head(durable))
           /\ \A call \in Asked' :
                 \/ call.kind \in Write
                 \/ call \in Asked /\ call.kind # "startEvent"
<1>1. /\ durable \in Seq(Call) /\ calls \in Seq(Call) /\ QueuesKept /\ <<>> \in Seq(Call)
    BY Typed DEF CoordinatorInv
<1>2. DOMAIN <<>> = {}
    OBVIOUS
<1>3. \A call : call.kind = "startEvent" => SameCaller(call, Served)
    BY DEF SameCaller, OfQueue
<1>4. /\ durable' \in Seq(Call) /\ calls' \in Seq(Call) /\ QueuesKept'
      /\ durable # <<>> /\ Head(durable) \in Awaited
      /\ Served.kind \in Write => Served = Head(durable)
      /\ Served.kind = "startEvent" => Head(durable) = CallFor("start", For)
      /\ \A write \in Awaited' :
            \/ write \in Awaited /\ (Strict(write) => write # Head(durable))
            \/ \E i \in DOMAIN <<>> : write = <<>>[i]
      /\ \A call \in Asked' : \/ call.kind \in Write
                              \/ call \in Asked /\ ~SameCaller(call, Served)
    BY <1>1, SettleKeeps
<1> QED
    BY <1>2, <1>3, <1>4

LEMMA ServeDeliveredKeeps ==
    ASSUME CoordinatorInv, ServeDelivered PROVE CoordinatorInv'
<1>1. /\ calls # <<>> /\ Served.kind = "delivered" /\ SettleThen(<<>>)
      /\ active' = active /\ timer' = timer /\ lane' = lane /\ main' = main
      /\ told' = told /\ ended' = ended /\ runEnd' = runEnd
      /\ children' = children /\ resumed' = resumed /\ resumes' = resumes
    BY DEF ServeDelivered, Serving, Served, Settle, events
<1>2. OfQueue(Served)
    BY <1>1 DEF OfQueue, Write
<1>3. PICK u : u = For
    OBVIOUS
<1>4. u \in Unit
    BY <1>1, <1>3, FirstCall, CallsOf, Typed DEF CoordinatorInv, For, Served, LaneWrites
<1>5. /\ durable' \in Seq(Call) /\ calls' \in Seq(Call) /\ QueuesKept'
      /\ \A write \in Awaited' : write \in Awaited
      /\ \A call \in Asked' : call.kind \in Write \/ call \in Asked
    BY <1>1, <1>2, Settling
<1>6. /\ runJson \in RunRecord /\ live \in RunRecord /\ runJson.tasks \in Nat /\ faults \in Nat
      /\ \A v \in Unit : runJson.delivered[v] \in Nat /\ live.delivered[v] \in Nat
    BY Typed DEF CoordinatorInv, CoordinatorTypeOK
<1> DEFINE written == [runJson EXCEPT !.delivered[u] = runJson.tasks]
           mirrored == [live EXCEPT !.tasks = runJson.tasks, !.delivered[u] = runJson.tasks]
<1>7. /\ written \in RunRecord /\ written.units = runJson.units /\ written.status = runJson.status
      /\ written.tasks = runJson.tasks /\ written.delivered[u] = runJson.tasks
      /\ \A v \in Unit : v # u => written.delivered[v] = runJson.delivered[v]
    BY <1>4, <1>6 DEF RunRecord
<1>8. /\ mirrored \in RunRecord /\ mirrored.units = live.units /\ mirrored.status = live.status
      /\ mirrored.tasks = runJson.tasks /\ mirrored.delivered[u] = runJson.tasks
      /\ \A v \in Unit : v # u => mirrored.delivered[v] = live.delivered[v]
    BY <1>4, <1>6 DEF RunRecord
<1>9. /\ faults' \in Nat
      /\ \/ runJson' = written /\ live' = IF active THEN mirrored ELSE live
         \/ runJson' \in {runJson, written} /\ live' = live
    BY <1>3, <1>6 DEF ServeDelivered, WritesRecord, FailsToWrite
<1> HIDE DEF written, mirrored
<1>10. /\ runJson' \in RunRecord /\ live' \in RunRecord
       /\ runJson'.units = runJson.units /\ runJson'.status = runJson.status
       /\ live'.units = live.units /\ live'.status = live.status
    BY <1>6, <1>7, <1>8, <1>9
<1>11. TasksKept'
    <2>1. \A v \in Unit : runJson.delivered[v] <= runJson.tasks
        BY DEF CoordinatorInv, TasksKept
    <2>2. /\ runJson'.tasks = runJson.tasks
          /\ \A v \in Unit : /\ runJson'.delivered[v] <= runJson.tasks
                             /\ runJson'.delivered[v] >= runJson.delivered[v]
                             /\ runJson'.delivered[v] \in {runJson.tasks, runJson.delivered[v]}
        BY <1>6, <1>7, <1>9, <2>1
    <2>3. active => live.tasks <= runJson.tasks /\ \A v \in Unit : live.delivered[v] <= runJson.delivered[v]
        BY DEF CoordinatorInv, TasksKept
    <2>4. CASE runJson' = written /\ live' = IF active THEN mirrored ELSE live
        <3>1. active => live'.tasks <= runJson'.tasks
            BY <1>6, <1>8, <2>2, <2>4
        <3>2. ASSUME active, NEW v \in Unit PROVE live'.delivered[v] <= runJson'.delivered[v]
            BY <1>6, <1>7, <1>8, <2>3, <2>4, <3>2
        <3> QED
            BY <1>1, <2>2, <3>1, <3>2 DEF TasksKept
    <2>5. CASE runJson' \in {runJson, written} /\ live' = live
        <3>1. ASSUME active, NEW v \in Unit PROVE live'.delivered[v] <= runJson'.delivered[v]
            BY <1>6, <2>2, <2>3, <2>5, <3>1
        <3> QED
            BY <1>1, <2>2, <2>3, <2>5, <3>1 DEF TasksKept
    <2> QED
        BY <1>9, <2>4, <2>5
<1>12. UnitsKept' /\ MainKept' /\ EndsKept'
    BY <1>1, <1>10 DEF CoordinatorInv, UnitsKept, MainKept, AtRest, EndsKept, EndsOnRecord
<1>13. CoordinatorTypeOK'
    BY <1>1, <1>5, <1>9, <1>10 DEF CoordinatorInv, CoordinatorTypeOK
<1>14. ASSUME NEW call \in Asked, call.kind \notin Write PROVE CallKept(call)'
    BY <1>1, <1>5, <1>10 DEF CoordinatorInv, AskedKept, CallKept
<1>15. \A call \in Asked' : call.kind \in Write \/ CallKept(call)'
    BY <1>5, <1>14
<1> QED
    BY <1>1, <1>5, <1>10, <1>11, <1>12, <1>13, <1>15, RunStepKeeps

(* What a merge leaves of the run, and of the calls of the others.         *)
LEMMA MergeStepKeeps ==
    ASSUME CoordinatorInv, active, \A v \in Unit : Merging(v),
           runJson' \in RunRecord, live' \in RunRecord,
           runJson'.tasks = runJson.tasks, runJson'.delivered = runJson.delivered,
           live'.tasks = runJson.tasks, live'.delivered = runJson.delivered,
           lane' = lane, told' = told
    PROVE  /\ UnitsKept' /\ TasksKept'
           /\ \A v \in Unit : /\ runJson'.units[v].attempt = runJson.units[v].attempt
                              /\ runJson'.units[v].session = runJson.units[v].session
                              /\ live.units[v].attempts # <<>> => live'.units[v].attempts # <<>>
                              /\ lane[v] # "idle" => live'.units[v].status = live.units[v].status
           /\ runJson.units = live.units => runJson'.units = runJson.units /\ live'.units = live.units
<1>1. UnitsKept'
    BY MergingKeeps DEF UnitsKept
<1>2. TasksKept'
    <2>1. \A v \in Unit : runJson.delivered[v] <= runJson.tasks /\ runJson.delivered[v] \in Nat
        BY Typed DEF CoordinatorInv, TasksKept
    <2>2. runJson.tasks \in Nat
        BY Typed DEF CoordinatorInv
    <2> QED
        BY <2>1, <2>2 DEF TasksKept
<1>3. ASSUME runJson.units = live.units
      PROVE  runJson'.units = runJson.units /\ live'.units = live.units
    <2>1. \A v \in Unit : /\ runJson'.units[v] = runJson.units[v]
                          /\ live'.units[v] = live.units[v]
        BY <1>3, MergingKeeps
    <2>2. /\ runJson'.units \in [Unit -> UnitRecord] /\ live'.units \in [Unit -> UnitRecord]
          /\ runJson.units \in [Unit -> UnitRecord] /\ live.units \in [Unit -> UnitRecord]
        BY RunFields, Typed DEF CoordinatorInv
    <2> QED
        BY <2>1, <2>2
<1> QED
    BY <1>1, <1>2, <1>3, MergingKeeps

LEMMA ServeFlushKeeps ==
    ASSUME CoordinatorInv, ServeFlush PROVE CoordinatorInv'
<1>1. /\ calls # <<>> /\ Served.kind = "flush" /\ SettleThen(<<>>)
      /\ active' = active /\ timer' = timer /\ lane' = lane /\ main' = main
      /\ told' = told /\ ended' = ended /\ runEnd' = runEnd
      /\ children' = children /\ resumed' = resumed /\ resumes' = resumes
    BY DEF ServeFlush, Serving, Served, Settle, events
<1>2. OfQueue(Served)
    BY <1>1 DEF OfQueue, Write
<1>3. /\ durable' \in Seq(Call) /\ calls' \in Seq(Call) /\ QueuesKept'
      /\ \A write \in Awaited' : write \in Awaited
      /\ \A call \in Asked' : \/ call.kind \in Write
                              \/ call \in Asked /\ call.kind # "startEvent"
    BY <1>1, <1>2, Settling
<1>4. runJson \in RunRecord /\ live \in RunRecord /\ faults \in Nat
    BY Typed DEF CoordinatorInv, CoordinatorTypeOK
<1>5. /\ faults' \in Nat
      /\ active => runJson' \in {runJson, Merged(runJson, live)} /\ live' = AfterMerge
      /\ ~active => runJson' = runJson /\ live' = live
    BY <1>4 DEF ServeFlush, WritesRecord, FailsToWrite
<1>6. CASE active
    <2> DEFINE m == Merged(runJson, live)
    <2>1. /\ m \in RunRecord /\ AfterMerge \in RunRecord
          /\ m.status = live.status /\ AfterMerge.status = live.status
          /\ m.units = AfterMerge.units
          /\ \A v \in Unit : m.units[v] = MergedUnit(runJson.units[v], live.units[v])
          /\ m.tasks = runJson.tasks /\ AfterMerge.tasks = runJson.tasks
          /\ m.delivered = runJson.delivered /\ AfterMerge.delivered = runJson.delivered
        BY <1>6, MergedRun
    <2>2. runJson' \in {runJson, m} /\ live' = AfterMerge
        BY <1>5, <1>6
    <2> HIDE DEF m
    <2>3. /\ runJson' \in RunRecord /\ live' \in RunRecord
          /\ runJson'.tasks = runJson.tasks /\ runJson'.delivered = runJson.delivered
          /\ live'.tasks = runJson.tasks /\ live'.delivered = runJson.delivered
          /\ live'.status = live.status /\ runJson'.status \in {runJson.status, live.status}
        BY <1>4, <2>1, <2>2
    <2>4. \A v \in Unit : Merging(v)
        BY <2>1, <2>2 DEF Merging
    <2>5. /\ UnitsKept' /\ TasksKept'
          /\ \A v \in Unit : /\ runJson'.units[v].attempt = runJson.units[v].attempt
                             /\ runJson'.units[v].session = runJson.units[v].session
                             /\ live.units[v].attempts # <<>> => live'.units[v].attempts # <<>>
                             /\ lane[v] # "idle" => live'.units[v].status = live.units[v].status
          /\ runJson.units = live.units => runJson'.units = runJson.units /\ live'.units = live.units
        BY <1>1, <1>6, <2>3, <2>4, MergeStepKeeps
    <2>6. MainKept'
        BY <1>1 DEF CoordinatorInv, MainKept, AtRest
    <2>7. EndsKept'
        <3>1. runEnd' = "none"
            BY <1>1, <1>6 DEF CoordinatorInv, EndsKept, MainKept
        <3> QED
            BY <1>1, <2>5, <3>1 DEF CoordinatorInv, EndsKept, EndsOnRecord
    <2>8. CoordinatorTypeOK'
        BY <1>1, <1>3, <1>5, <2>3 DEF CoordinatorInv, CoordinatorTypeOK
    <2>9. ASSUME NEW call \in Asked, call.kind = "runTerminal" PROVE CallKept(call)'
        <3>1. /\ main = "final" /\ \A write \in Awaited : write.kind # "final"
              /\ runJson.status = live.status /\ runJson.units = live.units
            BY <2>9 DEF CoordinatorInv, AskedKept, CallKept
        <3>2. runJson'.status = live'.status /\ runJson'.units = live'.units
            BY <2>3, <2>5, <3>1
        <3> QED
            BY <1>1, <1>3, <2>9, <3>1, <3>2 DEF CallKept, OfEnd
    <2>10. ASSUME NEW call \in Asked'
           PROVE  \/ call.kind \in Write
                  \/ call \in Asked /\ OfEnd(call) /\ lane'[call.unit] = lane[call.unit]
                  \/ CallKept(call)'
        <3>1. CASE call \in Asked /\ call.kind = "runTerminal"
            BY <2>9, <3>1
        <3>2. CASE call \in Asked /\ call.kind \notin {"runTerminal", "startEvent"} \cup Write
            <4>1. call \in Call
                BY <3>2, Typed DEF CoordinatorInv, Asked
            <4>2. OfEnd(call)
                BY <3>2, <4>1 DEF Call, OfEnd
            <4> QED
                BY <1>1, <3>2, <4>2
        <3> QED
            BY <1>3, <3>1, <3>2
    <2> QED
        BY <1>1, <1>3, <2>5, <2>6, <2>7, <2>8, <2>10, RunStepKeeps
<1>7. CASE ~active
    <2>1. runJson' = runJson /\ live' = live
        BY <1>5, <1>7
    <2>2. UnitsKept' /\ TasksKept' /\ MainKept' /\ EndsKept' /\ CoordinatorTypeOK'
        BY <1>1, <1>3, <1>5, <2>1 DEF CoordinatorInv, UnitsKept, TasksKept, MainKept, AtRest,
                                       EndsKept, EndsOnRecord, CoordinatorTypeOK
    <2>3. ASSUME NEW call \in Asked PROVE CallKept(call)'
        BY <1>1, <1>3, <2>1 DEF CoordinatorInv, AskedKept, CallKept
    <2> QED
        BY <1>1, <1>3, <2>1, <2>2, <2>3, RunStepKeeps
<1> QED
    BY <1>6, <1>7

(* startUnit's strict write: a merge, with one unit started on disk.       *)
LEMMA ServeStartKeeps ==
    ASSUME CoordinatorInv, ServeStart PROVE CoordinatorInv'
<1>1. /\ calls # <<>> /\ Served.kind = "start" /\ live' = AfterMerge
      /\ active' = active /\ timer' = timer /\ main' = main
      /\ told' = told /\ ended' = ended /\ runEnd' = runEnd
      /\ children' = children /\ resumed' = resumed /\ resumes' = resumes
    BY DEF ServeStart, Serving, Served, events
<1>2. PICK u : u = For
    OBVIOUS
<1>3. /\ u \in Unit /\ lane[u] = "starting" /\ Served \in Asked
    BY <1>1, <1>2, FirstCall, CallsOf, Typed DEF CoordinatorInv, For, Served, LaneWrites
<1>4. active /\ main \notin {"final", "over", "dead"}
    BY <1>3, AtRestThen
<1>5. OfQueue(Served) /\ Served.unit = u
    BY <1>1, <1>2 DEF OfQueue, Write, For, Served
<1> DEFINE m == Merged(runJson, live)
           disk == runJson.units[u]
           mem == live.units[u]
           one == MergedUnit(disk, mem)
           s == StartedUnit(one)
           written == [m EXCEPT !.units[u] = s]
<1>6. /\ m \in RunRecord /\ AfterMerge \in RunRecord
      /\ m.status = live.status /\ AfterMerge.status = live.status
      /\ m.units = AfterMerge.units
      /\ \A v \in Unit : m.units[v] = MergedUnit(runJson.units[v], live.units[v])
      /\ m.tasks = runJson.tasks /\ AfterMerge.tasks = runJson.tasks
      /\ m.delivered = runJson.delivered /\ AfterMerge.delivered = runJson.delivered
    BY <1>4, MergedRun
<1>7. /\ OnDiskKept(disk, told[u]) /\ InMemoryKept(disk, mem, "starting", told[u])
      /\ disk \in UnitRecord /\ mem \in UnitRecord /\ told[u] \in Nat
      /\ runJson \in RunRecord /\ live \in RunRecord /\ faults \in Nat
      /\ \A v \in Unit : runJson.delivered[v] \in Nat
      /\ runJson.tasks \in Nat /\ lane \in [Unit -> LanePc]
    BY <1>3, <1>4, LaneIsAt, Typed DEF CoordinatorInv, CoordinatorTypeOK
<1>8. /\ one \in UnitRecord /\ s \in UnitRecord
      /\ OnDiskKept(s, told[u])
      /\ InMemoryKept(s, one, "starting", told[u])
      /\ InMemoryKept(s, one, "failing", told[u])
      /\ InMemoryKept(disk, one, "failing", told[u])
    BY <1>7, StartKeeps
<1>9. /\ one.session = disk.session /\ one.attempt = disk.attempt
      /\ mem.attempts # <<>> => one.attempts # <<>>
      /\ InMemoryKept(one, one, "starting", told[u])
    BY <1>7, MergeKeeps
<1>10. s.session = disk.session /\ s.attempt = disk.attempt
    <2>1. HistoryKept(one) /\ one.status = "queued"
        BY <1>9 DEF InMemoryKept
    <2> QED
        BY <1>8, <1>9, <2>1, StartedUnitFields
<1> HIDE DEF m, one, s
<1>11. /\ written \in RunRecord /\ written.units[u] = s
       /\ \A v \in Unit : v # u => written.units[v] = m.units[v]
       /\ written.status = m.status /\ written.tasks = m.tasks /\ written.delivered = m.delivered
    BY <1>3, <1>6, <1>8, UnitPut
<1>12. /\ faults' \in Nat
       /\ \/ /\ runJson' = written /\ NextCall(CallFor("startEvent", u)) /\ lane' = lane
          \/ /\ runJson' \in {runJson, written} /\ SettleThen(<<>>)
             /\ lane' = [lane EXCEPT ![u] = "failing"]
    <2>1. [m EXCEPT !.units[u] = StartedUnit(@)] = written
        <3>1. m.units[u] = one
            BY <1>3, <1>6 DEF one
        <3> QED
            BY <3>1 DEF s
    <2> QED
        BY <1>2, <1>7, <2>1 DEF ServeStart, WritesRecord, FailsToWrite, Settle, LaneGoes, m
<1> HIDE DEF written
<1>13. /\ runJson' \in {runJson, written} /\ runJson' \in RunRecord /\ live' \in RunRecord
       /\ runJson'.tasks = runJson.tasks /\ runJson'.delivered = runJson.delivered
       /\ live'.tasks = runJson.tasks /\ live'.delivered = runJson.delivered
       /\ live'.units[u] = one /\ runJson'.units[u] \in {disk, s}
    BY <1>1, <1>3, <1>6, <1>7, <1>11, <1>12 DEF one
<1>14. \A v \in Unit : v # u => Merging(v)
    BY <1>1, <1>6, <1>11, <1>13 DEF Merging
<1>15. TasksKept'
    <2>1. \A v \in Unit : runJson.delivered[v] <= runJson.tasks
        BY DEF CoordinatorInv, TasksKept
    <2> QED
        BY <1>7, <1>13, <2>1 DEF TasksKept
<1>16. MainKept'
    BY <1>1, <1>4 DEF CoordinatorInv, MainKept
<1>17. \A v \in Unit : /\ runJson'.units[v].attempt = runJson.units[v].attempt
                       /\ runJson'.units[v].session = runJson.units[v].session
                       /\ live.units[v].attempts # <<>> => live'.units[v].attempts # <<>>
    BY <1>4, <1>9, <1>10, <1>13, <1>14, MergingKeeps
<1>18. \A v \in Unit : v # u =>
           /\ OnDiskKept(runJson'.units[v], told[v])
           /\ InMemoryKept(runJson'.units[v], live'.units[v], lane[v], told[v])
           /\ lane[v] # "idle" => live'.units[v].status = live.units[v].status
    BY <1>4, <1>14, MergingKeeps
<1>19. runEnd' = "none"
    BY <1>1, <1>4 DEF CoordinatorInv, EndsKept
<1>20. CASE runJson' = written /\ NextCall(CallFor("startEvent", u)) /\ lane' = lane
    <2> DEFINE next == CallFor("startEvent", u)
    <2>1. next \in Call /\ next.kind = "startEvent" /\ next.unit = u
        BY <1>3, CallForTyped, CallForFields
    <2> HIDE DEF next
    <2>2. /\ durable' \in Seq(Call) /\ calls' \in Seq(Call) /\ QueuesKept'
          /\ Awaited' = Awaited
          /\ \A call \in Asked' : \/ call = next
                                  \/ call \in Asked /\ ~SameCaller(call, Served)
        <3>1. NextCall(next) /\ next.unit = For /\ durable \in Seq(Call) /\ calls \in Seq(Call) /\ QueuesKept
            BY <1>2, <1>20, <2>1, Typed DEF next, CoordinatorInv
        <3> QED
            BY <1>1, <2>1, <3>1, NextCallKeeps
    <2>3. UnitsKept'
        <3>1. runJson'.units[u] = s
            BY <1>11, <1>20
        <3> QED
            BY <1>1, <1>3, <1>8, <1>13, <1>18, <1>20, <3>1 DEF UnitsKept
    <2>4. EndsKept'
        BY <1>1, <1>3, <1>4, <1>18, <1>19, <1>20 DEF CoordinatorInv, EndsKept, EndsOnRecord
    <2>5. CoordinatorTypeOK'
        BY <1>1, <1>12, <1>13, <1>20, <2>2 DEF CoordinatorInv, CoordinatorTypeOK
    <2>6. CallKept(next)'
        <3>1. runJson'.units[u] = StartedUnit(live'.units[u])
            BY <1>11, <1>13, <1>20 DEF s
        <3> QED
            BY <2>1, <3>1 DEF CallKept, OfEnd
    <2>7. ASSUME NEW call \in Asked, ~SameCaller(call, Served)
          PROVE  OfEnd(call)
        <3>1. ~OfQueue(call)
            BY <1>5, <2>7 DEF SameCaller
        <3>2. call \in Call /\ call.kind # "runTerminal"
            BY <1>4, CallsOf, Typed DEF CoordinatorInv, Asked
        <3> QED
            BY <3>1, <3>2 DEF OfQueue, OfEnd, Call
    <2>8. \A call \in Asked' :
             \/ call \in Asked /\ OfEnd(call) /\ lane'[call.unit] = lane[call.unit]
             \/ CallKept(call)'
        BY <1>20, <2>2, <2>6, <2>7
    <2> QED
        BY <1>1, <1>15, <1>16, <1>17, <1>20, <2>2, <2>3, <2>4, <2>5, <2>8, RunStepKeeps
<1>21. CASE /\ runJson' \in {runJson, written} /\ SettleThen(<<>>)
            /\ lane' = [lane EXCEPT ![u] = "failing"]
    <2>1. /\ durable' \in Seq(Call) /\ calls' \in Seq(Call) /\ QueuesKept'
          /\ Served = Head(durable)
          /\ \A write \in Awaited' : write \in Awaited /\ (Strict(write) => write # Head(durable))
          /\ \A call \in Asked' :
                \/ call.kind \in Write
                \/ call \in Asked /\ call.kind # "startEvent"
        BY <1>1, <1>5, <1>21, Settling DEF Write
    <2>2. /\ lane' \in [Unit -> LanePc] /\ lane'[u] = "failing"
          /\ \A v \in Unit : v # u => lane'[v] = lane[v]
        BY <1>3, <1>7, <1>21 DEF LanePc
    <2>3. UnitsKept'
        <3>1. InMemoryKept(runJson'.units[u], live'.units[u], "failing", told[u])
            BY <1>8, <1>13
        <3>2. OnDiskKept(runJson'.units[u], told[u])
            BY <1>7, <1>8, <1>13
        <3> QED
            BY <1>1, <1>3, <1>18, <2>2, <3>1, <3>2 DEF UnitsKept
    <2>4. EndsKept'
        BY <1>1, <1>3, <1>4, <1>18, <1>19, <2>2 DEF CoordinatorInv, EndsKept, EndsOnRecord
    <2>5. CoordinatorTypeOK'
        BY <1>1, <1>12, <1>13, <2>1, <2>2 DEF CoordinatorInv, CoordinatorTypeOK
    <2>6. ASSUME NEW write \in Awaited', write.kind \in {"start", "session", "established"}
          PROVE  write.unit \in Unit /\ write.unit # u
        <3>1. write \in Awaited /\ write # Served
            BY <2>1, <2>6 DEF Strict
        <3>2. /\ write = CallFor(write.kind, write.unit) /\ write.unit \in Unit
              /\ write.kind = "start" => lane[write.unit] = "starting"
              /\ write.kind = "session" => lane[write.unit] = "stamping"
              /\ write.kind = "established" => lane[write.unit] = "prompting"
            BY <2>6, <3>1 DEF CoordinatorInv, AwaitedKept, QueuesKept, LaneWrites
        <3>3. Served = CallFor("start", u)
            <4>1. durable # <<>> /\ Head(durable) \in Awaited
                BY <1>1, <1>5, <1>21, Settling
            <4> QED
                BY <1>1, <1>5, <2>1, <4>1 DEF CoordinatorInv, QueuesKept
        <3>4. write.unit = u => write.kind = "start"
            BY <1>3, <2>6, <3>2
        <3> QED
            BY <3>1, <3>2, <3>3, <3>4
    <2>7. \A write \in Awaited' :
             /\ write \in Awaited
             /\ write.kind \in {"start", "session", "established"} =>
                   lane'[write.unit] = lane[write.unit]
        BY <2>1, <2>2, <2>6
    <2>8. ASSUME NEW call \in Asked', call.kind \notin Write
          PROVE  call \in Asked /\ OfEnd(call) /\ lane'[call.unit] = lane[call.unit]
        <3>1. call \in Asked /\ call.kind # "startEvent"
            BY <2>1, <2>8
        <3>2. call \in Call /\ call.kind # "runTerminal"
            BY <1>4, <3>1, CallsOf, Typed DEF CoordinatorInv, Asked
        <3>3. OfEnd(call)
            BY <2>8, <3>1, <3>2 DEF OfEnd, Call
        <3>4. call.unit \in Unit /\ lane[call.unit] \in {"ending", "failEnding"}
            BY <3>1, <3>3, CallsOf
        <3> QED
            BY <1>3, <2>2, <3>1, <3>3, <3>4
    <2> QED
        BY <1>1, <1>15, <1>16, <1>17, <2>1, <2>3, <2>4, <2>5, <2>7, <2>8, RunStepKeeps
<1> QED
    BY <1>12, <1>20, <1>21

(* The end of a unit is written, and told.                                 *)
LEMMA EndIsFirst ==
    ASSUME CoordinatorInv, calls # <<>>, OfEnd(Served)
    PROVE  LET u == For
           IN  /\ u \in Unit /\ Served \in Call /\ Served.record \in UnitRecord /\ Served.last \in BOOLEAN
               /\ Served.unit = u
               /\ lane[u] = IF Served.last THEN "failEnding" ELSE "ending"
               /\ active /\ main \notin {"final", "over", "dead"}
               /\ EndKept(Served, runJson.units[u], live.units[u], lane[u], told[u])
               /\ OnDiskKept(runJson.units[u], told[u])
               /\ InMemoryKept(runJson.units[u], live.units[u], lane[u], told[u])
               /\ \A write \in Awaited :
                     write.kind \in {"start", "session", "established"} => write.unit # u
               /\ \A call \in Asked : ~SameCaller(call, Served) =>
                     (OfEnd(call) \/ call.kind = "startEvent" => call.unit # u)
<1>1. Served \in Asked /\ Served \in Call /\ Served.unit = For
    BY FirstCall, Typed DEF CoordinatorInv, For, Served
<1>2. /\ For \in Unit /\ Served.record \in UnitRecord
      /\ EndKept(Served, runJson.units[For], live.units[For], lane[For], told[For])
    BY <1>1 DEF CoordinatorInv, AskedKept, CallKept
<1>3. Served.last \in BOOLEAN
    BY <1>1 DEF Call
<1>4. lane[For] = IF Served.last THEN "failEnding" ELSE "ending"
    BY <1>2 DEF EndKept
<1>5. active /\ main \notin {"final", "over", "dead"}
    BY <1>2, <1>4, AtRestThen
<1>6. \A call \in Asked : ~SameCaller(call, Served) =>
          (OfEnd(call) \/ call.kind = "startEvent" => call.unit # For)
    BY <1>1, <1>4, CallsOf DEF SameCaller
<1>7. /\ OnDiskKept(runJson.units[For], told[For])
      /\ InMemoryKept(runJson.units[For], live.units[For], lane[For], told[For])
      /\ \A write \in Awaited :
            write.kind \in {"start", "session", "established"} => write.unit # For
    <2>1. lane[For] \notin {"starting", "stamping", "prompting"}
        BY <1>4
    <2> QED
        BY <1>2, <1>5, <2>1, LaneIsAt
<1> QED
    BY <1>1, <1>2, <1>3, <1>4, <1>5, <1>6, <1>7

LEMMA ServeFinishKeeps ==
    ASSUME CoordinatorInv, ServeFinish PROVE CoordinatorInv'
<1>1. /\ calls # <<>> /\ Served.kind = "finish"
      /\ live' = live /\ active' = active /\ timer' = timer /\ main' = main
      /\ told' = told /\ ended' = ended /\ runEnd' = runEnd
      /\ children' = children /\ resumed' = resumed /\ resumes' = resumes
    BY DEF ServeFinish, Serving, Served, memory, events
<1>2. OfEnd(Served)
    BY <1>1 DEF OfEnd
<1>3. PICK u : u = For
    OBVIOUS
<1>4. /\ u \in Unit /\ Served \in Call /\ Served.record \in UnitRecord /\ Served.last \in BOOLEAN
      /\ Served.unit = u
      /\ lane[u] = IF Served.last THEN "failEnding" ELSE "ending"
      /\ active /\ main \notin {"final", "over", "dead"}
      /\ EndKept(Served, runJson.units[u], live.units[u], lane[u], told[u])
      /\ OnDiskKept(runJson.units[u], told[u])
      /\ InMemoryKept(runJson.units[u], live.units[u], lane[u], told[u])
      /\ \A write \in Awaited :
            write.kind \in {"start", "session", "established"} => write.unit # u
      /\ \A call \in Asked : ~SameCaller(call, Served) =>
            (OfEnd(call) \/ call.kind = "startEvent" => call.unit # u)
    BY <1>1, <1>2, <1>3, EndIsFirst
<1>5. /\ durable \in Seq(Call) /\ calls \in Seq(Call) /\ QueuesKept
      /\ runJson \in RunRecord /\ live \in RunRecord /\ faults \in Nat
      /\ lane \in [Unit -> LanePc]
      /\ runJson.units[u] \in UnitRecord /\ live.units[u] \in UnitRecord /\ told[u] \in Nat
    BY <1>4, Typed DEF CoordinatorInv, CoordinatorTypeOK
<1>0. PICK next : next = [Served EXCEPT !.kind = "finishEvent"]
    OBVIOUS
<1> DEFINE record == Served.record
           written == [runJson EXCEPT !.units[u] = record]
           caught == IF Served.last THEN "lost" ELSE "failing"
<1>6. /\ next \in Call /\ next.kind = "finishEvent" /\ next.unit = u
      /\ next.record = Served.record /\ next.last = Served.last
    BY <1>0, <1>4 DEF Call
<1>7. /\ written \in RunRecord /\ written.units[u] = record
      /\ \A v \in Unit : v # u => written.units[v] = runJson.units[v]
      /\ written.status = runJson.status /\ written.tasks = runJson.tasks
      /\ written.delivered = runJson.delivered
    BY <1>4, <1>5, UnitPut
<1>8. /\ faults' \in Nat
      /\ \/ runJson' = written /\ NextCall(next) /\ lane' = lane
         \/ runJson' \in {runJson, written} /\ LastCall /\ lane' = [lane EXCEPT ![u] = caught]
    BY <1>0, <1>3, <1>4, <1>5 DEF ServeFinish, WritesRecord, FailsToWrite, Caught, LaneGoes
<1>9. /\ OnDiskKept(record, told[u])
      /\ InMemoryKept(record, live.units[u], lane[u], told[u])
      /\ InMemoryKept(record, live.units[u], caught, told[u])
      /\ InMemoryKept(runJson.units[u], live.units[u], caught, told[u])
      /\ EndKept(next, record, live.units[u], lane[u], told[u])
    BY <1>1, <1>4, <1>5, <1>6, EndWritten
<1> HIDE DEF written, record, caught
<1>10. /\ runJson' \in RunRecord /\ runJson'.units[u] \in {runJson.units[u], record}
       /\ \A v \in Unit : v # u => runJson'.units[v] = runJson.units[v]
       /\ runJson'.tasks = runJson.tasks /\ runJson'.delivered = runJson.delivered
    BY <1>5, <1>7, <1>8
<1>11. OnDiskKept(runJson'.units[u], told'[u])
    BY <1>1, <1>4, <1>9, <1>10
<1>12. CASE runJson' = written /\ NextCall(next) /\ lane' = lane
    <2>1. /\ durable' \in Seq(Call) /\ calls' \in Seq(Call) /\ QueuesKept'
          /\ Awaited' = Awaited
          /\ \A call \in Asked' : \/ call = next
                                  \/ call \in Asked /\ ~SameCaller(call, Served)
        BY <1>1, <1>3, <1>5, <1>6, <1>12, NextCallKeeps
    <2>2. CoordinatorTypeOK'
        BY <1>1, <1>8, <1>10, <1>12, <2>1 DEF CoordinatorInv, CoordinatorTypeOK
    <2>3. \A v \in Unit : v # u => Untouched(v)
        BY <1>1, <1>10, <1>12 DEF Untouched
    <2>4. runJson'.units[u] = record
        BY <1>7, <1>12
    <2>5. InMemoryKept(runJson'.units[u], live'.units[u], lane'[u], told'[u])
        BY <1>1, <1>9, <1>12, <2>4
    <2>6. CallKept(next)'
        BY <1>1, <1>4, <1>6, <1>9, <1>12, <2>4 DEF CallKept, OfEnd
    <2>7. \A call \in Asked' :
              \/ call \in Asked /\ (OfEnd(call) \/ call.kind = "startEvent" => call.unit # u)
              \/ call.kind # "runTerminal" /\ CallKept(call)'
        BY <1>4, <1>6, <2>1, <2>6
    <2>8. lane'[u] # "done"
        BY <1>4, <1>12
    <2> QED
        BY <1>1, <1>4, <1>10, <1>11, <2>1, <2>2, <2>3, <2>5, <2>7, <2>8, LaneStepKeeps
<1>13. CASE runJson' \in {runJson, written} /\ LastCall /\ lane' = [lane EXCEPT ![u] = caught]
    <2>1. /\ durable' \in Seq(Call) /\ calls' \in Seq(Call) /\ QueuesKept'
          /\ Awaited' = Awaited
          /\ \A call \in Asked' : call \in Asked /\ ~SameCaller(call, Served)
        BY <1>1, <1>5, <1>13, LastCallKeeps
    <2>2. /\ lane' \in [Unit -> LanePc] /\ lane'[u] = caught /\ caught # "done"
          /\ \A v \in Unit : v # u => lane'[v] = lane[v]
        BY <1>4, <1>5, <1>13 DEF LanePc, caught
    <2>3. CoordinatorTypeOK'
        BY <1>1, <1>8, <1>10, <2>1, <2>2 DEF CoordinatorInv, CoordinatorTypeOK
    <2>4. \A v \in Unit : v # u => Untouched(v)
        BY <1>1, <1>10, <2>2 DEF Untouched
    <2>5. InMemoryKept(runJson'.units[u], live'.units[u], lane'[u], told'[u])
        BY <1>1, <1>9, <1>10, <2>2
    <2>6. \A call \in Asked' :
              call \in Asked /\ (OfEnd(call) \/ call.kind = "startEvent" => call.unit # u)
        BY <1>4, <2>1
    <2> QED
        BY <1>1, <1>4, <1>10, <1>11, <2>1, <2>2, <2>3, <2>4, <2>5, <2>6, LaneStepKeeps
<1> QED
    BY <1>8, <1>12, <1>13

LEMMA ServeFinishEventKeeps ==
    ASSUME CoordinatorInv, ServeFinishEvent PROVE CoordinatorInv'
<1>1. /\ calls # <<>> /\ Served.kind = "finishEvent" /\ LastCall
      /\ runJson' = runJson /\ active' = active /\ timer' = timer /\ main' = main
      /\ told' = told /\ runEnd' = runEnd
      /\ children' = children /\ resumed' = resumed /\ resumes' = resumes
    BY DEF ServeFinishEvent, Serving, Served, CallFails
<1>2. OfEnd(Served)
    BY <1>1 DEF OfEnd
<1>3. PICK u : u = For
    OBVIOUS
<1>4. /\ u \in Unit /\ Served \in Call /\ Served.record \in UnitRecord /\ Served.last \in BOOLEAN
      /\ Served.unit = u
      /\ lane[u] = IF Served.last THEN "failEnding" ELSE "ending"
      /\ active /\ main \notin {"final", "over", "dead"}
      /\ EndKept(Served, runJson.units[u], live.units[u], lane[u], told[u])
      /\ OnDiskKept(runJson.units[u], told[u])
      /\ InMemoryKept(runJson.units[u], live.units[u], lane[u], told[u])
      /\ \A write \in Awaited :
            write.kind \in {"start", "session", "established"} => write.unit # u
      /\ \A call \in Asked : ~SameCaller(call, Served) =>
            (OfEnd(call) \/ call.kind = "startEvent" => call.unit # u)
    BY <1>1, <1>2, <1>3, EndIsFirst
<1>5. /\ durable \in Seq(Call) /\ calls \in Seq(Call) /\ QueuesKept
      /\ runJson \in RunRecord /\ live \in RunRecord /\ faults \in Nat
      /\ lane \in [Unit -> LanePc] /\ ended \in [Unit -> Terminal \cup {"none"}]
      /\ runJson.units[u] \in UnitRecord /\ live.units[u] \in UnitRecord /\ told[u] \in Nat
    BY <1>4, Typed DEF CoordinatorInv, CoordinatorTypeOK
<1> DEFINE record == Served.record
           status == Served.record.status
           caught == IF Served.last THEN "lost" ELSE "failing"
<1>6. status \in Terminal
    BY <1>4 DEF EndKept
<1>7. /\ InMemoryKept(runJson.units[u], record, "done", told[u])
      /\ InMemoryKept(runJson.units[u], runJson.units[u], caught, told[u])
    BY <1>1, <1>4, <1>5, EndTold
<1>8. /\ faults' \in Nat
      /\ \/ /\ ended' = [ended EXCEPT ![u] = status]
            /\ live' = [live EXCEPT !.units[u] = record]
            /\ lane' = [lane EXCEPT ![u] = "done"]
         \/ /\ live' = [live EXCEPT !.units[u] = runJson.units[u]]
            /\ lane' = [lane EXCEPT ![u] = caught]
            /\ ended' \in {ended, [ended EXCEPT ![u] = status]}
    BY <1>3, <1>4, <1>5 DEF ServeFinishEvent, CallFails, Caught, LaneGoes
<1>9. /\ durable' \in Seq(Call) /\ calls' \in Seq(Call) /\ QueuesKept'
      /\ Awaited' = Awaited
      /\ \A call \in Asked' : call \in Asked /\ ~SameCaller(call, Served)
    BY <1>1, <1>5, LastCallKeeps
<1>10. \A call \in Asked' :
           call \in Asked /\ (OfEnd(call) \/ call.kind = "startEvent" => call.unit # u)
    BY <1>4, <1>9
<1>11. /\ ended' \in [Unit -> Terminal \cup {"none"}]
       /\ \A v \in Unit : v # u => ended'[v] = ended[v]
    BY <1>4, <1>5, <1>6, <1>8
<1>12. caught \in LanePc /\ caught # "done" /\ "done" \in LanePc
    BY <1>4 DEF LanePc
<1> HIDE DEF record, status, caught
<1>13. PICK unit, to :
          /\ live' = [live EXCEPT !.units[u] = unit] /\ lane' = [lane EXCEPT ![u] = to]
          /\ unit \in UnitRecord /\ to \in LanePc
          /\ InMemoryKept(runJson.units[u], unit, to, told[u])
          /\ to = "done" => ended'[u] = unit.status
    <2>1. CASE /\ ended' = [ended EXCEPT ![u] = status]
               /\ live' = [live EXCEPT !.units[u] = record]
               /\ lane' = [lane EXCEPT ![u] = "done"]
        <3>1. ended'[u] = record.status /\ record \in UnitRecord
            BY <1>4, <1>5, <2>1 DEF record, status
        <3> QED
            BY <1>7, <1>12, <2>1, <3>1
    <2>2. CASE /\ live' = [live EXCEPT !.units[u] = runJson.units[u]]
               /\ lane' = [lane EXCEPT ![u] = caught]
        BY <1>5, <1>7, <1>12, <2>2
    <2> QED
        BY <1>8, <2>1, <2>2
<1>14. /\ live' \in RunRecord /\ live'.units[u] = unit
       /\ \A v \in Unit : v # u => live'.units[v] = live.units[v]
       /\ live'.tasks = live.tasks /\ live'.delivered = live.delivered
    BY SMTT(30), <1>4, <1>5, <1>13, UnitPut
<1>15. /\ lane' \in [Unit -> LanePc] /\ lane'[u] = to
       /\ \A v \in Unit : v # u => lane'[v] = lane[v]
    BY <1>4, <1>5, <1>13
<1>16. CoordinatorTypeOK'
    BY <1>1, <1>8, <1>9, <1>11, <1>14, <1>15 DEF CoordinatorInv, CoordinatorTypeOK
<1>17. \A v \in Unit : v # u => Untouched(v)
    BY <1>1, <1>11, <1>14, <1>15 DEF Untouched
<1>18. /\ OnDiskKept(runJson'.units[u], told'[u])
       /\ InMemoryKept(runJson'.units[u], live'.units[u], lane'[u], told'[u])
       /\ lane'[u] = "done" => live'.units[u].status = ended'[u]
    BY <1>1, <1>4, <1>13, <1>14, <1>15
<1> QED
    BY <1>1, <1>4, <1>9, <1>10, <1>14, <1>16, <1>17, <1>18, LaneStepKeeps

LEMMA WithChildrenFields ==
    ASSUME NEW run \in RunRecord
    PROVE  LET all == WithChildren(run)
           IN  /\ all \in RunRecord
               /\ \A v \in Unit :
                     all.units[v] = IF v \in children /\ run.units[v].status = "absent"
                                    THEN NewUnit ELSE run.units[v]
               /\ all.status = run.status /\ all.tasks = run.tasks /\ all.delivered = run.delivered
<1>1. run.units \in [Unit -> UnitRecord] /\ NewUnit \in UnitRecord
    BY RunFields, NewUnitKept
<1> DEFINE put == [v \in Unit |-> IF v \in children /\ run.units[v].status = "absent"
                                  THEN NewUnit ELSE run.units[v]]
<1>2. put \in [Unit -> UnitRecord]
    BY <1>1
<1>3. \A v \in Unit : put[v] = IF v \in children /\ run.units[v].status = "absent"
                                THEN NewUnit ELSE run.units[v]
    OBVIOUS
<1>4. WithChildren(run) = [run EXCEPT !.units = put]
    BY DEF WithChildren
<1> HIDE DEF put
<1> QED
    BY <1>2, <1>3, <1>4 DEF RunRecord

LEMMA ServeExpandKeeps ==
    ASSUME CoordinatorInv, ServeExpand PROVE CoordinatorInv'
<1>1. /\ calls # <<>> /\ Served.kind = "expand" /\ SettleThen(<<>>)
      /\ active' = active /\ timer' = timer /\ lane' = lane
      /\ told' = told /\ ended' = ended /\ runEnd' = runEnd
      /\ children' = children /\ resumed' = resumed /\ resumes' = resumes
    BY DEF ServeExpand, Serving, Served, Settle, events
<1>2. OfQueue(Served)
    BY <1>1 DEF OfQueue, Write
<1>3. main = "expanding"
    BY <1>1, FirstCall, CallsOf, Typed DEF CoordinatorInv
<1>4. active
    BY <1>3 DEF CoordinatorInv, MainKept
<1>5. /\ durable' \in Seq(Call) /\ calls' \in Seq(Call) /\ QueuesKept'
      /\ Served = Head(durable) /\ Served \in Awaited
      /\ \A write \in Awaited' : write \in Awaited /\ (Strict(write) => write # Served)
      /\ \A call \in Asked' : \/ call.kind \in Write
                              \/ call \in Asked /\ call.kind # "startEvent"
    <2>1. Served.kind \in Write
        BY <1>1 DEF Write
    <2> QED
        BY <1>1, <1>2, <2>1, Settling
<1>6. runJson \in RunRecord /\ live \in RunRecord /\ faults \in Nat
    BY Typed DEF CoordinatorInv, CoordinatorTypeOK
<1> DEFINE onDisk == WithChildren(runJson)
           inLive == WithChildren(live)
<1>7. /\ onDisk \in RunRecord
      /\ \A v \in Unit : onDisk.units[v] = IF v \in children /\ runJson.units[v].status = "absent"
                                           THEN NewUnit ELSE runJson.units[v]
      /\ onDisk.tasks = runJson.tasks /\ onDisk.delivered = runJson.delivered
    BY <1>6, WithChildrenFields
<1>8. /\ inLive \in RunRecord
      /\ \A v \in Unit : inLive.units[v] = IF v \in children /\ live.units[v].status = "absent"
                                           THEN NewUnit ELSE live.units[v]
      /\ inLive.tasks = live.tasks /\ inLive.delivered = live.delivered
    BY <1>6, WithChildrenFields
<1>9. /\ faults' \in Nat /\ main' \in {"work", "stopped"}
      /\ \/ runJson' = onDisk /\ live' = inLive
         \/ runJson' \in {runJson, onDisk} /\ live' = live
    BY <1>6 DEF ServeExpand, WritesRecord, FailsToWrite
<1> HIDE DEF onDisk, inLive
<1>10. /\ runJson' \in RunRecord /\ live' \in RunRecord
       /\ runJson'.tasks = runJson.tasks /\ runJson'.delivered = runJson.delivered
       /\ live'.tasks = live.tasks /\ live'.delivered = live.delivered
    BY <1>6, <1>7, <1>8, <1>9
<1>11. ASSUME NEW v \in Unit
       PROVE  /\ OnDiskKept(runJson'.units[v], told[v])
              /\ InMemoryKept(runJson'.units[v], live'.units[v], lane[v], told[v])
              /\ runJson'.units[v].attempt = runJson.units[v].attempt
              /\ runJson'.units[v].session = runJson.units[v].session
              /\ live.units[v].attempts # <<>> => live'.units[v].attempts # <<>>
              /\ lane[v] = "done" => live'.units[v].status = live.units[v].status
    <2> DEFINE disk == runJson.units[v]
               mem == live.units[v]
    <2>1. /\ OnDiskKept(disk, told[v]) /\ InMemoryKept(disk, mem, lane[v], told[v])
          /\ disk \in UnitRecord /\ mem \in UnitRecord /\ told[v] \in Nat
        BY <1>4, LaneIsAt, Typed DEF CoordinatorInv
    <2>2. PICK disk2, mem2 : disk2 = runJson'.units[v] /\ mem2 = live'.units[v]
        OBVIOUS
    <2>3. NewUnit.status = "queued"
        BY NewUnitKept
    <2>4. /\ disk2 \in {disk, IF disk.status = "absent" THEN NewUnit ELSE disk}
          /\ \/ mem2 = mem
             \/ /\ mem2 = IF mem.status = "absent" THEN NewUnit ELSE mem
                /\ disk2.status # "absent"
        BY <1>7, <1>8, <1>9, <2>2, <2>3
    <2>5. lane[v] = "done" => mem.status # "absent"
        BY <2>1 DEF InMemoryKept
    <2> HIDE DEF disk, mem
    <2>6. /\ OnDiskKept(disk2, told[v])
          /\ disk2.attempt = disk.attempt /\ disk2.session = disk.session
          /\ InMemoryKept(disk2, mem2, lane[v], told[v])
          /\ mem.attempts # <<>> => mem2.attempts # <<>>
        BY <2>1, <2>4, AddedKeeps
    <2> QED
        BY <2>2, <2>4, <2>5, <2>6 DEF disk, mem
<1>12. UnitsKept' /\ TasksKept' /\ MainKept' /\ EndsKept'
    <2>1. UnitsKept'
        BY <1>1, <1>11 DEF UnitsKept
    <2>2. TasksKept'
        BY <1>1, <1>10 DEF CoordinatorInv, TasksKept
    <2>3. MainKept'
        BY <1>1, <1>4, <1>9 DEF MainKept
    <2>4. runEnd' = "none"
        BY <1>1, <1>3 DEF CoordinatorInv, EndsKept
    <2>5. EndsKept'
        BY <1>1, <1>4, <1>11, <2>4 DEF CoordinatorInv, EndsKept, EndsOnRecord
    <2> QED
        BY <2>1, <2>2, <2>3, <2>5
<1>13. CoordinatorTypeOK'
    BY <1>1, <1>5, <1>9, <1>10 DEF CoordinatorInv, CoordinatorTypeOK
<1>14. ASSUME NEW write \in Awaited'
       PROVE  write \in Awaited /\ write.kind \notin {"expand", "final"}
    <2>1. write \in Awaited /\ (Strict(write) => write # Served)
        BY <1>5
    <2>2. write.kind # "final"
        BY <1>3, <2>1 DEF CoordinatorInv, AwaitedKept
    <2>3. ASSUME write.kind = "expand" PROVE FALSE
        <3>1. write.unit = Nothing /\ Served.unit = Nothing
            BY <1>1, <1>5, <2>1, <2>3 DEF CoordinatorInv, AwaitedKept
        <3>2. write = CallFor(write.kind, write.unit) /\ Served = CallFor(Served.kind, Served.unit)
            BY <1>5, <2>1 DEF CoordinatorInv, QueuesKept
        <3> QED
            BY <1>1, <2>1, <2>3, <3>1, <3>2 DEF Strict
    <2> QED
        BY <2>1, <2>2, <2>3
<1>15. ASSUME NEW call \in Asked', call.kind \notin Write PROVE call \in Asked /\ OfEnd(call)
    <2>1. call \in Asked /\ call.kind # "startEvent"
        BY <1>5, <1>15
    <2>2. call \in Call /\ call.kind # "runTerminal"
        BY <1>3, <2>1, CallsOf, Typed DEF CoordinatorInv, Asked
    <2> QED
        BY <1>15, <2>1, <2>2 DEF OfEnd, Call
<1> QED
    BY <1>1, <1>5, <1>11, <1>12, <1>13, <1>14, <1>15, RunStepKeeps

(* The run asks for a durable write.                                       *)
LEMMA RunAskingKeeps ==
    ASSUME CoordinatorInv, NEW k,
           \/ k = "flush" /\ main' = main
           \/ k = "expand" /\ main' = "expanding" /\ main = "work" /\ AtRest
           \/ k = "final" /\ main' = "final" /\ main \in {"work", "stopped"} /\ AtRest,
           Enqueue(CallFor(k, Nothing)), timer' \in BOOLEAN,
           runJson' = runJson, live' = live, active' = active, lane' = lane,
           told' = told, ended' = ended, runEnd' = runEnd, UNCHANGED bounds
    PROVE  CoordinatorInv'
<1>1. PICK write : write = CallFor(k, Nothing)
    OBVIOUS
<1>2. /\ write \in Call /\ write.kind = k /\ write.unit = Nothing /\ k \in Write
      /\ write = CallFor(write.kind, write.unit)
    <2>1. k \in Write /\ k \in Write \cup {"startEvent", "runTerminal"}
        BY DEF Write
    <2>2. CallFor(k, Nothing) \in Call
        BY <2>1, CallForTyped
    <2>3. write.kind = k /\ write.unit = Nothing
        BY <1>1 DEF CallFor
    <2> QED
        BY <1>1, <2>1, <2>2, <2>3
<1>3. Strict(write) => write \notin Awaited
    BY <1>2 DEF CoordinatorInv, AwaitedKept, Strict
<1>4. /\ durable' \in Seq(Call) /\ calls' \in Seq(Call) /\ QueuesKept'
      /\ Awaited' = Awaited \cup {write} /\ Asked' \subseteq Asked \cup {write}
    <2>1. durable \in Seq(Call) /\ calls \in Seq(Call) /\ QueuesKept /\ Enqueue(write)
        BY <1>1, Typed DEF CoordinatorInv
    <2> QED
        BY <1>2, <1>3, <2>1, EnqueueKeeps
<1>5. CoordinatorTypeOK'
    BY <1>4 DEF CoordinatorInv, CoordinatorTypeOK, bounds
<1>6. UnitsKept' /\ TasksKept' /\ MainKept' /\ EndsKept'
    BY DEF CoordinatorInv, UnitsKept, TasksKept, MainKept, AtRest, EndsKept, EndsOnRecord
<1>7. ASSUME NEW call \in Asked, call.kind \notin Write PROVE CallKept(call)'
    <2>1. CallKept(call)
        BY DEF CoordinatorInv, AskedKept
    <2>2. CASE k = "flush"
        BY <1>2, <1>4, <2>1, <2>2 DEF CallKept
    <2>3. CASE k # "flush"
        <3>1. main \in {"work", "stopped"} /\ AtRest
            BY <2>3
        <3>2. call.kind # "runTerminal"
            BY <2>1, <3>1 DEF CallKept
        <3> QED
            BY <2>1, <3>2 DEF CallKept
    <2> QED
        BY <2>2, <2>3
<1>8. \A call \in Asked' : call.kind \in Write \/ CallKept(call)'
    BY <1>2, <1>4, <1>7
<1>9. \A other \in Awaited' :
          \/ /\ other \in Awaited
             /\ other.kind \in {"expand", "final"} => main' = main
          \/ other = write
    <2>1. \A other \in Awaited : /\ other.kind = "expand" => main = "expanding"
                                 /\ other.kind = "final" => main = "final"
        BY DEF CoordinatorInv, AwaitedKept
    <2> QED
        BY <1>4, <2>1
<1>10. \A v \in Unit : /\ runJson'.units[v].attempt = runJson.units[v].attempt
                       /\ runJson'.units[v].session = runJson.units[v].session
                       /\ live.units[v].attempts # <<>> => live'.units[v].attempts # <<>>
    OBVIOUS
<1> QED
    BY <1>2, <1>4, <1>5, <1>6, <1>8, <1>9, <1>10, RunStepKeeps

LEMMA RunAsksKeeps ==
    ASSUME CoordinatorInv, Expand \/ TimerFires \/ FinishWork
    PROVE  CoordinatorInv'
<1>0. timer \in BOOLEAN
    BY DEF CoordinatorInv, CoordinatorTypeOK
<1>1. CASE Expand
    <2>1. /\ main = "work" /\ main' = "expanding" /\ AtRest /\ Enqueue(CallFor("expand", Nothing))
          /\ runJson' = runJson /\ live' = live /\ active' = active /\ timer' = timer /\ lane' = lane
          /\ told' = told /\ ended' = ended /\ runEnd' = runEnd /\ UNCHANGED bounds
        BY <1>1 DEF Expand, memory, events
    <2> QED
        BY <1>0, <2>1, RunAskingKeeps
<1>2. CASE TimerFires
    <2>1. /\ main' = main /\ timer' = FALSE /\ Enqueue(CallFor("flush", Nothing))
          /\ runJson' = runJson /\ live' = live /\ active' = active /\ lane' = lane
          /\ told' = told /\ ended' = ended /\ runEnd' = runEnd /\ UNCHANGED bounds
        BY <1>2 DEF TimerFires, events
    <2> QED
        BY <2>1, RunAskingKeeps
<1>3. CASE FinishWork
    <2>1. /\ main \in {"work", "stopped"} /\ main' = "final" /\ AtRest
          /\ Enqueue(CallFor("final", Nothing))
          /\ runJson' = runJson /\ live' = live /\ active' = active /\ timer' = timer /\ lane' = lane
          /\ told' = told /\ ended' = ended /\ runEnd' = runEnd /\ UNCHANGED bounds
        BY <1>3 DEF FinishWork, memory, events
    <2> QED
        BY <1>0, <2>1, RunAskingKeeps
<1> QED
    BY <1>1, <1>2, <1>3

(* The timer is armed, or nothing happens.                                 *)
LEMMA NothingElseKeeps ==
    ASSUME CoordinatorInv, PersistUpdate \/ UNCHANGED coordinatorVars
    PROVE  CoordinatorInv'
<1>1. /\ runJson' = runJson /\ live' = live /\ active' = active /\ durable' = durable
      /\ calls' = calls /\ lane' = lane /\ main' = main /\ told' = told /\ ended' = ended
      /\ runEnd' = runEnd /\ UNCHANGED bounds /\ timer' \in BOOLEAN
    BY DEF CoordinatorInv, CoordinatorTypeOK, PersistUpdate, coordinatorVars, memory, queues, events
<1>2. Awaited' = Awaited /\ Asked' = Asked
    BY <1>1 DEF Awaited, Asked
<1>3. CoordinatorTypeOK' /\ QueuesKept' /\ UnitsKept' /\ TasksKept' /\ MainKept' /\ EndsKept'
    BY <1>1, <1>2 DEF CoordinatorInv, CoordinatorTypeOK, bounds, QueuesKept, UnitsKept, TasksKept,
                      MainKept, AtRest, EndsKept, EndsOnRecord
<1>4. \A call \in Asked' : CallKept(call)'
    BY <1>1, <1>2 DEF CoordinatorInv, AskedKept, CallKept
<1> QED
    BY <1>1, <1>2, <1>3, <1>4, RunStepKeeps

(* finalizeRun: the last merge, with the status of the run.                *)
LEMMA ServeFinalKeeps ==
    ASSUME CoordinatorInv, ServeFinal PROVE CoordinatorInv'
<1>1. /\ calls # <<>> /\ Served.kind = "final" /\ lane' = lane
      /\ told' = told /\ ended' = ended /\ runEnd' = runEnd
      /\ children' = children /\ resumed' = resumed /\ resumes' = resumes
    BY DEF ServeFinal, Serving, Served, events
<1>2. OfQueue(Served)
    BY <1>1 DEF OfQueue, Write
<1>3. main = "final"
    BY <1>1, FirstCall, CallsOf, Typed DEF CoordinatorInv
<1>4. active /\ AtRest
    BY <1>3 DEF CoordinatorInv, MainKept
<1>5. runJson \in RunRecord /\ live \in RunRecord /\ faults \in Nat
      /\ durable \in Seq(Call) /\ calls \in Seq(Call) /\ QueuesKept
    BY Typed DEF CoordinatorInv, CoordinatorTypeOK
<1>6. \A call \in Asked : ~OfEnd(call) /\ call.kind # "startEvent" /\ call.kind # "runTerminal"
    <2> SUFFICES ASSUME NEW call \in Asked
                 PROVE  ~OfEnd(call) /\ call.kind # "startEvent" /\ call.kind # "runTerminal"
        OBVIOUS
    <2>1. ~OfEnd(call) /\ call.kind # "startEvent"
        BY <1>4, CallsOf DEF AtRest
    <2>2. Served \in Awaited
        <3>1. Served \in Asked
            BY <1>1, <1>5, FirstCall
        <3>2. durable # <<>> /\ Served = Head(durable)
            BY <1>1, <1>5, <3>1 DEF QueuesKept, Write
        <3> QED
            BY <1>5, <3>2 DEF Awaited
    <2>3. call.kind # "runTerminal"
        BY <1>1, <2>2 DEF CoordinatorInv, AskedKept, CallKept
    <2> QED
        BY <2>1, <2>3
<1> DEFINE m == Merged(runJson, live)
           status == FinalStatus
           written == [m EXCEPT !.status = status]
           mirrored == [AfterMerge EXCEPT !.status = status]
<1>7. /\ m \in RunRecord /\ AfterMerge \in RunRecord
      /\ m.units = AfterMerge.units
      /\ \A v \in Unit : m.units[v] = MergedUnit(runJson.units[v], live.units[v])
      /\ m.tasks = runJson.tasks /\ AfterMerge.tasks = runJson.tasks
      /\ m.delivered = runJson.delivered /\ AfterMerge.delivered = runJson.delivered
    BY <1>4, MergedRun
<1>8. status \in RunStatus
    BY DEF FinalStatus, RunStatus, Terminal
<1>9. /\ faults' \in Nat
      /\ \/ /\ runJson' = written /\ live' = mirrored
            /\ durable' = Tail(durable)
            /\ calls' = Tail(calls) \o (IF Len(durable) > 1 THEN <<durable[2]>> ELSE <<>>)
                        \o <<CallFor("runTerminal", Nothing)>>
            /\ active' = active /\ timer' = timer /\ main' = main
         \/ /\ runJson' \in {runJson, written} /\ live' = AfterMerge /\ SettleThen(<<>>)
            /\ active' = FALSE /\ timer' = FALSE /\ main' = "over"
    <2>1. CASE /\ WritesRecord(written) /\ live' = mirrored
               /\ durable' = Tail(durable)
               /\ calls' = Tail(calls) \o (IF Len(durable) > 1 THEN <<durable[2]>> ELSE <<>>)
                           \o <<CallFor("runTerminal", Nothing)>>
               /\ UNCHANGED <<active, timer, main>>
        <3>1. faults' = faults /\ runJson' = written
            BY <2>1 DEF WritesRecord
        <3>2. active' = active /\ timer' = timer /\ main' = main
            BY <2>1
        <3> QED
            BY ONLY <1>5, <2>1, <3>1, <3>2
    <2>2. CASE /\ FailsToWrite(written) /\ live' = AfterMerge /\ Settle
               /\ unregisterRun /\ main' = "over"
        <3>1. faults' \in Nat /\ runJson' \in {runJson, written}
            BY <1>5, <2>2 DEF FailsToWrite
        <3>2. active' = FALSE /\ timer' = FALSE /\ SettleThen(<<>>)
            BY <2>2 DEF unregisterRun, Settle
        <3> QED
            BY ONLY <2>2, <3>1, <3>2
    <2> QED
        BY <2>1, <2>2 DEF ServeFinal
<1> HIDE DEF m, status
<1>10. /\ written \in RunRecord /\ written.units = m.units /\ written.status = status
       /\ written.tasks = m.tasks /\ written.delivered = m.delivered
    BY <1>7, <1>8 DEF RunRecord
<1>11. /\ mirrored \in RunRecord /\ mirrored.units = AfterMerge.units /\ mirrored.status = status
       /\ mirrored.tasks = AfterMerge.tasks /\ mirrored.delivered = AfterMerge.delivered
    BY <1>7, <1>8 DEF RunRecord
<1> HIDE DEF written, mirrored
<1>12. /\ runJson' \in RunRecord /\ live' \in RunRecord
       /\ runJson'.tasks = runJson.tasks /\ runJson'.delivered = runJson.delivered
       /\ live'.tasks = runJson.tasks /\ live'.delivered = runJson.delivered
       /\ live'.units = m.units /\ runJson'.units \in {runJson.units, m.units}
    BY <1>5, <1>7, <1>9, <1>10, <1>11
<1>13. \A v \in Unit : Merging(v)
    BY <1>7, <1>12 DEF Merging
<1>14. /\ UnitsKept' /\ TasksKept'
       /\ \A v \in Unit : /\ runJson'.units[v].attempt = runJson.units[v].attempt
                          /\ runJson'.units[v].session = runJson.units[v].session
                          /\ live.units[v].attempts # <<>> => live'.units[v].attempts # <<>>
                          /\ lane[v] # "idle" => live'.units[v].status = live.units[v].status
    BY <1>1, <1>4, <1>12, <1>13, MergeStepKeeps
<1>15. runEnd' = "none"
    BY <1>1, <1>3 DEF CoordinatorInv, EndsKept
<1>16. EndsKept'
    BY <1>1, <1>4, <1>14, <1>15 DEF CoordinatorInv, EndsKept, EndsOnRecord
<1>17. ASSUME NEW write \in Awaited, write # Served PROVE write.kind \notin {"expand", "final"}
    <2>1. /\ write.kind = "expand" => main = "expanding"
          /\ write.kind = "final" => write.unit = Nothing
          /\ write = CallFor(write.kind, write.unit)
        BY DEF CoordinatorInv, AwaitedKept, QueuesKept
    <2>2. Served = CallFor("final", Nothing)
        <3>1. Served \in Asked
            BY <1>1, <1>5, FirstCall
        <3>2. durable # <<>> /\ Served = Head(durable)
            BY <1>1, <1>5, <3>1 DEF QueuesKept, Write
        <3>3. Served \in Awaited
            BY <1>5, <3>2 DEF Awaited
        <3> QED
            BY <1>1, <3>3 DEF CoordinatorInv, AwaitedKept, QueuesKept
    <2> QED
        BY <1>3, <1>17, <2>1, <2>2
<1>18. CASE /\ runJson' = written /\ live' = mirrored
            /\ durable' = Tail(durable)
            /\ calls' = Tail(calls) \o (IF Len(durable) > 1 THEN <<durable[2]>> ELSE <<>>)
                        \o <<CallFor("runTerminal", Nothing)>>
            /\ active' = active /\ timer' = timer /\ main' = main
    <2>1. /\ durable' \in Seq(Call) /\ calls' \in Seq(Call) /\ QueuesKept'
          /\ \A write \in Awaited' : write \in Awaited /\ write # Served
          /\ \A call \in Asked' : \/ call.kind \in Write
                                  \/ call = CallFor("runTerminal", Nothing)
                                  \/ call \in Asked /\ ~SameCaller(call, Served)
        <3>1. \A call \in Asked : call.kind # "runTerminal"
            BY <1>6
        <3> QED
            BY <1>1, <1>5, <1>18, <3>1, FinalKeeps
    <2>2. MainKept'
        BY <1>1, <1>18 DEF CoordinatorInv, MainKept, AtRest
    <2>3. CoordinatorTypeOK'
        BY <1>1, <1>9, <1>12, <1>18, <2>1 DEF CoordinatorInv, CoordinatorTypeOK
    <2>4. PICK end : end = CallFor("runTerminal", Nothing)
        OBVIOUS
    <2>5. CallKept(end)'
        <3>1. end.kind = "runTerminal"
            BY <2>4 DEF CallFor
        <3>2. runJson'.status = live'.status /\ runJson'.units = live'.units
            BY <1>7, <1>10, <1>11, <1>18
        <3>3. \A write \in Awaited' : write.kind # "final"
            BY <1>17, <2>1
        <3> QED
            BY <1>3, <1>18, <3>1, <3>2, <3>3 DEF CallKept, OfEnd
    <2>6. ASSUME NEW call \in Asked, ~SameCaller(call, Served) PROVE FALSE
        <3>1. call \in Call /\ ~OfQueue(call)
            BY <1>2, <1>5, <2>6 DEF Asked, SameCaller
        <3> QED
            BY <1>6, <3>1 DEF OfQueue, OfEnd, Call
    <2>7. \A call \in Asked' : call.kind \in Write \/ CallKept(call)'
        BY <2>1, <2>4, <2>5, <2>6
    <2> QED
        BY <1>1, <1>14, <1>16, <1>17, <1>18, <2>1, <2>2, <2>3, <2>7, RunStepKeeps
<1>19. CASE /\ runJson' \in {runJson, written} /\ live' = AfterMerge /\ SettleThen(<<>>)
            /\ active' = FALSE /\ timer' = FALSE /\ main' = "over"
    <2>1. /\ durable' \in Seq(Call) /\ calls' \in Seq(Call) /\ QueuesKept'
          /\ \A write \in Awaited' : write \in Awaited /\ (Strict(write) => write # Served)
          /\ \A call \in Asked' : \/ call.kind \in Write
                                  \/ call \in Asked /\ call.kind # "startEvent"
        <3>1. Served.kind \in Write
            BY <1>1 DEF Write
        <3> QED
            BY <1>1, <1>2, <1>19, <3>1, Settling
    <2>2. MainKept'
        BY <1>1, <1>4, <1>19 DEF MainKept, AtRest
    <2>3. CoordinatorTypeOK'
        BY <1>1, <1>9, <1>12, <1>19, <2>1 DEF CoordinatorInv, CoordinatorTypeOK
    <2>4. \A write \in Awaited' : write \in Awaited /\ write.kind \notin {"expand", "final"}
        BY <1>17, <2>1 DEF Strict
    <2>5. ASSUME NEW call \in Asked', call.kind \notin Write PROVE FALSE
        <3>1. call \in Asked /\ call \in Call
            BY <1>5, <2>1, <2>5 DEF Asked
        <3> QED
            BY <1>6, <2>5, <3>1 DEF OfEnd, Call
    <2> QED
        BY <1>1, <1>14, <1>16, <2>1, <2>2, <2>3, <2>4, <2>5, RunStepKeeps
<1> QED
    BY <1>9, <1>18, <1>19

(* run_terminal is in the log, or not, and the run is over.                *)
LEMMA ServeRunTerminalKeeps ==
    ASSUME CoordinatorInv, ServeRunTerminal PROVE CoordinatorInv'
<1>1. /\ calls # <<>> /\ Served.kind = "runTerminal" /\ LastCall
      /\ active' = FALSE /\ timer' = FALSE /\ main' = "over"
      /\ live' = live /\ lane' = lane /\ told' = told /\ ended' = ended
      /\ children' = children /\ resumed' = resumed /\ resumes' = resumes
    BY DEF ServeRunTerminal, Serving, Served, unregisterRun
<1>2. /\ durable \in Seq(Call) /\ calls \in Seq(Call) /\ QueuesKept /\ faults \in Nat
      /\ live.status \in RunStatus
    BY Typed DEF CoordinatorInv, CoordinatorTypeOK
<1>3. /\ runJson' = runJson /\ faults' \in Nat /\ runEnd' \in {"none", live.status}
    BY <1>2 DEF ServeRunTerminal, CallFails
<1>4. Served \in Asked /\ CallKept(Served)
    BY <1>1, <1>2, FirstCall DEF CoordinatorInv, AskedKept
<1>5. /\ main = "final" /\ \A write \in Awaited : write.kind # "final"
      /\ runJson.status = live.status /\ runJson.units = live.units
    BY <1>1, <1>4 DEF CallKept
<1>6. active /\ AtRest
    BY <1>5 DEF CoordinatorInv, MainKept
<1>7. /\ durable' \in Seq(Call) /\ calls' \in Seq(Call) /\ QueuesKept'
      /\ Awaited' = Awaited
      /\ \A call \in Asked' : call \in Asked /\ ~SameCaller(call, Served)
    BY <1>1, <1>2, LastCallKeeps
<1>8. \A u \in Unit : lane[u] = "done" /\ ended[u] # "none" => live.units[u].status = ended[u]
    BY <1>6 DEF CoordinatorInv, EndsKept
<1>9. EndsKept'
    BY <1>1, <1>3, <1>5, <1>8 DEF EndsKept, EndsOnRecord
<1>10. UnitsKept' /\ TasksKept' /\ MainKept'
    BY <1>1, <1>3, <1>6 DEF CoordinatorInv, UnitsKept, TasksKept, MainKept, AtRest
<1>11. CoordinatorTypeOK'
    BY <1>1, <1>2, <1>3, <1>7 DEF CoordinatorInv, CoordinatorTypeOK
<1>12. \A write \in Awaited' : write \in Awaited /\ write.kind \notin {"expand", "final"}
    BY <1>5, <1>7 DEF CoordinatorInv, AwaitedKept
<1>13. \A call \in Asked' : call.kind \in Write
    <2> SUFFICES ASSUME NEW call \in Asked', call.kind \notin Write PROVE FALSE
        OBVIOUS
    <2>1. call \in Asked /\ call.kind # "runTerminal" /\ call \in Call
        BY <1>1, <1>2, <1>7 DEF SameCaller, Asked
    <2>2. ~OfEnd(call) /\ call.kind # "startEvent"
        BY <1>6, <2>1, CallsOf DEF AtRest
    <2> QED
        BY <2>1, <2>2 DEF OfEnd, Call
<1> QED
    BY <1>1, <1>3, <1>7, <1>9, <1>10, <1>11, <1>12, <1>13, RunStepKeeps

(* The process dies: what is left of a run is on disk.                     *)
LEMMA ProcessStopsKeeps ==
    ASSUME CoordinatorInv, ProcessStops PROVE CoordinatorInv'
<1>1. /\ main \notin {"over", "dead"} /\ main' = "dead" /\ active' = FALSE /\ timer' = FALSE
      /\ durable' = <<>> /\ calls' = <<>>
      /\ lane' = [u \in Unit |-> "idle"] /\ live' = runJson /\ runJson' = runJson
      /\ told' = told /\ ended' = ended /\ runEnd' = runEnd /\ UNCHANGED bounds
    BY DEF ProcessStops, unregisterRun, events
<1>2. Awaited' = {} /\ Asked' = {}
    BY <1>1 DEF Awaited, Asked
<1>3. durable' \in Seq(Call) /\ calls' \in Seq(Call) /\ QueuesKept'
    <2>1. durable' \in Seq(Call) /\ calls' \in Seq(Call) /\ DOMAIN durable' = {} /\ DOMAIN calls' = {}
        BY <1>1
    <2> QED
        BY <1>2, <2>1 DEF QueuesKept
<1>4. lane' \in [Unit -> LanePc] /\ AtRest'
    BY <1>1 DEF LanePc, AtRest
<1>5. CoordinatorTypeOK'
    BY <1>1, <1>3, <1>4 DEF CoordinatorInv, CoordinatorTypeOK, bounds
<1>6. UnitsKept' /\ TasksKept' /\ MainKept'
    BY <1>1, <1>4 DEF CoordinatorInv, UnitsKept, TasksKept, MainKept
<1>7. EndsKept'
    BY <1>1 DEF CoordinatorInv, EndsKept, EndsOnRecord
<1> QED
    BY <1>2, <1>3, <1>5, <1>6, <1>7 DEF CoordinatorInv, AwaitedKept, AskedKept

(* A resumption: what it may change on disk.                               *)
LEMMA ResumedFields ==
    ASSUME CoordinatorInv, NEW continued \in BOOLEAN, MayResume(continued)
    PROVE  LET r == Resumed(continued)
           IN  /\ r \in RunRecord /\ r.delivered = runJson.delivered
               /\ r.tasks \in Nat /\ r.tasks >= runJson.tasks
               /\ \A u \in Unit :
                     /\ r.units[u] \in UnitRecord /\ OnDiskKept(r.units[u], told[u])
                     /\ InMemoryKept(r.units[u], r.units[u],
                                     IF u \in Present \ Targets THEN "done" ELSE "idle", told[u])
<1>1. /\ runJson \in RunRecord /\ runJson.tasks \in Nat /\ "running" \in RunStatus
      /\ runJson.units \in [Unit -> UnitRecord] /\ told \in [Unit -> Nat]
      /\ \A u \in Unit : OnDiskKept(runJson.units[u], told[u])
    BY Typed DEF CoordinatorInv, UnitsKept, RunStatus
<1> DEFINE put == [u \in Unit |-> IF u \in Targets THEN ResumedUnit(runJson.units[u])
                                  ELSE runJson.units[u]]
           tasks == IF continued THEN runJson.tasks + 1 ELSE runJson.tasks
           r == [runJson EXCEPT !.status = "running", !.units = put, !.tasks = tasks]
<1>2. ASSUME NEW u \in Unit
      PROVE  /\ put[u] \in UnitRecord /\ OnDiskKept(put[u], told[u])
             /\ InMemoryKept(put[u], put[u],
                             IF u \in Present \ Targets THEN "done" ELSE "idle", told[u])
    <2> DEFINE disk == runJson.units[u]
    <2>1. disk \in UnitRecord /\ told[u] \in Nat /\ OnDiskKept(disk, told[u])
        BY <1>1
    <2>2. CASE u \in Targets
        <3>1. disk.status # "absent"
            BY <2>2 DEF Targets, Incomplete, Present
        <3>2. NeverStarted(disk) \/ disk.session = "prompted"
            BY <2>2 DEF MayResume
        <3>3. put[u] = ResumedUnit(disk)
            BY <2>2
        <3> QED
            BY <2>1, <2>2, <3>1, <3>2, <3>3, ResumedKeeps
    <2>3. CASE u \in Present \ Targets
        <3>1. disk.status = "completed"
            BY <2>3 DEF Targets, Incomplete, Present
        <3>2. put[u] = disk
            BY <2>3
        <3> QED
            BY <2>1, <2>3, <3>1, <3>2, LeftKeeps
    <2>4. CASE u \notin Present /\ u \notin Targets
        <3>1. disk.status = "absent"
            BY <2>4 DEF Present
        <3>2. put[u] = disk
            BY <2>4
        <3> QED
            BY <2>1, <2>4, <3>1, <3>2, LeftKeeps
    <2> QED
        BY <2>2, <2>3, <2>4
<1>3. put \in [Unit -> UnitRecord]
    BY <1>2
<1>4. tasks \in Nat /\ tasks >= runJson.tasks
    BY <1>1
<1>5. Resumed(continued) = r
    BY DEF Resumed
<1> HIDE DEF put, tasks
<1>6. /\ r \in RunRecord /\ r.delivered = runJson.delivered /\ r.tasks = tasks /\ r.units = put
    BY <1>1, <1>3, <1>4 DEF RunRecord
<1> QED
    BY <1>2, <1>4, <1>5, <1>6

LEMMA ResumeKeeps ==
    ASSUME CoordinatorInv, Resume PROVE CoordinatorInv'
<1>1. /\ main \in {"over", "dead"} /\ calls = <<>>
      /\ resumes > 0 /\ resumes' = resumes - 1 /\ resumed' = TRUE
      /\ runEnd' = "none" /\ ended' = [u \in Unit |-> "none"]
      /\ timer' = timer /\ durable' = durable /\ calls' = calls /\ told' = told
      /\ children' = children
    BY DEF Resume, queues
<1>2. PICK continued \in BOOLEAN :
           /\ MayResume(continued)
           /\ \/ /\ WritesRecord(Resumed(continued))
                 /\ live' = Resumed(continued)
                 /\ active' = TRUE
                 /\ main' = "work"
                 /\ lane' = [u \in Unit |-> IF u \in Present \ Targets THEN "done" ELSE "idle"]
              \/ /\ FailsToWrite(Resumed(continued))
                 /\ UNCHANGED <<live, active, main, lane>>
    BY DEF Resume
<1>3. ~active /\ AtRest
    BY <1>1 DEF CoordinatorInv, MainKept
<1>4. /\ faults \in Nat /\ resumes \in Nat /\ runJson \in RunRecord /\ QueuesKept
      /\ runJson.tasks \in Nat /\ \A u \in Unit : runJson.delivered[u] \in Nat
    BY Typed DEF CoordinatorInv, CoordinatorTypeOK
<1> DEFINE r == Resumed(continued)
<1>5. /\ r \in RunRecord /\ r.delivered = runJson.delivered
      /\ r.tasks \in Nat /\ r.tasks >= runJson.tasks
      /\ \A u \in Unit :
            /\ r.units[u] \in UnitRecord /\ OnDiskKept(r.units[u], told[u])
            /\ InMemoryKept(r.units[u], r.units[u],
                            IF u \in Present \ Targets THEN "done" ELSE "idle", told[u])
    BY <1>2, ResumedFields
<1>6. /\ faults' \in Nat
      /\ \/ /\ runJson' = r /\ live' = r /\ active' = TRUE /\ main' = "work"
            /\ lane' = [u \in Unit |-> IF u \in Present \ Targets THEN "done" ELSE "idle"]
         \/ /\ runJson' \in {runJson, r} /\ live' = live /\ active' = active
            /\ main' = main /\ lane' = lane
    BY <1>2, <1>4 DEF WritesRecord, FailsToWrite
<1> HIDE DEF r
<1>7. Asked' = {} /\ Awaited' = Awaited /\ QueuesKept'
    BY <1>1, <1>4 DEF Asked, Awaited, QueuesKept
<1>8. resumes' \in Nat /\ ended' \in [Unit -> Terminal \cup {"none"}] /\ resumed' \in BOOLEAN
    BY <1>1, <1>4
<1>9. EndsKept'
    BY <1>1 DEF EndsKept, EndsOnRecord
<1>10. runJson' \in RunRecord /\ \A u \in Unit : OnDiskKept(runJson'.units[u], told'[u])
    BY <1>1, <1>4, <1>5, <1>6 DEF CoordinatorInv, UnitsKept
<1>11. \A u \in Unit : runJson'.delivered[u] <= runJson'.tasks
    <2>1. \A u \in Unit : runJson.delivered[u] <= runJson.tasks
        BY DEF CoordinatorInv, TasksKept
    <2> QED
        BY <1>4, <1>5, <1>6, <2>1
<1>12. \A write \in Awaited : /\ write.kind \notin {"start", "session", "established", "expand", "final"}
                              /\ write.kind \in LaneWrites => write.unit \in Unit
    BY <1>1, <1>3 DEF CoordinatorInv, AwaitedKept, AtRest, LaneWrites
<1>13. AwaitedKept' /\ AskedKept'
    BY <1>7, <1>12 DEF AwaitedKept, AskedKept, LaneWrites
<1>14. CASE /\ runJson' = r /\ live' = r /\ active' = TRUE /\ main' = "work"
            /\ lane' = [u \in Unit |-> IF u \in Present \ Targets THEN "done" ELSE "idle"]
    <2> DEFINE at == [u \in Unit |-> IF u \in Present \ Targets THEN "done" ELSE "idle"]
    <2>1. /\ at \in [Unit -> LanePc]
          /\ \A u \in Unit : at[u] = IF u \in Present \ Targets THEN "done" ELSE "idle"
        BY DEF LanePc
    <2>2. lane' = at
        BY <1>14
    <2> HIDE DEF at
    <2>3. CoordinatorTypeOK'
        BY <1>1, <1>5, <1>6, <1>8, <1>14, <2>1, <2>2 DEF CoordinatorInv, CoordinatorTypeOK
    <2>4. UnitsKept'
        BY <1>1, <1>5, <1>10, <1>14, <2>1, <2>2 DEF UnitsKept
    <2>5. TasksKept'
        BY <1>4, <1>5, <1>11, <1>14 DEF TasksKept
    <2>6. MainKept'
        BY <1>14 DEF MainKept
    <2> QED
        BY <1>7, <1>9, <1>13, <2>3, <2>4, <2>5, <2>6 DEF CoordinatorInv
<1>15. CASE /\ runJson' \in {runJson, r} /\ live' = live /\ active' = active
            /\ main' = main /\ lane' = lane
    <2>1. CoordinatorTypeOK'
        BY <1>1, <1>6, <1>8, <1>10, <1>15 DEF CoordinatorInv, CoordinatorTypeOK
    <2>2. UnitsKept' /\ TasksKept'
        BY <1>3, <1>10, <1>11, <1>15 DEF UnitsKept, TasksKept
    <2>3. MainKept'
        BY <1>15 DEF CoordinatorInv, MainKept, AtRest
    <2> QED
        BY <1>7, <1>9, <1>13, <2>1, <2>2, <2>3 DEF CoordinatorInv
<1> QED
    BY <1>6, <1>14, <1>15

LEMMA CoordinatorStep ==
    ASSUME CoordinatorInv, [CoordinatorNext]_coordinatorVars
    PROVE  CoordinatorInv'
<1>1. CASE \E u \in Unit : Lane(u)
    BY <1>1, LaneKeeps
<1>2. CASE Serve
    BY <1>2, ServeStartKeeps, ServeStartEventKeeps, ServeSessionKeeps, ServeEstablishedKeeps,
       ServeDeliveredKeeps, ServeFinishKeeps, ServeFinishEventKeeps, ServeExpandKeeps,
       ServeFlushKeeps, ServeFinalKeeps, ServeRunTerminalKeeps DEF Serve
<1>3. CASE Expand \/ TimerFires \/ FinishWork
    BY <1>3, RunAsksKeeps
<1>4. CASE PersistUpdate \/ UNCHANGED coordinatorVars
    BY <1>4, NothingElseKeeps
<1>5. CASE ProcessStops
    BY <1>5, ProcessStopsKeeps
<1>6. CASE Resume
    BY <1>6, ResumeKeeps
<1> QED
    BY <1>1, <1>2, <1>3, <1>4, <1>5, <1>6 DEF CoordinatorNext

LEMMA CoordinatorStarts ==
    ASSUME CoordinatorInit PROVE CoordinatorInv
<1>1. PICK run \in Runs : StartsAs(run, "work")
    BY DEF CoordinatorInit
<1>2. /\ run.units \in SUBSET Unit /\ run.children \in SUBSET Unit
      /\ run.faults \in Nat /\ run.resumes \in Nat
    BY CoordinatorAssumption DEF CoordinatorAssumption
<1> DEFINE units == [u \in Unit |-> IF u \in run.units THEN NewUnit
                                    ELSE [NewUnit EXCEPT !.status = "absent"]]
           none == [u \in Unit |-> 0]
<1>3. /\ runJson = NewRun(run.units) /\ live = runJson /\ active = TRUE /\ timer = FALSE
      /\ durable = <<>> /\ calls = <<>> /\ lane = [u \in Unit |-> "idle"] /\ main = "work"
      /\ told = [u \in Unit |-> 0] /\ ended = [u \in Unit |-> "none"] /\ runEnd = "none"
      /\ children = run.children /\ resumed = FALSE /\ faults = run.faults /\ resumes = run.resumes
    BY <1>1 DEF StartsAs
<1>4. /\ units \in [Unit -> UnitRecord]
      /\ \A u \in Unit : units[u] \in {NewUnit, [NewUnit EXCEPT !.status = "absent"]}
    BY NewUnitKept
<1>5. none \in [Unit -> Nat] /\ \A u \in Unit : none[u] = 0
    OBVIOUS
<1>6. runJson = [status |-> "running", units |-> units, tasks |-> 0, delivered |-> none]
    BY <1>3 DEF NewRun
<1>7. "running" \in RunStatus
    BY DEF RunStatus
<1> HIDE DEF units, none
<1>8. /\ runJson \in RunRecord /\ runJson.units = units /\ runJson.tasks = 0
      /\ runJson.delivered = none
    BY <1>4, <1>5, <1>6, <1>7 DEF RunRecord
<1>9. lane \in [Unit -> LanePc] /\ told \in [Unit -> Nat] /\ ended \in [Unit -> Terminal \cup {"none"}]
    BY <1>3 DEF LanePc
<1>10. durable \in Seq(Call) /\ calls \in Seq(Call) /\ DOMAIN durable = {} /\ DOMAIN calls = {}
    BY <1>3
<1>11. CoordinatorTypeOK
    BY <1>2, <1>3, <1>8, <1>9, <1>10 DEF CoordinatorTypeOK
<1>12. UnitsKept
    <2> SUFFICES ASSUME NEW u \in Unit
                 PROVE  /\ OnDiskKept(runJson.units[u], told[u])
                        /\ InMemoryKept(runJson.units[u], live.units[u], lane[u], told[u])
        BY DEF UnitsKept
    <2>1. /\ told[u] = 0 /\ lane[u] = "idle" /\ live.units[u] = runJson.units[u]
        BY <1>3
    <2>2. PICK unit : unit = runJson.units[u]
        OBVIOUS
    <2>3. /\ unit \in UnitRecord /\ HistoryKept(unit) /\ unit.session = "none"
          /\ unit.attempts = <<>> /\ unit.session \in Session
        BY <1>4, <1>8, <2>2, NewUnitKept DEF Session
    <2> QED
        BY <2>1, <2>2, <2>3, Ranked DEF OnDiskKept, InMemoryKept, AtWork
<1>13. TasksKept
    BY <1>3, <1>5, <1>8 DEF TasksKept
<1>14. MainKept /\ EndsKept
    BY <1>3 DEF MainKept, EndsKept, EndsOnRecord
<1>15. QueuesKept /\ AwaitedKept /\ AskedKept
    BY <1>10 DEF QueuesKept, AwaitedKept, AskedKept, Awaited, Asked
<1> QED
    BY <1>11, <1>12, <1>13, <1>14, <1>15 DEF CoordinatorInv

LEMMA CoordinatorInvariant == CoordinatorSpec => []CoordinatorInv
    BY CoordinatorStarts, CoordinatorStep, PTL DEF CoordinatorSpec

LEMMA InvariantKeepsRecord ==
    ASSUME CoordinatorInv PROVE RecordKept
<1>1. ASSUME NEW u \in Unit
      PROVE  /\ OnDiskKept(runJson.units[u], told[u]) /\ HistoryKept(runJson.units[u])
             /\ active => InMemoryKept(runJson.units[u], live.units[u], lane[u], told[u])
             /\ runJson.units[u] \in UnitRecord /\ live.units[u] \in UnitRecord /\ told[u] \in Nat
             /\ runJson.units[u].attempt \in Nat
    BY LaneIsAt, Typed, UnitFields DEF CoordinatorInv, OnDiskKept
<1>2. LiveNotAhead
    BY <1>1 DEF LiveNotAhead, CoordinatorInv, TasksKept, InMemoryKept
<1>3. AttemptsOnRecord
    BY <1>1 DEF AttemptsOnRecord, NeverStarted, OnDiskKept, HistoryKept
<1>4. WorkOnRecord
    <2> SUFFICES ASSUME NEW u \in Unit,
                        lane[u] \in {"started", "stamped", "prompting", "working"}
                 PROVE  /\ runJson.units[u].status = "running"
                        /\ Last(runJson.units[u].attempts)
                             = [attempt |-> runJson.units[u].attempt, status |-> "running"]
        BY DEF WorkOnRecord
    <2>1. active
        BY AtRestThen
    <2>2. runJson.units[u].status = "running"
        BY <1>1, <2>1 DEF InMemoryKept, AtWork
    <2> QED
        BY <1>1, <2>2 DEF HistoryKept, Last
<1>5. AttemptsAreHistory
    BY <1>1 DEF AttemptsAreHistory, HistoryKept
<1> QED
    BY <1>2, <1>3, <1>4, <1>5 DEF RecordKept, CoordinatorInv, EndsKept

(* Memory is never ahead of run.json, which holds every attempt, the work  *)
(* that goes on and the ends that were told (run-coordinator.ts, tool.ts). *)
THEOREM RecordIsKept == CoordinatorSpec => []RecordKept
    BY CoordinatorInvariant, InvariantKeepsRecord, PTL

(* Over all crashes and resumptions the child of a unit gets the original  *)
(* prompt at most once (tool.ts, resume-inspection.ts).                    *)
THEOREM PromptedOnce == CoordinatorSpec => []OriginalPromptOnce
<1>1. CoordinatorInv => OriginalPromptOnce
    BY DEF CoordinatorInv, UnitsKept, OnDiskKept, OriginalPromptOnce
<1> QED
    BY <1>1, CoordinatorInvariant, PTL
=============================================================================
