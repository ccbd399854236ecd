------------------------- MODULE LanguageServerProofs -------------------------
(***************************************************************************)
(* Proofs about LanguageServer, for any number of edits, questions,        *)
(* toggles and deaths and for any limits of restarts and retries.          *)
(*                                                                         *)
(* ServerSafe rests on where a start and the stops are (Staged, Alone):    *)
(* no process is alive when the next is spawned (OneAlive), and each spawn *)
(* is paid for by an attempt or a crash (Counted).  ContentSafe rests on   *)
(* what the calls hold: while a call holds a text that is older than the   *)
(* file, the edit that made it so is under way (Corrected), and while the  *)
(* server has an older text, an edit is under way that will send the new   *)
(* one (Fresh).                                                            *)
(***************************************************************************)
EXTENDS LanguageServer, TLAPS

Procs == 1 .. Len(process)
Spawning == starter \in {"importing", "spawned", "initializing"}

(* Where a start and the stops are agrees with the state.                  *)
Staged ==
    /\ inst.state = "starting" => Spawning
    /\ Running => starter = "none" /\ process # <<>>
    /\ inst.state = "stopping" => Stopping
    /\ starter = "cleaning" <=> closer["cleanup"].active
    /\ starter # "none" => ~client.initialized /\ inst.attempts >= 1
    /\ inst.failure # "none" \/ inst.spent => inst.attempts >= 1
    /\ starter \in {"none", "cleaning"} /\ inst.attempts >= 1 => inst.failure # "none"
    /\ inst.attempts <= Attempts
    /\ inst.crashes > 0 => process # <<>>
    /\ toggles <= plan.toggles
    /\ plan.toggles = 0 => ~closer["toggle"].active

(* While no start begins during a stop, a stop during a start follows its  *)
(* crash.                                                                  *)
Alone ==
    ~overlap =>
    /\ starter \in {"importing", "spawned"} => inst.state = "starting" /\ ~Stopping
    /\ Spawning /\ (inst.state # "starting" \/ Stopping) => client.failed
    /\ Running => ~Stopping

(* The process runs, or the event of its crash is still to come.           *)
Heard(g) == process[g].alive \/ process[g].exit = "loud"
NoneHeard == \A g \in Procs : ~Heard(g)

ExitsDead == \A g \in Procs : process[g].exit # "none" => ~process[g].alive

OneAlive ==
    ~overlap =>
    /\ starter = "importing" => NoneHeard
    /\ starter = "spawned" =>
         \A g \in Procs : Heard(g) => process[g].alive /\ process[g].link # "open"
    /\ starter = "none" /\ ~Running /\ ~Stopping => NoneHeard
    /\ \A g \in Procs : Heard(g) => g = client.child
    /\ \A k \in Closer : closer[k].active => client.child \in {0, closer[k].child}

(* A process that is about to be spawned counts.                           *)
Spawned == Len(process) + (IF starter = "importing" THEN 1 ELSE 0)

Counted ==
    plan.toggles = 0 /\ ~overlap =>
    /\ inst.state = "stopped" /\ ~down =>
           /\ starter = "none" /\ process = <<>>
           /\ inst.attempts = 0 /\ inst.crashes = 0
    /\ inst.state \in {"starting", "error"} \/ starter # "none" =>
           Spawned <= Attempts * inst.crashes + inst.attempts
    /\ Spawned <= Attempts * inst.crashes + Attempts
    /\ Spawned <= Attempts * (MaxRestarts + 1)

(* Where a call is agrees with the rest.                                   *)
VersionPc == {"read", "sync", "open", "starting", "didOpen", "opening", "changing"}
WirePc == {"opening", "changing", "saving"}
WaitOf(kind) == CASE kind = "open" -> "opening"
                  [] kind = "change" -> "changing"
                  [] kind = "save" -> "saving"

CallSound(c) ==
    /\ call[c].pc \in {"sync", "open"} => ~down
    /\ call[c].pc \in {"starting", "asking for start"} => starter # "none"
    /\ call[c].pc = "didOpen" => Running
    /\ call[c].pc \in {"idle", "checking", "reading"} => call[c].ver = 0
    /\ call[c].pc \in VersionPc => call[c].ver >= 1
    /\ call[c].pc = "checking" => ~Edits(c)
    /\ call[c].pc \in {"sync", "changing"} => Edits(c)
CallsSound == \A c \in Caller : CallSound(c)

Entries == 1 .. Len(wire)
WireSound ==
    /\ disk >= 1
    /\ \A i \in Entries :
        /\ wire[i].to \in Procs
        /\ call[wire[i].call].pc = WaitOf(wire[i].kind)
        /\ call[wire[i].call].ver = wire[i].ver
        /\ wire[i].kind # "save" => wire[i].ver >= 1
    /\ \A i, j \in Entries : wire[i].call = wire[j].call => i = j

(* One edit is under way, and it holds the text of the file.               *)
OneEdit ==
    ~raced =>
    /\ \A c, d \in plan.edits : Active(c) /\ Active(d) => c = d
    /\ \A c \in plan.edits : call[c].pc \in VersionPc => call[c].ver = disk

Good == ~down /\ ~lost /\ ~doubled /\ ~raced /\ ~overlap

OpenRuns ==
    /\ opened /\ ~down /\ ~lost => Running
    /\ Good => \A c \in plan.edits : call[c].pc \in {"open", "didOpen"} => ~opened

Sent(e, kind) == \E i \in Entries :
    wire[i].call = e /\ wire[i].kind = kind /\ wire[i].to = client.conn
LookingPc == {"reading", "read", "sync"}
Fixing(e) == call[e].pc \in LookingPc \/ Sent(e, "change") \/ Sent(e, "open")

Fresh ==
    Good /\ opened /\ CanSend /\ process[client.conn].alive =>
        process[client.conn].doc = disk \/ \E e \in plan.edits : Fixing(e)

(* A question holds an older text with which it may open the file.         *)
StalePc == {"read", "open", "starting", "didOpen", "opening"}
Stale(t) == t \notin plan.edits /\ call[t].pc \in StalePc /\ call[t].ver # disk

ComingPc == LookingPc \cup {"open", "starting", "didOpen"}
Coming(e) == call[e].pc \in ComingPc \/ (Running /\ Sent(e, "open"))

(* The server can be sent the file, or will be without another spawn.      *)
FirstTime == /\ process = <<>>
             /\ \/ starter = "none" /\ inst.attempts = 0
                \/ starter = "importing" /\ inst.attempts = 1
Live == CanSend \/ starter \in {"spawned", "initializing"} \/ FirstTime
Corrected ==
    Good /\ Live /\ ~opened =>
        \A t \in Caller : Stale(t) => \E e \in plan.edits : Coming(e)

ServerInv == Staged /\ Alone /\ ExitsDead /\ OneAlive /\ Counted
ContentInv == /\ CallsSound /\ WireSound /\ OneEdit /\ OpenRuns /\ OpenedIsTold
              /\ Fresh /\ Corrected
LspInv == TypeOK /\ ServerInv /\ ContentInv

-----------------------------------------------------------------------------
(* Types.                                                                  *)

LEMMA BoundTypes ==
    ASSUME TypeOK
    PROVE  /\ MaxRestarts \in Nat /\ MaxRetries \in Nat
           /\ plan.edits \subseteq Caller /\ plan.tools \subseteq Caller
           /\ plan.edits \cap plan.tools = {}
           /\ plan.toggles \in Nat /\ plan.deaths \in Nat /\ plan.restarts \in BOOLEAN
    BY LanguageServerAssumption DEF TypeOK

LEMMA ProcessTypes ==
    ASSUME TypeOK
    PROVE  /\ Len(process) \in Nat
           /\ client.child \in 0 .. Len(process)
           /\ client.conn \in 0 .. Len(process)
           /\ \A g \in Procs : process[g] \in Process
    BY DEF TypeOK, Procs

(* One process changes.                                                    *)
LEMMA Replaced ==
    ASSUME TypeOK, NEW g \in Procs, NEW p \in Process,
           process' = [process EXCEPT ![g] = p]
    PROVE  /\ process' \in Seq(Process)
           /\ Len(process') = Len(process)
           /\ Procs' = Procs
           /\ process'[g] = p
           /\ \A h \in Procs : h # g => process'[h] = process[h]
    BY DEF TypeOK, Procs

(* A connection is disposed of.                                            *)
LEMMA Disposed ==
    ASSUME TypeOK, NEW s \in Seq(Process), Len(s) = Len(process), NEW g \in 0 .. Len(process)
    PROVE  /\ Dispose(s, g) \in Seq(Process)
           /\ Len(Dispose(s, g)) = Len(s)
           /\ \A h \in Procs : /\ Dispose(s, g)[h].alive = s[h].alive
                               /\ Dispose(s, g)[h].exit = s[h].exit
                               /\ Dispose(s, g)[h].doc = s[h].doc
           /\ \A h \in Procs : h # g => Dispose(s, g)[h].link = s[h].link
<1>1. CASE g = 0
    BY <1>1 DEF Dispose
<1>2. CASE g # 0
    <2> DEFINE p == [s[g] EXCEPT !.link = "disposed", !.closing = FALSE]
    <2>1. g \in 1 .. Len(s) /\ s[g] \in Process
        BY <1>2, ProcessTypes
    <2>2. /\ p \in Process
          /\ p.alive = s[g].alive /\ p.exit = s[g].exit /\ p.doc = s[g].doc
        BY <2>1 DEF Process
    <2>3. Dispose(s, g) = [s EXCEPT ![g] = p]
        BY <1>2 DEF Dispose
    <2> HIDE DEF p
    <2> QED
        BY <2>1, <2>2, <2>3 DEF Procs
<1> QED
    BY <1>1, <1>2

(* client.stop has discarded a connection and a process.                   *)
LEMMA DiscardedFacts ==
    ASSUME TypeOK, NEW k \in Closer
    PROVE  /\ Discarded(k) \in Seq(Process)
           /\ Len(Discarded(k)) = Len(process)
           /\ \A g \in Procs :
                /\ Discarded(k)[g].alive = (process[g].alive /\ g # closer[k].child)
                /\ Discarded(k)[g].exit = IF g = closer[k].child THEN "none" ELSE process[g].exit
                /\ Discarded(k)[g].doc = process[g].doc
<1> DEFINE p(g) == [process[g] EXCEPT
            !.link = IF g = closer[k].conn THEN "disposed" ELSE @,
            !.alive = @ /\ g # closer[k].child,
            !.exit = IF g = closer[k].child THEN "none" ELSE @,
            !.closing = @ /\ g # closer[k].conn]
<1>1. ASSUME NEW g \in Procs
      PROVE  /\ p(g) \in Process
             /\ p(g).alive = (process[g].alive /\ g # closer[k].child)
             /\ p(g).exit = IF g = closer[k].child THEN "none" ELSE process[g].exit
             /\ p(g).doc = process[g].doc
    <2>1. process[g] \in Process
        BY <1>1, ProcessTypes
    <2>2. /\ (process[g].alive /\ g # closer[k].child) \in BOOLEAN
          /\ (process[g].closing /\ g # closer[k].conn) \in BOOLEAN
        OBVIOUS
    <2>3. p(g) \in Process
        BY <2>1, <2>2 DEF Process
    <2>4. p(g).alive = (process[g].alive /\ g # closer[k].child)
        BY <2>1 DEF Process
    <2>5. p(g).exit = IF g = closer[k].child THEN "none" ELSE process[g].exit
        BY <2>1 DEF Process
    <2>6. p(g).doc = process[g].doc
        BY <2>1 DEF Process
    <2> QED
        BY <2>3, <2>4, <2>5, <2>6
<1>2. Discarded(k) = [g \in 1 .. Len(process) |-> p(g)]
    BY DEF Discarded
<1>3. \A g \in 1 .. Len(process) : p(g) \in Process
    BY <1>1 DEF Procs
<1> HIDE DEF p
<1>4. Discarded(k) \in Seq(Process) /\ Len(Discarded(k)) = Len(process)
    BY <1>2, <1>3, ProcessTypes
<1>5. \A g \in Procs : Discarded(k)[g] = p(g)
    BY <1>2 DEF Procs
<1> QED
    BY <1>1, <1>4, <1>5

(* Only one call moves.                                                    *)
LEMMA WentTo ==
    ASSUME TypeOK, NEW c \in Caller, NEW pc, Goto(c, pc)
    PROVE  /\ call'[c].pc = pc /\ call'[c].ver = call[c].ver
           /\ call'[c].to = call[c].to /\ call'[c].tries = call[c].tries
           /\ \A d \in Caller : d # c => call'[d] = call[d]
    BY DEF TypeOK, Goto

CallPc == {"idle", "done"} \cup Ready \cup Waiting
LEMMA GotoTypes ==
    ASSUME TypeOK, NEW c \in Caller, NEW pc \in CallPc, Goto(c, pc)
    PROVE  call' \in [Caller -> [pc : CallPc, ver : Nat, to : Nat, tries : 0 .. MaxRetries]]
    BY DEF TypeOK, Goto, CallPc

(* What a step leaves alone keeps its type.                                *)
RestTypes ==
    /\ opened \in BOOLEAN /\ down \in BOOLEAN /\ disk \in Nat /\ plan \in Plans
    /\ toggles \in Nat /\ deaths \in Nat
    /\ {overlap, lost, doubled, raced} \subseteq BOOLEAN /\ unheard \subseteq Nat

LEMMA FlagTypes ==
    ASSUME TypeOK
    PROVE  /\ RestTypes
           /\ inst \in Instance /\ client \in Client
           /\ \A s \in State : OpenedAfter(s) \in BOOLEAN
           /\ CanSend \in BOOLEAN
    BY DEF TypeOK, RestTypes, OpenedAfter, CanSend, Running, Client

CallTypes == call \in [Caller -> [pc : CallPc, ver : Nat, to : Nat, tries : 0 .. MaxRetries]]
WireTypes == wire \in Seq([call : Caller, kind : {"open", "change", "save"},
                           ver : Nat, to : Nat])
CloserTypes == closer \in [Closer -> [active : BOOLEAN, conn : Nat, child : Nat]]
ServerTypes ==
    /\ inst \in Instance /\ client \in Client
    /\ process \in Seq(Process)
    /\ {client.child, client.conn} \subseteq 0 .. Len(process)
    /\ starter \in {"none", "importing", "spawned", "initializing", "cleaning"}

LEMMA TypeParts ==
    TypeOK <=> ServerTypes /\ CloserTypes /\ CallTypes /\ WireTypes /\ RestTypes
    BY DEF TypeOK, ServerTypes, CloserTypes, CallTypes, WireTypes, RestTypes, CallPc

LEMMA TypePartsNext ==
    ASSUME ServerTypes', CloserTypes', CallTypes', WireTypes', RestTypes'
    PROVE  TypeOK'
    BY DEF TypeOK, ServerTypes, CloserTypes, CallTypes, WireTypes, RestTypes, CallPc

(* A step that only moves one call.                                        *)
LEMMA OnlyTypes ==
    ASSUME TypeOK, CallTypes', Only
    PROVE  TypeOK'
<1>1. /\ UNCHANGED <<inst, client, process, starter, closer, opened, wire, disk, down>>
      /\ UNCHANGED <<plan, toggles, deaths, overlap, lost, doubled, raced, unheard>>
    BY DEF Only, server, bounds, history
<1>2. ServerTypes /\ CloserTypes /\ WireTypes /\ RestTypes
    BY TypeParts
<1>3. (ServerTypes /\ CloserTypes /\ WireTypes /\ RestTypes)'
    BY <1>1, <1>2 DEF ServerTypes, CloserTypes, WireTypes, RestTypes
<1> QED
    BY <1>3, TypePartsNext

(* A start begins; the rest is left alone but for calls and toggles.       *)
LEMMA StartTypes ==
    ASSUME TypeOK, BeginStart, CallTypes', toggles' \in Nat,
           UNCHANGED <<process, closer, opened, wire, disk, down, plan, deaths,
                       lost, doubled, raced, unheard>>
    PROVE  TypeOK'
<1>1. ServerTypes /\ CloserTypes /\ WireTypes /\ RestTypes
    BY TypeParts
<1>2. inst' \in Instance /\ client' \in Client
    <2>1. inst \in Instance /\ client \in Client
        BY <1>1 DEF ServerTypes
    <2>2. StartingInst(inst) \in Instance
        <3>1. inst.attempts + 1 \in Nat
            BY <2>1 DEF Instance
        <3> QED
            BY <2>1, <3>1 DEF StartingInst, Instance, State
    <2>3. StartingClient(client) \in Client
        BY <2>1 DEF StartingClient, Client
    <2> QED
        BY <2>2, <2>3 DEF BeginStart
<1>3. client'.child = client.child /\ client'.conn = client.conn
    BY <1>1 DEF ServerTypes, BeginStart, StartingClient, Client
<1>4. ServerTypes'
    BY <1>1, <1>2, <1>3 DEF ServerTypes, BeginStart
<1>5. overlap' \in BOOLEAN
    BY <1>1 DEF RestTypes, BeginStart, Stopping, CloserTypes, Closer
<1>6. (CloserTypes /\ WireTypes /\ RestTypes)'
    BY <1>1, <1>5 DEF CloserTypes, WireTypes, RestTypes
<1> QED
    BY <1>4, <1>6, TypePartsNext

(* The entries that a call hands to the connection.                        *)
LEMMA SendTypes ==
    ASSUME TypeOK, NEW c \in Caller, NEW kind \in {"open", "change", "save"},
           NEW pc \in CallPc, Send(c, kind, pc)
    PROVE  TypeOK'
<1>1. ServerTypes /\ CloserTypes /\ CallTypes /\ WireTypes /\ RestTypes
    BY TypeParts
<1>2. CallTypes'
    BY GotoTypes DEF Send, CallTypes
<1>3. [call |-> c, kind |-> kind, ver |-> call[c].ver, to |-> client.conn]
          \in [call : Caller, kind : {"open", "change", "save"}, ver : Nat, to : Nat]
    BY <1>1, ProcessTypes DEF CallTypes
<1>4. WireTypes'
    BY <1>1, <1>3 DEF WireTypes, Send
<1>5. /\ UNCHANGED <<inst, client, process, starter, closer, opened, disk, down>>
      /\ UNCHANGED <<plan, toggles, deaths, overlap, lost, doubled, raced, unheard>>
    BY DEF Send, server, bounds, history
<1>6. (ServerTypes /\ CloserTypes /\ RestTypes)'
    BY <1>1, <1>5 DEF ServerTypes, CloserTypes, RestTypes
<1> QED
    BY <1>2, <1>4, <1>6, TypePartsNext

(* The instance and the client of each step.                               *)
LEMMA RecordTypes ==
    ASSUME TypeOK
    PROVE  /\ RunningInst(inst) \in Instance
           /\ [client EXCEPT !.initialized = TRUE] \in Client
           /\ \A f \in {"retry", "permanent"} : FailedInst(inst, f) \in Instance
           /\ [client EXCEPT !.stopping = TRUE] \in Client
           /\ \A s \in State : [inst EXCEPT !.state = s] \in Instance
           /\ CrashedInst \in Instance /\ CrashedClient \in Client
           /\ StartingInst(CrashedInst) \in Instance
           /\ StartingClient(CrashedClient) \in Client
           /\ \A k \in Closer, f \in BOOLEAN : StoppedClient(k, f) \in Client
<1>1. inst \in Instance /\ client \in Client
    BY DEF TypeOK
<1>2. inst.crashes + 1 \in Nat /\ inst.attempts + 1 \in Nat
    BY <1>1 DEF Instance
<1>3. RunningInst(inst) \in Instance
    BY <1>1 DEF Instance, RunningInst, State
<1>4. \A f \in {"retry", "permanent"} : FailedInst(inst, f) \in Instance
    BY <1>1 DEF Instance, FailedInst, State
<1>5. \A s \in State : [inst EXCEPT !.state = s] \in Instance
    BY <1>1 DEF Instance
<1>6. CrashedInst \in Instance /\ CrashedInst.attempts = inst.attempts
    BY <1>1, <1>2 DEF Instance, CrashedInst, State
<1>7. StartingInst(CrashedInst) \in Instance
    BY <1>2, <1>6 DEF Instance, StartingInst, State
<1>8. CrashedClient \in Client
    BY <1>1 DEF Client, CrashedClient
<1>9. StartingClient(CrashedClient) \in Client
    BY <1>8 DEF Client, StartingClient
<1>10. \A k \in Closer, f \in BOOLEAN : StoppedClient(k, f) \in Client
    BY <1>1 DEF Client, StoppedClient
<1>11. /\ [client EXCEPT !.initialized = TRUE] \in Client
       /\ [client EXCEPT !.stopping = TRUE] \in Client
    BY <1>1 DEF Client
<1> QED
    BY <1>3, <1>4, <1>5, <1>6, <1>7, <1>8, <1>9, <1>10, <1>11

LEMMA BeginStopTypes ==
    ASSUME TypeOK, NEW k \in Closer, BeginStop(k)
    PROVE  CloserTypes'
    BY ProcessTypes DEF TypeOK, BeginStop, CloserTypes

LEMMA EndStopTypes ==
    ASSUME TypeOK, NEW k \in Closer, closer' = [closer EXCEPT ![k] = Idle]
    PROVE  CloserTypes'
    BY DEF TypeOK, Idle, CloserTypes

(* The calls that wait for a start go on together.                         *)
LEMMA WaitersGoOn ==
    ASSUME TypeOK
    PROVE  \A c \in Caller :
             /\ Resumed(c) \in [pc : CallPc, ver : Nat, to : Nat, tries : 0 .. MaxRetries]
             /\ Disappointed(c) \in [pc : CallPc, ver : Nat, to : Nat, tries : 0 .. MaxRetries]
             /\ Resumed(c).ver = call[c].ver /\ Disappointed(c).ver = call[c].ver
<1> SUFFICES ASSUME NEW c \in Caller
             PROVE  /\ Resumed(c) \in [pc : CallPc, ver : Nat, to : Nat, tries : 0 .. MaxRetries]
                    /\ Disappointed(c) \in [pc : CallPc, ver : Nat, to : Nat, tries : 0 .. MaxRetries]
                    /\ Resumed(c).ver = call[c].ver /\ Disappointed(c).ver = call[c].ver
    OBVIOUS
<1>1. call[c] \in [pc : CallPc, ver : Nat, to : Nat, tries : 0 .. MaxRetries]
    BY DEF TypeOK, CallPc
<1>2. AfterOpen(c) \in CallPc /\ {"didOpen", "request", "done"} \subseteq CallPc
    BY DEF AfterOpen, CallPc, Ready
<1>3. \A x \in CallPc : [call[c] EXCEPT !.pc = x]
                           \in [pc : CallPc, ver : Nat, to : Nat, tries : 0 .. MaxRetries]
    BY <1>1
<1>4. \A x \in CallPc : [call[c] EXCEPT !.pc = x].ver = call[c].ver
    BY <1>1
<1>5. CASE call[c].pc = "starting"
    BY <1>2, <1>3, <1>4, <1>5 DEF Resumed, Disappointed
<1>6. CASE call[c].pc = "asking for start"
    BY <1>2, <1>3, <1>4, <1>6 DEF Resumed, Disappointed
<1>7. CASE call[c].pc \notin {"starting", "asking for start"}
    BY <1>1, <1>7 DEF Resumed, Disappointed
<1> QED
    BY <1>5, <1>6, <1>7

(* What Spawn adds.                                                        *)
NewProcess == [alive |-> TRUE, exit |-> "none", closing |-> FALSE, link |-> "none", doc |-> 0]

LEMMA SpawnFacts ==
    ASSUME TypeOK, Spawn
    PROVE  /\ process' \in Seq(Process)
           /\ Len(process') = Len(process) + 1
           /\ \A g \in Procs : process'[g] = process[g]
           /\ process'[Len(process) + 1] = NewProcess
           /\ client' = [client EXCEPT !.child = Len(process) + 1]
           /\ client' \in Client
<1>1. NewProcess \in Process /\ process' = Append(process, NewProcess)
    BY DEF NewProcess, Process, Spawn
<1>2. process \in Seq(Process) /\ client \in Client
    BY DEF TypeOK
<1>3. /\ process' \in Seq(Process) /\ Len(process') = Len(process) + 1
      /\ process'[Len(process) + 1] = NewProcess
    BY <1>1, <1>2
<1>4. \A g \in Procs : process'[g] = process[g]
    BY <1>1, <1>2 DEF Procs
<1>5. client' = [client EXCEPT !.child = Len(process) + 1] /\ Len(process) + 1 \in Nat
    BY <1>2, <1>3 DEF Spawn
<1> QED
    BY <1>2, <1>3, <1>4, <1>5 DEF Client

LEMMA ConnectFacts ==
    ASSUME TypeOK, Connect
    PROVE  /\ process' \in Seq(Process)
           /\ Len(process') = Len(process)
           /\ Procs' = Procs
           /\ \A g \in Procs : /\ process'[g].alive = process[g].alive
                               /\ process'[g].exit = process[g].exit
                               /\ process'[g].doc = process[g].doc
           /\ client' = [client EXCEPT !.conn = client.child]
           /\ client' \in Client
<1> DEFINE p == [process[client.child] EXCEPT !.link = "open"]
<1>1. client.child \in Procs /\ process[client.child] \in Process
    BY ProcessTypes DEF Connect, Procs
<1>2. /\ p \in Process
      /\ p.alive = process[client.child].alive /\ p.exit = process[client.child].exit
      /\ p.doc = process[client.child].doc
    BY <1>1 DEF Process
<1>3. process' = [process EXCEPT ![client.child] = p]
    BY DEF Connect
<1> HIDE DEF p
<1>4. /\ process' \in Seq(Process) /\ Len(process') = Len(process) /\ Procs' = Procs
      /\ process'[client.child] = p
      /\ \A h \in Procs : h # client.child => process'[h] = process[h]
    BY <1>1, <1>2, <1>3, Replaced
<1>5. client' = [client EXCEPT !.conn = client.child] /\ client' \in Client
    BY DEF Connect, TypeOK, Client
<1> QED
    BY <1>2, <1>4, <1>5

LEMMA DiesFacts ==
    ASSUME TypeOK, NEW g \in Procs, NEW exit \in {"loud", "quiet"}, Dies(g, exit)
    PROVE  /\ process' \in Seq(Process)
           /\ Len(process') = Len(process)
           /\ Procs' = Procs
           /\ process[g].alive /\ process[g].link = "open"
           /\ ~process'[g].alive /\ process'[g].exit = exit
           /\ process'[g].doc = process[g].doc
           /\ \A h \in Procs : h # g => process'[h] = process[h]
<1> DEFINE p == [process[g] EXCEPT !.alive = FALSE, !.exit = exit, !.closing = TRUE]
<1>1. process[g] \in Process
    BY ProcessTypes
<1>2. p \in Process /\ ~p.alive /\ p.exit = exit /\ p.doc = process[g].doc
    BY <1>1 DEF Process
<1>3. process' = [process EXCEPT ![g] = p] /\ process[g].alive /\ process[g].link = "open"
    BY DEF Dies
<1> HIDE DEF p
<1> QED
    BY <1>2, <1>3, Replaced

LEMMA CloseFacts ==
    ASSUME TypeOK, NEW g \in Procs, CloseEvent(g)
    PROVE  /\ process' \in Seq(Process)
           /\ Len(process') = Len(process)
           /\ Procs' = Procs
           /\ \A h \in Procs : /\ process'[h].alive = process[h].alive
                               /\ process'[h].exit = process[h].exit
                               /\ process'[h].doc = process[h].doc
           /\ \A h \in Procs : process'[h].link \in {process[h].link, "closed"}
           /\ client' \in Client
           /\ client'.child = client.child /\ client'.conn = client.conn
           /\ client'.initialized => client.initialized
           /\ client.failed => client'.failed
<1> DEFINE p == [process[g] EXCEPT !.closing = FALSE, !.link = "closed"]
<1>1. process[g] \in Process /\ client \in Client
    BY ProcessTypes DEF TypeOK
<1>2. /\ p \in Process /\ p.alive = process[g].alive /\ p.exit = process[g].exit
      /\ p.doc = process[g].doc /\ p.link = "closed"
    BY <1>1 DEF Process
<1>3. process' = [process EXCEPT ![g] = p]
    BY DEF CloseEvent
<1> HIDE DEF p
<1>4. /\ process' \in Seq(Process) /\ Len(process') = Len(process) /\ Procs' = Procs
      /\ process'[g] = p
      /\ \A h \in Procs : h # g => process'[h] = process[h]
    BY <1>2, <1>3, Replaced
<1>5. /\ client' \in Client
      /\ client'.child = client.child /\ client'.conn = client.conn
      /\ client'.initialized => client.initialized
      /\ client.failed => client'.failed
    BY <1>1 DEF CloseEvent, Client
<1> QED
    BY <1>2, <1>4, <1>5

LEMMA ExitFacts ==
    ASSUME TypeOK, NEW g \in Procs, ExitEvent(g)
    PROVE  /\ process' \in Seq(Process)
           /\ Len(process') = Len(process)
           /\ Procs' = Procs
           /\ process[g].exit = "loud"
           /\ \A h \in Procs : /\ process'[h].alive = process[h].alive
                               /\ process'[h].exit = IF h = g THEN "none" ELSE process[h].exit
                               /\ process'[h].doc = process[h].doc
           /\ \A h \in Procs : process'[h].link \in {process[h].link, "disposed"}
<1> DEFINE p == [process[g] EXCEPT !.exit = "none"]
           handled == [process EXCEPT ![g] = p]
<1>1. process[g] \in Process /\ client.conn \in 0 .. Len(process)
    BY ProcessTypes
<1>2. /\ p \in Process /\ p.alive = process[g].alive /\ p.exit = "none"
      /\ p.doc = process[g].doc /\ p.link = process[g].link
    BY <1>1 DEF Process
<1>3. process[g].exit = "loud" /\ process' \in {handled, Dispose(handled, client.conn)}
    BY DEF ExitEvent
<1> HIDE DEF p
<1>4. /\ handled \in Seq(Process) /\ Len(handled) = Len(process)
      /\ handled[g] = p
      /\ \A h \in Procs : h # g => handled[h] = process[h]
    BY <1>2 DEF TypeOK, Procs
<1> HIDE DEF handled
<1> DEFINE d == Dispose(handled, client.conn)
<1>5. /\ d \in Seq(Process) /\ Len(d) = Len(process)
      /\ \A h \in Procs : /\ d[h].alive = handled[h].alive
                          /\ d[h].exit = handled[h].exit
                          /\ d[h].doc = handled[h].doc
      /\ \A h \in Procs : h # client.conn => d[h].link = handled[h].link
    BY <1>1, <1>4, Disposed
<1>6. \A h \in Procs : d[h].link \in {handled[h].link, "disposed"}
    <2>1. CASE client.conn = 0
        BY <2>1 DEF Dispose
    <2>2. CASE client.conn # 0
        <3>1. client.conn \in Procs /\ handled[client.conn] \in Process
            BY <1>1, <1>4, <2>2 DEF Procs
        <3>2. d = [handled EXCEPT ![client.conn] =
                       [handled[client.conn] EXCEPT !.link = "disposed", !.closing = FALSE]]
            BY <2>2 DEF Dispose
        <3> DEFINE q == [handled[client.conn] EXCEPT !.link = "disposed", !.closing = FALSE]
        <3>3. q.link = "disposed"
            BY <3>1 DEF Process
        <3>4. client.conn \in DOMAIN handled
            BY <1>4, <3>1 DEF Procs
        <3> HIDE DEF q
        <3>5. d[client.conn] = q
            BY <3>2, <3>4 DEF q
        <3> QED
            BY <1>5, <3>3, <3>5
    <2> QED
        BY <2>1, <2>2
<1> HIDE DEF d
<1>7. process' = handled \/ process' = d
    BY <1>3 DEF d
<1>8. CASE process' = handled
    BY <1>2, <1>3, <1>4, <1>8 DEF Procs
<1>9. CASE process' = d
    BY <1>2, <1>3, <1>4, <1>5, <1>6, <1>9 DEF Procs
<1> QED
    BY <1>7, <1>8, <1>9


Told(w) == Written(w) /\ w.kind # "save"
LEMMA WriteFacts ==
    ASSUME TypeOK, WireSound, WriteEnds, NEW w, w = Head(wire)
    PROVE  /\ wire # <<>> /\ w.to \in Procs /\ w.call \in Caller
           /\ w.kind \in {"open", "change", "save"} /\ w.ver \in Nat
           /\ w = wire[1] /\ Entries # {}
           /\ process' \in Seq(Process)
           /\ Len(process') = Len(process)
           /\ Procs' = Procs
           /\ \A h \in Procs :
                /\ process'[h].alive = process[h].alive
                /\ process'[h].exit = process[h].exit
                /\ process'[h].doc = IF h = w.to /\ Told(w) THEN w.ver ELSE process[h].doc
                /\ process'[h].link \in {process[h].link, "disposed"}
<1>1. wire # <<>> /\ process' = AfterWrite(w)
    BY DEF WriteEnds
<1> DEFINE T == [call : Caller, kind : {"open", "change", "save"}, ver : Nat, to : Nat]
<1>2. Len(wire) \in Nat /\ Len(wire) > 0 /\ w = wire[1] /\ w \in T
    <2>1. wire \in Seq(T)
        BY DEF TypeOK
    <2> HIDE DEF T
    <2> QED
        BY <1>1, <2>1
<1>3. 1 \in Entries /\ w.to \in Procs
    BY <1>2 DEF Entries, WireSound
<1>4. /\ process \in Seq(Process) /\ Len(process) \in Nat
      /\ client.conn \in 0 .. Len(process) /\ process[w.to] \in Process
    BY <1>3, ProcessTypes DEF TypeOK
<1>5. /\ w.call \in Caller /\ w.kind \in {"open", "change", "save"} /\ w.ver \in Nat
    BY <1>2
<1>6. CASE Written(w)
    <2> DEFINE doc == IF w.kind = "save" THEN process[w.to].doc ELSE w.ver
               p == [process[w.to] EXCEPT !.doc = doc]
    <2>1. /\ p \in Process /\ p.alive = process[w.to].alive /\ p.exit = process[w.to].exit
          /\ p.link = process[w.to].link /\ p.doc = doc
        BY <1>4, <1>5 DEF Process
    <2>2. process' = [process EXCEPT ![w.to] = p]
        BY <1>1, <1>6 DEF AfterWrite
    <2> HIDE DEF p
    <2>3. /\ process' \in Seq(Process) /\ Len(process') = Len(process) /\ Procs' = Procs
          /\ process'[w.to] = p
          /\ \A h \in Procs : h # w.to => process'[h] = process[h]
        BY <1>3, <2>1, <2>2, Replaced
    <2> QED
        BY <1>1, <1>2, <1>3, <1>5, <1>6, <2>1, <2>3 DEF Told
<1>7. CASE ~Written(w) /\ process' = process
    BY <1>1, <1>2, <1>3, <1>4, <1>5, <1>7 DEF Told, Procs
<1>8. CASE ~Written(w) /\ process' # process
    <2>1. process' = Dispose(process, client.conn)
        BY <1>1, <1>8 DEF AfterWrite
    <2>2. client.conn # 0
        BY <1>8, <2>1 DEF Dispose
    <2> DEFINE p == [process[client.conn] EXCEPT !.link = "disposed", !.closing = FALSE]
    <2>3. client.conn \in Procs /\ process[client.conn] \in Process
        BY <1>4, <2>2, ProcessTypes DEF Procs
    <2>4. /\ p \in Process /\ p.alive = process[client.conn].alive
          /\ p.exit = process[client.conn].exit
          /\ p.link = "disposed" /\ p.doc = process[client.conn].doc
        BY <2>3 DEF Process
    <2>5. process' = [process EXCEPT ![client.conn] = p]
        BY <2>1, <2>2 DEF Dispose
    <2> HIDE DEF p
    <2>6. /\ process' \in Seq(Process) /\ Len(process') = Len(process) /\ Procs' = Procs
          /\ process'[client.conn] = p
          /\ \A h \in Procs : h # client.conn => process'[h] = process[h]
        BY <2>3, <2>4, <2>5, Replaced
    <2> QED
        BY <1>1, <1>2, <1>3, <1>5, <1>8, <2>4, <2>6 DEF Told
<1> QED
    BY <1>6, <1>7, <1>8

(* client.stop is over.                                                    *)
LEMMA StopFacts ==
    ASSUME TypeOK, NEW k \in Closer, StopEnds(k)
    PROVE  /\ closer[k].active
           /\ process' \in Seq(Process)
           /\ Len(process') = Len(process)
           /\ Procs' = Procs
           /\ \A g \in Procs :
                /\ process'[g].alive = (process[g].alive /\ g # closer[k].child)
                /\ process'[g].exit = IF g = closer[k].child THEN "none" ELSE process[g].exit
                /\ process'[g].doc = process[g].doc
           /\ client' \in Client
           /\ client'.child = IF client.child = closer[k].child THEN 0 ELSE client.child
           /\ client'.conn = IF client.conn = closer[k].conn THEN 0 ELSE client.conn
           /\ ~client'.initialized
           /\ client.failed => client'.failed
           /\ closer' = [closer EXCEPT ![k] = Idle]
           /\ ~closer'[k].active
           /\ \A j \in Closer : j # k => closer'[j] = closer[j]
           /\ UNCHANGED <<wire, disk, plan, toggles, deaths, overlap, lost, doubled, raced, unheard>>
<1>1. /\ closer[k].active /\ process' = Discarded(k)
      /\ closer' = [closer EXCEPT ![k] = Idle]
      /\ UNCHANGED <<wire, disk, plan, toggles, deaths, overlap, lost, doubled, raced, unheard>>
    BY DEF StopEnds, bounds, history
<1>2. PICK f \in BOOLEAN : client' = StoppedClient(k, f)
    BY DEF StopEnds, StopOutcome
<1>3. client' \in Client
    BY <1>2, RecordTypes
<1>4. /\ client'.child = IF client.child = closer[k].child THEN 0 ELSE client.child
      /\ client'.conn = IF client.conn = closer[k].conn THEN 0 ELSE client.conn
      /\ ~client'.initialized
      /\ client.failed => client'.failed
    BY <1>2 DEF StoppedClient
<1>5. ~closer'[k].active /\ \A j \in Closer : j # k => closer'[j] = closer[j]
    BY <1>1 DEF TypeOK, Idle
<1> QED
    BY <1>1, <1>3, <1>4, <1>5, DiscardedFacts DEF Procs

LEMMA ServerTypesNext ==
    ASSUME TypeOK, process' \in Seq(Process), Len(process') >= Len(process),
           inst' \in Instance, client' \in Client,
           starter' \in {"none", "importing", "spawned", "initializing", "cleaning"},
           client'.child \in 0 .. Len(process'), client'.conn \in 0 .. Len(process')
    PROVE  ServerTypes'
    BY DEF ServerTypes

(* Every step keeps the types.                                             *)
LEMMA ServerTypeStep ==
    ASSUME TypeOK, WireSound,
           Starts \/ Stops \/ Events \/ Initialized \/ WriteTaken \/ ToggleStops
              \/ ToggleStarts \/ ShutdownStops \/ ShutdownSkips \/ Deaths
    PROVE  TypeOK'
<1>0. /\ ServerTypes /\ CloserTypes /\ CallTypes /\ WireTypes /\ RestTypes
      /\ process \in Seq(Process) /\ Len(process) \in Nat
      /\ inst \in Instance /\ client \in Client
      /\ client.child \in 0 .. Len(process) /\ client.conn \in 0 .. Len(process)
      /\ starter \in {"none", "importing", "spawned", "initializing", "cleaning"}
      /\ \A s \in State : OpenedAfter(s) \in BOOLEAN
    BY TypeParts, FlagTypes, ProcessTypes DEF ServerTypes
<1>1. CASE Spawn
    <2>1. ServerTypes'
        <3>1. client'.child = Len(process) + 1 /\ client'.conn = client.conn
            BY <1>0, <1>1, SpawnFacts DEF Client
        <3> QED
            BY <1>0, <1>1, <3>1, SpawnFacts, ServerTypesNext DEF Spawn
    <2>2. /\ UNCHANGED <<closer, call, wire, opened, down, disk, plan, toggles, deaths>>
          /\ UNCHANGED <<overlap, lost, doubled, unheard>> /\ raced' \in BOOLEAN
        BY <1>0, <1>1 DEF Spawn, files, bounds, RestTypes
    <2>3. (CloserTypes /\ CallTypes /\ WireTypes /\ RestTypes)'
        BY <1>0, <2>2 DEF CloserTypes, CallTypes, WireTypes, RestTypes
    <2> QED
        BY <2>1, <2>3, TypePartsNext
<1>2. CASE Connect
    <2>1. ServerTypes'
        <3>1. client'.child = client.child /\ client'.conn = client.child
            BY <1>0, <1>2, ConnectFacts DEF Client
        <3> QED
            BY <1>0, <1>2, <3>1, ConnectFacts, ServerTypesNext DEF Connect
    <2>2. UNCHANGED <<closer, call, wire, opened, down, disk, plan, toggles, deaths,
                      overlap, lost, doubled, unheard, raced>>
        BY <1>2 DEF Connect, files, bounds, history
    <2>3. (CloserTypes /\ CallTypes /\ WireTypes /\ RestTypes)'
        BY <1>0, <2>2 DEF CloserTypes, CallTypes, WireTypes, RestTypes
    <2> QED
        BY <2>1, <2>3, TypePartsNext
<1>3. CASE Initialized
    <2>1. ServerTypes'
        <3>1. client'.child = client.child /\ client'.conn = client.conn
            BY <1>0, <1>3 DEF Initialized, Client
        <3> QED
            BY <1>0, <1>3, <3>1, RecordTypes, ServerTypesNext DEF Initialized
    <2>2. UNCHANGED <<closer, wire, opened, down, disk, plan, toggles, deaths,
                      overlap, lost, doubled, unheard, raced>>
        BY <1>3 DEF Initialized, bounds, history
    <2>3. CallTypes'
        BY <1>3, WaitersGoOn DEF CallTypes, Initialized
    <2>4. (CloserTypes /\ WireTypes /\ RestTypes)'
        BY <1>0, <2>2 DEF CloserTypes, WireTypes, RestTypes
    <2> QED
        BY <2>1, <2>3, <2>4, TypePartsNext
<1>4. ASSUME NEW failure \in {"retry", "permanent"}, StartFails(failure) PROVE TypeOK'
    <2>1. ServerTypes'
        <3>1. client'.child = client.child /\ client'.conn = client.conn
            BY <1>0, <1>4 DEF StartFails, Client
        <3> QED
            BY <1>0, <1>4, <3>1, RecordTypes, ServerTypesNext DEF StartFails
    <2>2. UNCHANGED <<call, wire, down, disk, plan, toggles, deaths,
                      overlap, lost, doubled, unheard, raced>>
        BY <1>4 DEF StartFails, bounds, history
    <2>3. CloserTypes' /\ opened' \in BOOLEAN
        BY <1>0, <1>4, BeginStopTypes DEF StartFails, Closer, State
    <2>4. (CallTypes /\ WireTypes /\ RestTypes)'
        BY <1>0, <2>2, <2>3 DEF CallTypes, WireTypes, RestTypes
    <2> QED
        BY <2>1, <2>3, <2>4, TypePartsNext
<1>5. ASSUME NEW k \in {"toggle", "shutdown"}, StopInst(k), toggles' \in Nat,
             UNCHANGED <<process, starter, wire, call, disk, down, plan, deaths,
                         overlap, lost, doubled, unheard, raced>>
      PROVE  TypeOK'
    <2>1. ServerTypes'
        <3>1. client'.child = client.child /\ client'.conn = client.conn
            BY <1>0, <1>5 DEF StopInst, Client
        <3> QED
            BY <1>0, <1>5, <3>1, RecordTypes, ServerTypesNext DEF StopInst, State
    <2>2. CloserTypes' /\ opened' \in BOOLEAN
        BY <1>0, <1>5, BeginStopTypes DEF StopInst, Closer, State
    <2>3. (CallTypes /\ WireTypes /\ RestTypes)'
        BY <1>0, <1>5, <2>2 DEF CallTypes, WireTypes, RestTypes
    <2> QED
        BY <2>1, <2>2, <2>3, TypePartsNext
<1>6. CASE ToggleStops
    BY <1>0, <1>5, <1>6 DEF ToggleStops, history, RestTypes
<1>7. CASE ShutdownStops
    BY <1>0, <1>5, <1>7 DEF ShutdownStops, history, bounds, RestTypes
<1>8. CASE ToggleStarts
    BY <1>0, <1>8, StartTypes DEF ToggleStarts, files, RestTypes, CallTypes
<1>9. CASE ShutdownSkips
    <2>1. /\ UNCHANGED <<inst, client, process, starter, closer, call, wire, disk>>
          /\ UNCHANGED <<plan, toggles, deaths, overlap, lost, doubled, unheard, raced>>
          /\ opened' = FALSE /\ down' = TRUE
        BY <1>9 DEF ShutdownSkips, server, bounds, history
    <2>2. (ServerTypes /\ CloserTypes /\ CallTypes /\ WireTypes /\ RestTypes)'
        BY <1>0, <2>1 DEF ServerTypes, CloserTypes, CallTypes, WireTypes, RestTypes
    <2> QED
        BY <2>2, TypePartsNext
<1>10. ASSUME NEW k \in Closer, StopEnds(k), inst' \in Instance, opened' \in BOOLEAN,
              down' \in BOOLEAN, CallTypes', starter' \in {starter, "none"}
       PROVE  TypeOK'
    <2>1. /\ ServerTypes' /\ CloserTypes'
        BY <1>0, <1>10, StopFacts, EndStopTypes, ServerTypesNext
    <2>2. (WireTypes /\ RestTypes)'
        BY <1>0, <1>10, StopFacts DEF WireTypes, RestTypes
    <2> QED
        BY <1>10, <2>1, <2>2, TypePartsNext
<1>11. CASE CleanupEnds
    <2>1. CallTypes'
        BY <1>11, WaitersGoOn DEF CallTypes, CleanupEnds
    <2> QED
        BY <1>0, <1>10, <1>11, <2>1 DEF CleanupEnds, Closer, RestTypes
<1>12. CASE ToggleEnds
    BY <1>0, <1>10, <1>12, RecordTypes DEF ToggleEnds, Closer, RestTypes, CallTypes, State
<1>13. CASE ShutdownEnds
    BY <1>0, <1>10, <1>13, RecordTypes DEF ShutdownEnds, Closer, RestTypes, CallTypes, State
<1>14. ASSUME NEW g \in Procs, NEW exit \in {"loud", "quiet"}, Dies(g, exit) PROVE TypeOK'
    <2>1. /\ UNCHANGED <<inst, client, starter, closer, opened, wire, call, disk, down>>
          /\ UNCHANGED <<plan, toggles, overlap, lost, doubled, raced>>
          /\ deaths' \in Nat /\ unheard' \subseteq Nat
        BY <1>0, <1>14 DEF Dies, files, RestTypes, Procs
    <2>2. ServerTypes'
        BY <1>0, <1>14, <2>1, DiesFacts, ServerTypesNext
    <2>3. (CloserTypes /\ CallTypes /\ WireTypes /\ RestTypes)'
        BY <1>0, <2>1 DEF CloserTypes, CallTypes, WireTypes, RestTypes
    <2> QED
        BY <2>2, <2>3, TypePartsNext
<1>15. ASSUME NEW g \in Procs, CloseEvent(g) PROVE TypeOK'
    <2>1. /\ UNCHANGED <<inst, starter, closer, opened, wire, call, disk, down>>
          /\ UNCHANGED <<plan, toggles, deaths, overlap, lost, doubled, raced, unheard>>
        BY <1>15 DEF CloseEvent, files, bounds, history
    <2>2. ServerTypes'
        BY <1>0, <1>15, <2>1, CloseFacts, ServerTypesNext
    <2>3. (CloserTypes /\ CallTypes /\ WireTypes /\ RestTypes)'
        BY <1>0, <2>1 DEF CloserTypes, CallTypes, WireTypes, RestTypes
    <2> QED
        BY <2>2, <2>3, TypePartsNext
<1>16. ASSUME NEW g \in Procs, ExitEvent(g) PROVE TypeOK'
    <2>1. /\ UNCHANGED <<closer, wire, call, disk, down>>
          /\ UNCHANGED <<plan, toggles, deaths, lost, doubled, raced>>
        BY <1>16 DEF ExitEvent, bounds
    <2>2. /\ inst' \in {inst, CrashedInst, StartingInst(CrashedInst)}
          /\ client' \in {client, CrashedClient, StartingClient(CrashedClient)}
          /\ starter' \in {starter, "importing"} /\ opened' \in {opened, OpenedAfter("error")}
          /\ overlap' \in {overlap, overlap \/ Stopping}
        BY <1>16 DEF ExitEvent
    <2>3. client'.child = client.child /\ client'.conn = client.conn
        BY <1>0, <2>2 DEF CrashedClient, StartingClient, Client
    <2>4. inst' \in Instance /\ client' \in Client
        BY <1>0, <2>2, RecordTypes
    <2>5. opened' \in BOOLEAN /\ overlap' \in BOOLEAN /\ unheard' \subseteq Nat
        <3>1. unheard' \in {unheard, unheard \cup {g}} /\ g \in Nat
            BY <1>0, <1>16 DEF ExitEvent, Procs
        <3> QED
            BY <1>0, <2>2, <3>1 DEF RestTypes, State
    <2>6. ServerTypes'
        BY <1>0, <1>16, <2>2, <2>3, <2>4, ExitFacts, ServerTypesNext
    <2>7. (CloserTypes /\ CallTypes /\ WireTypes /\ RestTypes)'
        BY <1>0, <2>1, <2>5 DEF CloserTypes, CallTypes, WireTypes, RestTypes
    <2> QED
        BY <2>6, <2>7, TypePartsNext
<1>17. CASE WriteEnds
    <2> DEFINE w == Head(wire)
    <2>1. /\ UNCHANGED <<inst, starter, closer, disk, down>>
          /\ UNCHANGED <<plan, toggles, deaths, overlap, raced, unheard>>
          /\ wire' = Tail(wire)
          /\ call' = [call EXCEPT ![w.call].pc = AfterNotification(w.call, w.kind)]
          /\ client' = [client EXCEPT !.failed = @ \/ (process' # process /\ ~Written(w))]
        BY <1>17 DEF WriteEnds, bounds
    <2>2. /\ opened' = (opened \/ w.kind = "open") /\ lost' \in BOOLEAN /\ doubled' \in BOOLEAN
        BY <1>0, <1>17 DEF WriteEnds, RestTypes
    <2>3. /\ wire # <<>> /\ w.call \in Caller /\ w.kind \in {"open", "change", "save"}
          /\ process' \in Seq(Process) /\ Len(process') = Len(process)
        BY <1>17, WriteFacts
    <2>4. AfterNotification(w.call, w.kind) \in CallPc
        BY <2>3 DEF AfterNotification, AfterOpen, CallPc, Ready
    <2>5. CallTypes'
        BY <1>0, <2>1, <2>3, <2>4 DEF CallTypes
    <2>6. /\ client' \in Client /\ client'.child = client.child /\ client'.conn = client.conn
        BY <1>0, <2>1 DEF Client
    <2>7. ServerTypes'
        BY <1>0, <2>1, <2>3, <2>6, ServerTypesNext
    <2>8. WireTypes'
        BY <1>0, <2>1, <2>3 DEF WireTypes
    <2>9. (CloserTypes /\ RestTypes)'
        BY <1>0, <2>1, <2>2 DEF CloserTypes, RestTypes
    <2> QED
        BY <2>5, <2>7, <2>8, <2>9, TypePartsNext
<1> QED
    BY <1>1, <1>2, <1>3, <1>4, <1>6, <1>7, <1>8, <1>9, <1>11, <1>12, <1>13, <1>14, <1>15,
       <1>16, <1>17 DEF Starts, Stops, Events, WriteFails, WriteTaken, Deaths, Procs

LEMMA GotoOnly ==
    ASSUME TypeOK, NEW c \in Caller, NEW pc \in CallPc, Goto(c, pc), Only
    PROVE  TypeOK'
    BY GotoTypes, OnlyTypes DEF CallTypes

LEMMA AsksOnly ==
    ASSUME TypeOK, NEW c \in Caller, NEW pc \in CallPc, Asks(c, pc), Only
    PROVE  TypeOK'
<1>1. CallTypes /\ client.conn \in Nat
    BY TypeParts, ProcessTypes
<1>2. CallTypes'
    BY <1>1 DEF Asks, CallTypes
<1> QED
    BY <1>2, OnlyTypes

LEMMA EnsureTypes ==
    ASSUME TypeOK, NEW c \in Caller, NEW w \in CallPc, NEW r \in CallPc, EnsureStarted(c, w, r)
    PROVE  TypeOK'
<1>1. CASE Only
    BY <1>1, GotoOnly DEF EnsureStarted
<1>2. CASE /\ BeginStart /\ Goto(c, w)
           /\ UNCHANGED <<process, closer, opened, wire, disk, down, bounds,
                          lost, doubled, raced, unheard>>
    <2>1. CallTypes' /\ toggles' \in Nat
        BY <1>2, GotoTypes DEF CallTypes, bounds, TypeOK
    <2> QED
        BY <1>2, <2>1, StartTypes DEF bounds
<1> QED
    BY <1>1, <1>2 DEF EnsureStarted

LEMMA CallTypeStep ==
    ASSUME TypeOK, NEW c \in Caller,
           GoesOn(c) \/ Hears(c) \/ Answered(c) \/ Modified(c) \/ Edit(c) \/ Tool(c)
    PROVE  TypeOK'
<1>0. /\ \A d \in Caller : AfterOpen(d) \in CallPc /\ AfterPull(d) \in CallPc
      /\ AfterRead(c) \in CallPc
      /\ Ready \subseteq CallPc /\ Waiting \subseteq CallPc /\ "done" \in CallPc
    BY DEF AfterOpen, AfterPull, AfterRead, CallPc, Ready, Waiting
<1>1. CASE Sync(c)
    BY <1>0, <1>1, GotoOnly, SendTypes DEF Sync, Ready, Waiting
<1>2. CASE Open(c)
    BY <1>0, <1>2, GotoOnly, EnsureTypes DEF Open, Ready, Waiting
<1>3. CASE DidOpen(c)
    BY <1>0, <1>3, GotoOnly, SendTypes DEF DidOpen, Ready, Waiting
<1>4. CASE Save(c)
    BY <1>0, <1>4, GotoOnly, SendTypes DEF Save, Ready, Waiting
<1>5. CASE Pull(c)
    BY <1>0, <1>5, GotoOnly, AsksOnly DEF Pull, Ready, Waiting
<1>6. CASE Ask(c)
    BY <1>0, <1>6, GotoOnly, EnsureTypes DEF Ask, Ready, Waiting
<1>7. CASE Request(c)
    BY <1>0, <1>7, GotoOnly, AsksOnly DEF Request, Ready, Waiting
<1>8. CASE Checked(c) \/ ReadEnds(c) \/ Answered(c) \/ Rejected(c) \/ PullTimesOut(c) \/ Tool(c)
    <2>1. \E pc \in CallPc : Goto(c, pc)
        BY <1>0, <1>8 DEF Checked, ReadEnds, Answered, Rejected, PullTimesOut, Tool, Ready, Waiting
    <2>2. Only
        BY <1>8 DEF Checked, ReadEnds, Answered, Rejected, PullTimesOut, Tool
    <2> QED
        BY <2>1, <2>2, GotoOnly
<1>9. CASE Retry(c)
    BY <1>0, <1>9, GotoOnly, AsksOnly DEF Retry, Waiting
<1>10. CASE Read(c)
    <2>1. CallTypes /\ disk \in Nat /\ "read" \in CallPc
        BY TypeParts DEF RestTypes, CallPc, Waiting
    <2>2. CallTypes'
        BY <1>10, <2>1 DEF Read, CallTypes
    <2> QED
        BY <1>10, <2>2, OnlyTypes DEF Read
<1>11. CASE Modified(c)
    <2>1. CallTypes /\ "sleeping" \in CallPc
        BY TypeParts DEF CallPc, Waiting
    <2>2. call[c].tries + 1 \in 0 .. MaxRetries
        BY <1>11, <2>1, BoundTypes DEF CallTypes, Modified
    <2>3. CallTypes'
        BY <1>11, <2>1, <2>2 DEF Modified, CallTypes
    <2> QED
        BY <1>11, <2>3, OnlyTypes DEF Modified
<1>12. CASE Edit(c)
    <2>1. /\ UNCHANGED <<inst, client, process, starter, closer, opened, wire, down>>
          /\ UNCHANGED <<plan, toggles, deaths, overlap, lost, doubled, unheard>>
          /\ Goto(c, "reading") /\ disk' = disk + 1
        BY <1>12 DEF Edit, server, bounds
    <2>2. ServerTypes /\ CloserTypes /\ WireTypes /\ RestTypes
        BY TypeParts
    <2>3. CallTypes'
        BY <1>0, <2>1, GotoTypes DEF CallTypes, Waiting
    <2>4. raced' \in BOOLEAN
        BY <1>12, <2>2 DEF Edit, RestTypes
    <2>5. (ServerTypes /\ CloserTypes /\ WireTypes)'
        BY <2>1, <2>2 DEF ServerTypes, CloserTypes, WireTypes
    <2>6. RestTypes'
        BY <2>1, <2>2, <2>4 DEF RestTypes
    <2> QED
        BY <2>3, <2>5, <2>6, TypePartsNext
<1> QED
    BY <1>1, <1>2, <1>3, <1>4, <1>5, <1>6, <1>7, <1>8, <1>9, <1>10, <1>11, <1>12
       DEF GoesOn, Hears

-----------------------------------------------------------------------------
(* The server: one process at a time, and as many as are paid for.         *)

(* A step that leaves the server alone.                                    *)
LEMMA ServerStays ==
    ASSUME ServerInv,
           UNCHANGED <<inst, client, process, starter, closer, down, plan, toggles, overlap>>
    PROVE  ServerInv'
    BY DEF ServerInv, Staged, Alone, ExitsDead, OneAlive, NoneHeard, Heard, Counted, Spawned,
           Running, Spawning, Stopping, Procs

LEMMA Times ==
    /\ Attempts \in Nat /\ Attempts >= 1 /\ Attempts >= MaxRestarts
    /\ \A n \in Nat : Attempts * n \in Nat /\ Attempts * (n + 1) = Attempts * n + Attempts
    /\ \A m, n \in Nat : m <= n => Attempts * m <= Attempts * n
    BY LanguageServerAssumption DEF Attempts

(* The attempt that begins may be made.                                    *)
LEMMA Attempted ==
    ASSUME NEW i \in Instance, ~Refuses(i), i.attempts >= 1 => i.failure # "none"
    PROVE  /\ i.attempts + 1 <= Attempts
           /\ i.state = "error" => i.crashes <= MaxRestarts
    BY LanguageServerAssumption DEF Refuses, Instance, Attempts

(* A start of a server that is not running.                                *)
LEMMA StartKeeps ==
    ASSUME TypeOK, ServerInv, BeginStart, ~Running,
           inst.state = "stopped" => ~down, toggles' \in Nat, toggles' <= toggles,
           plan.toggles = 0 => toggles' = toggles,
           UNCHANGED <<process, closer, down, plan>>
    PROVE  ServerInv'
<1>0. /\ inst \in Instance /\ client \in Client
      /\ inst.state \in State /\ inst.attempts \in Nat /\ inst.crashes \in Nat
      /\ MaxRestarts \in Nat /\ plan.toggles \in Nat /\ toggles \in Nat
      /\ Len(process) \in Nat /\ overlap \in BOOLEAN
    BY BoundTypes, ProcessTypes DEF TypeOK, Instance
<1>1. /\ starter = "none" /\ ~Refuses(inst) /\ starter' = "importing"
      /\ overlap' = (overlap \/ Stopping)
    BY DEF BeginStart, NoStartUnderWay
<1>2. /\ inst'.state = "starting" /\ inst'.attempts = inst.attempts + 1
      /\ inst'.crashes = inst.crashes /\ inst'.failure = inst.failure /\ inst'.spent = inst.spent
    BY <1>0 DEF BeginStart, StartingInst, Instance
<1>3. /\ ~client'.initialized /\ client'.child = client.child
    BY <1>0 DEF BeginStart, StartingClient, Client
<1>4. inst.attempts >= 1 => inst.failure # "none"
    BY <1>1 DEF ServerInv, Staged
<1>5. inst.attempts + 1 <= Attempts /\ (inst.state = "error" => inst.crashes <= MaxRestarts)
    BY <1>0, <1>1, <1>4, Attempted
<1>6. Staged'
    BY <1>0, <1>1, <1>2, <1>3, <1>5 DEF ServerInv, Staged, Spawning, Running, Stopping
<1>7. Alone'
    BY <1>1, <1>2 DEF Alone, Spawning, Running, Stopping
<1>8. ExitsDead'
    BY DEF ServerInv, ExitsDead, Procs
<1>9. OneAlive'
    <2> SUFFICES ASSUME ~overlap, ~Stopping PROVE OneAlive'
        BY <1>1 DEF OneAlive
    <2>1. NoneHeard
        BY <1>1 DEF ServerInv, OneAlive
    <2>2. NoneHeard'
        BY <2>1 DEF NoneHeard, Heard, Procs
    <2>3. \A k \in Closer : closer'[k].active => client'.child \in {0, closer'[k].child}
        BY <1>3 DEF ServerInv, OneAlive
    <2> QED
        BY <1>1, <2>2, <2>3 DEF OneAlive, NoneHeard
<1>10. Counted'
    <2> SUFFICES ASSUME plan.toggles = 0, ~overlap, ~Stopping PROVE Counted'
        BY <1>1 DEF Counted
    <2>1. inst.state \in {"stopped", "error"}
        BY <1>0, <1>1 DEF ServerInv, Staged, State, Running, Spawning
    <2>2. Spawned = Len(process) /\ Spawned' = Len(process) + 1
        BY <1>0, <1>1 DEF Spawned
    <2>3. inst.crashes <= MaxRestarts
        BY <1>0, <1>5, <2>1 DEF ServerInv, Counted
    <2> DEFINE paid == Attempts * inst.crashes
               most == Attempts * (MaxRestarts + 1)
               base == Attempts * MaxRestarts
    <2>4. Len(process) <= paid + inst.attempts
        <3>1. CASE inst.state = "error"
            BY <2>2, <3>1 DEF ServerInv, Counted
        <3>2. CASE inst.state = "stopped"
            <4>1. Len(process) = 0
                BY <3>2 DEF ServerInv, Counted
            <4> QED
                BY <1>0, <4>1, Times
        <3> QED
            BY <2>1, <3>1, <3>2
    <2>5. /\ paid \in Nat /\ base \in Nat /\ Attempts \in Nat
          /\ paid <= base
          /\ most = base + Attempts
        BY <1>0, <2>3, Times
    <2>6. /\ Len(process) + 1 <= paid + (inst.attempts + 1)
          /\ Len(process) + 1 <= paid + Attempts
          /\ Len(process) + 1 <= most
        <3> HIDE DEF paid, base, most
        <3> QED
            BY <1>0, <1>5, <2>4, <2>5
    <2> QED
        BY <1>2, <2>2, <2>6 DEF Counted
<1> QED
    BY <1>6, <1>7, <1>8, <1>9, <1>10 DEF ServerInv

LEMMA SpawnKeeps == ASSUME TypeOK, ServerInv, Spawn PROVE ServerInv'
<1>0. /\ client \in Client /\ Len(process) \in Nat
      /\ starter = "importing" /\ starter' = "spawned"
      /\ UNCHANGED <<inst, closer, down, plan, toggles, overlap>>
    BY ProcessTypes DEF TypeOK, Spawn, files, bounds
<1> DEFINE n == Len(process) + 1
<1>1. /\ Len(process') = Len(process) + 1
      /\ \A g \in Procs : process'[g] = process[g]
      /\ process'[n] = NewProcess
      /\ client'.child = n /\ client'.failed = client.failed
      /\ client'.initialized = client.initialized
    BY <1>0, SpawnFacts DEF Client
<1>2. \A g \in Procs' : g \in Procs \/ g = n
    BY <1>0, <1>1 DEF Procs
<1>3. Staged'
    <2>1. process' # <<>>
        BY <1>0, <1>1
    <2> QED
        BY <1>0, <1>1, <2>1 DEF ServerInv, Staged, Spawning, Running, Stopping
<1>4. Alone'
    BY <1>0, <1>1 DEF ServerInv, Alone, Spawning, Running, Stopping
<1>5. ExitsDead'
    BY <1>1, <1>2 DEF ServerInv, ExitsDead, NewProcess
<1>6. OneAlive'
    <2> SUFFICES ASSUME ~overlap PROVE OneAlive'
        BY <1>0 DEF OneAlive
    <2>1. \A g \in Procs : ~Heard(g)
        BY <1>0 DEF ServerInv, OneAlive, NoneHeard
    <2>2. \A g \in Procs' : Heard(g)' => g = n
        BY <1>1, <1>2, <2>1 DEF Heard
    <2>3. process'[n].alive /\ process'[n].link = "none"
        BY <1>1 DEF NewProcess
    <2>4. ~Stopping /\ ~closer["cleanup"].active
        BY <1>0 DEF ServerInv, Alone, Staged
    <2>5. \A k \in Closer : ~closer[k].active
        BY <2>4 DEF Stopping, Closer
    <2> QED
        BY <1>0, <1>1, <2>2, <2>3, <2>5 DEF OneAlive
<1>7. Counted'
    BY <1>0, <1>1 DEF ServerInv, Counted, Spawned
<1> QED
    BY <1>3, <1>4, <1>5, <1>6, <1>7 DEF ServerInv

LEMMA ConnectKeeps == ASSUME TypeOK, ServerInv, Connect PROVE ServerInv'
<1>0. /\ client \in Client /\ Len(process) \in Nat
      /\ starter = "spawned" /\ starter' = "initializing"
      /\ UNCHANGED <<inst, closer, down, plan, toggles, overlap>>
    BY ProcessTypes DEF TypeOK, Connect, files, bounds, history
<1>1. /\ Len(process') = Len(process) /\ Procs' = Procs
      /\ \A g \in Procs : /\ process'[g].alive = process[g].alive
                          /\ process'[g].exit = process[g].exit
      /\ client'.child = client.child /\ client'.failed = client.failed
      /\ client'.initialized = client.initialized
    BY <1>0, ConnectFacts DEF Client
<1>2. Staged'
    <2>1. process # <<>>
        BY <1>0, ProcessTypes DEF Connect
    <2>2. process' # <<>>
        BY <1>0, <1>1, <2>1, ConnectFacts DEF TypeOK
    <2> QED
        BY <1>0, <1>1, <2>2 DEF ServerInv, Staged, Spawning, Running, Stopping
<1>3. Alone'
    BY <1>0, <1>1 DEF ServerInv, Alone, Spawning, Running, Stopping
<1>4. ExitsDead'
    BY <1>1 DEF ServerInv, ExitsDead
<1>5. OneAlive'
    BY <1>0, <1>1 DEF ServerInv, OneAlive, NoneHeard, Heard
<1>6. Counted'
    <2>1. Spawned' = Spawned
        BY <1>0, <1>1 DEF Spawned
    <2>2. ~(inst.state = "stopped" /\ ~down /\ plan.toggles = 0 /\ ~overlap)
        BY <1>0 DEF ServerInv, Counted
    <2> QED
        BY <1>0, <2>1, <2>2 DEF ServerInv, Counted
<1> QED
    BY <1>2, <1>3, <1>4, <1>5, <1>6 DEF ServerInv

LEMMA InitializedKeeps == ASSUME TypeOK, ServerInv, Initialized PROVE ServerInv'
<1>0. /\ inst \in Instance /\ client \in Client /\ Len(process) \in Nat
      /\ starter = "initializing" /\ starter' = "none" /\ ~client.failed
      /\ UNCHANGED <<process, closer, down, plan, toggles, overlap>>
      /\ process # <<>>
    BY ProcessTypes DEF TypeOK, Initialized, files, bounds, history
<1>1. /\ inst'.state = "running" /\ inst'.attempts = 0 /\ inst'.failure = "none"
      /\ ~inst'.spent /\ inst'.crashes = inst.crashes
      /\ client'.child = client.child /\ inst.attempts \in Nat /\ inst.crashes \in Nat
    BY <1>0 DEF Initialized, RunningInst, Instance, Client
<1>2. Staged'
    BY <1>0, <1>1, Times DEF ServerInv, Staged, Spawning, Running, Stopping
<1>3. ~overlap => ~Stopping /\ inst.state = "starting"
    BY <1>0 DEF ServerInv, Alone, Spawning
<1>4. Alone'
    BY <1>0, <1>1, <1>3 DEF Alone, Spawning, Running, Stopping
<1>5. ExitsDead'
    BY <1>0 DEF ServerInv, ExitsDead, Procs
<1>6. OneAlive'
    BY <1>0, <1>1 DEF ServerInv, OneAlive, NoneHeard, Heard, Procs, Running
<1>7. Counted'
    BY <1>0, <1>1 DEF ServerInv, Counted, Spawned
<1> QED
    BY <1>2, <1>4, <1>5, <1>6, <1>7 DEF ServerInv

LEMMA StartFailsKeeps ==
    ASSUME TypeOK, ServerInv, NEW failure \in {"retry", "permanent"}, StartFails(failure)
    PROVE  ServerInv'
<1>0. /\ inst \in Instance /\ client \in Client /\ Len(process) \in Nat
      /\ starter \in {"importing", "spawned", "initializing"} /\ starter' = "cleaning"
      /\ UNCHANGED <<process, down, plan, toggles, overlap>>
      /\ "cleanup" \in Closer /\ "toggle" \in Closer /\ "shutdown" \in Closer
    BY ProcessTypes DEF TypeOK, StartFails, files, bounds, history, Closer
<1>1. /\ inst'.state = "error" /\ inst'.attempts = inst.attempts /\ inst'.failure = failure
      /\ inst'.crashes = inst.crashes
      /\ client'.child = client.child /\ client'.initialized = client.initialized
      /\ inst.attempts \in Nat /\ inst.crashes \in Nat
    BY <1>0 DEF StartFails, FailedInst, Instance, Client
<1>2. /\ closer'["cleanup"].active /\ closer'["cleanup"].child = client.child
      /\ \A k \in Closer : k # "cleanup" => closer'[k] = closer[k]
    BY <1>0 DEF StartFails, BeginStop, TypeOK
<1>3. Staged'
    BY <1>0, <1>1, <1>2 DEF ServerInv, Staged, Spawning, Running, Stopping
<1>4. Alone'
    BY <1>0, <1>1 DEF Alone, Spawning, Running
<1>5. ExitsDead'
    BY <1>0 DEF ServerInv, ExitsDead, Procs
<1>6. OneAlive'
    BY <1>0, <1>1, <1>2 DEF ServerInv, OneAlive, NoneHeard, Heard, Procs
<1>7. Counted'
    <2>1. Spawned' <= Spawned /\ Spawned \in Nat /\ Spawned' \in Nat
        BY <1>0 DEF Spawned
    <2>2. Attempts \in Nat /\ Attempts * inst.crashes \in Nat
        BY <1>1, Times
    <2>3. Attempts * (MaxRestarts + 1) \in Nat
        BY BoundTypes, Times
    <2> DEFINE paid == Attempts * inst.crashes
               most == Attempts * (MaxRestarts + 1)
    <2>4. plan.toggles = 0 /\ ~overlap =>
            Spawned <= paid + inst.attempts /\ Spawned <= paid + Attempts /\ Spawned <= most
        BY <1>0 DEF ServerInv, Counted
    <2>5. plan.toggles = 0 /\ ~overlap =>
            Spawned' <= paid + inst.attempts /\ Spawned' <= paid + Attempts /\ Spawned' <= most
        <3>1. paid \in Nat /\ most \in Nat
            BY <2>2, <2>3
        <3> HIDE DEF paid, most
        <3> QED
            BY <1>1, <2>1, <2>2, <2>4, <3>1
    <2> QED
        BY <1>0, <1>1, <2>5 DEF Counted
<1> QED
    BY <1>3, <1>4, <1>5, <1>6, <1>7 DEF ServerInv

LEMMA StopKeeps ==
    ASSUME TypeOK, ServerInv, NEW k \in {"toggle", "shutdown"}, StopInst(k),
           inst.state \in {"running", "error"}, k = "toggle" => plan.toggles # 0,
           toggles' \in Nat, toggles' <= toggles,
           UNCHANGED <<process, starter, down, plan, overlap>>
    PROVE  ServerInv'
<1>0. /\ inst \in Instance /\ client \in Client /\ Len(process) \in Nat
      /\ toggles \in Nat /\ plan.toggles \in Nat
      /\ k \in Closer /\ "cleanup" \in Closer /\ "toggle" \in Closer /\ "shutdown" \in Closer
    BY ProcessTypes, BoundTypes DEF TypeOK, Closer
<1>1. /\ inst'.state = "stopping" /\ inst'.attempts = inst.attempts
      /\ inst'.failure = inst.failure /\ inst'.spent = inst.spent
      /\ inst'.crashes = inst.crashes
      /\ client'.child = client.child /\ client'.initialized = client.initialized
      /\ client'.failed = client.failed
    BY <1>0 DEF StopInst, Instance, Client
<1>2. /\ closer'[k].active /\ closer'[k].child = client.child
      /\ \A j \in Closer : j # k => closer'[j] = closer[j]
    BY <1>0 DEF StopInst, BeginStop, TypeOK
<1>3. Stopping'
    BY <1>2 DEF Stopping
<1>4. Staged'
    BY <1>0, <1>1, <1>2, <1>3 DEF ServerInv, Staged, Spawning, Running
<1>5. Alone'
    BY <1>0, <1>1 DEF ServerInv, Alone, Staged, Spawning, Running
<1>6. ExitsDead'
    BY DEF ServerInv, ExitsDead, Procs
<1>7. OneAlive'
    BY <1>0, <1>1, <1>2, <1>3 DEF ServerInv, OneAlive, NoneHeard, Heard, Procs
<1>8. Counted'
    BY <1>0, <1>1 DEF ServerInv, Counted, Spawned, Staged, Running
<1> QED
    BY <1>4, <1>5, <1>6, <1>7, <1>8 DEF ServerInv

LEMMA SkipKeeps == ASSUME ServerInv, ShutdownSkips PROVE ServerInv'
<1>1. /\ UNCHANGED <<inst, client, process, starter, closer, plan, toggles, overlap>>
      /\ down'
    BY DEF ShutdownSkips, server, bounds, history
<1>2. Staged'
    BY <1>1 DEF ServerInv, Staged, Spawning, Running, Stopping
<1>3. Alone'
    BY <1>1 DEF ServerInv, Alone, Spawning, Running, Stopping
<1>4. ExitsDead'
    BY <1>1 DEF ServerInv, ExitsDead, Procs
<1>5. OneAlive'
    BY <1>1 DEF ServerInv, OneAlive, NoneHeard, Heard, Procs, Running, Stopping
<1>6. Counted'
    BY <1>1 DEF ServerInv, Counted, Spawned
<1> QED
    BY <1>2, <1>3, <1>4, <1>5, <1>6 DEF ServerInv

(* After a stop no process is left.                                        *)
LEMMA StopClears ==
    ASSUME TypeOK, ServerInv, NEW k \in Closer, StopEnds(k)
    PROVE  /\ ExitsDead'
           /\ ~overlap => NoneHeard'
           /\ ~overlap => \A j \in Closer : closer'[j].active =>
                              client'.child \in {0, closer'[j].child}
           /\ Spawned' = Len(process) + (IF starter' = "importing" THEN 1 ELSE 0)
           /\ process = <<>> <=> process' = <<>>
<1>1. ExitsDead'
    BY StopFacts DEF ServerInv, ExitsDead
<1>2. ASSUME ~overlap PROVE NoneHeard'
    <2>1. closer[k].active /\ client.child \in {0, closer[k].child}
        BY <1>2, StopFacts DEF ServerInv, OneAlive
    <2>2. \A g \in Procs : Heard(g) => g = client.child
        BY <1>2 DEF ServerInv, OneAlive
    <2>3. \A g \in Procs : g # 0
        BY DEF Procs
    <2>4. \A g \in Procs : Heard(g)' => Heard(g) /\ g # closer[k].child
        BY StopFacts DEF Heard
    <2>5. Procs' = Procs
        BY StopFacts
    <2> QED
        BY <2>1, <2>2, <2>3, <2>4, <2>5 DEF NoneHeard
<1>3. ASSUME ~overlap, NEW j \in Closer, closer'[j].active
      PROVE  client'.child \in {0, closer'[j].child}
    <2>1. j # k /\ closer'[j] = closer[j]
        BY <1>3, StopFacts
    <2>2. client.child \in {0, closer[j].child}
        BY <1>3, <2>1 DEF ServerInv, OneAlive
    <2> QED
        BY <2>1, <2>2, StopFacts
<1>4. Len(process') = Len(process) /\ (process = <<>> <=> process' = <<>>)
    BY StopFacts DEF TypeOK
<1> QED
    BY <1>1, <1>2, <1>3, <1>4 DEF Spawned

LEMMA CleanupKeeps == ASSUME TypeOK, ServerInv, CleanupEnds PROVE ServerInv'
<1>0. /\ "cleanup" \in Closer /\ "toggle" \in Closer /\ "shutdown" \in Closer
      /\ StopEnds("cleanup") /\ starter' = "none"
      /\ UNCHANGED <<inst, down>> /\ Len(process) \in Nat
      /\ inst.attempts \in Nat /\ inst.crashes \in Nat
    BY ProcessTypes DEF CleanupEnds, Closer, TypeOK, Instance
<1>1. starter = "cleaning" /\ UNCHANGED <<plan, toggles, overlap>>
    BY <1>0, StopFacts DEF ServerInv, Staged
<1>2. ~closer'["cleanup"].active /\ Stopping' = Stopping
    BY <1>0, StopFacts DEF Stopping
<1>3. Staged'
    BY <1>0, <1>1, <1>2, StopFacts, StopClears DEF ServerInv, Staged, Spawning, Running, Stopping
<1>4. Alone'
    BY <1>0, <1>1, <1>2 DEF ServerInv, Alone, Spawning, Running
<1>5. ExitsDead' /\ OneAlive'
    BY <1>0, <1>1, <1>2, StopClears DEF OneAlive, NoneHeard
<1>6. Counted'
    <2>1. Spawned' = Spawned
        BY <1>0, <1>1, StopClears DEF Spawned
    <2> QED
        BY <1>0, <1>1, <2>1 DEF ServerInv, Counted
<1> QED
    BY <1>3, <1>4, <1>5, <1>6 DEF ServerInv

LEMMA UserStopKeeps == ASSUME TypeOK, ServerInv, ToggleEnds \/ ShutdownEnds PROVE ServerInv'
<1>0. PICK k \in {"toggle", "shutdown"} :
         /\ StopEnds(k) /\ starter' = starter
         /\ inst' = [inst EXCEPT !.state = "stopped"]
         /\ k = "shutdown" => down'
    BY DEF ToggleEnds, ShutdownEnds
<1>1. /\ k \in Closer /\ "cleanup" \in Closer /\ "toggle" \in Closer /\ "shutdown" \in Closer
      /\ inst \in Instance /\ inst.attempts \in Nat /\ inst.crashes \in Nat
      /\ Len(process) \in Nat
    BY ProcessTypes DEF Closer, TypeOK, Instance
<1>2. /\ closer[k].active /\ Stopping /\ UNCHANGED <<plan, toggles, overlap>>
      /\ closer'["cleanup"] = closer["cleanup"]
      /\ ~client'.initialized /\ (client.failed => client'.failed)
    BY <1>0, <1>1, StopFacts DEF Stopping
<1>3. /\ inst'.state = "stopped" /\ inst'.attempts = inst.attempts
      /\ inst'.failure = inst.failure /\ inst'.spent = inst.spent
      /\ inst'.crashes = inst.crashes
    BY <1>0, <1>1 DEF Instance
<1>4. k = "toggle" => plan.toggles # 0
    BY <1>2 DEF ServerInv, Staged
<1>5. closer'["toggle"].active => closer["toggle"].active
    BY <1>0, <1>1, StopFacts
<1>6. Staged'
    BY <1>0, <1>1, <1>2, <1>3, <1>5, StopClears DEF ServerInv, Staged, Spawning, Running
<1>7. Alone'
    BY <1>0, <1>2, <1>3 DEF ServerInv, Alone, Spawning, Running
<1>8. ExitsDead' /\ OneAlive'
    BY <1>0, <1>1, <1>2, StopClears DEF OneAlive, NoneHeard
<1>9. Counted'
    <2>1. Spawned' = Spawned
        BY <1>0, <1>1, StopClears DEF Spawned
    <2> QED
        BY <1>0, <1>2, <1>3, <1>4, <2>1 DEF ServerInv, Counted
<1> QED
    BY <1>6, <1>7, <1>8, <1>9 DEF ServerInv

LEMMA DiesKeeps ==
    ASSUME TypeOK, ServerInv, NEW g \in Procs, NEW exit \in {"loud", "quiet"}, Dies(g, exit)
    PROVE  ServerInv'
<1>0. /\ UNCHANGED <<inst, client, starter, closer, down, plan, toggles, overlap>>
      /\ Len(process) \in Nat
    BY ProcessTypes DEF Dies, files
<1>1. \A h \in Procs : Heard(h)' => Heard(h)
    BY DiesFacts DEF Heard
<1>2. Heard(g) /\ process[g].link = "open" /\ g # 0
    BY DiesFacts DEF Heard, Procs
<1>3. (process # <<>>) = (process # <<>>)'
    BY DiesFacts DEF TypeOK
<1>4. Staged'
    BY <1>0, <1>3 DEF ServerInv, Staged, Spawning, Running, Stopping
<1>5. Alone'
    BY <1>0 DEF ServerInv, Alone, Spawning, Running, Stopping
<1>6. ExitsDead'
    BY DiesFacts DEF ServerInv, ExitsDead
<1>7. OneAlive'
    <2> SUFFICES ASSUME ~overlap PROVE OneAlive'
        BY <1>0 DEF OneAlive
    <2>1. starter \notin {"importing", "spawned"}
        BY <1>2 DEF ServerInv, OneAlive, NoneHeard
    <2>2. Procs' = Procs
        BY DiesFacts
    <2> QED
        BY <1>0, <1>1, <2>1, <2>2 DEF ServerInv, OneAlive, NoneHeard, Running, Stopping
<1>8. Counted'
    <2>1. Spawned' = Spawned
        BY <1>0, DiesFacts DEF Spawned
    <2> QED
        BY <1>0, <1>3, <2>1 DEF ServerInv, Counted
<1> QED
    BY <1>4, <1>5, <1>6, <1>7, <1>8 DEF ServerInv

(* A step that changes connections, and may give up the client's.          *)
LEMMA LinksKeep ==
    ASSUME TypeOK, ServerInv, Procs' = Procs, Len(process') = Len(process),
           process' \in Seq(Process),
           \A h \in Procs : /\ process'[h].alive = process[h].alive
                            /\ process'[h].exit \in {process[h].exit, "none"}
                            /\ process'[h].link \in {process[h].link, "closed", "disposed"},
           client'.child = client.child, client'.initialized => client.initialized,
           client.failed => client'.failed,
           UNCHANGED <<inst, starter, closer, down, plan, toggles, overlap>>
    PROVE  ServerInv'
<1>1. \A h \in Procs : Heard(h)' => Heard(h)
    BY DEF Heard
<1>2. (process # <<>>) = (process # <<>>)'
    BY DEF TypeOK
<1>3. Staged'
    BY <1>2 DEF ServerInv, Staged, Spawning, Running, Stopping
<1>4. Alone'
    BY DEF ServerInv, Alone, Spawning, Running, Stopping
<1>5. ExitsDead'
    BY DEF ServerInv, ExitsDead
<1>6. OneAlive'
    BY <1>1 DEF ServerInv, OneAlive, NoneHeard, Running, Stopping
<1>7. Counted'
    <2>1. Spawned' = Spawned
        BY DEF Spawned
    <2> QED
        BY <1>2, <2>1 DEF ServerInv, Counted
<1> QED
    BY <1>3, <1>4, <1>5, <1>6, <1>7 DEF ServerInv

LEMMA CloseKeeps == ASSUME TypeOK, ServerInv, NEW g \in Procs, CloseEvent(g) PROVE ServerInv'
<1>1. UNCHANGED <<inst, starter, closer, down, plan, toggles, overlap>>
    BY DEF CloseEvent, files, bounds, history
<1> QED
    BY <1>1, CloseFacts, LinksKeep

LEMMA WriteKeeps == ASSUME TypeOK, WireSound, ServerInv, WriteEnds PROVE ServerInv'
<1>1. UNCHANGED <<inst, starter, closer, down, plan, toggles, overlap>>
    BY DEF WriteEnds, bounds
<1>2. /\ client'.child = client.child /\ client'.initialized = client.initialized
      /\ client.failed => client'.failed
    BY DEF WriteEnds, TypeOK, Client
<1> QED
    BY <1>1, <1>2, WriteFacts, LinksKeep

LEMMA ExitKeeps == ASSUME TypeOK, ServerInv, NEW g \in Procs, ExitEvent(g) PROVE ServerInv'
<1>0. /\ UNCHANGED <<closer, down, plan, toggles>>
      /\ inst \in Instance /\ client \in Client /\ Len(process) \in Nat
      /\ inst.attempts \in Nat /\ inst.crashes \in Nat /\ inst.state \in State
      /\ MaxRestarts \in Nat /\ overlap \in BOOLEAN
    BY ProcessTypes, BoundTypes DEF ExitEvent, bounds, TypeOK, Instance
<1>1. CASE client.stopping
    <2>1. UNCHANGED <<inst, client, starter, overlap>>
        BY <1>1 DEF ExitEvent
    <2>2. \A h \in Procs : /\ process'[h].alive = process[h].alive
                           /\ process'[h].exit \in {process[h].exit, "none"}
                           /\ process'[h].link \in {process[h].link, "closed", "disposed"}
        BY ExitFacts
    <2> QED
        BY <1>0, <2>1, <2>2, ExitFacts, LinksKeep
<1>2. CASE ~client.stopping
    <2>1. /\ CrashedInst \in Instance
          /\ CrashedInst.state = "error" /\ CrashedInst.attempts = inst.attempts
          /\ CrashedInst.failure = inst.failure /\ CrashedInst.spent = inst.spent
          /\ CrashedInst.crashes = inst.crashes + 1
        BY <1>0, RecordTypes DEF CrashedInst, Instance
    <2>2. /\ CrashedClient.child = client.child /\ ~CrashedClient.initialized
          /\ CrashedClient.failed = ~client.initialized
          /\ CrashedClient \in Client
        BY <1>0, RecordTypes DEF CrashedClient, Client
    <2>3. process # <<>> /\ process' # <<>>
        BY <1>0, ExitFacts DEF Procs
    <2>4. ExitsDead'
        BY ExitFacts DEF ServerInv, ExitsDead
    <2>5. ASSUME ~overlap
          PROVE  /\ NoneHeard' /\ g = client.child
                 /\ starter \notin {"importing", "spawned"}
                 /\ starter = "none" => Running \/ Stopping
        <3>1. Heard(g) /\ ~process[g].alive /\ ~NoneHeard
            BY ExitFacts DEF ServerInv, ExitsDead, Heard, NoneHeard
        <3>2. /\ \A h \in Procs : Heard(h) => h = client.child
              /\ starter \notin {"importing", "spawned"}
              /\ starter = "none" => Running \/ Stopping
            BY <2>5, <3>1 DEF ServerInv, OneAlive
        <3>3. \A h \in Procs : ~Heard(h)'
            BY <3>1, <3>2, ExitFacts DEF Heard
        <3> QED
            BY <3>1, <3>2, <3>3, ExitFacts DEF NoneHeard
    <2>6. CASE ~Restarts(CrashedInst)
        <3>1. inst' = CrashedInst /\ client' = CrashedClient /\ UNCHANGED <<starter, overlap>>
            BY <1>2, <2>6 DEF ExitEvent
        <3>2. Staged'
            BY <1>0, <2>1, <2>2, <2>3, <3>1 DEF ServerInv, Staged, Spawning, Running, Stopping
        <3>3. Alone'
            BY <1>0, <2>1, <2>2, <2>5, <3>1 DEF ServerInv, Staged, Alone, Spawning, Running
        <3>4. OneAlive'
            BY <1>0, <2>2, <2>5, <3>1 DEF ServerInv, OneAlive, NoneHeard
        <3>5. Counted'
            <4> SUFFICES ASSUME plan.toggles = 0, ~overlap PROVE Counted'
                BY <1>0, <3>1 DEF Counted
            <4> DEFINE paid == Attempts * inst.crashes
                       then == Attempts * (inst.crashes + 1)
                       most == Attempts * (MaxRestarts + 1)
            <4>1. Spawned' = Spawned /\ Spawned \in Nat
                BY <1>0, <3>1, ExitFacts DEF Spawned
            <4>2. Spawned <= paid + Attempts /\ Spawned <= most
                BY DEF ServerInv, Counted
            <4>3. paid \in Nat /\ then = paid + Attempts /\ Attempts \in Nat
                BY <1>0, Times
            <4>4. Spawned' <= then + inst.attempts /\ Spawned' <= then + Attempts
                <5> HIDE DEF paid, then
                <5> QED
                    BY <1>0, <4>1, <4>2, <4>3
            <4> QED
                BY <1>0, <2>1, <3>1, <4>1, <4>2, <4>4 DEF Counted
        <3> QED
            BY <2>4, <3>2, <3>3, <3>4, <3>5 DEF ServerInv
    <2>7. CASE Restarts(CrashedInst)
        <3>1. /\ inst' = StartingInst(CrashedInst) /\ client' = StartingClient(CrashedClient)
              /\ starter' = "importing" /\ overlap' = (overlap \/ Stopping)
            BY <1>2, <2>7 DEF ExitEvent
        <3>2. /\ starter = "none" /\ ~Refuses(CrashedInst) /\ CrashedInst.crashes <= MaxRestarts
            BY <2>7 DEF Restarts, NoStartUnderWay
        <3>3. /\ inst'.state = "starting" /\ inst'.attempts = inst.attempts + 1
              /\ inst'.failure = inst.failure /\ inst'.spent = inst.spent
              /\ inst'.crashes = inst.crashes + 1
            BY <2>1, <3>1 DEF StartingInst, Instance
        <3>4. ~client'.initialized /\ client'.child = client.child
            BY <2>2, <3>1 DEF StartingClient, Client
        <3>5. inst.attempts + 1 <= Attempts
            <4>1. inst.attempts >= 1 => inst.failure # "none"
                BY <3>2 DEF ServerInv, Staged
            <4> QED
                BY <2>1, <3>2, <4>1, Attempted
        <3>6. Staged'
            BY <1>0, <2>3, <3>1, <3>2, <3>3, <3>4, <3>5
               DEF ServerInv, Staged, Spawning, Running, Stopping
        <3>7. Alone'
            BY <1>0, <3>1, <3>3 DEF Alone, Spawning, Running, Stopping
        <3>8. OneAlive'
            <4> SUFFICES ASSUME ~overlap, ~Stopping PROVE OneAlive'
                BY <3>1 DEF OneAlive
            <4>1. \A k \in Closer : closer[k].active => client.child \in {0, closer[k].child}
                BY DEF ServerInv, OneAlive
            <4> QED
                BY <1>0, <2>5, <3>1, <3>4, <4>1 DEF OneAlive, NoneHeard
        <3>9. Counted'
            <4> SUFFICES ASSUME plan.toggles = 0, ~overlap, ~Stopping PROVE Counted'
                BY <1>0, <3>1 DEF Counted
            <4> DEFINE paid == Attempts * inst.crashes
                       then == Attempts * (inst.crashes + 1)
                       base == Attempts * MaxRestarts
                       most == Attempts * (MaxRestarts + 1)
            <4>1. Spawned = Len(process) /\ Spawned' = Len(process) + 1
                BY <1>0, <3>1, <3>2, ExitFacts DEF Spawned
            <4>2. Len(process) <= paid + Attempts
                BY <4>1 DEF ServerInv, Counted
            <4>3. /\ paid \in Nat /\ then = paid + Attempts /\ Attempts \in Nat /\ Attempts >= 1
                  /\ base \in Nat /\ most = base + Attempts /\ then <= base
                <5>1. inst.crashes + 1 \in Nat /\ inst.crashes + 1 <= MaxRestarts
                    BY <1>0, <2>1, <3>2
                <5>2. then <= base
                    BY <1>0, <5>1, Times
                <5> QED
                    BY <1>0, <5>2, Times
            <4>4. /\ Len(process) + 1 <= then + (inst.attempts + 1)
                  /\ Len(process) + 1 <= then + Attempts
                  /\ Len(process) + 1 <= most
                <5> HIDE DEF paid, then, base, most
                <5> QED
                    BY <1>0, <4>2, <4>3
            <4> QED
                BY <1>0, <3>1, <3>3, <4>1, <4>4 DEF Counted
        <3> QED
            BY <2>4, <3>6, <3>7, <3>8, <3>9 DEF ServerInv
    <2> QED
        BY <2>6, <2>7
<1> QED
    BY <1>1, <1>2

(* The start that a call asks for.                                         *)
LEMMA EnsureKeeps ==
    ASSUME TypeOK, ServerInv, CallsSound, NEW c \in Caller, NEW w, NEW r,
           EnsureStarted(c, w, r), ~Running, ~down
    PROVE  ServerInv'
<1>1. CASE Only
    BY <1>1, ServerStays DEF Only, server, bounds, history
<1>2. CASE /\ BeginStart
           /\ UNCHANGED <<process, closer, opened, wire, disk, down, bounds,
                          lost, doubled, raced, unheard>>
    <2>1. toggles \in Nat
        BY DEF TypeOK
    <2> QED
        BY <1>2, <2>1, StartKeeps DEF bounds
<1> QED
    BY <1>1, <1>2 DEF EnsureStarted

LEMMA ServerStep ==
    ASSUME TypeOK, WireSound, CallsSound, ServerInv, Next
    PROVE  ServerInv'
<1>0. toggles \in Nat /\ plan.toggles \in Nat
    BY BoundTypes DEF TypeOK
<1>1. CASE Starts
    BY <1>1, SpawnKeeps, ConnectKeeps, StartFailsKeeps DEF Starts
<1>2. CASE Stops
    BY <1>2, CleanupKeeps, UserStopKeeps DEF Stops
<1>3. CASE Events
    BY <1>3, WriteKeeps, ExitKeeps, CloseKeeps DEF Events, WriteFails, Procs
<1>4. CASE ToggleStops
    <2>1. toggles > 0 /\ toggles <= plan.toggles
        BY <1>4 DEF ToggleStops, ServerInv, Staged
    <2>2. /\ StopInst("toggle") /\ Running /\ toggles' = toggles - 1
          /\ UNCHANGED <<process, starter, down, plan, overlap>>
        BY <1>4 DEF ToggleStops, history
    <2>3. toggles' \in Nat /\ toggles' <= toggles /\ plan.toggles # 0
        BY <1>0, <2>1, <2>2
    <2> QED
        BY <2>2, <2>3, StopKeeps DEF Running
<1>5. CASE ToggleStarts
    <2>1. /\ BeginStart /\ toggles' = toggles - 1 /\ ~down /\ ~Running
          /\ UNCHANGED <<process, closer, down, plan>>
        BY <1>5 DEF ToggleStarts, Running
    <2>2. toggles > 0 /\ toggles <= plan.toggles
        BY <1>5 DEF ToggleStarts, ServerInv, Staged
    <2>3. toggles' \in Nat /\ toggles' <= toggles /\ plan.toggles # 0
        BY <1>0, <2>1, <2>2
    <2> QED
        BY <2>1, <2>3, StartKeeps
<1>6. CASE ShutdownStops
    <2>1. /\ StopInst("shutdown") /\ inst.state \in {"running", "error"}
          /\ UNCHANGED <<process, starter, down, plan, overlap, toggles>>
        BY <1>6 DEF ShutdownStops, history, bounds
    <2> QED
        BY <1>0, <2>1, StopKeeps
<1>7. CASE ShutdownSkips
    BY <1>7, SkipKeeps
<1>8. CASE Deaths
    BY <1>8, DiesKeeps DEF Deaths, Procs
<1>9. ASSUME NEW c \in Caller,
             GoesOn(c) \/ Hears(c) \/ Answered(c) \/ Modified(c) \/ Edit(c) \/ Tool(c)
      PROVE  ServerInv'
    <2>1. CASE UNCHANGED <<inst, client, process, starter, closer, down, plan, toggles, overlap>>
        BY <2>1, ServerStays
    <2>2. ASSUME Only
          PROVE  UNCHANGED <<inst, client, process, starter, closer, down, plan, toggles, overlap>>
        BY <2>2 DEF Only, server, bounds, history
    <2>3. ASSUME NEW kind, NEW pc, Send(c, kind, pc)
          PROVE  UNCHANGED <<inst, client, process, starter, closer, down, plan, toggles, overlap>>
        BY <2>3 DEF Send, server, bounds, history
    <2>4. CASE Edit(c)
        BY <2>1, <2>4 DEF Edit, server, bounds
    <2>5. CASE Sync(c) \/ DidOpen(c) \/ Save(c) \/ Pull(c) \/ Request(c)
        BY <2>1, <2>2, <2>3, <2>5 DEF Sync, DidOpen, Save, Pull, Request
    <2>6. CASE Open(c)
        <3>1. ~down
            BY <2>6 DEF CallsSound, CallSound, Open
        <3> QED
            BY <2>1, <2>2, <2>6, <3>1, EnsureKeeps DEF Open
    <2>7. CASE Ask(c)
        BY <2>1, <2>2, <2>7, EnsureKeeps DEF Ask
    <2>8. CASE Hears(c) \/ Answered(c) \/ Modified(c) \/ Tool(c)
        BY <2>1, <2>2, <2>8 DEF Hears, Tool, Checked, Read, ReadEnds, Answered, Modified,
           Retry, Rejected, PullTimesOut
    <2> QED
        BY <1>9, <2>4, <2>5, <2>6, <2>7, <2>8 DEF GoesOn
<1>10. CASE Initialized \/ WriteTaken
    BY <1>10, InitializedKeeps, WriteKeeps DEF WriteTaken
<1> QED
    BY <1>1, <1>2, <1>3, <1>4, <1>5, <1>6, <1>7, <1>8, <1>9, <1>10
       DEF Next, Progress, Server, User

-----------------------------------------------------------------------------
(* The content.                                                            *)

LEMMA CallIs ==
    ASSUME TypeOK
    PROVE  /\ \A c \in Caller : /\ call[c].pc \in CallPc /\ call[c].ver \in Nat
           /\ \A i \in Entries : /\ wire[i].call \in Caller
                                 /\ wire[i].kind \in {"open", "change", "save"}
                                 /\ wire[i].ver \in Nat
           /\ Len(wire) \in Nat /\ plan.edits \subseteq Caller
<1>1. \A c \in Caller : /\ call[c].pc \in CallPc /\ call[c].ver \in Nat
    BY TypeParts DEF CallTypes
<1> DEFINE T == [call : Caller, kind : {"open", "change", "save"}, ver : Nat, to : Nat]
<1>2. wire \in Seq(T)
    BY TypeParts DEF WireTypes
<1>3. \A x \in T : x.call \in Caller /\ x.kind \in {"open", "change", "save"} /\ x.ver \in Nat
    OBVIOUS
<1> HIDE DEF T
<1>4. \A i \in Entries : wire[i] \in T
    BY <1>2 DEF Entries
<1>5. Len(wire) \in Nat
    BY <1>2
<1> QED
    BY <1>1, <1>3, <1>4, <1>5, BoundTypes

(* A call that waits for a write has an entry, no other has.               *)
LEMMA NoEntry ==
    ASSUME TypeOK, WireSound, NEW c \in Caller, call[c].pc \notin WirePc
    PROVE  \A i \in Entries : wire[i].call # c
    BY CallIs DEF WireSound, WaitOf, WirePc

(* One call moves; the server stays, or begins to start.                   *)
LEMMA CallMoves ==
    ASSUME TypeOK, ServerInv, ContentInv, NEW c \in Caller,
           \A d \in Caller : d # c => call'[d] = call[d],
           UNCHANGED <<process, wire, opened, disk, down, plan, lost, doubled, raced>>,
           client'.conn = client.conn, overlap => overlap', Running' = Running,
           CanSend' => CanSend, Live' => Live, starter # "none" => starter' # "none",
           CallSound(c)', call[c].pc \notin WirePc,
           c \in plan.edits /\ ~raced => /\ Active(c)' => Active(c)
                                         /\ call'[c].pc \in VersionPc => call'[c].ver = disk,
           Good' /\ c \in plan.edits /\ call'[c].pc \in {"open", "didOpen"} => ~opened,
           Good' /\ opened /\ CanSend' /\ c \in plan.edits /\ call[c].pc \in LookingPc
               => call'[c].pc \in LookingPc,
           Good' /\ Live' /\ ~opened /\ c \in plan.edits /\ call[c].pc \in ComingPc
               => call'[c].pc \in ComingPc,
           c \notin plan.edits /\ call'[c].pc \in StalePc /\ call'[c].ver # disk
               => call[c].pc \in StalePc /\ call[c].ver = call'[c].ver
    PROVE  ContentInv'
<1>1. /\ CallsSound /\ WireSound /\ OneEdit /\ OpenRuns /\ OpenedIsTold /\ Fresh /\ Corrected
      /\ Good' => Good
    BY DEF ContentInv, Good
<1>2. CallsSound'
    <2> SUFFICES ASSUME NEW d \in Caller, d # c PROVE CallSound(d)'
        BY DEF CallsSound
    <2> QED
        BY <1>1 DEF CallsSound, CallSound, Edits
<1>3. WireSound'
    <2>1. \A i \in Entries : wire[i].call # c /\ wire[i].call \in Caller
        BY <1>1, NoEntry, CallIs
    <2> QED
        BY <1>1, <2>1 DEF WireSound, Entries, Procs
<1>4. OneEdit'
    <2> SUFFICES ASSUME ~raced PROVE OneEdit'
        BY DEF OneEdit
    <2>1. \A d \in plan.edits : Active(d)' => Active(d)
        BY CallIs DEF Active
    <2>2. \A d \in plan.edits : call'[d].pc \in VersionPc => call'[d].ver = disk
        BY <1>1, CallIs DEF OneEdit
    <2> QED
        BY <1>1, <2>1, <2>2 DEF OneEdit
<1>5. OpenRuns'
    BY <1>1, CallIs DEF OpenRuns
<1>6. OpenedIsTold'
    BY <1>1 DEF OpenedIsTold
<1>7. \A e \in Caller, kind \in {"open", "change"} : Sent(e, kind)' <=> Sent(e, kind)
    BY DEF Sent, Entries
<1>8. Fresh'
    <2> SUFFICES ASSUME Good', opened, CanSend', process[client.conn].alive,
                        process[client.conn].doc # disk
                 PROVE  \E e \in plan.edits : Fixing(e)'
        BY DEF Fresh
    <2>1. PICK e \in plan.edits : Fixing(e)
        BY <1>1 DEF Fresh
    <2>2. Fixing(e)'
        BY <1>7, <2>1, CallIs DEF Fixing
    <2> QED
        BY <2>2
<1>9. Corrected'
    <2> SUFFICES ASSUME Good', Live', ~opened, NEW t \in Caller, Stale(t)'
                 PROVE  \E e \in plan.edits : Coming(e)'
        BY DEF Corrected
    <2>1. Stale(t)
        BY DEF Stale
    <2>2. PICK e \in plan.edits : Coming(e)
        BY <1>1, <2>1 DEF Corrected
    <2>3. Coming(e)'
        BY <1>7, <2>2, CallIs DEF Coming
    <2> QED
        BY <2>3
<1> QED
    BY <1>2, <1>3, <1>4, <1>5, <1>6, <1>8, <1>9 DEF ContentInv

(* A call hands a notification to the connection.                          *)
LEMMA SendMoves ==
    ASSUME TypeOK, ServerInv, ContentInv, NEW c \in Caller,
           NEW kind \in {"open", "change", "save"}, Send(c, kind, WaitOf(kind)),
           kind = "open" => call[c].pc = "didOpen" /\ ~opened,
           kind = "change" => call[c].pc = "sync" /\ opened,
           kind = "save" => call[c].pc = "save"
    PROVE  ContentInv'
<1> DEFINE entry == [call |-> c, kind |-> kind, ver |-> call[c].ver, to |-> client.conn]
           n == Len(wire) + 1
<1>1. /\ CallsSound /\ WireSound /\ OneEdit /\ OpenRuns /\ OpenedIsTold /\ Fresh /\ Corrected
    BY DEF ContentInv
<1>2. /\ CanSend /\ wire' = Append(wire, entry)
      /\ UNCHANGED <<inst, client, process, starter, closer, opened, disk, down>>
      /\ UNCHANGED <<plan, lost, doubled, raced, overlap>>
    BY DEF Send, server, bounds, history
<1>3. /\ call'[c].pc = WaitOf(kind) /\ call'[c].ver = call[c].ver
      /\ \A d \in Caller : d # c => call'[d] = call[d]
    BY WentTo DEF Send
<1>4. /\ entry.call = c /\ entry.kind = kind /\ entry.ver = call[c].ver
      /\ entry.to = client.conn
    OBVIOUS
<1>5. client.conn \in Procs /\ Running
    BY <1>2, ProcessTypes DEF CanSend, Procs
<1>6. /\ Len(wire') = n /\ wire'[n] = entry /\ n \in Nat
      /\ \A i \in Entries : wire'[i] = wire[i]
      /\ Entries' = Entries \cup {n} /\ n \notin Entries
    <2> HIDE DEF entry
    <2>1. wire \in Seq([call : Caller, kind : {"open", "change", "save"}, ver : Nat, to : Nat])
        BY DEF TypeOK
    <2>2. Len(wire) \in Nat /\ Len(wire') = Len(wire) + 1
        BY <1>2, <2>1
    <2> QED
        BY <1>2, <2>1, <2>2 DEF Entries
<1> HIDE DEF entry, n
<1>7. call[c].pc \notin WirePc /\ call[c].pc \notin {"idle", "done"}
    BY DEF WirePc
<1>8. \A i \in Entries : wire[i].call # c /\ wire[i].call \in Caller
    BY <1>1, <1>7, NoEntry, CallIs
<1>9. CallsSound'
    <2>1. CallSound(c)'
        BY <1>1, <1>2, <1>3 DEF CallsSound, CallSound, WaitOf, VersionPc, Edits
    <2> QED
        BY <1>1, <1>2, <1>3, <2>1 DEF CallsSound, CallSound, Edits, Running
<1>10. WireSound'
    <2>1. kind # "save" => call[c].ver >= 1
        BY <1>1 DEF CallsSound, CallSound, VersionPc
    <2>2. ASSUME NEW i \in Entries'
          PROVE  /\ wire'[i].to \in Procs'
                 /\ call'[wire'[i].call].pc = WaitOf(wire'[i].kind)
                 /\ call'[wire'[i].call].ver = wire'[i].ver
                 /\ wire'[i].kind # "save" => wire'[i].ver >= 1
        <3>1. CASE i = n
            BY <1>2, <1>3, <1>4, <1>5, <1>6, <2>1, <3>1 DEF Procs
        <3>2. CASE i \in Entries
            <4>1. wire'[i] = wire[i] /\ call'[wire[i].call] = call[wire[i].call]
                BY <1>3, <1>6, <1>8, <3>2
            <4>2. /\ wire[i].to \in Procs
                  /\ call[wire[i].call].pc = WaitOf(wire[i].kind)
                  /\ call[wire[i].call].ver = wire[i].ver
                  /\ wire[i].kind # "save" => wire[i].ver >= 1
                BY <1>1, <3>2 DEF WireSound
            <4>3. Procs' = Procs
                BY <1>2 DEF Procs
            <4> QED
                BY <4>1, <4>2, <4>3
        <3> QED
            BY <1>6, <3>1, <3>2
    <2>3. ASSUME NEW i \in Entries', NEW j \in Entries', wire'[i].call = wire'[j].call PROVE i = j
        BY <1>1, <1>4, <1>6, <1>8, <2>3 DEF WireSound
    <2> QED
        BY <1>1, <1>2, <2>2, <2>3 DEF WireSound
<1>11. OneEdit'
    <2> SUFFICES ASSUME ~raced PROVE OneEdit'
        BY <1>2 DEF OneEdit
    <2>1. \A d \in plan.edits : Active(d)' => Active(d)
        BY <1>3, <1>7, CallIs DEF Active
    <2>2. \A d \in plan.edits : call'[d].pc \in VersionPc => call'[d].ver = disk
        BY <1>1, <1>3, CallIs DEF OneEdit, VersionPc, WaitOf
    <2> QED
        BY <1>1, <1>2, <2>1, <2>2 DEF OneEdit
<1>12. OpenRuns'
    BY <1>1, <1>2, <1>3, CallIs DEF OpenRuns, Running, Good, WaitOf
<1>13. OpenedIsTold'
    BY <1>1, <1>2 DEF OpenedIsTold, Running
<1>14. \A e \in Caller, k \in {"open", "change"} : Sent(e, k) => Sent(e, k)'
    BY <1>2, <1>6 DEF Sent
<1>15. kind \in {"open", "change"} => Sent(c, kind)'
    BY <1>2, <1>4, <1>6 DEF Sent
<1>16. Fresh'
    <2> SUFFICES ASSUME Good, opened, CanSend, process[client.conn].alive,
                        process[client.conn].doc # disk
                 PROVE  \E e \in plan.edits : Fixing(e)'
        BY <1>2 DEF Fresh, Good, CanSend, Running
    <2>1. PICK e \in plan.edits : Fixing(e)
        BY <1>1 DEF Fresh
    <2>2. Fixing(e)'
        BY <1>3, <1>14, <1>15, <2>1, CallIs DEF Fixing, LookingPc
    <2> QED
        BY <1>2, <2>2
<1>17. Corrected'
    <2> SUFFICES ASSUME Good, Live, ~opened, NEW t \in Caller, Stale(t)'
                 PROVE  \E e \in plan.edits : Coming(e)'
        BY <1>2 DEF Corrected, Good, Live, CanSend, Running, FirstTime
    <2>1. Stale(t)
        BY <1>2, <1>3 DEF Stale, StalePc, WaitOf
    <2>2. PICK e \in plan.edits : Coming(e)
        BY <1>1, <2>1 DEF Corrected
    <2>3. Coming(e)'
        BY <1>2, <1>3, <1>5, <1>14, <1>15, <2>2, CallIs DEF Coming, ComingPc, LookingPc, Running
    <2> QED
        BY <1>2, <2>3
<1> QED
    BY <1>9, <1>10, <1>11, <1>12, <1>13, <1>16, <1>17 DEF ContentInv

(* One call moves, and nothing else.                                       *)
LEMMA OnlyMoves ==
    ASSUME TypeOK, ServerInv, ContentInv, NEW c \in Caller, Only,
           \A d \in Caller : d # c => call'[d] = call[d],
           CallSound(c)', call[c].pc \notin WirePc,
           c \in plan.edits /\ ~raced => /\ Active(c)' => Active(c)
                                         /\ call'[c].pc \in VersionPc => call'[c].ver = disk,
           Good /\ c \in plan.edits /\ call'[c].pc \in {"open", "didOpen"} => ~opened,
           Good /\ opened /\ CanSend /\ c \in plan.edits /\ call[c].pc \in LookingPc
               => call'[c].pc \in LookingPc,
           Good /\ Live /\ ~opened /\ c \in plan.edits /\ call[c].pc \in ComingPc
               => call'[c].pc \in ComingPc,
           c \notin plan.edits /\ call'[c].pc \in StalePc /\ call'[c].ver # disk
               => call[c].pc \in StalePc /\ call[c].ver = call'[c].ver
    PROVE  ContentInv'
<1>1. /\ UNCHANGED <<inst, client, process, starter, closer, opened, wire, disk, down>>
      /\ UNCHANGED <<plan, lost, doubled, raced, overlap>>
    BY DEF Only, server, bounds, history
<1>2. /\ Running' = Running /\ CanSend' = CanSend /\ Live' = Live /\ Good' = Good
    BY <1>1 DEF Running, CanSend, Live, FirstTime, Good
<1> QED
    BY <1>1, <1>2, CallMoves

(* A call that holds no text goes on.                                      *)
NeutralPc == {"save", "pull", "pulling", "ask", "asking", "request", "asking for start",
              "sleeping"}
LEMMA NeutralMoves ==
    ASSUME TypeOK, ServerInv, ContentInv, NEW c \in Caller, Only,
           \A d \in Caller : d # c => call'[d] = call[d],
           call[c].pc \in NeutralPc, call'[c].pc \in NeutralPc \cup {"done"},
           call'[c].pc = "asking for start" => starter # "none"
    PROVE  ContentInv'
<1>1. starter' = starter
    BY DEF Only, server
<1>2. /\ CallSound(c)' /\ call[c].pc \notin WirePc /\ Active(c)
      /\ call[c].pc \notin LookingPc /\ call[c].pc \notin ComingPc
      /\ call'[c].pc \notin VersionPc /\ call'[c].pc \notin StalePc
      /\ call'[c].pc \notin {"open", "didOpen"}
    BY <1>1 DEF NeutralPc, CallSound, WirePc, Active, LookingPc, ComingPc, VersionPc, StalePc
<1> QED
    BY <1>2, OnlyMoves

LEMMA AskedMoves ==
    ASSUME TypeOK, NEW c \in Caller, NEW pc, Asks(c, pc)
    PROVE  call'[c].pc = pc /\ \A d \in Caller : d # c => call'[d] = call[d]
    BY DEF TypeOK, Asks

(* A server that refuses to start will not be sent the file.               *)
LEMMA RefusedIsNotLive ==
    ASSUME TypeOK, ServerInv, NoStartUnderWay, ~Running, Refuses(inst)
    PROVE  ~Live
<1>1. starter = "none" /\ ~CanSend
    BY DEF NoStartUnderWay, CanSend
<1>2. inst.attempts >= 1 \/ process # <<>>
    <2>1. inst.attempts \in Nat /\ inst.crashes \in Nat
        BY DEF TypeOK, Instance
    <2>2. inst.crashes > MaxRestarts => process # <<>>
        BY <2>1, BoundTypes DEF ServerInv, Staged
    <2> QED
        BY <2>1, <2>2 DEF Refuses, ServerInv, Staged
<1> QED
    BY <1>1, <1>2 DEF Live, FirstTime, TypeOK, Instance

LEMMA FirstAttempt == \A n \in Nat : n + 1 = 1 => n = 0
    OBVIOUS

(* A call that needs the server starts it, waits, or is refused.           *)
LEMMA EnsureMoves ==
    ASSUME TypeOK, ServerInv, ContentInv, NEW c \in Caller, ~Running,
           NEW waiting, NEW refused, EnsureStarted(c, waiting, refused),
           \/ /\ call[c].pc = "open" /\ waiting = "starting"
              /\ refused \in {"save", "pull"}
           \/ call[c].pc = "ask" /\ waiting = "asking for start" /\ refused = "done"
    PROVE  ContentInv'
<1>1. /\ CallsSound /\ WireSound /\ OneEdit /\ OpenRuns /\ OpenedIsTold /\ Fresh /\ Corrected
    BY DEF ContentInv
<1>2. /\ call[c].pc \notin WirePc /\ Active(c) /\ call[c].pc \notin LookingPc
      /\ waiting \in CallPc /\ refused \in CallPc
    BY DEF WirePc, Active, LookingPc, CallPc, Ready, Waiting
<1>3. call[c].pc = "open" => ~down /\ call[c].ver >= 1
    BY <1>1 DEF CallsSound, CallSound, VersionPc
<1>4. c \in plan.edits /\ ~raced /\ call[c].pc = "open" => call[c].ver = disk
    BY <1>1 DEF OneEdit, VersionPc
<1>5. ASSUME Goto(c, waiting), starter' # "none"
      PROVE  /\ \A d \in Caller : d # c => call'[d] = call[d]
             /\ CallSound(c)'
             /\ Active(c)' /\ (call'[c].pc \in VersionPc => call[c].pc = "open")
             /\ call'[c].pc \notin {"open", "didOpen"} /\ call'[c].ver = call[c].ver
             /\ call[c].pc \in ComingPc => call'[c].pc \in ComingPc
             /\ call'[c].pc \in StalePc => call[c].pc \in StalePc
    <2>1. /\ call'[c].pc = waiting /\ call'[c].ver = call[c].ver
          /\ \A d \in Caller : d # c => call'[d] = call[d]
        BY <1>5, WentTo
    <2> QED
        BY <1>3, <1>5, <2>1 DEF CallSound, VersionPc, ComingPc, StalePc, Active, LookingPc
<1>6. CASE BeginStart /\ Goto(c, waiting)
           /\ UNCHANGED <<process, closer, opened, wire, disk, down, bounds,
                          lost, doubled, raced, unheard>>
    <2>1. /\ starter' = "importing" /\ inst' = StartingInst(inst)
          /\ client' = StartingClient(client) /\ starter = "none"
          /\ overlap => overlap'
          /\ UNCHANGED <<process, wire, opened, disk, down, plan, lost, doubled, raced>>
        BY <1>6 DEF BeginStart, NoStartUnderWay, bounds
    <2>2. /\ inst'.state = "starting" /\ inst'.attempts = inst.attempts + 1
          /\ inst.attempts \in Nat /\ client'.conn = client.conn
        <3>1. inst \in Instance /\ client \in Client
            BY DEF TypeOK
        <3>2. inst'.state = "starting" /\ inst'.attempts = inst.attempts + 1
            BY <2>1, <3>1 DEF StartingInst, Instance
        <3>3. inst.attempts \in Nat
            BY <3>1 DEF Instance
        <3>4. client'.conn = client.conn
            BY <2>1, <3>1 DEF StartingClient, Client
        <3> QED
            BY <3>2, <3>3, <3>4
    <2>3. ~Running' /\ ~CanSend'
        BY <2>2 DEF Running, CanSend
    <2>4. Live' => Live
        <3>1. starter' \notin {"spawned", "initializing"}
            BY <2>1
        <3>2. FirstTime' => process = <<>> /\ inst'.attempts = 1
            BY <2>1 DEF FirstTime
        <3>3. inst'.attempts = 1 => inst.attempts = 0
            BY <2>2, FirstAttempt
        <3>4. process = <<>> /\ inst.attempts = 0 => FirstTime
            BY <2>1 DEF FirstTime
        <3> QED
            BY <2>3, <3>1, <3>2, <3>3, <3>4 DEF Live
    <2>5. /\ \A d \in Caller : d # c => call'[d] = call[d]
          /\ CallSound(c)'
          /\ Active(c)' /\ (call'[c].pc \in VersionPc => call[c].pc = "open")
          /\ call'[c].pc \notin {"open", "didOpen"} /\ call'[c].ver = call[c].ver
          /\ call[c].pc \in ComingPc => call'[c].pc \in ComingPc
          /\ call'[c].pc \in StalePc => call[c].pc \in StalePc
        BY <1>5, <1>6, <2>1
    <2>6. Running' = Running
        BY <2>3 DEF Running
    <2>7. /\ client'.conn = client.conn /\ (CanSend' => CanSend)
          /\ (starter # "none" => starter' # "none")
        BY <2>1, <2>2, <2>3
    <2>8. c \in plan.edits /\ ~raced => /\ Active(c)' => Active(c)
                                        /\ call'[c].pc \in VersionPc => call'[c].ver = disk
        BY <1>2, <1>4, <2>5
    <2>9. call'[c].pc \in StalePc /\ call'[c].ver # disk
              => call[c].pc \in StalePc /\ call[c].ver = call'[c].ver
        BY <2>5
    <2> QED
        BY <1>2, <2>1, <2>4, <2>5, <2>6, <2>7, <2>8, <2>9, CallMoves
<1>7. CASE ~NoStartUnderWay /\ Goto(c, waiting) /\ Only
    <2>1. starter' = starter /\ starter # "none"
        BY <1>7 DEF Only, server, NoStartUnderWay
    <2> QED
        BY <1>2, <1>4, <1>5, <1>7, <2>1, OnlyMoves
<1>8. CASE NoStartUnderWay /\ Refuses(inst) /\ Goto(c, refused) /\ Only
    <2>1. /\ call'[c].pc = refused /\ call'[c].ver = call[c].ver
          /\ \A d \in Caller : d # c => call'[d] = call[d]
        BY <1>8, WentTo
    <2>2. /\ CallSound(c)' /\ call'[c].pc \notin VersionPc /\ call'[c].pc \notin StalePc
          /\ call'[c].pc \notin {"open", "didOpen"}
        BY <2>1 DEF CallSound, VersionPc, StalePc
    <2> QED
        BY <1>2, <1>8, <2>1, <2>2, RefusedIsNotLive, OnlyMoves
<1> QED
    BY <1>6, <1>7, <1>8 DEF EnsureStarted

LEMMA CallContentStep ==
    ASSUME TypeOK, ServerInv, ContentInv, NEW c \in Caller,
           GoesOn(c) \/ Hears(c) \/ Answered(c) \/ Modified(c) \/ Tool(c)
    PROVE  ContentInv'
<1>0. /\ CallsSound /\ WireSound /\ OneEdit /\ OpenRuns /\ OpenedIsTold /\ Fresh /\ Corrected
      /\ CallSound(c) /\ disk >= 1 /\ disk \in Nat
      /\ c \in plan.tools => c \notin plan.edits
      /\ Edits(c) <=> c \in plan.edits
    BY BoundTypes DEF ContentInv, CallsSound, WireSound, Edits, TypeOK
<1>1. /\ AfterOpen(c) \in {"save", "pull"} /\ AfterPull(c) \in {"ask", "done"}
      /\ \A pc : Goto(c, pc) =>
           /\ call'[c].pc = pc /\ call'[c].ver = call[c].ver
           /\ \A d \in Caller : d # c => call'[d] = call[d]
    BY WentTo DEF AfterOpen, AfterPull
<1>2. CASE Sync(c)
    <2>1. call[c].pc = "sync" /\ Edits(c) /\ ~down /\ call[c].ver >= 1
        BY <1>0, <1>2 DEF Sync, CallSound, VersionPc
    <2>2. ~raced => call[c].ver = disk
        BY <1>0, <2>1 DEF OneEdit, VersionPc
    <2>3. CASE Running /\ opened /\ Send(c, "change", "changing")
        <3>1. WaitOf("change") = "changing"
            BY DEF WaitOf
        <3> QED
            BY <2>1, <2>3, <3>1, SendMoves
    <2>4. CASE Running /\ opened /\ ~CanSend /\ Goto(c, "save") /\ Only
        <3>0. call'[c].pc = "save"
            BY <2>4, WentTo
        <3>1. CallSound(c)' /\ call[c].pc \notin WirePc /\ Active(c)
              /\ call'[c].pc \notin VersionPc /\ call'[c].pc \notin StalePc
            BY <2>1, <3>0 DEF CallSound, WirePc, Active, VersionPc, StalePc
        <3> QED
            BY <1>0, <1>1, <2>4, <3>1, OnlyMoves
    <2>5. CASE ~(Running /\ opened) /\ Goto(c, "open") /\ Only
        <3>1. /\ CallSound(c)' /\ call[c].pc \notin WirePc /\ Active(c)
              /\ call'[c].pc = "open" /\ call'[c].pc \in ComingPc
            <4>1. down' = down
                BY <2>5 DEF Only
            <4>2. call'[c].pc = "open" /\ call'[c].ver = call[c].ver
                BY <2>5, WentTo
            <4> QED
                BY <2>1, <4>1, <4>2 DEF CallSound, WirePc, Active, VersionPc, ComingPc
        <3>2. Good => ~opened
            BY <1>0, <2>5 DEF OpenRuns, Good
        <3> QED
            BY <1>0, <1>1, <2>1, <2>2, <2>5, <3>1, <3>2, OnlyMoves
    <2> QED
        BY <1>2, <2>3, <2>4, <2>5 DEF Sync
<1>3. CASE Open(c)
    <2>1. call[c].pc = "open" /\ call[c].ver >= 1
        BY <1>0, <1>3 DEF Open, CallSound, VersionPc
    <2>2. CASE Running /\ Goto(c, "didOpen") /\ Only
        <3>1. /\ CallSound(c)' /\ call[c].pc \notin WirePc /\ Active(c)
              /\ call[c].pc \notin LookingPc
              /\ call'[c].pc = "didOpen" /\ call'[c].pc \in ComingPc
              /\ call'[c].pc \in StalePc /\ call[c].pc \in StalePc
            <4>1. Running'
                BY <2>2 DEF Only, server, Running
            <4>2. call'[c].pc = "didOpen" /\ call'[c].ver = call[c].ver
                BY <2>2, WentTo
            <4> QED
                BY <2>1, <4>1, <4>2
                   DEF CallSound, WirePc, Active, VersionPc, ComingPc, StalePc, LookingPc
        <3>2. Good /\ c \in plan.edits => ~opened
            BY <1>0, <2>1 DEF OpenRuns
        <3>3. c \in plan.edits /\ ~raced => call[c].ver = disk
            BY <1>0, <2>1 DEF OneEdit, VersionPc
        <3> QED
            BY <1>1, <2>2, <3>1, <3>2, <3>3, OnlyMoves
    <2>3. CASE ~Running /\ EnsureStarted(c, "starting", AfterOpen(c))
        BY <1>1, <2>1, <2>3, EnsureMoves
    <2> QED
        BY <1>3, <2>2, <2>3 DEF Open
<1>4. CASE DidOpen(c)
    <2>1. call[c].pc = "didOpen" /\ Running
        BY <1>0, <1>4 DEF DidOpen, CallSound
    <2>2. CASE ~opened /\ Send(c, "open", "opening")
        <3>1. WaitOf("open") = "opening"
            BY DEF WaitOf
        <3> QED
            BY <2>1, <2>2, <3>1, SendMoves
    <2>3. CASE (opened \/ ~CanSend) /\ Goto(c, AfterOpen(c)) /\ Only
        <3>1. /\ CallSound(c)' /\ call[c].pc \notin WirePc /\ Active(c)
              /\ call[c].pc \notin LookingPc
              /\ call'[c].pc \in {"save", "pull"} /\ call'[c].pc \notin VersionPc
              /\ call'[c].pc \notin StalePc
            BY <1>1, <2>1, <2>3 DEF CallSound, WirePc, Active, VersionPc, StalePc, LookingPc
        <3>2. ~CanSend => ~Live
            BY <2>1 DEF Live, FirstTime, ServerInv, Staged
        <3> QED
            BY <1>1, <2>3, <3>1, <3>2, OnlyMoves
    <2> QED
        BY <1>4, <2>2, <2>3 DEF DidOpen
<1>5. CASE Save(c)
    <2>1. CASE Send(c, "save", "saving")
        <3>1. WaitOf("save") = "saving" /\ call[c].pc = "save"
            BY <1>5 DEF WaitOf, Save
        <3> QED
            BY <2>1, <3>1, SendMoves
    <2>2. CASE Goto(c, "pull") /\ Only
        <3>1. call[c].pc \in NeutralPc /\ call'[c].pc = "pull" /\ call'[c].pc \in NeutralPc
            BY <1>1, <1>5, <2>2 DEF Save, NeutralPc
        <3> QED
            BY <1>1, <2>2, <3>1, NeutralMoves
    <2> QED
        BY <1>5, <2>1, <2>2 DEF Save
<1>6. CASE Ask(c) /\ ~down /\ ~Running /\ EnsureStarted(c, "asking for start", "done")
    BY <1>6, EnsureMoves DEF Ask
<1>7. CASE /\ Pull(c) \/ Request(c) \/ Answered(c) \/ Retry(c) \/ Rejected(c)
              \/ PullTimesOut(c) \/ Ask(c)
           /\ Only
    <2>1. call[c].pc \in NeutralPc
        BY <1>7 DEF NeutralPc, Pull, Request, Answered, Retry, Rejected, PullTimesOut, Ask
    <2>2. \/ \E pc \in {"ask", "done", "request", "asking", "pulling"} : Goto(c, pc) \/ Asks(c, pc)
          \/ /\ Goto(c, "asking for start") /\ starter # "none"
        <3>1. CASE Pull(c) \/ Request(c) \/ Answered(c) \/ Retry(c) \/ Rejected(c)
                   \/ PullTimesOut(c)
            BY <1>1, <3>1 DEF Pull, Request, Answered, Retry, Rejected, PullTimesOut
        <3>2. CASE Ask(c)
            <4>1. starter' = starter
                BY <1>7 DEF Only, server
            <4> QED
                BY <3>2, <4>1 DEF Ask, EnsureStarted, NoStartUnderWay, BeginStart
        <3> QED
            BY <1>7, <3>1, <3>2
    <2>3. /\ call'[c].pc \in NeutralPc \cup {"done"}
          /\ call'[c].pc = "asking for start" => starter # "none"
          /\ \A d \in Caller : d # c => call'[d] = call[d]
        BY <1>1, <2>2, AskedMoves DEF NeutralPc
    <2> QED
        BY <1>7, <2>1, <2>3, NeutralMoves
<1>8. CASE Modified(c)
    <2>1. /\ call'[c].pc = "sleeping" /\ \A d \in Caller : d # c => call'[d] = call[d]
          /\ call[c].pc = "asking" /\ Only
        BY <1>8 DEF Modified, TypeOK
    <2>2. "asking" \in NeutralPc /\ "sleeping" \in NeutralPc
        BY DEF NeutralPc
    <2> QED
        BY <2>1, <2>2, NeutralMoves
<1>9. CASE Read(c)
    <2>1. /\ call'[c].pc = "read" /\ call'[c].ver = disk
          /\ \A d \in Caller : d # c => call'[d] = call[d]
          /\ call[c].pc = "reading" /\ Only
        BY <1>9 DEF Read, TypeOK
    <2>2. /\ CallSound(c)' /\ call[c].pc \notin WirePc /\ Active(c)
          /\ call'[c].pc \in LookingPc /\ call'[c].pc \in ComingPc
        BY <1>0, <2>1 DEF CallSound, WirePc, Active, VersionPc, LookingPc, ComingPc
    <2> QED
        BY <2>1, <2>2, OnlyMoves
<1>10. CASE ReadEnds(c)
    <2>1. /\ call'[c].pc = AfterRead(c) /\ call'[c].ver = call[c].ver
          /\ \A d \in Caller : d # c => call'[d] = call[d]
          /\ call[c].pc = "read" /\ Only /\ call[c].ver >= 1
        BY <1>0, <1>1, <1>10 DEF ReadEnds, CallSound, VersionPc
    <2>2. AfterRead(c) = IF down THEN AfterPull(c) ELSE IF c \in plan.edits THEN "sync" ELSE "open"
        BY <1>0 DEF AfterRead
    <2>3. /\ CallSound(c)' /\ call[c].pc \notin WirePc /\ Active(c)
          /\ call[c].pc \in StalePc
        <3>1. down' = down /\ plan' = plan
            BY <2>1 DEF Only, bounds
        <3> QED
            BY <1>1, <1>0, <2>1, <2>2, <3>1 DEF CallSound, WirePc, Active, VersionPc, StalePc, Edits
    <2>4. c \in plan.edits /\ ~raced => call[c].ver = disk
        BY <1>0, <2>1 DEF OneEdit, VersionPc
    <2>5. /\ Good => ~down
          /\ "sync" \in LookingPc /\ "sync" \in ComingPc
          /\ "ask" \notin VersionPc /\ "done" \notin VersionPc
          /\ "ask" \notin StalePc /\ "done" \notin StalePc
        BY DEF Good, LookingPc, ComingPc, VersionPc, StalePc
    <2> QED
        BY <1>1, <2>1, <2>2, <2>3, <2>4, <2>5, OnlyMoves
<1>11. CASE Checked(c) \/ Tool(c)
    <2>1. c \notin plan.edits
        BY <1>0, <1>11 DEF Checked, Tool, CallSound
    <2>2. /\ \E pc \in {"ask", "reading", "checking", "done"} : Goto(c, pc)
          /\ call[c].pc \in {"idle", "checking"} /\ Only
        BY <1>11 DEF Checked, Tool
    <2>3. /\ call'[c].pc \in {"ask", "reading", "checking", "done"}
          /\ call'[c].ver = call[c].ver
          /\ \A d \in Caller : d # c => call'[d] = call[d]
        BY <1>1, <2>2
    <2>4. CallSound(c)' /\ call[c].pc \notin WirePc /\ call'[c].pc \notin StalePc
        <3>1. plan' = plan
            BY <2>2 DEF Only, bounds
        <3> QED
            BY <1>0, <2>1, <2>2, <2>3, <3>1 DEF CallSound, WirePc, VersionPc, StalePc, Edits
    <2> QED
        BY <2>1, <2>2, <2>3, <2>4, OnlyMoves
<1>12. Ask(c) => Only \/ (~down /\ ~Running /\ EnsureStarted(c, "asking for start", "done"))
    BY DEF Ask
<1> QED
    BY <1>2, <1>3, <1>4, <1>5, <1>6, <1>7, <1>8, <1>9, <1>10, <1>11, <1>12
       DEF GoesOn, Hears, Pull, Request, Answered, Retry, Rejected, PullTimesOut

(* The file is edited: the edit will synchronize it.                       *)
LEMMA EditContent ==
    ASSUME TypeOK, ServerInv, ContentInv, NEW c \in Caller, Edit(c)
    PROVE  ContentInv'
<1>0. /\ CallsSound /\ WireSound /\ OneEdit /\ OpenRuns /\ OpenedIsTold /\ Fresh /\ Corrected
      /\ disk \in Nat
    BY DEF ContentInv, TypeOK
<1>1. /\ call'[c].pc = "reading" /\ call'[c].ver = call[c].ver
      /\ \A d \in Caller : d # c => call'[d] = call[d]
      /\ call[c].pc = "idle" /\ disk' = disk + 1 /\ c \in plan.edits
      /\ UNCHANGED <<inst, client, process, starter, closer, opened, wire, down>>
      /\ UNCHANGED <<plan, lost, doubled, overlap>>
      /\ raced' = (raced \/ \E d \in plan.edits : Active(d))
    BY WentTo DEF Edit, Edits, server, bounds
<1>2. \A d \in plan.edits : ~raced' /\ d # c => ~Active(d)
    BY <1>1
<1>3. call[c].pc \notin WirePc /\ call[c].ver = 0
    BY <1>0, <1>1 DEF WirePc, CallsSound, CallSound
<1>4. CallsSound'
    <2>1. CallSound(c)'
        BY <1>1, <1>3 DEF CallSound, VersionPc
    <2> QED
        BY <1>0, <1>1, <2>1 DEF CallsSound, CallSound, Edits, Running
<1>5. WireSound'
    <2>1. \A i \in Entries : wire[i].call # c /\ wire[i].call \in Caller
        BY <1>0, <1>3, NoEntry, CallIs
    <2>2. Procs' = Procs /\ Entries' = Entries
        BY <1>1 DEF Procs, Entries
    <2>3. disk' >= 1
        BY <1>0, <1>1
    <2> QED
        BY <1>0, <1>1, <2>1, <2>2, <2>3 DEF WireSound
<1>6. OneEdit'
    <2> SUFFICES ASSUME ~raced' PROVE OneEdit'
        BY DEF OneEdit
    <2>1. \A d \in plan.edits : d # c => call'[d] = call[d] /\ call[d].pc \in {"idle", "done"}
        BY <1>1, <1>2, CallIs DEF Active
    <2> QED
        BY <1>1, <2>1 DEF OneEdit, VersionPc, Active
<1>7. OpenRuns' /\ OpenedIsTold'
    <2>1. Running' = Running /\ (Good' => Good)
        BY <1>1 DEF Running, Good
    <2> QED
        BY <1>0, <1>1, <2>1, CallIs DEF OpenRuns, OpenedIsTold
<1>8. Fixing(c)' /\ Coming(c)'
    BY <1>1 DEF Fixing, Coming, LookingPc, ComingPc
<1>9. Fresh' /\ Corrected'
    BY <1>1, <1>8 DEF Fresh, Corrected
<1> QED
    BY <1>4, <1>5, <1>6, <1>7, <1>9 DEF ContentInv

(* A step of the server that no call waits for.                            *)
LEMMA QuietKeeps ==
    ASSUME TypeOK, ContentInv, Settled,
           UNCHANGED <<call, wire, disk, plan>>,
           Procs \subseteq Procs', \A g \in Procs : process'[g].doc = process[g].doc,
           Good' => Good, raced => raced',
           starter # "none" => starter' # "none",
           opened' /\ ~down' /\ ~lost' =>
               /\ opened /\ ~down /\ ~lost
               /\ Running => Running',
           opened' /\ ~down' /\ ~lost' /\ ~overlap' /\ Running' =>
               Running /\ ~overlap /\ client'.conn = client.conn,
           Good' /\ opened' /\ CanSend' /\ process'[client'.conn].alive =>
               CanSend /\ client'.conn = client.conn /\ process[client.conn].alive,
           Good' /\ Live' /\ ~opened' =>
               \/ /\ Live /\ ~opened
                  /\ Running => Running' /\ client'.conn = client.conn
               \/ \A t \in Caller : ~Stale(t)
    PROVE  ContentInv'
<1>1. /\ CallsSound /\ WireSound /\ OneEdit /\ OpenRuns /\ OpenedIsTold /\ Fresh /\ Corrected
    BY DEF ContentInv
<1>2. \A c \in Caller : call[c].pc \notin {"sync", "open", "didOpen"}
    BY DEF Settled, Ready
<1>3. CallsSound'
    BY <1>1, <1>2 DEF CallsSound, CallSound, Edits
<1>4. WireSound'
    BY <1>1 DEF WireSound, Entries
<1>5. OneEdit'
    BY <1>1 DEF OneEdit, Active
<1>6. OpenRuns'
    <2>1. \A c \in plan'.edits : call'[c].pc \notin {"open", "didOpen"}
        BY <1>2, CallIs
    <2>2. opened' /\ ~down' /\ ~lost' => Running'
        BY <1>1 DEF OpenRuns
    <2> QED
        BY <2>1, <2>2 DEF OpenRuns
<1>7. OpenedIsTold'
    <2> SUFFICES ASSUME opened', Running', ~down', ~lost', ~overlap'
                 PROVE  client'.conn # 0 /\ process'[client'.conn].doc # 0
        BY DEF OpenedIsTold
    <2>1. client'.conn = client.conn /\ client.conn # 0 /\ process[client.conn].doc # 0
        BY <1>1 DEF OpenedIsTold
    <2>2. client.conn \in Procs
        BY <2>1, ProcessTypes DEF Procs
    <2> QED
        BY <2>1, <2>2
<1>8. Fresh'
    <2> SUFFICES ASSUME Good', opened', CanSend', process'[client'.conn].alive,
                        process'[client'.conn].doc # disk
                 PROVE  \E e \in plan.edits : Fixing(e)'
        BY DEF Fresh
    <2>1. /\ Good /\ opened /\ CanSend /\ client'.conn = client.conn
          /\ process[client.conn].alive /\ client.conn \in Procs
        BY ProcessTypes DEF Good, CanSend, Procs
    <2>2. process[client.conn].doc # disk
        BY <2>1
    <2>3. PICK e \in plan.edits : Fixing(e)
        BY <1>1, <2>1, <2>2 DEF Fresh
    <2>4. Fixing(e)'
        BY <2>1, <2>3 DEF Fixing, Sent, Entries
    <2> QED
        BY <2>4
<1>9. Corrected'
    <2> SUFFICES ASSUME Good', Live', ~opened', NEW t \in Caller, Stale(t)'
                 PROVE  \E e \in plan.edits : Coming(e)'
        BY DEF Corrected
    <2>1. Stale(t) /\ Good
        BY DEF Stale
    <2>2. /\ Live /\ ~opened
          /\ Running => Running' /\ client'.conn = client.conn
        BY <2>1
    <2>3. PICK e \in plan.edits : Coming(e)
        BY <1>1, <2>1, <2>2 DEF Corrected
    <2>4. Coming(e)'
        BY <2>2, <2>3 DEF Coming, Sent, Entries
    <2> QED
        BY <2>4
<1> QED
    BY <1>3, <1>4, <1>5, <1>6, <1>7, <1>8, <1>9 DEF ContentInv

LEMMA SpawnContent == ASSUME TypeOK, ServerInv, ContentInv, Spawn PROVE ContentInv'
<1>1. /\ Settled /\ starter = "importing" /\ starter' = "spawned"
      /\ UNCHANGED <<inst, opened, wire, call, disk, down, plan, overlap, lost, doubled>>
      /\ client'.conn = client.conn /\ client'.initialized = client.initialized
      /\ client'.failed = client.failed
    BY SpawnFacts DEF Spawn, files, bounds, TypeOK, Client
<1>2. Procs \subseteq Procs' /\ \A g \in Procs : process'[g].doc = process[g].doc
    BY SpawnFacts, ProcessTypes DEF Procs
<1>3. ~Running /\ ~Running' /\ ~CanSend' /\ inst.attempts >= 1
    BY <1>1 DEF ServerInv, Staged, Running, CanSend
<1>4. (Good' => Good) /\ (raced => raced')
    BY <1>1 DEF Good, Spawn
<1>5. Good' /\ ~Live => \A t \in Caller : ~Stale(t)
    <2> SUFFICES ASSUME ~raced', ~Live, NEW t \in Caller, Stale(t) PROVE FALSE
        BY DEF Good
    <2>1. Active(t) /\ call[t].ver # disk /\ call[t].ver >= 1
        BY DEF Stale, StalePc, Active, VersionPc, ContentInv, CallsSound, CallSound
    <2>2. process = <<>> /\ ~(inst.attempts > 1)
        BY <2>1, CallIs DEF Spawn
    <2>3. inst.attempts = 1
        BY <1>3, <2>2 DEF TypeOK, Instance
    <2> QED
        BY <1>1, <2>2, <2>3 DEF Live, FirstTime
<1> QED
    BY <1>1, <1>2, <1>3, <1>4, <1>5, QuietKeeps

LEMMA ConnectContent == ASSUME TypeOK, ServerInv, ContentInv, Connect PROVE ContentInv'
<1>1. /\ Settled /\ starter = "spawned" /\ starter' = "initializing"
      /\ UNCHANGED <<inst, opened, wire, call, disk, down, plan>>
      /\ UNCHANGED <<overlap, lost, doubled, raced>>
    BY DEF Connect, files, bounds, history
<1>2. Procs \subseteq Procs' /\ \A g \in Procs : process'[g].doc = process[g].doc
    BY ConnectFacts
<1>3. ~Running /\ ~Running' /\ ~CanSend' /\ Live
    BY <1>1 DEF ServerInv, Staged, Running, CanSend, Live
<1>4. Good' => Good
    BY <1>1 DEF Good
<1> QED
    BY <1>1, <1>2, <1>3, <1>4, QuietKeeps

LEMMA StartFailsContent ==
    ASSUME TypeOK, ServerInv, ContentInv, NEW failure \in {"retry", "permanent"},
           StartFails(failure)
    PROVE  ContentInv'
<1>1. /\ Settled /\ starter \in {"importing", "spawned", "initializing"} /\ starter' = "cleaning"
      /\ UNCHANGED <<process, wire, call, disk, down, plan>>
      /\ UNCHANGED <<overlap, lost, doubled, raced>>
      /\ inst' = FailedInst(inst, failure)
    BY DEF StartFails, bounds, history
<1>2. inst'.state = "error"
    BY <1>1 DEF FailedInst, TypeOK, Instance
<1>3. ~Running /\ ~Running' /\ ~CanSend' /\ ~Live'
    BY <1>1, <1>2 DEF ServerInv, Staged, Running, CanSend, Live, FirstTime
<1>4. (Good' => Good) /\ Procs' = Procs
    BY <1>1 DEF Good, Procs
<1>5. opened' => opened
    BY FlagTypes DEF StartFails, OpenedAfter, RestTypes
<1> QED
    BY <1>1, <1>3, <1>4, <1>5, QuietKeeps

LEMMA StopContent ==
    ASSUME TypeOK, ServerInv, ContentInv, Settled, ~down, NEW k \in {"toggle", "shutdown"},
           StopInst(k), inst.state \in {"running", "error"},
           UNCHANGED <<process, starter, wire, call, disk, down, plan>>,
           UNCHANGED <<overlap, lost, doubled, raced>>
    PROVE  ContentInv'
<1>1. inst'.state = "stopping" /\ inst'.attempts = inst.attempts /\ client'.conn = client.conn
    BY DEF StopInst, TypeOK, Instance, Client
<1>2. ~Running' /\ ~CanSend' /\ opened' = (opened /\ ~Running)
    BY <1>1 DEF Running, CanSend, StopInst, OpenedAfter
<1>3. Live' => Live /\ ~Running
    BY <1>1, <1>2 DEF Live, FirstTime, ServerInv, Staged
<1>4. (Good' => Good) /\ Procs' = Procs
    BY DEF Good, Procs
<1> QED
    BY <1>1, <1>2, <1>3, <1>4, QuietKeeps

LEMMA ToggleStartsContent ==
    ASSUME TypeOK, ServerInv, ContentInv, ToggleStarts PROVE ContentInv'
<1>1. /\ Settled /\ BeginStart /\ ~Running /\ starter = "none" /\ starter' = "importing"
      /\ UNCHANGED <<process, opened, wire, call, disk, down, plan>>
      /\ UNCHANGED <<lost, doubled, raced>>
      /\ overlap => overlap'
      /\ inst' = StartingInst(inst) /\ client' = StartingClient(client)
    BY DEF ToggleStarts, BeginStart, NoStartUnderWay, Running, files
<1>2. /\ inst'.state = "starting" /\ inst'.attempts = inst.attempts + 1
      /\ inst.attempts \in Nat
    BY <1>1 DEF StartingInst, TypeOK, Instance
<1>3. client'.conn = client.conn
    BY <1>1 DEF StartingClient, TypeOK, Client
<1>4. ~Running' /\ ~CanSend'
    BY <1>2 DEF Running, CanSend
<1>5. Live' => Live
    <2>1. FirstTime' => process = <<>> /\ inst'.attempts = 1
        BY <1>1 DEF FirstTime
    <2>2. inst'.attempts = 1 => inst.attempts = 0
        BY <1>2, FirstAttempt
    <2>3. process = <<>> /\ inst.attempts = 0 => FirstTime
        BY <1>1 DEF FirstTime
    <2> QED
        BY <1>1, <1>4, <2>1, <2>2, <2>3 DEF Live
<1>6. (Good' => Good) /\ Procs' = Procs
    BY <1>1 DEF Good, Procs
<1> QED
    BY <1>1, <1>3, <1>4, <1>5, <1>6, QuietKeeps

LEMMA SkipContent == ASSUME TypeOK, ContentInv, ShutdownSkips PROVE ContentInv'
<1>1. /\ Settled /\ UNCHANGED <<inst, client, process, starter, closer, wire, call, disk>>
      /\ UNCHANGED <<plan, lost, doubled, raced, overlap>> /\ down' /\ ~opened'
    BY DEF ShutdownSkips, server, bounds, history
<1>2. ~Good' /\ Procs' = Procs
    BY <1>1 DEF Good, Procs
<1> QED
    BY <1>1, <1>2, QuietKeeps

LEMMA UserStopContent ==
    ASSUME TypeOK, ServerInv, ContentInv, ToggleEnds \/ ShutdownEnds PROVE ContentInv'
<1>1. PICK k \in {"toggle", "shutdown"} :
          /\ StopEnds(k) /\ Settled /\ closer[k].active
          /\ inst' = [inst EXCEPT !.state = "stopped"] /\ UNCHANGED <<starter, call>>
          /\ ~down' => ~down /\ opened' = (opened /\ ~Running)
    <2>1. CASE ToggleEnds
        <3>1. ~down' => ~down /\ opened' = (opened /\ ~Running)
            BY <2>1 DEF ToggleEnds, OpenedAfter
        <3> QED
            BY <2>1, <3>1 DEF ToggleEnds, StopEnds
    <2>2. CASE ShutdownEnds
        BY <2>2 DEF ShutdownEnds, StopEnds
    <2> QED
        BY <2>1, <2>2
<1>2. /\ Len(process') = Len(process) /\ Procs' = Procs /\ ~client'.initialized
      /\ \A g \in Procs : process'[g].doc = process[g].doc
      /\ UNCHANGED <<wire, disk, plan, overlap, lost, doubled, raced>>
    BY <1>1, StopFacts DEF Closer
<1>3. inst'.state = "stopped" /\ inst'.attempts = inst.attempts
    BY <1>1 DEF TypeOK, Instance
<1>4. ~Running' /\ ~CanSend'
    BY <1>3 DEF Running, CanSend
<1>5. ~overlap => ~Running
    BY <1>1 DEF ServerInv, Alone, Stopping
<1>6. process = <<>> <=> process' = <<>>
    BY <1>1, StopClears DEF Closer
<1>7. Live' => Live
    BY <1>1, <1>3, <1>4, <1>6 DEF Live, FirstTime
<1>8. Good' => Good /\ ~Running
    BY <1>1, <1>2, <1>5 DEF Good
<1>9. /\ opened' /\ ~down' => opened /\ ~down /\ ~Running
      /\ ~down' /\ ~Running /\ ~opened' => ~opened
    BY <1>1
<1>10. Good' => ~down'
    BY DEF Good
<1> QED
    BY <1>1, <1>2, <1>4, <1>7, <1>8, <1>9, <1>10, QuietKeeps

LEMMA DiesContent ==
    ASSUME TypeOK, ServerInv, ContentInv, NEW g \in Procs, NEW exit \in {"loud", "quiet"},
           Dies(g, exit)
    PROVE  ContentInv'
<1>1. /\ Settled /\ UNCHANGED <<inst, client, starter, closer, opened, wire, call, disk, down>>
      /\ UNCHANGED <<plan, lost, doubled, raced, overlap>>
    BY DEF Dies, files
<1>2. /\ Procs' = Procs
      /\ \A h \in Procs : /\ process'[h].doc = process[h].doc
                          /\ process'[h].alive => process[h].alive
    BY DiesFacts
<1>3. process # <<>> /\ process' # <<>>
    BY DiesFacts DEF Procs
<1>4. Running' = Running /\ CanSend' = CanSend /\ Live' = Live /\ (Good' => Good)
    BY <1>1, <1>3 DEF Running, CanSend, Live, FirstTime, Good
<1>5. CanSend => client.conn \in Procs
    BY ProcessTypes DEF CanSend, Procs
<1> QED
    BY <1>1, <1>2, <1>4, <1>5, QuietKeeps

LEMMA CloseContent ==
    ASSUME TypeOK, ServerInv, ContentInv, NEW g \in Procs, CloseEvent(g)
    PROVE  ContentInv'
<1>1. /\ Settled /\ UNCHANGED <<inst, starter, closer, opened, wire, call, disk, down>>
      /\ UNCHANGED <<plan, lost, doubled, raced, overlap>>
    BY DEF CloseEvent, files, bounds, history
<1>2. /\ Procs' = Procs
      /\ \A h \in Procs : /\ process'[h].doc = process[h].doc
                          /\ process'[h].alive = process[h].alive
      /\ client'.conn = client.conn
      /\ client'.initialized => client.initialized
      /\ client.failed => client'.failed
    BY CloseFacts
<1>3. process # <<>> /\ process' # <<>>
    BY CloseFacts DEF Procs
<1>4. Running' = Running /\ (CanSend' => CanSend) /\ (Good' => Good)
    BY <1>1, <1>2 DEF Running, CanSend, Good
<1>5. Live' => Live
    BY <1>1, <1>3, <1>4 DEF Live, FirstTime
<1>6. CanSend => client.conn \in Procs
    BY ProcessTypes DEF CanSend, Procs
<1> QED
    BY <1>1, <1>2, <1>4, <1>5, <1>6, QuietKeeps

LEMMA ExitContent ==
    ASSUME TypeOK, ServerInv, ContentInv, NEW g \in Procs, ExitEvent(g)
    PROVE  ContentInv'
<1>1. /\ Settled /\ UNCHANGED <<wire, call, disk, down, plan, lost, doubled, raced>>
      /\ overlap => overlap'
    BY DEF ExitEvent, bounds
<1>2. /\ Procs' = Procs
      /\ \A h \in Procs : /\ process'[h].doc = process[h].doc
                          /\ process'[h].alive = process[h].alive
    BY ExitFacts
<1>3. process # <<>> /\ process' # <<>>
    BY ExitFacts DEF Procs
<1>4. Good' => Good
    BY <1>1 DEF Good
<1>5. CanSend => client.conn \in Procs
    BY ProcessTypes DEF CanSend, Procs
<1>6. CASE client.stopping
    <2>1. UNCHANGED <<inst, client, starter, opened, overlap>>
        BY <1>6 DEF ExitEvent
    <2>2. Running' = Running /\ CanSend' = CanSend /\ Live' = Live
        BY <1>3, <2>1 DEF Running, CanSend, Live, FirstTime
    <2> QED
        BY <1>1, <1>2, <1>4, <1>5, <2>1, <2>2, QuietKeeps
<1>7. CASE ~client.stopping
    <2>1. /\ opened' = OpenedAfter("error")
          /\ \/ /\ inst' = StartingInst(CrashedInst) /\ starter = "none"
                /\ starter' = "importing"
             \/ inst' = CrashedInst /\ starter' = starter
        BY <1>7 DEF ExitEvent, Restarts, NoStartUnderWay
    <2>2. /\ CrashedInst \in Instance /\ StartingInst(CrashedInst) \in Instance
          /\ CrashedInst.state = "error"
          /\ StartingInst(CrashedInst).state = "starting"
        <3>1. inst \in Instance /\ CrashedInst \in Instance
            BY RecordTypes DEF TypeOK
        <3> QED
            BY <3>1, RecordTypes DEF CrashedInst, StartingInst, Instance
    <2>3. ~Running' /\ ~CanSend'
        BY <2>1, <2>2 DEF Running, CanSend
    <2>4. starter # "none" => ~Running
        BY DEF ServerInv, Staged
    <2>5. Live' => Live /\ ~Running
        BY <1>3, <2>1, <2>3, <2>4 DEF Live, FirstTime
    <2>6. /\ opened' /\ ~down' => opened /\ ~Running
          /\ ~Running => opened' = opened
        BY <1>1, <2>1, FlagTypes DEF OpenedAfter, RestTypes
    <2> QED
        BY <1>1, <1>2, <1>4, <2>1, <2>3, <2>5, <2>6, QuietKeeps
<1> QED
    BY <1>6, <1>7

(* Every call that waited for the start goes on.                           *)
LEMMA WaitersMove ==
    ASSUME TypeOK
    PROVE  /\ call' = [c \in Caller |-> Resumed(c)] =>
                \A c \in Caller :
                    /\ call'[c].ver = call[c].ver
                    /\ call'[c].pc = IF call[c].pc = "starting" THEN "didOpen"
                                     ELSE IF call[c].pc = "asking for start" THEN "request"
                                     ELSE call[c].pc
           /\ call' = [c \in Caller |-> Disappointed(c)] =>
                \A c \in Caller :
                    /\ call'[c].ver = call[c].ver
                    /\ call'[c].pc = IF call[c].pc = "starting" THEN AfterOpen(c)
                                     ELSE IF call[c].pc = "asking for start" THEN "done"
                                     ELSE call[c].pc
<1> DEFINE T == [pc : CallPc, ver : Nat, to : Nat, tries : 0 .. MaxRetries]
<1>1. \A c \in Caller : call[c] \in T
    BY TypeParts DEF CallTypes
<1>2. ASSUME NEW c \in Caller
      PROVE  /\ Resumed(c).ver = call[c].ver
             /\ Disappointed(c).ver = call[c].ver
             /\ Resumed(c).pc = IF call[c].pc = "starting" THEN "didOpen"
                                ELSE IF call[c].pc = "asking for start" THEN "request"
                                ELSE call[c].pc
             /\ Disappointed(c).pc = IF call[c].pc = "starting" THEN AfterOpen(c)
                                     ELSE IF call[c].pc = "asking for start" THEN "done"
                                     ELSE call[c].pc
    <2>1. call[c] \in T
        BY <1>1
    <2>2. Resumed(c).ver = call[c].ver /\ Disappointed(c).ver = call[c].ver
        BY WaitersGoOn
    <2>3. CASE call[c].pc = "starting"
        BY <2>1, <2>2, <2>3 DEF Resumed, Disappointed
    <2>4. CASE call[c].pc = "asking for start"
        BY <2>1, <2>2, <2>4 DEF Resumed, Disappointed
    <2>5. CASE call[c].pc \notin {"starting", "asking for start"}
        BY <2>1, <2>2, <2>5 DEF Resumed, Disappointed
    <2> QED
        BY <2>3, <2>4, <2>5
<1> HIDE DEF T
<1> QED
    BY <1>2

LEMMA InitializedContent == ASSUME TypeOK, ServerInv, ContentInv, Initialized PROVE ContentInv'
<1>0. /\ CallsSound /\ WireSound /\ OneEdit /\ OpenRuns /\ OpenedIsTold /\ Fresh /\ Corrected
    BY DEF ContentInv
<1>1. /\ starter = "initializing" /\ starter' = "none" /\ Settled
      /\ UNCHANGED <<process, opened, wire, disk, down, plan, lost, doubled, raced, overlap>>
      /\ call' = [c \in Caller |-> Resumed(c)] /\ inst' = RunningInst(inst)
      /\ client' = [client EXCEPT !.initialized = TRUE]
    BY DEF Initialized, bounds, history
<1>2. Running' /\ ~Running /\ Live /\ client'.conn = client.conn
    BY <1>1 DEF Running, ServerInv, Staged, Live, RunningInst, TypeOK, Instance, Client
<1>3. \A c \in Caller :
          /\ call'[c].ver = call[c].ver
          /\ call'[c].pc = IF call[c].pc = "starting" THEN "didOpen"
                           ELSE IF call[c].pc = "asking for start" THEN "request"
                           ELSE call[c].pc
    BY <1>1, WaitersMove
<1>4. \A c \in Caller : call[c].pc \notin {"sync", "open", "didOpen"}
    BY <1>1 DEF Settled, Ready
<1>5. CallsSound'
    <2> SUFFICES ASSUME NEW c \in Caller PROVE CallSound(c)'
        BY DEF CallsSound
    <2>1. CallSound(c) /\ plan' = plan
        BY <1>0, <1>1 DEF CallsSound
    <2>2. /\ call'[c].pc \notin {"sync", "open", "starting", "asking for start"}
          /\ call'[c].pc \in VersionPc => call[c].pc \in VersionPc
          /\ call'[c].pc \in {"idle", "checking", "reading", "changing"} => call'[c].pc = call[c].pc
        BY <1>3, <1>4 DEF VersionPc
    <2> QED
        BY <1>2, <1>3, <2>1, <2>2 DEF CallSound, Edits
<1>6. WireSound'
    <2>1. \A i \in Entries : call'[wire[i].call].pc = call[wire[i].call].pc
        BY <1>0, <1>3, CallIs DEF WireSound, WaitOf
    <2>2. \A i \in Entries : call'[wire[i].call].ver = call[wire[i].call].ver
        BY <1>3, CallIs
    <2> QED
        BY <1>0, <1>1, <2>1, <2>2 DEF WireSound, Entries, Procs
<1>7. OneEdit'
    <2>1. \A c \in plan.edits : Active(c)' => Active(c)
        BY <1>3, CallIs DEF Active
    <2>2. \A c \in plan.edits : call'[c].pc \in VersionPc => call[c].pc \in VersionPc
        BY <1>3, CallIs DEF VersionPc
    <2> QED
        BY <1>0, <1>1, <1>3, <2>1, <2>2, CallIs DEF OneEdit
<1>8. opened' => down' \/ lost'
    BY <1>0, <1>1, <1>2 DEF OpenRuns
<1>9. OpenRuns' /\ OpenedIsTold' /\ Fresh'
    BY <1>8 DEF OpenRuns, OpenedIsTold, Fresh, Good
<1>10. Corrected'
    <2> SUFFICES ASSUME Good', ~opened', NEW t \in Caller, Stale(t)'
                 PROVE  \E e \in plan.edits : Coming(e)'
        BY <1>1 DEF Corrected
    <2>1. Stale(t) /\ Good
        BY <1>1, <1>3 DEF Stale, StalePc, Good
    <2>2. PICK e \in plan.edits : Coming(e)
        BY <1>0, <1>1, <1>2, <2>1 DEF Corrected
    <2>3. call'[e].pc \in ComingPc
        BY <1>2, <1>3, <2>2, CallIs DEF Coming, ComingPc, LookingPc
    <2> QED
        BY <2>2, <2>3 DEF Coming
<1> QED
    BY <1>5, <1>6, <1>7, <1>9, <1>10 DEF ContentInv

LEMMA CleanupContent == ASSUME TypeOK, ServerInv, ContentInv, CleanupEnds PROVE ContentInv'
<1>0. /\ CallsSound /\ WireSound /\ OneEdit /\ OpenRuns /\ OpenedIsTold /\ Fresh /\ Corrected
    BY DEF ContentInv
<1>1. /\ closer["cleanup"].active /\ starter' = "none" /\ Settled
      /\ UNCHANGED <<inst, opened, wire, disk, down, plan, lost, doubled, raced, overlap>>
      /\ call' = [c \in Caller |-> Disappointed(c)]
      /\ Procs' = Procs /\ ~client'.initialized
    BY StopFacts DEF CleanupEnds, Closer, StopEnds
<1>2. ~Running /\ ~Running' /\ inst.attempts >= 1 /\ inst.attempts \in Nat
    BY <1>1 DEF Running, ServerInv, Staged, TypeOK, Instance
<1>3. \A c \in Caller :
          /\ call'[c].ver = call[c].ver
          /\ call'[c].pc = IF call[c].pc = "starting" THEN AfterOpen(c)
                           ELSE IF call[c].pc = "asking for start" THEN "done"
                           ELSE call[c].pc
          /\ AfterOpen(c) \in {"save", "pull"}
    BY <1>1, WaitersMove DEF AfterOpen
<1>4. \A c \in Caller : call[c].pc \notin {"sync", "open", "didOpen"}
    BY <1>1 DEF Settled, Ready
<1>5. CallsSound'
    <2> SUFFICES ASSUME NEW c \in Caller PROVE CallSound(c)'
        BY DEF CallsSound
    <2>1. CallSound(c) /\ plan' = plan
        BY <1>0, <1>1 DEF CallsSound
    <2>2. /\ call'[c].pc \notin {"sync", "open", "didOpen", "starting", "asking for start"}
          /\ call'[c].pc \in VersionPc => call[c].pc \in VersionPc
          /\ call'[c].pc \in {"idle", "checking", "reading", "changing"} => call'[c].pc = call[c].pc
        BY <1>3, <1>4 DEF VersionPc
    <2> QED
        BY <1>3, <2>1, <2>2 DEF CallSound, Edits
<1>6. WireSound'
    <2>1. \A i \in Entries : call'[wire[i].call].pc = call[wire[i].call].pc
        BY <1>0, <1>3, CallIs DEF WireSound, WaitOf
    <2>2. \A i \in Entries : call'[wire[i].call].ver = call[wire[i].call].ver
        BY <1>3, CallIs
    <2> QED
        BY <1>0, <1>1, <2>1, <2>2 DEF WireSound, Entries
<1>7. OneEdit'
    <2>1. \A c \in plan.edits : Active(c)' => Active(c)
        BY <1>3, CallIs DEF Active
    <2>2. \A c \in plan.edits : call'[c].pc \in VersionPc => call[c].pc \in VersionPc
        BY <1>3, CallIs DEF VersionPc
    <2> QED
        BY <1>0, <1>1, <1>3, <2>1, <2>2, CallIs DEF OneEdit
<1>8. opened' => down' \/ lost'
    BY <1>0, <1>1, <1>2 DEF OpenRuns
<1>9. OpenRuns' /\ OpenedIsTold' /\ Fresh'
    BY <1>8 DEF OpenRuns, OpenedIsTold, Fresh, Good
<1>10. ~Live'
    BY <1>1, <1>2 DEF Live, CanSend, FirstTime
<1> QED
    BY <1>5, <1>6, <1>7, <1>9, <1>10 DEF ContentInv, Corrected

(* The oldest entry is gone.                                               *)
LEMMA TailEntries ==
    ASSUME TypeOK, wire # <<>>, wire' = Tail(wire)
    PROVE  /\ \A i \in Entries' : i + 1 \in Entries /\ wire'[i] = wire[i + 1]
           /\ \A i \in Entries : i # 1 => \E j \in Entries' : j + 1 = i /\ wire'[j] = wire[i]
<1> DEFINE T == [call : Caller, kind : {"open", "change", "save"}, ver : Nat, to : Nat]
<1>1. wire \in Seq(T)
    BY DEF TypeOK
<1> HIDE DEF T
<1>2. /\ Len(wire) \in Nat /\ Len(wire) # 0 /\ Len(wire') = Len(wire) - 1
      /\ \A i \in 1 .. Len(wire) - 1 : wire'[i] = wire[i + 1]
    BY <1>1
<1>3. \A i \in Entries' : i + 1 \in Entries /\ wire'[i] = wire[i + 1]
    BY <1>2 DEF Entries
<1>4. ASSUME NEW i \in Entries, i # 1
      PROVE  i - 1 \in Entries' /\ (i - 1) + 1 = i
    BY <1>2, <1>4 DEF Entries
<1> QED
    BY <1>3, <1>4

LEMMA WriteContent == ASSUME TypeOK, ServerInv, ContentInv, WriteEnds PROVE ContentInv'
<1>0. /\ CallsSound /\ WireSound /\ OneEdit /\ OpenRuns /\ OpenedIsTold /\ Fresh /\ Corrected
    BY DEF ContentInv
<1> DEFINE head == Head(wire)
<1>1. PICK w : w = head
    OBVIOUS
<1>2. PICK c : c = w.call
    OBVIOUS
<1> HIDE DEF head
<1>3. /\ wire # <<>> /\ w.to \in Procs /\ c \in Caller
      /\ w.kind \in {"open", "change", "save"} /\ w.ver \in Nat
      /\ w = wire[1] /\ 1 \in Entries
      /\ Procs' = Procs
      /\ \A h \in Procs :
           /\ process'[h].alive = process[h].alive
           /\ process'[h].doc = IF h = w.to /\ Told(w) THEN w.ver ELSE process[h].doc
    <2>1. w = Head(wire)
        BY <1>1 DEF head
    <2>2. 1 \in Entries
        BY <2>1, <1>0, WriteFacts, CallIs DEF Entries
    <2> QED
        BY <1>0, <1>2, <2>1, <2>2, WriteFacts
<1>4. /\ Settled /\ wire' = Tail(wire)
      /\ UNCHANGED <<inst, starter, closer, disk, down, plan, overlap, raced>>
      /\ opened' = (opened \/ w.kind = "open")
      /\ lost' = (lost \/ /\ w.kind = "open"
                          /\ ~(Written(w) /\ w.to = client.conn /\ Running))
      /\ doubled' = (doubled \/ /\ w.kind = "open" /\ Written(w)
                                /\ process[w.to].doc # 0)
      /\ call' = [call EXCEPT ![c].pc = AfterNotification(c, w.kind)]
      /\ client' = [client EXCEPT !.failed = @ \/ (process' # process /\ ~Written(w))]
    BY <1>1, <1>2 DEF WriteEnds, bounds, head
<1>5. /\ client'.conn = client.conn /\ client'.initialized = client.initialized
      /\ client.failed => client'.failed
    BY <1>4 DEF TypeOK, Client
<1>6. /\ AfterNotification(c, w.kind) \in {"save", "pull"}
      /\ call'[c].pc = AfterNotification(c, w.kind) /\ call'[c].ver = call[c].ver
      /\ \A d \in Caller : d # c => call'[d] = call[d]
    <2>1. CASE w.kind = "open"
        BY <1>3, <1>4, <2>1 DEF TypeOK, AfterNotification, AfterOpen
    <2>2. CASE w.kind = "change"
        BY <1>3, <1>4, <2>2 DEF TypeOK, AfterNotification
    <2>3. CASE w.kind = "save"
        BY <1>3, <1>4, <2>3 DEF TypeOK, AfterNotification
    <2> QED
        BY <1>3, <2>1, <2>2, <2>3
<1>7. /\ call[c].pc = WaitOf(w.kind) /\ call[c].ver = w.ver
      /\ w.kind # "save" => w.ver >= 1
      /\ \A i \in Entries : i # 1 => wire[i].call # c
    BY <1>0, <1>2, <1>3 DEF WireSound
<1>8. /\ call[c].pc \in WirePc /\ Active(c)
      /\ call[c].pc \notin LookingPc /\ call[c].pc \notin ComingPc
      /\ call'[c].pc \notin VersionPc /\ call'[c].pc \notin StalePc
      /\ call'[c].pc \notin {"open", "didOpen"}
    BY <1>3, <1>6, <1>7 DEF WaitOf, WirePc, Active, LookingPc, ComingPc, VersionPc, StalePc
<1>9. /\ \A i \in Entries' : i + 1 \in Entries /\ wire'[i] = wire[i + 1]
      /\ \A i \in Entries : i # 1 => \E j \in Entries' : j + 1 = i /\ wire'[j] = wire[i]
    BY <1>3, <1>4, TailEntries
<1>10. \A d \in Caller : call[d].pc \notin {"sync", "open", "didOpen"}
    BY <1>4 DEF Settled, Ready
<1>11. /\ Running' = Running /\ (CanSend' => CanSend) /\ (Good' => Good)
       /\ ~down' => ~down
    BY <1>4, <1>5 DEF Running, CanSend, Good
<1>12. CallsSound'
    <2>1. CallSound(c)'
        BY <1>6 DEF CallSound, VersionPc
    <2> QED
        BY <1>0, <1>4, <1>6, <1>11, <2>1 DEF CallsSound, CallSound, Edits
<1>13. WireSound'
    <2>1. ASSUME NEW i \in Entries'
          PROVE  /\ wire'[i].to \in Procs'
                 /\ call'[wire'[i].call].pc = WaitOf(wire'[i].kind)
                 /\ call'[wire'[i].call].ver = wire'[i].ver
                 /\ wire'[i].kind # "save" => wire'[i].ver >= 1
        <3>1. i + 1 \in Entries /\ wire'[i] = wire[i + 1] /\ i + 1 # 1
            BY <1>9 DEF Entries
        <3>2. call'[wire[i + 1].call] = call[wire[i + 1].call]
            BY <1>6, <1>7, <3>1, CallIs
        <3> QED
            BY <1>0, <1>3, <3>1, <3>2 DEF WireSound
    <2>2. ASSUME NEW i \in Entries', NEW j \in Entries', wire'[i].call = wire'[j].call
          PROVE  i = j
        <3>1. i + 1 = j + 1
            BY <1>0, <1>9, <2>2 DEF WireSound
        <3> QED
            BY <3>1 DEF Entries
    <2> QED
        BY <1>0, <1>4, <2>1, <2>2 DEF WireSound
<1>14. OneEdit'
    <2>1. \A d \in plan.edits : Active(d)' => Active(d)
        BY <1>6, <1>8, CallIs DEF Active
    <2>2. \A d \in plan.edits : call'[d].pc \in VersionPc =>
                                    call[d].pc \in VersionPc /\ call'[d].ver = call[d].ver
        BY <1>6, <1>8, CallIs
    <2> QED
        BY <1>0, <1>4, <2>1, <2>2 DEF OneEdit
<1>15. ~lost' => ~lost /\ (w.kind = "open" => Written(w) /\ w.to = client.conn /\ Running)
    BY <1>4
<1>16. ~lost' /\ w.kind = "open" =>
           /\ client.conn # 0 /\ process'[client.conn].doc = w.ver /\ w.ver >= 1 /\ Running
    BY <1>3, <1>7, <1>15 DEF Told, Procs
<1>17. opened' <=> opened \/ w.kind = "open"
    BY <1>4
<1>18. OpenRuns'
    <2>1. \A d \in plan'.edits : call'[d].pc \notin {"open", "didOpen"}
        BY <1>4, <1>6, <1>8, <1>10, CallIs
    <2>2. opened' /\ ~down' /\ ~lost' => Running'
        BY <1>0, <1>4, <1>11, <1>15, <1>17 DEF OpenRuns
    <2> QED
        BY <2>1, <2>2 DEF OpenRuns
<1>19. OpenedIsTold'
    <2> SUFFICES ASSUME opened', Running', ~down', ~lost', ~overlap'
                 PROVE  client'.conn # 0 /\ process'[client'.conn].doc # 0
        BY DEF OpenedIsTold
    <2>1. CASE w.kind = "open"
        BY <1>5, <1>16, <2>1
    <2>2. CASE w.kind # "open"
        <3>1. client.conn # 0 /\ process[client.conn].doc # 0
            BY <1>0, <1>4, <1>11, <1>15, <1>17, <2>2 DEF OpenedIsTold
        <3>2. client.conn \in Procs
            BY <3>1, ProcessTypes DEF Procs
        <3> QED
            BY <1>3, <1>5, <1>7, <3>1, <3>2 DEF Told
    <2> QED
        BY <2>1, <2>2
<1>20. \A e \in Caller, k \in {"open", "change"} :
           Sent(e, k) /\ ~(w.kind = k /\ w.to = client.conn) => Sent(e, k)'
    BY <1>3, <1>5, <1>9 DEF Sent
<1>21. \A e \in Caller, k \in {"open", "change"} : Sent(e, k) /\ e # c => Sent(e, k)'
    BY <1>2, <1>3, <1>5, <1>9 DEF Sent
<1>22. Fresh'
    <2> SUFFICES ASSUME Good', opened', CanSend', process'[client'.conn].alive,
                        process'[client'.conn].doc # disk'
                 PROVE  \E e \in plan'.edits : Fixing(e)'
        BY DEF Fresh
    <2>1. /\ Good /\ CanSend /\ client.conn \in Procs /\ Running /\ starter = "none"
          /\ ~lost' /\ ~doubled' /\ ~raced /\ disk' = disk /\ plan' = plan
          /\ process'[client.conn].doc # disk /\ process[client.conn].alive
        <3>1. Good /\ CanSend /\ Running /\ ~lost' /\ ~doubled'
            BY <1>11 DEF Good, CanSend
        <3>2. client.conn \in Procs
            BY <3>1, ProcessTypes DEF CanSend, Procs
        <3>3. starter = "none"
            BY <3>1 DEF ServerInv, Staged
        <3> QED
            BY <1>3, <1>4, <1>5, <3>1, <3>2, <3>3 DEF Good
    <2>2. CASE w.kind = "open"
        <3>1. w.to = client.conn /\ Written(w) /\ w.ver # disk
            BY <1>15, <1>16, <2>1, <2>2
        <3>2. call[c].pc = "opening" /\ call[c].ver # disk
            BY <1>7, <2>2, <3>1 DEF WaitOf
        <3>3. c \notin plan.edits
            BY <1>0, <2>1, <3>2 DEF OneEdit, VersionPc
        <3>4. Stale(c)
            BY <3>2, <3>3 DEF Stale, StalePc
        <3>5. process[client.conn].doc = 0
            BY <1>4, <2>1, <2>2, <3>1
        <3>6. ~opened
            BY <1>0, <2>1, <3>5 DEF OpenedIsTold, Good
        <3>7. PICK e \in plan.edits : Coming(e)
            BY <1>0, <1>3, <2>1, <3>4, <3>6 DEF Corrected, Live
        <3>8. e # c /\ e \in Caller
            BY <3>3, CallIs
        <3>9. call[e].pc \in LookingPc \/ Sent(e, "open")
            <4>1. call[e].pc # "starting"
                BY <1>0, <2>1, <3>8 DEF CallsSound, CallSound
            <4> QED
                BY <1>10, <3>7, <3>8, <4>1 DEF Coming, ComingPc
        <3>10. Fixing(e)'
            BY <1>6, <1>21, <3>8, <3>9 DEF Fixing
        <3> QED
            BY <2>1, <3>7, <3>10
    <2>3. CASE w.kind # "open"
        <3>1. opened
            BY <1>17, <2>3
        <3>2. ~(w.kind = "change" /\ w.to = client.conn)
            <4> SUFFICES ASSUME w.kind = "change", w.to = client.conn PROVE FALSE
                OBVIOUS
            <4>1. process'[client.conn].doc = w.ver
                BY <1>3, <2>1 DEF Told, Written
            <4>2. call[c].pc = "changing"
                BY <1>7 DEF WaitOf
            <4>3. c \in plan.edits
                BY <1>0, <1>3, <4>2 DEF CallsSound, CallSound, Edits
            <4>4. call[c].ver = disk
                BY <1>0, <2>1, <4>2, <4>3 DEF OneEdit, VersionPc
            <4> QED
                BY <1>7, <2>1, <4>1, <4>4
        <3>3. process[client.conn].doc # disk
            BY <1>3, <2>1, <2>3, <3>2 DEF Told
        <3>4. PICK e \in plan.edits : Fixing(e)
            BY <1>0, <2>1, <3>1, <3>3 DEF Fresh
        <3>5. e \in Caller /\ (call[e].pc \in LookingPc => call'[e].pc \in LookingPc)
            BY <1>6, <1>8, CallIs
        <3>6. Fixing(e)'
            BY <1>20, <2>3, <3>2, <3>4, <3>5 DEF Fixing
        <3> QED
            BY <2>1, <3>4, <3>6
    <2> QED
        BY <2>2, <2>3
<1>23. Corrected'
    <2> SUFFICES ASSUME Good', Live', ~opened', NEW t \in Caller, Stale(t)'
                 PROVE  \E e \in plan'.edits : Coming(e)'
        BY DEF Corrected
    <2>1. Good /\ ~opened /\ w.kind # "open"
        BY <1>11, <1>17
    <2>2. Live
        <3>1. process' = <<>> => process = <<>>
            BY <1>1, <1>0, WriteFacts, ProcessTypes DEF TypeOK, head
        <3> QED
            BY <1>4, <1>11, <3>1 DEF Live, FirstTime
    <2>3. Stale(t)
        BY <1>4, <1>6, <1>8 DEF Stale
    <2>4. PICK e \in plan.edits : Coming(e)
        BY <1>0, <2>1, <2>2, <2>3 DEF Corrected
    <2>5. e \in Caller /\ (call[e].pc \in ComingPc => call'[e].pc \in ComingPc)
        BY <1>6, <1>8, CallIs
    <2>6. Coming(e)'
        BY <1>11, <1>20, <2>1, <2>4, <2>5 DEF Coming
    <2> QED
        BY <1>4, <2>4, <2>6
<1> QED
    BY <1>12, <1>13, <1>14, <1>18, <1>19, <1>22, <1>23 DEF ContentInv

LEMMA ContentStep == ASSUME TypeOK, ServerInv, ContentInv, Next PROVE ContentInv'
<1>1. CASE Starts
    BY <1>1, SpawnContent, ConnectContent, StartFailsContent DEF Starts
<1>2. CASE Stops
    BY <1>2, CleanupContent, UserStopContent DEF Stops
<1>3. CASE Events
    BY <1>3, WriteContent, ExitContent, CloseContent DEF Events, WriteFails, Procs
<1>4. CASE Deaths
    BY <1>4, DiesContent DEF Deaths, Procs
<1>5. CASE ToggleStops
    BY <1>5, StopContent DEF ToggleStops, Running, history
<1>6. CASE ShutdownStops
    BY <1>6, StopContent DEF ShutdownStops, history, bounds
<1>7. CASE ToggleStarts \/ ShutdownSkips
    BY <1>7, ToggleStartsContent, SkipContent
<1>8. CASE \E c \in Caller : GoesOn(c) \/ Hears(c) \/ Answered(c) \/ Modified(c) \/ Tool(c)
    BY <1>8, CallContentStep
<1>9. CASE \E c \in Caller : Edit(c)
    BY <1>9, EditContent
<1>10. CASE Initialized \/ WriteTaken
    BY <1>10, InitializedContent, WriteContent DEF WriteTaken
<1> QED
    BY <1>1, <1>2, <1>3, <1>4, <1>5, <1>6, <1>7, <1>8, <1>9, <1>10
       DEF Next, Progress, Server, User

-----------------------------------------------------------------------------
(* The invariant holds in every state.                                     *)

LEMMA InitLsp == ASSUME Init PROVE LspInv
<1>1. plan \in Plans /\ toggles = plan.toggles /\ toggles \in Nat /\ deaths \in Nat
    BY LanguageServerAssumption DEF Init
<1>2. TypeOK
    <2>1. /\ inst \in Instance /\ client \in Client
          /\ process \in Seq(Process) /\ {client.child, client.conn} \subseteq 0 .. Len(process)
          /\ starter = "none"
        BY DEF Init, Instance, State, Client
    <2>2. closer \in [Closer -> [active : BOOLEAN, conn : Nat, child : Nat]]
        BY DEF Init, Idle
    <2>3. wire = <<>> /\ disk = 1
        BY DEF Init
    <2>4. call \in [Caller -> [pc : CallPc, ver : Nat, to : Nat, tries : 0 .. MaxRetries]]
        BY LanguageServerAssumption DEF Init, CallPc
    <2>5. RestTypes
        BY <1>1 DEF Init, RestTypes
    <2> QED
        BY <2>1, <2>2, <2>3, <2>4, <2>5, TypeParts
           DEF ServerTypes, CloserTypes, CallTypes, WireTypes
<1>3. ServerInv
    <2>1. /\ inst.state = "stopped" /\ inst.attempts = 0 /\ inst.crashes = 0
          /\ inst.failure = "none" /\ ~inst.spent /\ starter = "none" /\ process = <<>>
          /\ ~client.initialized /\ Len(process) = 0
          /\ \A k \in Closer : ~closer[k].active
        BY DEF Init, Idle
    <2>2. Staged
        BY <1>1, <2>1, Times DEF Staged, Spawning, Running, Closer
    <2>3. Alone /\ ExitsDead
        BY <2>1 DEF Alone, ExitsDead, Procs, Spawning, Running
    <2>4. OneAlive
        BY <2>1 DEF OneAlive, NoneHeard, Procs
    <2>5. Counted
        <3>1. Spawned = 0 /\ Attempts * 0 = 0 /\ Attempts * (MaxRestarts + 1) \in Nat
              /\ Attempts \in Nat
            BY <2>1, <1>2, BoundTypes, Times DEF Spawned
        <3> QED
            BY <2>1, <3>1 DEF Counted
    <2> QED
        BY <2>2, <2>3, <2>4, <2>5 DEF ServerInv
<1>4. ContentInv
    <2>1. /\ \A c \in Caller : call[c].pc = "idle" /\ call[c].ver = 0
          /\ wire = <<>> /\ disk = 1 /\ ~opened /\ Entries = {}
        BY DEF Init, Entries
    <2>2. plan.edits \subseteq Caller
        BY <1>2, BoundTypes
    <2>3. CallsSound
        BY <2>1 DEF CallsSound, CallSound, VersionPc
    <2>4. WireSound
        BY <2>1 DEF WireSound
    <2>5. OneEdit /\ OpenRuns /\ OpenedIsTold /\ Fresh
        BY <2>1, <2>2 DEF OneEdit, OpenRuns, OpenedIsTold, Fresh, VersionPc, Active
    <2>6. Corrected
        BY <2>1 DEF Corrected, Stale, StalePc
    <2> QED
        BY <2>3, <2>4, <2>5, <2>6 DEF ContentInv
<1> QED
    BY <1>2, <1>3, <1>4 DEF LspInv

LEMMA LspStays == ASSUME LspInv, UNCHANGED vars PROVE LspInv'
<1>1. /\ UNCHANGED <<inst, client, process, starter, closer, opened, wire, call, disk, down>>
      /\ UNCHANGED <<plan, toggles, deaths, overlap, lost, doubled, raced, unheard>>
    BY DEF vars, server, files, bounds, history
<1>2. TypeOK' = TypeOK
    BY <1>1 DEF TypeOK
<1>3. ServerInv'
    BY <1>1, ServerStays DEF LspInv
<1>4. /\ Running' = Running /\ CanSend' = CanSend /\ Live' = Live /\ Good' = Good
      /\ \A e \in Caller : Fixing(e)' = Fixing(e) /\ Coming(e)' = Coming(e) /\ Stale(e)' = Stale(e)
    BY <1>1 DEF Running, CanSend, Live, FirstTime, Good, Fixing, Coming, Stale, Sent, Entries
<1>5. CallsSound' /\ WireSound' /\ OneEdit' /\ OpenRuns' /\ OpenedIsTold'
    BY <1>1, <1>4 DEF LspInv, ContentInv, CallsSound, CallSound, Edits, WireSound, Entries, Procs,
       OneEdit, Active, OpenRuns, OpenedIsTold
<1>6. Fresh' /\ Corrected'
    <2>1. plan.edits \subseteq Caller
        BY BoundTypes DEF LspInv
    <2> QED
        BY <1>1, <1>4, <2>1 DEF LspInv, ContentInv, Fresh, Corrected
<1> QED
    BY <1>2, <1>3, <1>5, <1>6 DEF LspInv, ContentInv

LEMMA LspNext == ASSUME LspInv, Next PROVE LspInv'
<1>1. TypeOK'
    <2>1. CASE \E c \in Caller : GoesOn(c) \/ Hears(c) \/ Answered(c) \/ Modified(c)
                                   \/ Edit(c) \/ Tool(c)
        BY <2>1, CallTypeStep DEF LspInv
    <2>2. CASE \/ Starts \/ Stops \/ Events \/ Deaths \/ Initialized \/ WriteTaken
               \/ ToggleStops \/ ToggleStarts \/ ShutdownStops \/ ShutdownSkips
        BY <2>2, ServerTypeStep DEF LspInv, ContentInv
    <2> QED
        BY <2>1, <2>2 DEF Next, Progress, Server, User
<1>2. ServerInv'
    BY ServerStep DEF LspInv, ContentInv
<1>3. ContentInv'
    BY ContentStep DEF LspInv
<1> QED
    BY <1>1, <1>2, <1>3 DEF LspInv

LEMMA LspInvariant == Spec => []LspInv
<1>1. LspInv /\ [Next]_vars => LspInv'
    BY LspNext, LspStays
<1> QED
    BY InitLsp, <1>1, PTL DEF Spec

(* Whatever fails and dies, at most one server process is alive and the    *)
(* client holds it, unless a start began during a stop; and an instance    *)
(* that the user does not toggle spawns a bounded number of processes, as  *)
(* many as its two counters allow together.                                *)
THEOREM ServerIsSafe == Spec => []ServerSafe
<1>1. LspInv => ServerSafe
    <2> SUFFICES ASSUME LspInv PROVE ServerSafe
        OBVIOUS
    <2>1. OneServer
        BY DEF LspInv, ServerInv, OneAlive, Heard, OneServer, Procs
    <2>2. SpawnsBounded
        <3>1. Spawned >= Len(process) /\ Spawned \in Nat /\ Len(process) \in Nat
            BY ProcessTypes DEF LspInv, Spawned
        <3>2. Attempts * (MaxRestarts + 1) \in Nat
            BY BoundTypes, Times DEF LspInv
        <3>3. plan.toggles = 0 /\ ~overlap => Spawned <= Attempts * (MaxRestarts + 1)
            BY DEF LspInv, ServerInv, Counted
        <3> DEFINE most == Attempts * (MaxRestarts + 1)
        <3>4. most \in Nat /\ (plan.toggles = 0 /\ ~overlap => Spawned <= most)
            BY <3>2, <3>3
        <3> HIDE DEF most
        <3>5. plan.toggles = 0 /\ ~overlap => Len(process) <= most
            BY <3>1, <3>4
        <3> QED
            BY <3>5 DEF SpawnsBounded, most
    <2> QED
        BY <2>1, <2>2 DEF ServerSafe, LspInv
<1> QED
    BY <1>1, LspInvariant, PTL

(* A file that counts as open is open in the process that the client       *)
(* holds, and when all calls have ended that process has the content of    *)
(* the file on disk: whatever edits, questions, restarts and stops did in  *)
(* between, but for the overlaps that the code does not prevent.           *)
THEOREM ContentIsSafe == Spec => []ContentSafe
<1>1. LspInv => ContentSafe
    <2> SUFFICES ASSUME LspInv PROVE ContentSafe
        OBVIOUS
    <2>1. OpenedIsTold /\ Fresh /\ WireSound /\ plan.edits \subseteq Caller
        BY BoundTypes DEF LspInv, ContentInv
    <2>2. ServerHasContent
        <3> SUFFICES ASSUME Quiescent, Good, opened, CanSend, process[client.conn].alive
                     PROVE  process[client.conn].doc = disk
            BY DEF ServerHasContent, Good
        <3>1. \A e \in Caller : ~Fixing(e)
            <4> SUFFICES ASSUME NEW e \in Caller, Fixing(e) PROVE FALSE
                OBVIOUS
            <4>1. call[e].pc \in {"idle", "done"}
                BY DEF Quiescent, Active
            <4>2. \E i \in Entries : wire[i].call = e
                BY <4>1 DEF Fixing, LookingPc, Sent
            <4> QED
                BY <2>1, <4>1, <4>2, NoEntry DEF WirePc, LspInv
        <3> QED
            BY <2>1, <3>1 DEF Fresh
    <2> QED
        BY <2>1, <2>2 DEF ContentSafe
<1> QED
    BY <1>1, LspInvariant, PTL

=============================================================================
