--------------------------- MODULE LanguageServer ---------------------------
(***************************************************************************)
(* One language server of pi-lsp: the JSON-RPC client that owns its child  *)
(* process (client.ts), the instance that starts, restarts and stops it    *)
(* (instance.ts), and what the manager does with one file: opening it,     *)
(* following edits, asking questions (manager.ts, tools.ts, index.ts).     *)
(*                                                                         *)
(* Everything runs in one thread.  A call is at an await, or about to take *)
(* the steps up to its next await; such steps come before any event.       *)
(* Start-up is one coroutine that all callers share.  Each spawn makes a   *)
(* new process and a new connection: the n-th element of process.  Exit    *)
(* and close events, answers, time-outs and writes come in any order.      *)
(***************************************************************************)
EXTENDS Naturals, Sequences, FiniteSets

CONSTANTS Caller,      \* calls of the edit hook and of the lsp tool
          MaxRestarts, \* config.maxRestarts
          MaxRetries,  \* MAX_RETRIES_FOR_TRANSIENT_ERRORS
          Plans        \* bounds: which calls edit and which ask, how often the
                       \* user toggles the server, how many processes die by
                       \* themselves; and whether restartOnCrash is set

VARIABLES
    inst,     \* the instance: state, counters, the last start-up failure
    client,   \* the client: current process and connection, its flags
    process,  \* every process spawned, with its connection
    starter,  \* where doStart is
    closer,   \* the calls of client.stop in progress
    opened,   \* whether the manager believes the file open in the server
    wire,     \* notifications handed to the connection and not yet written
    call,     \* where each call is
    disk,     \* the version of the file's content
    down,     \* whether the manager was shut down
    plan, toggles, deaths, \* what is left of the bounds
    overlap,  \* a start began while a stop was in progress
    lost,     \* a didOpen was counted whose server had gone meanwhile
    doubled,  \* a didOpen reached a server that had the file open
    raced,    \* two edits of the file were synchronized at the same time, or
              \* a call held what it had read while the server was started again
    unheard   \* processes whose exit nobody acts on: it does not count as a
              \* crash, or it came while another process was being stopped

server == <<inst, client, process, starter, closer>>
files == <<opened, wire, call, disk>>
bounds == <<plan, toggles, deaths>>
history == <<overlap, lost, doubled, raced, unheard>>
vars == <<server, files, down, bounds, history>>

ASSUME LanguageServerAssumption ==
    /\ MaxRestarts \in Nat
    /\ MaxRetries \in Nat
    /\ Plans \subseteq [edits : SUBSET Caller, tools : SUBSET Caller,
                        toggles : Nat, deaths : Nat, restarts : BOOLEAN]
    /\ \A p \in Plans : p.edits \cap p.tools = {}

State == {"stopped", "starting", "running", "stopping", "error"}
Closer == {"cleanup", "toggle", "shutdown"}

(* A call is about to go on in the first set, waits in the second.         *)
Ready == {"sync", "open", "didOpen", "save", "pull", "ask", "request"}
Waiting == {"checking", "reading", "read", "starting", "asking for start", "opening",
            "changing", "saving", "pulling", "asking", "sleeping"}

Instance == [state : State, crashes : Nat, attempts : Nat,
             failure : {"none", "retry", "permanent"}, spent : BOOLEAN]
Client == [child : Nat, conn : Nat, initialized : BOOLEAN, failed : BOOLEAN,
           stopping : BOOLEAN]
Process == [alive : BOOLEAN, exit : {"none", "loud", "quiet"}, closing : BOOLEAN,
            link : {"none", "open", "closed", "disposed"},
            doc : Nat]

TypeOK ==
    /\ inst \in Instance
    /\ client \in Client
    /\ process \in Seq(Process)
    /\ {client.child, client.conn} \subseteq 0 .. Len(process)
    /\ starter \in {"none", "importing", "spawned", "initializing", "cleaning"}
    /\ closer \in [Closer -> [active : BOOLEAN, conn : Nat, child : Nat]]
    /\ opened \in BOOLEAN
    /\ wire \in Seq([call : Caller, kind : {"open", "change", "save"},
                     ver : Nat, to : Nat])
    /\ call \in [Caller -> [pc : {"idle", "done"} \cup Ready \cup Waiting,
                            ver : Nat, to : Nat, tries : 0 .. MaxRetries]]
    /\ disk \in Nat
    /\ down \in BOOLEAN
    /\ plan \in Plans
    /\ toggles \in Nat
    /\ deaths \in Nat
    /\ {overlap, lost, doubled, raced} \subseteq BOOLEAN
    /\ unheard \subseteq Nat

Idle == [active |-> FALSE, conn |-> 0, child |-> 0]

Init ==
    /\ inst = [state |-> "stopped", crashes |-> 0, attempts |-> 0,
               failure |-> "none", spent |-> FALSE]
    /\ client = [child |-> 0, conn |-> 0, initialized |-> FALSE,
                 failed |-> FALSE, stopping |-> FALSE]
    /\ process = <<>>
    /\ starter = "none"
    /\ closer = [k \in Closer |-> Idle]
    /\ opened = FALSE
    /\ wire = <<>>
    /\ call = [c \in Caller |-> [pc |-> "idle", ver |-> 0, to |-> 0, tries |-> 0]]
    /\ disk = 1
    /\ down = FALSE
    /\ plan \in Plans
    /\ toggles = plan.toggles
    /\ deaths = plan.deaths
    /\ overlap = FALSE /\ lost = FALSE /\ doubled = FALSE /\ raced = FALSE
    /\ unheard = {}

Edits(c) == c \in plan.edits
Running == inst.state = "running"
(* isHealthy and the checks of client.sendRequest and sendNotification.    *)
CanSend == Running /\ client.initialized /\ client.conn # 0 /\ ~client.failed
Settled == \A c \in Caller : call[c].pc \notin Ready
Stopping == closer["toggle"].active \/ closer["shutdown"].active
Active(c) == call[c].pc \notin {"idle", "done"}

(* A bug: only a stop by the user forgets the open file.                   *)
OpenedAfter_Stopped(state) == opened /\ (down \/ ~Running \/ state # "stopping")

(* The manager's listener: leaving running for stopped, error or stopping  *)
(* forgets the open file, unless the manager has forgotten the server.     *)
OpenedAfter(state) ==
    opened /\ (down \/ ~Running \/ state \notin {"stopped", "error", "stopping"})

-----------------------------------------------------------------------------
(* Starting.                                                               *)

(* doStart throws before it changes anything.                              *)
Refuses(i) ==
    \/ i.failure = "permanent"
    \/ i.spent
    \/ i.failure = "retry" /\ i.attempts >= MaxRestarts
    \/ i.state = "error" /\ i.crashes > MaxRestarts

(* A bug: each caller starts the server.                                   *)
NoStartUnderWay_Ignored == TRUE

(* startingPromise is undefined.                                           *)
NoStartUnderWay == starter = "none"

(* A bug: the attempts that are left are counted down.                     *)
StartingInst_CountsDown(i) == [i EXCEPT !.state = "starting", !.attempts = @ - 1]

StartingInst(i) == [i EXCEPT !.state = "starting", !.attempts = @ + 1]
StartingClient(c) == [c EXCEPT !.failed = FALSE, !.initialized = FALSE]

(* doStart up to its first await.                                          *)
BeginStart ==
    /\ NoStartUnderWay
    /\ ~Refuses(inst)
    /\ inst' = StartingInst(inst)
    /\ client' = StartingClient(client)
    /\ starter' = "importing"
    /\ overlap' = (overlap \/ Stopping)

(* The process is spawned, before its spawn event.                         *)
Spawn ==
    /\ Settled
    /\ starter = "importing"
    /\ starter' = "spawned"
    /\ process' = Append(process,
                         [alive |-> TRUE, exit |-> "none", closing |-> FALSE,
                          link |-> "none", doc |-> 0])
    /\ client' = [client EXCEPT !.child = Len(process')]
    /\ raced' = \/ raced
                \/ /\ process # <<>> \/ inst.attempts > 1
                   /\ \E c \in Caller : Active(c) /\ call[c].ver \notin {0, disk}
    /\ UNCHANGED <<inst, closer, files, down, bounds,
                   overlap, lost, doubled, unheard>>

(* The connection is made and the initialize request goes out.             *)
Connect ==
    /\ Settled
    /\ starter = "spawned"
    /\ client.child # 0
    /\ starter' = "initializing"
    /\ process' = [process EXCEPT ![client.child].link = "open"]
    /\ client' = [client EXCEPT !.conn = client.child]
    /\ UNCHANGED <<inst, closer, files, down, bounds, history>>

(* A bug: a successful start forgets the crashes.                          *)
RunningInst_Forgives(i) == [i EXCEPT !.state = "running", !.attempts = 0,
                                     !.failure = "none", !.spent = FALSE,
                                     !.crashes = 0]

RunningInst(i) == [i EXCEPT !.state = "running", !.attempts = 0,
                            !.failure = "none", !.spent = FALSE]

(* Callers that awaited startingPromise go on with the file or request.    *)
Resumed(c) == CASE call[c].pc = "starting" -> [call[c] EXCEPT !.pc = "didOpen"]
                [] call[c].pc = "asking for start" -> [call[c] EXCEPT !.pc = "request"]
                [] OTHER -> call[c]

Initialized ==
    /\ Settled
    /\ starter = "initializing"
    /\ ~client.failed
    /\ client.conn # 0
    /\ process[client.conn].alive /\ process[client.conn].link = "open"
    /\ inst' = RunningInst(inst)
    /\ client' = [client EXCEPT !.initialized = TRUE]
    /\ starter' = "none"
    /\ call' = [c \in Caller |-> Resumed(c)]
    /\ UNCHANGED <<process, closer, opened, wire, disk, down, bounds, history>>

FailedInst(i, failure) ==
    [i EXCEPT !.state = "error", !.failure = failure,
              !.spent = (failure = "retry" /\ i.attempts >= MaxRestarts)]

(* client.stop up to its first await: it remembers what it has to clean up. *)
BeginStop(k) ==
    closer' = [closer EXCEPT ![k] = [active |-> TRUE, conn |-> client.conn,
                                     child |-> client.child]]

(* The spawn fails, initialize is refused, rejected or times out; the      *)
(* cleanup of the attempt begins.                                          *)
StartFails(failure) ==
    /\ Settled
    /\ \/ starter \in {"importing", "initializing"}
       \/ starter = "spawned" /\ client.child = 0
    /\ inst' = FailedInst(inst, failure)
    /\ opened' = OpenedAfter("error")
    /\ starter' = "cleaning"
    /\ BeginStop("cleanup")
    /\ client' = [client EXCEPT !.stopping = TRUE]
    /\ UNCHANGED <<process, wire, call, disk, down, bounds, history>>

-----------------------------------------------------------------------------
(* Stopping.                                                               *)

StopInst(k) ==
    /\ ~closer[k].active
    /\ inst' = [inst EXCEPT !.state = "stopping"]
    /\ opened' = OpenedAfter("stopping")
    /\ BeginStop(k)
    /\ client' = [client EXCEPT !.stopping = TRUE]

(* The user toggles the server in the list of servers.                     *)
ToggleStops ==
    /\ Settled /\ ~down /\ toggles > 0
    /\ Running
    /\ StopInst("toggle")
    /\ toggles' = toggles - 1
    /\ UNCHANGED <<process, starter, wire, call, disk, down, plan, deaths,
                   history>>

ToggleStarts ==
    /\ Settled /\ ~down /\ toggles > 0
    /\ inst.state \in {"stopped", "error"}
    /\ BeginStart
    /\ toggles' = toggles - 1
    /\ UNCHANGED <<process, closer, files, down, plan, deaths,
                   lost, doubled, raced, unheard>>

(* The session ends: a server that runs or failed is stopped first.        *)
ShutdownStops ==
    /\ Settled /\ ~down
    /\ inst.state \in {"running", "error"}
    /\ StopInst("shutdown")
    /\ UNCHANGED <<process, starter, wire, call, disk, down, bounds, history>>

ShutdownSkips ==
    /\ Settled /\ ~down /\ ~closer["shutdown"].active
    /\ inst.state \notin {"running", "error"}
    /\ down' = TRUE
    /\ opened' = FALSE
    /\ UNCHANGED <<server, wire, call, disk, bounds, history>>

(* The connection is disposed of, the process loses its listeners and is   *)
(* killed.                                                                 *)
Discarded(k) ==
    [g \in 1 .. Len(process) |->
        [process[g] EXCEPT
            !.link = IF g = closer[k].conn THEN "disposed" ELSE @,
            !.alive = @ /\ g # closer[k].child,
            !.exit = IF g = closer[k].child THEN "none" ELSE @,
            !.closing = @ /\ g # closer[k].conn]]

(* What client.stop leaves behind; failed: the server did not answer.      *)
StoppedClient(k, failed) ==
    [child |-> IF client.child = closer[k].child THEN 0 ELSE client.child,
     conn |-> IF client.conn = closer[k].conn THEN 0 ELSE client.conn,
     initialized |-> FALSE, stopping |-> FALSE,
     failed |-> client.failed \/ failed]

Answers(g) == process[g].alive /\ process[g].link = "open"

StopOutcome(k) ==
    IF closer[k].conn = 0 THEN {FALSE}
    ELSE IF Answers(closer[k].conn) THEN BOOLEAN ELSE {TRUE}

(* Callers that awaited a start that failed: openOnServer gives the file   *)
(* up, a request fails.                                                    *)
AfterOpen(c) == IF Edits(c) THEN "save" ELSE "pull"
Disappointed(c) ==
    CASE call[c].pc = "starting" -> [call[c] EXCEPT !.pc = AfterOpen(c)]
      [] call[c].pc = "asking for start" -> [call[c] EXCEPT !.pc = "done"]
      [] OTHER -> call[c]

StopEnds(k) ==
    /\ Settled
    /\ closer[k].active
    /\ \E failed \in StopOutcome(k) : client' = StoppedClient(k, failed)
    /\ process' = Discarded(k)
    /\ closer' = [closer EXCEPT ![k] = Idle]
    /\ UNCHANGED <<wire, disk, bounds, history>>

CleanupEnds ==
    /\ StopEnds("cleanup")
    /\ starter' = "none"
    /\ call' = [c \in Caller |-> Disappointed(c)]
    /\ UNCHANGED <<inst, opened, down>>

ToggleEnds ==
    /\ StopEnds("toggle")
    /\ inst' = [inst EXCEPT !.state = "stopped"]
    /\ opened' = OpenedAfter("stopped")
    /\ UNCHANGED <<starter, call, down>>

ShutdownEnds ==
    /\ StopEnds("shutdown")
    /\ inst' = [inst EXCEPT !.state = "stopped"]
    /\ down' = TRUE
    /\ opened' = FALSE
    /\ UNCHANGED <<starter, call>>

-----------------------------------------------------------------------------
(* The process and its connection.                                         *)

(* A process exits by itself: with a code other than 0, or without one.    *)
Dies(g, exit) ==
    /\ Settled
    /\ deaths > 0
    /\ process[g].alive /\ process[g].link = "open"
    /\ process' = [process EXCEPT ![g].alive = FALSE, ![g].exit = exit,
                                  ![g].closing = TRUE]
    /\ deaths' = deaths - 1
    /\ unheard' = IF exit = "quiet" THEN unheard \cup {g} ELSE unheard
    /\ UNCHANGED <<inst, client, starter, closer, files, down, plan, toggles,
                   overlap, lost, doubled, raced>>

(* A bug: the connection of a process that crashed is not disposed of.     *)
Dispose_Forgotten(procs, g) == procs

Dispose(procs, g) == IF g = 0 THEN procs
                     ELSE [procs EXCEPT ![g].link = "disposed", ![g].closing = FALSE]

CrashedInst == [inst EXCEPT !.state = "error", !.crashes = @ + 1]
CrashedClient == [client EXCEPT !.initialized = FALSE, !.failed = ~client.initialized]

(* The crash handler starts the server again before it disposes of the     *)
(* connection.                                                             *)
Restarts(i) == /\ plan.restarts
               /\ i.crashes <= MaxRestarts
               /\ NoStartUnderWay
               /\ ~Refuses(i)

(* A stop in progress will dispose of its connection.                      *)
BeingStopped(g) == \E k \in Closer : closer[k].active /\ closer[k].conn = g

(* The exit handler; while any stop is in progress it does nothing.        *)
ExitEvent(g) ==
    /\ Settled
    /\ process[g].exit = "loud"
    /\ LET handled == [process EXCEPT ![g].exit = "none"] IN
       IF client.stopping
       THEN /\ process' = handled
            /\ unheard' = IF BeingStopped(g) THEN unheard ELSE unheard \cup {g}
            /\ UNCHANGED <<inst, client, starter, opened, overlap>>
       ELSE /\ process' = Dispose(handled, client.conn)
            /\ opened' = OpenedAfter("error")
            /\ UNCHANGED unheard
            /\ IF Restarts(CrashedInst)
               THEN /\ inst' = StartingInst(CrashedInst)
                    /\ client' = StartingClient(CrashedClient)
                    /\ starter' = "importing"
                    /\ overlap' = (overlap \/ Stopping)
               ELSE /\ inst' = CrashedInst
                    /\ client' = CrashedClient
                    /\ UNCHANGED <<starter, overlap>>
    /\ UNCHANGED <<closer, wire, call, disk, down, bounds, lost, doubled, raced>>

CloseEvent(g) ==
    /\ Settled
    /\ process[g].closing
    /\ process' = [process EXCEPT ![g].closing = FALSE, ![g].link = "closed"]
    /\ client' = IF client.stopping THEN client
                 ELSE [client EXCEPT !.initialized = FALSE,
                                     !.failed = @ \/ ~client.initialized]
    /\ UNCHANGED <<inst, starter, closer, files, down, bounds, history>>

(* The oldest notification is written, or cannot be: then the connection   *)
(* reports an error and is disposed of, and the caller is told nothing.    *)
Written(w) == process[w.to].alive
AfterWrite(w) ==
    IF Written(w)
    THEN [process EXCEPT ![w.to].doc = IF w.kind = "save" THEN @ ELSE w.ver]
    ELSE IF client.stopping \/ process[w.to].link = "disposed" THEN process
    ELSE Dispose(process, client.conn)

AfterNotification(c, kind) ==
    CASE kind = "open" -> AfterOpen(c)
      [] kind = "change" -> "save"
      [] kind = "save" -> "pull"

WriteEnds ==
    /\ Settled
    /\ wire # <<>>
    /\ LET w == Head(wire) IN
       /\ process' = AfterWrite(w)
       /\ client' = [client EXCEPT !.failed = @ \/ (process' # process /\ ~Written(w))]
       /\ opened' = (opened \/ w.kind = "open")
       /\ call' = [call EXCEPT ![w.call].pc = AfterNotification(w.call, w.kind)]
       /\ lost' = (lost \/ /\ w.kind = "open"
                           /\ ~(Written(w) /\ w.to = client.conn /\ Running))
       /\ doubled' = (doubled \/ /\ w.kind = "open" /\ Written(w)
                                 /\ process[w.to].doc # 0)
    /\ wire' = Tail(wire)
    /\ UNCHANGED <<inst, starter, closer, disk, down, bounds,
                   overlap, raced, unheard>>

-----------------------------------------------------------------------------
(* The calls of the edit hook and of the tool.                             *)

Goto(c, pc) == call' = [call EXCEPT ![c].pc = pc]
Only == UNCHANGED <<server, opened, wire, disk, down, bounds, history>>
AfterPull(c) == IF Edits(c) THEN "done" ELSE "ask"

(* A tool of the session wrote the file; the hook synchronizes it.         *)
Edit(c) ==
    /\ Settled /\ ~down
    /\ Edits(c) /\ call[c].pc = "idle"
    /\ disk' = disk + 1
    /\ Goto(c, "reading")
    /\ raced' = (raced \/ \E d \in plan.edits : Active(d))
    /\ UNCHANGED <<server, opened, wire, down, bounds, overlap, lost, doubled, unheard>>

(* The lsp tool: a server that failed or changes its state is not asked.   *)
Tool(c) ==
    /\ Settled /\ ~down
    /\ c \in plan.tools /\ call[c].pc = "idle"
    /\ Goto(c, IF inst.state \in {"running", "stopped"} THEN "checking" ELSE "done")
    /\ Only

(* The file exists; if it is open it is not read again.                    *)
Checked(c) ==
    /\ Settled
    /\ call[c].pc = "checking"
    /\ Goto(c, IF opened THEN "ask" ELSE "reading")
    /\ Only

Read(c) ==
    /\ Settled
    /\ call[c].pc = "reading"
    /\ call' = [call EXCEPT ![c].pc = "read", ![c].ver = disk]
    /\ Only

(* A bug: an edited file is opened, never changed.                         *)
AfterRead_Opens(c) == IF down THEN AfterPull(c) ELSE "open"

AfterRead(c) == CASE down -> AfterPull(c)
                  [] ~down /\ Edits(c) -> "sync"
                  [] ~down /\ ~Edits(c) -> "open"
ReadEnds(c) ==
    /\ Settled
    /\ call[c].pc = "read"
    /\ Goto(c, AfterRead(c))
    /\ Only

Send(c, kind, pc) ==
    /\ CanSend
    /\ wire' = Append(wire, [call |-> c, kind |-> kind, ver |-> call[c].ver,
                             to |-> client.conn])
    /\ Goto(c, pc)
    /\ UNCHANGED <<server, opened, disk, down, bounds, history>>

(* changeFile.                                                             *)
Sync(c) ==
    /\ call[c].pc = "sync"
    /\ \/ Running /\ opened /\ Send(c, "change", "changing")
       \/ Running /\ opened /\ ~CanSend /\ Goto(c, "save") /\ Only
       \/ ~(Running /\ opened) /\ Goto(c, "open") /\ Only

(* start() of a caller: it starts the server, waits for the start under    *)
(* way, or is refused.                                                     *)
EnsureStarted(c, waiting, refused) ==
    \/ /\ BeginStart
       /\ Goto(c, waiting)
       /\ UNCHANGED <<process, closer, opened, wire, disk, down, bounds,
                      lost, doubled, raced, unheard>>
    \/ ~NoStartUnderWay /\ Goto(c, waiting) /\ Only
    \/ NoStartUnderWay /\ Refuses(inst) /\ Goto(c, refused) /\ Only

(* openOnServer.                                                           *)
Open(c) ==
    /\ call[c].pc = "open"
    /\ \/ Running /\ Goto(c, "didOpen") /\ Only
       \/ ~Running /\ EnsureStarted(c, "starting", AfterOpen(c))

DidOpen(c) ==
    /\ call[c].pc = "didOpen"
    /\ \/ ~opened /\ Send(c, "open", "opening")
       \/ (opened \/ ~CanSend) /\ Goto(c, AfterOpen(c)) /\ Only

(* saveFile.                                                               *)
Save(c) ==
    /\ call[c].pc = "save"
    /\ \/ ~down /\ Running /\ opened /\ Send(c, "save", "saving")
       \/ (down \/ ~Running \/ ~opened \/ ~CanSend) /\ Goto(c, "pull") /\ Only

Asks(c, pc) == call' = [call EXCEPT ![c].pc = pc, ![c].to = client.conn]

(* pullDiagnosticsForFile.                                                 *)
Pull(c) ==
    /\ call[c].pc = "pull"
    /\ \/ ~down /\ Running /\ opened /\ CanSend /\ Asks(c, "pulling") /\ Only
       \/ (down \/ ~Running \/ ~opened \/ ~CanSend) /\ Goto(c, AfterPull(c)) /\ Only

(* manager.sendRequest.                                                    *)
Ask(c) ==
    /\ call[c].pc = "ask"
    /\ \/ down /\ Goto(c, "done") /\ Only
       \/ ~down /\ Running /\ Goto(c, "request") /\ Only
       \/ ~down /\ ~Running /\ EnsureStarted(c, "asking for start", "done")

Request(c) ==
    /\ call[c].pc = "request"
    /\ \/ CanSend /\ Asks(c, "asking") /\ Only
       \/ ~CanSend /\ Goto(c, "done") /\ Only

(* The server answers, says that its content was modified, or the          *)
(* connection was disposed of.                                             *)
Answered(c) ==
    /\ Settled
    /\ call[c].pc \in {"asking", "pulling"}
    /\ Answers(call[c].to)
    /\ Goto(c, IF call[c].pc = "asking" THEN "done" ELSE AfterPull(c))
    /\ Only

Modified(c) ==
    /\ Settled
    /\ call[c].pc = "asking"
    /\ Answers(call[c].to)
    /\ call[c].tries < MaxRetries
    /\ call' = [call EXCEPT ![c].pc = "sleeping", ![c].tries = @ + 1]
    /\ Only

(* The retry asks the client again, not the instance.                      *)
Retry(c) ==
    /\ Settled
    /\ call[c].pc = "sleeping"
    /\ IF client.conn # 0 /\ ~client.failed /\ client.initialized
       THEN Asks(c, "asking") ELSE Goto(c, "done")
    /\ Only

Rejected(c) ==
    /\ Settled
    /\ call[c].pc \in {"asking", "pulling"}
    /\ process[call[c].to].link = "disposed"
    /\ Goto(c, IF call[c].pc = "asking" THEN "done" ELSE AfterPull(c))
    /\ Only

PullTimesOut(c) ==
    /\ Settled
    /\ call[c].pc = "pulling"
    /\ Goto(c, AfterPull(c))
    /\ Only

-----------------------------------------------------------------------------
Starts == Spawn \/ Connect \/ \E failure \in {"retry", "permanent"} : StartFails(failure)
Stops == CleanupEnds \/ ToggleEnds \/ ShutdownEnds
WriteFails == wire # <<>> /\ ~Written(Head(wire)) /\ WriteEnds
Events == WriteFails \/ \E g \in 1 .. Len(process) : ExitEvent(g) \/ CloseEvent(g)
GoesOn(c) == \/ Sync(c) \/ Open(c) \/ DidOpen(c) \/ Save(c) \/ Pull(c)
             \/ Ask(c) \/ Request(c)
Hears(c) == \/ Checked(c) \/ Read(c) \/ ReadEnds(c) \/ Retry(c)
            \/ Rejected(c) \/ PullTimesOut(c)

(* What the runtime does by itself: it goes on, and its timers fire.       *)
Progress == Starts \/ Stops \/ Events \/ \E c \in Caller : GoesOn(c) \/ Hears(c)

(* What a living server does, or does not: it answers and reads its pipe.  *)
WriteTaken == wire # <<>> /\ Written(Head(wire)) /\ WriteEnds
Server == Initialized \/ WriteTaken \/ \E c \in Caller : Answered(c) \/ Modified(c)
User == ToggleStops \/ ToggleStarts \/ ShutdownStops \/ ShutdownSkips
        \/ \E c \in Caller : Edit(c) \/ Tool(c)
Deaths == \E g \in 1 .. Len(process), exit \in {"loud", "quiet"} : Dies(g, exit)

Next == Progress \/ Server \/ User \/ Deaths
Spec == Init /\ [][Next]_vars
FairSpec == Spec /\ WF_vars(Progress)

-----------------------------------------------------------------------------
(* Properties.                                                             *)

(* At most one process is alive, and the client holds it: callers share    *)
(* one start-up, and a failed one is cleaned up before the next begins --  *)
(* unless a start began while a stop was in progress, which start() does   *)
(* not look at.                                                            *)
OneServer ==
    ~overlap =>
        {g \in 1 .. Len(process) : process[g].alive} \subseteq {client.child}

(* However start-ups fail and processes die, a server that the user does   *)
(* not toggle is spawned a bounded number of times: crashes are counted    *)
(* for good, failed start-ups up to the next success.  The first attempt   *)
(* is made even if maxRestarts is 0.                                       *)
Attempts == IF MaxRestarts = 0 THEN 1 ELSE MaxRestarts
SpawnsBounded ==
    plan.toggles = 0 /\ ~overlap =>
        Len(process) <= Attempts * (MaxRestarts + 1)

(* A file counts as open only in a process that was told of it: the        *)
(* bookkeeping does not outlive the process, except where the process went *)
(* while the notification was being written.                               *)
OpenedIsTold ==
    opened /\ Running /\ ~down /\ ~lost /\ ~overlap =>
        /\ client.conn # 0
        /\ process[client.conn].doc # 0

Quiescent == \A c \in Caller : ~Active(c)

(* When all calls have ended, a server that can answer has the file as it  *)
(* is on disk: every edit is synchronized, whatever tools open the file    *)
(* meanwhile and however often the server is restarted -- unless two edits *)
(* or two openings overlapped, or a restart fell between the reading and   *)
(* the opening, which nothing prevents.                                    *)
ServerHasContent ==
    /\ Quiescent
    /\ opened /\ CanSend /\ process[client.conn].alive
    /\ ~down /\ ~lost /\ ~doubled /\ ~raced /\ ~overlap
    => process[client.conn].doc = disk

(* A call waits for what a living server owes it: the answer to a request  *)
(* of the tool, which has no time-out, or the place for a notification in  *)
(* the pipe.                                                               *)
Owed(c) ==
    \/ call[c].pc = "asking" /\ Answers(call[c].to)
    \/ /\ call[c].pc \in {"opening", "changing", "saving"}
       /\ wire # <<>> /\ Written(Head(wire))

(* Nobody will tell a call that the process it asks is gone.               *)
Forsaken(c) == call[c].pc = "asking" /\ call[c].to \in unheard

(* Every call ends or stays where the code leaves it: whatever fails or is *)
(* restarted, a call that waits for ever waits for what a living server    *)
(* owes it, or for a process whose exit nobody acts on.                    *)
CallsEnd == []<>(\A c \in Caller : Active(c) => Owed(c) \/ Forsaken(c))

(* One process at a time, and as many in all as the counters allow.        *)
ServerSafe == TypeOK /\ OneServer /\ SpawnsBounded

(* A server was told of every file that is marked open, and has its        *)
(* content.                                                                *)
ContentSafe == OpenedIsTold /\ ServerHasContent
==============================================================================
