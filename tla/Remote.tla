------------------------------- MODULE Remote -------------------------------
(***************************************************************************)
(* The SSH mode of pi-remote: connectSsh, the cwd switch, the tools and    *)
(* the session's end of index.ts, and the connection of ssh.ts.            *)
(*                                                                         *)
(* A call of connectSsh makes the connection of the same name.  What it    *)
(* awaits is the control path, the remote's pwd and the closing of a       *)
(* connection; between two awaits it runs alone.  ssh, the remote and the  *)
(* host's tools are external.  A connection is asked to close once; what   *)
(* is spawned on it afterwards throws.                                     *)
(***************************************************************************)
CONSTANTS Connects,   \* calls of connectSsh: --ssh and /ssh
          Moves,      \* calls of /ssh:cwd
          Uses,       \* calls of a tool, and ! commands
          Dirs,       \* remote directories
          NoHost      \* no connection

ASSUME RemoteAssumption ==
    /\ NoHost \notin Connects
    /\ {"open", "ended"} \cap Connects = {}

VARIABLES
    conn,       \* where each call of connectSsh is
    socket,     \* the connection it made
    before,     \* the connection that was there when it began
    dir,        \* remoteCwd of each connection's context
    resolved,   \* resolvedSsh
    failure,    \* sshFailure
    tools,      \* the connection the registered tools are bound to
    shown,      \* the ssh status line
    move,       \* where each cwd switch is, and on which connection
    use,        \* where each use ran, and whether SSH mode had failed then
    session,    \* open, ended, or the connection whose close ends it
    overlap,    \* two connects were under way at the same time
    belated     \* a connect was under way when the session ended

remoteVars == <<conn, socket, before, dir, resolved, failure, tools, shown, move, use,
                session, overlap, belated>>
links == <<conn, socket, before, resolved, failure, tools, session, overlap, belated>>

Hosts == Connects \cup {NoHost}
Busy == {"creating", "asking", "replacing", "giving up"}
Pending == {c \in Connects : conn[c] \in Busy}

RemoteTypeOK ==
    /\ conn \in [Connects -> Busy \cup {"idle", "done", "failed"}]
    /\ socket \in [Connects -> {"none", "open", "closing", "closed"}]
    /\ before \in [Connects -> Hosts]
    /\ dir \in [Connects -> Dirs]
    /\ resolved \in Hosts
    /\ failure \in BOOLEAN
    /\ tools \in Hosts
    /\ shown \in (Connects \X Dirs) \cup {<<"nothing">>, <<"failed">>}
    /\ move \in [Moves -> [at : {"idle", "picking", "asking", "done"}, on : Hosts]]
    /\ use \in [Uses -> [at : Hosts \cup {"none", "error"}, broken : BOOLEAN]]
    /\ session \in Connects \cup {"open", "ended"}
    /\ overlap \in BOOLEAN /\ belated \in BOOLEAN

RemoteInit ==
    /\ conn = [c \in Connects |-> "idle"]
    /\ socket = [c \in Connects |-> "none"]
    /\ before = [c \in Connects |-> NoHost]
    /\ dir \in {[c \in Connects |-> d] : d \in Dirs}
    /\ resolved = NoHost /\ tools = NoHost
    /\ failure = FALSE
    /\ shown = <<"nothing">>
    /\ move = [m \in Moves |-> [at |-> "idle", on |-> NoHost]]
    /\ use = [u \in Uses |-> [at |-> "none", broken |-> FALSE]]
    /\ session = "open"
    /\ overlap = FALSE /\ belated = FALSE

-----------------------------------------------------------------------------
Connect(c) ==
    /\ conn[c] = "idle" /\ session = "open"
    /\ conn' = [conn EXCEPT ![c] = "creating"]
    /\ before' = [before EXCEPT ![c] = resolved]
    /\ overlap' = (overlap \/ Pending # {})
    /\ UNCHANGED <<socket, dir, resolved, failure, tools, shown, move, use, session,
                   belated>>

(* close() of a connection: only the first call does something.            *)
ClosingOf(h, sockets) ==
    IF h # NoHost /\ sockets[h] = "open" THEN [sockets EXCEPT ![h] = "closing"]
    ELSE sockets

(* A bug: the tools stay bound to the connection there was.                *)
Wire_OldTools(c, d) ==
    /\ resolved' = c /\ failure' = FALSE
    /\ tools' = IF tools = NoHost THEN c ELSE tools
    /\ dir' = [dir EXCEPT ![c] = d]
    /\ shown' = <<c, d>>
    /\ socket' = ClosingOf(before[c], [socket EXCEPT ![c] = "open"])
    /\ conn' = [conn EXCEPT ![c] = IF before[c] = NoHost THEN "done" ELSE "replacing"]
    /\ UNCHANGED <<before, move, use, session, overlap, belated>>

(* A bug: it waits for the end of a connection nobody closes.              *)
Wire_Waits(c, d) ==
    /\ resolved' = c /\ failure' = FALSE /\ tools' = c
    /\ dir' = [dir EXCEPT ![c] = d]
    /\ shown' = <<c, d>>
    /\ socket' = [socket EXCEPT ![c] = "open"]
    /\ conn' = [conn EXCEPT ![c] = IF before[c] = NoHost THEN "done" ELSE "replacing"]
    /\ UNCHANGED <<before, move, use, session, overlap, belated>>

(* The remote answered: the tools and the status line are the new          *)
(* connection's, and the previous one is closed.                           *)
Wire(c, d) ==
    /\ resolved' = c /\ failure' = FALSE /\ tools' = c
    /\ dir' = [dir EXCEPT ![c] = d]
    /\ shown' = <<c, d>>
    /\ socket' = ClosingOf(before[c], [socket EXCEPT ![c] = "open"])
    /\ conn' = [conn EXCEPT ![c] = IF before[c] = NoHost THEN "done" ELSE "replacing"]
    /\ UNCHANGED <<before, move, use, session, overlap, belated>>

(* The control path exists; a path that was given needs no pwd.            *)
Created(c) ==
    /\ conn[c] = "creating"
    /\ \/ \E d \in Dirs : Wire(c, d)
       \/ /\ conn' = [conn EXCEPT ![c] = "asking"]
          /\ socket' = [socket EXCEPT ![c] = "open"]
          /\ UNCHANGED <<before, dir, resolved, failure, tools, shown, move, use, session,
                         overlap, belated>>

PwdAnswered(c) == conn[c] = "asking" /\ \E d \in Dirs : Wire(c, d)

(* A bug: the new connection is not closed.                                *)
ConnectFails_Leaks(c) ==
    /\ conn[c] \in {"creating", "asking"}
    /\ resolved' = before[c] /\ failure' = (before[c] = NoHost)
    /\ shown' = IF before[c] = NoHost THEN <<"failed">> ELSE shown
    /\ conn' = [conn EXCEPT ![c] = "failed"]
    /\ UNCHANGED <<socket, before, dir, tools, move, use, session, overlap, belated>>

(* The catch block: what was there when the call began is put back.        *)
ConnectFails(c) ==
    /\ conn[c] \in {"creating", "asking"}
    /\ resolved' = before[c] /\ failure' = (before[c] = NoHost)
    /\ shown' = IF before[c] = NoHost THEN <<"failed">> ELSE shown
    /\ socket' = ClosingOf(c, socket)
    /\ conn' = [conn EXCEPT ![c] = IF socket[c] = "none" THEN "failed" ELSE "giving up"]
    /\ UNCHANGED <<before, dir, tools, move, use, session, overlap, belated>>

(* ssh -O exit ends and the private directory is gone.                     *)
SocketCloses(c) ==
    /\ socket[c] = "closing"
    /\ socket' = [socket EXCEPT ![c] = "closed"]
    /\ UNCHANGED <<conn, before, dir, resolved, failure, tools, shown, move, use, session,
                   overlap, belated>>

Returns(c) ==
    /\ \/ /\ conn[c] = "replacing" /\ socket[before[c]] = "closed"
          /\ conn' = [conn EXCEPT ![c] = "done"]
       \/ /\ conn[c] = "giving up" /\ socket[c] = "closed"
          /\ conn' = [conn EXCEPT ![c] = "failed"]
    /\ UNCHANGED <<socket, before, dir, resolved, failure, tools, shown, move, use,
                   session, overlap, belated>>

(* A bug: the end of the session forgets the connection without closing it.*)
SessionEnds_Forgets ==
    /\ session = "open"
    /\ session' = "ended"
    /\ resolved' = NoHost /\ failure' = FALSE
    /\ belated' = (Pending # {})
    /\ UNCHANGED <<conn, socket, before, dir, tools, shown, move, use, overlap>>

(* A bug: it waits for a connection there may not be.                      *)
SessionEnds_Bare ==
    /\ session = "open"
    /\ session' = resolved
    /\ socket' = ClosingOf(resolved, socket)
    /\ resolved' = NoHost /\ failure' = FALSE
    /\ belated' = (Pending # {})
    /\ UNCHANGED <<conn, before, dir, tools, shown, move, use, overlap>>

(* session_shutdown.                                                       *)
SessionEnds ==
    /\ session = "open"
    /\ session' = IF resolved = NoHost THEN "ended" ELSE resolved
    /\ socket' = ClosingOf(resolved, socket)
    /\ resolved' = NoHost /\ failure' = FALSE
    /\ belated' = (Pending # {})
    /\ UNCHANGED <<conn, before, dir, tools, shown, move, use, overlap>>

SessionEnded ==
    /\ session \in Connects /\ socket[session] = "closed"
    /\ session' = "ended"
    /\ UNCHANGED <<conn, socket, before, dir, resolved, failure, tools, shown, move, use,
                   overlap, belated>>

-----------------------------------------------------------------------------
(* /ssh:cwd: with a directory, or after the user has picked one from a     *)
(* list the remote gave.                                                   *)
MoveBegins(m) ==
    /\ move[m].at = "idle" /\ session = "open" /\ resolved # NoHost
    /\ \E step \in {"picking", "asking"} :
         move' = [move EXCEPT ![m] = [at |-> step, on |-> resolved]]
    /\ UNCHANGED <<links, dir, shown, use>>

Picked(m) ==
    /\ move[m].at = "picking"
    /\ \E step \in {"asking", "done"} : move' = [move EXCEPT ![m].at = step]
    /\ UNCHANGED <<links, dir, shown, use>>

(* A bug: a switch on a connection that was replaced goes through.         *)
Moved_Superseded(m) ==
    /\ move[m].at = "asking"
    /\ move' = [move EXCEPT ![m].at = "done"]
    /\ \E d \in Dirs : /\ dir' = [dir EXCEPT ![move[m].on] = d]
                       /\ shown' = <<move[m].on, d>>
    /\ UNCHANGED <<links, use>>

(* The remote has resolved the directory, or has not; a switch on a        *)
(* connection that was replaced does nothing.                              *)
Moved(m) ==
    /\ move[m].at = "asking"
    /\ move' = [move EXCEPT ![m].at = "done"]
    /\ \/ /\ resolved = move[m].on
          /\ \E d \in Dirs : /\ dir' = [dir EXCEPT ![resolved] = d]
                             /\ shown' = <<resolved, d>>
       \/ UNCHANGED <<dir, shown>>
    /\ UNCHANGED <<links, use>>

(* A tool runs where the registered tool is bound to; nothing is spawned   *)
(* on a connection that was closed.                                        *)
CallTool(u) ==
    /\ use[u].at = "none" /\ session = "open"
    /\ use' = [use EXCEPT ![u] =
         [at |-> IF tools # NoHost /\ socket[tools] # "open" THEN "error" ELSE tools,
          broken |-> failure]]
    /\ UNCHANGED <<links, dir, shown, move>>

(* A ! command asks getSsh.                                                *)
CallBash(u) ==
    /\ use[u].at = "none" /\ session = "open"
    /\ use' = [use EXCEPT ![u] =
         [at |-> IF failure \/ (resolved # NoHost /\ socket[resolved] # "open")
                 THEN "error" ELSE resolved,
          broken |-> failure]]
    /\ UNCHANGED <<links, dir, shown, move>>

RemoteStep(c) == Created(c) \/ PwdAnswered(c) \/ ConnectFails(c) \/ Returns(c)

RemoteNext ==
    \/ \E c \in Connects : Connect(c) \/ RemoteStep(c) \/ SocketCloses(c)
    \/ SessionEnds \/ SessionEnded
    \/ \E m \in Moves : MoveBegins(m) \/ Picked(m) \/ Moved(m)
    \/ \E u \in Uses : CallTool(u) \/ CallBash(u)

(* ssh answers or fails within its time-outs, and exits when asked to.     *)
RemoteGoesOn == SessionEnded \/ \E c \in Connects : RemoteStep(c) \/ SocketCloses(c)
RemoteFair == WF_remoteVars(RemoteGoesOn)

RemoteSpec == RemoteInit /\ [][RemoteNext]_remoteVars /\ RemoteFair

-----------------------------------------------------------------------------
(* The connection in use is open and is the one the tools are bound to,    *)
(* also after a connect that failed; two connects at the same time may put *)
(* back a connection the other has closed.                                 *)
ConnectionWorks ==
    ~overlap /\ session = "open" /\ resolved # NoHost =>
        tools = resolved /\ socket[resolved] = "open"

(* No connection is left open but the one in use and those of calls under  *)
(* way.                                                                    *)
NoneLeftOpen ==
    ~overlap => \A c \in Connects : socket[c] = "open" => c = resolved \/ c \in Pending

(* After the session no connection is open, unless a connect was under way.*)
NoneAfterSession ==
    session = "ended" /\ ~belated /\ ~overlap => \A c \in Connects : socket[c] \in {"none", "closed"}

(* The status line names the connection in use and the directory commands  *)
(* run in; a switch of directory and a reconnect may cross.                *)
ShownIsCurrent ==
    ~overlap /\ session = "open" =>
        /\ resolved # NoHost => shown = <<resolved, dir[resolved]>>
        /\ failure => shown = <<"failed">>

(* A connect and the end of the session come to an end.                    *)
RemoteReturns ==
    /\ \A c \in Connects : conn[c] = "creating" ~> conn[c] \in {"done", "failed"}
    /\ session \in Connects ~> session = "ended"

(* README.md of pi-remote: when the remote cannot be reached no tool call  *)
(* runs locally in silence.                                                *)
FailsLoudly == \A u \in Uses : use[u].broken => use[u].at # NoHost

(* The connection in use works and is the one that is shown, and no other  *)
(* is left open, none at all after the session.                            *)
RemoteSafe ==
    /\ RemoteTypeOK
    /\ ConnectionWorks
    /\ NoneLeftOpen
    /\ NoneAfterSession
    /\ ShownIsCurrent
=============================================================================
