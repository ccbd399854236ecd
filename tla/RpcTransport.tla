---------------------------- MODULE RpcTransport ----------------------------
(***************************************************************************)
(* The pipe to a pi child process (pi-rpc-transport.ts): requests and      *)
(* their answers, the records the child writes between them, time-outs,    *)
(* protocol errors, the end of the process, and its disposal.              *)
(*                                                                         *)
(* The child is external: it answers, talks, writes what cannot be parsed, *)
(* closes its input, and exits when it wants to or is told to; a signal    *)
(* may be of no use.  Its exit is seen before its pipes are closed.  The   *)
(* bytes of a record are the business of the record projector; "junk" is a *)
(* record it refuses.                                                      *)
(***************************************************************************)
EXTENDS Naturals, Sequences, FiniteSets

CONSTANTS Requests,    \* calls of request, prompt, steer, abort, getState
          Disposals,   \* calls of dispose by the registry
          MaxWire,     \* bound: records under way from the child
          MaxTalk      \* bound: records of the child that answer nothing

ASSUME RpcTransportAssumption ==
    /\ MaxWire \in Nat \ {0} /\ MaxTalk \in Nat
    /\ Requests \cap {"event", "junk"} = {}

VARIABLES
    child,     \* "up", "gone" (exited), "closed" (its pipes too)
    reading,   \* the child reads its input
    inbox,     \* the requests it has not answered
    wire,      \* what it wrote and was not read
    talked,    \* how many records of its own it wrote
    req,       \* the requests
    attached,  \* stdout is listened to
    broken,    \* exitError is set
    notified,  \* exitNotified
    intended,  \* intentionalClose
    stage,     \* the disposal: "none", "term", "kill", "done", "failed"
    wanted,    \* the calls of dispose
    ears,      \* there are listeners
    heard,     \* what they were told: events, late answers, and the exit
    early      \* it was disposed between exit and close

childVars == <<child, reading, inbox, talked>>
failVars == <<broken, notified>>
disposeVars == <<intended, stage, wanted, early>>
rpcVars == <<childVars, wire, req, attached, failVars, disposeVars, ears, heard>>

RequestSettled == {"answered", "failed", "late"}
Pends == {r \in Requests : req[r] = "pending"}

RpcTypeOK ==
    /\ child \in {"up", "gone", "closed"} /\ reading \in BOOLEAN
    /\ inbox \subseteq Requests
    /\ wire \in Seq(Requests \cup {"event", "junk"}) /\ Len(wire) <= MaxWire
    /\ talked \in 0..MaxTalk
    /\ req \in [Requests -> {"new", "pending"} \cup RequestSettled]
    /\ attached \in BOOLEAN /\ broken \in BOOLEAN /\ notified \in BOOLEAN
    /\ intended \in BOOLEAN /\ ears \in BOOLEAN /\ early \in BOOLEAN
    /\ stage \in {"none", "term", "kill", "done", "failed"}
    /\ wanted \in [Disposals -> {"no", "waits", "ok", "failed"}]
    /\ heard \in [events : 0..MaxTalk, late : SUBSET Requests, exits : 0..1]
    /\ notified => broken

RpcInit ==
    /\ child = "up" /\ reading = TRUE /\ inbox = {} /\ talked = 0
    /\ wire = <<>>
    /\ req = [r \in Requests |-> "new"]
    /\ attached = TRUE /\ broken = FALSE /\ notified = FALSE
    /\ intended = FALSE /\ stage = "none" /\ early = FALSE
    /\ wanted = [d \in Disposals |-> "no"]
    /\ ears = TRUE
    /\ heard = [events |-> 0, late |-> {}, exits |-> 0]

Disposing == stage \in {"term", "kill"}

-----------------------------------------------------------------------------
(* The child.                                                              *)

Write(record) == Len(wire) < MaxWire /\ wire' = Append(wire, record)

ChildAnswers(r) ==
    /\ child = "up" /\ r \in inbox /\ Write(r)
    /\ inbox' = inbox \ {r}
    /\ UNCHANGED <<child, reading, talked, req, attached, failVars, disposeVars, ears, heard>>

ChildTalks(record) ==
    /\ child = "up" /\ talked < MaxTalk /\ Write(record)
    /\ talked' = talked + 1
    /\ UNCHANGED <<child, reading, inbox, req, attached, failVars, disposeVars, ears, heard>>

ChildExits ==
    /\ child = "up" /\ child' = "gone"
    /\ reading' = FALSE /\ inbox' = {}
    /\ UNCHANGED <<talked, wire, req, attached, failVars, disposeVars, ears, heard>>

-----------------------------------------------------------------------------
(* handleProcessFailure.                                                   *)

(* A bug: who waits is left to its time-out.                               *)
RejectPending_Leaves == UNCHANGED req

RejectPending == req' = [r \in Requests |-> IF req[r] = "pending" THEN "failed" ELSE req[r]]

(* A bug: each error is told.                                              *)
Notify_Again ==
    /\ notified' = TRUE
    /\ heard' = IF ~ears THEN heard ELSE [heard EXCEPT !.exits = @ + 1]

(* A bug: the end that was intended is not told.                           *)
Notify_Quiet ==
    /\ notified' = TRUE
    /\ heard' = IF notified \/ ~ears \/ intended THEN heard ELSE [heard EXCEPT !.exits = @ + 1]

Notify ==
    /\ notified' = TRUE
    /\ heard' = IF notified \/ ~ears THEN heard ELSE [heard EXCEPT !.exits = @ + 1]

Fail == /\ broken' = TRUE
        /\ RejectPending
        /\ Notify

-----------------------------------------------------------------------------
(* send: refused when disposed, failed or exited, else written.  An exit   *)
(* with a code that it is the first to see makes it the transport's error; *)
(* of a death by signal it sees only that the input is closed.             *)
Send(r) ==
    /\ req[r] = "new"
    /\ \/ /\ \/ stage \in {"term", "kill", "done"}
             \/ broken \/ child # "up" \/ ~reading
          /\ req' = [req EXCEPT ![r] = "failed"]
          /\ \/ broken' = (broken \/ (child = "gone" /\ stage \in {"none", "failed"}))
             \/ child = "gone" /\ UNCHANGED broken
          /\ UNCHANGED inbox
       \/ /\ stage \in {"none", "failed"} /\ ~broken /\ child = "up" /\ reading
          /\ req' = [req EXCEPT ![r] = "pending"]
          /\ inbox' = inbox \cup {r}
          /\ UNCHANGED broken
    /\ UNCHANGED <<child, reading, talked, wire, attached, notified, disposeVars, ears, heard>>

TimesOut(r) ==
    /\ req[r] = "pending"
    /\ req' = [req EXCEPT ![r] = "late"]
    /\ UNCHANGED <<childVars, wire, attached, failVars, disposeVars, ears, heard>>

(* The child closes its input: writing to it fails.                        *)
InputBreaks ==
    /\ child = "up" /\ reading /\ reading' = FALSE
    /\ Fail
    /\ UNCHANGED <<child, inbox, talked, wire, attached, disposeVars, ears>>

-----------------------------------------------------------------------------
(* runDispose up to its first wait.                                        *)

Over == /\ stage' = "done" /\ ears' = FALSE
        /\ wanted' = [d \in Disposals |-> IF wanted[d] = "waits" THEN "ok" ELSE wanted[d]]

(* Of an exit only its code is looked at: who was killed by a signal has   *)
(* none, and its close is waited for.                                      *)
StartDispose ==
    /\ intended' = TRUE /\ attached' = FALSE
    /\ \/ /\ child # "closed" /\ stage' = "term"
          /\ early' = FALSE /\ UNCHANGED ears
       \/ /\ child # "up" /\ stage' = "done"
          /\ early' = (child = "gone" /\ ~notified') /\ ears' = FALSE

(* A bug: each call starts anew.                                           *)
Dispose_Anew(d) ==
    /\ UNCHANGED <<childVars, wire, req, failVars, heard>>
    /\ wanted[d] = "no" /\ stage \in {"none", "failed"}
    /\ StartDispose
    /\ wanted' = [wanted EXCEPT ![d] = IF stage' = "term" THEN "waits" ELSE "ok"]

(* dispose: one teardown, shared.                                          *)
Dispose(d) ==
    /\ UNCHANGED <<childVars, wire, req, failVars, heard>>
    /\ wanted[d] = "no"
    /\ \/ /\ stage = "none" /\ StartDispose
          /\ wanted' = [wanted EXCEPT ![d] = IF stage' = "term" THEN "waits" ELSE "ok"]
       \/ /\ stage # "none"
          /\ wanted' = [wanted EXCEPT ![d] = CASE stage = "done" -> "ok"
                                               [] stage = "failed" -> "failed"
                                               [] OTHER -> "waits"]
          /\ UNCHANGED <<intended, attached, early, stage, ears>>

(* A bug: who waits is not told.                                           *)
GivesUp_Silent == stage' = "failed" /\ UNCHANGED wanted

GivesUp == /\ stage' = "failed"
           /\ wanted' = [d \in Disposals |-> IF wanted[d] = "waits" THEN "failed" ELSE wanted[d]]

(* SIGTERM did not help within killTimeoutMs: SIGKILL, which may fail, and *)
(* does when nobody is there any more.                                     *)
Kill ==
    /\ stage = "term"
    /\ \/ child = "up" /\ stage' = "kill" /\ UNCHANGED wanted
       \/ GivesUp
    /\ UNCHANGED <<childVars, wire, req, attached, failVars, intended, early, ears, heard>>

(* A bug: the hard bound resolves.                                         *)
HardBound_Resolves ==
    /\ stage = "kill" /\ Over
    /\ UNCHANGED <<childVars, wire, req, attached, failVars, intended, early, heard>>

HardBound ==
    /\ stage = "kill" /\ GivesUp
    /\ UNCHANGED <<childVars, wire, req, attached, failVars, intended, early, ears, heard>>

-----------------------------------------------------------------------------
(* failProtocol: the transport fails, and disposes of itself.              *)
FailProtocol ==
    /\ Fail
    /\ IF stage = "none" THEN StartDispose ELSE UNCHANGED <<intended, attached, early, stage, ears>>

(* A bug: what failed goes on talking.                                     *)
Receive_Goes ==
    /\ wire # <<>> /\ wire' = Tail(wire)
    /\ LET record == Head(wire)
       IN \/ ~attached /\ UNCHANGED <<req, attached, failVars, intended, early, stage, ears, heard>>
          \/ /\ attached /\ record = "junk" /\ ~broken /\ FailProtocol
          \/ /\ attached /\ record = "junk" /\ broken
             /\ UNCHANGED <<req, attached, failVars, intended, early, stage, ears, heard>>
          \/ /\ attached /\ record = "event"
             /\ heard' = [heard EXCEPT !.events = @ + 1]
             /\ UNCHANGED <<req, attached, failVars, intended, early, stage, ears>>
          \/ /\ attached /\ record \in Pends
             /\ req' = [req EXCEPT ![record] = "answered"]
             /\ UNCHANGED <<attached, failVars, intended, early, stage, ears, heard>>
          \/ /\ attached /\ record \in Requests \ Pends
             /\ heard' = [heard EXCEPT !.late = @ \cup {record}]
             /\ UNCHANGED <<req, attached, failVars, intended, early, stage, ears>>
    /\ UNCHANGED <<childVars, wanted>>

(* A bug: an answer is also forwarded.                                     *)
Receive_Forwards ==
    /\ wire # <<>> /\ wire' = Tail(wire)
    /\ LET record == Head(wire)
           dropped == ~attached \/ broken
       IN \/ dropped /\ UNCHANGED <<req, attached, failVars, intended, early, stage, ears, heard>>
          \/ ~dropped /\ record = "junk" /\ FailProtocol
          \/ /\ ~dropped /\ record = "event"
             /\ heard' = [heard EXCEPT !.events = @ + 1]
             /\ UNCHANGED <<req, attached, failVars, intended, early, stage, ears>>
          \/ /\ ~dropped /\ record \in Requests
             /\ req' = [req EXCEPT ![record] = IF @ = "pending" THEN "answered" ELSE @]
             /\ heard' = [heard EXCEPT !.late = @ \cup {record}]
             /\ UNCHANGED <<attached, failVars, intended, early, stage, ears>>
    /\ UNCHANGED <<childVars, wanted>>

(* A record arrives: it is dropped once the transport failed, an answer    *)
(* goes to who waits for it, and all else, an answer that comes too late   *)
(* included, to the listeners.                                             *)
Receive ==
    /\ wire # <<>> /\ wire' = Tail(wire)
    /\ LET record == Head(wire)
           dropped == ~attached \/ broken
       IN \/ dropped /\ UNCHANGED <<req, attached, failVars, intended, early, stage, ears, heard>>
          \/ ~dropped /\ record = "junk" /\ FailProtocol
          \/ /\ ~dropped /\ record = "event"
             /\ heard' = [heard EXCEPT !.events = @ + 1]
             /\ UNCHANGED <<req, attached, failVars, intended, early, stage, ears>>
          \/ /\ ~dropped /\ record \in Pends
             /\ req' = [req EXCEPT ![record] = "answered"]
             /\ UNCHANGED <<attached, failVars, intended, early, stage, ears, heard>>
          \/ /\ ~dropped /\ record \in Requests \ Pends
             /\ heard' = [heard EXCEPT !.late = @ \cup {record}]
             /\ UNCHANGED <<req, attached, failVars, intended, early, stage, ears>>
    /\ UNCHANGED <<childVars, wanted>>

(* The process's close, after its output was read: what was cut off in it  *)
(* is a protocol error, unless the end was intended; then it has failed,   *)
(* and the disposal is over.  A disposal that begins here waits, after a   *)
(* death by signal, for a close that has been.                             *)
Closes ==
    /\ child = "gone" /\ wire = <<>>
    /\ child' = "closed"
    /\ IF stage = "done" /\ notified
       THEN UNCHANGED <<req, failVars, heard, attached, intended, early, stage, wanted, ears>>
       ELSE /\ Fail
            /\ CASE Disposing -> Over /\ UNCHANGED <<attached, intended, early>>
                 [] stage = "none" /\ ~broken ->
                        \/ UNCHANGED <<attached, intended, early, stage, wanted, ears>>
                        \/ /\ intended' = TRUE /\ attached' = FALSE
                           /\ \/ stage' = "done" /\ ears' = FALSE
                              \/ stage' = "term" /\ UNCHANGED ears
                           /\ UNCHANGED <<early, wanted>>
                 [] OTHER -> UNCHANGED <<attached, intended, early, stage, wanted, ears>>
    /\ UNCHANGED <<reading, inbox, talked, wire>>

RpcNext ==
    \/ \E r \in Requests : ChildAnswers(r) \/ Send(r) \/ TimesOut(r)
    \/ \E record \in {"event", "junk"} : ChildTalks(record)
    \/ ChildExits \/ InputBreaks \/ Receive \/ Closes \/ Kill \/ HardBound
    \/ \E d \in Disposals : Dispose(d)

(* Timers fire, what the child wrote is read, and pipes close.             *)
RpcFair ==
    /\ \A r \in Requests : WF_rpcVars(TimesOut(r))
    /\ WF_rpcVars(Kill) /\ WF_rpcVars(HardBound)
    /\ WF_rpcVars(Receive) /\ WF_rpcVars(Closes)

RpcSpec == RpcInit /\ [][RpcNext]_rpcVars /\ RpcFair

-----------------------------------------------------------------------------
(* Who was told that the disposal is done may start another child on the   *)
(* same session: this one has exited.                                      *)
DisposedIsDead ==
    stage = "done" \/ (\E d \in Disposals : wanted[d] = "ok") => child # "up"

(* A disposal that failed is never reported as done, and one that is done  *)
(* is not reported as failed, whoever asks and when.                       *)
DisposalsAgree ==
    \A d, o \in Disposals : ~(wanted[d] = "ok" /\ wanted[o] = "failed")

(* Once the listeners know of the exit nobody waits for an answer.         *)
NoneWaitsAfterExit == notified => Pends = {}

(* After the exit the listeners hear nothing more.                         *)
SilentAfterExit == [][notified => heard' = heard]_rpcVars

(* The listeners are told of the end of the process, once, however many    *)
(* errors announce it; only a disposal that comes between the exit and the *)
(* close takes the listeners away before.                                  *)
ExitIsTold == child = "closed" => heard.exits = 1 \/ early

(* An answer that reaches the listeners is one that nobody waits for.      *)
LateOnly == \A r \in heard.late : req[r] = "late"

(* A request is answered or fails, and a disposal ends.                    *)
RpcSettles ==
    /\ \A r \in Requests : req[r] = "pending" ~> req[r] # "pending"
    /\ \A d \in Disposals : wanted[d] = "waits" ~> wanted[d] # "waits"

(* Who was told that the child is gone was told the truth, no request      *)
(* waits after its exit, and only late answers are taken for events.       *)
RpcSafe ==
    /\ RpcTypeOK
    /\ DisposedIsDead
    /\ DisposalsAgree
    /\ NoneWaitsAfterExit
    /\ ExitIsTold
    /\ LateOnly
=============================================================================
