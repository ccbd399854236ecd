--------------------------- MODULE GrokTransport ---------------------------
(***************************************************************************)
(* The connection to a Grok session that the agent view keeps open:        *)
(* grok-acp-interactive-transport.ts over the prompt and cancel of         *)
(* grok-acp-client.ts.                                                     *)
(*                                                                         *)
(* Prompts take turns: each waits for the chain of the turns before it,    *)
(* announces itself, and is settled by the response, by the grace of a     *)
(* cancel, or by an error.  The session (external) works on what it was    *)
(* sent until it answers, also when nobody waits for the answer any more,  *)
(* and talks meanwhile.                                                    *)
(*                                                                         *)
(* A transport begins here when start has opened it: its makers wait for   *)
(* that.  Its owner prompts when the turn before was told to have settled. *)
(* What the updates become is the transcript's business (GrokTranscript).  *)
(***************************************************************************)
EXTENDS Naturals, FiniteSets

CONSTANT Prompts   \* the calls of prompt

VARIABLES
    turn,       \* the prompts
    working,    \* what the session works on
    grokUp,     \* its process lives
    running,    \* the field of that name: getState
    stopSent,   \* cancelSent
    heeded,     \* prompts the session was told to stop at
    grace,      \* armed for the prompt in flight
    aborting,   \* abortCoalesce: the abort under way waits for its cancel
                \* to be written, or for its last tick
    asked,      \* prompts that an abort or the signal found in flight
    joined,     \* of these, the ones whose aborts all joined one under way
    strays,     \* prompts whose grace was armed by the abort of another
    stopped,    \* the abort signal has fired
    gone,       \* "no", "closing", "closed", "failed": the disposal
    told,       \* the events of each prompt
    mixed       \* prompts whose turn showed what another's was told

turnVars == <<turn, running, told>>
wantVars == <<asked, joined, strays>>
stopVars == <<stopSent, heeded, grace, aborting, wantVars, stopped>>
transportVars == <<turnVars, stopVars, working, grokUp, gone, mixed>>

Events == [starts : 0..1, completed : BOOLEAN, failed : BOOLEAN, settles : 0..1]
Silent == [starts |-> 0, completed |-> FALSE, failed |-> FALSE, settles |-> 0]
InFlight == {p \in Prompts : turn[p] = "running"}

TransportTypeOK ==
    /\ turn \in [Prompts -> {"new", "queued", "running", "settled", "over", "refused", "stuck"}]
    /\ working \subseteq Prompts /\ mixed \subseteq Prompts
    /\ asked \subseteq Prompts /\ heeded \subseteq Prompts
    /\ joined \subseteq Prompts /\ strays \subseteq Prompts
    /\ grokUp \in BOOLEAN /\ running \in BOOLEAN /\ stopped \in BOOLEAN
    /\ stopSent \in BOOLEAN /\ grace \in BOOLEAN
    /\ aborting \in {"no", "sending", "ending"}
    /\ gone \in {"no", "closing", "closed", "failed"}
    /\ told \in [Prompts -> Events]
    /\ InFlight # {} => running \/ gone # "no"
    /\ grace => InFlight # {}

TransportInit ==
    /\ turn = [p \in Prompts |-> "new"] /\ told = [p \in Prompts |-> Silent]
    /\ working = {} /\ mixed = {} /\ heeded = {}
    /\ asked = {} /\ joined = {} /\ strays = {}
    /\ grokUp = TRUE /\ gone = "no"
    /\ running = FALSE /\ stopSent = FALSE /\ grace = FALSE /\ aborting = "no"
    /\ stopped = FALSE

----------------------------------------------------------------------------
(* A bug: the chain is free when the settlement is told.                   *)
ChainFree_Told == \A q \in Prompts : turn[q] # "running"

(* promptChain has resolved: the completion of the turn before is over.    *)
ChainFree == \A q \in Prompts : turn[q] \notin {"running", "settled"}

Prompt(p) ==
    /\ turn[p] = "new"
    /\ \A q \in Prompts : turn[q] \notin {"queued", "running"}
    /\ turn' = [turn EXCEPT ![p] = IF gone = "no" THEN "queued" ELSE "refused"]
    /\ UNCHANGED <<stopVars, working, grokUp, running, told, gone, mixed>>

(* A bug: whether it was disposed is not looked at after the wait.         *)
Begin_Disposed(p) ==
    /\ turn[p] = "queued" /\ ChainFree
    /\ running' = TRUE /\ told' = [told EXCEPT ![p].starts = 1]
    /\ turn' = [turn EXCEPT ![p] = "running"] /\ stopSent' = FALSE
    /\ working' = working \cup {p}
    /\ UNCHANGED <<heeded, aborting, wantVars, stopped, grace, grokUp, gone, mixed>>

(* A bug: that a cancel was sent is not forgotten.                         *)
Begin_Sent(p) ==
    /\ turn[p] = "queued" /\ ChainFree
    /\ gone = "no" /\ ~stopped
    /\ running' = TRUE /\ told' = [told EXCEPT ![p].starts = 1]
    /\ turn' = [turn EXCEPT ![p] = "running"] /\ working' = working \cup {p}
    /\ UNCHANGED <<stopVars, grokUp, gone, mixed>>

(* The turn of a prompt: it is announced and sent.  After the abort signal *)
(* the client refuses it when it is announced already.                     *)
Begin(p) ==
    /\ turn[p] = "queued" /\ ChainFree
    /\ IF gone # "no"
       THEN turn' = [turn EXCEPT ![p] = "refused"] /\ UNCHANGED <<running, told, stopSent, working>>
       ELSE /\ running' = TRUE /\ told' = [told EXCEPT ![p].starts = 1]
            /\ turn' = [turn EXCEPT ![p] = IF stopped THEN "stuck" ELSE "running"]
            /\ stopSent' = IF stopped THEN stopSent ELSE FALSE
            /\ working' = IF stopped \/ ~grokUp THEN working ELSE working \cup {p}
    /\ UNCHANGED <<heeded, aborting, wantVars, stopped, grace, grokUp, gone, mixed>>

(* A bug: the timer of the grace is not cleared.                           *)
Settle_Armed(p, completed, failed) ==
    /\ turn' = [turn EXCEPT ![p] = "settled"] /\ UNCHANGED grace
    /\ told' = [told EXCEPT ![p] = [starts |-> @.starts, completed |-> completed,
                                    failed |-> failed, settles |-> @.settles + 1]]

(* The prompt of the client is settled: its flight and its grace are over. *)
Settle(p, completed, failed) ==
    /\ turn' = [turn EXCEPT ![p] = "settled"] /\ grace' = FALSE
    /\ told' = [told EXCEPT ![p] = [starts |-> @.starts, completed |-> completed,
                                    failed |-> failed, settles |-> @.settles + 1]]

(* The response of the session; it is told to nobody when it comes late.   *)
Response(p) ==
    /\ grokUp /\ p \in working /\ working' = working \ {p}
    /\ IF turn[p] = "running" THEN Settle(p, TRUE, FALSE) ELSE UNCHANGED <<turn, told, grace>>
    /\ UNCHANGED <<running, stopSent, heeded, aborting, wantVars, stopped, grokUp, gone, mixed>>

(* A bug: the grace is told as a completion.                               *)
GraceEnds_Completed(p) ==
    /\ turn[p] = "running" /\ grace /\ Settle(p, TRUE, FALSE)
    /\ UNCHANGED <<running, stopSent, heeded, aborting, wantVars, stopped, working, grokUp, gone, mixed>>

(* cancel_grace: no completion is told, and the session works on.          *)
GraceEnds(p) ==
    /\ turn[p] = "running" /\ grace /\ Settle(p, FALSE, FALSE)
    /\ UNCHANGED <<running, stopSent, heeded, aborting, wantVars, stopped, working, grokUp, gone, mixed>>

(* The connection breaks, or the hour is over.                             *)
PromptBreaks(p) ==
    /\ turn[p] = "running" /\ Settle(p, FALSE, TRUE)
    /\ UNCHANGED <<running, stopSent, heeded, aborting, wantVars, stopped, working, grokUp, gone, mixed>>

(* The completion's finally: the field is reset and the chain resolves.    *)
ChainFrees(p) ==
    /\ turn[p] = "settled" /\ turn' = [turn EXCEPT ![p] = "over"] /\ running' = FALSE
    /\ UNCHANGED <<stopVars, working, grokUp, told, gone, mixed>>

----------------------------------------------------------------------------
(* sendCancel, once for a prompt; it reaches the session before the prompt *)
(* after it.                                                               *)
SendCancel ==
    /\ heeded' = IF stopSent THEN heeded ELSE heeded \cup InFlight
    /\ stopSent' = TRUE

(* A bug: a cancel is sent and not waited for.                             *)
ArmGrace_Never == UNCHANGED <<grace, strays>>

(* onAbortDuringPrompt: the grace of the prompt in flight, if there is one *)
(* by now and whoever was to be stopped.                                   *)
ArmGrace ==
    /\ grace' = (InFlight # {})
    /\ strays' = strays \cup (InFlight \ asked')

(* What is in flight is to stop, and has an abort of its own.              *)
Wanted == asked' = asked \cup InFlight /\ joined' = joined \ InFlight

(* abort up to the wait for the cancel to be written.  Once the transport  *)
(* is disposed of an abort finds no connection and does nothing.           *)
Cancel ==
    /\ gone = "no" /\ aborting = "no"
    /\ aborting' = "sending" /\ SendCancel /\ Wanted
    /\ UNCHANGED <<turnVars, grace, strays, stopped, working, grokUp, gone, mixed>>

(* abort while another is under way: it waits for that one and does no     *)
(* more, also when another prompt is in flight by now.                     *)
CancelJoins ==
    /\ aborting # "no"
    /\ asked' = asked \cup InFlight /\ joined' = joined \cup (InFlight \ asked)
    /\ UNCHANGED <<turnVars, stopSent, heeded, grace, aborting, strays, stopped,
                   working, grokUp, gone, mixed>>

(* The cancel is written, or the pipe is broken.                           *)
CancelWritten ==
    /\ aborting = "sending" /\ aborting' = "ending"
    /\ UNCHANGED <<turnVars, stopSent, heeded, asked, joined, stopped, working, grokUp, gone, mixed>>
    /\ ArmGrace

CancelOver ==
    /\ aborting = "ending" /\ aborting' = "no"
    /\ UNCHANGED <<turnVars, stopSent, heeded, grace, wantVars, stopped, working, grokUp, gone, mixed>>

(* The signal the transport was opened with: it does not wait for its      *)
(* cancel.                                                                 *)
SignalFires ==
    /\ gone = "no" /\ ~stopped /\ stopped' = TRUE
    /\ SendCancel /\ Wanted /\ ArmGrace
    /\ UNCHANGED <<turnVars, aborting, working, grokUp, gone, mixed>>

(* An update of the session: it belongs to what the session works on and   *)
(* is shown in the turn in flight.                                         *)
Talk(p) ==
    /\ grokUp /\ p \in working
    /\ mixed' = mixed \cup (InFlight \ {p})
    /\ UNCHANGED <<turnVars, stopVars, working, grokUp, gone>>

GrokDies ==
    /\ grokUp /\ grokUp' = FALSE /\ working' = {}
    /\ UNCHANGED <<turnVars, stopVars, gone, mixed>>

(* dispose; its end is GrokAcp's cleanupProcess.                           *)
DisposeTransport ==
    /\ gone = "no" /\ gone' = "closing" /\ running' = FALSE
    /\ UNCHANGED <<turn, told, stopVars, working, grokUp, mixed>>

Gone ==
    /\ gone = "closing"
    /\ \/ gone' = "closed" /\ grokUp' = FALSE /\ working' = {}
       \/ gone' = "failed" /\ UNCHANGED <<grokUp, working>>
    /\ UNCHANGED <<turnVars, stopVars, mixed>>

TransportNext ==
    \/ \E p \in Prompts :
        \/ Prompt(p) \/ Begin(p) \/ Response(p) \/ GraceEnds(p) \/ PromptBreaks(p)
        \/ ChainFrees(p) \/ Talk(p)
    \/ Cancel \/ CancelJoins \/ CancelWritten \/ CancelOver \/ SignalFires \/ GrokDies \/ DisposeTransport \/ Gone

(* Promises resolve and timers fire; the client is told when the pipes of  *)
(* a dead process close.  The session need not answer; its pipe takes a    *)
(* cancel, or breaks.                                                      *)
TransportFair ==
    /\ \A p \in Prompts :
        /\ WF_transportVars(Begin(p)) /\ WF_transportVars(ChainFrees(p))
        /\ WF_transportVars(GraceEnds(p))
        /\ WF_transportVars(~grokUp /\ PromptBreaks(p))
    /\ WF_transportVars(CancelWritten) /\ WF_transportVars(CancelOver) /\ WF_transportVars(Gone)

TransportSpec == TransportInit /\ [][TransportNext]_transportVars /\ TransportFair

----------------------------------------------------------------------------
(* Turns do not overlap: what one is told lies between its start and its   *)
(* one settlement, and another starts after that (promptChain).            *)
TurnsApart ==
    /\ Cardinality({p \in Prompts : turn[p] \in {"running", "settled"}}) <= 1
    /\ \A p \in Prompts :
        /\ told[p].settles = 1 <=> turn[p] \in {"settled", "over"}
        /\ turn[p] \in {"running", "settled", "over"} => told[p].starts = 1

(* Of a turn with a completion the session has answered the prompt: it is  *)
(* not at work on it any more, and it was not given up for its grace.      *)
CompletedIsAnswered ==
    \A p \in Prompts : told[p].completed => p \notin working /\ ~told[p].failed

(* A turn shows what the session says of another only after that one was   *)
(* left with the session at work on it: cancelled, or out of time.         *)
MixedIsLeft ==
    \A p \in mixed : \E q \in Prompts \ {p} : told[q].settles = 1 /\ ~told[q].completed

(* The session is told to stop the turn in flight that an abort or the     *)
(* signal found, whatever was cancelled before and whichever cancel is     *)
(* still being written (cancelSent) -- but for a turn that began while the *)
(* abort of one before it was under way: an abort of it joins that one     *)
(* (abortCoalesce) and nothing is sent.                                    *)
StopIsSent == \A p \in InFlight \cap asked : p \in heeded \cup joined

(* A turn is given up for its grace only if it was to stop: the timer does *)
(* not outlive its turn -- but for a turn that began while the cancel of   *)
(* one before it was being written, and gets the grace of that one.        *)
GivenUpIsAsked ==
    \A p \in Prompts :
        told[p].settles = 1 /\ ~told[p].completed /\ ~told[p].failed => p \in asked \cup strays

(* A turn that an abort of its own or the signal wants to stop settles,    *)
(* long before its hour is over, and so does one whose process died.       *)
TurnMustEnd(p) == turn[p] = "running" /\ (p \in asked \ joined \/ ~grokUp)
TurnsSettle == \A p \in Prompts : TurnMustEnd(p) ~> turn[p] # "running"

(* Once it is disposed of nothing is announced any more (the check of      *)
(* disposed after the wait for the chain).                                 *)
QuietAfterDispose ==
    [][gone # "no" => \A p \in Prompts : told'[p].starts = told[p].starts]_transportVars

(* Turns do not overlap, a turn completes by its own answer, each that     *)
(* needs one has its own cancel, and only these are given up.              *)
TransportSafe ==
    /\ TransportTypeOK
    /\ TurnsApart
    /\ CompletedIsAnswered
    /\ MixedIsLeft
    /\ StopIsSent
    /\ GivenUpIsAsked
=============================================================================
