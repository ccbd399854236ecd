------------------------------ MODULE GrokAcp -------------------------------
(***************************************************************************)
(* One run of an agent over the Agent Client Protocol: grok-acp-client.ts  *)
(* and the part of grok-acp-execution.ts that runs without an endpoint.    *)
(*                                                                         *)
(* A run on a new session spawns grok, passes initialize and authenticate, *)
(* asks for a session, takes the lease of its id, has the id recorded, and *)
(* prompts; then it disposes of the process and has the delivery recorded. *)
(* A run that continues a session takes the lease first, loads the session *)
(* instead, and has the delivery recorded before it disposes.  The abort   *)
(* signal ends a stage at once and gives a prompt a grace.                 *)
(*                                                                         *)
(* The process is external: it answers, fails or says nothing, may die,    *)
(* may not heed SIGTERM, and its pipes may stay open behind it, held by a  *)
(* child of its own.                                                       *)
(***************************************************************************)
EXTENDS Naturals

VARIABLES
    path,       \* "fresh" or "load"
    stageAt,    \* the stage of the run
    signalled,  \* the abort signal
    wasAborted, \* the connection has heard it
    agentProc,  \* "none", "up", "exited", "closed" (its pipes too)
    cleanup,    \* cleanupProcess: "none", "term", "kill", "done", "failed"
    hold,       \* the run's lease: "none", "held", "released", "poisoned"
    others,     \* the lease of the session otherwise: "free", "held", "failed"
    cancelSent,
    source,     \* of the completion: "none", "response", "cancel_grace"
    reply,     \* what the response says: "none", "end", "other"
    destined,    \* what the run is to end with, once the process is gone
    delivered,
    acpOutcome     \* of the run; "pending" until it is over

outside == <<path, others>>
acpVars == <<outside, stageAt, signalled, wasAborted, agentProc, cleanup, hold,
             cancelSent, source, reply, destined, delivered, acpOutcome>>
ends == <<destined, acpOutcome>>
prompted == <<source, reply, delivered>>

(* The stages that are requests, raced with the abort.                     *)
Raced == {"initialize", "authenticate", "new", "load"}
Opening == {"spawn", "initialize", "authenticate"}

AcpTypeOK ==
    /\ path \in {"fresh", "load"}
    /\ stageAt \in Raced \cup {"lease", "spawn", "persist", "prompt", "deliver", "dispose", "over"}
    /\ signalled \in BOOLEAN /\ wasAborted \in BOOLEAN
    /\ cancelSent \in BOOLEAN /\ delivered \in BOOLEAN
    /\ wasAborted => signalled
    /\ agentProc \in {"none", "up", "exited", "closed"}
    /\ cleanup \in {"none", "term", "kill", "done", "failed"}
    /\ hold \in {"none", "held", "released", "poisoned"}
    /\ others \in {"free", "held", "failed"}
    /\ source \in {"none", "response", "cancel_grace"} /\ reply \in {"none", "end", "other"}
    /\ destined \in {"none", "completed", "failed", "aborted", "error", "unopened"}
    /\ acpOutcome \in {"pending", "completed", "failed", "aborted", "error", "dispose_failed"}
    /\ stageAt = "over" <=> acpOutcome # "pending"

AcpInit ==
    /\ \/ path = "fresh" /\ stageAt = "spawn" /\ others = "free"
       \/ path = "load" /\ stageAt = "lease" /\ others \in {"free", "held"}
    /\ signalled \in BOOLEAN
    /\ wasAborted = FALSE /\ agentProc = "none" /\ cleanup = "none" /\ hold = "none"
    /\ cancelSent = FALSE /\ source = "none" /\ reply = "none" /\ delivered = FALSE
    /\ destined = "none" /\ acpOutcome = "pending"

----------------------------------------------------------------------------
GoesTo(stage) == stageAt' = stage /\ UNCHANGED ends

(* A bug: a run without a process ends without a result.                   *)
Fails_Silent(with) ==
    IF agentProc = "none" THEN stageAt' = "over" /\ UNCHANGED ends
    ELSE stageAt' = "dispose" /\ destined' = with /\ UNCHANGED acpOutcome

(* An error ends the work.  Without a process there is nothing to clean    *)
(* up; else the outcome waits for cleanupProcess.                          *)
Fails(with) ==
    IF agentProc = "none"
    THEN stageAt' = "over" /\ acpOutcome' = with /\ UNCHANGED destined
    ELSE stageAt' = "dispose" /\ destined' = with /\ UNCHANGED acpOutcome

(* What an error counts as: the opening looks at the connection when all   *)
(* is cleaned up, the facade as soon as it fails, and the load path looks  *)
(* at the error, which is the abort's when it ended a request (StageFails).*)
Blame == IF stageAt \in Opening THEN "unopened"
         ELSE IF wasAborted /\ path = "fresh" THEN "aborted" ELSE "error"

(* The load path waits for the lease before it does anything else; the     *)
(* hook of session/new waits for it with the process alive.  Neither wait  *)
(* looks at the signal.                                                    *)
LeaseTaken ==
    /\ stageAt = "lease" /\ others = "free" /\ hold' = "held"
    /\ GoesTo(IF path = "load" THEN "spawn" ELSE "persist")
    /\ UNCHANGED <<outside, signalled, wasAborted, agentProc, cleanup, cancelSent, prompted>>

LeaseRefused ==
    /\ stageAt = "lease" /\ others = "failed" /\ Fails("error")
    /\ UNCHANGED <<outside, signalled, wasAborted, agentProc, cleanup, hold, cancelSent, prompted>>

(* openGrokAcpConnection: a signal that has fired counts at once.  A spawn *)
(* that fails later gives a closed process.                                *)
Spawn ==
    /\ stageAt = "spawn" /\ wasAborted' = signalled
    /\ \/ signalled /\ hold = "none" /\ Fails("aborted") /\ UNCHANGED <<agentProc, hold>>
       \/ /\ signalled /\ hold = "held" /\ Fails("aborted") /\ hold' = "released"
          /\ UNCHANGED agentProc
       \/ ~signalled /\ agentProc' \in {"up", "closed"} /\ GoesTo("initialize") /\ UNCHANGED hold
    /\ UNCHANGED <<outside, signalled, cleanup, cancelSent, prompted>>

Following(stage) ==
    CASE stage = "initialize"   -> {"authenticate", IF path = "load" THEN "load" ELSE "new"}
      [] stage = "authenticate" -> {IF path = "load" THEN "load" ELSE "new"}
      [] stage = "new"          -> {"lease"}
      [] stage = "load"         -> {"prompt"}

(* The answer of a stage; with no method of authentication that stage is   *)
(* left out.  A history without a message of the user fails the load.      *)
StageAnswered ==
    /\ stageAt \in Raced /\ agentProc = "up" /\ ~wasAborted
    /\ \E next \in Following(stageAt) : GoesTo(next)
    /\ UNCHANGED <<outside, signalled, wasAborted, agentProc, cleanup, hold, cancelSent, prompted>>

(* An error, the time-out, or the abort.                                   *)
StageFails ==
    /\ stageAt \in Raced /\ Fails(IF wasAborted /\ stageAt \notin Opening THEN "aborted" ELSE Blame)
    /\ UNCHANGED <<outside, signalled, wasAborted, agentProc, cleanup, hold, cancelSent, prompted>>

(* onAcpSessionEstablished records the id, or fails; then the abort is     *)
(* looked at.                                                              *)
Recorded ==
    /\ stageAt = "persist"
    /\ \/ ~wasAborted /\ GoesTo("prompt")
       \/ wasAborted /\ Fails("aborted")
       \/ Fails(Blame)
    /\ UNCHANGED <<outside, signalled, wasAborted, agentProc, cleanup, hold, cancelSent, prompted>>

(* A bug: the grace ends a prompt like a response that says nothing else.  *)
Completes_Grace ==
    LET end == IF wasAborted /\ source' = "response" THEN "aborted"
               ELSE IF reply' # "other" THEN "completed" ELSE "failed"
    IN  stageAt' = (IF path = "load" /\ end = "completed" THEN "deliver" ELSE "dispose")
        /\ destined' = end /\ UNCHANGED acpOutcome

(* The prompt is over: an aborted run is disposed of, and only a response  *)
(* that says the work is done is delivered, on the load path at once.      *)
Completes ==
    LET end == IF wasAborted \/ source' = "cancel_grace" THEN "aborted"
               ELSE IF reply' = "end" THEN "completed" ELSE "failed"
    IN  stageAt' = (IF path = "load" /\ end = "completed" THEN "deliver" ELSE "dispose")
        /\ destined' = end /\ UNCHANGED acpOutcome

PromptAnswered ==
    /\ stageAt = "prompt" /\ agentProc = "up"
    /\ source' = "response" /\ reply' \in {"end", "other"} /\ Completes
    /\ UNCHANGED <<outside, signalled, wasAborted, agentProc, cleanup, hold, cancelSent, delivered>>

(* A bug: the abort starts no grace.                                       *)
GraceOver_Unarmed == FALSE /\ UNCHANGED acpVars

(* The grace that the abort armed.                                         *)
GraceOver ==
    /\ stageAt = "prompt" /\ wasAborted
    /\ source' = "cancel_grace" /\ UNCHANGED reply /\ Completes
    /\ UNCHANGED <<outside, signalled, wasAborted, agentProc, cleanup, hold, cancelSent, delivered>>

(* The hour is over, or the connection breaks.                             *)
PromptFails ==
    /\ stageAt = "prompt" /\ Fails(Blame)
    /\ UNCHANGED <<outside, signalled, wasAborted, agentProc, cleanup, hold, cancelSent, prompted>>

(* onAcpPromptCompleted.  On the load path the process is still there.     *)
Deliver ==
    /\ stageAt = "deliver"
    /\ \/ /\ delivered' = TRUE
          /\ IF path = "load" THEN GoesTo("dispose") /\ UNCHANGED hold
             ELSE /\ stageAt' = "over" /\ acpOutcome' = "completed" /\ hold' = "released"
                  /\ UNCHANGED destined
       \/ /\ UNCHANGED delivered
          /\ IF path = "load"
             THEN stageAt' = "dispose" /\ destined' = "error" /\ UNCHANGED <<acpOutcome, hold>>
             ELSE /\ stageAt' = "over" /\ acpOutcome' = "error" /\ hold' = "released"
                  /\ UNCHANGED destined
    /\ UNCHANGED <<outside, signalled, wasAborted, agentProc, cleanup, cancelSent, source, reply>>

----------------------------------------------------------------------------
(* cleanupProcess.                                                         *)
Terminate ==
    /\ stageAt = "dispose" /\ cleanup = "none"
    /\ cleanup' = IF agentProc = "closed" THEN "done" ELSE "term"
    /\ UNCHANGED <<outside, stageAt, signalled, wasAborted, agentProc, hold, cancelSent, prompted, ends>>

(* The process closes within the bound, or is killed: a signal that finds  *)
(* no process leaves its pipes in doubt.                                   *)
Wait ==
    /\ stageAt = "dispose" /\ cleanup = "term"
    /\ CASE agentProc = "closed" -> cleanup' = "done" /\ UNCHANGED agentProc
         [] agentProc = "exited" -> cleanup' = "failed" /\ UNCHANGED agentProc
         [] agentProc = "up"     -> cleanup' = "kill" /\ agentProc' = "exited"
    /\ UNCHANGED <<outside, stageAt, signalled, wasAborted, hold, cancelSent, prompted, ends>>

WaitKilled ==
    /\ stageAt = "dispose" /\ cleanup = "kill"
    /\ cleanup' = IF agentProc = "closed" THEN "done" ELSE "failed"
    /\ UNCHANGED <<outside, stageAt, signalled, wasAborted, agentProc, hold, cancelSent, prompted, ends>>

(* A bug: a lease is given back whatever became of the process.            *)
Release_Always == hold' = IF hold = "held" THEN "released" ELSE hold

(* releaseSessionLeaseWithCertainty.                                       *)
Release == hold' = IF hold # "held" THEN hold
                   ELSE IF cleanup = "done" THEN "released" ELSE "poisoned"

(* A bug: the error that came first is told.                               *)
EndsAs_First == acpOutcome' = destined

(* A failed disposal is told before anything else.                         *)
EndsAs == acpOutcome' = IF cleanup = "failed" THEN "dispose_failed"
                   ELSE IF destined # "unopened" THEN destined
                   ELSE IF wasAborted THEN "aborted" ELSE "error"

(* The process is gone or in doubt: a run on a new session that succeeded  *)
(* delivers now, every other is over.                                      *)
Disposed ==
    /\ stageAt = "dispose" /\ cleanup \in {"done", "failed"}
    /\ IF path = "fresh" /\ destined = "completed" /\ cleanup = "done"
       THEN stageAt' = "deliver" /\ UNCHANGED <<acpOutcome, hold>>
       ELSE stageAt' = "over" /\ Release /\ EndsAs
    /\ UNCHANGED <<outside, signalled, wasAborted, agentProc, cleanup, cancelSent, prompted, destined>>

----------------------------------------------------------------------------
(* The connection listens from its opening until its disposal, and while   *)
(* an opening that failed is cleaned up.                                   *)
Listening ==
    \/ stageAt \in Raced \cup {"persist", "prompt"} \/ (stageAt = "lease" /\ path = "fresh")
    \/ stageAt = "deliver" /\ path = "load"
    \/ stageAt = "dispose" /\ destined = "unopened"
SessionKnown == stageAt \in {"load", "persist", "prompt", "deliver"} \/ (stageAt = "lease" /\ path = "fresh")

SignalAborts ==
    /\ ~signalled /\ stageAt # "over" /\ signalled' = TRUE
    /\ wasAborted' = Listening
    /\ cancelSent' = (cancelSent \/ (wasAborted' /\ SessionKnown))
    /\ UNCHANGED <<outside, stageAt, agentProc, cleanup, hold, prompted, ends>>

ProcessExits ==
    /\ agentProc = "up" /\ agentProc' = "exited"
    /\ UNCHANGED <<outside, stageAt, signalled, wasAborted, cleanup, hold, cancelSent, prompted, ends>>

PipesClose ==
    /\ agentProc = "exited" /\ agentProc' = "closed"
    /\ UNCHANGED <<outside, stageAt, signalled, wasAborted, cleanup, hold, cancelSent, prompted, ends>>

OtherLetsGo ==
    /\ others = "held" /\ others' \in {"free", "failed"}
    /\ UNCHANGED <<path, stageAt, signalled, wasAborted, agentProc, cleanup, hold, cancelSent, prompted, ends>>

RunStep ==
    \/ LeaseTaken \/ LeaseRefused \/ Spawn \/ StageFails \/ Recorded \/ GraceOver \/ Deliver
    \/ Terminate \/ Wait \/ WaitKilled \/ Disposed

AcpNext ==
    \/ RunStep \/ StageAnswered \/ PromptAnswered \/ PromptFails
    \/ SignalAborts \/ ProcessExits \/ PipesClose \/ OtherLetsGo

(* Timers fire and hooks settle; the process need not answer, the hour of  *)
(* a prompt is not waited for, and another holder of the lease lets go.    *)
AcpSpec == AcpInit /\ [][AcpNext]_acpVars /\ WF_acpVars(RunStep) /\ WF_acpVars(OtherLetsGo)

----------------------------------------------------------------------------
MayLive == agentProc \in {"up", "exited"}

(* "The lease covers": a session is loaded, recorded and prompted under    *)
(* its lease alone, which is given back only when the process is gone for  *)
(* certain.                                                                *)
LeaseCovers ==
    /\ stageAt \in {"persist", "prompt"} \/ (path = "load" /\ stageAt \in Raced \cup {"spawn"}) =>
         hold = "held" /\ others = "free"
    /\ hold = "released" => ~MayLive

(* A run that leaves a process in doubt says so, before any other error,   *)
(* and keeps the lease from everybody (isDisposeFailedError).              *)
DoubtIsTold ==
    stageAt = "over" /\ MayLive => acpOutcome = "dispose_failed" /\ hold \in {"none", "poisoned"}

(* Delivery is recorded for a response that says the work is done, and for *)
(* nothing else; a run completes only with its delivery recorded.          *)
DeliveredIsAnswered ==
    /\ delivered => source = "response" /\ reply = "end" /\ acpOutcome # "aborted"
    /\ acpOutcome = "completed" => delivered

(* A run whose signal fires ends, if it did not wait for a lease that      *)
(* nobody gives back, whatever the process does.                           *)
AbortEnds == signalled ~> stageAt = "over"

(* The lease covers the life of the process, a doubt about its death is    *)
(* told, and a delivery on record was answered.                            *)
AcpSafe == AcpTypeOK /\ LeaseCovers /\ DoubtIsTold /\ DeliveredIsAnswered
=============================================================================
