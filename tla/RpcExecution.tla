---------------------------- MODULE RpcExecution ----------------------------
(***************************************************************************)
(* A unit that runs in an interactive endpoint (pi-rpc-execution.ts): the  *)
(* run activates the endpoint, must follow its own activation among those  *)
(* the user begins there by hand, and turns its end into the unit's        *)
(* result.  The id of its activation is known only after activate and the  *)
(* write that records the prompt; what is told before is cached by id.     *)
(*                                                                         *)
(* The endpoint is what InteractiveAgent models in detail, reduced to what *)
(* the run sees of it: one live activation, its messages (one each), its   *)
(* terminal override, and events that are told at once.  A prompt that     *)
(* joins a turn under way takes that turn's id, so Ours is that one.       *)
(***************************************************************************)
EXTENDS Integers, Sequences

CONSTANTS MaxForeign,   \* bound: activations the user begins
          CacheMax      \* EARLY_CACHE_MAX

ASSUME ExecAssumption == MaxForeign \in Nat /\ CacheMax \in Nat \ {0}

Ours == 0
Nobody == -1
Ids == 0..MaxForeign

VARIABLES
    live,      \* the activation that is live
    foreign,   \* how many the user has begun
    sent,      \* the prompt reached the child
    override,  \* terminalOverride of the live one
    status,    \* of the endpoint, when nothing is live
    messages,  \* the transcript: whose each message is
    outcome,   \* how ours ended
    at,        \* the run: "start", "calling", "establishing", "waiting",
               \* "ending", "done"
    base,      \* baseline: how many messages are not ours
    cache,     \* earlyByActivation, oldest first
    shown,     \* currentResult.messages
    seen,      \* settledSnapshot: how it ended
    timer,     \* the settle timer's reason
    firing,    \* its detach is under way
    aborted,   \* the signal
    answer,    \* the unit's result
    cut,       \* activations that the timer's detach ended
    evicted,   \* the cache dropped what it held of ours
    unrecorded \* the prompt could not be recorded

endpointVars == <<live, foreign, sent, override, status, messages, outcome>>
runVars == <<at, base, cache, shown, seen, timer, firing, answer>>
execVars == <<endpointVars, runVars, aborted, cut, evicted, unrecorded>>

Outcomes == {"ok", "error", "max_turns", "cancelled"}
Reasons == {"none", "max_turns", "abort"}

ExecTypeOK ==
    /\ live \in Ids \cup {Nobody} /\ foreign \in 0..MaxForeign
    /\ {sent, aborted, evicted, unrecorded} \subseteq BOOLEAN
    /\ override \in {"none", "max_turns", "cancelled"}
    /\ status \in {"idle", "error", "detached"}
    /\ \A i \in 1..Len(messages) : messages[i] \in Ids
    /\ {outcome, seen} \subseteq Outcomes \cup {"none"}
    /\ at \in {"start", "calling", "establishing", "waiting", "ending", "done"}
    /\ base \in 0..Len(messages)
    /\ Len(cache) <= CacheMax
    /\ {timer, firing} \subseteq Reasons
    /\ answer \in {"none", "completed", "failed", "max_turns", "cancelled"}
    /\ cut \subseteq Ids

ExecInit ==
    /\ live = Nobody /\ foreign = 0 /\ sent = FALSE /\ override = "none"
    /\ status = "idle" /\ messages = <<>> /\ outcome = "none"
    /\ at = "start" /\ base = 0 /\ cache = <<>> /\ shown = <<>> /\ seen = "none"
    /\ timer = "none" /\ firing = "none" /\ answer = "none"
    /\ aborted = FALSE /\ cut = {} /\ evicted = FALSE /\ unrecorded = FALSE

Early == at \in {"start", "calling", "establishing"}
After(n) == SubSeq(messages', n + 1, Len(messages'))
FromBase == After(base)

-----------------------------------------------------------------------------
(* The subscription.                                                       *)

(* A bug: the cache is not bounded.                                        *)
CacheEarly_Open(id, how) ==
    LET known == {i \in DOMAIN cache : cache[i].id = id}
    IN /\ cache' = IF known # {}
                   THEN [i \in DOMAIN cache |->
                           IF i \in known /\ how # "none"
                           THEN [cache[i] EXCEPT !.how = how, !.upto = Len(messages')]
                           ELSE cache[i]]
                   ELSE Append(cache, [id |-> id, how |-> how, upto |-> Len(messages')])
       /\ UNCHANGED evicted

(* cacheEarly: the oldest entry makes room, whoever's it is.               *)
CacheEarly(id, how) ==
    LET known == {i \in DOMAIN cache : cache[i].id = id}
        full == Len(cache) = CacheMax
    IN IF known # {}
       THEN /\ cache' = [i \in DOMAIN cache |->
                           IF i \in known /\ how # "none"
                           THEN [cache[i] EXCEPT !.how = how, !.upto = Len(messages')]
                           ELSE cache[i]]
            /\ UNCHANGED evicted
       ELSE /\ cache' = Append(IF full THEN Tail(cache) ELSE cache,
                               [id |-> id, how |-> how, upto |-> Len(messages')])
            /\ evicted' = (evicted \/ (full /\ cache[1].id = Ours))

(* endpoint_updated.                                                       *)
Updated(id) ==
    /\ \/ Early /\ CacheEarly(id, "none") /\ UNCHANGED <<shown, timer>>
       \/ /\ at = "waiting" /\ id = Ours
          /\ shown' = FromBase
          /\ timer' = IF override' = "max_turns" /\ timer = "none" THEN "max_turns" ELSE timer
          /\ UNCHANGED <<cache, evicted>>
       \/ ~Early /\ ~(at = "waiting" /\ id = Ours) /\ UNCHANGED <<cache, evicted, shown, timer>>
    /\ UNCHANGED <<at, seen>>

(* activation_settled, and applySettledSnapshot.                           *)
Settled(id, how) ==
    \/ Early /\ CacheEarly(id, how) /\ UNCHANGED <<shown, timer, at, seen>>
    \/ /\ at = "waiting" /\ id = Ours
       /\ shown' = FromBase /\ seen' = how /\ at' = "ending" /\ timer' = "none"
       /\ UNCHANGED <<cache, evicted>>
    \/ /\ ~Early /\ ~(at = "waiting" /\ id = Ours)
       /\ UNCHANGED <<cache, evicted, shown, timer, at, seen>>

(* The live activation ends.                                               *)
Ends(how, then) ==
    /\ live' = Nobody /\ override' = "none" /\ status' = then
    /\ outcome' = IF live = Ours THEN how ELSE outcome
    /\ Settled(live, how)

-----------------------------------------------------------------------------
(* The endpoint.                                                           *)

UserBegins ==
    /\ live = Nobody /\ at # "done" /\ foreign < MaxForeign
    /\ foreign' = foreign + 1 /\ live' = foreign + 1
    /\ UNCHANGED <<sent, override, status, messages, outcome>>
    /\ Updated(foreign')
    /\ UNCHANGED <<base, firing, answer, aborted, cut, unrecorded>>

Running == live # Nobody /\ (live = Ours => sent)

Speaks ==
    /\ Running /\ \A i \in DOMAIN messages : messages[i] # live
    /\ messages' = Append(messages, live)
    /\ UNCHANGED <<live, foreign, sent, override, status, outcome>>
    /\ Updated(live)
    /\ UNCHANGED <<base, firing, answer, aborted, cut, unrecorded>>

TurnsUsedUp ==
    /\ Running /\ live = Ours /\ override = "none" /\ override' = "max_turns"
    /\ UNCHANGED <<live, foreign, sent, status, messages, outcome>>
    /\ Updated(live)
    /\ UNCHANGED <<base, firing, answer, aborted, cut, unrecorded>>

TurnEnds ==
    /\ Running
    /\ UNCHANGED <<foreign, sent, messages>>
    /\ \/ \E how \in {"ok", "error"} : override = "none" /\ Ends(how, "idle")
       \/ override # "none" /\ Ends(override, "idle")
    /\ UNCHANGED <<base, firing, answer, aborted, cut, unrecorded>>

Crashes ==
    /\ live # Nobody /\ UNCHANGED <<foreign, sent, messages>>
    /\ Ends("error", "error")
    /\ UNCHANGED <<base, firing, answer, aborted, cut, unrecorded>>

(* registry.abort: an activation that was not sent yet is over at once.    *)
RegistryAbort ==
    \/ live = Nobody /\ UNCHANGED <<live, override, status, outcome, cache, evicted, shown, timer, at, seen>>
    \/ /\ live = Ours /\ ~sent /\ Ends("cancelled", "detached")
    \/ /\ Running /\ override' = (IF override = "none" THEN "cancelled" ELSE override)
       /\ UNCHANGED <<live, status, outcome>>
       /\ Updated(live)

(* The user cancels the turn in the view.                                  *)
ViewCancels ==
    /\ live = Ours /\ override = "none"
    /\ UNCHANGED <<foreign, sent, messages>>
    /\ RegistryAbort
    /\ UNCHANGED <<base, firing, answer, aborted, cut, unrecorded>>

-----------------------------------------------------------------------------
(* The run.                                                                *)

Answers(how) == at' = "done" /\ answer' = how

(* A signal that has aborted before: the prompt is not sent.               *)
Start ==
    /\ at = "start"
    /\ UNCHANGED <<foreign, sent, override, status, messages, outcome>>
    /\ IF aborted
       THEN Answers("cancelled") /\ UNCHANGED <<live, base, cache, evicted>>
       ELSE /\ live = Nobody /\ live' = Ours
            /\ at' = "calling" /\ base' = Len(messages)
            /\ CacheEarly(Ours, "none") /\ UNCHANGED answer
    /\ UNCHANGED <<shown, seen, timer, firing, aborted, cut, unrecorded>>

Prompted ==
    /\ at = "calling" /\ live = Ours /\ ~sent /\ sent' = TRUE
    /\ UNCHANGED <<live, foreign, override, status, messages, outcome, runVars,
                   aborted, cut, evicted, unrecorded>>

ActivateReturns ==
    /\ at = "calling" /\ sent /\ at' = "establishing"
    /\ UNCHANGED <<endpointVars, base, cache, shown, seen, timer, firing, answer,
                   aborted, cut, evicted, unrecorded>>

(* activate throws: it has ended the activation itself.  A cancellation is *)
(* told by the signal or by the error's text.                              *)
ActivateFails ==
    /\ at = "calling"
    /\ outcome \in {"none", "error", "cancelled"}
    /\ IF live = Ours
       THEN /\ live' = Nobody /\ override' = "none" /\ status' = "error" /\ outcome' = "error"
       ELSE UNCHANGED <<live, override, status, outcome>>
    /\ Answers(IF aborted \/ outcome = "cancelled" THEN "cancelled" ELSE "failed")
    /\ cache' = <<>>
    /\ UNCHANGED <<foreign, sent, messages, base, shown, seen, timer, firing,
                   aborted, cut, evicted, unrecorded>>

(* onSessionPromptEstablished rejects: the run fails, its turn goes on.    *)
RecordFails ==
    /\ at = "establishing" /\ unrecorded' = TRUE
    /\ Answers("failed") /\ cache' = <<>>
    /\ UNCHANGED <<endpointVars, base, shown, seen, timer, firing, aborted, cut, evicted>>

Cached == {i \in DOMAIN cache : cache[i].id = Ours}

(* A bug: any end that was kept is taken for ours.                         *)
CachedEnd_Any == {i \in DOMAIN cache : cache[i].how # "none"}

CachedEnd == {i \in Cached : cache[i].how # "none"}

(* A bug: an abort during the activation is forgotten.                     *)
Bind_Unarmed ==
    /\ at = "establishing"
    /\ \/ \E i \in CachedEnd :
            /\ seen' = cache[i].how
            /\ shown' = SubSeq(messages, base + 1, cache[i].upto)
            /\ at' = "ending" /\ UNCHANGED timer
       \/ /\ CachedEnd = {} /\ UNCHANGED seen
          /\ shown' = IF Cached = {} THEN SubSeq(messages, base + 1, Len(messages)) ELSE <<>>
          /\ at' = IF live = Nobody /\ status # "idle" THEN "ending" ELSE "waiting"
          /\ timer' = IF live = Ours /\ override = "max_turns" THEN "max_turns" ELSE "none"
    /\ cache' = <<>>
    /\ UNCHANGED <<endpointVars, base, firing, answer, aborted, cut, evicted, unrecorded>>

(* A bug: all the endpoint ever said is taken for the run's.               *)
Bind_FromStart ==
    /\ at = "establishing"
    /\ \/ \E i \in CachedEnd :
            /\ seen' = cache[i].how
            /\ shown' = SubSeq(messages, 1, cache[i].upto)
            /\ at' = "ending" /\ UNCHANGED timer
       \/ /\ CachedEnd = {} /\ UNCHANGED seen
          /\ shown' = SubSeq(messages, 1, Len(messages))
          /\ at' = IF live = Nobody /\ status # "idle" THEN "ending" ELSE "waiting"
          /\ timer' = IF live = Ours /\ override = "max_turns" THEN "max_turns"
                      ELSE IF aborted THEN "abort" ELSE "none"
    /\ cache' = <<>>
    /\ UNCHANGED <<endpointVars, base, firing, answer, aborted, cut, evicted, unrecorded>>

(* The id is known: what was told early of ours is replayed, or the run    *)
(* waits.  An endpoint that is gone without a word of ours ends it too.    *)
Bind ==
    /\ at = "establishing"
    /\ \/ \E i \in CachedEnd :
            /\ seen' = cache[i].how
            /\ shown' = SubSeq(messages, base + 1, cache[i].upto)
            /\ at' = "ending" /\ UNCHANGED timer
       \/ /\ CachedEnd = {} /\ UNCHANGED seen
          /\ shown' = IF Cached = {} THEN SubSeq(messages, base + 1, Len(messages)) ELSE <<>>
          /\ at' = IF live = Nobody /\ status # "idle" THEN "ending" ELSE "waiting"
          /\ timer' = IF at' = "ending" THEN "none"
                      ELSE IF live = Ours /\ override = "max_turns" THEN "max_turns"
                      ELSE IF aborted THEN "abort" ELSE "none"
    /\ cache' = <<>>
    /\ UNCHANGED <<endpointVars, base, firing, answer, aborted, cut, evicted, unrecorded>>

(* The signal: onAbort, once the listener is there.  It aborts whatever is *)
(* live, and the wait for its end is bounded from now on.                  *)
Abort ==
    /\ ~aborted /\ at # "done" /\ aborted' = TRUE
    /\ UNCHANGED <<foreign, sent, messages>>
    /\ CASE at = "start" -> UNCHANGED <<live, override, status, outcome, cache, evicted,
                                        shown, timer, at, seen>>
         [] at = "waiting" /\ live # Ours ->
              /\ timer' = IF timer = "none" THEN "abort" ELSE timer
              /\ override' = IF live # Nobody THEN "cancelled" ELSE override
              /\ UNCHANGED <<live, status, outcome, cache, evicted, shown, at, seen>>
         [] at = "waiting" /\ live = Ours ->
              /\ override' = IF override = "none" THEN "cancelled" ELSE override
              /\ timer' = IF timer = "none" THEN "abort" ELSE timer
              /\ UNCHANGED <<live, status, outcome, cache, evicted, shown, at, seen>>
         [] OTHER -> RegistryAbort
    /\ UNCHANGED <<base, firing, answer, cut, unrecorded>>

TimerFires ==
    /\ timer # "none" /\ timer' = "none" /\ firing' = timer
    /\ UNCHANGED <<endpointVars, at, base, cache, shown, seen, answer,
                   aborted, cut, evicted, unrecorded>>

Unblock == IF at = "waiting" THEN at' = "ending" ELSE UNCHANGED at

(* A bug: whatever is live is detached.                                    *)
Detaches_Any ==
    /\ firing # "none" /\ firing' = "none"
    /\ UNCHANGED <<foreign, sent, messages>>
    /\ \/ /\ live # Nobody /\ cut' = cut \cup {live}
          /\ Ends(IF override = "none" THEN "error" ELSE override, "detached")
       \/ /\ live = Nobody /\ Unblock
          /\ UNCHANGED <<live, override, status, outcome, cut, cache, evicted, shown, timer, seen>>
    /\ UNCHANGED <<base, answer, aborted, unrecorded>>

(* A bug: the wait ends, the turn does not.                                *)
Detaches_Not ==
    /\ firing # "none" /\ firing' = "none" /\ Unblock
    /\ UNCHANGED <<endpointVars, base, cache, shown, seen, timer, answer,
                   aborted, cut, evicted, unrecorded>>

(* The detach of our activation, no other; then the wait is over in any    *)
(* case.                                                                   *)
Detaches ==
    /\ firing # "none" /\ firing' = "none"
    /\ UNCHANGED <<foreign, sent, messages>>
    /\ \/ /\ live = Ours /\ cut' = cut \cup {live}
          /\ Ends(IF override = "none" THEN "error" ELSE override, "detached")
       \/ /\ live # Ours /\ Unblock
          /\ UNCHANGED <<live, override, status, outcome, cut, cache, evicted, shown, timer, seen>>
    /\ UNCHANGED <<base, answer, aborted, unrecorded>>

(* A bug: what has ended well is not cancelled any more.                   *)
End_Settled ==
    /\ at = "ending"
    /\ Answers(CASE seen = "ok" -> "completed"
                 [] seen = "error" -> "failed"
                 [] seen = "max_turns" -> "max_turns"
                 [] seen = "cancelled" \/ (seen = "none" /\ aborted) -> "cancelled"
                 [] OTHER -> IF status = "error" THEN "failed" ELSE "completed")
    /\ timer' = "none" /\ cache' = <<>>
    /\ UNCHANGED <<endpointVars, base, shown, seen, firing, aborted, cut, evicted, unrecorded>>

(* The result: the signal before all else, then how ours ended, then what  *)
(* became of the endpoint.                                                 *)
End ==
    /\ at = "ending"
    /\ Answers(IF aborted THEN "cancelled"
               ELSE CASE seen = "ok" -> "completed"
                      [] seen = "error" -> "failed"
                      [] seen \in {"max_turns", "cancelled"} -> seen
                      [] OTHER -> IF status = "error" THEN "failed" ELSE "completed")
    /\ timer' = "none" /\ cache' = <<>>
    /\ UNCHANGED <<endpointVars, base, shown, seen, firing, aborted, cut, evicted, unrecorded>>

ExecNext ==
    \/ UserBegins \/ Speaks \/ TurnsUsedUp \/ TurnEnds \/ Crashes \/ ViewCancels
    \/ Start \/ Prompted \/ ActivateReturns \/ ActivateFails \/ RecordFails
    \/ Bind \/ Abort \/ TimerFires \/ Detaches \/ End

(* activate returns or throws (its requests time out), the write of the    *)
(* record ends, timers fire and detach ends; no turn need ever end.        *)
ExecFair ==
    /\ WF_execVars(ActivateReturns \/ ActivateFails)
    /\ WF_execVars(Bind) /\ WF_execVars(TimerFires) /\ WF_execVars(Detaches)
    /\ WF_execVars(End)

ExecSpec == ExecInit /\ [][ExecNext]_execVars /\ ExecFair

-----------------------------------------------------------------------------
(* A unit is not reported as completed, nor as out of turns, on account of *)
(* another activation at its endpoint: its own ended that way.             *)
AnswerIsOurs ==
    /\ answer = "completed" => outcome = "ok" \/ evicted
    /\ answer = "max_turns" => outcome = "max_turns"

(* Its messages are its own: what the user's turns said before and after,  *)
(* or while its start was recorded, is not among them, and none is lost.   *)
MessagesAreOurs ==
    answer \in {"completed", "max_turns"} /\ ~evicted =>
        shown = IF \E i \in DOMAIN messages : messages[i] = Ours THEN <<Ours>> ELSE <<>>

(* Once the signal aborts the unit is reported as cancelled, however its   *)
(* turn ended, unless the run had failed for want of a record.             *)
AbortIsCancelled == aborted /\ at = "done" /\ ~unrecorded => answer = "cancelled"

(* When the run returns its turn is over, so that the session may be given *)
(* to the next.                                                            *)
NoTurnLeft == at = "done" /\ ~unrecorded => live # Ours

(* The timer of a run never ends a turn of the user.                       *)
UserTurnKept == cut \subseteq {Ours}

(* The run returns once its turn has ended or the signal has aborted, at   *)
(* whatever moment, though no turn needs to end.                           *)
RunReturns == /\ outcome # "none" ~> at = "done" \/ evicted
              /\ aborted /\ at # "start" ~> at = "done"

(* A run answers with its own activation's messages, is cancelled when it  *)
(* was aborted, and neither leaves its turn nor ends the user's.           *)
ExecSafe ==
    /\ ExecTypeOK
    /\ AnswerIsOurs
    /\ MessagesAreOurs
    /\ AbortIsCancelled
    /\ NoTurnLeft
    /\ UserTurnKept
=============================================================================
