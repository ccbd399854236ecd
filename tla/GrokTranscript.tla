--------------------------- MODULE GrokTranscript ---------------------------
(***************************************************************************)
(* The transcript of a Grok session: grok-acp-transcript.ts.               *)
(*                                                                         *)
(* The session's updates come one by one, after a load as a replay of its  *)
(* history, and become the messages of the agent view.  A message that is  *)
(* still growing is a draft; a message id that comes back reopens its      *)
(* message; a tool call is a part of the agent's message and gets a result *)
(* of its own.                                                             *)
(*                                                                         *)
(* What a chunk says is the number of its update.  Consecutive chunks of a *)
(* kind are one part in the code and several here.  Time stamps, usage,    *)
(* the names and arguments of tools, and the views derived from a draft    *)
(* (the streaming message, the active tools) are left out.                 *)
(***************************************************************************)
EXTENDS Naturals, Sequences, FiniteSets, SequencesExt

CONSTANTS MessageIds,   \* the ids a chunk may carry
          UserIds,      \* of these, the ones of the user's messages
          NoId,         \* a chunk without one
          Tools,        \* the ids of tool calls
          Statuses,     \* the statuses of an update of a tool that say one
          MaxUpdates    \* bound: updates of a session

ASSUME TranscriptAssumption ==
    NoId \notin MessageIds /\ UserIds \subseteq MessageIds /\ MaxUpdates \in Nat
    /\ Statuses \subseteq {"pending", "completed", "failed"}

VARIABLES
    view,    \* the projector: its messages, drafts, slots and tools
    loading, \* the replay of a load is not over
    said     \* the updates so far: what the session said

transcriptVars == <<view, loading, said>>

Nothing == [open |-> FALSE, id |-> NoId, parts |-> <<>>, slot |-> 0]
Draft(id, parts, slot) == [open |-> TRUE, id |-> id, parts |-> parts, slot |-> slot]
NewTool == [known |-> FALSE, status |-> "none", content |-> 0, told |-> FALSE]

TranscriptInit ==
    /\ view = [messages |-> <<>>, user |-> Nothing, agent |-> Nothing,
               slots |-> [m \in MessageIds |-> 0],
               tools |-> [t \in Tools |-> NewTool], order |-> <<>>]
    /\ loading \in BOOLEAN
    /\ said = <<>>

----------------------------------------------------------------------------
Message(role, id, parts) == [role |-> role, id |-> id, parts |-> parts]

(* A bug: the place is taken when the message is there already.            *)
Place_Behind(v, slot, m) ==
    [v EXCEPT !.messages = IF slot > Len(@) THEN Append(@, m) ELSE [@ EXCEPT ![slot] = m],
              !.slots = IF m.id = NoId THEN @ ELSE [@ EXCEPT ![m.id] = Len(v.messages) + 1]]

(* The message takes the slot, and its id leads there.                     *)
Place(v, slot, m) ==
    [v EXCEPT !.messages = IF slot > Len(@) THEN Append(@, m) ELSE [@ EXCEPT ![slot] = m],
              !.slots = IF m.id = NoId THEN @ ELSE [@ EXCEPT ![m.id] = slot]]

(* flushUser.                                                              *)
FlushUser(v) ==
    IF ~v.user.open THEN v
    ELSE [Place(v, Len(v.messages) + 1, Message("user", v.user.id, v.user.parts))
            EXCEPT !.user = Nothing]

(* A bug: a message that was reopened is added anew.                       *)
FlushAgent_Appends(v) ==
    IF ~v.agent.open THEN v
    ELSE [Place(v, Len(v.messages) + 1, Message("agent", v.agent.id, v.agent.parts))
            EXCEPT !.agent = Nothing]

(* flushAssistant: a reopened message goes back to its slot.               *)
FlushAgent(v) ==
    IF ~v.agent.open THEN v
    ELSE LET slot == IF v.agent.slot > 0 THEN v.agent.slot ELSE Len(v.messages) + 1
         IN  [Place(v, slot, Message("agent", v.agent.id, v.agent.parts))
                EXCEPT !.agent = Nothing]

(* A bug: a message that comes back starts empty.                          *)
Ensure_Empty(v, id) ==
    IF v.agent.open /\ v.agent.id = id THEN v
    ELSE LET w == FlushAgent(v)
             slot == IF id = NoId THEN 0 ELSE w.slots[id]
         IN  [w EXCEPT !.agent = Draft(id, <<>>, slot)]

(* ensureAssistant: the draft of that id, the message that had it          *)
(* reopened, or a new draft.                                               *)
Ensure(v, id) ==
    IF v.agent.open /\ v.agent.id = id THEN v
    ELSE LET w == FlushAgent(v)
             slot == IF id = NoId THEN 0 ELSE w.slots[id]
         IN  IF slot > 0 /\ w.messages[slot].role = "agent"
             THEN [w EXCEPT !.agent = Draft(id, w.messages[slot].parts, slot)]
             ELSE [w EXCEPT !.agent = Draft(id, <<>>, 0)]

Say(v, id, part) == LET w == Ensure(v, id) IN [w EXCEPT !.agent.parts = Append(@, part)]

(* ensureToolOnAssistant: the call is a part of the draft without an id.   *)
ShowCall(v, t) ==
    LET w == Ensure(v, NoId)
    IN  IF <<"call", t>> \in ToSet(w.agent.parts) THEN w
        ELSE [w EXCEPT !.agent.parts = Append(@, <<"call", t>>)]

Outcome(v, t) == Message("result", t, <<<<"content", v.tools[t].content>>>>)

(* What the result of a tool says is brought up to date.                   *)
Refresh(v, t) ==
    [v EXCEPT !.messages = [i \in 1..Len(@) |->
        IF @[i].role = "result" /\ @[i].id = t THEN Outcome(v, t) ELSE @[i]]]

(* A bug: every terminal update adds a result.                             *)
Tell_Again(v, t) ==
    LET w == FlushAgent(v)
    IN  [w EXCEPT !.messages = Append(@, Outcome(w, t)), !.tools[t].told = TRUE]

(* A bug: the call is still in the draft when its result is added.         *)
Tell_First(v, t) ==
    IF v.tools[t].told THEN Refresh(v, t)
    ELSE [v EXCEPT !.messages = Append(@, Outcome(v, t)), !.tools[t].told = TRUE]

(* emitToolResult: the first terminal update adds the result, behind the   *)
(* message that calls; a later one replaces what it says.                  *)
Tell(v, t) ==
    IF v.tools[t].told THEN Refresh(v, t)
    ELSE LET w == FlushAgent(v)
         IN  [w EXCEPT !.messages = Append(@, Outcome(w, t)), !.tools[t].told = TRUE]

Terminal(v, t) == v.tools[t].status \in {"completed", "failed"}

(* ensureTool and the update's status and content ("none" and 0: it says   *)
(* nothing of them).                                                       *)
Touch(v, t, status, content) ==
    LET tool == [v.tools[t] EXCEPT !.known = TRUE,
                    !.status = IF status = "none" THEN @ ELSE status,
                    !.content = IF content = 0 THEN @ ELSE content]
    IN  [v EXCEPT !.tools[t] = tool,
                  !.order = IF v.tools[t].known THEN @ ELSE Append(@, t)]

----------------------------------------------------------------------------
(* What each update does (handleUpdate), n being its number.               *)
UserChunk(v, id, n) ==
    LET w == FlushAgent(v)
        u == w.user
    IN  IF ~u.open \/ (id # NoId /\ u.id # NoId /\ u.id # id)
        THEN [FlushUser(w) EXCEPT !.user = Draft(id, <<<<"said", n>>>>, 0)]
        ELSE [w EXCEPT !.user = Draft(IF id = NoId THEN u.id ELSE id, Append(u.parts, <<"said", n>>), 0)]

AgentChunk(v, id, n) == Say(FlushUser(v), id, <<"said", n>>)

ToolCall(v, t, status, content) ==
    LET w == ShowCall(Touch(FlushUser(v), t, status, content), t)
    IN  IF Terminal(w, t) THEN Tell(w, t) ELSE w

ToolUpdate(v, t, status, content) ==
    LET w == Touch(v, t, status, content)
        x == IF w.agent.open THEN ShowCall(w, t) ELSE w
    IN  IF Terminal(x, t) THEN Tell(x, t)
        ELSE IF x.tools[t].told /\ x.tools[t].content # 0 THEN Refresh(x, t)
        ELSE x

(* A bug: a call of the history that has no end gets no result.            *)
Interrupt_Leaves(v, t) == v

Interrupt(v, t) ==
    IF v.tools[t].told THEN v ELSE Tell([v EXCEPT !.tools[t].status = "interrupted"], t)

(* The first k calls have a result, in the order in which they came.       *)
Interrupted(v) ==
    LET done[k \in 0..Len(v.order)] == IF k = 0 THEN v ELSE Interrupt(done[k - 1], v.order[k])
    IN  done

(* finalizeLoadBarrier: what the history left open is closed, and calls    *)
(* that had no end get a result.                                           *)
Barrier(v) ==
    LET w == FlushAgent(FlushUser(v)) IN Interrupted(w)[Len(w.order)]

(* finalizePromptResponse.                                                 *)
PromptOver(v) == FlushAgent(FlushUser(v))

----------------------------------------------------------------------------
(* The session sends an update; a replay belongs to a load, and whatever   *)
(* comes outside a load (handleSessionUpdate) is treated alike.            *)
Update(v, what) ==
    /\ Len(said) < MaxUpdates
    /\ view' = v /\ said' = Append(said, what) /\ UNCHANGED loading

UserSays(id) ==
    LET n == Len(said) + 1
    IN  Update(UserChunk(view, id, n), [kind |-> "user", id |-> id])

AgentSays(id) ==
    LET n == Len(said) + 1
    IN  Update(AgentChunk(view, id, n), [kind |-> "agent", id |-> id])

(* A call is announced once, and not after an update of it.                *)
ToolCalled(t, status, says) ==
    LET content == IF says THEN Len(said) + 1 ELSE 0
    IN  /\ ~view.tools[t].known
        /\ Update(ToolCall(view, t, status, content), [kind |-> "call", id |-> t])

ToolUpdated(t, status, says) ==
    LET content == IF says THEN Len(said) + 1 ELSE 0
    IN  Update(ToolUpdate(view, t, status, content), [kind |-> "tool", id |-> t])

Loaded == loading /\ view' = Barrier(view) /\ loading' = FALSE /\ UNCHANGED said

Answered == ~loading /\ view' = PromptOver(view) /\ UNCHANGED <<loading, said>>

TranscriptNext ==
    \/ \E id \in (MessageIds \ UserIds) \cup {NoId} : AgentSays(id)
    \/ \E id \in UserIds \cup {NoId} : UserSays(id)
    \/ \E t \in Tools, status \in Statuses \cup {"none"}, says \in BOOLEAN :
         ToolCalled(t, status, says) \/ ToolUpdated(t, status, says)
    \/ Loaded \/ Answered

TranscriptSpec == TranscriptInit /\ [][TranscriptNext]_transcriptVars

----------------------------------------------------------------------------
TranscriptTypeOK ==
    /\ \A m \in ToSet(view.messages) :
        /\ m.role \in {"user", "agent", "result"}
        /\ m.id \in IF m.role = "result" THEN Tools ELSE MessageIds \cup {NoId}
    /\ \A draft \in {view.user, view.agent} : draft.slot \in 0..Len(view.messages)
    /\ view.slots \in [MessageIds -> 0..Len(view.messages)]
    /\ view.tools \in [Tools -> [known : BOOLEAN, told : BOOLEAN, content : 0..MaxUpdates,
                          status : Statuses \cup {"none", "interrupted"}]]
    /\ loading \in BOOLEAN /\ Len(said) <= MaxUpdates

(* The messages, once the drafts are closed.                               *)
Final == PromptOver(view).messages
Results(t) == {i \in DOMAIN view.messages :
                 view.messages[i].role = "result" /\ view.messages[i].id = t}
Before(parts, n, m) == \E i, j \in DOMAIN parts :
                         i < j /\ parts[i] = <<"said", n>> /\ parts[j] = <<"said", m>>

(* Nothing that was said is lost or shown twice, whatever comes between    *)
(* two chunks of a message: a chunk is in one message, of the one who said *)
(* it, and the agent's chunks of one id are in one message in their order  *)
(* (ensureAssistant, flushAssistant, flushUser).                           *)
SaidOnce ==
    LET shown == Final
    IN  /\ \A n \in DOMAIN said : said[n].kind \in {"user", "agent"} =>
            \E i \in DOMAIN shown : \E j \in DOMAIN shown[i].parts :
                /\ shown[i].role = said[n].kind
                /\ \A k \in DOMAIN shown : \A l \in DOMAIN shown[k].parts :
                      shown[k].parts[l] = <<"said", n>> <=> k = i /\ l = j
        /\ \A n, m \in DOMAIN said :
            (/\ n < m /\ said[n].kind = "agent" /\ said[m].kind = "agent"
             /\ said[n].id = said[m].id /\ said[n].id # NoId) =>
               \E i \in DOMAIN shown : Before(shown[i].parts, n, m)

(* A tool that ended has one result, and it says what the last update said *)
(* (emitToolResult).                                                       *)
ResultsTrue ==
    \A t \in Tools :
        /\ Cardinality(Results(t)) = IF view.tools[t].told THEN 1 ELSE 0
        /\ \A i \in Results(t) : view.messages[i] = Outcome(view, t)

(* The result of an announced call comes after the message that calls.     *)
CallFirst ==
    \A t \in Tools : [kind |-> "call", id |-> t] \in ToSet(said) =>
        \A i \in Results(t) : \E j \in 1..(i - 1) :
            <<"call", t>> \in ToSet(view.messages[j].parts)

(* What the view was given stays: a message is only ever continued, and    *)
(* keeps its place.                                                        *)
HistoryGrows ==
    [][/\ Len(view'.messages) >= Len(view.messages)
       /\ \A i \in DOMAIN view.messages :
            LET old == view.messages[i] new == view'.messages[i]
            IN  /\ new.role = old.role /\ new.id = old.id
                /\ old.role # "result" => IsPrefix(old.parts, new.parts)]_transcriptVars

(* When a load is over every call of the history has its result            *)
(* (finalizeLoadBarrier).                                                  *)
LoadEndsCalls ==
    [][loading # loading' => \A t \in Tools : view'.tools[t].known => view'.tools[t].told]_transcriptVars

(* Every chunk is in the transcript once, and every result is its call's,  *)
(* which comes before it.                                                  *)
TranscriptSafe == TranscriptTypeOK /\ SaidOnce /\ ResultsTrue /\ CallFirst
=============================================================================
