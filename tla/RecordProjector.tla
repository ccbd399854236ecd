-------------------------- MODULE RecordProjector ---------------------------
(***************************************************************************)
(* The parser of the records of a pi child (pi-rpc-record-projector.ts):   *)
(* it reads a record as it arrives, keeps it whole up to OrdinaryMax       *)
(* bytes, and lets only the events it knows grow to ProjectableMax, of     *)
(* which it keeps a shell.  Everything else is an error of the protocol,   *)
(* and must be found while the record is read, for no more is kept.        *)
(*                                                                         *)
(* The text is a sequence of tokens, each with its bytes: a string, a      *)
(* number or a literal is one token.  White space, escapes, the decoding   *)
(* of UTF-8 and the ends of chunks are left out; where a chunk ends makes  *)
(* no difference to a parser that consumes one character after the other.  *)
(***************************************************************************)
EXTENDS Integers, Sequences, FiniteSets, SequencesExt

CONSTANTS Texts,           \* the records: sequences of tokens
          Strings,         \* the tokens that are strings
          Bytes,           \* the bytes of a token
          OrdinaryMax,     \* ordinaryMaxBytes
          ProjectableMax,  \* projectableMaxBytes
          ShellMax,        \* shellFieldMaxBytes
          DepthMax         \* maxDepth

ASSUME ProjectorAssumption ==
    {OrdinaryMax, ProjectableMax, ShellMax, DepthMax} \subseteq Nat

VARIABLES
    text,      \* the record
    read,      \* how many of its tokens were read
    mode,      \* what comes next
    stack,     \* the containers that are open
    bytes,     \* recordedBytes
    granted,   \* projectableBudget: the line is no longer kept
    revoked,   \* it can no longer be projected
    kind,      \* projectableType
    keys,      \* topLevelKeys
    caught,    \* the fields of the shell
    verdict    \* "none" while reading, "error", "ordinary", "projected"

parserVars == <<mode, stack, bytes, granted, revoked, kind, keys, caught>>
projectorVars == <<text, read, parserVars, verdict>>

Size(s) == LET sum[i \in 0..Len(s)] == IF i = 0 THEN 0 ELSE sum[i - 1] + Bytes[s[i]]
           IN sum[Len(s)]

(* PROJECTABLE_PREFIXES: the orders of keys that an event may have.         *)
Orders(type) ==
    CASE type = "agent_end" -> {<<"type", "messages", "willRetry">>}
      [] type \in {"message_start", "message_end"} -> {<<"type", "message">>}
      [] type = "message_update" ->
            {<<"type", "usage", "assistantMessageEvent">>,
             <<"type", "assistantMessageEvent">>,
             <<"type", "assistantMessageEvent", "message">>}
      [] type = "turn_end" -> {<<"type", "message", "toolResults">>}
      [] type = "tool_execution_start" ->
            {<<"type", "toolCallId", "toolName", "args">>}
      [] type = "tool_execution_update" ->
            {<<"type", "toolCallId", "toolName", "args", "partialResult">>}
      [] type = "tool_execution_end" ->
            {<<"type", "toolCallId", "toolName", "result", "isError">>,
             <<"type", "toolCallId", "toolName", "result", "isError", "durationMs">>}
Types == {"agent_end", "message_start", "message_update", "message_end", "turn_end",
          "tool_execution_start", "tool_execution_update", "tool_execution_end"}

Booleans == {"true", "false"}
(* "1e999" stands for the numbers that are too long for a shell or not     *)
(* finite.                                                                 *)
Numbers == {"1", "1e999"}
Scalars == Strings \cup Booleans \cup Numbers \cup {"null"}

(* A field of an event whose value must be of one kind, told by its first  *)
(* token.                                                                  *)
RightKind(field, token) ==
    CASE field \in {"messages", "toolResults"} -> token = "["
      [] field \in {"message", "assistantMessageEvent", "usage"} -> token = "{"
      [] field = "durationMs" -> token = "1"
      [] OTHER -> TRUE

(* What the shell of an event needs besides its type.                      *)
Needs(type, fields) ==
    CASE type = "agent_end" -> {"willRetry"}
      [] type \in {"message_start", "message_end"} -> {"role"}
      [] type = "message_update" /\ "message" \in fields -> {"role"}
      [] type \in {"tool_execution_start", "tool_execution_update"} ->
            {"toolCallId", "toolName"}
      [] type = "tool_execution_end" -> {"toolCallId", "toolName", "isError"}
      [] OTHER -> {}

ProjectorInit ==
    /\ text \in Texts /\ read = 0
    /\ mode = "start" /\ stack = <<>>
    /\ bytes = 0 /\ granted = FALSE /\ revoked = FALSE
    /\ kind = "none" /\ keys = <<>> /\ caught = {}
    /\ verdict = "none"

-----------------------------------------------------------------------------
(* isKnownProjectablePrefix.                                               *)
Known == ~revoked /\ kind # "none" /\ \E o \in Orders(kind) : IsPrefix(keys, o)

(* A bug: whatever began like an event has the larger limit.               *)
Budget_Kind(n) == n <= OrdinaryMax \/ (n <= ProjectableMax /\ kind # "none")

(* enforceBudgets: may the record grow to n bytes?                         *)
Budget(n) ==
    \/ ~granted /\ n <= OrdinaryMax
    \/ n <= ProjectableMax /\ Known

Error == verdict' = "error" /\ UNCHANGED parserVars

(* revokeProjectability: too late once the record is too large for others. *)
Revokes(yes) ==
    LET over == granted' \/ bytes' > OrdinaryMax
    IN /\ revoked' = (revoked \/ yes)
       /\ verdict' = IF yes /\ over THEN "error" ELSE verdict

Top == stack[Len(stack)]
AtTop == stack # <<>> /\ Len(stack) = 1 /\ Top.is = "object"
Field == IF AtTop THEN Top.key ELSE "none"

(* afterValue: the frame that is innermost now has one value more.         *)
AfterValue(frames) ==
    IF frames = <<>> THEN mode' = "done" /\ stack' = frames
    ELSE LET n == Len(frames)
         IN IF frames[n].is = "object"
            THEN mode' = "object_next" /\ stack' = [frames EXCEPT ![n].key = "none"]
            ELSE mode' = "array_next" /\ stack' = [frames EXCEPT ![n].count = 1]

Popped == SubSeq(stack, 1, Len(stack) - 1)

Open(token) ==
    /\ stack' = Append(stack, [is |-> IF token = "{" THEN "object" ELSE "array",
                               keys |-> {}, key |-> "none", count |-> 0])
    /\ mode' = IF token = "{" THEN "object_key" ELSE "array_value"
    /\ UNCHANGED <<kind, keys, caught>>
    /\ Revokes(~RightKind(Field, token))

(* message.role, one level below the top.                                  *)
IsRole == /\ Len(stack) = 2 /\ Top.is = "object" /\ Top.key = "role"
          /\ stack[1].is = "object" /\ stack[1].key = "message"

(* The field of the shell that a value is for, if any.                     *)
ShellField == IF IsRole THEN "role" ELSE Field

Fills(token) ==
    \/ /\ ShellField \in {"role", "toolCallId", "toolName"}
       /\ token \in Strings /\ Bytes[token] <= ShellMax
    \/ ShellField \in {"willRetry", "isError"} /\ token \in Booleans

(* A string, a number or a literal as a value: endString with              *)
(* captureShellString, endNumber, endLiteral.                              *)
Scalar(token) ==
    LET word == token \in Strings
        isType == Field = "type" /\ token \in Types
    IN /\ AfterValue(stack)
       /\ kind' = IF isType THEN token ELSE kind
       /\ caught' = caught \cup {f \in {ShellField} : Fills(token)}
       /\ UNCHANGED keys
       /\ Revokes(\/ ~RightKind(Field, token)
                  \/ ShellField \in {"role", "toolCallId", "toolName"} /\ word /\ ~Fills(token)
                  \/ Field = "type" /\ word /\ ~isType
                  \/ isType /\ ~ \E o \in Orders(token) : IsPrefix(keys, o)
                  \/ Field \in {"willRetry", "isError"} /\ token = "null")

(* endString of a key.  A key twice, or an order that no event has, makes  *)
(* the record an ordinary one.                                             *)
Key(token) ==
    LET n == Len(stack)
        twice == token \in Top.keys
        order == IF AtTop /\ ~twice THEN Append(keys, token) ELSE keys
    IN /\ mode' = "object_colon"
       /\ stack' = [stack EXCEPT ![n].keys = @ \cup {token}, ![n].key = token]
       /\ keys' = order
       /\ UNCHANGED <<kind, caught>>
       /\ Revokes(\/ twice
                  \/ AtTop /\ order[1] # "type"
                  \/ AtTop /\ kind # "none"
                       /\ ~ \E o \in Orders(kind) : IsPrefix(order, o))

(* closeContainer.                                                         *)
Close ==
    /\ AfterValue(Popped)
    /\ UNCHANGED <<kind, keys, caught, revoked, verdict>>

-----------------------------------------------------------------------------
Begins(token) == token \in Scalars \/ (token \in {"{", "["} /\ Len(stack) < DepthMax)

(* A bug: a comma may come last.                                           *)
Accepts_Trailing(token) ==
    CASE mode \in {"start", "value"} -> Begins(token)
      [] mode = "array_value" -> Begins(token) \/ token = "]"
      [] mode = "object_key" -> token \in Strings \cup {"}"}
      [] mode = "object_colon" -> token = ":"
      [] mode = "object_next" -> token \in {",", "}"}
      [] mode = "array_next" -> token \in {",", "]"}
      [] OTHER -> FALSE

(* May the token come here?  Each other one is thrown at.                  *)
Accepts(token) ==
    CASE mode \in {"start", "value"} -> Begins(token)
      [] mode = "array_value" -> Begins(token) \/ (token = "]" /\ Top.count = 0)
      [] mode = "object_key" -> token \in Strings \/ (token = "}" /\ Top.keys = {})
      [] mode = "object_colon" -> token = ":"
      [] mode = "object_next" -> token \in {",", "}"}
      [] mode = "array_next" -> token \in {",", "]"}
      [] OTHER -> FALSE

Takes(token) ==
    \/ token \in {"{", "["} /\ Open(token)
    \/ token \in {"}", "]"} /\ Close
    \/ mode = "object_key" /\ token \in Strings /\ Key(token)
    \/ mode # "object_key" /\ token \in Scalars /\ Scalar(token)
    \/ /\ token \in {":", ","}
       /\ mode' = CASE mode = "object_colon" -> "value"
                    [] mode = "object_next" -> "object_key"
                    [] mode = "array_next" -> "array_value"
       /\ UNCHANGED <<stack, kind, keys, caught, revoked, verdict>>

(* note and consume.                                                       *)
Consume ==
    LET token == text[read + 1]
        n == bytes + Bytes[token]
    IN /\ verdict = "none" /\ read < Len(text)
       /\ read' = read + 1 /\ UNCHANGED text
       /\ IF Budget(n) /\ Accepts(token)
          THEN bytes' = n /\ granted' = (granted \/ n > OrdinaryMax) /\ Takes(token)
          ELSE Error

(* canProject: the whole order, and all the shell needs.                   *)
CanProject ==
    /\ ~revoked /\ kind # "none" /\ keys \in Orders(kind)
    /\ Needs(kind, {keys[i] : i \in DOMAIN keys}) \subseteq caught

(* finish, at the end of the line.                                         *)
Finish ==
    /\ verdict = "none" /\ read = Len(text)
    /\ verdict' = IF mode # "done" THEN "error"
                  ELSE IF bytes <= OrdinaryMax THEN "ordinary"
                  ELSE IF CanProject THEN "projected" ELSE "error"
    /\ UNCHANGED <<text, read, parserVars>>

ProjectorNext == Consume \/ Finish

ProjectorSpec == ProjectorInit /\ [][ProjectorNext]_projectorVars

-----------------------------------------------------------------------------
(* The reference: what a record is, told from the whole of its text.       *)

(* Where the value that starts at i ends, at depth d; 0 if there is none.  *)
RECURSIVE ValueEnd(_, _, _), RestEnd(_, _, _)
At(s, i) == IF i \in DOMAIN s THEN s[i] ELSE "end"

(* The element or member at i and those after it, up to the closer.        *)
RestEnd(s, i, d) ==
    LET object == d.closer = "}"
        from == IF object THEN i + 2 ELSE i
        end == IF object /\ ~(At(s, i) \in Strings /\ At(s, i + 1) = ":") THEN 0
               ELSE ValueEnd(s, from, d.depth)
    IN IF end = 0 THEN 0
       ELSE IF At(s, end + 1) = d.closer THEN end + 1
       ELSE IF At(s, end + 1) = "," THEN RestEnd(s, end + 2, d)
       ELSE 0

ValueEnd(s, i, depth) ==
    LET closer == IF At(s, i) = "{" THEN "}" ELSE "]"
    IN IF At(s, i) \in Scalars THEN i
       ELSE IF At(s, i) \notin {"{", "["} \/ depth >= DepthMax THEN 0
       ELSE IF At(s, i + 1) = closer THEN i + 1
       ELSE RestEnd(s, i + 1, [closer |-> closer, depth |-> depth + 1])

WellFormed(s) == s # <<>> /\ ValueEnd(s, 1, 0) = Len(s)

Depth(s, i) == LET count[j \in 0..i] ==
                     IF j = 0 THEN 0
                     ELSE count[j - 1] + (IF s[j] \in {"{", "["} THEN 1
                                          ELSE IF s[j] \in {"}", "]"} THEN -1 ELSE 0)
               IN count[i - 1]
KeysAt(s, depth) == {i \in 1..Len(s) - 1 : /\ s[i] \in Strings /\ s[i + 1] = ":"
                                          /\ Depth(s, i) = depth}

(* The keys of the record up to place n, in their order.                   *)
KeyOrder(s, n) == LET at == {i \in KeysAt(s, 1) : s[1] = "{" /\ i <= n}
                      place == [k \in 1..Cardinality(at) |->
                                  CHOOSE i \in at : Cardinality({j \in at : j <= i}) = k]
                  IN [k \in DOMAIN place |-> s[place[k]]]

NoKeyTwice(s) ==
    \A d \in 1..DepthMax : \A i, j \in KeysAt(s, d) :
        i < j /\ s[i] = s[j] => \E k \in i..j : Depth(s, k) < d

TypeOf(s) == IF Len(s) >= 4 /\ s[2] = "type" /\ s[3] = ":" /\ s[4] \in Types
             THEN s[4] ELSE "none"

(* The fields of the shell that the record fills.                          *)
Filled(s) ==
    LET short(i) == s[i] \in Strings /\ Bytes[s[i]] <= ShellMax
        holder(i) == s[CHOOSE j \in KeysAt(s, 1) :
                         j < i /\ \A k \in KeysAt(s, 1) : k < i => k <= j]
    IN {s[i] : i \in {j \in KeysAt(s, 1) :
                         \/ s[j] \in {"toolCallId", "toolName"} /\ short(j + 2)
                         \/ s[j] \in {"willRetry", "isError"} /\ s[j + 2] \in Booleans}}
       \cup {"role" : i \in {j \in KeysAt(s, 2) :
                              s[j] = "role" /\ short(j + 2) /\ holder(j) = "message"}}

(* A canonical event: one of the orders, the right kinds, a full shell.    *)
Canonical(s) ==
    LET order == KeyOrder(s, Len(s))
    IN /\ TypeOf(s) # "none" /\ order \in Orders(TypeOf(s))
       /\ NoKeyTwice(s)
       /\ \A i \in KeysAt(s, 1) : RightKind(s[i], s[i + 2])
       /\ Needs(TypeOf(s), {order[k] : k \in DOMAIN order}) \subseteq Filled(s)

-----------------------------------------------------------------------------
(* What the parser says while it reads once, keeping next to nothing, is   *)
(* what the whole text says: a record of any other shape or size is an     *)
(* error, one up to OrdinaryMax bytes is handed on whole, and a canonical  *)
(* event up to ProjectableMax as its shell.                                *)
VerdictRight ==
    verdict # "none" =>
        verdict = IF ~WellFormed(text) THEN "error"
                  ELSE IF Size(text) <= OrdinaryMax THEN "ordinary"
                  ELSE IF Size(text) <= ProjectableMax /\ Canonical(text) THEN "projected"
                  ELSE "error"

(* A record that is read beyond OrdinaryMax bytes is within ProjectableMax *)
(* and looked so far like an event: its type came first and its keys, up   *)
(* to here, come in an order of that type.                                 *)
BudgetEarned ==
    (verdict = "none" /\ bytes > OrdinaryMax) =>
        /\ bytes <= ProjectableMax
        /\ TypeOf(text) # "none"
        /\ \E o \in Orders(TypeOf(text)) : IsPrefix(KeyOrder(text, read), o)

(* A record is accepted if and only if it is a whole event within its      *)
(* limits, and the larger limit is granted only to what has earned it.     *)
RecordsSafe == VerdictRight /\ BudgetEarned
=============================================================================
