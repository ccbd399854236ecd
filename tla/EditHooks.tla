----------------------------- MODULE EditHooks ------------------------------
(***************************************************************************)
(* What follows an edit of a file: the hook of pi-format runs a formatter  *)
(* on it (hooks.ts, service.ts, registry.ts, runner.ts) and the hook of    *)
(* pi-lsp reads it for the language server (index.ts), in the order in     *)
(* which the host loaded them.  Beside them the agent's format tool        *)
(* (tools.ts), the user's /format and the switches of /format config       *)
(* (command.ts, config.ts).                                                *)
(*                                                                         *)
(* One file: the host's mutation queue and the hooks keep files apart.     *)
(* Its text is the set of edits it holds and who formatted it last.  A     *)
(* formatter is external: it reads the file, and writes it as a whole or   *)
(* fails.  The language server runs; LanguageServer.tla has the rest of    *)
(* it.  The host's edit tools, their mutation queue and their parallel     *)
(* calls are external.                                                     *)
(***************************************************************************)
EXTENDS Naturals, Sequences

CONSTANTS Edits,       \* calls of edit and write
          Formats,     \* calls of the format tool and of /format
          Turns,       \* turns of a switch
          Formatters   \* the formatters of the file, in order of precedence

Names == {Formatters[i] : i \in DOMAIN Formatters}
Switches == {"enabled", "formatOnWrite"} \cup Names

ASSUME EditHooksAssumption ==
    /\ Formatters \in Seq(Names)
    /\ Edits \cap Formats = {}
    /\ Names \cap {"enabled", "formatOnWrite", "nobody", "none"} = {}

VARIABLES
    first,     \* the package whose hook the host loaded first
    enrolled,  \* what was registered at load: "hook", "tool"
    text,      \* the file on disk
    line,      \* withFileMutationQueue: who changes the file, and who waits
    at,        \* where a call is
    base,      \* the text a call read last
    chosen,    \* the formatter a call runs
    server,    \* the text the language server was told of
    config,    \* config.json
    torn,      \* it cannot be parsed: it is being written, or was by two
    listed,    \* the switches in the list of /format config
    turn,      \* a turn of a switch: where it is, its switch, what it read
    crossed,   \* two turns were under way at once
    raced,     \* two texts were under way to the server at once
    exposed,   \* edits made while the format tool held an older text
    touched    \* the format tool wrote the file since it was last read

fileVars == <<text, line, base, exposed, touched>>
syncVars == <<server, raced>>
switchVars == <<config, torn, listed, turn, crossed>>
hookVars == <<first, enrolled, fileVars, at, chosen, syncVars, switchVars>>

Settings == [Switches -> BOOLEAN]
Defaults == [s \in Switches |-> TRUE]
Texts == [edits : SUBSET Edits, by : Names \cup {"nobody"}]
Places == {"new", "edit", "write", "queue", "config", "run", "out", "sync",
           "send", "failed", "done"}

(* getFormatConfig: what cannot be parsed counts as absent.                *)
Parsed == IF torn THEN Defaults ELSE config

HooksTypeOK ==
    /\ first \in {"format", "lsp"}
    /\ enrolled \subseteq {"hook", "tool"}
    /\ {text, server} \subseteq Texts
    /\ line \in Seq(Edits)
    /\ at \in [Edits \cup Formats -> Places]
    /\ base \in [Edits \cup Formats -> Texts]
    /\ chosen \in [Edits \cup Formats -> Names \cup {"none"}]
    /\ {config, listed} \subseteq Settings
    /\ turn \in [Turns -> [is : {"new", "read", "open", "torn", "done"},
                           of : Switches, was : Settings]]
    /\ {torn, crossed, raced, touched} \subseteq BOOLEAN
    /\ exposed \subseteq Edits

(* registerFormatHooks and registerFormatTool read the file once, at load. *)
HooksInit ==
    /\ first \in {"format", "lsp"}
    /\ config \in Settings /\ listed = config
    /\ enrolled = (IF config["enabled"] THEN {"tool"} ELSE {})
            \cup (IF config["enabled"] /\ config["formatOnWrite"] THEN {"hook"} ELSE {})
    /\ text = [edits |-> {}, by |-> "nobody"] /\ server = text
    /\ line = <<>>
    /\ at = [c \in Edits \cup Formats |-> "new"]
    /\ base = [c \in Edits \cup Formats |-> text]
    /\ chosen = [c \in Edits \cup Formats |-> "none"]
    /\ turn = [t \in Turns |-> [is |-> "new", of |-> "enabled", was |-> Defaults]]
    /\ torn = FALSE /\ crossed = FALSE /\ raced = FALSE /\ touched = FALSE
    /\ exposed = {}

Go(c, place) == at' = [at EXCEPT ![c] = place]
Ended(e) == at[e] \in {"new", "failed", "done"}

(* The hooks of a result run one after the other, in the order of loading. *)
Then(hook) == IF hook = "format" /\ "hook" \in enrolled THEN "queue" ELSE "sync"
AfterEdit == Then(first)
AfterFormat == IF first = "format" THEN "sync" ELSE "done"
AfterSync == IF first = "lsp" /\ "hook" \in enrolled THEN "queue" ELSE "done"

-----------------------------------------------------------------------------
(* The edit tools of the host, under its mutation queue.                   *)

EditBegins(e) ==
    /\ at[e] = "new" /\ Go(e, "edit")
    /\ line' = Append(line, e)
    /\ UNCHANGED <<first, enrolled, text, base, exposed, touched, chosen, syncVars, switchVars>>

HasTurn(e) == line # <<>> /\ Head(line) = e

EditReads(e) ==
    /\ at[e] = "edit" /\ HasTurn(e) /\ Go(e, "write")
    /\ base' = [base EXCEPT ![e] = text]
    /\ UNCHANGED <<first, enrolled, text, line, exposed, touched, chosen, syncVars, switchVars>>

EditWrites(e) ==
    /\ at[e] = "write" /\ Go(e, AfterEdit)
    /\ text' = [edits |-> base[e].edits \cup {e}, by |-> "nobody"]
    /\ line' = Tail(line)
    /\ exposed' = IF \E t \in Formats : at[t] = "out" THEN exposed \cup {e} ELSE exposed
    /\ UNCHANGED <<first, enrolled, base, touched, chosen, syncVars, switchVars>>

(* A failed edit has no hooks.                                             *)
EditFails(e) ==
    /\ at[e] = "write" /\ Go(e, "failed")
    /\ line' = Tail(line)
    /\ UNCHANGED <<first, enrolled, text, base, exposed, touched, chosen, syncVars, switchVars>>

-----------------------------------------------------------------------------
(* The hook of pi-format.                                                  *)

(* A bug: the file is formatted outside of its mutation queue.             *)
QueueUp_Skip(e) ==
    /\ at[e] = "queue" /\ Go(e, "config")
    /\ line' = <<e>> \o line
    /\ UNCHANGED <<first, enrolled, text, base, exposed, touched, chosen, syncVars, switchVars>>

QueueUp(e) ==
    /\ at[e] = "queue" /\ Go(e, "config")
    /\ line' = Append(line, e)
    /\ UNCHANGED <<first, enrolled, text, base, exposed, touched, chosen, syncVars, switchVars>>

(* getFormatterForFile: the first that is enabled.                         *)
Usable(settings) == {i \in DOMAIN Formatters : settings[Formatters[i]]}

FirstUsable(settings) ==
    IF Usable(settings) = {} THEN "none"
    ELSE Formatters[CHOOSE i \in Usable(settings) : \A j \in Usable(settings) : i <= j]

(* A bug: formatOnWrite is only looked at when the hook is registered.     *)
Automatic_AtLoad(settings) ==
    IF settings["enabled"] THEN FirstUsable(settings) ELSE "none"

(* formatPaths in automatic mode honours both switches.                    *)
Automatic(settings) ==
    IF settings["enabled"] /\ settings["formatOnWrite"] THEN FirstUsable(settings)
    ELSE "none"

HookReads(e) ==
    LET formatter == Automatic(Parsed)
    IN /\ at[e] = "config" /\ HasTurn(e)
       /\ chosen' = [chosen EXCEPT ![e] = formatter]
       /\ IF formatter = "none" THEN Go(e, AfterFormat) /\ line' = Tail(line)
                                ELSE Go(e, "run") /\ UNCHANGED line
       /\ UNCHANGED <<first, enrolled, text, base, exposed, touched, syncVars, switchVars>>

-----------------------------------------------------------------------------
(* The format tool and /format: no mutation queue, and whatever the        *)
(* switches of the formats on write.                                       *)

(* The formatter may be named by the caller.                               *)
Explicit(settings) ==
    {FirstUsable(settings)} \cup {f \in Names : settings[f]} \cup {"none"}

(* A bug: it enters the queue and never leaves it.                         *)
FormatBegins_Queued(t) ==
    /\ at[t] = "new"
    /\ \/ "tool" \in enrolled
       \/ \A e \in Edits : Ended(e)
    /\ \E f \in Explicit(Parsed) :
        /\ chosen' = [chosen EXCEPT ![t] = f]
        /\ Go(t, IF f = "none" THEN "done" ELSE "run")
    /\ line' = Append(line, t)
    /\ UNCHANGED <<first, enrolled, text, base, exposed, touched, syncVars, switchVars>>

FormatBegins(t) ==
    /\ at[t] = "new"
    /\ \/ "tool" \in enrolled
       \/ \A e \in Edits : Ended(e)        \* /format waits for an idle agent
    /\ \E f \in Explicit(Parsed) :
        /\ chosen' = [chosen EXCEPT ![t] = f]
        /\ Go(t, IF f = "none" THEN "done" ELSE "run")
    /\ UNCHANGED <<first, enrolled, fileVars, syncVars, switchVars>>

-----------------------------------------------------------------------------
(* runFormatter.                                                           *)

FormatterReads(c) ==
    /\ at[c] = "run" /\ Go(c, "out")
    /\ base' = [base EXCEPT ![c] = text]
    /\ UNCHANGED <<first, enrolled, text, line, exposed, touched, chosen, syncVars, switchVars>>

Release(c) == IF c \in Edits THEN Tail(line) ELSE line
AfterRun(c) == IF c \in Edits THEN AfterFormat ELSE "done"

FormatterWrites(c) ==
    /\ at[c] = "out" /\ Go(c, AfterRun(c))
    /\ text' = [edits |-> base[c].edits, by |-> chosen[c]]
    /\ line' = Release(c)
    /\ touched' = (touched \/ c \in Formats)
    /\ UNCHANGED <<first, enrolled, base, exposed, chosen, syncVars, switchVars>>

(* A bug: the queue is kept after a failure.                               *)
FormatterFails_Holds(c) ==
    /\ at[c] = "out" /\ Go(c, AfterRun(c))
    /\ UNCHANGED <<first, enrolled, fileVars, chosen, syncVars, switchVars>>

(* An exit code, an error, or killed at the time-out.                      *)
FormatterFails(c) ==
    /\ at[c] = "out" /\ Go(c, AfterRun(c))
    /\ line' = Release(c)
    /\ UNCHANGED <<first, enrolled, text, base, exposed, touched, chosen, syncVars, switchVars>>

-----------------------------------------------------------------------------
(* The hook of pi-lsp: syncFileChange reads the file, then tells.          *)

(* A bug: it takes the text the edit worked on.                            *)
SyncReads_Base(e) ==
    /\ at[e] = "sync" /\ Go(e, "send")
    /\ raced' = \E o \in Edits : at[o] = "send"
    /\ touched' = FALSE
    /\ UNCHANGED <<first, enrolled, text, line, base, exposed, chosen, server, switchVars>>

SyncReads(e) ==
    /\ at[e] = "sync" /\ Go(e, "send")
    /\ base' = [base EXCEPT ![e] = text]
    /\ raced' = \E o \in Edits : at[o] = "send"
    /\ touched' = FALSE
    /\ UNCHANGED <<first, enrolled, text, line, exposed, chosen, server, switchVars>>

(* Of two texts under way one may be dropped, see LanguageServer.tla.      *)
SyncSends(e) ==
    /\ at[e] = "send" /\ Go(e, AfterSync)
    /\ \/ server' = base[e]
       \/ raced /\ UNCHANGED server
    /\ UNCHANGED <<first, enrolled, fileVars, chosen, raced, switchVars>>

-----------------------------------------------------------------------------
(* /format config: persistSettingToggle, which nobody waits for.           *)

UnderWay == {t \in Turns : turn[t].is \in {"read", "open", "torn"}}

TurnBegins(t, s) ==
    /\ turn[t].is = "new"
    /\ turn' = [turn EXCEPT ![t].is = "read", ![t].of = s]
    /\ listed' = [listed EXCEPT ![s] = ~@]
    /\ crossed' = (crossed \/ UnderWay # {})
    /\ UNCHANGED <<first, enrolled, fileVars, at, chosen, syncVars, config, torn>>

TurnReads(t) ==
    /\ turn[t].is = "read"
    /\ turn' = [turn EXCEPT ![t].is = "open", ![t].was = Parsed]
    /\ UNCHANGED <<first, enrolled, fileVars, at, chosen, syncVars, config, torn, listed, crossed>>

(* writeFile empties the file first.                                       *)
TurnOpens(t) ==
    /\ turn[t].is = "open"
    /\ turn' = [turn EXCEPT ![t].is = "torn"]
    /\ torn' = TRUE
    /\ UNCHANGED <<first, enrolled, fileVars, at, chosen, syncVars, config, listed, crossed>>

(* A bug: what else is in the file is not written back.                    *)
TurnWrites_Alone(t) ==
    /\ turn[t].is = "torn"
    /\ turn' = [turn EXCEPT ![t].is = "done"]
    /\ config' = [Defaults EXCEPT ![turn[t].of] = ~turn[t].was[turn[t].of]]
    /\ torn' = FALSE
    /\ UNCHANGED <<first, enrolled, fileVars, at, chosen, syncVars, listed, crossed>>

(* Two who write at once may leave a mixture of their texts.               *)
TurnWrites(t) ==
    /\ turn[t].is = "torn"
    /\ turn' = [turn EXCEPT ![t].is = "done"]
    /\ config' = [turn[t].was EXCEPT ![turn[t].of] = ~@]
    /\ torn' \in {FALSE, crossed}
    /\ UNCHANGED <<first, enrolled, fileVars, at, chosen, syncVars, listed, crossed>>

(* The file cannot be written: the list shows the old value again.         *)
TurnFails(t) ==
    /\ turn[t].is = "open"
    /\ turn' = [turn EXCEPT ![t].is = "done"]
    /\ listed' = [listed EXCEPT ![turn[t].of] = ~@]
    /\ UNCHANGED <<first, enrolled, fileVars, at, chosen, syncVars, config, torn, crossed>>

EditStep(e) == EditReads(e) \/ EditWrites(e) \/ EditFails(e) \/ QueueUp(e) \/ HookReads(e)
                \/ SyncReads(e) \/ SyncSends(e)
FormatterStep(c) == FormatterReads(c) \/ FormatterWrites(c) \/ FormatterFails(c)
TurnStep(t) == TurnReads(t) \/ TurnOpens(t) \/ TurnWrites(t) \/ TurnFails(t)

HooksNext ==
    \/ \E e \in Edits : EditBegins(e) \/ EditStep(e)
    \/ \E t \in Formats : FormatBegins(t)
    \/ \E c \in Edits \cup Formats : FormatterStep(c)
    \/ \E t \in Turns : TurnStep(t) \/ \E s \in Switches : TurnBegins(t, s)

(* A started call goes on: promises settle, and a formatter ends or is     *)
(* killed at its time-out.                                                 *)
HooksGoOn(cs) == \E c \in cs : (c \in Edits /\ EditStep(c)) \/ FormatterStep(c)
HooksFair == WF_hookVars(HooksGoOn(Edits \cup Formats))

HooksSpec == HooksInit /\ [][HooksNext]_hookVars /\ HooksFair

-----------------------------------------------------------------------------
(* An edit that succeeded stays in the file, though formatters rewrite it  *)
(* as a whole, unless the format tool, which does not wait for the queue,  *)
(* held an older text.                                                     *)
NoEditLost ==
    \A e \in Edits : at[e] \in {"queue", "config", "run", "out", "sync", "send", "done"}
        => e \in text.edits \/ e \in exposed

(* When the hooks are through, the server has the file as the formatter    *)
(* left it, provided the host loaded pi-format first and texts did not     *)
(* race; after the format tool the server is not told.                     *)
ServerCurrent ==
    first = "format" /\ (\A e \in Edits : Ended(e)) /\ ~raced /\ ~touched
        => server = text

(* A switch that is off holds from the next edit on, without a reload; a   *)
(* file that is being written is the exception.                            *)
OffIsOff ==
    [][\A e \in Edits : at[e] = "config" /\ at'[e] = "run" /\ UnderWay = {} /\ ~crossed
        => listed["enabled"] /\ listed["formatOnWrite"] /\ listed[chosen'[e]]]_hookVars

(* The file says what the list shows, all of it, once the turns are        *)
(* through, unless two were under way at once.                             *)
SwitchesKept == UnderWay = {} /\ ~crossed => config = listed /\ ~torn

(* The result of an edit is delivered: the hooks come to an end whatever   *)
(* the formatter does.                                                     *)
HooksEnd == \A e \in Edits : at[e] # "new" ~> Ended(e)

(* No edit and no switch is lost, and the language server has the text.    *)
HooksSafe == HooksTypeOK /\ NoEditLost /\ ServerCurrent /\ SwitchesKept
=============================================================================
