---------------------------- MODULE Diagnostics -----------------------------
(***************************************************************************)
(* The registry of diagnostics of pi-lsp: what servers publish, what an    *)
(* edit invalidates, and what is delivered to the agent, once and within   *)
(* the volume caps (diagnostics.ts, the hooks of index.ts, /lsp clean of   *)
(* command.ts).                                                            *)
(*                                                                         *)
(* A diagnostic is a member of Diags with a severity; its key is itself    *)
(* with its server and its file.  Servers are external: at any time one    *)
(* publishes what it finds in the text it has, which may be older than the *)
(* file.  Each call on the registry runs alone.  The order in which a      *)
(* drain goes through the files, which decides what the total cap leaves   *)
(* out, and the file that is least recently used are left open.            *)
(***************************************************************************)
EXTENDS Naturals, FiniteSets

CONSTANTS Watches,     \* the pairs <<server, file>> of the session
          Diags,       \* diagnostics
          Severity,    \* their severity, 1 is worst
          PerFile,     \* MAX_DIAGNOSTICS_PER_FILE
          Total,       \* MAX_TOTAL_DIAGNOSTICS
          MaxFiles     \* MAX_DELIVERED_FILES

ASSUME DiagnosticsAssumption ==
    /\ IsFiniteSet(Watches) /\ IsFiniteSet(Diags)
    /\ Severity \in [Diags -> Nat]
    /\ {PerFile, Total, MaxFiles} \subseteq Nat \ {0}

VARIABLES
    unread,     \* pendingDiagnostics: the latest set, {} when there is none
    delivered,  \* deliveredDiagnostics: what was delivered of a file, by server
    behind,     \* the servers that have not said anything about the last edit
    passed,     \* the pending sets published after an edit they do not know of
    published,  \* what each server said last, save what the caps left out
    sent,       \* what was delivered since the last clean publication
    mark,       \* the status line's mark
    message     \* what this step delivers

registry == <<unread, delivered>>
diagnosticsVars == <<registry, behind, passed, published, sent, mark, message>>

Files == {w[2] : w \in Watches}
Of(f) == {w \in Watches : w[2] = f}
Nothing == [w \in Watches |-> {}]

DiagnosticsTypeOK ==
    /\ {unread, delivered, published, sent, message}
            \subseteq [Watches -> SUBSET Diags]
    /\ behind \subseteq Watches
    /\ passed \subseteq {w \in Watches : unread[w] # {}}
    /\ mark \in BOOLEAN

DiagnosticsInit ==
    /\ unread = Nothing /\ delivered = Nothing
    /\ behind = {} /\ passed = {}
    /\ published = Nothing /\ sent = Nothing
    /\ mark = FALSE
    /\ message = Nothing

(* diagnosticsPresent; a listener is told when it changes.                 *)
Present(waiting, told) == \E w \in Watches : waiting[w] # {} \/ told[w] # {}

NotifyIfChanged ==
    LET now == Present(unread', delivered')
    IN mark' = IF now # Present(unread, delivered) THEN now ELSE mark

Without(sets, ws) == [w \in Watches |-> IF w \in ws THEN {} ELSE sets[w]]

-----------------------------------------------------------------------------
(* A bug: it clears what others have pending.                              *)
Clean_Pending(w) ==
    /\ unread' = Without(unread, Of(w[2]))
    /\ passed' = passed \ Of(w[2])
    /\ delivered' = Without(delivered, {w})
    /\ sent' = Without(sent, {w})
    /\ NotifyIfChanged

(* A bug: the status line is not told.                                     *)
Clean_Quiet(w) ==
    /\ unread' = Without(unread, {w})
    /\ passed' = passed \ {w}
    /\ delivered' = Without(delivered, {w})
    /\ sent' = Without(sent, {w})
    /\ UNCHANGED mark

(* An empty publication: this server's entries of the file go.             *)
Clean(w) ==
    /\ unread' = Without(unread, {w})
    /\ passed' = passed \ {w}
    /\ delivered' = Without(delivered, {w})
    /\ sent' = Without(sent, {w})
    /\ NotifyIfChanged

(* A publication, or the answer to a pulled report: the latest set wins.   *)
(* A server that is behind may still not know of the edit.                 *)
Register(w, found) ==
    /\ behind' \in {behind, behind \ {w}}
    /\ \/ found = {} /\ Clean(w)
       \/ /\ found # {}
          /\ unread' = [unread EXCEPT ![w] = found]
          /\ passed' = (passed \ {w}) \cup ({w} \cap behind')
          /\ UNCHANGED <<delivered, sent>>
          /\ NotifyIfChanged
    /\ published' = [published EXCEPT ![w] = found]
    /\ message' = Nothing

(* What is new to the agent.                                               *)
Fresh(w) == unread[w] \ delivered[w]

(* A bug: the cap of the files together is forgotten.                      *)
Room_Apart(taken) == PerFile

(* How much of a file is delivered when so much was taken before it.       *)
Room(taken) == IF Total - taken < PerFile THEN Total - taken ELSE PerFile

Candidates(fs) == UNION {{w} \X Fresh(w) : w \in {v \in Watches : v[2] \in fs}}

(* What a drain may deliver: the files in some order, of each the worst,   *)
(* as many as there is room for.                                           *)
Orders == {o \in [1..Cardinality(Files) -> Files] : Files = {o[i] : i \in DOMAIN o}}

Selected(o) ==
    {S \in SUBSET Candidates(Files) : \A i \in DOMAIN o :
        LET all == Candidates({o[i]})
            mine == S \cap all
            room == Room(Cardinality(S \cap Candidates({o[j] : j \in 1..(i - 1)})))
        IN /\ Cardinality(mine) = IF Cardinality(all) < room THEN Cardinality(all) ELSE room
           /\ \A x \in mine, y \in all \ mine : Severity[x[2]] <= Severity[y[2]]}

(* A bug: what the caps left out counts as delivered.                      *)
Remember_All(new, gone) ==
    delivered' = [w \in Watches |->
        IF w[2] \in gone THEN {} ELSE delivered[w] \cup Fresh(w)]

(* A bug: the keys carry the server they already are kept under.           *)
Remember_Pairs(new, gone) ==
    delivered' = [w \in Watches |->
        IF w[2] \in gone THEN {} ELSE delivered[w] \cup {<<w, d>> : d \in new[w]}]

(* deliveredDiagnostics after a delivery, without the files evicted.       *)
Remember(new, gone) ==
    delivered' = [w \in Watches |->
        IF w[2] \in gone THEN {} ELSE delivered[w] \cup new[w]]

Tracked(sets) == {w[2] : w \in {v \in Watches : sets[v] # {}}}

(* drain, when the agent starts: nothing is new.                           *)
DrainNothing ==
    /\ unread # Nothing /\ \A w \in Watches : Fresh(w) = {}
    /\ unread' = Nothing /\ passed' = {}
    /\ message' = Nothing
    /\ UNCHANGED <<delivered, behind, published, sent, mark>>

(* drain: what is new is delivered within the caps and remembered; what    *)
(* they leave out is gone.  A full history loses its oldest files.         *)
DrainNew ==
    \E o \in Orders : \E S \in Selected(o) \ {{}}, gone \in SUBSET Files :
        LET new == [w \in Watches |-> {d \in Diags : <<w, d>> \in S}]
            all == Tracked(delivered) \cup Tracked(new)
            lost == {w \in Watches : w[2] \in gone}
        IN /\ gone \subseteq all
           /\ Cardinality(all \ gone) =
                IF Cardinality(all) < MaxFiles THEN Cardinality(all) ELSE MaxFiles
           /\ Remember(new, gone)
           /\ unread' = Nothing /\ passed' = {}
           /\ message' = new
           /\ sent' = Without([w \in Watches |-> sent[w] \cup new[w]], lost)
           /\ published' =
                Without([w \in Watches |-> published[w] \ (Fresh(w) \ new[w])], lost)
           /\ UNCHANGED <<behind, mark>>

(* A bug: one server's snapshot stays.                                     *)
Edit_OneServer(f) ==
    /\ \E v \in Of(f) :
        /\ unread' = Without(unread, {v})
        /\ passed' = passed \ {v}
        /\ published' = Without(published, {v})
    /\ behind' = behind \cup Of(f)
    /\ message' = Nothing
    /\ UNCHANGED <<delivered, sent>>
    /\ NotifyIfChanged

(* An edit or a write, and the hook's invalidatePendingForFile.            *)
Edit(f) ==
    /\ unread' = Without(unread, Of(f))
    /\ passed' = passed \ Of(f)
    /\ published' = Without(published, Of(f))
    /\ behind' = behind \cup Of(f)
    /\ message' = Nothing
    /\ UNCHANGED <<delivered, sent>>
    /\ NotifyIfChanged

(* /lsp clean of a file that is gone, or /lsp clean force and the end of a *)
(* session for all files.                                                  *)
Discard(fs) ==
    LET ws == {w \in Watches : w[2] \in fs}
    IN /\ unread' = Without(unread, ws)
       /\ delivered' = Without(delivered, ws)
       /\ published' = Without(published, ws)
       /\ sent' = Without(sent, ws)
       /\ passed' = passed \ ws
       /\ message' = Nothing
       /\ UNCHANGED behind
       /\ NotifyIfChanged

DiagnosticsNext ==
    \/ \E w \in Watches, found \in SUBSET Diags : Register(w, found)
    \/ DrainNothing \/ DrainNew
    \/ \E f \in Files : Edit(f) \/ Discard({f})
    \/ Discard(Files)

DiagnosticsSpec == DiagnosticsInit /\ [][DiagnosticsNext]_diagnosticsVars

-----------------------------------------------------------------------------
(* The history is what was delivered since the server was last clean: no   *)
(* less, or the agent is told again, and no more, or it is never told.     *)
HistoryExact == delivered = sent

(* What a server said last of a file waits or was delivered, save what the *)
(* caps left out: what another server or another file does to the registry *)
(* does not lose it.                                                       *)
NothingForgotten ==
    \A w \in Watches : published[w] \subseteq unread[w] \cup delivered[w]

(* The status line's mark says whether anything is tracked, though drain   *)
(* tells nobody.                                                           *)
MarkIsTrue == mark = Present(unread, delivered)

(* A delivery keeps both caps, and the history its own.                    *)
CapsHeld ==
    LET size(fs) == Cardinality(UNION {{w} \X message[w] : w \in {v \in Watches : v[2] \in fs}})
    IN /\ size(Files) <= Total
       /\ \A f \in Files : size({f}) <= PerFile
       /\ Cardinality(Tracked(delivered)) <= MaxFiles

(* What waits to be delivered is about the text as last edited, unless it  *)
(* was published after the edit by a server that did not have it yet.      *)
FreshUnlessPassed ==
    \A w \in Watches : unread[w] # {} /\ w \in behind => w \in passed

(* What the agent is told about each text is what was published, once,     *)
(* within the caps, and nothing that is left is forgotten.                 *)
DiagnosticsSafe ==
    /\ DiagnosticsTypeOK
    /\ HistoryExact
    /\ NothingForgotten
    /\ MarkIsTrue
    /\ CapsHeld
    /\ FreshUnlessPassed
=============================================================================
