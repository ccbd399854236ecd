--------------------------- MODULE EndpointProofs ---------------------------
(***************************************************************************)
(* Proofs about what stands between pi-agents and the processes that run   *)
(* its agents: the connection to a Grok session, the pipe to a pi child, a *)
(* run over ACP and a run in a pi child's endpoint, for any prompts,       *)
(* requests, disposals and activations.                                    *)
(***************************************************************************)
EXTENDS GrokTransport, RpcTransport, GrokAcp, RpcExecution, GrokTranscript, FiniteSetTheorems,
        SequenceTheorems, NaturalsInduction, WellFoundedInduction, TLAPS

-----------------------------------------------------------------------------
(* GrokTransport.  One prompt at most waits or is in flight, and one at    *)
(* most is in flight or still holds the chain; what a turn was told goes   *)
(* with where it is; the session works on what was sent to it; a cancel    *)
(* that counts as sent has reached the turn in flight; and its grace is    *)
(* armed only if it was to stop or was taken for one that was.             *)
OneTurn == \A p, q \in Prompts :
    \/ p = q
    \/ ~({turn[p], turn[q]} \subseteq {"queued", "running"})
       /\ ~({turn[p], turn[q]} \subseteq {"running", "settled"})

ToldInOrder == \A p \in Prompts :
    /\ told[p].settles = 1 <=> turn[p] \in {"settled", "over"}
    /\ turn[p] \in {"running", "settled", "over"} => told[p].starts = 1
    /\ told[p].completed \/ told[p].failed => turn[p] \in {"settled", "over"}

SentWork ==
    /\ \A p \in working : turn[p] \in {"running", "settled", "over"}
    /\ \A p \in asked : turn[p] \notin {"new", "queued"}
    /\ stopSent => InFlight \subseteq heeded
    /\ grace => InFlight \subseteq asked \cup strays

TransportInv ==
    /\ TransportTypeOK /\ OneTurn /\ ToldInOrder /\ SentWork
    /\ CompletedIsAnswered /\ MixedIsLeft /\ StopIsSent /\ GivenUpIsAsked

(* What a turn is told first, and what a settlement makes of it.           *)
LEMMA StartIsTold ==
    ASSUME NEW t \in Events
    PROVE  /\ [t EXCEPT !.starts = 1] \in Events
           /\ [t EXCEPT !.starts = 1].starts = 1
           /\ [t EXCEPT !.starts = 1].settles = t.settles
           /\ [t EXCEPT !.starts = 1].completed = t.completed
           /\ [t EXCEPT !.starts = 1].failed = t.failed
BY DEF Events

LEMMA SettlementIsTold ==
    ASSUME NEW t \in Events, t.settles = 0,
           NEW completed \in BOOLEAN, NEW failed \in BOOLEAN,
           NEW new, new = [starts |-> t.starts, completed |-> completed,
                           failed |-> failed, settles |-> t.settles + 1]
    PROVE  /\ new \in Events
           /\ new.settles = 1 /\ new.starts = t.starts
           /\ new.completed = completed /\ new.failed = failed
BY DEF Events

LEMMA TransportInvInit == TransportInit => TransportInv
<1> SUFFICES ASSUME TransportInit PROVE TransportInv
  OBVIOUS
<1>1. TransportTypeOK
  <2>1. InFlight = {}
    BY DEF TransportInit, InFlight
  <2>2. told \in [Prompts -> Events]
    BY DEF TransportInit, Silent, Events
  <2> QED BY <2>1, <2>2 DEF TransportInit, TransportTypeOK
<1> USE DEF TransportInit, Silent
<1>2. OneTurn /\ ToldInOrder /\ SentWork
  BY DEF OneTurn, ToldInOrder, SentWork, InFlight
<1>3. CompletedIsAnswered /\ MixedIsLeft /\ StopIsSent /\ GivenUpIsAsked
  BY DEF CompletedIsAnswered, MixedIsLeft, StopIsSent, GivenUpIsAsked, InFlight
<1> QED BY <1>1, <1>2, <1>3 DEF TransportInv

(* A settlement changes what it settles and nothing else.                  *)
LEMMA Settling ==
    ASSUME TransportInv, NEW p \in Prompts, turn[p] = "running",
           NEW completed \in BOOLEAN, NEW failed \in BOOLEAN, ~(completed /\ failed),
           completed \/ failed \/ grace,
           Settle(p, completed, failed),
           running' = running, stopSent' = stopSent, heeded' = heeded, wantVars' = wantVars,
           aborting' = aborting, stopped' = stopped, grokUp' = grokUp, gone' = gone,
           mixed' = mixed, working' \in SUBSET working, completed => p \notin working'
    PROVE  TransportInv'
<1> USE DEF TransportInv, Settle, wantVars
<1>0. told[p] \in Events /\ told[p].settles = 0 /\ told[p].starts = 1
  <2>1. told[p].settles # 1
    BY DEF ToldInOrder
  <2> QED BY <2>1 DEF TransportTypeOK, ToldInOrder, Events
<1>7. /\ told'[p] \in Events
      /\ told'[p].settles = 1 /\ told'[p].starts = 1
      /\ told'[p].completed = completed /\ told'[p].failed = failed
      /\ \A q \in Prompts \ {p} : told'[q] = told[q]
  <2> DEFINE new == [starts |-> told[p].starts, completed |-> completed,
                     failed |-> failed, settles |-> told[p].settles + 1]
  <2>1. told' = [told EXCEPT ![p] = new]
    OBVIOUS
  <2>2. told'[p] = new /\ \A q \in Prompts \ {p} : told'[q] = told[q]
    BY <2>1 DEF TransportTypeOK
  <2> HIDE DEF Settle
  <2> QED BY <1>0, <2>2, SettlementIsTold
<1>8. /\ turn'[p] = "settled" /\ grace' = FALSE
      /\ \A q \in Prompts \ {p} : turn'[q] = turn[q]
  BY DEF TransportTypeOK
<1>1. TransportTypeOK'
  <2>1. told' \in [Prompts -> Events]
    BY <1>7 DEF TransportTypeOK
  <2>2. InFlight' = {}
    BY DEF OneTurn, InFlight, TransportTypeOK
  <2> QED BY <2>1, <2>2 DEF TransportTypeOK
<1>2. OneTurn'
  BY DEF OneTurn, TransportTypeOK
<1>6. ToldInOrder'
  BY <1>7, <1>8 DEF ToldInOrder
<1>3. SentWork' /\ StopIsSent'
  BY DEF SentWork, StopIsSent, InFlight, TransportTypeOK
<1>4. CompletedIsAnswered'
  BY DEF CompletedIsAnswered, TransportTypeOK
<1>5. MixedIsLeft'
  BY DEF MixedIsLeft, ToldInOrder, TransportTypeOK
<1>9. GivenUpIsAsked'
  <2>1. p \in InFlight
    BY DEF InFlight
  <2>2. completed \/ failed \/ p \in asked \cup strays
    BY <2>1 DEF SentWork
  <2> QED BY <1>7, <2>2 DEF GivenUpIsAsked
<1> QED BY <1>1, <1>2, <1>6, <1>3, <1>4, <1>5, <1>9

LEMMA TransportInvNext == TransportInv /\ [TransportNext]_transportVars => TransportInv'
<1> SUFFICES ASSUME TransportInv, [TransportNext]_transportVars PROVE TransportInv'
  OBVIOUS
<1> USE DEF TransportInv
<1>1. ASSUME NEW p \in Prompts, Prompt(p) PROVE TransportInv'
  BY <1>1 DEF Prompt, stopVars, wantVars, TransportTypeOK, OneTurn, ToldInOrder, SentWork,
              CompletedIsAnswered, MixedIsLeft, StopIsSent, GivenUpIsAsked, InFlight
<1>2. ASSUME NEW p \in Prompts, Begin(p) PROVE TransportInv'
  <2>1. CASE gone # "no"
    BY <1>2, <2>1 DEF Begin, wantVars, TransportTypeOK, OneTurn, ToldInOrder, SentWork,
                      CompletedIsAnswered, MixedIsLeft, StopIsSent, GivenUpIsAsked, InFlight
  <2>2. CASE gone = "no"
    <3> USE <1>2, <2>2 DEF Begin, ChainFree
    <3>1. /\ told' \in [Prompts -> Events]
          /\ \A q \in Prompts : /\ told'[q].settles = told[q].settles
                                /\ told'[q].completed = told[q].completed
                                /\ told'[q].failed = told[q].failed
                                /\ told'[q].starts = IF q = p THEN 1 ELSE told[q].starts
      <4>1. told' = [told EXCEPT ![p] = [told[p] EXCEPT !.starts = 1]]
        OBVIOUS
      <4>2. told[p] \in Events /\ told \in [Prompts -> Events]
        BY DEF TransportTypeOK
      <4> HIDE <1>2, <2>2 DEF Begin, TransportInv
      <4> QED BY <4>1, <4>2, StartIsTold
    <3>2. /\ turn' \in [Prompts -> {"running", "stuck", "new", "queued", "settled", "over", "refused"}]
          /\ \A q \in Prompts \ {p} : turn'[q] = turn[q]
          /\ stopped => turn'[p] = "stuck"
          /\ ~stopped => turn'[p] = "running"
      BY DEF TransportTypeOK
    <3> HIDE <1>2, <2>2 DEF Begin
    <3>3. TransportTypeOK'
      <4>1. InFlight = {}
        BY <1>2 DEF Begin, InFlight
      <4>2. stopped \/ running'
        BY <1>2, <2>2 DEF Begin
      <4>3. ~grace /\ grace' = grace
        BY <1>2, <4>1 DEF Begin, TransportTypeOK
      <4>4. InFlight' # {} => running'
        BY <1>2, <2>2 DEF Begin
      <4>5. /\ running' = TRUE /\ stopSent' \in BOOLEAN /\ working' \subseteq Prompts
            /\ UNCHANGED <<heeded, aborting, wantVars, stopped, grokUp, gone, mixed>>
        <5>1. stopSent \in BOOLEAN /\ working \subseteq Prompts
          BY DEF TransportTypeOK
        <5> HIDE DEF TransportInv
        <5>2. running' = TRUE /\ UNCHANGED <<heeded, aborting, wantVars, stopped, grokUp, gone, mixed>>
          BY <1>2, <2>2 DEF Begin
        <5>3. stopSent' \in BOOLEAN
          BY <1>2, <2>2, <5>1 DEF Begin
        <5>4. working' = working \/ working' = working \cup {p}
          BY <1>2, <2>2 DEF Begin
        <5> QED BY <5>1, <5>2, <5>3, <5>4
      <4>6. grace' = FALSE /\ turn' \in [Prompts -> {"new", "queued", "running", "settled", "over",
                                                    "refused", "stuck"}]
        BY <3>2, <4>3 DEF TransportTypeOK
      <4>7. UNCHANGED <<heeded, aborting, asked, joined, strays, stopped, grokUp, gone, mixed>>
        BY <4>5 DEF wantVars
      <4>8. /\ asked \subseteq Prompts /\ heeded \subseteq Prompts
            /\ joined \subseteq Prompts /\ strays \subseteq Prompts /\ mixed \subseteq Prompts
            /\ grokUp \in BOOLEAN /\ stopped \in BOOLEAN
            /\ aborting \in {"no", "sending", "ending"}
            /\ gone \in {"no", "closing", "closed", "failed"}
        BY DEF TransportTypeOK
      <4> HIDE DEF TransportInv
      <4> QED BY <3>1, <4>4, <4>5, <4>6, <4>7, <4>8 DEF TransportTypeOK
    <3>4. OneTurn' /\ ToldInOrder'
      BY <1>2, <2>2, <3>1, <3>2 DEF Begin, OneTurn, ToldInOrder, TransportTypeOK
    <3>5. InFlight' = IF stopped THEN {} ELSE {p}
      <4>1. stopped \in BOOLEAN /\ \A q \in Prompts : turn[q] # "running"
        BY <1>2 DEF Begin, TransportTypeOK
      <4>2. turn'[p] = "running" <=> ~stopped
        BY <3>2, <4>1
      <4>3. \A q \in Prompts : turn'[q] = "running" <=> q = p /\ ~stopped
        BY <3>2, <4>1, <4>2
      <4> HIDE DEF TransportInv
      <4> QED BY <4>1, <4>3 DEF InFlight
    <3>8. SentWork' /\ StopIsSent'
      <4>1. p \notin asked /\ UNCHANGED wantVars
        BY <1>2, <2>2 DEF Begin, SentWork
      <4>4. ~grace /\ grace' = grace
        BY <1>2 DEF Begin, TransportTypeOK, InFlight
      <4>2. CASE stopped
        BY <1>2, <2>2, <3>2, <3>5, <4>1, <4>2, <4>4 DEF Begin, SentWork, StopIsSent, TransportTypeOK, wantVars
      <4>3. CASE ~stopped
        BY <1>2, <2>2, <3>2, <3>5, <4>1, <4>3, <4>4 DEF Begin, SentWork, StopIsSent, TransportTypeOK, wantVars
      <4> QED BY <4>2, <4>3
    <3>6. CompletedIsAnswered'
      BY <1>2, <2>2, <3>1 DEF Begin, CompletedIsAnswered, ToldInOrder
    <3>7. MixedIsLeft'
      BY <1>2, <2>2, <3>1 DEF Begin, MixedIsLeft, TransportTypeOK
    <3>9. GivenUpIsAsked'
      BY <1>2, <2>2, <3>1 DEF Begin, GivenUpIsAsked, wantVars
    <3> QED BY <3>3, <3>4, <3>8, <3>6, <3>7, <3>9
  <2> QED BY <2>1, <2>2
<1>3. ASSUME NEW p \in Prompts, Response(p) PROVE TransportInv'
  <2>1. CASE turn[p] = "running"
    BY <1>3, <2>1, Settling DEF Response, TransportTypeOK, wantVars
  <2>2. CASE turn[p] # "running"
    BY <1>3, <2>2 DEF Response, wantVars, TransportTypeOK, OneTurn, ToldInOrder, SentWork,
                      CompletedIsAnswered, MixedIsLeft, StopIsSent, GivenUpIsAsked, InFlight
  <2> QED BY <2>1, <2>2
<1>4. ASSUME NEW p \in Prompts, GraceEnds(p) PROVE TransportInv'
  BY <1>4, Settling DEF GraceEnds, TransportTypeOK, wantVars
<1>5. ASSUME NEW p \in Prompts, PromptBreaks(p) PROVE TransportInv'
  BY <1>5, Settling DEF PromptBreaks, TransportTypeOK, wantVars
<1>6. ASSUME NEW p \in Prompts, ChainFrees(p) PROVE TransportInv'
  <2> USE <1>6 DEF ChainFrees, stopVars, wantVars
  <2>1. \A q \in Prompts \ {p} : turn[q] # "running"
    BY DEF OneTurn
  <2>2. TransportTypeOK'
    <3>1. InFlight' = {}
      BY <2>1 DEF InFlight, TransportTypeOK
    <3>2. grace' = FALSE
      BY <2>1 DEF TransportTypeOK, InFlight
    <3> QED BY <3>1, <3>2 DEF TransportTypeOK
  <2>3. OneTurn' /\ ToldInOrder'
    BY DEF OneTurn, ToldInOrder, TransportTypeOK
  <2> QED
    BY <2>2, <2>3 DEF TransportTypeOK, SentWork, CompletedIsAnswered, MixedIsLeft, StopIsSent, GivenUpIsAsked, InFlight
<1>7. ASSUME NEW p \in Prompts, Talk(p) PROVE TransportInv'
  <2> USE <1>7 DEF Talk, turnVars, stopVars, wantVars
  <2>1. ASSUME NEW r \in InFlight \ {p}
        PROVE told[p].settles = 1 /\ ~told[p].completed /\ p \in Prompts \ {r}
    BY <2>1 DEF InFlight, SentWork, OneTurn, ToldInOrder, CompletedIsAnswered
  <2>2. MixedIsLeft'
    BY <2>1 DEF MixedIsLeft
  <2> QED
    BY <2>2 DEF TransportTypeOK, OneTurn, ToldInOrder, SentWork, CompletedIsAnswered, GivenUpIsAsked,
                StopIsSent, InFlight
<1>8. CASE Cancel
  <2> USE <1>8 DEF Cancel, SendCancel, Wanted, turnVars
  <2>1. InFlight' = InFlight /\ InFlight \subseteq heeded'
    BY DEF InFlight, SentWork
  <2>2. TransportTypeOK'
    BY <2>1 DEF TransportTypeOK, InFlight
  <2>3. SentWork' /\ StopIsSent' /\ GivenUpIsAsked'
    BY <2>1 DEF SentWork, StopIsSent, GivenUpIsAsked, InFlight
  <2> QED BY <2>2, <2>3 DEF OneTurn, ToldInOrder, CompletedIsAnswered, MixedIsLeft
<1>9. CASE CancelJoins
  <2> USE <1>9 DEF CancelJoins, turnVars
  <2>1. InFlight' = InFlight
    BY DEF InFlight
  <2>2. TransportTypeOK'
    BY <2>1 DEF TransportTypeOK, InFlight
  <2>3. SentWork' /\ StopIsSent' /\ GivenUpIsAsked'
    BY <2>1 DEF SentWork, StopIsSent, GivenUpIsAsked, InFlight
  <2> QED BY <2>2, <2>3 DEF OneTurn, ToldInOrder, CompletedIsAnswered, MixedIsLeft
<1>13. CASE CancelWritten
  <2> USE <1>13 DEF CancelWritten, ArmGrace, turnVars
  <2>1. InFlight' = InFlight /\ InFlight \subseteq asked' \cup strays'
    BY DEF InFlight
  <2>2. TransportTypeOK'
    BY <2>1 DEF TransportTypeOK, InFlight
  <2>3. SentWork' /\ StopIsSent' /\ GivenUpIsAsked'
    BY <2>1 DEF SentWork, StopIsSent, GivenUpIsAsked, InFlight
  <2> QED BY <2>2, <2>3 DEF OneTurn, ToldInOrder, CompletedIsAnswered, MixedIsLeft
<1>10. CASE SignalFires
  <2> USE <1>10 DEF SignalFires, SendCancel, Wanted, ArmGrace, turnVars
  <2>1. /\ InFlight' = InFlight /\ InFlight \subseteq heeded'
        /\ InFlight \subseteq asked' \cup strays'
    BY DEF InFlight, SentWork
  <2>2. TransportTypeOK'
    BY <2>1 DEF TransportTypeOK, InFlight
  <2>3. SentWork' /\ StopIsSent' /\ GivenUpIsAsked'
    BY <2>1 DEF SentWork, StopIsSent, GivenUpIsAsked, InFlight
  <2> QED BY <2>2, <2>3 DEF OneTurn, ToldInOrder, CompletedIsAnswered, MixedIsLeft
<1>11. CASE CancelOver \/ GrokDies \/ DisposeTransport \/ Gone
  <2> USE <1>11 DEF CancelOver, GrokDies, DisposeTransport, Gone, turnVars, stopVars, wantVars
  <2>1. TransportTypeOK'
    <3>1. InFlight' = InFlight
      BY DEF InFlight
    <3>2. CASE CancelOver
      <4> HIDE <1>11
      <4> QED BY <3>1, <3>2 DEF TransportTypeOK
    <3>5. CASE GrokDies
      <4> HIDE <1>11
      <4> QED BY <3>1, <3>5 DEF TransportTypeOK
    <3>3. CASE DisposeTransport
      <4> HIDE <1>11
      <4> QED BY <3>1, <3>3 DEF TransportTypeOK
    <3>4. CASE Gone
      <4> HIDE <1>11
      <4> QED BY <3>1, <3>4 DEF TransportTypeOK
    <3> QED BY <1>11, <3>2, <3>5, <3>3, <3>4
  <2>2. OneTurn' /\ ToldInOrder'
    BY DEF OneTurn, ToldInOrder
  <2>3. SentWork' /\ StopIsSent'
    BY DEF SentWork, StopIsSent, InFlight
  <2>4. CompletedIsAnswered' /\ MixedIsLeft' /\ GivenUpIsAsked'
    BY DEF CompletedIsAnswered, MixedIsLeft, GivenUpIsAsked
  <2> QED BY <2>1, <2>2, <2>3, <2>4
<1>12. CASE UNCHANGED transportVars
  BY <1>12 DEF transportVars, turnVars, stopVars, wantVars, TransportTypeOK, OneTurn, ToldInOrder,
               SentWork, CompletedIsAnswered, MixedIsLeft, StopIsSent, GivenUpIsAsked, InFlight
<1> QED
  BY <1>1, <1>2, <1>3, <1>4, <1>5, <1>6, <1>7, <1>8, <1>9, <1>13, <1>10, <1>11, <1>12
  DEF TransportNext

LEMMA TransportInvSafe == TransportInv => TransportSafe
<1> SUFFICES ASSUME TransportInv PROVE TransportSafe
  OBVIOUS
<1> DEFINE S == {p \in Prompts : turn[p] \in {"running", "settled"}}
<1>1. Cardinality(S) <= 1
  <2>1. CASE S = {}
    BY <2>1, FS_EmptySet
  <2>2. CASE S # {}
    <3>1. PICK p \in S : TRUE
      BY <2>2
    <3>2. S = {p}
      BY <3>1 DEF TransportInv, OneTurn
    <3> QED BY <3>2, FS_Singleton
  <2> QED BY <2>1, <2>2
<1> QED
  BY <1>1 DEF TransportInv, TransportSafe, TurnsApart, ToldInOrder

(* Turns over one Grok session do not overlap, a turn completes only by    *)
(* its own answer, a turn that is to stop has its own cancel unless every  *)
(* abort of it joined the one of a turn before, and only a turn that is to *)
(* stop, or is taken for one, is given up for its grace, whatever fires,   *)
(* dies or is disposed of (grok-acp-interactive-transport.ts).             *)
THEOREM TransportIsSafe == TransportSpec => []TransportSafe
<1>1. TransportSpec => []TransportInv
  BY TransportInvInit, TransportInvNext, PTL DEF TransportSpec
<1> QED BY <1>1, TransportInvSafe, PTL

(* Once the transport is disposed of no turn is announced any more.        *)
THEOREM QuietOnceDisposed == TransportSpec => QuietAfterDispose
<1>1. TransportInv /\ [TransportNext]_transportVars
        => (gone # "no" => \A p \in Prompts : told'[p].starts = told[p].starts)
  <2> SUFFICES ASSUME TransportInv, [TransportNext]_transportVars, gone # "no", NEW p \in Prompts
               PROVE told'[p].starts = told[p].starts
    OBVIOUS
  <2>1. CASE UNCHANGED told
    BY <2>1
  <2>2. ASSUME NEW q \in Prompts, NEW completed, NEW failed, Settle(q, completed, failed)
        PROVE told'[p].starts = told[p].starts
    BY <2>2 DEF Settle, TransportInv, TransportTypeOK
  <2> QED
    BY <2>1, <2>2 DEF TransportNext, transportVars, turnVars, stopVars, Prompt, Begin, Response, GraceEnds,
       PromptBreaks, ChainFrees, Talk, Cancel, CancelJoins, CancelWritten, CancelOver,
       SignalFires, GrokDies,
       DisposeTransport, Gone
<1>2. TransportSpec => []TransportInv
  BY TransportInvInit, TransportInvNext, PTL DEF TransportSpec
<1> QED BY <1>1, <1>2, PTL DEF TransportSpec, QuietAfterDispose

-----------------------------------------------------------------------------
(* RpcTransport.  What the child said of its own is under way or was       *)
(* heard; a request is under way once, and somebody waits or waited for    *)
(* it; whoever lost the listeners disposed of the child; and what the      *)
(* calls of dispose were told is what became of the disposal.              *)
Saying(w) == {i \in 1..Len(w) : w[i] = "event"}
Said(w) == Cardinality(Saying(w))
EventsHeard == heard.events + Said(wire) <= talked

Waited(r) == req[r] # "new" /\ (broken \/ req[r] \in {"pending", "late"})
UnderWayOnce ==
    /\ \A i, j \in 1..Len(wire) : wire[i] = wire[j] /\ wire[i] \in Requests => i = j
    /\ \A i \in 1..Len(wire) : wire[i] \in Requests => wire[i] \notin inbox /\ Waited(wire[i])
    /\ \A r \in inbox : Waited(r)

ExitTold ==
    /\ ~ears => stage = "done" /\ (notified \/ early)
    /\ early => stage = "done"
    /\ heard.exits = 1 => notified
    /\ notified => heard.exits = 1 \/ early
    /\ child = "closed" => notified

DisposalTold ==
    /\ stage = "done" => child # "up"
    /\ \A d \in Disposals : /\ wanted[d] = "ok" => stage = "done"
                            /\ wanted[d] = "failed" => stage = "failed"

RpcInv ==
    /\ RpcTypeOK /\ EventsHeard /\ UnderWayOnce /\ ExitTold /\ DisposalTold
    /\ LateOnly /\ NoneWaitsAfterExit

(* A record that is written or read is counted once more or less.          *)
LEMMA SaidType ==
    ASSUME NEW w, Len(w) \in Nat
    PROVE  IsFiniteSet(Saying(w)) /\ Said(w) \in Nat
<1>1. IsFiniteSet(1..Len(w)) /\ Saying(w) \in SUBSET (1..Len(w))
  BY FS_Interval DEF Saying
<1>2. IsFiniteSet(Saying(w))
  BY <1>1, FS_Subset
<1> QED BY <1>2, FS_CardinalityType DEF Said

LEMMA SaidMore ==
    ASSUME NEW S, NEW w \in Seq(S), NEW x \in S
    PROVE  Said(Append(w, x)) = IF x = "event" THEN Said(w) + 1 ELSE Said(w)
<1>1. /\ Len(Append(w, x)) = Len(w) + 1 /\ Len(w) \in Nat
      /\ \A i \in 1..Len(w) : Append(w, x)[i] = w[i]
      /\ Append(w, x)[Len(w) + 1] = x
  BY AppendProperties
<1>2. IsFiniteSet(Saying(w)) /\ Said(w) \in Nat
  BY <1>1, SaidType
<1>3. CASE x = "event"
  <2>1. Saying(Append(w, x)) = Saying(w) \cup {Len(w) + 1}
    BY <1>1, <1>3 DEF Saying
  <2>2. Len(w) + 1 \notin Saying(w)
    BY <1>1 DEF Saying
  <2> QED BY <2>1, <2>2, <1>2, <1>3, FS_AddElement DEF Said
<1>4. CASE x # "event"
  <2>1. Saying(Append(w, x)) = Saying(w)
    BY <1>1, <1>4 DEF Saying
  <2> QED BY <2>1, <1>4 DEF Said
<1> QED BY <1>3, <1>4

LEMMA SaidLess ==
    ASSUME NEW S, NEW w \in Seq(S), w # << >>
    PROVE  Said(w) = IF Head(w) = "event" THEN Said(Tail(w)) + 1 ELSE Said(Tail(w))
<1> DEFINE A == Saying(Tail(w))
           B == {i \in 2..Len(w) : w[i] = "event"}
           f == [i \in A |-> i + 1]
<1>1. /\ Len(Tail(w)) = Len(w) - 1 /\ Len(w) \in Nat /\ Len(w) > 0
      /\ \A i \in 1..Len(Tail(w)) : Tail(w)[i] = w[i + 1]
      /\ Head(w) = w[1]
  BY HeadTailProperties
<1>2. IsFiniteSet(A) /\ Said(Tail(w)) \in Nat
  BY <1>1, SaidType
<1>3. IsFiniteSet(B) /\ Cardinality(B) = Said(Tail(w))
  <2>1. f \in [A -> B]
    BY <1>1 DEF Saying
  <2>2. \A i, j \in A : f[i] = f[j] => i = j
    BY DEF Saying
  <2>3. \A k \in B : k - 1 \in A /\ f[k - 1] = k
    BY <1>1 DEF Saying
  <2>4. f \in Bijection(A, B)
    BY <2>1, <2>2, <2>3 DEF Bijection, Injection, Surjection, IsInjective
  <2> QED BY <2>4, <1>2, FS_Bijection DEF ExistsBijection, Said
<1>4. CASE Head(w) = "event"
  <2>1. Saying(w) = B \cup {1} /\ 1 \notin B
    BY <1>1, <1>4 DEF Saying
  <2> QED BY <2>1, <1>2, <1>3, <1>4, FS_AddElement DEF Said
<1>5. CASE Head(w) # "event"
  <2>1. Saying(w) = B
    BY <1>1, <1>5 DEF Saying
  <2> QED BY <2>1, <1>3, <1>5 DEF Said
<1> QED BY <1>4, <1>5

LEMMA RpcInvInit == RpcInit => RpcInv
<1> SUFFICES ASSUME RpcInit PROVE RpcInv
  OBVIOUS
<1> USE DEF RpcInit
<1>1. RpcTypeOK
  <2>1. wire \in Seq(Requests \cup {"event", "junk"}) /\ Len(wire) <= MaxWire
    BY RpcTransportAssumption
  <2>2. heard \in [events : 0..MaxTalk, late : SUBSET Requests, exits : 0..1]
    BY RpcTransportAssumption
  <2> QED BY <2>1, <2>2, RpcTransportAssumption DEF RpcTypeOK
<1>2. EventsHeard
  <2>1. Saying(wire) = {}
    BY DEF Saying
  <2>2. Said(wire) = 0
    BY <2>1, FS_EmptySet DEF Said
  <2> HIDE DEF RpcInit
  <2> QED BY <2>2 DEF EventsHeard, RpcInit
<1>3. UnderWayOnce /\ ExitTold /\ DisposalTold /\ LateOnly /\ NoneWaitsAfterExit
  BY DEF UnderWayOnce, ExitTold, DisposalTold, LateOnly, NoneWaitsAfterExit
<1> QED BY <1>1, <1>2, <1>3 DEF RpcInv

(* What follows from a failure, and from the start of a disposal.          *)
LEMMA Failing ==
    ASSUME RpcInv, Fail
    PROVE  /\ broken' = TRUE /\ notified' = TRUE
           /\ req' \in [Requests -> {"new", "pending"} \cup RequestSettled]
           /\ Pends' = {}
           /\ \A r \in Requests : req[r] # "pending" => req'[r] = req[r]
           /\ \A r \in Requests : req[r] # "new" => req'[r] # "new"
           /\ heard' \in [events : 0..MaxTalk, late : SUBSET Requests, exits : 0..1]
           /\ heard'.events = heard.events /\ heard'.late = heard.late
           /\ heard'.exits = 1 \/ early
<1> USE DEF RpcInv, Fail
<1>1. /\ req' \in [Requests -> {"new", "pending"} \cup RequestSettled]
      /\ \A r \in Requests : req'[r] = IF req[r] = "pending" THEN "failed" ELSE req[r]
  BY DEF RejectPending, RpcTypeOK, RequestSettled
<1>2. Pends' = {}
  BY <1>1 DEF Pends
<1>3. /\ heard' \in [events : 0..MaxTalk, late : SUBSET Requests, exits : 0..1]
      /\ heard'.events = heard.events /\ heard'.late = heard.late
      /\ heard'.exits = 1 \/ early
  <2>1. CASE notified \/ ~ears
    BY <2>1 DEF Notify, ExitTold, RpcTypeOK
  <2>2. CASE ~notified /\ ears
    <3>1. heard.exits = 0 /\ heard' = [heard EXCEPT !.exits = heard.exits + 1]
      BY <2>2 DEF Notify, ExitTold, RpcTypeOK
    <3> QED BY <3>1 DEF RpcTypeOK
  <2> QED BY <2>1, <2>2
<1> QED BY <1>1, <1>2, <1>3 DEF Notify

LEMMA DisposalStarts ==
    ASSUME RpcInv, StartDispose, stage = "none", notified' \in BOOLEAN, notified => notified'
    PROVE  /\ intended' = TRUE /\ attached' = FALSE
           /\ ears' \in BOOLEAN /\ early' \in BOOLEAN /\ stage' \in {"term", "done"}
           /\ ~ears' => stage' = "done" /\ (notified' \/ early')
           /\ early' => stage' = "done" /\ ~notified'
           /\ stage' = "done" => child # "up"
BY DEF RpcInv, RpcTypeOK, ExitTold, StartDispose

(* Nothing on the wire changes.                                            *)
LEMMA UnderWaySame ==
    ASSUME RpcInv, wire' = wire, inbox' \subseteq inbox,
           \A r \in Requests : Waited(r) => Waited(r)'
    PROVE  UnderWayOnce'
BY DEF RpcInv, RpcTypeOK, UnderWayOnce

LEMMA RpcInvNext == RpcInv /\ [RpcNext]_rpcVars => RpcInv'
<1> SUFFICES ASSUME RpcInv, [RpcNext]_rpcVars PROVE RpcInv'
  OBVIOUS
<1> USE DEF RpcInv
<1> USE RpcTransportAssumption
<1>1. ASSUME NEW r \in Requests, ChildAnswers(r) PROVE RpcInv'
  <2> USE <1>1 DEF ChildAnswers, failVars, disposeVars
  <2>1. /\ wire' \in Seq(Requests \cup {"event", "junk"}) /\ Len(wire') <= MaxWire
        /\ Len(wire') = Len(wire) + 1 /\ wire'[Len(wire) + 1] = r
        /\ \A i \in 1..Len(wire) : wire'[i] = wire[i]
    BY AppendProperties DEF Write, RpcTypeOK
  <2>2. RpcTypeOK'
    BY <2>1 DEF RpcTypeOK
  <2>3. EventsHeard'
    <3>1. wire \in Seq(Requests \cup {"event", "junk"}) /\ wire' = Append(wire, r) /\ r # "event"
      BY DEF Write, RpcTypeOK
    <3>2. Said(wire') = Said(wire)
      BY <3>1, SaidMore
    <3> QED BY <3>2 DEF EventsHeard
  <2>4. UnderWayOnce'
    <3>1. \A i, j \in 1..Len(wire') : wire'[i] = wire'[j] /\ wire'[i] \in Requests => i = j
      BY <2>1 DEF UnderWayOnce, RpcTypeOK
    <3>2. \A i \in 1..Len(wire') : wire'[i] \in Requests => wire'[i] \notin inbox' /\ Waited(wire[i])'
      BY <2>1 DEF UnderWayOnce, RpcTypeOK, Waited
    <3>3. \A q \in inbox' : Waited(q)'
      BY DEF UnderWayOnce, Waited
    <3> QED BY <3>1, <3>2, <3>3 DEF UnderWayOnce
  <2> QED
    BY <2>2, <2>3, <2>4 DEF ExitTold, DisposalTold, LateOnly, NoneWaitsAfterExit, Pends
<1>2. ASSUME NEW record \in {"event", "junk"}, ChildTalks(record) PROVE RpcInv'
  <2> USE <1>2 DEF ChildTalks, failVars, disposeVars
  <2>1. /\ wire' \in Seq(Requests \cup {"event", "junk"}) /\ Len(wire') <= MaxWire
        /\ Len(wire') = Len(wire) + 1 /\ wire'[Len(wire) + 1] \notin Requests
        /\ \A i \in 1..Len(wire) : wire'[i] = wire[i]
    BY AppendProperties DEF Write, RpcTypeOK
  <2>2. RpcTypeOK'
    BY <2>1 DEF RpcTypeOK
  <2>3. EventsHeard'
    <3>1. wire \in Seq(Requests \cup {"event", "junk"}) /\ wire' = Append(wire, record)
      BY DEF Write, RpcTypeOK
    <3>2. Said(wire') <= Said(wire) + 1 /\ Said(wire) \in Nat
      BY <3>1, SaidMore, SaidType
    <3>3. heard.events \in Nat /\ talked \in Nat /\ Said(wire') \in Nat
      BY <2>1, SaidType DEF RpcTypeOK
    <3> QED BY <3>2, <3>3 DEF EventsHeard
  <2>4. UnderWayOnce'
    BY SMTT(30), <2>1 DEF UnderWayOnce, RpcTypeOK, Waited
  <2> QED
    BY <2>2, <2>3, <2>4 DEF ExitTold, DisposalTold, LateOnly, NoneWaitsAfterExit, Pends
<1>3. CASE ChildExits
  BY <1>3 DEF ChildExits, failVars, disposeVars, RpcTypeOK, EventsHeard, UnderWayOnce, Waited,
              ExitTold, DisposalTold, LateOnly, NoneWaitsAfterExit, Pends
<1>4. ASSUME NEW r \in Requests, Send(r) PROVE RpcInv'
  <2> USE <1>4 DEF Send, disposeVars
  <2>1. RpcTypeOK'
    BY ZenonT(40) DEF RpcTypeOK, RequestSettled
  <2>2. UnderWayOnce'
    <3>1. \A q \in Requests \ {r} : Waited(q) => Waited(q)'
      BY DEF Waited, RpcTypeOK
    <3>2. r \notin inbox /\ \A i \in 1..Len(wire) : wire[i] # r
      BY DEF UnderWayOnce, Waited
    <3>3. r \in inbox' => Waited(r)'
      BY <3>2 DEF Waited, RpcTypeOK
    <3> QED BY <3>1, <3>2, <3>3 DEF UnderWayOnce, RpcTypeOK
  <2>3. LateOnly' /\ NoneWaitsAfterExit'
    BY DEF LateOnly, NoneWaitsAfterExit, Pends, RpcTypeOK
  <2> QED BY <2>1, <2>2, <2>3 DEF EventsHeard, ExitTold, DisposalTold
<1>5. ASSUME NEW r \in Requests, TimesOut(r) PROVE RpcInv'
  <2> USE <1>5 DEF TimesOut, childVars, failVars, disposeVars
  <2>1. RpcTypeOK'
    BY DEF RpcTypeOK, RequestSettled
  <2>2. UnderWayOnce'
    <3>1. \A q \in Requests : Waited(q) => Waited(q)'
      BY DEF Waited, RpcTypeOK
    <3> QED BY <3>1, UnderWaySame
  <2>3. LateOnly' /\ NoneWaitsAfterExit'
    BY DEF LateOnly, NoneWaitsAfterExit, Pends, RpcTypeOK
  <2> QED BY <2>1, <2>2, <2>3 DEF EventsHeard, ExitTold, DisposalTold
<1>6. CASE InputBreaks
  <2> USE <1>6 DEF InputBreaks, disposeVars
  <2>1. RpcTypeOK'
    BY Failing DEF RpcTypeOK
  <2>2. UnderWayOnce'
    BY Failing, UnderWaySame DEF Waited
  <2>3. LateOnly' /\ NoneWaitsAfterExit' /\ ExitTold' /\ EventsHeard'
    BY Failing DEF LateOnly, NoneWaitsAfterExit, ExitTold, EventsHeard, RpcTypeOK
  <2> QED BY <2>1, <2>2, <2>3 DEF DisposalTold
<1>7. ASSUME NEW d \in Disposals, Dispose(d) PROVE RpcInv'
  <2> USE <1>7 DEF Dispose, childVars, failVars
  <2>1. RpcTypeOK' /\ ExitTold' /\ DisposalTold'
    <3>1. CASE stage = "none"
      BY <3>1, DisposalStarts DEF RpcTypeOK, ExitTold, DisposalTold
    <3>2. CASE stage # "none"
      BY <3>2 DEF RpcTypeOK, ExitTold, DisposalTold
    <3> QED BY <3>1, <3>2
  <2>2. UnderWayOnce'
    BY UnderWaySame DEF Waited
  <2> QED BY <2>1, <2>2 DEF EventsHeard, LateOnly, NoneWaitsAfterExit, Pends
<1>8. CASE Kill \/ HardBound
  <2> USE <1>8 DEF Kill, HardBound, GivesUp, childVars, failVars
  <2>1. RpcTypeOK' /\ ExitTold' /\ DisposalTold'
    BY DEF RpcTypeOK, ExitTold, DisposalTold
  <2>2. UnderWayOnce'
    BY UnderWaySame DEF Waited
  <2> QED BY <2>1, <2>2 DEF EventsHeard, LateOnly, NoneWaitsAfterExit, Pends
<1>9. CASE Receive
  <2> USE <1>9 DEF Receive, childVars, failVars
  <2>1. /\ wire # << >> /\ wire' = Tail(wire) /\ Len(wire) \in Nat
        /\ wire' \in Seq(Requests \cup {"event", "junk"}) /\ Len(wire') <= MaxWire
        /\ Len(wire') = Len(wire) - 1 /\ Len(wire) > 0 /\ Head(wire) = wire[1]
        /\ Head(wire) \in Requests \cup {"event", "junk"}
        /\ \A i \in 1..Len(wire') : wire'[i] = wire[i + 1]
    BY HeadTailProperties DEF RpcTypeOK
  <2>2. /\ Said(wire) = IF Head(wire) = "event" THEN Said(wire') + 1 ELSE Said(wire')
        /\ Said(wire) \in Nat /\ Said(wire') \in Nat
    <3>1. wire \in Seq(Requests \cup {"event", "junk"})
      BY DEF RpcTypeOK
    <3>2. Said(wire) = IF Head(wire) = "event" THEN Said(wire') + 1 ELSE Said(wire')
      BY <2>1, <3>1, SaidLess
    <3> QED BY <2>1, <3>2, SaidType
  <2>3. ASSUME \A r \in Requests : r # Head(wire) /\ Waited(r) => Waited(r)'
        PROVE  UnderWayOnce'
    <3>1. \A i, j \in 1..Len(wire') : wire'[i] = wire'[j] /\ wire'[i] \in Requests => i = j
      BY <2>1 DEF UnderWayOnce
    <3>2. \A i \in 1..Len(wire') : wire'[i] \in Requests => wire'[i] # Head(wire) /\ Waited(wire'[i])
      BY <2>1 DEF UnderWayOnce
    <3>3. \A r \in inbox : r # Head(wire)
      BY <2>1 DEF UnderWayOnce, RpcTypeOK
    <3>4. \A i \in 1..Len(wire') : wire'[i] \in Requests => wire'[i] \notin inbox'
      BY <2>1 DEF UnderWayOnce
    <3> QED BY <2>3, <3>1, <3>2, <3>3, <3>4 DEF UnderWayOnce, RpcTypeOK
  <2>4. CASE UNCHANGED <<req, attached, broken, notified, intended, early, stage, ears, heard>>
    <3> USE <2>4
    <3>1. UnderWayOnce'
      BY <2>3 DEF Waited
    <3>2. RpcTypeOK' /\ EventsHeard'
      BY <2>1, <2>2 DEF RpcTypeOK, EventsHeard
    <3> QED BY <3>1, <3>2 DEF ExitTold, DisposalTold, LateOnly, NoneWaitsAfterExit, Pends
  <2>5. CASE FailProtocol
    <3> USE <2>5 DEF FailProtocol
    <3>1. UnderWayOnce'
      BY <2>3, Failing DEF Waited
    <3>5. EventsHeard'
      <4>1. heard'.events = heard.events /\ talked' = talked
        BY Failing
      <4>2. heard.events \in Nat /\ talked \in Nat
        BY DEF RpcTypeOK
      <4> QED BY <2>2, <4>1, <4>2 DEF EventsHeard
    <3>2. LateOnly' /\ NoneWaitsAfterExit'
      BY Failing DEF LateOnly, NoneWaitsAfterExit, RpcTypeOK
    <3>3. CASE stage = "none"
      BY <2>1, <3>1, <3>2, <3>3, <3>5, Failing, DisposalStarts DEF RpcTypeOK, ExitTold, DisposalTold
    <3>4. CASE stage # "none"
      BY ZenonT(40), <2>1, <3>1, <3>2, <3>4, <3>5, Failing DEF RpcTypeOK, ExitTold, DisposalTold
    <3> QED BY <3>3, <3>4
  <2>6. CASE /\ Head(wire) = "event" /\ heard' = [heard EXCEPT !.events = @ + 1]
             /\ UNCHANGED <<req, attached, broken, notified, intended, early, stage, ears>>
    <3> USE <2>6
    <3>1. UnderWayOnce'
      BY <2>3 DEF Waited
    <3>2. /\ heard' \in [events : 0..MaxTalk, late : SUBSET Requests, exits : 0..1]
          /\ heard'.events = heard.events + 1 /\ heard'.late = heard.late
          /\ heard'.exits = heard.exits
      <4>1. heard.events \in Nat /\ heard.events + 1 \in 0..MaxTalk
        BY SMTT(30), <2>2 DEF EventsHeard, RpcTypeOK
      <4>2. /\ heard \in [events : 0..MaxTalk, late : SUBSET Requests, exits : 0..1]
            /\ heard' = [heard EXCEPT !.events = heard.events + 1]
        BY DEF RpcTypeOK
      <4> HIDE <2>6 DEF RpcInv, Receive
      <4> HIDE <1>9
      <4> QED BY <4>1, <4>2
    <3>3. RpcTypeOK' /\ EventsHeard'
      BY SMTT(30), <2>1, <2>2, <3>2 DEF RpcTypeOK, EventsHeard
    <3> QED BY <3>1, <3>2, <3>3 DEF ExitTold, DisposalTold, LateOnly, NoneWaitsAfterExit, Pends
  <2>7. CASE /\ Head(wire) \in Pends /\ req' = [req EXCEPT ![Head(wire)] = "answered"]
             /\ UNCHANGED <<attached, broken, notified, intended, early, stage, ears, heard>>
    <3> USE <2>7
    <3>1. Head(wire) \in Requests /\ req[Head(wire)] = "pending"
      BY DEF Pends
    <3>2. UnderWayOnce'
      BY <2>3, <3>1 DEF Waited, RpcTypeOK
    <3>3. RpcTypeOK' /\ EventsHeard'
      BY <2>1, <2>2, <3>1, RpcTransportAssumption DEF RpcTypeOK, EventsHeard, RequestSettled
    <3>4. LateOnly' /\ NoneWaitsAfterExit'
      BY <3>1 DEF LateOnly, NoneWaitsAfterExit, Pends, RpcTypeOK
    <3> QED BY <3>2, <3>3, <3>4 DEF ExitTold, DisposalTold
  <2>8. CASE /\ ~broken /\ Head(wire) \in Requests \ Pends
             /\ heard' = [heard EXCEPT !.late = @ \cup {Head(wire)}]
             /\ UNCHANGED <<req, attached, broken, notified, intended, early, stage, ears>>
    <3> USE <2>8
    <3>1. req[Head(wire)] = "late"
      BY <2>1 DEF UnderWayOnce, Waited, Pends
    <3>2. UnderWayOnce'
      BY <2>3 DEF Waited
    <3>3. /\ heard' \in [events : 0..MaxTalk, late : SUBSET Requests, exits : 0..1]
          /\ heard'.events = heard.events /\ heard'.late = heard.late \cup {Head(wire)}
          /\ heard'.exits = heard.exits
      BY DEF RpcTypeOK
    <3>4. RpcTypeOK' /\ EventsHeard'
      BY <2>1, <2>2, <3>3 DEF RpcTypeOK, EventsHeard
    <3>5. LateOnly'
      BY <3>1, <3>3 DEF LateOnly
    <3> QED BY <3>2, <3>3, <3>4, <3>5 DEF ExitTold, DisposalTold, NoneWaitsAfterExit, Pends
  <2> QED BY <2>4, <2>5, <2>6, <2>7, <2>8
<1>10. CASE Closes
  <2> USE <1>10 DEF Closes
  <2>1. CASE stage = "done" /\ notified
    <3> USE <2>1 DEF failVars
    <3>1. UnderWayOnce'
      BY UnderWaySame DEF Waited
    <3> QED
      BY <3>1 DEF RpcTypeOK, EventsHeard, ExitTold, DisposalTold, LateOnly, NoneWaitsAfterExit, Pends
  <2>2. CASE ~(stage = "done" /\ notified)
    <3> USE <2>2
    <3>1. Fail /\ wire' = wire /\ inbox' = inbox /\ child = "gone" /\ child' = "closed"
      BY DEF RpcTypeOK
    <3>2. UnderWayOnce'
      BY <3>1, Failing, UnderWaySame DEF Waited
    <3>3. EventsHeard' /\ LateOnly' /\ NoneWaitsAfterExit'
      BY <3>1, Failing DEF EventsHeard, LateOnly, NoneWaitsAfterExit, RpcTypeOK
    <3>4. CASE Disposing
      <4>1. /\ stage' = "done" /\ ears' = FALSE
            /\ wanted' = [d \in Disposals |-> IF wanted[d] = "waits" THEN "ok" ELSE wanted[d]]
            /\ UNCHANGED <<reading, talked, attached, intended, early>>
        BY <3>4 DEF Disposing, Over
      <4>2. RpcTypeOK'
        BY <3>1, <4>1, Failing DEF RpcTypeOK
      <4>3. ExitTold'
        BY <3>1, <3>4, <4>1, Failing DEF Disposing, ExitTold
      <4>4. DisposalTold'
        BY <3>1, <3>4, <4>1, Failing DEF Disposing, DisposalTold
      <4> QED BY <3>2, <3>3, <4>2, <4>3, <4>4
    <3>5. CASE stage = "none"
      BY <3>1, <3>2, <3>3, <3>5, Failing DEF Disposing, RpcTypeOK, ExitTold, DisposalTold
    <3>6. CASE ~Disposing /\ stage # "none"
      BY <3>1, <3>2, <3>3, <3>6, Failing DEF RpcTypeOK, ExitTold, DisposalTold
    <3> QED BY <3>4, <3>5, <3>6
  <2> QED BY <2>1, <2>2
<1>11. CASE UNCHANGED rpcVars
  BY <1>11 DEF rpcVars, childVars, failVars, disposeVars, RpcTypeOK, EventsHeard, UnderWayOnce,
               Waited, ExitTold, DisposalTold, LateOnly, NoneWaitsAfterExit, Pends
<1> QED
  BY <1>1, <1>2, <1>3, <1>4, <1>5, <1>6, <1>7, <1>8, <1>9, <1>10, <1>11 DEF RpcNext

LEMMA RpcInvSafe == RpcInv => RpcSafe
BY DEF RpcInv, RpcSafe, DisposalTold, DisposedIsDead, DisposalsAgree, ExitTold, ExitIsTold

(* For any requests and disposals, and however much the child says: who    *)
(* was told that it is gone was told the truth, no request waits after its *)
(* exit, the exit is told, and only late answers are taken for events      *)
(* (pi-rpc-transport.ts).                                                  *)
THEOREM RpcIsSafe == RpcSpec => []RpcSafe
<1>1. RpcSpec => []RpcInv
  BY RpcInvInit, RpcInvNext, PTL DEF RpcSpec
<1> QED BY <1>1, RpcInvSafe, PTL

(* Once the exit was told the listeners hear nothing more.                 *)
THEOREM SilentOnceExited == RpcSpec => SilentAfterExit
<1>1. RpcInv /\ [RpcNext]_rpcVars => (notified => heard' = heard)
  <2> SUFFICES ASSUME RpcInv, [RpcNext]_rpcVars, notified PROVE heard' = heard
    OBVIOUS
  <2>1. broken /\ (Fail => heard' = heard)
    BY DEF RpcInv, RpcTypeOK, Fail, Notify
  <2> QED
    BY <2>1 DEF RpcNext, rpcVars, ChildAnswers, ChildTalks, ChildExits, Send, TimesOut, InputBreaks,
       Dispose, Kill, HardBound, Receive, FailProtocol, Closes
<1>2. RpcSpec => []RpcInv
  BY RpcInvInit, RpcInvNext, PTL DEF RpcSpec
<1> QED BY <1>1, <1>2, PTL DEF RpcSpec, SilentAfterExit

-----------------------------------------------------------------------------
(* GrokAcp.  The lease is there from where the path takes it to the end of *)
(* the run; the process is there from the spawn on, and cleaned up in its  *)
(* own stage; and only the answer of a prompt leads to a delivery.         *)
LeaseHeld ==
    /\ hold # "none" => others = "free"
    /\ hold \in {"released", "poisoned"} => stageAt = "over"
    /\ hold = "released" => ~MayLive
    /\ \/ stageAt \in {"persist", "prompt", "deliver"}
       \/ path = "load" /\ stageAt \in Raced \cup {"spawn"}
       \/ stageAt = "dispose" /\ destined = "completed"
       => hold = "held"

ProcessThere ==
    /\ stageAt = "load" => path = "load"
    /\ stageAt = "new" => path = "fresh"
    /\ agentProc = "none" => stageAt \in {"lease", "spawn", "over"}
    /\ stageAt = "spawn" => agentProc = "none"
    /\ stageAt = "lease" => (agentProc = "none" <=> path = "load")
    /\ cleanup = "done" => agentProc = "closed"
    /\ cleanup # "none" => \/ stageAt \in {"dispose", "over"}
                           \/ stageAt = "deliver" /\ path = "fresh"
    /\ stageAt = "deliver" /\ path = "fresh" => cleanup = "done"

DeliveryDue ==
    /\ stageAt = "dispose" => destined # "none"
    /\ stageAt = "dispose" /\ destined = "completed" =>
         source = "response" /\ reply = "end" /\ (path = "load" => delivered)
    /\ stageAt = "deliver" => destined = "completed" /\ source = "response" /\ reply = "end"
    /\ delivered => destined = "completed" /\ stageAt \in {"dispose", "over"}
    /\ delivered /\ path = "fresh" => stageAt = "over"

AcpInv ==
    /\ AcpTypeOK /\ LeaseHeld /\ ProcessThere /\ DeliveryDue
    /\ DoubtIsTold /\ DeliveredIsAnswered

LEMMA AcpInvInit == AcpInit => AcpInv
BY DEF AcpInit, AcpInv, AcpTypeOK, LeaseHeld, ProcessThere, DeliveryDue, DoubtIsTold,
       DeliveredIsAnswered, MayLive, Raced

LEMMA AcpInvNext == AcpInv /\ [AcpNext]_acpVars => AcpInv'
<1> SUFFICES ASSUME AcpInv, [AcpNext]_acpVars PROVE AcpInv'
  OBVIOUS
<1> USE DEF AcpInv, AcpTypeOK, LeaseHeld, ProcessThere, DeliveryDue, DoubtIsTold,
            DeliveredIsAnswered, MayLive, Raced, outside, ends, prompted
<1>1. CASE LeaseTaken
  BY <1>1 DEF LeaseTaken, GoesTo
<1>2. CASE LeaseRefused
  BY <1>2 DEF LeaseRefused, Fails
<1>3. CASE Spawn
  BY <1>3 DEF Spawn, GoesTo, Fails
<1>4. CASE StageFails
  BY <1>4 DEF StageFails, Fails, Blame, Opening
<1>5. CASE Recorded
  BY <1>5 DEF Recorded, GoesTo, Fails, Blame, Opening
<1>6. CASE GraceOver
  BY <1>6 DEF GraceOver, Completes
<1>7. CASE Deliver
  <2> USE <1>7 DEF Deliver, GoesTo
  <2>1. CASE path = "load"
    <3>1. CASE delivered' = TRUE
      BY <2>1, <3>1
    <3>2. CASE destined' = "error"
      BY <2>1, <3>2
    <3> QED BY <2>1, <3>1, <3>2
  <2>2. CASE path = "fresh"
    BY <2>2
  <2> QED BY <2>1, <2>2
<1>8. CASE Terminate
  BY <1>8 DEF Terminate
<1>9. CASE Wait
  <2> USE <1>9 DEF Wait
  <2>1. CASE agentProc = "closed"
    BY <2>1
  <2>2. CASE agentProc = "exited"
    BY <2>2
  <2>3. CASE agentProc = "up"
    BY <2>3
  <2> QED BY <2>1, <2>2, <2>3
<1>10. CASE WaitKilled
  BY <1>10 DEF WaitKilled
<1>11. CASE Disposed
  <2> USE <1>11 DEF Disposed
  <2>1. CASE path = "fresh" /\ destined = "completed" /\ cleanup = "done"
    BY <2>1
  <2>2. CASE ~(path = "fresh" /\ destined = "completed") /\ cleanup = "done"
    BY <2>2 DEF Release, EndsAs
  <2>3. CASE cleanup = "failed"
    BY <2>3 DEF Release, EndsAs
  <2> QED BY <2>1, <2>2, <2>3
<1>12. CASE StageAnswered
  <2>1. PICK next \in {"authenticate", "load", "new", "lease", "prompt"} :
              /\ stageAt' = next
              /\ next = "load" => path = "load"
              /\ next = "new" => path = "fresh"
              /\ next = "lease" => path = "fresh" /\ stageAt = "new"
              /\ next = "prompt" => stageAt = "load" /\ hold = "held"
    BY <1>12 DEF StageAnswered, Following, GoesTo
  <2> QED BY <1>12, <2>1 DEF StageAnswered, GoesTo
<1>13. CASE PromptAnswered
  BY <1>13 DEF PromptAnswered, Completes
<1>14. CASE PromptFails
  BY <1>14 DEF PromptFails, Fails, Blame, Opening
<1>15. CASE SignalAborts
  BY <1>15 DEF SignalAborts, Listening, SessionKnown
<1>16. CASE ProcessExits \/ PipesClose \/ OtherLetsGo
  BY <1>16 DEF ProcessExits, PipesClose, OtherLetsGo
<1>17. CASE UNCHANGED acpVars
  BY <1>17 DEF acpVars
<1> QED
  BY <1>1, <1>2, <1>3, <1>4, <1>5, <1>6, <1>7, <1>8, <1>9, <1>10, <1>11, <1>12, <1>13, <1>14,
     <1>15, <1>16, <1>17 DEF AcpNext, RunStep

LEMMA AcpInvSafe == AcpInv => AcpSafe
BY DEF AcpInv, AcpSafe, LeaseHeld, LeaseCovers

(* A run over ACP loads, records and prompts a session under its lease     *)
(* alone, says when it leaves a process in doubt, and has nothing          *)
(* delivered but an answer, whatever the process does and the signal meets *)
(* (grok-acp-execution.ts, grok-acp-client.ts).                            *)
THEOREM AcpIsSafe == AcpSpec => []AcpSafe
<1>1. AcpSpec => []AcpInv
  BY AcpInvInit, AcpInvNext, PTL DEF AcpSpec
<1> QED BY <1>1, AcpInvSafe, PTL

-----------------------------------------------------------------------------
(* RpcExecution.                                                           *)
(* What a run keeps of what it is told early, and whether ours has spoken. *)
EarlyEntries == [id : Ids, how : Outcomes \cup {"none"}, upto : Nat]
OursSpoke == \E i \in DOMAIN messages : messages[i] = Ours
Spoken == IF OursSpoke THEN 1 ELSE 0

RunSequences == messages \in Seq(Ids) /\ cache \in Seq(EarlyEntries)

(* Before the run begins there is nothing of ours.                         *)
NotBegun == at = "start" =>
    /\ live # Ours /\ outcome = "none" /\ ~sent /\ ~evicted
    /\ timer = "none" /\ firing = "none"
    /\ Cached = {} /\ ~OursSpoke

(* Ours lives until its end, and once: when it has ended it is not live.   *)
OursLives ==
    /\ outcome # "none" => live # Ours
    /\ at \notin {"start", "done"} => live = Ours \/ outcome # "none"

(* What ours says is the first word after the base, and the last as long   *)
(* as it lives.                                                            *)
OursIsFirst ==
    /\ \A i \in DOMAIN messages : messages[i] = Ours => i = base + 1
    /\ live = Ours => Len(messages) = base + Spoken

(* What is cached of our end is our end; unless the cache dropped it, it   *)
(* is there.                                                               *)
OursCached ==
    /\ \A i \in Cached : cache[i].how # "none" =>
         cache[i].how = outcome /\ cache[i].upto = base + Spoken
    /\ at \in {"calling", "establishing"} /\ ~evicted =>
         Cached # {} /\ \A i \in Cached : cache[i].how = outcome

(* A run that waits waits for ours, and one that ends has seen its end,    *)
(* unless the cache dropped it.                                            *)
OursFollowed ==
    /\ seen # "none" => seen = outcome
    /\ at \notin {"ending", "done"} => seen = "none"
    /\ at = "waiting" => live = Ours \/ evicted
    /\ at = "ending" =>
         /\ live # Ours
         /\ evicted \/ (seen # "none" /\ shown = IF OursSpoke THEN <<Ours>> ELSE <<>>)
    /\ answer # "none" <=> at = "done"
    /\ unrecorded => answer = "failed"

ExecInv ==
    /\ ExecSafe /\ RunSequences /\ NotBegun /\ OursLives /\ OursIsFirst
    /\ OursCached /\ OursFollowed

(* An early event is added to the entry of its activation, or is a new one *)
(* for which the oldest makes room.                                        *)
LEMMA CacheEarlyEntries ==
    ASSUME NEW id \in Ids, NEW how \in Outcomes \cup {"none"}, CacheEarly(id, how),
           cache \in Seq(EarlyEntries), Len(cache) <= CacheMax, evicted \in BOOLEAN,
           Len(messages') \in Nat
    PROVE  /\ cache' \in Seq(EarlyEntries) /\ Len(cache') <= CacheMax
           /\ evicted' \in BOOLEAN /\ (evicted => evicted')
           /\ evicted' => evicted \/ \E i \in DOMAIN cache : cache[i].id = Ours
           /\ \A j \in DOMAIN cache' : cache'[j].id = Ours =>
                \/ /\ id # Ours \/ how = "none"
                   /\ \E i \in DOMAIN cache : cache[i] = cache'[j]
                \/ /\ id = Ours /\ cache'[j].how = how /\ cache'[j].upto = Len(messages')
           /\ ~evicted' /\ (id = Ours \/ \E i \in DOMAIN cache : cache[i].id = Ours) =>
                \E j \in DOMAIN cache' : cache'[j].id = Ours
<1> DEFINE known == {i \in DOMAIN cache : cache[i].id = id}
           new == [id |-> id, how |-> how, upto |-> Len(messages')]
           full == Len(cache) = CacheMax
           rest == IF full THEN Tail(cache) ELSE cache
<1>1. new \in EarlyEntries
    BY DEF EarlyEntries
<1>2. Len(cache) \in Nat /\ DOMAIN cache = 1..Len(cache) /\ \A i \in 1..Len(cache) : cache[i] \in EarlyEntries
    BY LenProperties, ElementOfSeq
<1>3. CASE known # {}
    <2>1. /\ cache' = [i \in DOMAIN cache |->
                        IF i \in known /\ how # "none"
                        THEN [cache[i] EXCEPT !.how = how, !.upto = Len(messages')]
                        ELSE cache[i]]
          /\ evicted' = evicted
        BY <1>3 DEF CacheEarly
    <2>2. ASSUME NEW i \in 1..Len(cache)
          PROVE  /\ cache'[i] \in EarlyEntries /\ cache'[i].id = cache[i].id
                 /\ \/ cache'[i] = cache[i] /\ (id # cache[i].id \/ how = "none")
                    \/ cache[i].id = id /\ cache'[i].how = how /\ cache'[i].upto = Len(messages')
        <3>1. cache'[i] = IF i \in known /\ how # "none"
                          THEN [cache[i] EXCEPT !.how = how, !.upto = Len(messages')]
                          ELSE cache[i]
            BY <1>2, <2>1
        <3>2. i \in known <=> cache[i].id = id
            BY <1>2
        <3> HIDE DEF known
        <3>3. CASE i \in known /\ how # "none"
            <4>1. cache'[i] = [cache[i] EXCEPT !.how = how, !.upto = Len(messages')]
                BY <3>1, <3>3
            <4>2. cache[i] \in EarlyEntries
                BY <1>2
            <4>3. /\ cache'[i] \in EarlyEntries /\ cache'[i].id = cache[i].id
                  /\ cache'[i].how = how /\ cache'[i].upto = Len(messages')
                BY <4>1, <4>2 DEF EarlyEntries
            <4> QED
                BY <3>2, <3>3, <4>3
        <3>4. CASE ~(i \in known /\ how # "none")
            BY <1>2, <3>1, <3>2, <3>4
        <3> QED
            BY <3>3, <3>4
    <2> HIDE DEF known, new
    <2>4. DOMAIN cache' = 1..Len(cache) /\ cache' \in [1..Len(cache) -> EarlyEntries]
        BY <1>2, <2>1, <2>2
    <2>5. cache' \in Seq(EarlyEntries) /\ Len(cache') = Len(cache)
        BY <1>2, <2>4, SeqDef, LenProperties
    <2> USE DEF known
    <2>6. ASSUME NEW j \in DOMAIN cache', cache'[j].id = Ours
          PROVE  \/ /\ id # Ours \/ how = "none"
                    /\ \E i \in DOMAIN cache : cache[i] = cache'[j]
                 \/ /\ id = Ours /\ cache'[j].how = how /\ cache'[j].upto = Len(messages')
        BY <1>2, <2>2, <2>4, <2>6
    <2>7. ASSUME NEW i \in DOMAIN cache, cache[i].id = Ours PROVE \E j \in DOMAIN cache' : cache'[j].id = Ours
        BY <1>2, <2>2, <2>4, <2>7
    <2>8. id = Ours => \E i \in DOMAIN cache : cache[i].id = Ours
        BY <1>3
    <2> QED
        BY <2>1, <2>5, <2>6, <2>7, <2>8
<1>4. CASE known = {}
    <2>1. /\ cache' = Append(rest, new)
          /\ evicted' = (evicted \/ (full /\ cache[1].id = Ours))
        BY <1>4 DEF CacheEarly
    <2>2. full => cache # <<>> /\ 1 \in DOMAIN cache
        BY <1>2, ExecAssumption, EmptySeq
    <2>3. /\ rest \in Seq(EarlyEntries) /\ Len(rest) < CacheMax
          /\ \A j \in 1..Len(rest) : \E i \in 1..Len(cache) : rest[j] = cache[i]
          /\ \A i \in 1..Len(cache) : (full /\ i = 1) \/ \E j \in 1..Len(rest) : rest[j] = cache[i]
        <3>1. CASE ~full
            <4>1. rest = cache /\ Len(cache) # CacheMax
                BY <3>1
            <4>2. Len(cache) < CacheMax
                <5>1. Len(cache) \in Nat /\ CacheMax \in Nat /\ Len(cache) <= CacheMax
                    BY <1>2, ExecAssumption
                <5> QED
                    BY <4>1, <5>1
            <4> HIDE DEF rest
            <4> QED
                BY <4>1, <4>2
        <3>2. CASE full
            <4>1. /\ Tail(cache) \in Seq(EarlyEntries) /\ Len(Tail(cache)) = Len(cache) - 1
                  /\ \A i \in 1..Len(Tail(cache)) : Tail(cache)[i] = cache[i + 1]
                BY <2>2, <3>2, HeadTailProperties
            <4>2. ASSUME NEW i \in 1..Len(cache), i # 1 PROVE \E j \in 1..Len(rest) : rest[j] = cache[i]
                <5>1. i - 1 \in 1..Len(rest) /\ rest[i - 1] = cache[i]
                    BY <1>2, <3>2, <4>1, <4>2
                <5> QED
                    BY <5>1
            <4>3. ASSUME NEW j \in 1..Len(rest) PROVE \E i \in 1..Len(cache) : rest[j] = cache[i]
                <5>1. j + 1 \in 1..Len(cache) /\ rest[j] = cache[j + 1]
                    BY <1>2, <3>2, <4>1, <4>3
                <5> QED
                    BY <5>1
            <4> QED
                BY <1>2, <3>2, <4>1, <4>2, <4>3, ExecAssumption
        <3> QED
            BY <3>1, <3>2
    <2> HIDE DEF rest, new
    <2>4. Len(rest) \in Nat
        BY <2>3, LenProperties
    <2>5. /\ cache' \in Seq(EarlyEntries) /\ Len(cache') = Len(rest) + 1
          /\ DOMAIN cache' = 1..(Len(rest) + 1)
          /\ \A j \in 1..Len(rest) : cache'[j] = rest[j]
          /\ cache'[Len(rest) + 1] = new
        BY <1>1, <2>1, <2>3, AppendProperties, LenProperties
    <2>6. ASSUME NEW j \in DOMAIN cache', cache'[j].id = Ours
          PROVE  \/ /\ id # Ours \/ how = "none"
                    /\ \E i \in DOMAIN cache : cache[i] = cache'[j]
                 \/ /\ id = Ours /\ cache'[j].how = how /\ cache'[j].upto = Len(messages')
        <3>1. CASE j \in 1..Len(rest)
            BY <1>2, <1>4, <2>3, <2>5, <2>6, <3>1
        <3>2. CASE j = Len(rest) + 1
            BY <2>5, <2>6, <3>2 DEF new
        <3> QED
            BY <2>4, <2>5, <2>6, <3>1, <3>2
    <2>7. ASSUME NEW i \in DOMAIN cache, cache[i].id = Ours, ~evicted'
          PROVE  \E j \in DOMAIN cache' : cache'[j].id = Ours
        <3>1. ~(full /\ i = 1)
            BY <2>1, <2>7
        <3>2. PICK j \in 1..Len(rest) : rest[j] = cache[i]
            BY <1>2, <2>3, <2>7, <3>1
        <3> QED
            BY <2>4, <2>5, <2>7, <3>2
    <2>8. id = Ours => \E j \in DOMAIN cache' : cache'[j].id = Ours
        BY <2>4, <2>5 DEF new
    <2>9. evicted' => evicted \/ \E i \in DOMAIN cache : cache[i].id = Ours
        BY <2>1, <2>2
    <2>10. evicted' \in BOOLEAN /\ (evicted => evicted')
        BY <2>1
    <2>11. Len(cache') <= CacheMax
        BY <2>3, <2>4, <2>5, ExecAssumption
    <2> QED
        BY <2>5, <2>6, <2>7, <2>8, <2>9, <2>10, <2>11
<1> QED
    BY <1>3, <1>4

(* What was said from the base on, as long as ours was the last to speak.  *)
LEMMA OursAlone ==
    ASSUME NEW spoken \in Seq(Ids), NEW b \in 0..Len(spoken), NEW n \in {b, b + 1},
           n <= Len(spoken), \A i \in DOMAIN spoken : spoken[i] = Ours => i = b + 1,
           n = b + 1 <=> \E i \in DOMAIN spoken : spoken[i] = Ours
    PROVE  SubSeq(spoken, b + 1, n) = IF n = b + 1 THEN <<Ours>> ELSE <<>>
<1>1. Len(spoken) \in Nat /\ DOMAIN spoken = 1..Len(spoken)
    BY LenProperties
<1>2. CASE n = b
    BY <1>1, <1>2, SubSeqEmpty
<1>3. CASE n = b + 1
    <2>1. spoken[b + 1] = Ours /\ b + 1 \in Int /\ n \in Int
        BY <1>1, <1>3
    <2>2. \A i \in (b + 1)..n : spoken[i] \in Ids
        BY <1>1, <1>3, <2>1, ElementOfSeq
    <2>3. /\ SubSeq(spoken, b + 1, n) \in Seq(Ids)
          /\ Len(SubSeq(spoken, b + 1, n)) = IF b + 1 <= n THEN n - (b + 1) + 1 ELSE 0
          /\ \A i \in 1..n-(b+1)+1 : SubSeq(spoken, b + 1, n)[i] = spoken[b + 1 + i - 1]
        BY <2>1, <2>2, SubSeqProperties
    <2> DEFINE t == SubSeq(spoken, b + 1, n)
    <2>4. t \in Seq(Ids) /\ Len(t) = 1 /\ t[1] = Ours
        BY <1>1, <1>3, <2>1, <2>3
    <2> HIDE DEF t
    <2>5. <<Ours>> \in Seq(Ids) /\ Len(<<Ours>>) = 1 /\ <<Ours>>[1] = Ours
        BY ExecAssumption DEF Ours, Ids
    <2>6. t = <<Ours>>
        BY <2>4, <2>5, SeqEqual
    <2> QED
        BY <1>3, <2>6 DEF t
<1> QED
    BY <1>2, <1>3

LEMMA Widened ==
    ASSUME NEW n \in Nat, NEW m \in Nat, n <= m
    PROVE  1..n \subseteq 1..m /\ 0..n \subseteq 0..m
OBVIOUS

LEMMA OneMore ==
    ASSUME NEW b \in Nat, NEW s \in {0, 1}, NEW n, n = b + s
    PROVE  b \in 0..n /\ n \in {b, b + 1} /\ n <= n /\ (n = b + 1 <=> s = 1)
OBVIOUS

LEMMA ExecFacts == ExecInv =>
    /\ messages \in Seq(Ids) /\ Len(messages) \in Nat /\ DOMAIN messages = 1..Len(messages)
    /\ cache \in Seq(EarlyEntries) /\ Len(cache) <= CacheMax
    /\ base \in Nat /\ Spoken \in {0, 1} /\ base + Spoken \in Nat
    /\ "none" \notin Outcomes /\ Nobody # Ours /\ Nobody \notin Ids /\ Ours \in Ids
<1> SUFFICES ASSUME ExecInv
             PROVE  /\ messages \in Seq(Ids) /\ Len(messages) \in Nat /\ DOMAIN messages = 1..Len(messages)
                    /\ cache \in Seq(EarlyEntries) /\ Len(cache) <= CacheMax
                    /\ base \in Nat /\ Spoken \in {0, 1} /\ base + Spoken \in Nat
                    /\ "none" \notin Outcomes /\ Nobody # Ours /\ Nobody \notin Ids /\ Ours \in Ids
    OBVIOUS
<1>1. messages \in Seq(Ids) /\ cache \in Seq(EarlyEntries) /\ Len(cache) <= CacheMax
    BY DEF ExecInv, RunSequences, ExecSafe, ExecTypeOK
<1>2. Len(messages) \in Nat /\ DOMAIN messages = 1..Len(messages)
    BY <1>1, LenProperties
<1>3. base \in Nat
    BY <1>2 DEF ExecInv, ExecSafe, ExecTypeOK
<1>4. Spoken \in {0, 1}
    BY DEF Spoken
<1>5. base + Spoken \in Nat
    BY <1>3, <1>4
<1> QED
    BY <1>1, <1>2, <1>3, <1>4, <1>5, ExecAssumption DEF Outcomes, Nobody, Ours, Ids

(* What is told of an activation under way.                                *)
LEMMA RunTold ==
    ASSUME ExecInv, NEW id \in Ids, Updated(id),
           base' = base, firing' = firing, answer' = answer, cut' = cut,
           unrecorded' = unrecorded, outcome' = outcome, sent' = sent, status' = status,
           foreign' \in 0..MaxForeign, override' \in {"none", "max_turns", "cancelled"},
           aborted' \in BOOLEAN, aborted' = aborted \/ at # "done",
           live' = id, live = id \/ (live = Nobody /\ id # Ours),
           \/ messages' = messages
           \/ /\ messages' = Append(messages, id) /\ live = id
              /\ \A i \in DOMAIN messages : messages[i] # id
    PROVE  ExecInv'
<1> USE DEF ExecInv
<1>1. /\ messages \in Seq(Ids) /\ Len(messages) \in Nat /\ DOMAIN messages = 1..Len(messages)
      /\ cache \in Seq(EarlyEntries) /\ Len(cache) <= CacheMax
      /\ base \in Nat /\ Spoken \in {0, 1} /\ base + Spoken \in Nat
      /\ "none" \notin Outcomes /\ Nobody # Ours /\ Nobody \notin Ids /\ Ours \in Ids
    BY ExecFacts
<1>2. /\ messages' \in Seq(Ids) /\ Len(messages') \in Nat /\ DOMAIN messages' = 1..Len(messages')
      /\ Len(messages) <= Len(messages')
      /\ \A i \in DOMAIN messages : messages'[i] = messages[i]
      /\ messages' # messages =>
            /\ live = id /\ Len(messages') = Len(messages) + 1 /\ messages'[Len(messages')] = id
            /\ \A i \in DOMAIN messages : messages[i] # id
    BY <1>1, AppendProperties, LenProperties
<1>3. /\ at' = at /\ seen' = seen
      /\ at # "waiting" => shown' = shown /\ timer' = timer
      /\ timer' \in Reasons
      /\ ~Early => cache' = cache /\ evicted' = evicted
      /\ Early => CacheEarly(id, "none")
    BY DEF Updated, Early, ExecSafe, ExecTypeOK, Reasons
<1>4. /\ cache' \in Seq(EarlyEntries) /\ Len(cache') <= CacheMax
      /\ evicted' \in BOOLEAN /\ (evicted => evicted')
      /\ evicted' => evicted \/ \E i \in DOMAIN cache : cache[i].id = Ours
      /\ \A j \in DOMAIN cache' : cache'[j].id = Ours =>
            \/ \E i \in DOMAIN cache : cache[i] = cache'[j]
            \/ id = Ours /\ cache'[j].how = "none"
      /\ ~evicted' /\ (\E i \in DOMAIN cache : cache[i].id = Ours) =>
            \E j \in DOMAIN cache' : cache'[j].id = Ours
    <2>1. evicted \in BOOLEAN
        BY DEF ExecSafe, ExecTypeOK
    <2>2. CASE Early
        BY <1>1, <1>2, <1>3, <2>1, <2>2, CacheEarlyEntries
    <2>3. CASE ~Early
        BY <1>1, <1>3, <2>1, <2>3
    <2> QED
        BY <2>2, <2>3
<1>5. live # Ours => live' # Ours /\ OursSpoke' = OursSpoke /\ Spoken' = Spoken
    <2> SUFFICES ASSUME live # Ours PROVE live' # Ours /\ OursSpoke' = OursSpoke /\ Spoken' = Spoken
        OBVIOUS
    <2>1. CASE messages' = messages
        BY <1>1, <2>1 DEF OursSpoke, Spoken
    <2>2. CASE messages' # messages
        <3>1. id # Ours
            BY <1>2, <2>2
        <3>2. OursSpoke => OursSpoke'
            <4>1. DOMAIN messages \subseteq DOMAIN messages'
                <5>1. /\ Len(messages) \in Nat /\ Len(messages') \in Nat /\ Len(messages) <= Len(messages')
                      /\ DOMAIN messages = 1..Len(messages) /\ DOMAIN messages' = 1..Len(messages')
                    BY <1>1, <1>2
                <5> QED
                    BY <5>1, Widened
            <4> QED
                BY <1>2, <4>1 DEF OursSpoke
        <3>3. OursSpoke' => OursSpoke
            <4>1. \A i \in DOMAIN messages' : i \in DOMAIN messages \/ i = Len(messages')
                BY <1>1, <1>2, <2>2
            <4> QED
                BY <1>2, <2>2, <3>1, <4>1 DEF OursSpoke
        <3> QED
            BY <3>1, <3>2, <3>3 DEF Spoken, OursSpoke
    <2> QED
        BY <2>1, <2>2
<1>6. RunSequences'
    BY <1>2, <1>4 DEF RunSequences
<1>7. NotBegun'
    <2> SUFFICES ASSUME at = "start"
                 PROVE  /\ live' # Ours /\ outcome' = "none" /\ ~sent' /\ ~evicted'
                        /\ timer' = "none" /\ firing' = "none"
                        /\ Cached' = {} /\ ~OursSpoke'
        BY <1>3 DEF NotBegun
    <2>1. /\ live # Ours /\ outcome = "none" /\ ~sent /\ ~evicted
          /\ timer = "none" /\ firing = "none"
          /\ Cached = {} /\ ~OursSpoke
        BY DEF NotBegun
    <2>2. Cached' = {}
        BY <1>4, <1>5, <2>1 DEF Cached
    <2> QED
        BY <1>3, <1>4, <1>5, <2>1, <2>2 DEF Cached
<1>8. OursLives'
    BY <1>1, <1>3 DEF OursLives
<1>9. OursIsFirst'
    <2>1. CASE messages' = messages
        BY <1>1, <1>2, <2>1 DEF OursIsFirst, Spoken, OursSpoke
    <2>2. CASE messages' # messages
        <3>1. CASE id = Ours
            <4>1. ~OursSpoke /\ Spoken = 0 /\ Len(messages) = base
                <5>1. live = Ours /\ ~OursSpoke
                    BY <1>2, <2>2, <3>1 DEF OursSpoke
                <5>2. Spoken = 0
                    BY <5>1 DEF Spoken
                <5>3. Len(messages) = base + Spoken
                    BY <5>1 DEF OursIsFirst
                <5> QED
                    BY <1>1, <5>1, <5>2, <5>3
            <4>2. OursSpoke' /\ Spoken' = 1
                BY <1>2, <2>2, <3>1 DEF OursSpoke, Spoken
            <4>3. ASSUME NEW i \in DOMAIN messages', messages'[i] = Ours PROVE i = base + 1
                BY <1>1, <1>2, <2>2, <3>1, <4>1, <4>3
            <4> QED
                BY <1>2, <2>2, <4>1, <4>2, <4>3 DEF OursIsFirst
        <3>2. CASE id # Ours
            <4>1. ASSUME NEW i \in DOMAIN messages', messages'[i] = Ours PROVE i = base + 1
                <5>1. i \in DOMAIN messages
                    BY <1>1, <1>2, <2>2, <3>2, <4>1
                <5> QED
                    BY <1>2, <4>1, <5>1 DEF OursIsFirst
            <4> QED
                BY <3>2, <4>1 DEF OursIsFirst
        <3> QED
            BY <3>1, <3>2
    <2> QED
        BY <2>1, <2>2
<1>10. OursCached'
    <2>1. ASSUME NEW j \in DOMAIN cache', cache'[j].id = Ours, cache'[j].how # "none"
          PROVE  cache'[j].how = outcome' /\ cache'[j].upto = base' + Spoken'
        <3>1. PICK i \in DOMAIN cache : cache[i] = cache'[j]
            BY <1>4, <2>1
        <3>2. cache'[j].how = outcome /\ cache'[j].upto = base + Spoken
            BY <2>1, <3>1 DEF OursCached, Cached
        <3>3. live # Ours
            BY <2>1, <3>2 DEF OursLives
        <3> QED
            BY <1>5, <3>2, <3>3
    <2>2. ASSUME at \in {"calling", "establishing"}, ~evicted'
          PROVE  /\ \E j \in DOMAIN cache' : cache'[j].id = Ours
                 /\ \A j \in DOMAIN cache' : cache'[j].id = Ours => cache'[j].how = outcome
        <3>1. /\ \E i \in DOMAIN cache : cache[i].id = Ours
              /\ \A i \in DOMAIN cache : cache[i].id = Ours => cache[i].how = outcome
            BY <1>4, <2>2 DEF OursCached, Cached
        <3>2. id = Ours => outcome = "none"
            BY <1>1 DEF OursLives
        <3> QED
            BY <1>4, <2>2, <3>1, <3>2
    <2> QED
        BY <1>3, <2>1, <2>2 DEF OursCached, Cached
<1>11. OursFollowed'
    <2>1. at = "waiting" => live' = Ours \/ evicted'
        BY <1>1, <1>4 DEF OursFollowed
    <2>2. at = "ending" =>
            /\ live' # Ours
            /\ evicted' \/ (seen' # "none" /\ shown' = IF OursSpoke' THEN <<Ours>> ELSE <<>>)
        BY <1>3, <1>4, <1>5 DEF OursFollowed
    <2> QED
        BY <1>3, <2>1, <2>2 DEF OursFollowed
<1>12. ExecSafe'
    <2>1. ExecTypeOK'
        <3>1. \A i \in 1..Len(messages') : messages'[i] \in Ids
            BY <1>2, ElementOfSeq
        <3>2. base' \in 0..Len(messages')
            <4>1. base \in 0..Len(messages)
                BY DEF ExecSafe, ExecTypeOK
            <4>2. Len(messages) \in Nat /\ Len(messages') \in Nat /\ Len(messages) <= Len(messages')
                BY <1>1, <1>2
            <4> QED
                BY <4>1, <4>2
        <3> QED
            BY <1>3, <1>4, <3>1, <3>2 DEF ExecSafe, ExecTypeOK
    <2>2. at = "done" /\ ~unrecorded => live # Ours
        BY DEF ExecSafe, NoTurnLeft
    <2>3. AnswerIsOurs'
        BY <1>4 DEF ExecSafe, AnswerIsOurs
    <2>4. MessagesAreOurs'
        <3>1. CASE at = "done"
            <4>1. shown' = shown /\ evicted' = evicted
                BY <1>3, <3>1 DEF Early
            <4>2. answer \in {"completed", "max_turns"} => OursSpoke' = OursSpoke
                BY <1>5, <2>2, <3>1 DEF OursFollowed
            <4> QED
                BY <4>1, <4>2 DEF ExecSafe, MessagesAreOurs, OursSpoke
        <3>2. CASE at # "done"
            BY <3>2 DEF OursFollowed, MessagesAreOurs
        <3> QED
            BY <3>1, <3>2
    <2>5. AbortIsCancelled' /\ NoTurnLeft' /\ UserTurnKept'
        BY <1>3, <1>5, <2>2 DEF ExecSafe, AbortIsCancelled, NoTurnLeft, UserTurnKept
    <2> QED
        BY <2>1, <2>3, <2>4, <2>5 DEF ExecSafe
<1> QED
    BY <1>6, <1>7, <1>8, <1>9, <1>10, <1>11, <1>12

(* What is told when an activation ends.                                   *)
LEMMA RunEnded ==
    ASSUME ExecInv, NEW how \in Outcomes, NEW then \in {"idle", "error", "detached"},
           live # Nobody, Ends(how, then),
           messages' = messages, base' = base, answer' = answer, unrecorded' = unrecorded,
           sent' = sent, foreign' = foreign,
           firing' \in {firing, "none"}, cut' \subseteq {Ours},
           aborted' \in BOOLEAN, aborted' = aborted \/ at # "done"
    PROVE  ExecInv'
<1> USE DEF ExecInv
<1>1. /\ messages \in Seq(Ids) /\ Len(messages) \in Nat /\ DOMAIN messages = 1..Len(messages)
      /\ cache \in Seq(EarlyEntries) /\ Len(cache) <= CacheMax
      /\ base \in Nat /\ Spoken \in {0, 1} /\ base + Spoken \in Nat
      /\ "none" \notin Outcomes /\ Nobody # Ours /\ Nobody \notin Ids /\ Ours \in Ids
    BY ExecFacts
<1>2. /\ live' = Nobody /\ override' = "none" /\ status' = then /\ Settled(live, how)
      /\ live = Ours => outcome' = how
      /\ live # Ours => outcome' = outcome
      /\ live \in Ids
    BY DEF Ends, ExecSafe, ExecTypeOK
<1>3. \/ at # "waiting" /\ at' = at /\ seen' = seen /\ shown' = shown /\ timer' = timer
      \/ at = "waiting" /\ live # Ours /\ at' = at /\ seen' = seen /\ shown' = shown /\ timer' = timer
      \/ /\ at = "waiting" /\ live = Ours
         /\ at' = "ending" /\ seen' = how /\ timer' = "none"
         /\ shown' = SubSeq(messages, base + 1, Len(messages))
    BY <1>2 DEF Settled, Early, FromBase, After
<1>4. /\ ~Early => cache' = cache /\ evicted' = evicted
      /\ Early => CacheEarly(live, how)
    BY <1>2 DEF Settled, Early
<1>5. /\ cache' \in Seq(EarlyEntries) /\ Len(cache') <= CacheMax
      /\ evicted' \in BOOLEAN /\ (evicted => evicted')
      /\ evicted' => evicted \/ \E i \in DOMAIN cache : cache[i].id = Ours
      /\ \A j \in DOMAIN cache' : cache'[j].id = Ours =>
            \/ (live # Ours \/ ~Early) /\ \E i \in DOMAIN cache : cache[i] = cache'[j]
            \/ live = Ours /\ cache'[j].how = how /\ cache'[j].upto = Len(messages)
      /\ ~evicted' /\ (\E i \in DOMAIN cache : cache[i].id = Ours) =>
            \E j \in DOMAIN cache' : cache'[j].id = Ours
    <2>1. evicted \in BOOLEAN /\ how \in Outcomes \cup {"none"} /\ how # "none" /\ Len(messages') \in Nat
        BY <1>1 DEF ExecSafe, ExecTypeOK
    <2>2. CASE Early
        BY <1>1, <1>2, <1>4, <2>1, <2>2, CacheEarlyEntries
    <2>3. CASE ~Early
        BY <1>1, <1>4, <2>1, <2>3
    <2> QED
        BY <2>2, <2>3
<1>6. OursSpoke' = OursSpoke /\ Spoken' = Spoken
    BY DEF OursSpoke, Spoken
<1>7. live = Ours => outcome = "none" /\ Len(messages) = base + Spoken
    BY DEF OursLives, OursIsFirst
<1>8. RunSequences'
    BY <1>1, <1>5 DEF RunSequences
<1>9. NotBegun'
    <2> SUFFICES ASSUME at' = "start"
                 PROVE  /\ live' # Ours /\ outcome' = "none" /\ ~sent' /\ ~evicted'
                        /\ timer' = "none" /\ firing' = "none"
                        /\ Cached' = {} /\ ~OursSpoke'
        BY DEF NotBegun
    <2>1. at = "start" /\ timer' = timer
        BY <1>3
    <2>2. /\ live # Ours /\ outcome = "none" /\ ~sent /\ ~evicted
          /\ timer = "none" /\ firing = "none"
          /\ Cached = {} /\ ~OursSpoke
        BY <2>1 DEF NotBegun
    <2>3. Cached' = {} /\ ~evicted'
        BY <1>5, <2>2 DEF Cached
    <2> QED
        BY <1>1, <1>2, <1>6, <2>1, <2>2, <2>3
<1>10. OursLives'
    <2>1. at' \notin {"start", "done"} => at \notin {"start", "done"}
        BY <1>3
    <2> QED
        BY <1>1, <1>2, <2>1 DEF OursLives
<1>11. OursIsFirst'
    BY <1>1, <1>2, <1>6 DEF OursIsFirst
<1>12. OursCached'
    <2>1. ASSUME NEW j \in DOMAIN cache', cache'[j].id = Ours, cache'[j].how # "none"
          PROVE  cache'[j].how = outcome' /\ cache'[j].upto = base' + Spoken'
        <3>1. CASE live = Ours /\ cache'[j].how = how /\ cache'[j].upto = Len(messages)
            BY <1>2, <1>6, <1>7, <3>1
        <3>2. CASE \E i \in DOMAIN cache : cache[i] = cache'[j]
            <4>1. cache'[j].how = outcome /\ cache'[j].upto = base + Spoken
                BY <2>1, <3>2 DEF OursCached, Cached
            <4> QED
                BY <1>2, <1>6, <1>7, <2>1, <4>1
        <3> QED
            BY <1>5, <2>1, <3>1, <3>2
    <2>2. ASSUME at' \in {"calling", "establishing"}, ~evicted'
          PROVE  /\ \E j \in DOMAIN cache' : cache'[j].id = Ours
                 /\ \A j \in DOMAIN cache' : cache'[j].id = Ours => cache'[j].how = outcome'
        <3>0. at \in {"calling", "establishing"} /\ Early
            BY <1>3, <2>2 DEF Early
        <3>1. /\ \E i \in DOMAIN cache : cache[i].id = Ours
              /\ \A i \in DOMAIN cache : cache[i].id = Ours => cache[i].how = outcome
            BY <1>5, <2>2, <3>0 DEF OursCached, Cached
        <3> QED
            BY <1>2, <1>5, <2>2, <3>0, <3>1
    <2> QED
        BY <2>1, <2>2 DEF OursCached, Cached
<1>13. OursFollowed'
    <2>1. CASE at = "waiting" /\ live = Ours
        <3>1. at' = "ending" /\ seen' = how /\ shown' = SubSeq(messages, base + 1, Len(messages))
            BY <1>3, <2>1
        <3>2. shown' = IF OursSpoke THEN <<Ours>> ELSE <<>>
            <4>1. /\ base \in 0..Len(messages) /\ Len(messages) \in {base, base + 1}
                  /\ Len(messages) <= Len(messages) /\ (Len(messages) = base + 1 <=> Spoken = 1)
                BY <1>1, <1>7, <2>1, OneMore
            <4>2. \A i \in DOMAIN messages : messages[i] = Ours => i = base + 1
                BY DEF OursIsFirst
            <4>3. Spoken = 1 <=> \E i \in DOMAIN messages : messages[i] = Ours
                BY DEF Spoken, OursSpoke
            <4>4. SubSeq(messages, base + 1, Len(messages)) =
                    IF Len(messages) = base + 1 THEN <<Ours>> ELSE <<>>
                BY <1>1, <4>1, <4>2, <4>3, OursAlone
            <4> QED
                BY <3>1, <4>1, <4>3, <4>4 DEF OursSpoke
        <3>3. answer' = "none" /\ ~unrecorded'
            BY <2>1 DEF OursFollowed, ExecSafe, ExecTypeOK
        <3> QED
            BY <1>1, <1>2, <1>6, <2>1, <3>1, <3>2, <3>3 DEF OursFollowed
    <2>2. CASE ~(at = "waiting" /\ live = Ours)
        <3>1. at' = at /\ seen' = seen /\ shown' = shown
            BY <1>3, <2>2
        <3>2. seen' # "none" => seen' = outcome'
            BY <1>2, <1>7, <3>1 DEF OursFollowed
        <3>3. at = "waiting" => evicted'
            BY <1>5, <2>2 DEF OursFollowed
        <3> QED
            BY <1>1, <1>2, <1>5, <1>6, <3>1, <3>2, <3>3 DEF OursFollowed
    <2> QED
        BY <2>1, <2>2
<1>14. ExecSafe'
    <2>1. ExecTypeOK'
        <3>1. /\ at' \in {"start", "calling", "establishing", "waiting", "ending", "done"}
              /\ seen' \in Outcomes \cup {"none"} /\ timer' \in Reasons /\ outcome' \in Outcomes \cup {"none"}
            BY <1>2, <1>3 DEF ExecSafe, ExecTypeOK, Reasons
        <3>2. /\ firing' \in Reasons /\ cut' \subseteq Ids /\ sent' \in BOOLEAN /\ unrecorded' \in BOOLEAN
              /\ base' \in 0..Len(messages') /\ \A i \in 1..Len(messages') : messages'[i] \in Ids
              /\ foreign' \in 0..MaxForeign
              /\ answer' \in {"none", "completed", "failed", "max_turns", "cancelled"}
            BY <1>1 DEF ExecSafe, ExecTypeOK, Reasons
        <3> QED
            BY <1>2, <1>5, <3>1, <3>2 DEF ExecTypeOK
    <2>2. at' = "done" => at = "done" /\ shown' = shown /\ evicted' = evicted
        BY <1>3, <1>4 DEF Early
    <2>3. AnswerIsOurs' /\ MessagesAreOurs'
        <3>1. answer # "none" => at' = "done"
            BY <1>3 DEF OursFollowed
        <3>2. outcome \in {"ok", "max_turns"} => outcome' = outcome
            BY <1>2, <1>7
        <3> QED
            BY <2>2, <3>1, <3>2 DEF ExecSafe, AnswerIsOurs, MessagesAreOurs
    <2>4. AbortIsCancelled' /\ NoTurnLeft' /\ UserTurnKept'
        BY <1>1, <1>2, <2>2 DEF ExecSafe, AbortIsCancelled, NoTurnLeft, UserTurnKept
    <2> QED
        BY <2>1, <2>3, <2>4 DEF ExecSafe
<1> QED
    BY <1>8, <1>9, <1>10, <1>11, <1>12, <1>13, <1>14

LEMMA RunBegins == ExecInv /\ Start => ExecInv'
<1> SUFFICES ASSUME ExecInv, Start PROVE ExecInv'
    OBVIOUS
<1> USE DEF ExecInv
<1>1. /\ messages \in Seq(Ids) /\ Len(messages) \in Nat /\ DOMAIN messages = 1..Len(messages)
      /\ cache \in Seq(EarlyEntries) /\ Len(cache) <= CacheMax
      /\ "none" \notin Outcomes /\ Nobody # Ours /\ Ours \in Ids
    BY ExecFacts
<1>2. /\ at = "start" /\ live # Ours /\ outcome = "none" /\ ~sent /\ ~evicted
      /\ timer = "none" /\ firing = "none" /\ Cached = {} /\ ~OursSpoke
    BY DEF Start, NotBegun
<1>3. /\ foreign' = foreign /\ sent' = sent /\ override' = override /\ status' = status
      /\ messages' = messages /\ outcome' = outcome /\ shown' = shown /\ seen' = seen
      /\ timer' = timer /\ firing' = firing /\ aborted' = aborted /\ cut' = cut
      /\ unrecorded' = unrecorded
    BY DEF Start
<1>4. seen = "none" /\ answer = "none" /\ ~unrecorded
    BY <1>2 DEF OursFollowed, ExecSafe, ExecTypeOK
<1>5. ~OursSpoke' /\ Spoken' = 0
    BY <1>2, <1>3 DEF OursSpoke, Spoken
<1>6. CASE aborted
    <2>1. at' = "done" /\ answer' = "cancelled" /\ live' = live /\ base' = base
          /\ cache' = cache /\ evicted' = evicted
        BY <1>6 DEF Start, Answers
    <2>2. ExecSafe'
        <3>1. ExecTypeOK'
            BY <1>3, <2>1 DEF ExecSafe, ExecTypeOK
        <3> QED
            BY <1>2, <1>3, <2>1, <3>1 DEF ExecSafe, AnswerIsOurs, MessagesAreOurs, AbortIsCancelled,
                NoTurnLeft, UserTurnKept
    <2>3. OursIsFirst' /\ OursLives' /\ NotBegun' /\ RunSequences'
        BY <1>1, <1>2, <1>3, <1>5, <2>1 DEF OursIsFirst, OursSpoke, OursLives, NotBegun, RunSequences
    <2>4. OursCached' /\ OursFollowed'
        BY <1>2, <1>3, <1>4, <2>1 DEF OursCached, Cached, OursFollowed
    <2> QED
        BY <2>2, <2>3, <2>4
<1>7. CASE ~aborted
    <2>1. /\ at' = "calling" /\ answer' = answer /\ live' = Ours /\ base' = Len(messages)
          /\ CacheEarly(Ours, "none")
        BY <1>7 DEF Start
    <2>2. evicted \in BOOLEAN /\ Len(messages') \in Nat /\ "none" \in Outcomes \cup {"none"}
        BY <1>1, <1>2, <1>3 DEF ExecSafe, ExecTypeOK
    <2>3. /\ cache' \in Seq(EarlyEntries) /\ Len(cache') <= CacheMax
          /\ evicted' \in BOOLEAN
          /\ \A j \in DOMAIN cache' : cache'[j].id = Ours =>
                \/ \E i \in DOMAIN cache : cache[i] = cache'[j]
                \/ cache'[j].how = "none"
          /\ ~evicted' => \E j \in DOMAIN cache' : cache'[j].id = Ours
        BY <1>1, <2>1, <2>2, CacheEarlyEntries
    <2>4. \A j \in DOMAIN cache' : cache'[j].id = Ours => cache'[j].how = "none"
        BY <1>2, <2>3 DEF Cached
    <2>5. ExecSafe'
        <3>1. ExecTypeOK'
            <4>1. base' \in 0..Len(messages')
                BY <1>1, <1>3, <2>1
            <4> QED
                BY <1>1, <1>3, <2>1, <2>3, <4>1 DEF ExecSafe, ExecTypeOK
        <3> QED
            BY <1>3, <1>4, <2>1, <3>1 DEF ExecSafe, AnswerIsOurs, MessagesAreOurs, AbortIsCancelled,
                NoTurnLeft, UserTurnKept
    <2>6. OursIsFirst'
        BY <1>1, <1>3, <1>5, <2>1 DEF OursIsFirst, OursSpoke
    <2>7. OursLives' /\ NotBegun' /\ RunSequences'
        BY <1>1, <1>2, <1>3, <2>1, <2>3 DEF OursLives, NotBegun, RunSequences
    <2>8. OursCached'
        BY <1>2, <1>3, <2>1, <2>3, <2>4 DEF OursCached, Cached
    <2>9. OursFollowed'
        BY <1>3, <1>4, <2>1 DEF OursFollowed
    <2> QED
        BY <2>5, <2>6, <2>7, <2>8, <2>9
<1> QED
    BY <1>6, <1>7

(* The run gives up: activate throws, or the prompt cannot be recorded.    *)
LEMMA RunGivesUp == ExecInv /\ (ActivateFails \/ RecordFails) => ExecInv'
<1> SUFFICES ASSUME ExecInv, ActivateFails \/ RecordFails PROVE ExecInv'
    OBVIOUS
<1> USE DEF ExecInv
<1>1. /\ messages \in Seq(Ids) /\ "none" \notin Outcomes /\ Nobody # Ours
      /\ CacheMax \in Nat /\ <<>> \in Seq(EarlyEntries) /\ Len(<<>>) = 0
    BY ExecFacts, ExecAssumption, EmptySeq
<1>2. /\ at \in {"calling", "establishing"} /\ at' = "done" /\ cache' = <<>>
      /\ foreign' = foreign /\ sent' = sent /\ messages' = messages /\ base' = base
      /\ shown' = shown /\ seen' = seen /\ timer' = timer /\ firing' = firing
      /\ aborted' = aborted /\ cut' = cut /\ evicted' = evicted
      /\ answer' \in {"cancelled", "failed"}
      /\ (aborted => answer' = "cancelled") \/ unrecorded'
      /\ unrecorded' \in BOOLEAN /\ (unrecorded' => answer' = "failed")
      /\ unrecorded' \/ live' # Ours
      /\ \/ live' = live /\ override' = override /\ status' = status /\ outcome' = outcome
         \/ live = Ours /\ live' = Nobody /\ override' = "none" /\ status' = "error" /\ outcome' = "error"
    <2>1. ~unrecorded /\ unrecorded \in BOOLEAN
        BY DEF OursFollowed, ActivateFails, RecordFails, ExecSafe, ExecTypeOK
    <2>2. CASE ActivateFails
        BY <1>1, <2>1, <2>2 DEF ActivateFails, Answers
    <2>3. CASE RecordFails
        BY <2>3 DEF RecordFails, Answers, endpointVars
    <2> QED
        BY <2>2, <2>3
<1>3. seen = "none"
    BY <1>2 DEF OursFollowed
<1>4. OursSpoke' = OursSpoke /\ Spoken' = Spoken
    BY <1>2 DEF OursSpoke, Spoken
<1>5. ExecSafe'
    <2>1. ExecTypeOK'
        BY <1>1, <1>2 DEF ExecSafe, ExecTypeOK, Outcomes
    <2> QED
        BY <1>2, <2>1 DEF ExecSafe, AnswerIsOurs, MessagesAreOurs, AbortIsCancelled, NoTurnLeft, UserTurnKept
<1>6. NotBegun' /\ RunSequences'
    BY <1>1, <1>2 DEF NotBegun, RunSequences
<1>7. OursLives' /\ OursIsFirst'
    BY <1>1, <1>2, <1>4 DEF OursLives, OursIsFirst
<1>8. OursCached' /\ OursFollowed'
    BY <1>2, <1>3 DEF OursCached, Cached, OursFollowed
<1> QED
    BY <1>5, <1>6, <1>7, <1>8

(* The id is known.                                                        *)
LEMMA RunBound == ExecInv /\ Bind => ExecInv'
<1> SUFFICES ASSUME ExecInv, Bind PROVE ExecInv'
    OBVIOUS
<1> USE DEF ExecInv
<1>1. /\ messages \in Seq(Ids) /\ Len(messages) \in Nat /\ DOMAIN messages = 1..Len(messages)
      /\ base \in Nat /\ Spoken \in {0, 1} /\ "none" \notin Outcomes /\ Nobody # Ours
      /\ CacheMax \in Nat /\ <<>> \in Seq(EarlyEntries) /\ Len(<<>>) = 0
    BY ExecFacts, ExecAssumption, EmptySeq
<1>2. /\ at = "establishing" /\ cache' = <<>> /\ foreign' = foreign /\ sent' = sent
      /\ messages' = messages /\ base' = base /\ live' = live /\ override' = override
      /\ status' = status /\ outcome' = outcome /\ firing' = firing /\ answer' = answer
      /\ aborted' = aborted /\ cut' = cut /\ evicted' = evicted /\ unrecorded' = unrecorded
    BY DEF Bind, endpointVars
<1>3. OursSpoke' = OursSpoke /\ Spoken' = Spoken
    BY <1>2 DEF OursSpoke, Spoken
<1>4. seen = "none" /\ answer = "none" /\ ~unrecorded
    BY <1>2 DEF OursFollowed, ExecSafe, ExecTypeOK
<1>5. /\ at' \in {"ending", "waiting"} /\ timer' \in Reasons
      /\ at' = "waiting" => live = Ours \/ evicted
      /\ seen' # "none" => seen' = outcome
      /\ at' = "waiting" => seen' = "none"
      /\ at' = "ending" => live # Ours
      /\ at' = "ending" => evicted \/ (seen' # "none" /\ shown' = IF OursSpoke THEN <<Ours>> ELSE <<>>)
    <2>1. ASSUME NEW i \in CachedEnd, seen' = cache[i].how, at' = "ending", timer' = timer,
                 shown' = SubSeq(messages, base + 1, cache[i].upto)
          PROVE  seen' = outcome /\ seen' # "none" /\ shown' = IF OursSpoke THEN <<Ours>> ELSE <<>>
        <3>1. i \in Cached /\ cache[i].how = outcome /\ cache[i].upto = base + Spoken /\ outcome # "none"
            BY <2>1 DEF CachedEnd, OursCached
        <3>2. \A k \in DOMAIN messages : messages[k] = Ours => k = base + 1
            BY DEF OursIsFirst
        <3>3. base \in 0..Len(messages)
            BY DEF ExecSafe, ExecTypeOK
        <3>4. OursSpoke => base + 1 \in 1..Len(messages)
            BY <1>1, <3>2 DEF OursSpoke
        <3>5. Spoken = 1 <=> OursSpoke
            BY DEF Spoken
        <3> DEFINE n == base + Spoken
        <3>6. n \in {base, base + 1} /\ (n = base + 1 <=> Spoken = 1)
            BY <1>1
        <3>7. n <= Len(messages)
            <4>1. CASE Spoken = 0
                BY <1>1, <3>3, <4>1
            <4>2. CASE Spoken = 1
                BY <1>1, <3>4, <3>5, <4>2
            <4> QED
                BY <1>1, <4>1, <4>2
        <3> HIDE DEF n
        <3>8. n = base + 1 <=> \E k \in DOMAIN messages : messages[k] = Ours
            BY <3>5, <3>6 DEF OursSpoke
        <3>9. SubSeq(messages, base + 1, n) = IF n = base + 1 THEN <<Ours>> ELSE <<>>
            BY <1>1, <3>2, <3>3, <3>6, <3>7, <3>8, OursAlone
        <3> QED
            BY <2>1, <3>1, <3>5, <3>6, <3>9 DEF n
    <2>2. CASE \E i \in CachedEnd :
                /\ seen' = cache[i].how
                /\ shown' = SubSeq(messages, base + 1, cache[i].upto)
                /\ at' = "ending" /\ UNCHANGED timer
        <3>1. seen' = outcome /\ seen' # "none" /\ shown' = IF OursSpoke THEN <<Ours>> ELSE <<>>
            BY <2>1, <2>2
        <3>2. timer \in Reasons
            BY DEF ExecSafe, ExecTypeOK
        <3> QED
            BY <2>2, <3>1, <3>2 DEF OursLives
    <2>3. CASE /\ CachedEnd = {} /\ UNCHANGED seen
               /\ at' = IF live = Nobody /\ status # "idle" THEN "ending" ELSE "waiting"
               /\ timer' = IF at' = "ending" THEN "none"
                           ELSE IF live = Ours /\ override = "max_turns" THEN "max_turns"
                           ELSE IF aborted THEN "abort" ELSE "none"
        <3>1. live # Ours => evicted
            <4> SUFFICES ASSUME live # Ours, ~evicted PROVE FALSE
                BY DEF ExecSafe, ExecTypeOK
            <4>1. outcome # "none"
                BY <1>2 DEF OursLives
            <4>2. PICK i \in Cached : cache[i].how = outcome
                BY <1>2 DEF OursCached
            <4> QED
                BY <2>3, <4>1, <4>2 DEF CachedEnd
        <3> QED
            BY <1>1, <1>4, <2>3, <3>1 DEF Reasons
    <2> QED
        BY <2>2, <2>3 DEF Bind
<1>6. ExecSafe'
    <2>1. ExecTypeOK'
        <3>1. outcome \in Outcomes \cup {"none"}
            BY DEF ExecSafe, ExecTypeOK
        <3>2. seen' \in Outcomes \cup {"none"}
            BY <1>5, <3>1
        <3> QED
            BY <1>1, <1>2, <1>5, <3>2 DEF ExecSafe, ExecTypeOK
    <2> QED
        BY <1>2, <1>4, <1>5, <2>1 DEF ExecSafe, AnswerIsOurs, MessagesAreOurs, AbortIsCancelled,
            NoTurnLeft, UserTurnKept
<1>7. NotBegun' /\ RunSequences'
    BY <1>1, <1>2, <1>5 DEF NotBegun, RunSequences
<1>8. OursLives' /\ OursIsFirst'
    BY <1>1, <1>2, <1>3 DEF OursLives, OursIsFirst
<1>9. OursCached'
    BY <1>2, <1>5 DEF OursCached, Cached
<1>10. OursFollowed'
    BY <1>2, <1>3, <1>4, <1>5 DEF OursFollowed
<1> QED
    BY <1>6, <1>7, <1>8, <1>9, <1>10

(* The steps of the run that touch neither the transcript nor the cache.   *)
LEMMA RunQuietly ==
    ASSUME ExecInv,
           messages' = messages, base' = base, live' = live, outcome' = outcome, foreign' = foreign,
           status' = status, evicted' = evicted, unrecorded' = unrecorded, cut' = cut,
           shown' = shown, seen' = seen,
           cache' = cache \/ (cache' = <<>> /\ at' \notin {"calling", "establishing"}),
           sent' \in BOOLEAN, aborted' \in BOOLEAN, override' \in {"none", "max_turns", "cancelled"},
           timer' \in Reasons, firing' \in Reasons,
           answer' \in {"none", "completed", "failed", "max_turns", "cancelled"},
           \/ at' = at /\ answer' = answer /\ (aborted' = aborted \/ at # "done")
           \/ /\ at = "calling" /\ at' = "establishing" /\ answer' = answer /\ aborted' = aborted
           \/ /\ at = "waiting" /\ at' = "ending" /\ evicted /\ live # Ours
              /\ answer' = answer /\ aborted' = aborted
           \/ /\ at = "ending" /\ at' = "done" /\ answer' # "none" /\ aborted' = aborted
              /\ aborted => answer' = "cancelled"
              /\ answer' = "completed" => seen = "ok" \/ seen = "none"
              /\ answer' = "max_turns" => seen = "max_turns",
           at = "start" => sent' = sent /\ timer' = timer /\ firing' = firing
    PROVE  ExecInv'
<1> USE DEF ExecInv
<1>1. /\ messages \in Seq(Ids) /\ "none" \notin Outcomes
      /\ CacheMax \in Nat /\ <<>> \in Seq(EarlyEntries) /\ Len(<<>>) = 0
      /\ cache \in Seq(EarlyEntries) /\ Len(cache) <= CacheMax
    BY ExecFacts, ExecAssumption, EmptySeq
<1>2. OursSpoke' = OursSpoke /\ Spoken' = Spoken
    BY DEF OursSpoke, Spoken
<1>3. /\ at' \in {"start", "calling", "establishing", "waiting", "ending", "done"}
      /\ at' = "start" => at = "start"
      /\ at' \notin {"start", "done"} => at \notin {"start", "done"}
      /\ at' \in {"calling", "establishing"} => at \in {"calling", "establishing"}
      /\ at' \notin {"ending", "done"} => at \notin {"ending", "done"}
      /\ at' = "waiting" => at = "waiting"
    BY DEF ExecSafe, ExecTypeOK
<1>4. cache' \in Seq(EarlyEntries) /\ Len(cache') <= CacheMax
    <2>1. 0 <= CacheMax
        BY ExecAssumption
    <2>2. CASE cache' = cache
        BY <1>1, <2>2
    <2>3. CASE cache' = <<>>
        BY <1>1, <2>1, <2>3
    <2> QED
        BY <2>2, <2>3
<1>5. RunSequences' /\ NotBegun'
    <2>1. at = "start" => Cached' = {}
        BY <1>1 DEF NotBegun, Cached
    <2> QED
        BY <1>1, <1>2, <1>3, <1>4, <2>1 DEF RunSequences, NotBegun
<1>6. OursLives' /\ OursIsFirst'
    BY <1>2, <1>3 DEF OursLives, OursIsFirst
<1>7. OursCached'
    <2>1. CASE cache' = cache
        BY <1>2, <1>3, <2>1 DEF OursCached, Cached
    <2>2. CASE cache' = <<>> /\ at' \notin {"calling", "establishing"}
        BY <2>2 DEF OursCached, Cached
    <2> QED
        BY <2>1, <2>2
<1>8. OursFollowed'
    <2>1. unrecorded => answer = "failed" /\ at = "done"
        BY DEF OursFollowed
    <2>2. answer' # "none" <=> at' = "done"
        BY DEF OursFollowed
    <2>3. unrecorded' => answer' = "failed"
        BY <2>1
    <2>4. at' = "ending" =>
            live # Ours /\ (evicted \/ (seen # "none" /\ shown = IF OursSpoke THEN <<Ours>> ELSE <<>>))
        BY DEF OursFollowed
    <2> QED
        BY <1>2, <1>3, <2>2, <2>3, <2>4 DEF OursFollowed
<1>9. ExecTypeOK'
    <2>1. base' \in 0..Len(messages') /\ \A i \in 1..Len(messages') : messages'[i] \in Ids
        BY DEF ExecSafe, ExecTypeOK
    <2> QED
        BY <1>3, <1>4, <2>1 DEF ExecSafe, ExecTypeOK
<1>10. AnswerIsOurs' /\ MessagesAreOurs' /\ AbortIsCancelled' /\ NoTurnLeft' /\ UserTurnKept'
    <2>1. CASE at = "ending" /\ at' = "done"
        <3>1. /\ seen # "none" => seen = outcome
              /\ live # Ours
              /\ evicted \/ (seen # "none" /\ shown = IF OursSpoke THEN <<Ours>> ELSE <<>>)
            BY <2>1 DEF OursFollowed
        <3>2. /\ aborted => answer' = "cancelled"
              /\ answer' = "completed" => seen = "ok" \/ seen = "none"
              /\ answer' = "max_turns" => seen = "max_turns"
              /\ aborted' = aborted
            BY <2>1
        <3> QED
            BY <2>1, <3>1, <3>2 DEF ExecSafe, AnswerIsOurs, MessagesAreOurs, AbortIsCancelled,
                NoTurnLeft, UserTurnKept, OursSpoke
    <2>2. CASE at' # "done"
        <3>1. answer' = "none"
            BY <1>8, <2>2 DEF OursFollowed
        <3> QED
            BY <2>2, <3>1 DEF ExecSafe, AnswerIsOurs, MessagesAreOurs, AbortIsCancelled, NoTurnLeft, UserTurnKept
    <2>3. CASE at = "done" /\ at' = "done"
        BY <2>3 DEF ExecSafe, AnswerIsOurs, MessagesAreOurs, AbortIsCancelled, NoTurnLeft, UserTurnKept
    <2> QED
        BY <2>1, <2>2, <2>3
<1> QED
    BY <1>5, <1>6, <1>7, <1>8, <1>9, <1>10 DEF ExecSafe

LEMMA ExecInitial == ExecInit => ExecInv
<1> SUFFICES ASSUME ExecInit PROVE ExecInv
    OBVIOUS
<1> USE DEF ExecInit
<1>1. /\ <<>> \in Seq(Ids) /\ <<>> \in Seq(EarlyEntries) /\ Len(<<>>) = 0 /\ CacheMax \in Nat
      /\ MaxForeign \in Nat /\ Nobody # Ours /\ DOMAIN <<>> = {}
    BY ExecAssumption, EmptySeq DEF Nobody, Ours
<1>2. ExecSafe
    <2>1. 0 \in 0..MaxForeign /\ 0 \in 0..0 /\ 0 <= CacheMax
        BY ExecAssumption
    <2>2. ExecTypeOK
        <3>1. Len(messages) = 0 /\ Len(cache) = 0 /\ base = 0 /\ foreign = 0
            BY <1>1
        <3>2. base \in 0..Len(messages) /\ (\A i \in 1..Len(messages) : messages[i] \in Ids) /\ Len(cache) <= CacheMax
            BY <2>1, <3>1
        <3>3. live \in Ids \cup {Nobody} /\ foreign \in 0..MaxForeign /\ cut \subseteq Ids
            BY <2>1, <3>1
        <3>4. /\ {sent, aborted, evicted, unrecorded} \subseteq BOOLEAN
              /\ override \in {"none", "max_turns", "cancelled"}
              /\ status \in {"idle", "error", "detached"}
              /\ {outcome, seen} \subseteq Outcomes \cup {"none"}
              /\ at \in {"start", "calling", "establishing", "waiting", "ending", "done"}
              /\ {timer, firing} \subseteq Reasons
              /\ answer \in {"none", "completed", "failed", "max_turns", "cancelled"}
            BY DEF Reasons
        <3> HIDE DEF ExecInit
        <3> QED
            BY <3>2, <3>3, <3>4 DEF ExecTypeOK
    <2> QED
        BY <1>1, <2>2 DEF ExecSafe, AnswerIsOurs, MessagesAreOurs, AbortIsCancelled, NoTurnLeft, UserTurnKept
<1>3. RunSequences /\ NotBegun /\ OursLives /\ OursIsFirst /\ OursCached /\ OursFollowed
    BY <1>1 DEF RunSequences, NotBegun, OursLives, OursIsFirst, OursCached, OursFollowed, Cached, OursSpoke
<1> QED
    BY <1>2, <1>3 DEF ExecInv

(* The steps of the endpoint, of the run and of the signal.                *)
LEMMA ExecAborted == ExecInv /\ (ViewCancels \/ Abort) => ExecInv'
<1> SUFFICES ASSUME ExecInv, ViewCancels \/ Abort PROVE ExecInv'
    OBVIOUS
<1>0. /\ ExecTypeOK /\ live \in Ids \cup {Nobody} /\ Nobody # Ours
      /\ {"cancelled"} \subseteq Outcomes /\ cut \subseteq {Ours}
    BY ExecFacts DEF ExecInv, ExecSafe, ExecTypeOK, UserTurnKept, Outcomes
<1>1. /\ foreign' = foreign /\ sent' = sent /\ messages' = messages /\ base' = base
      /\ firing' = firing /\ answer' = answer /\ cut' = cut /\ unrecorded' = unrecorded
      /\ aborted' \in BOOLEAN /\ (aborted' = aborted \/ at # "done")
    BY <1>0 DEF ViewCancels, Abort, ExecTypeOK
<1>2. ASSUME RegistryAbort PROVE ExecInv'
    <2>1. CASE /\ live = Nobody
               /\ UNCHANGED <<live, override, status, outcome, cache, evicted, shown, timer, at, seen>>
        BY <1>0, <1>1, <2>1, RunQuietly DEF ExecTypeOK
    <2>2. CASE live = Ours /\ ~sent /\ Ends("cancelled", "detached")
        BY <1>0, <1>1, <2>2, RunEnded
    <2>3. CASE /\ Running /\ override' = (IF override = "none" THEN "cancelled" ELSE override)
               /\ UNCHANGED <<live, status, outcome>>
               /\ Updated(live)
        <3>1. live \in Ids /\ override' \in {"none", "max_turns", "cancelled"} /\ foreign \in 0..MaxForeign
            BY <1>0, <2>3 DEF Running, ExecTypeOK
        <3> QED
            BY <1>1, <2>3, <3>1, RunTold
    <2> QED
        BY <1>2, <2>1, <2>2, <2>3 DEF RegistryAbort
<1>3. CASE ViewCancels
    BY <1>2, <1>3 DEF ViewCancels
<1>4. CASE Abort
    <2>1. CASE RegistryAbort
        BY <1>2, <2>1
    <2>2. CASE ~RegistryAbort
        <3>1. /\ at' = at /\ live' = live /\ status' = status /\ outcome' = outcome /\ cache' = cache
              /\ evicted' = evicted /\ shown' = shown /\ seen' = seen
              /\ at = "start" => timer' = timer
              /\ timer' \in Reasons /\ override' \in {"none", "max_turns", "cancelled"}
            <4>1. CASE at = "start"
                BY <1>0, <1>4, <4>1 DEF Abort, ExecTypeOK
            <4>2. CASE at = "waiting" /\ live # Ours
                BY <1>0, <1>4, <4>2 DEF Abort, ExecTypeOK, Reasons
            <4>3. CASE at = "waiting" /\ live = Ours
                BY <1>0, <1>4, <4>3 DEF Abort, ExecTypeOK, Reasons
            <4> QED
                BY <1>4, <2>2, <4>1, <4>2, <4>3 DEF Abort
        <3> QED
            BY <1>0, <1>1, <3>1, RunQuietly DEF ExecTypeOK
    <2> QED
        BY <2>1, <2>2
<1> QED
    BY <1>3, <1>4

LEMMA ExecStep == ExecInv /\ [ExecNext]_execVars => ExecInv'
<1> SUFFICES ASSUME ExecInv, [ExecNext]_execVars PROVE ExecInv'
    OBVIOUS
<1>0. /\ ExecTypeOK /\ live \in Ids \cup {Nobody} /\ Nobody # Ours /\ Nobody \notin Ids
      /\ cut \subseteq {Ours} /\ "none" \notin Outcomes /\ Ids = 0..MaxForeign /\ MaxForeign \in Nat
    BY ExecFacts, ExecAssumption DEF ExecInv, ExecSafe, ExecTypeOK, UserTurnKept, Ids
<1>1. CASE UserBegins
    <2>1. live = Nobody /\ foreign' = foreign + 1 /\ live' = foreign + 1 /\ foreign < MaxForeign /\ Updated(foreign')
        BY <1>1 DEF UserBegins
    <2>2. foreign + 1 \in Ids /\ foreign + 1 # Ours /\ foreign' \in 0..MaxForeign
        BY <1>0, <2>1 DEF ExecTypeOK, Ours
    <2> QED
        BY <1>0, <1>1, <2>1, <2>2, RunTold DEF UserBegins, ExecTypeOK
<1>2. CASE Speaks
    <2>1. live \in Ids
        BY <1>0, <1>2 DEF Speaks, Running
    <2> QED
        BY <1>0, <1>2, <2>1, RunTold DEF Speaks, ExecTypeOK
<1>3. CASE TurnsUsedUp
    <2>1. live \in Ids
        BY <1>0, <1>3 DEF TurnsUsedUp, Running
    <2> QED
        BY <1>0, <1>3, <2>1, RunTold DEF TurnsUsedUp, ExecTypeOK
<1>4. CASE TurnEnds
    <2>1. PICK how \in Outcomes : Ends(how, "idle")
        <3>1. CASE \E how \in {"ok", "error"} : override = "none" /\ Ends(how, "idle")
            BY <3>1 DEF Outcomes
        <3>2. CASE override # "none" /\ Ends(override, "idle")
            BY <1>0, <3>2 DEF Outcomes, ExecTypeOK
        <3> QED
            BY <1>4, <3>1, <3>2 DEF TurnEnds
    <2> QED
        BY <1>0, <1>4, <2>1, RunEnded DEF TurnEnds, Running, ExecTypeOK
<1>5. CASE Crashes
    <2>1. "error" \in Outcomes
        BY DEF Outcomes
    <2> QED
        BY <1>0, <1>5, <2>1, RunEnded DEF Crashes, ExecTypeOK
<1>6. CASE Prompted \/ ActivateReturns
    <2>1. /\ at \in {"calling"} /\ at' \in {"calling", "establishing"}
          /\ sent' \in BOOLEAN
        BY <1>0, <1>6 DEF Prompted, ActivateReturns, ExecTypeOK, endpointVars, runVars
    <2>2. /\ messages' = messages /\ base' = base /\ live' = live /\ outcome' = outcome
          /\ foreign' = foreign /\ status' = status /\ evicted' = evicted /\ unrecorded' = unrecorded
          /\ cut' = cut /\ shown' = shown /\ seen' = seen /\ cache' = cache /\ aborted' = aborted
          /\ override' = override /\ timer' = timer /\ firing' = firing /\ answer' = answer
        BY <1>6 DEF Prompted, ActivateReturns, endpointVars, runVars
    <2> QED
        BY <1>0, <2>1, <2>2, RunQuietly DEF ExecTypeOK
<1>7. CASE TimerFires
    <2>1. at # "start"
        BY <1>7 DEF TimerFires, ExecInv, NotBegun
    <2>2. /\ messages' = messages /\ base' = base /\ live' = live /\ outcome' = outcome
          /\ foreign' = foreign /\ status' = status /\ evicted' = evicted /\ unrecorded' = unrecorded
          /\ cut' = cut /\ shown' = shown /\ seen' = seen /\ cache' = cache /\ aborted' = aborted
          /\ override' = override /\ timer' = "none" /\ firing' = timer /\ answer' = answer
          /\ at' = at /\ sent' = sent
        BY <1>7 DEF TimerFires, endpointVars
    <2> QED
        BY <1>0, <2>1, <2>2, RunQuietly DEF ExecTypeOK, Reasons
<1>8. CASE Detaches
    <2>1. CASE live = Ours
        <3>1. PICK how \in Outcomes : Ends(how, "detached")
            BY <1>0, <1>8, <2>1 DEF Detaches, Outcomes, ExecTypeOK
        <3>2. /\ cut' = cut \cup {Ours} /\ firing' = "none" /\ foreign' = foreign /\ sent' = sent
              /\ messages' = messages /\ base' = base /\ answer' = answer /\ aborted' = aborted
              /\ unrecorded' = unrecorded
            BY <1>8, <2>1 DEF Detaches
        <3> QED
            BY <1>0, <2>1, <3>1, <3>2, RunEnded DEF ExecTypeOK
    <2>2. CASE live # Ours
        <3>1. /\ messages' = messages /\ base' = base /\ live' = live /\ outcome' = outcome
              /\ foreign' = foreign /\ status' = status /\ evicted' = evicted /\ unrecorded' = unrecorded
              /\ cut' = cut /\ shown' = shown /\ seen' = seen /\ cache' = cache /\ aborted' = aborted
              /\ override' = override /\ timer' = timer /\ firing' = "none" /\ answer' = answer
              /\ sent' = sent /\ Unblock
            BY <1>8, <2>2 DEF Detaches
        <3>2. at # "start"
            BY <1>8 DEF Detaches, ExecInv, NotBegun
        <3>3. CASE at = "waiting"
            <4>1. evicted /\ at' = "ending"
                BY <2>2, <3>1, <3>3 DEF ExecInv, OursFollowed, Unblock, ExecSafe, ExecTypeOK
            <4> QED
                BY <1>0, <2>2, <3>1, <3>3, <4>1, RunQuietly DEF ExecTypeOK, Reasons
        <3>4. CASE at # "waiting"
            <4>1. at' = at
                BY <3>1, <3>4 DEF Unblock
            <4> QED
                BY <1>0, <3>1, <3>2, <4>1, RunQuietly DEF ExecTypeOK, Reasons
        <3> QED
            BY <3>3, <3>4
    <2> QED
        BY <2>1, <2>2
<1>9. CASE End
    <2>1. /\ messages' = messages /\ base' = base /\ live' = live /\ outcome' = outcome
          /\ foreign' = foreign /\ status' = status /\ evicted' = evicted /\ unrecorded' = unrecorded
          /\ cut' = cut /\ shown' = shown /\ seen' = seen /\ cache' = <<>> /\ aborted' = aborted
          /\ override' = override /\ timer' = "none" /\ firing' = firing
          /\ sent' = sent /\ at = "ending" /\ at' = "done"
        BY <1>9 DEF End, endpointVars, Answers
    <2>2. /\ answer' \in {"completed", "failed", "max_turns", "cancelled"}
          /\ aborted => answer' = "cancelled"
          /\ answer' = "completed" => seen = "ok" \/ seen = "none"
          /\ answer' = "max_turns" => seen = "max_turns"
        <3>1. answer' = IF aborted THEN "cancelled"
                        ELSE CASE seen = "ok" -> "completed"
                               [] seen = "error" -> "failed"
                               [] seen \in {"max_turns", "cancelled"} -> seen
                               [] OTHER -> IF status = "error" THEN "failed" ELSE "completed"
            BY <1>9 DEF End, Answers
        <3>2. seen \in {"ok", "error", "max_turns", "cancelled", "none"} /\ aborted \in BOOLEAN
            BY <1>0 DEF ExecTypeOK, Outcomes
        <3>3. CASE seen = "none" \/ seen = "ok"
            BY <3>1, <3>2, <3>3
        <3>4. CASE seen = "error"
            BY <3>1, <3>2, <3>4
        <3>5. CASE seen = "max_turns" \/ seen = "cancelled"
            BY <3>1, <3>2, <3>5
        <3> QED
            BY <3>2, <3>3, <3>4, <3>5
    <2> QED
        BY <1>0, <2>1, <2>2, RunQuietly DEF ExecTypeOK, Reasons
<1>10. CASE UNCHANGED execVars
    <2>1. /\ messages' = messages /\ base' = base /\ live' = live /\ outcome' = outcome
          /\ foreign' = foreign /\ status' = status /\ evicted' = evicted /\ unrecorded' = unrecorded
          /\ cut' = cut /\ shown' = shown /\ seen' = seen /\ cache' = cache /\ aborted' = aborted
          /\ override' = override /\ timer' = timer /\ firing' = firing
          /\ sent' = sent /\ at' = at /\ answer' = answer
        BY <1>10 DEF execVars, endpointVars, runVars
    <2> QED
        BY <1>0, <2>1, RunQuietly DEF ExecTypeOK
<1> QED
    BY <1>1, <1>2, <1>3, <1>4, <1>5, <1>6, <1>7, <1>8, <1>9, <1>10,
       ExecAborted, RunBegins, RunGivesUp, RunBound DEF ExecNext

(* Whatever the user does at the endpoint of a run, however many           *)
(* activations he begins there, and whenever the signal fires: the run is  *)
(* reported as its own activation ended, with its own messages, as         *)
(* cancelled once it was aborted, and neither leaves its turn under way    *)
(* nor ends one of the user's, unless the cache of early ends dropped it   *)
(* (pi-rpc-execution.ts).                                                  *)
THEOREM ExecIsSafe == ExecSpec => []ExecSafe
<1>1. ExecSpec => []ExecInv
    BY ExecInitial, ExecStep, PTL DEF ExecSpec
<1>2. ExecInv => ExecSafe
    BY DEF ExecInv
<1> QED
    BY <1>1, <1>2, PTL

-----------------------------------------------------------------------------
(* GrokTranscript. What the agent view shows at a place is its message, or *)
(* the draft that continues it, or at 0 the draft that has no place yet    *)
(* (At). An update adds one chunk at the end of what is shown at one       *)
(* place; to close a draft moves what is shown at 0 to the end or puts it  *)
(* back where it came from, and to reopen a message shows it as it was. So *)
(* a chunk keeps one place whatever comes between, which the messages      *)
(* alone would not say: they lag behind the drafts.                        *)

(* The agent's ids; parts, messages, drafts and tools; the view.           *)
AgentIds == MessageIds \ UserIds
PartOf == ({"said", "content"} \X Nat) \cup ({"call"} \X Tools)
MessageOf == [role : {"user", "agent", "result"}, id : MessageIds \cup {NoId} \cup Tools,
              parts : Seq(PartOf)]
DraftOf == [open : BOOLEAN, id : MessageIds \cup {NoId}, parts : Seq(PartOf), slot : Nat]
ToolOf == [known : BOOLEAN, status : Statuses \cup {"none", "interrupted"},
           content : 0..MaxUpdates, told : BOOLEAN]
ViewOf == [messages : Seq(MessageOf), user : DraftOf, agent : DraftOf,
           slots : [MessageIds -> Nat], tools : [Tools -> ToolOf], order : Seq(Tools)]
SaidOf == [kind : {"user", "agent", "call", "tool"}, id : MessageIds \cup {NoId} \cup Tools]

Says(m, j, n) == j \in DOMAIN m.parts /\ m.parts[j] = <<"said", n>>
Calls(m, t) == m.role = "agent" /\ \E j \in DOMAIN m.parts : m.parts[j] = <<"call", t>>
IsResult(m, t) == m.role = "result" /\ m.id = t

(* One sequence starts with the other. *)
Leads(a, b) == Len(a) <= Len(b) /\ \A i \in 1..Len(a) : b[i] = a[i]

(* What is shown at k: a message, as its draft continues it, or at 0 the   *)
(* draft that has no place yet (a user's, whatever id it gets).            *)
At(v, k) ==
    IF k = 0 THEN IF v.user.open THEN Message("user", NoId, v.user.parts)
                  ELSE IF v.agent.open /\ v.agent.slot = 0 THEN Message("agent", v.agent.id, v.agent.parts)
                  ELSE Message("none", NoId, <<>>)
    ELSE IF v.agent.open /\ v.agent.slot = k THEN Message("agent", v.agent.id, v.agent.parts)
    ELSE v.messages[k]

(* One draft at most is open; that of a reopened message continues it, and *)
(* its id leads where the draft goes back to.                              *)
Drafted(v) ==
    /\ ~v.user.open \/ ~v.agent.open
    /\ v.user.id \in UserIds \cup {NoId} /\ v.user.slot = 0
    /\ v.agent.id \in AgentIds \cup {NoId}
    /\ v.agent.slot \in 0..Len(v.messages)
    /\ v.agent.open /\ v.agent.slot > 0 =>
         /\ v.messages[v.agent.slot].role = "agent" /\ v.messages[v.agent.slot].id = v.agent.id
         /\ Leads(v.messages[v.agent.slot].parts, v.agent.parts)
    /\ v.agent.open /\ v.agent.id # NoId => v.slots[v.agent.id] = v.agent.slot
    /\ v.agent.open /\ v.agent.id = NoId => v.agent.slot = 0

(* An id of the agent's leads to the message that has it, and to no other; *)
(* one of the user's leads to some message.                                *)
Slotted(v) ==
    /\ \A i \in 1..Len(v.messages) :
         /\ v.messages[i].role = "result" => v.messages[i].id \in Tools
         /\ v.messages[i].role # "result" => v.messages[i].id \in MessageIds \cup {NoId}
         /\ v.messages[i].role = "user" => v.messages[i].id \in UserIds \cup {NoId}
         /\ v.messages[i].role = "agent" => v.messages[i].id \in AgentIds \cup {NoId}
         /\ v.messages[i].role = "agent" /\ v.messages[i].id # NoId => v.slots[v.messages[i].id] = i
    /\ \A id \in MessageIds : v.slots[id] \in 0..Len(v.messages)
    /\ \A id \in AgentIds : v.slots[id] # 0 =>
         /\ v.messages[v.slots[id]].role = "agent" /\ v.messages[v.slots[id]].id = id

(* A message of the one who said the chunk, under the chunk's id.          *)
OfKind(m, c) == m.role = c.kind /\ (c.kind = "agent" => m.id = c.id)

(* Every chunk is shown somewhere; what is shown was said; in a message    *)
(* chunks stand in the order in which they came; and a chunk is not shown  *)
(* at two places.                                                          *)
ChunksShown(v, s) == \A n \in DOMAIN s : s[n].kind \in {"user", "agent"} =>
    \E k \in 0..Len(v.messages) : OfKind(At(v, k), s[n]) /\ \E j \in Nat : Says(At(v, k), j, n)

ChunksKnown(v, s) == \A k \in 0..Len(v.messages) : \A j, n \in Nat :
    Says(At(v, k), j, n) => n \in DOMAIN s

ChunksOrdered(v) == \A k \in 0..Len(v.messages) : \A i, j, n, m \in Nat :
    Says(At(v, k), i, n) /\ Says(At(v, k), j, m) /\ i < j => n < m

ChunksApart(v) == \A k, l \in 0..Len(v.messages) : \A i, j, n \in Nat :
    Says(At(v, k), i, n) /\ Says(At(v, l), j, n) => k = l

Chunked(v, s) == ChunksShown(v, s) /\ ChunksKnown(v, s) /\ ChunksOrdered(v) /\ ChunksApart(v)

(* A call has a result if and only if it was told, and one at most; it was *)
(* heard of then; and results show no chunk.                               *)
Resulted(v) ==
    /\ \A i, j \in 1..Len(v.messages) : \A t \in Tools :
         IsResult(v.messages[i], t) /\ IsResult(v.messages[j], t) => i = j
    /\ \A t \in Tools : v.tools[t].told <=> \E i \in 1..Len(v.messages) : IsResult(v.messages[i], t)
    /\ \A t \in Tools : v.tools[t].told => v.tools[t].known
    /\ \A t \in Tools : v.tools[t].known <=> \E i \in 1..Len(v.order) : v.order[i] = t
    /\ \A t \in Tools : \A i \in 1..Len(v.messages) : IsResult(v.messages[i], t) =>
         \A j, n \in Nat : ~Says(v.messages[i], j, n)

(* The results of the calls of T say what the last update said.            *)
Exact(v, T) == \A t \in T : \A i \in 1..Len(v.messages) :
    IsResult(v.messages[i], t) => v.messages[i] = Outcome(v, t)

(* The calls of C are shown, and before their results.                     *)
Called(v, C) == \A t \in C :
    /\ \E k \in 0..Len(v.messages) : Calls(At(v, k), t)
    /\ \A i \in 1..Len(v.messages) : IsResult(v.messages[i], t) =>
         \E j \in 1..Len(v.messages) : j < i /\ Calls(v.messages[j], t)

(* The calls that were announced so far.                                   *)
Announced(s) == {t \in Tools : [kind |-> "call", id |-> t] \in ToSet(s)}

(* A view in order, of what was said and the calls it shows.               *)
Whole(v, s, C) ==
    /\ v \in ViewOf /\ Drafted(v) /\ Slotted(v) /\ Chunked(v, s) /\ Resulted(v) /\ Called(v, C)

(* Messages are continued and keep their places.                           *)
Grows(v, w) ==
    /\ Len(v.messages) <= Len(w.messages)
    /\ \A i \in 1..Len(v.messages) :
         /\ w.messages[i].role = v.messages[i].role /\ w.messages[i].id = v.messages[i].id
         /\ v.messages[i].role # "result" => Leads(v.messages[i].parts, w.messages[i].parts)

(* The results are the same, and so is what is on record of the calls.     *)
SameResults(v, w) ==
    /\ w.tools = v.tools /\ w.order = v.order /\ Len(v.messages) <= Len(w.messages)
    /\ \A t \in Tools : \A i \in 1..Len(w.messages) :
         IsResult(w.messages[i], t) => i <= Len(v.messages)
    /\ \A t \in Tools : \A i \in 1..Len(v.messages) :
         /\ IsResult(w.messages[i], t) <=> IsResult(v.messages[i], t)
         /\ IsResult(v.messages[i], t) => w.messages[i] = v.messages[i]

(* The invariant: the view is in order between updates, and every result   *)
(* is up to date.                                                          *)
TranscriptInv ==
    /\ said \in Seq(SaidOf) /\ loading \in BOOLEAN /\ Len(said) <= MaxUpdates
    /\ Whole(view, said, Announced(said)) /\ Exact(view, Tools)

(* Sequences that lead one another.                                        *)
LEMMA LeadsItself == ASSUME NEW T, NEW a \in Seq(T) PROVE Leads(a, a)
BY DEF Leads

LEMMA LeadsOn ==
    ASSUME NEW T, NEW a \in Seq(T), NEW b \in Seq(T), NEW c \in Seq(T), Leads(a, b), Leads(b, c)
    PROVE  Leads(a, c)
BY DEF Leads

LEMMA LeadsAppend ==
    ASSUME NEW T, NEW a \in Seq(T), NEW b \in Seq(T), NEW e \in T, Leads(a, b)
    PROVE  Leads(a, Append(b, e))
BY DEF Leads

(* Leads is IsPrefix, said of the elements.                                *)
LEMMA LeadsIsPrefix ==
    ASSUME NEW T, NEW a \in Seq(T), NEW b \in Seq(T), Leads(a, b)
    PROVE  IsPrefix(a, b)
<1>1. SubSeq(b, 1, Len(a)) \in Seq(T) /\ Len(SubSeq(b, 1, Len(a))) = Len(a)
  BY SubSeqProperties DEF Leads
<1>2. SubSeq(a, 1, Len(a)) \in Seq(T) /\ Len(SubSeq(a, 1, Len(a))) = Len(a)
  BY SubSeqProperties
<1>3. ASSUME NEW i \in 1..Len(a) PROVE SubSeq(a, 1, Len(a))[i] = SubSeq(b, 1, Len(a))[i]
  <2>1. SubSeq(a, 1, Len(a))[i] = a[i]
    BY SubSeqFull
  <2>2. SubSeq(b, 1, Len(a))[i] = b[i]
    BY SubSeqProperties DEF Leads
  <2> QED BY <2>1, <2>2 DEF Leads
<1>4. SubSeq(a, 1, Len(a)) = SubSeq(b, 1, Len(a))
  BY <1>1, <1>2, <1>3, SeqEqual
<1> QED BY <1>4 DEF IsPrefix, Leads

(* What parts a message has after another is added.                        *)
LEMMA SaysMore ==
    ASSUME NEW a \in Seq(PartOf), NEW e \in PartOf, NEW role, NEW id, NEW j \in Nat, NEW n \in Nat
    PROVE  Says(Message(role, id, Append(a, e)), j, n) <=>
             \/ Says(Message(role, id, a), j, n)
             \/ j = Len(a) + 1 /\ e = <<"said", n>>
<1>1. /\ DOMAIN Append(a, e) = 1..(Len(a) + 1) /\ DOMAIN a = 1..Len(a)
      /\ Append(a, e)[Len(a) + 1] = e
      /\ \A i \in 1..Len(a) : Append(a, e)[i] = a[i]
  OBVIOUS
<1>2. /\ Says(Message(role, id, Append(a, e)), j, n) <=>
            j \in DOMAIN Append(a, e) /\ Append(a, e)[j] = <<"said", n>>
      /\ Says(Message(role, id, a), j, n) <=> j \in DOMAIN a /\ a[j] = <<"said", n>>
  BY DEF Says, Message
<1>3. Len(a) \in Nat
  OBVIOUS
<1>4. CASE j = Len(a) + 1
  <2>1. j \notin DOMAIN a /\ j \in DOMAIN Append(a, e) /\ Append(a, e)[j] = e
    BY <1>1, <1>3, <1>4
  <2> QED BY <1>2, <1>4, <2>1, Zenon
<1>5. CASE j \in 1..Len(a)
  <2>1. j \in DOMAIN a /\ j \in DOMAIN Append(a, e) /\ Append(a, e)[j] = a[j] /\ j # Len(a) + 1
    BY <1>1, <1>3, <1>5
  <2> QED BY <1>2, <2>1, Zenon
<1>6. CASE j # Len(a) + 1 /\ j \notin 1..Len(a)
  <2>1. j \notin DOMAIN a /\ j \notin DOMAIN Append(a, e)
    BY <1>1, <1>3, <1>6
  <2> QED BY <1>2, <1>6, <2>1, Zenon
<1> QED BY <1>4, <1>5, <1>6

LEMMA SaysWithin ==
    ASSUME NEW a \in Seq(PartOf), NEW role, NEW id, NEW j \in Nat, NEW n \in Nat,
           Says(Message(role, id, a), j, n)
    PROVE  j \in 1..Len(a)
BY DEF Says, Message

(* And what calls it shows.                                                *)
LEMMA CallsMore ==
    ASSUME NEW a \in Seq(PartOf), NEW e \in PartOf, NEW id, NEW t \in Tools
    PROVE  Calls(Message("agent", id, Append(a, e)), t) <=>
             Calls(Message("agent", id, a), t) \/ e = <<"call", t>>
<1>1. ASSUME NEW j \in DOMAIN a, a[j] = <<"call", t>> PROVE Calls(Message("agent", id, Append(a, e)), t)
  <2>1. j \in DOMAIN Append(a, e) /\ Append(a, e)[j] = a[j]
    OBVIOUS
  <2> QED BY <1>1, <2>1 DEF Calls, Message
<1>2. ASSUME e = <<"call", t>> PROVE Calls(Message("agent", id, Append(a, e)), t)
  <2>1. Len(a) + 1 \in DOMAIN Append(a, e) /\ Append(a, e)[Len(a) + 1] = e
    OBVIOUS
  <2> QED BY <1>2, <2>1 DEF Calls, Message
<1>3. ASSUME NEW j \in DOMAIN Append(a, e), Append(a, e)[j] = <<"call", t>>
      PROVE  Calls(Message("agent", id, a), t) \/ e = <<"call", t>>
  <2>1. \/ j \in DOMAIN a /\ Append(a, e)[j] = a[j]
        \/ Append(a, e)[j] = e
    OBVIOUS
  <2> QED BY <1>3, <2>1 DEF Calls, Message
<1> QED BY <1>1, <1>2, <1>3 DEF Calls, Message

LEMMA CallsLead ==
    ASSUME NEW a \in Seq(PartOf), NEW b \in Seq(PartOf), Leads(a, b), NEW id, NEW i, NEW t \in Tools,
           Calls(Message("agent", id, a), t)
    PROVE  Calls(Message("agent", i, b), t)
<1>1. PICK j \in DOMAIN a : a[j] = <<"call", t>>
  BY DEF Calls, Message
<1>2. j \in DOMAIN b /\ b[j] = a[j]
  BY DEF Leads
<1> QED BY <1>1, <1>2 DEF Calls, Message

(* What is shown when nothing but silent messages is added.                *)
LEMMA ChunksKept ==
    ASSUME NEW v \in ViewOf, NEW w \in ViewOf, NEW s \in Seq(SaidOf), Chunked(v, s),
           Len(v.messages) <= Len(w.messages),
           \A k \in 0..Len(v.messages) : \A j, n \in Nat :
              /\ Says(At(w, k), j, n) <=> Says(At(v, k), j, n)
              /\ Says(At(v, k), j, n) => At(w, k).role = At(v, k).role /\ At(w, k).id = At(v, k).id,
           \A k \in 0..Len(w.messages) : \A j, n \in Nat :
              Says(At(w, k), j, n) => k <= Len(v.messages)
    PROVE  Chunked(w, s)
<1>0. Len(v.messages) \in Nat /\ Len(w.messages) \in Nat /\ DOMAIN s \subseteq Nat
  BY DEF ViewOf
<1>1. ChunksShown(w, s)
  <2>1. ASSUME NEW n \in DOMAIN s, s[n].kind \in {"user", "agent"}
        PROVE  \E k \in 0..Len(w.messages) : OfKind(At(w, k), s[n]) /\ \E j \in Nat : Says(At(w, k), j, n)
    <3>1. PICK k \in 0..Len(v.messages) : OfKind(At(v, k), s[n]) /\ \E j \in Nat : Says(At(v, k), j, n)
      BY <2>1 DEF Chunked, ChunksShown
    <3>2. PICK j \in Nat : Says(At(v, k), j, n)
      BY <3>1
    <3>3. k \in 0..Len(w.messages) /\ n \in Nat
      BY <1>0
    <3>4. Says(At(w, k), j, n) /\ At(w, k).role = At(v, k).role /\ At(w, k).id = At(v, k).id
      BY <3>2, <3>3
    <3>5. OfKind(At(w, k), s[n])
      BY <3>1, <3>4 DEF OfKind
    <3> QED BY <3>3, <3>4, <3>5
  <2> QED BY <2>1 DEF ChunksShown
<1>2. ChunksKnown(w, s)
  BY <1>0 DEF Chunked, ChunksKnown
<1>3. ChunksOrdered(w)
  BY <1>0 DEF Chunked, ChunksOrdered
<1>4. ChunksApart(w)
  BY <1>0 DEF Chunked, ChunksApart
<1> QED BY <1>1, <1>2, <1>3, <1>4 DEF Chunked

(* The same is shown, under the same id if it is the agent's.              *)
Alike(m, q) == m.parts = q.parts /\ m.role = q.role /\ (m.role = "agent" => m.id = q.id)

(* The new draft becomes the last message.                                 *)
LEMMA ChunksPlaced ==
    ASSUME NEW v \in ViewOf, NEW w \in ViewOf, NEW s \in Seq(SaidOf), Chunked(v, s),
           Len(w.messages) = Len(v.messages) + 1,
           \A k \in 1..Len(v.messages) : At(w, k) = At(v, k),
           Alike(At(w, Len(v.messages) + 1), At(v, 0)),
           \A j, n \in Nat : ~Says(At(w, 0), j, n)
    PROVE  Chunked(w, s)
<1> DEFINE N == Len(v.messages)
<1>0. N \in Nat /\ DOMAIN s \subseteq Nat
  BY DEF ViewOf
<1>1. \A k \in 0..N : \E l \in 0..N + 1 : Alike(At(w, l), At(v, k))
  BY <1>0 DEF Alike
<1>2. ChunksShown(w, s)
  <2>1. ASSUME NEW n \in DOMAIN s, s[n].kind \in {"user", "agent"}
        PROVE  \E l \in 0..N + 1 : OfKind(At(w, l), s[n]) /\ \E j \in Nat : Says(At(w, l), j, n)
    <3>1. PICK k \in 0..N : OfKind(At(v, k), s[n]) /\ \E j \in Nat : Says(At(v, k), j, n)
      BY <2>1 DEF Chunked, ChunksShown
    <3>2. PICK l \in 0..N + 1 : Alike(At(w, l), At(v, k))
      BY <1>1
    <3> QED BY <3>1, <3>2 DEF Alike, OfKind, Says
  <2> QED BY <1>0, <2>1 DEF ChunksShown
<1>3. ASSUME NEW k \in 0..N + 1, NEW j \in Nat, NEW n \in Nat, Says(At(w, k), j, n)
      PROVE  \/ k \in 1..N /\ Says(At(v, k), j, n) /\ Alike(At(w, k), At(v, k))
             \/ k = N + 1 /\ Says(At(v, 0), j, n) /\ Alike(At(w, k), At(v, 0))
  BY <1>0, <1>3 DEF Alike, Says
<1>4. ChunksKnown(w, s)
  BY <1>0, <1>3 DEF Chunked, ChunksKnown
<1>5. ChunksOrdered(w)
  <2>1. ASSUME NEW k \in 0..N + 1, NEW i \in Nat, NEW j \in Nat, NEW n \in Nat, NEW m \in Nat,
               Says(At(w, k), i, n), Says(At(w, k), j, m), i < j
        PROVE  n < m
    <3>1. PICK l \in 0..N : Alike(At(w, k), At(v, l))
      BY <1>0, <1>3, <2>1
    <3>2. Says(At(v, l), i, n) /\ Says(At(v, l), j, m)
      BY <2>1, <3>1 DEF Alike, Says
    <3> QED BY <2>1, <3>2 DEF Chunked, ChunksOrdered
  <2> QED BY <2>1 DEF ChunksOrdered
<1>6. ChunksApart(w)
  <2>1. ASSUME NEW k \in 0..N + 1, NEW l \in 0..N + 1, NEW i \in Nat, NEW j \in Nat, NEW n \in Nat,
               Says(At(w, k), i, n), Says(At(w, l), j, n)
        PROVE  k = l
    <3>1. \A a, b \in 0..N : Says(At(v, a), i, n) /\ Says(At(v, b), j, n) => a = b
      BY DEF Chunked, ChunksApart
    <3> QED BY <1>0, <1>3, <2>1, <3>1
  <2> QED BY <2>1 DEF ChunksApart
<1> QED BY <1>2, <1>4, <1>5, <1>6 DEF Chunked

(* A chunk is added at the end of what is shown at k.                      *)
AddsChunk(v, w, s, x, k, p) ==
    /\ Len(w.messages) = Len(v.messages) /\ k \in 0..Len(v.messages)
    /\ \A l \in 0..Len(v.messages) : l # k => At(w, l) = At(v, l)
    /\ At(w, k).role = x.kind /\ (x.kind = "agent" => At(w, k).id = x.id)
    /\ \A j, n \in Nat : Says(At(v, k), j, n) =>
           j < p /\ At(w, k).role = At(v, k).role /\ At(w, k).id = At(v, k).id
    /\ \A j, n \in Nat :
           Says(At(w, k), j, n) <=> Says(At(v, k), j, n) \/ (j = p /\ n = Len(s) + 1)

(* Then each chunk still has one place, and the new one has that.          *)
LEMMA ChunkAdded ==
    ASSUME NEW v \in ViewOf, NEW w \in ViewOf, NEW s \in Seq(SaidOf), Chunked(v, s),
           NEW x \in SaidOf, NEW k, NEW p \in Nat, AddsChunk(v, w, s, x, k, p)
    PROVE  Chunked(w, Append(s, x))
<1> USE DEF AddsChunk
<1> DEFINE z == Append(s, x)
           N == Len(v.messages)
<1>0. N \in Nat /\ Len(s) \in Nat /\ DOMAIN s = 1..Len(s)
  BY DEF ViewOf
<1>1. DOMAIN z = 1..(Len(s) + 1) /\ z[Len(s) + 1] = x /\ \A n \in 1..Len(s) : z[n] = s[n]
  OBVIOUS
<1> HIDE DEF z
<1>2. ChunksShown(w, z)
  <2>1. ASSUME NEW n \in DOMAIN z, z[n].kind \in {"user", "agent"}
        PROVE  \E l \in 0..N : OfKind(At(w, l), z[n]) /\ \E j \in Nat : Says(At(w, l), j, n)
    <3>1. CASE n = Len(s) + 1
      <4>1. Says(At(w, k), p, n) /\ OfKind(At(w, k), z[n])
        BY <1>0, <1>1, <3>1 DEF OfKind
      <4> QED BY <4>1
    <3>2. CASE n # Len(s) + 1
      <4>1. n \in DOMAIN s /\ z[n] = s[n] /\ n \in Nat
        BY <1>0, <1>1, <2>1, <3>2
      <4>2. PICK l \in 0..N : OfKind(At(v, l), s[n]) /\ \E j \in Nat : Says(At(v, l), j, n)
        BY <2>1, <4>1 DEF Chunked, ChunksShown
      <4>3. PICK j \in Nat : Says(At(v, l), j, n)
        BY <4>2
      <4>4. Says(At(w, l), j, n) /\ OfKind(At(w, l), z[n])
        BY <4>1, <4>2, <4>3 DEF OfKind
      <4> QED BY <4>4
    <3> QED BY <3>1, <3>2
  <2> QED BY <2>1 DEF ChunksShown
<1>3. ASSUME NEW l \in 0..N, NEW j \in Nat, NEW n \in Nat, Says(At(w, l), j, n)
      PROVE  \/ Says(At(v, l), j, n) /\ n \in 1..Len(s)
             \/ l = k /\ j = p /\ n = Len(s) + 1
  <2>1. Says(At(v, l), j, n) => n \in 1..Len(s)
    BY <1>0 DEF Chunked, ChunksKnown
  <2> QED BY <1>3, <2>1
<1>4. ChunksKnown(w, z)
  BY <1>0, <1>1, <1>3 DEF ChunksKnown
<1>5. ChunksOrdered(w)
  <2>1. ASSUME NEW l \in 0..N, NEW i \in Nat, NEW j \in Nat, NEW n \in Nat, NEW m \in Nat,
               Says(At(w, l), i, n), Says(At(w, l), j, m), i < j
        PROVE  n < m
    <3>1. Says(At(v, l), i, n) /\ Says(At(v, l), j, m) => n < m
      BY <2>1 DEF Chunked, ChunksOrdered
    <3>2. Says(At(v, k), j, m) => j < p
      OBVIOUS
    <3> QED BY <1>0, <1>3, <2>1, <3>1, <3>2
  <2> QED BY <2>1 DEF ChunksOrdered
<1>6. ChunksApart(w)
  <2>1. ASSUME NEW a \in 0..N, NEW l \in 0..N, NEW i \in Nat, NEW j \in Nat, NEW n \in Nat,
               Says(At(w, a), i, n), Says(At(w, l), j, n)
        PROVE  a = l
    <3>1. Says(At(v, a), i, n) /\ Says(At(v, l), j, n) => a = l
      BY DEF Chunked, ChunksApart
    <3> QED BY <1>0, <1>3, <2>1, <3>1
  <2> QED BY <2>1 DEF ChunksApart
<1> QED BY <1>2, <1>4, <1>5, <1>6 DEF Chunked, z

(* A chunk is of no other kind of update.                                  *)
LEMMA ChunksOfOther ==
    ASSUME NEW v \in ViewOf, NEW s \in Seq(SaidOf), Chunked(v, s),
           NEW x \in SaidOf, x.kind \notin {"user", "agent"}
    PROVE  Chunked(v, Append(s, x))
<1>1. /\ DOMAIN s = 1..Len(s) /\ DOMAIN Append(s, x) = 1..(Len(s) + 1) /\ Append(s, x)[Len(s) + 1] = x
      /\ \A n \in 1..Len(s) : Append(s, x)[n] = s[n]
  OBVIOUS
<1>2. ChunksShown(v, Append(s, x))
  BY <1>1 DEF Chunked, ChunksShown
<1>3. ChunksKnown(v, Append(s, x))
  BY <1>1 DEF Chunked, ChunksKnown
<1> QED BY <1>2, <1>3 DEF Chunked

(* Results stay, as long as the messages that have them do.                *)
LEMMA ResultsKept ==
    ASSUME NEW v \in ViewOf, NEW w \in ViewOf, SameResults(v, w), Resulted(v)
    PROVE  /\ Resulted(w)
           /\ \A T \in SUBSET Tools : Exact(v, T) => Exact(w, T)
<1>0. Len(v.messages) \in Nat /\ Len(w.messages) \in Nat
  BY DEF ViewOf
<1>1. Resulted(w)
  <2>1. \A i, j \in 1..Len(w.messages) : \A t \in Tools :
          IsResult(w.messages[i], t) /\ IsResult(w.messages[j], t) => i = j
    BY <1>0 DEF SameResults, Resulted
  <2>2. \A t \in Tools : w.tools[t].told <=> \E i \in 1..Len(w.messages) : IsResult(w.messages[i], t)
    BY <1>0 DEF SameResults, Resulted
  <2>3. \A t \in Tools : w.tools[t].told => w.tools[t].known
    BY DEF SameResults, Resulted
  <2>4. \A t \in Tools : w.tools[t].known <=> \E i \in 1..Len(w.order) : w.order[i] = t
    BY DEF SameResults, Resulted
  <2>5. \A t \in Tools : \A i \in 1..Len(w.messages) : IsResult(w.messages[i], t) =>
          \A j, n \in Nat : ~Says(w.messages[i], j, n)
    <3>1. ASSUME NEW t \in Tools, NEW i \in 1..Len(w.messages), IsResult(w.messages[i], t)
          PROVE  \A j, n \in Nat : ~Says(w.messages[i], j, n)
      <4>1. i \in 1..Len(v.messages) /\ IsResult(v.messages[i], t) /\ w.messages[i] = v.messages[i]
        BY <1>0, <3>1 DEF SameResults
      <4> QED BY <4>1 DEF Resulted
    <3> QED BY <3>1
  <2> QED BY <2>1, <2>2, <2>3, <2>4, <2>5 DEF Resulted
<1>2. ASSUME NEW T \in SUBSET Tools, Exact(v, T) PROVE Exact(w, T)
  <2>1. ASSUME NEW t \in T, NEW i \in 1..Len(w.messages), IsResult(w.messages[i], t)
        PROVE  w.messages[i] = Outcome(w, t)
    <3>1. i \in 1..Len(v.messages) /\ IsResult(v.messages[i], t) /\ w.messages[i] = v.messages[i]
      BY <1>0, <2>1 DEF SameResults
    <3>2. v.messages[i] = Outcome(v, t) /\ w.tools = v.tools
      BY <1>2, <3>1 DEF Exact, SameResults
    <3> QED BY <3>1, <3>2 DEF Outcome
  <2> QED BY <2>1 DEF Exact
<1> QED BY <1>1, <1>2

(* Calls stay, wherever they are shown.                                    *)
LEMMA CallsKept ==
    ASSUME NEW v \in ViewOf, NEW w \in ViewOf, SameResults(v, w), NEW C \in SUBSET Tools, Called(v, C),
           \A t \in Tools : \A k \in 0..Len(v.messages) : Calls(At(v, k), t) =>
              \E l \in 0..Len(w.messages) : Calls(At(w, l), t),
           \A t \in Tools : \A j \in 1..Len(v.messages) :
              Calls(v.messages[j], t) => Calls(w.messages[j], t)
    PROVE  Called(w, C)
<1>0. Len(v.messages) \in Nat /\ Len(w.messages) \in Nat
  BY DEF ViewOf
<1>1. ASSUME NEW t \in C PROVE \E l \in 0..Len(w.messages) : Calls(At(w, l), t)
  BY DEF Called
<1>2. ASSUME NEW t \in C, NEW i \in 1..Len(w.messages), IsResult(w.messages[i], t)
      PROVE  \E j \in 1..Len(w.messages) : j < i /\ Calls(w.messages[j], t)
  <2>1. i \in 1..Len(v.messages) /\ IsResult(v.messages[i], t) /\ Len(v.messages) <= Len(w.messages)
    BY <1>0, <1>2 DEF SameResults
  <2>2. PICK j \in 1..Len(v.messages) : j < i /\ Calls(v.messages[j], t)
    BY <2>1 DEF Called
  <2> QED BY <1>0, <2>1, <2>2
<1> QED BY <1>1, <1>2 DEF Called

(* What the records hold, and what a view's fields are.                    *)
LEMMA MessageFields ==
    ASSUME NEW role, NEW id, NEW parts
    PROVE  /\ Message(role, id, parts).role = role /\ Message(role, id, parts).id = id
           /\ Message(role, id, parts).parts = parts
BY DEF Message

LEMMA MessageTyped ==
    ASSUME NEW role \in {"user", "agent", "result"}, NEW id \in MessageIds \cup {NoId} \cup Tools,
           NEW parts \in Seq(PartOf)
    PROVE  Message(role, id, parts) \in MessageOf
BY DEF Message, MessageOf

LEMMA NothingFields ==
    /\ Nothing \in DraftOf /\ ~Nothing.open /\ Nothing.slot = 0 /\ Nothing.id = NoId
<1>1. <<>> \in Seq(PartOf)
  OBVIOUS
<1> QED BY <1>1 DEF Nothing, DraftOf

LEMMA DraftFields ==
    ASSUME NEW id \in MessageIds \cup {NoId}, NEW parts \in Seq(PartOf), NEW slot \in Nat
    PROVE  /\ Draft(id, parts, slot) \in DraftOf /\ Draft(id, parts, slot).open
           /\ Draft(id, parts, slot).slot = slot
           /\ Draft(id, parts, slot).id = id /\ Draft(id, parts, slot).parts = parts
BY DEF Draft, DraftOf

LEMMA ViewTyped ==
    ASSUME NEW v \in ViewOf
    PROVE  /\ v.messages \in Seq(MessageOf) /\ Len(v.messages) \in Nat
           /\ DOMAIN v.messages = 1..Len(v.messages)
           /\ \A i \in 1..Len(v.messages) :
                /\ v.messages[i] \in MessageOf /\ v.messages[i].parts \in Seq(PartOf)
                /\ v.messages[i].role \in {"user", "agent", "result"}
           /\ v.user \in DraftOf /\ v.agent \in DraftOf
           /\ v.user.parts \in Seq(PartOf) /\ v.agent.parts \in Seq(PartOf)
           /\ v.user.slot \in Nat /\ v.agent.slot \in Nat
           /\ v.user.open \in BOOLEAN /\ v.agent.open \in BOOLEAN
           /\ v.user.id \in MessageIds \cup {NoId} /\ v.agent.id \in MessageIds \cup {NoId}
           /\ v.slots \in [MessageIds -> Nat] /\ v.tools \in [Tools -> ToolOf] /\ v.order \in Seq(Tools)
<1>1. /\ v.messages \in Seq(MessageOf) /\ v.user \in DraftOf /\ v.agent \in DraftOf
      /\ v.slots \in [MessageIds -> Nat] /\ v.tools \in [Tools -> ToolOf] /\ v.order \in Seq(Tools)
  BY DEF ViewOf
<1>2. \A i \in 1..Len(v.messages) :
                /\ v.messages[i] \in MessageOf /\ v.messages[i].parts \in Seq(PartOf)
                /\ v.messages[i].role \in {"user", "agent", "result"}
  <2>1. ASSUME NEW i \in 1..Len(v.messages) PROVE v.messages[i] \in MessageOf
    BY <1>1, ElementOfSeq
  <2> QED BY <2>1 DEF MessageOf
<1>3. /\ v.user.parts \in Seq(PartOf) /\ v.agent.parts \in Seq(PartOf)
      /\ v.user.slot \in Nat /\ v.agent.slot \in Nat
      /\ v.user.open \in BOOLEAN /\ v.agent.open \in BOOLEAN
      /\ v.user.id \in MessageIds \cup {NoId} /\ v.agent.id \in MessageIds \cup {NoId}
  BY <1>1 DEF DraftOf
<1> QED BY <1>1, <1>2, <1>3

(* Where there is no draft nothing is shown.                               *)
LEMMA NothingShown == ASSUME NEW j, NEW n PROVE ~Says(Message("none", NoId, <<>>), j, n)
BY DEF Says, Message

LEMMA NothingCalls == ASSUME NEW t PROVE ~Calls(Message("none", NoId, <<>>), t)
BY DEF Calls, Message

(* What is shown, by where the drafts are.                                 *)
LEMMA AtFields ==
    ASSUME NEW v \in ViewOf
    PROVE  /\ v.user.open => At(v, 0) = Message("user", NoId, v.user.parts)
           /\ ~v.user.open /\ v.agent.open /\ v.agent.slot = 0 =>
                At(v, 0) = Message("agent", v.agent.id, v.agent.parts)
           /\ ~v.user.open /\ ~(v.agent.open /\ v.agent.slot = 0) => At(v, 0) = Message("none", NoId, <<>>)
           /\ \A k \in 1..Len(v.messages) :
                /\ v.agent.open /\ v.agent.slot = k => At(v, k) = Message("agent", v.agent.id, v.agent.parts)
                /\ ~(v.agent.open /\ v.agent.slot = k) => At(v, k) = v.messages[k]
<1>1. Len(v.messages) \in Nat
  BY ViewTyped
<1> QED BY <1>1 DEF At

(* flushUser, when there is a draft.                                       *)
LEMMA FlushUserFields ==
    ASSUME NEW v \in ViewOf, Drafted(v), v.user.open
    PROVE  /\ FlushUser(v) \in ViewOf
           /\ FlushUser(v).messages = Append(v.messages, Message("user", v.user.id, v.user.parts))
           /\ FlushUser(v).user = Nothing /\ FlushUser(v).agent = v.agent
           /\ FlushUser(v).slots = IF v.user.id = NoId THEN v.slots
                ELSE [v.slots EXCEPT ![v.user.id] = Len(v.messages) + 1]
           /\ FlushUser(v).tools = v.tools /\ FlushUser(v).order = v.order
<1> DEFINE m == Message("user", v.user.id, v.user.parts)
           ms == Append(v.messages, m)
           ss == IF v.user.id = NoId THEN v.slots
                 ELSE [v.slots EXCEPT ![v.user.id] = Len(v.messages) + 1]
           q == [v EXCEPT !.messages = ms, !.slots = ss, !.user = Nothing]
<1>1. m \in MessageOf /\ m.id = v.user.id
  <2>1. v.user.parts \in Seq(PartOf) /\ v.user.id \in MessageIds \cup {NoId} \cup Tools
    BY ViewTyped
  <2>2. m \in MessageOf
    BY <2>1, MessageTyped
  <2> QED BY <2>2, MessageFields
<1>2. ms \in Seq(MessageOf)
  BY <1>1, ViewTyped
<1>3. Len(v.messages) + 1 > Len(v.messages) /\ Len(v.messages) + 1 \in Nat
  BY ViewTyped
<1>4. FlushUser(v) = q
  <2>1. Place(v, Len(v.messages) + 1, m) = [v EXCEPT !.messages = ms, !.slots = ss]
    <3> HIDE DEF m
    <3> QED BY <1>1, <1>3 DEF Place
  <2>2. FlushUser(v) = [Place(v, Len(v.messages) + 1, m) EXCEPT !.user = Nothing]
    BY <1>3 DEF FlushUser
  <2> HIDE DEF m, ms, ss
  <2> QED BY <2>1, <2>2 DEF ViewOf
<1>7. ss \in [MessageIds -> Nat]
  <2>1. v.slots \in [MessageIds -> Nat]
    BY ViewTyped
  <2> QED BY <1>3, <2>1
<1> HIDE DEF ms, m, ss
<1>5. q \in ViewOf
  BY <1>2, <1>7, ViewTyped, NothingFields DEF ViewOf
<1>6. /\ q.messages = ms /\ q.user = Nothing /\ q.agent = v.agent
      /\ q.slots = ss /\ q.tools = v.tools /\ q.order = v.order
  BY DEF ViewOf
<1> QED BY <1>4, <1>5, <1>6 DEF ms, m, ss

(* flushAssistant, when there is a draft: at the end, or in its place.     *)
LEMMA FlushAgentFields ==
    ASSUME NEW v \in ViewOf, Drafted(v), v.agent.open
    PROVE  /\ FlushAgent(v) \in ViewOf
           /\ v.agent.slot = 0 =>
                /\ FlushAgent(v).messages =
                     Append(v.messages, Message("agent", v.agent.id, v.agent.parts))
                /\ FlushAgent(v).slots = IF v.agent.id = NoId THEN v.slots
                     ELSE [v.slots EXCEPT ![v.agent.id] = Len(v.messages) + 1]
           /\ v.agent.slot # 0 =>
                /\ FlushAgent(v).messages = [v.messages EXCEPT ![v.agent.slot] =
                     Message("agent", v.agent.id, v.agent.parts)]
                /\ FlushAgent(v).slots = v.slots
           /\ FlushAgent(v).agent = Nothing /\ FlushAgent(v).user = v.user
           /\ FlushAgent(v).tools = v.tools /\ FlushAgent(v).order = v.order
<1> DEFINE m == Message("agent", v.agent.id, v.agent.parts)
           slot == IF v.agent.slot > 0 THEN v.agent.slot ELSE Len(v.messages) + 1
           ms == IF slot > Len(v.messages) THEN Append(v.messages, m)
                 ELSE [v.messages EXCEPT ![slot] = m]
           ss == IF m.id = NoId THEN v.slots ELSE [v.slots EXCEPT ![m.id] = slot]
           q == [v EXCEPT !.messages = ms, !.slots = ss, !.agent = Nothing]
<1>0. v.agent.slot \in 0..Len(v.messages) /\ Len(v.messages) \in Nat
  BY ViewTyped DEF Drafted
<1>1. m \in MessageOf /\ m.id = v.agent.id
  <2>1. v.agent.parts \in Seq(PartOf) /\ v.agent.id \in MessageIds \cup {NoId} \cup Tools
    BY ViewTyped
  <2>2. m \in MessageOf
    BY <2>1, MessageTyped
  <2> QED BY <2>2, MessageFields
<1>2. FlushAgent(v) = q
  <2>1. Place(v, slot, m) = [v EXCEPT !.messages = ms, !.slots = ss]
    <3> HIDE DEF m, slot
    <3> QED BY DEF Place
  <2>2. FlushAgent(v) = [Place(v, slot, m) EXCEPT !.agent = Nothing]
    BY DEF FlushAgent
  <2> HIDE DEF m, ms, ss, slot
  <2> QED BY <2>1, <2>2 DEF ViewOf
<1>3. slot \in 1..(Len(v.messages) + 1) /\ v.agent.id \in MessageIds \cup {NoId}
  BY <1>0, ViewTyped
<1>4. CASE v.agent.slot = 0
  <2>1. slot = Len(v.messages) + 1 /\ slot > Len(v.messages)
    BY <1>0, <1>4
  <2> HIDE DEF slot, m
  <2>2. ms = Append(v.messages, m) /\ ms \in Seq(MessageOf)
    BY <1>1, <2>1, ViewTyped
  <2>3. ss = (IF v.agent.id = NoId THEN v.slots
              ELSE [v.slots EXCEPT ![v.agent.id] = Len(v.messages) + 1])
    BY <1>1, <2>1
  <2>4. ss \in [MessageIds -> Nat]
    <3>1. Len(v.messages) + 1 \in Nat /\ v.slots \in [MessageIds -> Nat]
      BY <1>0, ViewTyped
    <3> HIDE DEF ss
    <3> QED BY <1>3, <2>3, <3>1
  <2> HIDE DEF ms, ss
  <2>5. q \in ViewOf
    BY <2>2, <2>4, ViewTyped, NothingFields DEF ViewOf
  <2>6. /\ q.messages = ms /\ q.agent = Nothing /\ q.user = v.user
        /\ q.slots = ss /\ q.tools = v.tools /\ q.order = v.order
    BY DEF ViewOf
  <2> QED BY <1>2, <1>4, <2>2, <2>3, <2>5, <2>6 DEF m
<1>5. CASE v.agent.slot # 0
  <2>1. slot = v.agent.slot /\ slot \in 1..Len(v.messages) /\ ~(slot > Len(v.messages))
    BY <1>0, <1>5
  <2> HIDE DEF slot, m
  <2>2. ms = [v.messages EXCEPT ![v.agent.slot] = m] /\ ms \in Seq(MessageOf)
    <3>1. ms = [v.messages EXCEPT ![v.agent.slot] = m]
      BY <2>1
    <3> QED BY <1>1, <2>1, <3>1, ViewTyped
  <2>3. ss = v.slots
    <3>1. CASE v.agent.id = NoId
      BY <1>1, <3>1
    <3>2. CASE v.agent.id # NoId
      <4>1. v.slots[v.agent.id] = slot /\ v.agent.id \in MessageIds
        BY <1>3, <2>1, <3>2 DEF Drafted
      <4>2. [v.slots EXCEPT ![v.agent.id] = slot] = v.slots
        BY <4>1, ViewTyped
      <4> QED BY <1>1, <3>2, <4>2
    <3> QED BY <3>1, <3>2
  <2> HIDE DEF ms, ss
  <2>5. q \in ViewOf
    BY <2>2, <2>3, ViewTyped, NothingFields DEF ViewOf
  <2>6. /\ q.messages = ms /\ q.agent = Nothing /\ q.user = v.user
        /\ q.slots = ss /\ q.tools = v.tools /\ q.order = v.order
    BY DEF ViewOf
  <2> QED BY <1>2, <1>5, <2>2, <2>3, <2>5, <2>6 DEF m
<1> QED BY <1>4, <1>5

(* A message is added at the end.                                          *)
LEMMA AddedAtEnd ==
    ASSUME NEW v \in ViewOf, NEW w \in ViewOf, NEW m \in MessageOf, w.messages = Append(v.messages, m)
    PROVE  /\ Len(w.messages) = Len(v.messages) + 1 /\ w.messages[Len(v.messages) + 1] = m
           /\ \A i \in 1..Len(v.messages) : w.messages[i] = v.messages[i]
BY ViewTyped, AppendProperties

(* Messages are added, and the others stay as they are.                    *)
LEMMA MessagesGrow ==
    ASSUME NEW v \in ViewOf, NEW w \in ViewOf, Len(v.messages) <= Len(w.messages),
           \A i \in 1..Len(v.messages) : w.messages[i] = v.messages[i]
    PROVE  Grows(v, w)
<1>1. \A i \in 1..Len(v.messages) : Leads(v.messages[i].parts, v.messages[i].parts)
  BY ViewTyped, LeadsItself
<1> QED BY <1>1 DEF Grows

(* The new draft becomes the last message.                                 *)
LEMMA DraftPlaced ==
    ASSUME NEW v \in ViewOf, NEW w \in ViewOf, NEW s \in Seq(SaidOf), NEW C \in SUBSET Tools,
           Whole(v, s, C), NEW m \in MessageOf, m.role # "result", Alike(m, At(v, 0)),
           w.messages = Append(v.messages, m),
           ~(v.agent.open /\ v.agent.slot # 0), ~w.user.open, ~w.agent.open,
           w.tools = v.tools, w.order = v.order
    PROVE  Chunked(w, s) /\ Called(w, C) /\ Resulted(w) /\ SameResults(v, w) /\ Grows(v, w)
<1> DEFINE N == Len(v.messages)
<1>0. N \in Nat /\ v.agent.slot \in Nat
  BY ViewTyped
<1>1. /\ Len(w.messages) = N + 1 /\ w.messages[N + 1] = m
      /\ \A i \in 1..N : w.messages[i] = v.messages[i]
  BY AddedAtEnd
<1>2. /\ \A k \in 1..N : At(v, k) = v.messages[k] /\ At(w, k) = v.messages[k]
      /\ At(w, N + 1) = m /\ At(w, 0) = Message("none", NoId, <<>>)
  <2>1. \A k \in 1..N : At(v, k) = v.messages[k]
    BY <1>0, AtFields
  <2>2. \A k \in 1..(N + 1) : At(w, k) = w.messages[k]
    BY <1>1, AtFields
  <2>3. At(w, 0) = Message("none", NoId, <<>>)
    BY AtFields
  <2> QED BY <1>0, <1>1, <2>1, <2>2, <2>3
<1>3. Chunked(w, s)
  <2>1. \A j, n \in Nat : ~Says(At(w, 0), j, n)
    BY <1>2, NothingShown
  <2> QED BY <1>1, <1>2, <2>1, ChunksPlaced DEF Whole
<1>4. SameResults(v, w)
  <2>1. \A t \in Tools : \A i \in 1..Len(w.messages) : IsResult(w.messages[i], t) => i <= N
    BY <1>0, <1>1 DEF IsResult
  <2> QED BY <1>0, <1>1, <2>1 DEF SameResults
<1>5. Grows(v, w)
  <2>1. Len(v.messages) <= Len(w.messages)
    BY <1>0, <1>1
  <2> QED BY <1>1, <2>1, MessagesGrow
<1>6. Resulted(w)
  BY <1>4, ResultsKept DEF Whole
<1>7. Called(w, C)
  <2>1. ASSUME NEW t \in Tools, NEW k \in 0..N, Calls(At(v, k), t)
        PROVE  \E l \in 0..Len(w.messages) : Calls(At(w, l), t)
    <3>1. CASE k = 0
      <4>1. Calls(At(w, N + 1), t) /\ N + 1 \in 0..Len(w.messages)
        BY <1>0, <1>1, <1>2, <2>1, <3>1 DEF Alike, Calls
      <4> QED BY <4>1
    <3>2. CASE k # 0
      <4>1. k \in 1..N /\ k \in 0..Len(w.messages)
        BY <1>0, <1>1, <3>2
      <4> QED BY <1>2, <2>1, <4>1
    <3> QED BY <3>1, <3>2
  <2>2. \A t \in Tools : \A j \in 1..N : Calls(v.messages[j], t) => Calls(w.messages[j], t)
    BY <1>1
  <2> QED BY <1>4, <2>1, <2>2, CallsKept DEF Whole
<1> QED BY <1>3, <1>4, <1>5, <1>6, <1>7

(* What an operation keeps that gives a call no result.                    *)
Keeps(v, w, s, C) == Whole(w, s, C) /\ Grows(v, w) /\ SameResults(v, w)

(* flushUser, when there is a draft: what it shows gets a place.           *)
LEMMA FlushUserKeeps ==
    ASSUME NEW v \in ViewOf, NEW s \in Seq(SaidOf), NEW C \in SUBSET Tools, Whole(v, s, C), v.user.open
    PROVE  /\ Keeps(v, FlushUser(v), s, C) /\ ~FlushUser(v).user.open /\ ~FlushUser(v).agent.open
           /\ FlushUser(v).agent = v.agent
<1> DEFINE w == FlushUser(v)
           m == Message("user", v.user.id, v.user.parts)
           N == Len(v.messages)
<1>0. /\ N \in Nat /\ v.agent.slot \in 0..N /\ ~v.agent.open /\ Drafted(v)
      /\ v.user.id \in UserIds \cup {NoId} /\ v.user.id \in MessageIds \cup {NoId}
      /\ v.agent.id \in AgentIds \cup {NoId}
  BY ViewTyped DEF Whole, Drafted
<1>1. /\ w \in ViewOf /\ w.messages = Append(v.messages, m) /\ w.user = Nothing /\ w.agent = v.agent
      /\ w.slots = IF v.user.id = NoId THEN v.slots ELSE [v.slots EXCEPT ![v.user.id] = N + 1]
      /\ w.tools = v.tools /\ w.order = v.order
  BY <1>0, FlushUserFields
<1>2. Alike(m, At(v, 0)) /\ m \in MessageOf /\ m.role = "user" /\ m.id = v.user.id
  <2>1. v.user.parts \in Seq(PartOf)
    BY ViewTyped
  <2>2. m \in MessageOf
    BY <1>0, <2>1, MessageTyped
  <2>3. At(v, 0) = Message("user", NoId, v.user.parts)
    BY AtFields
  <2>4. m.role = "user" /\ m.id = v.user.id /\ m.parts = v.user.parts
    BY MessageFields
  <2>5. At(v, 0).role = "user" /\ At(v, 0).parts = v.user.parts
    BY <2>3, MessageFields
  <2> HIDE DEF m
  <2> QED BY <2>2, <2>4, <2>5 DEF Alike
<1> HIDE DEF w, m
<1>3. ~w.user.open /\ ~w.agent.open
  BY <1>0, <1>1, NothingFields
<1>4. Chunked(w, s) /\ Called(w, C) /\ Resulted(w) /\ SameResults(v, w) /\ Grows(v, w)
  <2>1. m.role # "result" /\ ~(v.agent.open /\ v.agent.slot # 0)
    BY <1>0, <1>2
  <2> QED BY <1>1, <1>2, <1>3, <2>1, DraftPlaced
<1>5. /\ Len(w.messages) = N + 1 /\ w.messages[N + 1] = m
      /\ \A i \in 1..N : w.messages[i] = v.messages[i]
  BY <1>1, <1>2, AddedAtEnd
<1>6. Drafted(w)
  BY <1>0, <1>1, <1>3, <1>5, NothingFields DEF Drafted
<1>8. /\ \A id \in AgentIds : id \in MessageIds /\ w.slots[id] = v.slots[id]
      /\ \A id \in MessageIds : w.slots[id] = v.slots[id] \/ w.slots[id] = N + 1
  <2>1. v.slots \in [MessageIds -> Nat]
    BY ViewTyped
  <2> QED BY <1>0, <1>1, <2>1 DEF AgentIds
<1>7. Slotted(w)
  <2>1. Slotted(v)
    BY DEF Whole
  <2>2. ASSUME NEW i \in 1..(N + 1)
        PROVE  /\ w.messages[i].role = "result" => w.messages[i].id \in Tools
               /\ w.messages[i].role # "result" => w.messages[i].id \in MessageIds \cup {NoId}
               /\ w.messages[i].role = "user" => w.messages[i].id \in UserIds \cup {NoId}
               /\ w.messages[i].role = "agent" => w.messages[i].id \in AgentIds \cup {NoId}
               /\ w.messages[i].role = "agent" /\ w.messages[i].id # NoId =>
                     w.slots[w.messages[i].id] = i
    <3>1. CASE i = N + 1
      BY <1>0, <1>2, <1>5, <3>1
    <3>2. CASE i # N + 1
      <4>1. i \in 1..N /\ w.messages[i] = v.messages[i]
        BY <1>0, <1>5, <3>2
      <4>2. /\ v.messages[i].role = "result" => v.messages[i].id \in Tools
            /\ v.messages[i].role # "result" => v.messages[i].id \in MessageIds \cup {NoId}
            /\ v.messages[i].role = "user" => v.messages[i].id \in UserIds \cup {NoId}
            /\ v.messages[i].role = "agent" => v.messages[i].id \in AgentIds \cup {NoId}
            /\ v.messages[i].role = "agent" /\ v.messages[i].id # NoId =>
                 v.slots[v.messages[i].id] = i
        BY <2>1, <4>1 DEF Slotted
      <4> QED BY <1>8, <4>1, <4>2
    <3> QED BY <3>1, <3>2
  <2>3. ASSUME NEW id \in AgentIds, w.slots[id] # 0
        PROVE  w.messages[w.slots[id]].role = "agent" /\ w.messages[w.slots[id]].id = id
    <3>1. /\ w.slots[id] = v.slots[id] /\ id \in MessageIds
      BY <1>8
    <3>2. /\ v.slots[id] \in 0..N
          /\ v.messages[v.slots[id]].role = "agent" /\ v.messages[v.slots[id]].id = id
      BY <2>1, <2>3, <3>1 DEF Slotted
    <3>3. v.slots[id] \in 1..N
      BY <1>0, <2>3, <3>1, <3>2
    <3> QED BY <1>5, <3>1, <3>2, <3>3
  <2>4. ASSUME NEW id \in MessageIds PROVE w.slots[id] \in 0..(N + 1)
    <3>1. v.slots[id] \in 0..N
      BY <2>1 DEF Slotted
    <3> QED BY <1>0, <1>8, <3>1
  <2> QED BY <1>5, <2>2, <2>3, <2>4 DEF Slotted
<1> QED BY <1>1, <1>3, <1>4, <1>6, <1>7 DEF Keeps, Whole, w

(* The draft of a new message becomes the last message.                    *)
LEMMA FlushNewKeeps ==
    ASSUME NEW v \in ViewOf, NEW s \in Seq(SaidOf), NEW C \in SUBSET Tools, Whole(v, s, C), v.agent.open,
           v.agent.slot = 0
    PROVE  /\ Keeps(v, FlushAgent(v), s, C)
           /\ ~FlushAgent(v).user.open /\ ~FlushAgent(v).agent.open
<1> DEFINE w == FlushAgent(v)
           m == Message("agent", v.agent.id, v.agent.parts)
           N == Len(v.messages)
<1>0. /\ N \in Nat /\ ~v.user.open /\ Drafted(v) /\ v.agent.id \in MessageIds \cup {NoId}
      /\ v.agent.id \in AgentIds \cup {NoId} /\ v.user.id \in UserIds \cup {NoId}
  BY ViewTyped DEF Whole, Drafted
<1>1. /\ w \in ViewOf /\ w.messages = Append(v.messages, m) /\ w.agent = Nothing /\ w.user = v.user
      /\ w.slots = IF v.agent.id = NoId THEN v.slots ELSE [v.slots EXCEPT ![v.agent.id] = N + 1]
      /\ w.tools = v.tools /\ w.order = v.order
  BY <1>0, FlushAgentFields
<1>2. Alike(m, At(v, 0)) /\ m \in MessageOf /\ m.role = "agent" /\ m.id = v.agent.id
  <2>1. v.agent.parts \in Seq(PartOf)
    BY ViewTyped
  <2>2. m \in MessageOf
    BY <1>0, <2>1, MessageTyped
  <2>3. m = At(v, 0)
    BY <1>0, AtFields
  <2> QED BY <2>2, <2>3, MessageFields DEF Alike
<1> HIDE DEF w, m
<1>3. ~w.user.open /\ ~w.agent.open
  BY <1>0, <1>1, NothingFields
<1>4. Chunked(w, s) /\ Called(w, C) /\ Resulted(w) /\ SameResults(v, w) /\ Grows(v, w)
  <2>1. m.role # "result" /\ ~(v.agent.open /\ v.agent.slot # 0)
    BY <1>2
  <2> QED BY <1>1, <1>2, <1>3, <2>1, DraftPlaced
<1>5. /\ Len(w.messages) = N + 1 /\ w.messages[N + 1] = m
      /\ \A i \in 1..N : w.messages[i] = v.messages[i]
  BY <1>1, <1>2, AddedAtEnd
<1>6. Drafted(w)
  BY <1>0, <1>1, <1>3, <1>5, NothingFields DEF Drafted
<1>7. /\ v.agent.id # NoId => v.slots[v.agent.id] = 0 /\ w.slots[v.agent.id] = N + 1
      /\ \A id \in MessageIds : id # v.agent.id => w.slots[id] = v.slots[id]
  BY <1>0, <1>1, ViewTyped DEF Drafted
<1>8. Slotted(w)
  <2>1. Slotted(v)
    BY DEF Whole
  <2>2. ASSUME NEW i \in 1..(N + 1)
        PROVE  /\ w.messages[i].role = "result" => w.messages[i].id \in Tools
               /\ w.messages[i].role # "result" => w.messages[i].id \in MessageIds \cup {NoId}
               /\ w.messages[i].role = "user" => w.messages[i].id \in UserIds \cup {NoId}
               /\ w.messages[i].role = "agent" => w.messages[i].id \in AgentIds \cup {NoId}
               /\ w.messages[i].role = "agent" /\ w.messages[i].id # NoId =>
                     w.slots[w.messages[i].id] = i
    <3>1. CASE i = N + 1
      BY <1>0, <1>2, <1>5, <1>7, <3>1
    <3>2. CASE i # N + 1
      <4>1. i \in 1..N /\ w.messages[i] = v.messages[i]
        BY <1>0, <1>5, <3>2
      <4>2. /\ v.messages[i].role = "result" => v.messages[i].id \in Tools
            /\ v.messages[i].role # "result" => v.messages[i].id \in MessageIds \cup {NoId}
            /\ v.messages[i].role = "user" => v.messages[i].id \in UserIds \cup {NoId}
            /\ v.messages[i].role = "agent" => v.messages[i].id \in AgentIds \cup {NoId}
            /\ v.messages[i].role = "agent" /\ v.messages[i].id # NoId =>
                 v.slots[v.messages[i].id] = i
        BY <2>1, <4>1 DEF Slotted
      <4>3. v.messages[i].role = "agent" /\ v.messages[i].id # NoId => v.messages[i].id # v.agent.id
        BY <1>0, <1>7, <4>1, <4>2
      <4> QED BY <1>7, <4>1, <4>2, <4>3
    <3> QED BY <3>1, <3>2
  <2>3. ASSUME NEW id \in AgentIds, w.slots[id] # 0
        PROVE  w.messages[w.slots[id]].role = "agent" /\ w.messages[w.slots[id]].id = id
    <3>1. CASE id = v.agent.id
      <4>1. w.slots[id] = N + 1
        BY <1>7, <3>1, TranscriptAssumption DEF AgentIds
      <4> QED BY <1>0, <1>2, <1>5, <3>1, <4>1
    <3>2. CASE id # v.agent.id
      <4>1. w.slots[id] = v.slots[id] /\ id \in MessageIds
        BY <1>7, <3>2 DEF AgentIds
      <4>2. /\ v.slots[id] \in 0..N
            /\ v.messages[v.slots[id]].role = "agent" /\ v.messages[v.slots[id]].id = id
        BY <2>1, <2>3, <4>1 DEF Slotted
      <4>3. v.slots[id] \in 1..N
        BY <1>0, <2>3, <4>1, <4>2
      <4> QED BY <1>5, <4>1, <4>2, <4>3
    <3> QED BY <3>1, <3>2
  <2>4. ASSUME NEW id \in MessageIds PROVE w.slots[id] \in 0..(N + 1)
    <3>1. v.slots[id] \in 0..N
      BY <2>1 DEF Slotted
    <3>2. CASE id = v.agent.id
      BY <1>0, <1>7, <3>2, TranscriptAssumption
    <3>3. CASE id # v.agent.id
      BY <1>0, <1>7, <3>1, <3>3
    <3> QED BY <3>2, <3>3
  <2> QED BY <1>5, <2>2, <2>3, <2>4 DEF Slotted
<1> QED BY <1>1, <1>3, <1>4, <1>6, <1>8 DEF Keeps, Whole, w

(* The draft of a message that was reopened goes back to its place.        *)
LEMMA FlushBackKeeps ==
    ASSUME NEW v \in ViewOf, NEW s \in Seq(SaidOf), NEW C \in SUBSET Tools, Whole(v, s, C), v.agent.open,
           v.agent.slot # 0
    PROVE  /\ Keeps(v, FlushAgent(v), s, C)
           /\ ~FlushAgent(v).user.open /\ ~FlushAgent(v).agent.open
<1> DEFINE w == FlushAgent(v)
           m == Message("agent", v.agent.id, v.agent.parts)
           N == Len(v.messages)
           z == v.agent.slot
<1>0. /\ N \in Nat /\ ~v.user.open /\ Drafted(v) /\ v.agent.id \in MessageIds \cup {NoId} /\ z \in 1..N
      /\ v.messages[z].role = "agent" /\ v.messages[z].id = v.agent.id
      /\ Leads(v.messages[z].parts, v.agent.parts)
  BY ViewTyped DEF Whole, Drafted
<1>1. /\ w \in ViewOf /\ w.messages = [v.messages EXCEPT ![z] = m] /\ w.agent = Nothing
      /\ w.user = v.user /\ w.slots = v.slots /\ w.tools = v.tools /\ w.order = v.order
  BY <1>0, FlushAgentFields
<1>2. m.role = "agent" /\ m.id = v.agent.id /\ m.parts = v.agent.parts
  BY MessageFields
<1>3. ~w.user.open /\ ~w.agent.open
  BY <1>0, <1>1, NothingFields
<1>4. At(v, z) = m /\ \A k \in 1..N : k # z => At(v, k) = v.messages[k]
  BY <1>0, AtFields
<1> HIDE DEF w, m, z
<1>5. /\ Len(w.messages) = N /\ w.messages[z] = m
      /\ \A i \in 1..N : i # z => w.messages[i] = v.messages[i]
  BY <1>0, <1>1, ViewTyped
<1>6. /\ \A k \in 1..N : At(w, k) = w.messages[k] /\ At(w, k) = At(v, k)
      /\ At(w, 0) = Message("none", NoId, <<>>) /\ At(v, 0) = Message("none", NoId, <<>>)
  <2>1. \A k \in 1..N : At(w, k) = w.messages[k]
    BY <1>1, <1>3, <1>5, AtFields
  <2>2. \A k \in 1..N : At(w, k) = At(v, k)
    BY <1>4, <1>5, <2>1
  <2>3. At(w, 0) = Message("none", NoId, <<>>)
    BY <1>1, <1>3, AtFields
  <2>4. At(v, 0) = Message("none", NoId, <<>>)
    BY <1>0, AtFields DEF z
  <2> QED BY <2>1, <2>2, <2>3, <2>4
<1>7. \A k \in 0..N : At(w, k) = At(v, k)
  BY <1>0, <1>6
<1>8. Chunked(w, s)
  <2>1. /\ \A k \in 0..N : \A j, n \in Nat :
              /\ Says(At(w, k), j, n) <=> Says(At(v, k), j, n)
              /\ Says(At(v, k), j, n) => At(w, k).role = At(v, k).role /\ At(w, k).id = At(v, k).id
        /\ \A k \in 0..Len(w.messages) : \A j, n \in Nat : Says(At(w, k), j, n) => k <= N
    BY <1>0, <1>5, <1>7
  <2> QED BY <1>0, <1>1, <1>5, <2>1, ChunksKept DEF Whole
<1>9. SameResults(v, w)
  <2>1. \A t \in Tools : \A i \in 1..N :
         /\ IsResult(w.messages[i], t) <=> IsResult(v.messages[i], t)
         /\ IsResult(v.messages[i], t) => w.messages[i] = v.messages[i]
    BY <1>0, <1>2, <1>5 DEF IsResult
  <2> QED BY <1>0, <1>1, <1>5, <2>1 DEF SameResults
<1>10. Resulted(w)
  BY <1>1, <1>9, ResultsKept DEF Whole
<1>11. Called(w, C)
  <2>1. \A t \in Tools : \A k \in 0..N :
          Calls(At(v, k), t) => \E l \in 0..Len(w.messages) : Calls(At(w, l), t)
    BY <1>5, <1>7
  <2>2. ASSUME NEW t \in Tools, NEW j \in 1..N, Calls(v.messages[j], t) PROVE Calls(w.messages[j], t)
    <3>1. CASE j = z
      <4>1. /\ v.messages[z].parts \in Seq(PartOf) /\ v.agent.parts \in Seq(PartOf)
            /\ Calls(Message("agent", NoId, v.messages[z].parts), t)
        <5>1. v.messages[z].parts \in Seq(PartOf) /\ v.agent.parts \in Seq(PartOf)
          BY <1>0, ViewTyped
        <5>2. \E i \in DOMAIN v.messages[z].parts : v.messages[z].parts[i] = <<"call", t>>
          BY <2>2, <3>1 DEF Calls
        <5> QED BY <5>1, <5>2 DEF Calls, Message
      <4>2. Calls(Message("agent", v.agent.id, v.agent.parts), t)
        BY <1>0, <4>1, CallsLead
      <4> QED BY <1>5, <3>1, <4>2 DEF m
    <3>2. CASE j # z
      BY <1>5, <2>2, <3>2
    <3> QED BY <3>1, <3>2
  <2> QED BY <1>1, <1>9, <2>1, <2>2, CallsKept DEF Whole
<1>12. Grows(v, w)
  <2>1. ASSUME NEW i \in 1..N
        PROVE  /\ w.messages[i].role = v.messages[i].role /\ w.messages[i].id = v.messages[i].id
               /\ Leads(v.messages[i].parts, w.messages[i].parts)
    <3>1. CASE i = z
      BY <1>0, <1>2, <1>5, <3>1
    <3>2. CASE i # z
      <4>1. v.messages[i].parts \in Seq(PartOf)
        BY ViewTyped
      <4> QED BY <1>5, <3>2, <4>1, LeadsItself
    <3> QED BY <3>1, <3>2
  <2> QED BY <1>0, <1>5, <2>1 DEF Grows
<1>13. Drafted(w)
  BY <1>0, <1>1, <1>3, <1>5, NothingFields DEF Drafted
<1>14. Slotted(w)
  <2>1. \A i \in 1..N : w.messages[i].role = v.messages[i].role /\ w.messages[i].id = v.messages[i].id
    BY <1>12 DEF Grows
  <2> QED BY <1>1, <1>5, <2>1 DEF Slotted, Whole
<1> QED BY <1>1, <1>3, <1>8, <1>9, <1>10, <1>11, <1>12, <1>13, <1>14 DEF Keeps, Whole, w

(* Only the parts count.                                                   *)
LEMMA SameParts ==
    ASSUME NEW m, NEW q, m.parts = q.parts
    PROVE  /\ \A j, n \in Nat : Says(m, j, n) <=> Says(q, j, n)
           /\ m.role = q.role => \A t : Calls(m, t) <=> Calls(q, t)
BY DEF Says, Calls

(* Steps one after the other.                                              *)
LEMMA GrowsItself == ASSUME NEW v \in ViewOf PROVE Grows(v, v)
BY ViewTyped, MessagesGrow

LEMMA GrowsOn ==
    ASSUME NEW u \in ViewOf, NEW v \in ViewOf, NEW w \in ViewOf, Grows(u, v), Grows(v, w)
    PROVE  Grows(u, w)
<1>0. Len(u.messages) \in Nat /\ Len(v.messages) \in Nat /\ Len(w.messages) \in Nat
  BY ViewTyped
<1>1. ASSUME NEW i \in 1..Len(u.messages), u.messages[i].role # "result"
      PROVE  Leads(u.messages[i].parts, w.messages[i].parts)
  <2>1. i \in 1..Len(v.messages) /\ i \in 1..Len(w.messages) /\ v.messages[i].role # "result"
    BY <1>0, <1>1 DEF Grows
  <2>2. /\ u.messages[i].parts \in Seq(PartOf) /\ v.messages[i].parts \in Seq(PartOf)
        /\ w.messages[i].parts \in Seq(PartOf)
    BY <2>1, ViewTyped
  <2>3. Leads(u.messages[i].parts, v.messages[i].parts) /\ Leads(v.messages[i].parts, w.messages[i].parts)
    BY <1>1, <2>1 DEF Grows
  <2> QED BY <2>2, <2>3, LeadsOn
<1> QED BY <1>0, <1>1 DEF Grows

LEMMA SameResultsOn ==
    ASSUME NEW u \in ViewOf, NEW v \in ViewOf, NEW w \in ViewOf, SameResults(u, v), SameResults(v, w)
    PROVE  SameResults(u, w)
<1>0. Len(u.messages) \in Nat /\ Len(v.messages) \in Nat /\ Len(w.messages) \in Nat
  BY ViewTyped
<1> QED BY <1>0 DEF SameResults

LEMMA KeepsItself ==
    ASSUME NEW v \in ViewOf, NEW s, NEW C, Whole(v, s, C)
    PROVE  Keeps(v, v, s, C)
<1>1. SameResults(v, v)
  BY ViewTyped DEF SameResults
<1> QED BY <1>1, GrowsItself DEF Keeps

LEMMA KeepsOn ==
    ASSUME NEW u \in ViewOf, NEW v, NEW w, NEW s, NEW C, NEW z, NEW D, Keeps(u, v, s, C), Keeps(v, w, z, D)
    PROVE  Keeps(u, w, z, D)
BY GrowsOn, SameResultsOn DEF Keeps, Whole

(* flushAssistant, whatever the draft.                                     *)
LEMMA FlushAgentKeeps ==
    ASSUME NEW v \in ViewOf, NEW s \in Seq(SaidOf), NEW C \in SUBSET Tools, Whole(v, s, C)
    PROVE  /\ Keeps(v, FlushAgent(v), s, C)
           /\ ~FlushAgent(v).agent.open /\ (FlushAgent(v).user.open <=> v.user.open)
           /\ FlushAgent(v).user = v.user
<1>1. CASE ~v.agent.open
  BY <1>1, KeepsItself DEF FlushAgent
<1>2. CASE v.agent.open
  <2>1. FlushAgent(v).user = v.user
    BY <1>2, FlushAgentFields DEF Whole
  <2> QED BY <1>2, <2>1, FlushNewKeeps, FlushBackKeeps
<1> QED BY <1>1, <1>2

(* A draft is opened: a new one, or that of a message that came back.      *)
Opens(u, d) ==
    \/ /\ d.slot = 0 /\ d.parts = <<>> /\ d.id \in AgentIds \cup {NoId}
       /\ d.id # NoId => u.slots[d.id] = 0
    \/ /\ d.slot # 0 /\ d.id \in AgentIds
       /\ u.slots[d.id] = d.slot /\ d.parts = u.messages[d.slot].parts

(* It shows what was shown before.                                         *)
LEMMA OpenKeeps ==
    ASSUME NEW u \in ViewOf, NEW s \in Seq(SaidOf), NEW C \in SUBSET Tools, Whole(u, s, C),
           ~u.user.open, ~u.agent.open, NEW d \in DraftOf, d.open, Opens(u, d),
           NEW w \in ViewOf, w.agent = d, w.user = u.user, w.messages = u.messages,
           w.slots = u.slots, w.tools = u.tools, w.order = u.order
    PROVE  Keeps(u, w, s, C)
<1> DEFINE N == Len(u.messages)
<1>0. N \in Nat /\ d.id \in MessageIds \cup {NoId} /\ d.slot \in Nat /\ d.parts \in Seq(PartOf)
  BY ViewTyped DEF DraftOf
<1>1. /\ w.messages = u.messages /\ w.agent = d /\ ~w.user.open /\ Len(w.messages) = N /\ N <= N
      /\ DOMAIN w.messages = DOMAIN u.messages
  BY <1>0
<1>2. ASSUME d.slot # 0
      PROVE  /\ d.slot \in 1..N /\ d.id \in MessageIds
             /\ u.messages[d.slot].role = "agent" /\ u.messages[d.slot].id = d.id
             /\ d.parts = u.messages[d.slot].parts
  <2>1. /\ d.id \in AgentIds /\ d.id \in MessageIds /\ u.slots[d.id] = d.slot
        /\ d.parts = u.messages[d.slot].parts
    BY <1>2 DEF Opens, AgentIds
  <2>2. /\ u.slots[d.id] \in 0..N
        /\ u.messages[u.slots[d.id]].role = "agent" /\ u.messages[u.slots[d.id]].id = d.id
    BY <1>2, <2>1 DEF Whole, Slotted
  <2> QED BY <1>0, <1>2, <2>1, <2>2
<1>3. \A k \in 0..N : /\ At(w, k).parts = At(u, k).parts
                      /\ k # 0 => At(w, k).role = At(u, k).role /\ At(w, k).id = At(u, k).id
  <2>1. ASSUME NEW k \in 1..N
        PROVE  /\ At(w, k).parts = At(u, k).parts
               /\ At(w, k).role = At(u, k).role /\ At(w, k).id = At(u, k).id
    <3>1. At(u, k) = u.messages[k]
      BY AtFields
    <3>2. CASE d.slot = k
      <4>1. At(w, k) = Message("agent", d.id, d.parts)
        BY <1>1, <3>2, AtFields
      <4> QED BY <1>0, <1>2, <3>1, <3>2, <4>1, MessageFields
    <3>3. CASE d.slot # k
      <4>1. At(w, k) = u.messages[k]
        BY <1>1, <3>3, AtFields
      <4> QED BY <3>1, <4>1
    <3> QED BY <3>2, <3>3
  <2>2. At(w, 0).parts = At(u, 0).parts
    <3>1. At(u, 0).parts = <<>>
      BY AtFields, MessageFields
    <3>2. CASE d.slot = 0
      <4>1. At(w, 0) = Message("agent", d.id, d.parts)
        BY <1>1, <3>2, AtFields
      <4> QED BY <3>1, <3>2, <4>1, MessageFields DEF Opens
    <3>3. CASE d.slot # 0
      <4>1. At(w, 0) = Message("none", NoId, <<>>)
        BY <1>1, <3>3, AtFields
      <4> QED BY <3>1, <4>1, MessageFields
    <3> QED BY <3>2, <3>3
  <2> QED BY <1>0, <2>1, <2>2
<1>4. \A j, n \in Nat : ~Says(At(u, 0), j, n)
  <2>1. At(u, 0) = Message("none", NoId, <<>>)
    BY AtFields
  <2> QED BY <2>1, NothingShown
<1>5. \A t : ~Calls(At(u, 0), t)
  <2>1. At(u, 0) = Message("none", NoId, <<>>)
    BY AtFields
  <2> QED BY <2>1, NothingCalls
<1>6. Chunked(w, s)
  <2>1. ASSUME NEW k \in 0..N, NEW j \in Nat, NEW n \in Nat
        PROVE  /\ Says(At(w, k), j, n) <=> Says(At(u, k), j, n)
               /\ Says(At(u, k), j, n) => At(w, k).role = At(u, k).role /\ At(w, k).id = At(u, k).id
    <3>1. Says(At(w, k), j, n) <=> Says(At(u, k), j, n)
      BY <1>3, SameParts
    <3> QED BY <1>3, <1>4, <3>1
  <2>2. \A k \in 0..Len(w.messages) : \A j, n \in Nat : Says(At(w, k), j, n) => k <= N
    BY <1>0, <1>1
  <2> QED BY <1>0, <1>1, <2>1, <2>2, ChunksKept DEF Whole
<1>7. SameResults(u, w)
  BY <1>0, <1>1 DEF SameResults
<1>8. Resulted(w)
  BY <1>1, <1>7, ResultsKept DEF Whole
<1>9. Called(w, C)
  <2>1. ASSUME NEW t \in Tools, NEW k \in 0..N, Calls(At(u, k), t)
        PROVE  \E l \in 0..Len(w.messages) : Calls(At(w, l), t)
    <3>1. k # 0
      BY <1>5, <2>1
    <3>2. Calls(At(w, k), t)
      BY <1>3, <2>1, <3>1, SameParts
    <3> QED BY <1>1, <3>2
  <2>2. \A t \in Tools : \A j \in 1..N : Calls(u.messages[j], t) => Calls(w.messages[j], t)
    BY <1>1
  <2> QED BY <1>1, <1>7, <2>1, <2>2, CallsKept DEF Whole
<1>10. Grows(u, w)
  BY <1>0, <1>1, MessagesGrow
<1>11. Drafted(w)
  <2>1. d.slot # 0 => Leads(w.messages[d.slot].parts, d.parts)
    BY <1>0, <1>1, <1>2, LeadsItself
  <2>2. /\ d.id \in AgentIds \cup {NoId} /\ (d.id # NoId => u.slots[d.id] = d.slot)
        /\ d.id = NoId => d.slot = 0
    BY TranscriptAssumption DEF Opens, AgentIds
  <2>3. u.user.id \in UserIds \cup {NoId} /\ u.user.slot = 0
    BY DEF Drafted, Whole
  <2> QED BY <1>0, <1>1, <1>2, <2>1, <2>2, <2>3 DEF Drafted
<1>12. Slotted(w)
  BY <1>1 DEF Slotted, Whole
<1> QED BY <1>1, <1>6, <1>7, <1>8, <1>9, <1>10, <1>11, <1>12 DEF Keeps, Whole

(* ensureAssistant.                                                        *)
LEMMA EnsureKeeps ==
    ASSUME NEW v \in ViewOf, NEW s \in Seq(SaidOf), NEW C \in SUBSET Tools, Whole(v, s, C),
           ~v.user.open, NEW id \in AgentIds \cup {NoId}
    PROVE  /\ Keeps(v, Ensure(v, id), s, C) /\ ~Ensure(v, id).user.open
           /\ Ensure(v, id).agent.open /\ Ensure(v, id).agent.id = id
<1> DEFINE u == FlushAgent(v)
           slot == IF id = NoId THEN 0 ELSE u.slots[id]
           back == slot > 0 /\ u.messages[slot].role = "agent"
           d == IF back THEN Draft(id, u.messages[slot].parts, slot) ELSE Draft(id, <<>>, 0)
           w == [u EXCEPT !.agent = d]
<1>1. CASE v.agent.open /\ v.agent.id = id
  <2>1. Ensure(v, id) = v
    BY <1>1 DEF Ensure
  <2> QED BY <1>1, <2>1, KeepsItself
<1>2. CASE ~(v.agent.open /\ v.agent.id = id)
  <2>1. Ensure(v, id) = w
    BY <1>2 DEF Ensure
  <2>2. /\ Keeps(v, u, s, C) /\ ~u.agent.open /\ ~u.user.open /\ u \in ViewOf /\ Whole(u, s, C)
    BY FlushAgentKeeps DEF Keeps, Whole
  <2> HIDE DEF u
  <2>3. /\ id # NoId => u.slots[id] \in 0..Len(u.messages)
        /\ id # NoId /\ u.slots[id] # 0 => u.messages[u.slots[id]].role = "agent"
    <3>1. id \in AgentIds => id \in MessageIds
      BY DEF AgentIds
    <3> QED BY <2>2, <3>1 DEF Whole, Slotted
  <2>4. slot \in 0..Len(u.messages) /\ (slot # 0 => id # NoId /\ back)
    BY <2>2, <2>3, ViewTyped
  <2>5. d \in DraftOf /\ d.open /\ d.id = id /\ Opens(u, d)
    <3>1. CASE back
      <4>1. /\ slot \in Nat /\ slot # 0 /\ slot \in 1..Len(u.messages)
            /\ u.messages[slot].parts \in Seq(PartOf) /\ d = Draft(id, u.messages[slot].parts, slot)
        BY <2>2, <2>4, <3>1, ViewTyped
      <4>2. id # NoId /\ u.slots[id] = slot
        BY <2>4, <4>1
      <4> HIDE DEF d, slot, back
      <4>3. id \in MessageIds \cup {NoId} /\ id \in AgentIds
        BY <4>2 DEF AgentIds
      <4> QED BY <4>1, <4>2, <4>3, DraftFields DEF Opens
    <3>2. CASE ~back
      <4>1. slot = 0 /\ <<>> \in Seq(PartOf) /\ d = Draft(id, <<>>, 0) /\ 0 \in Nat
        BY <2>4, <3>2
      <4>2. id # NoId => u.slots[id] = 0
        BY <4>1
      <4> HIDE DEF d, slot, back
      <4>3. d \in DraftOf /\ d.open /\ d.slot = 0 /\ d.id = id /\ d.parts = <<>>
        <5>1. /\ Draft(id, <<>>, 0) \in DraftOf /\ Draft(id, <<>>, 0).open
              /\ Draft(id, <<>>, 0).slot = 0
              /\ Draft(id, <<>>, 0).id = id /\ Draft(id, <<>>, 0).parts = <<>>
          BY <4>1 DEF Draft, DraftOf, AgentIds
        <5> QED BY <4>1, <5>1
      <4> QED BY <4>2, <4>3 DEF Opens
    <3> QED BY <3>1, <3>2
  <2> HIDE DEF d, slot, back
  <2>6. /\ w \in ViewOf /\ w.agent = d /\ w.user = u.user /\ w.messages = u.messages
        /\ w.slots = u.slots /\ w.tools = u.tools /\ w.order = u.order
    BY <2>2, <2>5 DEF ViewOf
  <2> HIDE DEF w
  <2>8. Keeps(u, w, s, C)
    BY <2>2, <2>5, <2>6, OpenKeeps
  <2>7. Keeps(v, w, s, C)
    BY <2>2, <2>8, KeepsOn
  <2> QED BY <2>1, <2>2, <2>5, <2>6, <2>7
<1> QED BY <1>1, <1>2

(* The parts, and what tells them apart.                                   *)
LEMMA SaidPart == ASSUME NEW n \in Nat PROVE <<"said", n>> \in PartOf
BY DEF PartOf

LEMMA CallPart == ASSUME NEW t \in Tools PROVE <<"call", t>> \in PartOf
BY DEF PartOf

LEMMA OnePart == ASSUME NEW e \in PartOf PROVE <<e>> = Append(<<>>, e) /\ <<>> \in Seq(PartOf)
OBVIOUS

LEMMA UnlikeParts ==
    ASSUME NEW n, NEW t
    PROVE  <<"said", n>> # <<"call", t>>
<1>1. <<"said", n>>[1] # <<"call", t>>[1]
  OBVIOUS
<1> QED BY <1>1

LEMMA SameNumber == ASSUME NEW n \in Nat, NEW m \in Nat, <<"said", n>> = <<"said", m>> PROVE n = m
<1>1. <<"said", n>>[2] = n /\ <<"said", m>>[2] = m
  OBVIOUS
<1> QED BY <1>1

(* The agent's draft has one part more, and nothing else changes.          *)
MorePart(u, w, e) ==
    /\ w.agent \in DraftOf /\ w.agent.open /\ w.agent.id = u.agent.id /\ w.agent.slot = u.agent.slot
    /\ w.agent.parts = Append(u.agent.parts, e)
    /\ w.user = u.user /\ w.messages = u.messages
    /\ w.slots = u.slots /\ w.tools = u.tools /\ w.order = u.order

(* The part is added to what is shown at the draft's place.                *)
LEMMA PartShown ==
    ASSUME NEW u \in ViewOf, Drafted(u), u.agent.open, NEW e \in PartOf, NEW w \in ViewOf, MorePart(u, w, e)
    PROVE  /\ u.agent.slot \in 0..Len(u.messages)
           /\ At(u, u.agent.slot) = Message("agent", u.agent.id, u.agent.parts)
           /\ At(w, u.agent.slot) = Message("agent", u.agent.id, Append(u.agent.parts, e))
           /\ \A l \in 0..Len(u.messages) : l # u.agent.slot => At(w, l) = At(u, l)
<1> DEFINE k == u.agent.slot
           N == Len(u.messages)
<1>0. N \in Nat /\ k \in 0..N /\ ~u.user.open
  BY ViewTyped DEF Drafted
<1>1. /\ w.agent.open /\ w.agent.slot = k /\ w.agent.id = u.agent.id
      /\ w.agent.parts = Append(u.agent.parts, e) /\ ~w.user.open /\ w.messages = u.messages
      /\ Len(w.messages) = N
  BY <1>0 DEF MorePart
<1>2. CASE k = 0
  <2>1. At(u, 0) = Message("agent", u.agent.id, u.agent.parts)
    BY <1>0, <1>2, AtFields
  <2>2. At(w, 0) = Message("agent", w.agent.id, w.agent.parts)
    BY <1>0, <1>1, <1>2, AtFields
  <2>3. ASSUME NEW l \in 0..N, l # 0 PROVE At(w, l) = At(u, l)
    <3>1. l \in 1..N /\ l \in 1..Len(w.messages)
      BY <1>0, <1>1, <2>3
    <3>2. At(u, l) = u.messages[l]
      BY <1>2, <3>1, <2>3, AtFields
    <3>3. At(w, l) = w.messages[l]
      BY <1>1, <1>2, <3>1, <2>3, AtFields
    <3> QED BY <1>1, <3>2, <3>3
  <2> QED BY <1>0, <1>1, <1>2, <2>1, <2>2, <2>3
<1>3. CASE k # 0
  <2>0. k \in 1..N /\ k \in 1..Len(w.messages)
    BY <1>0, <1>1, <1>3
  <2>1. At(u, k) = Message("agent", u.agent.id, u.agent.parts)
    BY <2>0, AtFields
  <2>2. At(w, k) = Message("agent", w.agent.id, w.agent.parts)
    BY <1>1, <2>0, AtFields
  <2>3. ASSUME NEW l \in 1..N, l # k PROVE At(w, l) = At(u, l)
    <3>1. l \in 1..Len(w.messages)
      BY <1>0, <1>1
    <3>2. At(u, l) = u.messages[l]
      BY <2>3, AtFields
    <3>3. At(w, l) = w.messages[l]
      BY <1>1, <3>1, <2>3, AtFields
    <3> QED BY <1>1, <3>2, <3>3
  <2>4. At(w, 0) = At(u, 0)
    <3>1. At(u, 0) = Message("none", NoId, <<>>)
      BY <1>0, <1>3, AtFields
    <3>2. At(w, 0) = Message("none", NoId, <<>>)
      BY <1>1, <1>3, AtFields
    <3> QED BY <3>1, <3>2
  <2>5. ASSUME NEW l \in 0..N, l # k PROVE At(w, l) = At(u, l)
    <3>1. l = 0 \/ l \in 1..N
      BY <1>0
    <3> QED BY <2>3, <2>4, <2>5, <3>1
  <2> QED BY <1>0, <1>1, <2>1, <2>2, <2>5
<1> QED BY <1>2, <1>3

(* Whatever the part, the drafts, the slots and the results stay in order. *)
LEMMA PartKeeps ==
    ASSUME NEW u \in ViewOf, NEW s \in Seq(SaidOf), NEW C \in SUBSET Tools, Whole(u, s, C), u.agent.open,
           NEW e \in PartOf, NEW w \in ViewOf, MorePart(u, w, e)
    PROVE  /\ Drafted(w) /\ Slotted(w) /\ Resulted(w) /\ Called(w, C)
           /\ Grows(u, w) /\ SameResults(u, w)
<1> DEFINE k == u.agent.slot
           N == Len(u.messages)
<1>0. /\ N \in Nat /\ k \in 0..N /\ ~u.user.open /\ u.agent.parts \in Seq(PartOf) /\ Drafted(u)
      /\ DOMAIN u.messages = 1..N /\ N <= N
  BY ViewTyped DEF Drafted, Whole
<1>1. /\ w.agent.open /\ w.agent.slot = k /\ w.agent.id = u.agent.id
      /\ w.agent.parts = Append(u.agent.parts, e) /\ w.user = u.user /\ w.messages = u.messages
      /\ Len(w.messages) = N /\ w.slots = u.slots /\ w.tools = u.tools /\ w.order = u.order
  BY DEF MorePart
<1>2. /\ At(u, k) = Message("agent", u.agent.id, u.agent.parts)
      /\ At(w, k) = Message("agent", u.agent.id, Append(u.agent.parts, e))
      /\ \A l \in 0..N : l # k => At(w, l) = At(u, l)
  BY <1>0, PartShown
<1>3. Drafted(w)
  <2>1. u.agent.slot > 0 => Leads(u.messages[u.agent.slot].parts, Append(u.agent.parts, e))
    <3>1. ASSUME u.agent.slot > 0 PROVE Leads(u.messages[u.agent.slot].parts, Append(u.agent.parts, e))
      <4>1. /\ u.messages[u.agent.slot].parts \in Seq(PartOf)
            /\ Leads(u.messages[u.agent.slot].parts, u.agent.parts)
        BY <1>0, <3>1, ViewTyped DEF Drafted
      <4> QED BY <1>0, <4>1, LeadsAppend
    <3> QED BY <3>1
  <2> QED BY <1>0, <1>1, <2>1 DEF Drafted
<1>4. Slotted(w)
  BY <1>1 DEF Slotted, Whole
<1>5. SameResults(u, w)
  BY <1>0, <1>1 DEF SameResults
<1>6. Resulted(w)
  BY <1>5, ResultsKept DEF Whole
<1>7. Grows(u, w)
  BY <1>0, <1>1, MessagesGrow
<1>8. Called(w, C)
  <2>1. ASSUME NEW t \in Tools, NEW l \in 0..N, Calls(At(u, l), t) PROVE Calls(At(w, l), t)
    <3>1. CASE l = k
      BY <1>0, <1>2, <2>1, <3>1, CallsMore
    <3>2. CASE l # k
      BY <1>2, <2>1, <3>2
    <3> QED BY <3>1, <3>2
  <2>2. \A t \in Tools : \A l \in 0..N :
          Calls(At(u, l), t) => \E h \in 0..Len(w.messages) : Calls(At(w, h), t)
    BY <1>1, <2>1
  <2>3. \A t \in Tools : \A j \in 1..N : Calls(u.messages[j], t) => Calls(w.messages[j], t)
    BY <1>1
  <2> QED BY <1>5, <2>2, <2>3, CallsKept DEF Whole
<1> QED BY <1>3, <1>4, <1>5, <1>6, <1>7, <1>8

(* The draft with one part more is a view again.                           *)
LEMMA PartTyped ==
    ASSUME NEW u \in ViewOf, u.agent.open, NEW e \in PartOf
    PROVE  LET w == [u EXCEPT !.agent.parts = Append(@, e)] IN w \in ViewOf /\ MorePart(u, w, e)
<1> DEFINE d == [u.agent EXCEPT !.parts = Append(u.agent.parts, e)]
           w == [u EXCEPT !.agent = d]
<1>1. [u EXCEPT !.agent.parts = Append(@, e)] = w
  BY DEF ViewOf
<1>2. u.agent \in DraftOf /\ u.agent.parts \in Seq(PartOf)
  BY ViewTyped
<1>3. Append(u.agent.parts, e) \in Seq(PartOf)
  BY <1>2
<1>4. /\ d \in DraftOf /\ d.open /\ d.id = u.agent.id /\ d.slot = u.agent.slot
      /\ d.parts = Append(u.agent.parts, e)
  BY <1>2, <1>3 DEF DraftOf
<1> HIDE DEF d
<1>5. w \in ViewOf
  BY <1>4 DEF ViewOf
<1>6. /\ w.agent = d /\ w.user = u.user /\ w.messages = u.messages
      /\ w.slots = u.slots /\ w.tools = u.tools /\ w.order = u.order
  BY DEF ViewOf
<1> HIDE DEF w
<1>7. MorePart(u, w, e)
  BY <1>4, <1>6 DEF MorePart
<1> QED BY <1>1, <1>5, <1>7

(* A chunk of the agent's, whose draft is open under its id.               *)
LEMMA SayKeeps ==
    ASSUME NEW v \in ViewOf, NEW s \in Seq(SaidOf), NEW C \in SUBSET Tools, Whole(v, s, C), ~v.user.open,
           NEW id \in AgentIds \cup {NoId}, NEW x \in SaidOf, x.kind = "agent", x.id = id
    PROVE  Keeps(v, Say(v, id, <<"said", Len(s) + 1>>), Append(s, x), C)
<1> DEFINE u == Ensure(v, id)
           e == <<"said", Len(s) + 1>>
           w == [u EXCEPT !.agent.parts = Append(@, e)]
           N == Len(u.messages)
           k == u.agent.slot
           a == u.agent.parts
<1>1. Say(v, id, e) = w
  BY DEF Say
<1>2. Keeps(v, u, s, C) /\ ~u.user.open /\ u.agent.open /\ u.agent.id = id
  BY EnsureKeeps
<1> HIDE DEF u
<1>3. u \in ViewOf /\ Whole(u, s, C) /\ Drafted(u)
  BY <1>2 DEF Keeps, Whole
<1>4. e \in PartOf /\ Len(s) + 1 \in Nat
  BY SaidPart
<1>5. w \in ViewOf /\ MorePart(u, w, e)
  BY <1>2, <1>3, <1>4, PartTyped
<1> HIDE DEF w, e
<1>6. /\ Drafted(w) /\ Slotted(w) /\ Resulted(w) /\ Called(w, C)
      /\ Grows(u, w) /\ SameResults(u, w)
  BY <1>2, <1>3, <1>4, <1>5, PartKeeps
<1>7. /\ k \in 0..N /\ a \in Seq(PartOf)
      /\ At(u, k) = Message("agent", id, a) /\ At(w, k) = Message("agent", id, Append(a, e))
      /\ \A l \in 0..N : l # k => At(w, l) = At(u, l)
  BY <1>2, <1>3, <1>4, <1>5, PartShown, ViewTyped
<1> HIDE DEF k, a
<1>8. Chunked(w, Append(s, x))
  <2>1. Len(w.messages) = N /\ Len(a) \in Nat
    BY <1>5, <1>7 DEF MorePart
  <2>2. /\ At(w, k).role = "agent" /\ At(w, k).id = id
        /\ At(u, k).role = "agent" /\ At(u, k).id = id
    BY <1>7, MessageFields
  <2>3. ASSUME NEW j \in Nat, NEW n \in Nat, Says(At(u, k), j, n) PROVE j < Len(a) + 1
    <3>1. j \in 1..Len(a)
      BY <1>7, <2>3, SaysWithin
    <3> QED BY <2>1, <3>1
  <2>4. ASSUME NEW j \in Nat, NEW n \in Nat
        PROVE  Says(At(w, k), j, n) <=>
                 \/ Says(At(u, k), j, n)
                 \/ j = Len(a) + 1 /\ n = Len(s) + 1
    <3>1. Says(At(w, k), j, n) <=>
            \/ Says(At(u, k), j, n)
            \/ j = Len(a) + 1 /\ e = <<"said", n>>
      BY <1>4, <1>7, SaysMore
    <3>2. e = <<"said", n>> <=> n = Len(s) + 1
      BY <1>4, SameNumber DEF e
    <3> QED BY <3>1, <3>2
  <2>5. Chunked(u, s) /\ Len(a) + 1 \in Nat
    BY <1>3, <2>1 DEF Whole
  <2> DEFINE p == Len(a) + 1
  <2>6. /\ p \in Nat
        /\ \A j, n \in Nat : Says(At(u, k), j, n) => j < p
        /\ \A j, n \in Nat :
               Says(At(w, k), j, n) <=> Says(At(u, k), j, n) \/ (j = p /\ n = Len(s) + 1)
    BY <2>3, <2>4, <2>5
  <2> HIDE DEF p
  <2>7. /\ At(w, k).role = x.kind /\ (x.kind = "agent" => At(w, k).id = x.id)
        /\ At(w, k).role = At(u, k).role /\ At(w, k).id = At(u, k).id
    BY <2>2
  <2>8. AddsChunk(u, w, s, x, k, p)
    BY <1>7, <2>1, <2>6, <2>7 DEF AddsChunk
  <2> QED BY <1>3, <1>5, <2>5, <2>6, <2>8, ChunkAdded
<1>9. Keeps(u, w, Append(s, x), C)
  BY <1>5, <1>6, <1>8 DEF Keeps, Whole
<1>10. Keeps(v, w, Append(s, x), C)
  BY <1>2, <1>9, KeepsOn
<1> QED BY <1>1, <1>10 DEF e

(* The call is shown in the agent's message.                               *)
LEMMA ShowCallKeeps ==
    ASSUME NEW v \in ViewOf, NEW s \in Seq(SaidOf), NEW C \in SUBSET Tools, Whole(v, s, C), ~v.user.open,
           NEW t \in Tools
    PROVE  /\ Keeps(v, ShowCall(v, t), s, C)
           /\ \E k \in 0..Len(ShowCall(v, t).messages) : Calls(At(ShowCall(v, t), k), t)
           /\ ~ShowCall(v, t).user.open
<1> DEFINE u == Ensure(v, NoId)
           e == <<"call", t>>
           w == [u EXCEPT !.agent.parts = Append(@, e)]
           N == Len(u.messages)
           k == u.agent.slot
           a == u.agent.parts
<1>2. Keeps(v, u, s, C) /\ ~u.user.open /\ u.agent.open /\ u.agent.id = NoId
  BY EnsureKeeps
<1> HIDE DEF u
<1>3. u \in ViewOf /\ Whole(u, s, C) /\ Drafted(u)
  BY <1>2 DEF Keeps, Whole
<1>4. e \in PartOf
  BY CallPart
<1>5. w \in ViewOf /\ MorePart(u, w, e)
  BY <1>2, <1>3, <1>4, PartTyped
<1>7. /\ k \in 0..N /\ a \in Seq(PartOf)
      /\ At(u, k) = Message("agent", NoId, a) /\ At(w, k) = Message("agent", NoId, Append(a, e))
      /\ \A l \in 0..N : l # k => At(w, l) = At(u, l)
  <2> HIDE DEF w, e
  <2> QED BY <1>2, <1>3, <1>4, <1>5, PartShown, ViewTyped
<1>8. CASE e \in ToSet(a)
  <2>1. ShowCall(v, t) = u
    BY <1>8 DEF ShowCall, u
  <2>2. Calls(At(u, k), t)
    <3>1. PICK j \in DOMAIN a : a[j] = e
      BY <1>8 DEF ToSet
    <3> HIDE DEF k, a
    <3> QED BY <1>7, <3>1 DEF Calls, Message
  <2> QED BY <1>2, <1>7, <2>1, <2>2
<1>9. CASE e \notin ToSet(a)
  <2>1. ShowCall(v, t) = w
    BY <1>9 DEF ShowCall, u
  <2> HIDE DEF w, e
  <2>2. /\ Drafted(w) /\ Slotted(w) /\ Resulted(w) /\ Called(w, C)
        /\ Grows(u, w) /\ SameResults(u, w) /\ Len(w.messages) = N /\ ~w.user.open
    BY <1>2, <1>3, <1>4, <1>5, PartKeeps DEF MorePart
  <2> HIDE DEF k, a
  <2>3. Calls(At(w, k), t)
    BY <1>4, <1>7, CallsMore DEF e
  <2>4. Chunked(w, s)
    <3>1. ASSUME NEW l \in 0..N, NEW j \in Nat, NEW n \in Nat
          PROVE  /\ Says(At(w, l), j, n) <=> Says(At(u, l), j, n)
                 /\ At(w, l).role = At(u, l).role /\ At(w, l).id = At(u, l).id
      <4>1. CASE l = k
        <5>1. Says(At(w, l), j, n) <=>
                \/ Says(At(u, l), j, n)
                \/ j = Len(a) + 1 /\ e = <<"said", n>>
          BY <1>4, <1>7, <4>1, SaysMore
        <5>2. e # <<"said", n>>
          BY UnlikeParts DEF e
        <5> QED BY <1>7, <4>1, <5>1, <5>2, MessageFields
      <4>2. CASE l # k
        BY <1>7, <4>2
      <4> QED BY <4>1, <4>2
    <3>2. /\ \A l \in 0..Len(w.messages) : \A j, n \in Nat : Says(At(w, l), j, n) => l <= N
          /\ N <= Len(w.messages) /\ Chunked(u, s)
      BY <1>3, <2>2, ViewTyped DEF Whole
    <3> QED BY <1>3, <1>5, <3>1, <3>2, ChunksKept
  <2>5. Keeps(u, w, s, C)
    BY <1>5, <2>2, <2>4 DEF Keeps, Whole
  <2>6. Keeps(v, w, s, C)
    BY <1>2, <2>5, KeepsOn
  <2> QED BY <1>7, <2>1, <2>2, <2>3, <2>6
<1> QED BY <1>8, <1>9

(* A call that is shown and has no result yet counts as called.            *)
LEMMA CalledMore ==
    ASSUME NEW v \in ViewOf, NEW s, NEW C \in SUBSET Tools, Whole(v, s, C), NEW t \in Tools,
           ~v.tools[t].told, \E k \in 0..Len(v.messages) : Calls(At(v, k), t)
    PROVE  Whole(v, s, C \cup {t})
<1>1. \A i \in 1..Len(v.messages) : ~IsResult(v.messages[i], t)
  BY DEF Whole, Resulted
<1>2. Called(v, C \cup {t})
  BY <1>1 DEF Called, Whole
<1> QED BY <1>2 DEF Whole

(* A call that has been shown already stays called.                        *)
LEMMA CalledLess ==
    ASSUME NEW v \in ViewOf, NEW s, NEW C, NEW D, Whole(v, s, C), D \subseteq C
    PROVE  Whole(v, s, D)
BY DEF Whole, Called

(* The user's draft is new or has one part more.                           *)
LEMMA UserAdded ==
    ASSUME NEW u \in ViewOf, NEW s \in Seq(SaidOf), NEW C \in SUBSET Tools, Whole(u, s, C), ~u.agent.open,
           NEW a \in Seq(PartOf), a = IF u.user.open THEN u.user.parts ELSE <<>>,
           NEW x \in SaidOf, x.kind = "user", NEW id \in UserIds \cup {NoId},
           NEW w \in ViewOf, w.user = Draft(id, Append(a, <<"said", Len(s) + 1>>), 0),
           w.agent = u.agent, w.messages = u.messages,
           w.slots = u.slots, w.tools = u.tools, w.order = u.order
    PROVE  Keeps(u, w, Append(s, x), C)
<1> DEFINE e == <<"said", Len(s) + 1>>
           N == Len(u.messages)
           p == Len(a) + 1
<1>0. N \in Nat /\ N <= N /\ p \in Nat /\ e \in PartOf /\ Len(s) + 1 \in Nat
  BY ViewTyped, SaidPart
<1>1. w.user.open /\ w.user.parts = Append(a, e) /\ w.user.slot = 0 /\ w.user.id = id
  <2>1. Append(a, e) \in Seq(PartOf) /\ 0 \in Nat
    BY <1>0
  <2>2. w.user = Draft(id, Append(a, e), 0)
    OBVIOUS
  <2> HIDE DEF e
  <2>3. ASSUME NEW b \in Seq(PartOf)
        PROVE  /\ Draft(id, b, 0).open /\ Draft(id, b, 0).parts = b
               /\ Draft(id, b, 0).slot = 0 /\ Draft(id, b, 0).id = id
    BY DEF Draft
  <2> QED BY <2>1, <2>2, <2>3
<1>2. At(w, 0) = Message("user", NoId, Append(a, e)) /\ \A k \in 1..N : At(w, k) = At(u, k)
  <2>1. At(w, 0) = Message("user", NoId, Append(a, e))
    BY <1>1, AtFields
  <2>2. \A k \in 1..N : At(w, k) = w.messages[k] /\ At(u, k) = u.messages[k]
    BY AtFields
  <2> QED BY <2>1, <2>2
<1>3. /\ At(u, 0).parts = a
      /\ \A j, n \in Nat : Says(At(u, 0), j, n) => At(u, 0).role = "user" /\ At(u, 0).id = NoId
      /\ \A t : ~Calls(At(u, 0), t)
  <2>1. CASE u.user.open
    <3>1. At(u, 0) = Message("user", NoId, a)
      BY <2>1, AtFields
    <3> QED BY <3>1, MessageFields DEF Calls
  <2>2. CASE ~u.user.open
    <3>1. At(u, 0) = Message("none", NoId, <<>>) /\ a = <<>>
      BY <2>2, AtFields
    <3> QED BY <3>1, MessageFields, NothingShown, NothingCalls
  <2> QED BY <2>1, <2>2
<1>4. \A j, n \in Nat : Says(At(u, 0), j, n) <=> Says(Message("user", NoId, a), j, n)
  BY <1>3, SameParts, MessageFields
<1> HIDE DEF e
<1>5. Chunked(w, Append(s, x))
  <2>1. ASSUME NEW j \in Nat, NEW n \in Nat, Says(At(u, 0), j, n) PROVE j < p
    <3>1. j \in 1..Len(a)
      BY <1>4, <2>1, SaysWithin
    <3> QED BY <3>1
  <2>2. ASSUME NEW j \in Nat, NEW n \in Nat
        PROVE  Says(At(w, 0), j, n) <=> Says(At(u, 0), j, n) \/ (j = p /\ n = Len(s) + 1)
    <3>1. Says(At(w, 0), j, n) <=>
            \/ Says(At(u, 0), j, n)
            \/ j = p /\ e = <<"said", n>>
      <4>1. Says(Message("user", NoId, Append(a, e)), j, n) <=>
              \/ Says(Message("user", NoId, a), j, n)
              \/ j = Len(a) + 1 /\ e = <<"said", n>>
        BY <1>0, SaysMore
      <4>2. Says(At(u, 0), j, n) <=> Says(Message("user", NoId, a), j, n)
        BY <1>4
      <4> QED BY <1>2, <4>1, <4>2
    <3>2. e = <<"said", n>> <=> n = Len(s) + 1
      BY <1>0, SameNumber DEF e
    <3> QED BY <3>1, <3>2
  <2>3. /\ 0 \in 0..N /\ At(w, 0).role = "user" /\ At(w, 0).id = NoId /\ Chunked(u, s)
        /\ Len(w.messages) = Len(u.messages)
        /\ \A l \in 0..N : l # 0 => At(w, l) = At(u, l)
    BY <1>0, <1>2, MessageFields DEF Whole
  <2>4. /\ At(w, 0).role = x.kind /\ (x.kind = "agent" => At(w, 0).id = x.id)
        /\ \A j, n \in Nat : Says(At(u, 0), j, n) =>
               At(w, 0).role = At(u, 0).role /\ At(w, 0).id = At(u, 0).id
        /\ \A j, n \in Nat : Says(At(u, 0), j, n) => j < p
        /\ \A j, n \in Nat :
               Says(At(w, 0), j, n) <=> Says(At(u, 0), j, n) \/ (j = p /\ n = Len(s) + 1)
    BY <1>3, <2>1, <2>2, <2>3
  <2> HIDE DEF p
  <2>5. AddsChunk(u, w, s, x, 0, p)
    BY <2>3, <2>4 DEF AddsChunk
  <2> QED BY <1>0, <2>3, <2>5, ChunkAdded
<1>6. SameResults(u, w)
  BY <1>0, ViewTyped DEF SameResults
<1>7. Resulted(w)
  BY <1>6, ResultsKept DEF Whole
<1>8. Grows(u, w)
  BY <1>0, MessagesGrow
<1>9. Called(w, C)
  <2>1. ASSUME NEW t \in Tools, NEW k \in 0..N, Calls(At(u, k), t)
        PROVE  \E l \in 0..Len(w.messages) : Calls(At(w, l), t)
    <3>1. k \in 1..N
      BY <1>0, <1>3, <2>1
    <3> QED BY <1>2, <2>1, <3>1
  <2> QED BY <1>6, <2>1, CallsKept DEF Whole
<1>10. Drafted(w) /\ Slotted(w)
  BY <1>1 DEF Drafted, Slotted, Whole
<1> QED BY <1>5, <1>6, <1>7, <1>8, <1>9, <1>10 DEF Keeps, Whole

(* What is shown depends on the messages and the drafts.                   *)
LEMMA SameShown ==
    ASSUME NEW v, NEW w, w.messages = v.messages, w.user = v.user, w.agent = v.agent, NEW k
    PROVE  At(w, k) = At(v, k)
BY DEF At

(* A result is a message of a call, and says and calls nothing.            *)
LEMMA OutcomeFields ==
    ASSUME NEW v \in ViewOf, NEW t \in Tools
    PROVE  /\ Outcome(v, t) \in MessageOf /\ Outcome(v, t).role = "result" /\ Outcome(v, t).id = t
           /\ \A j, n \in Nat : ~Says(Outcome(v, t), j, n)
           /\ \A r : ~Calls(Outcome(v, t), r)
<1> DEFINE c == v.tools[t].content
           a == <<<<"content", c>>>>
<1>1. v.tools[t] \in ToolOf /\ MaxUpdates \in Nat
  BY ViewTyped, TranscriptAssumption
<1>2. c \in Nat
  BY <1>1 DEF ToolOf
<1>3. <<"content", c>> \in PartOf
  BY <1>2 DEF PartOf
<1>4. a \in Seq(PartOf)
  BY <1>3
<1>5. Outcome(v, t) = Message("result", t, a)
  BY DEF Outcome
<1>6. Message("result", t, a) \in MessageOf
  BY <1>4, MessageTyped
<1>7. ASSUME NEW j \in Nat, NEW n \in Nat, Says(Message("result", t, a), j, n) PROVE FALSE
  <2>1. j \in DOMAIN a /\ a[j] = <<"said", n>>
    BY <1>7 DEF Says, Message
  <2>2. <<"content", c>> = <<"said", n>>
    BY <2>1
  <2>3. <<"content", c>>[1] # <<"said", n>>[1]
    OBVIOUS
  <2> QED BY <2>2, <2>3
<1> QED BY <1>5, <1>6, <1>7, MessageFields DEF Calls

(* What is on record of a call changes.                                    *)
Tools1(v, w, t, r) ==
    /\ w.tools = [v.tools EXCEPT ![t] = r]
    /\ w.order = IF v.tools[t].known THEN v.order ELSE Append(v.order, t)
    /\ w.user = v.user /\ w.agent = v.agent /\ w.messages = v.messages /\ w.slots = v.slots

(* Then the result of that call may be behind, and nothing else changes.   *)
LEMMA ToolChanges ==
    ASSUME NEW v \in ViewOf, NEW s \in Seq(SaidOf), NEW C \in SUBSET Tools, Whole(v, s, C),
           NEW t \in Tools, NEW r \in ToolOf, r.known, r.told = v.tools[t].told,
           NEW w \in ViewOf, Tools1(v, w, t, r)
    PROVE  /\ Whole(w, s, C) /\ Grows(v, w)
           /\ \A T \in SUBSET Tools : Exact(v, T) => Exact(w, T \ {t})
           /\ r.content = v.tools[t].content /\ Exact(v, {t}) => Exact(w, {t})
<1> USE DEF Tools1
<1>0. /\ w.tools[t] = r /\ \A x \in Tools \ {t} : w.tools[x] = v.tools[x]
      /\ Len(w.messages) = Len(v.messages) /\ Len(v.messages) \in Nat
  BY ViewTyped
<1>1. \A k : At(w, k) = At(v, k)
  BY SameShown
<1>2. Chunked(w, s)
  <2>1. /\ \A k \in 0..Len(v.messages) : \A j, n \in Nat :
              /\ Says(At(w, k), j, n) <=> Says(At(v, k), j, n)
              /\ Says(At(v, k), j, n) => At(w, k).role = At(v, k).role /\ At(w, k).id = At(v, k).id
        /\ \A k \in 0..Len(w.messages) : \A j, n \in Nat : Says(At(w, k), j, n) => k <= Len(v.messages)
        /\ Len(v.messages) <= Len(w.messages)
    BY <1>0, <1>1
  <2> QED BY <2>1, ChunksKept DEF Whole
<1>3. Called(w, C)
  BY <1>0, <1>1 DEF Called, Whole
<1>4. Resulted(w)
  <2>1. \A x \in Tools : w.tools[x].told = v.tools[x].told
    BY <1>0
  <2>2. \A i, j \in 1..Len(w.messages) : \A x \in Tools :
         IsResult(w.messages[i], x) /\ IsResult(w.messages[j], x) => i = j
    BY DEF Resulted, Whole
  <2>3. \A x \in Tools : w.tools[x].told <=> \E i \in 1..Len(w.messages) : IsResult(w.messages[i], x)
    BY <2>1 DEF Resulted, Whole
  <2>4. \A x \in Tools : w.tools[x].told => w.tools[x].known
    BY <1>0, <2>1 DEF Resulted, Whole
  <2>5. ASSUME NEW x \in Tools PROVE w.tools[x].known <=> \E i \in 1..Len(w.order) : w.order[i] = x
    <3>0. v.tools[x].known <=> \E i \in 1..Len(v.order) : v.order[i] = x
      BY DEF Resulted, Whole
    <3>1. CASE v.tools[t].known
      BY <1>0, <3>0, <3>1
    <3>2. CASE ~v.tools[t].known
      <4>1. /\ Len(w.order) = Len(v.order) + 1 /\ w.order[Len(v.order) + 1] = t
            /\ \A i \in 1..Len(v.order) : w.order[i] = v.order[i]
            /\ Len(v.order) \in Nat
        BY <3>2, ViewTyped
      <4>2. CASE x = t
        BY <1>0, <4>1, <4>2
      <4>3. CASE x # t
        <5>1. w.tools[x].known <=> v.tools[x].known
          BY <1>0, <4>3
        <5>2. (\E i \in 1..Len(w.order) : w.order[i] = x) <=> \E i \in 1..Len(v.order) : v.order[i] = x
          BY <4>1, <4>3
        <5> QED BY <3>0, <5>1, <5>2
      <4> QED BY <4>2, <4>3
    <3> QED BY <3>1, <3>2
  <2>6. \A x \in Tools : \A i \in 1..Len(w.messages) : IsResult(w.messages[i], x) =>
          \A j, n \in Nat : ~Says(w.messages[i], j, n)
    BY DEF Resulted, Whole
  <2> QED BY <2>2, <2>3, <2>4, <2>5, <2>6 DEF Resulted
<1>5. Drafted(w) /\ Slotted(w)
  BY DEF Drafted, Slotted, Whole
<1>6. Grows(v, w)
  BY <1>0, MessagesGrow
<1>7. ASSUME NEW T \in SUBSET Tools, Exact(v, T) PROVE Exact(w, T \ {t})
  <2>1. w.messages = v.messages
    OBVIOUS
  <2>2. ASSUME NEW x \in T \ {t} PROVE Outcome(w, x) = Outcome(v, x)
    <3>1. w.tools[x] = v.tools[x]
      BY <1>0
    <3> QED BY <3>1 DEF Outcome
  <2> QED BY <1>7, <2>1, <2>2 DEF Exact
<1>8. ASSUME r.content = v.tools[t].content, Exact(v, {t}) PROVE Exact(w, {t})
  <2>1. w.messages = v.messages
    OBVIOUS
  <2>2. w.tools[t].content = v.tools[t].content
    BY <1>0, <1>8
  <2>3. Outcome(w, t) = Outcome(v, t)
    BY <2>2 DEF Outcome
  <2> QED BY <1>8, <2>1, <2>3 DEF Exact
<1> QED BY <1>2, <1>3, <1>4, <1>5, <1>6, <1>7, <1>8 DEF Whole

(* A call has its result, and it is up to date.                            *)
Told(v, w, s, C, t) ==
    /\ Whole(w, s, C) /\ Grows(v, w) /\ w.order = v.order /\ w.tools[t].told
    /\ w.tools[t].known = v.tools[t].known
    /\ \A x \in Tools \ {t} : w.tools[x] = v.tools[x]
    /\ \A T \in SUBSET Tools : Exact(v, T) => Exact(w, T \cup {t})

(* What the result says is brought up to date.                             *)
LEMMA RefreshTells ==
    ASSUME NEW v \in ViewOf, NEW s \in Seq(SaidOf), NEW C \in SUBSET Tools, Whole(v, s, C),
           NEW t \in Tools, v.tools[t].told
    PROVE  Told(v, Refresh(v, t), s, C, t)
<1> DEFINE N == Len(v.messages)
           ms == [i \in 1..N |-> IF v.messages[i].role = "result" /\ v.messages[i].id = t
                                 THEN Outcome(v, t) ELSE v.messages[i]]
           w == [v EXCEPT !.messages = ms]
<1>0. N \in Nat /\ N <= N
  BY ViewTyped
<1>1. Refresh(v, t) = w
  BY DEF Refresh, ViewOf
<1>2. ms \in Seq(MessageOf) /\ Len(ms) = N
  <2>1. \A i \in 1..N : ms[i] \in MessageOf
    BY ViewTyped, OutcomeFields
  <2>2. ms \in [1..N -> MessageOf]
    BY <2>1
  <2> HIDE DEF ms
  <2> QED BY <1>0, <2>2
<1>3. \A i \in 1..N : /\ IsResult(v.messages[i], t) => ms[i] = Outcome(v, t)
                      /\ ~IsResult(v.messages[i], t) => ms[i] = v.messages[i]
  BY DEF IsResult
<1> HIDE DEF ms
<1>4. /\ w \in ViewOf /\ w.messages = ms /\ w.user = v.user /\ w.agent = v.agent
      /\ w.slots = v.slots /\ w.tools = v.tools /\ w.order = v.order
  BY <1>2 DEF ViewOf
<1> HIDE DEF w
<1>5. \A i \in 1..N : /\ w.messages[i].role = v.messages[i].role /\ w.messages[i].id = v.messages[i].id
                      /\ v.messages[i].role # "result" => w.messages[i] = v.messages[i]
  BY <1>3, <1>4, OutcomeFields DEF IsResult
<1>6. Drafted(v) /\ Slotted(v) /\ Chunked(v, s) /\ Resulted(v) /\ Called(v, C)
  BY DEF Whole
<1>7. Drafted(w)
  <2>1. ASSUME v.agent.open, v.agent.slot > 0
        PROVE  /\ w.messages[v.agent.slot].role = "agent" /\ w.messages[v.agent.slot].id = v.agent.id
               /\ Leads(w.messages[v.agent.slot].parts, v.agent.parts)
    <3>1. /\ v.messages[v.agent.slot].role = "agent" /\ v.messages[v.agent.slot].id = v.agent.id
          /\ Leads(v.messages[v.agent.slot].parts, v.agent.parts) /\ v.agent.slot \in 0..N
      BY <1>6, <2>1 DEF Drafted
    <3>2. v.agent.slot \in 1..N
      BY <1>0, <2>1, <3>1
    <3>3. w.messages[v.agent.slot] = v.messages[v.agent.slot]
      BY <1>5, <3>1, <3>2
    <3> QED BY <3>1, <3>3
  <2>2. Len(w.messages) = N
    BY <1>2, <1>4
  <2> QED BY <1>4, <1>6, <2>1, <2>2 DEF Drafted
<1>8. Slotted(w)
  <2>0. Slotted(v) /\ w.slots = v.slots /\ Len(w.messages) = N
    BY <1>2, <1>4, <1>6
  <2>1. ASSUME NEW i \in 1..N
        PROVE  /\ w.messages[i].role = "result" => w.messages[i].id \in Tools
               /\ w.messages[i].role # "result" => w.messages[i].id \in MessageIds \cup {NoId}
               /\ w.messages[i].role = "user" => w.messages[i].id \in UserIds \cup {NoId}
               /\ w.messages[i].role = "agent" => w.messages[i].id \in AgentIds \cup {NoId}
               /\ w.messages[i].role = "agent" /\ w.messages[i].id # NoId => w.slots[w.messages[i].id] = i
    BY <1>5, <2>0 DEF Slotted
  <2>2. \A id \in MessageIds : w.slots[id] \in 0..N
    BY <2>0 DEF Slotted
  <2>3. ASSUME NEW id \in AgentIds, w.slots[id] # 0
        PROVE  w.messages[w.slots[id]].role = "agent" /\ w.messages[w.slots[id]].id = id
    <3>1. /\ v.slots[id] \in 0..N /\ v.slots[id] # 0
          /\ v.messages[v.slots[id]].role = "agent" /\ v.messages[v.slots[id]].id = id
      BY <2>0, <2>3 DEF Slotted, AgentIds
    <3>2. v.slots[id] \in 1..N
      BY <1>0, <3>1
    <3> QED BY <1>5, <2>0, <3>1, <3>2
  <2> QED BY <2>0, <2>1, <2>2, <2>3 DEF Slotted
<1>9. ASSUME NEW k \in 0..N
      PROVE  \/ At(w, k) = At(v, k)
             \/ /\ k \in 1..N /\ At(v, k) = v.messages[k] /\ At(w, k) = w.messages[k]
                /\ v.messages[k].role = "result"
  <2>1. CASE k = 0
    <3>1. At(w, 0) = At(v, 0)
      BY <1>4 DEF At
    <3> QED BY <2>1, <3>1
  <2>2. CASE k # 0 /\ v.agent.open /\ v.agent.slot = k
    <3>1. At(w, k) = At(v, k)
      BY <1>4, <2>2 DEF At
    <3> QED BY <3>1
  <2>3. CASE k # 0 /\ ~(v.agent.open /\ v.agent.slot = k)
    <3>1. k \in 1..N /\ At(v, k) = v.messages[k] /\ At(w, k) = w.messages[k]
      BY <1>0, <1>4, <2>3 DEF At
    <3> QED BY <1>5, <3>1
  <2> QED BY <2>1, <2>2, <2>3
<1>10. ASSUME NEW i \in 1..N, v.messages[i].role = "result"
       PROVE  /\ \A j, n \in Nat : ~Says(v.messages[i], j, n) /\ ~Says(w.messages[i], j, n)
              /\ \A x : ~Calls(v.messages[i], x)
  <2>1. PICK x \in Tools : IsResult(v.messages[i], x)
    BY <1>6, <1>10 DEF Slotted, IsResult
  <2>2. \A j, n \in Nat : ~Says(v.messages[i], j, n)
    BY <1>6, <2>1 DEF Resulted
  <2>3. w.messages[i] = Outcome(v, t) \/ w.messages[i] = v.messages[i]
    BY <1>3, <1>4
  <2>4. \A j, n \in Nat : ~Says(w.messages[i], j, n)
    BY <2>2, <2>3, OutcomeFields
  <2>5. \A y : ~Calls(v.messages[i], y)
    BY <1>10 DEF Calls
  <2> QED BY <2>2, <2>4, <2>5
<1>11. Chunked(w, s)
  <2>1. /\ \A k \in 0..N : \A j, n \in Nat :
              /\ Says(At(w, k), j, n) <=> Says(At(v, k), j, n)
              /\ Says(At(v, k), j, n) => At(w, k).role = At(v, k).role /\ At(w, k).id = At(v, k).id
    BY <1>9, <1>10
  <2>2. Len(w.messages) = N /\ \A k \in 0..Len(w.messages) : \A j, n \in Nat : Says(At(w, k), j, n) => k <= N
    BY <1>0, <1>2, <1>4
  <2> QED BY <1>0, <1>4, <1>6, <2>1, <2>2, ChunksKept
<1>12. \A i \in 1..N : \A x \in Tools : IsResult(w.messages[i], x) <=> IsResult(v.messages[i], x)
  BY <1>5 DEF IsResult
<1>13. Len(w.messages) = N
  BY <1>2, <1>4
<1>14. Resulted(w)
  <2>1. \A i, j \in 1..N : \A x \in Tools :
          IsResult(w.messages[i], x) /\ IsResult(w.messages[j], x) => i = j
    BY <1>6, <1>12 DEF Resulted
  <2>2. \A x \in Tools : w.tools[x].told <=> \E i \in 1..N : IsResult(w.messages[i], x)
    BY <1>4, <1>6, <1>12 DEF Resulted
  <2>3. /\ \A x \in Tools : w.tools[x].told => w.tools[x].known
        /\ \A x \in Tools : w.tools[x].known <=> \E i \in 1..Len(w.order) : w.order[i] = x
    BY <1>4, <1>6 DEF Resulted
  <2>4. \A x \in Tools : \A i \in 1..N : IsResult(w.messages[i], x) =>
          \A j, n \in Nat : ~Says(w.messages[i], j, n)
    <3>1. ASSUME NEW x \in Tools, NEW i \in 1..N, IsResult(w.messages[i], x)
          PROVE  v.messages[i].role = "result"
      BY <1>12, <3>1 DEF IsResult
    <3> QED BY <1>10, <3>1
  <2> QED BY <1>13, <2>1, <2>2, <2>3, <2>4 DEF Resulted
<1>15. Called(w, C)
  <2>1. ASSUME NEW x \in C PROVE \E k \in 0..N : Calls(At(w, k), x)
    <3>1. PICK k \in 0..N : Calls(At(v, k), x)
      BY <1>6 DEF Called
    <3>2. At(w, k) = At(v, k)
      BY <1>9, <1>10, <3>1
    <3> QED BY <3>1, <3>2
  <2>2. ASSUME NEW x \in C, NEW i \in 1..N, IsResult(w.messages[i], x)
        PROVE  \E j \in 1..N : j < i /\ Calls(w.messages[j], x)
    <3>1. IsResult(v.messages[i], x)
      BY <1>12, <2>2
    <3>2. PICK j \in 1..N : j < i /\ Calls(v.messages[j], x)
      BY <1>6, <3>1 DEF Called
    <3>3. w.messages[j] = v.messages[j]
      BY <1>5, <1>10, <3>2
    <3> QED BY <3>2, <3>3
  <2> QED BY <1>13, <2>1, <2>2 DEF Called
<1>16. Grows(v, w)
  <2>1. \A i \in 1..N : v.messages[i].role # "result" => Leads(v.messages[i].parts, w.messages[i].parts)
    BY <1>5, ViewTyped, LeadsItself
  <2> QED BY <1>0, <1>5, <1>13, <2>1 DEF Grows
<1>17. ASSUME NEW T \in SUBSET Tools, Exact(v, T) PROVE Exact(w, T \cup {t})
  <2>1. ASSUME NEW x \in T \cup {t}, NEW i \in 1..N, IsResult(w.messages[i], x)
        PROVE  w.messages[i] = Outcome(w, x)
    <3>1. IsResult(v.messages[i], x) /\ Outcome(w, x) = Outcome(v, x)
      BY <1>4, <1>12, <2>1 DEF Outcome
    <3>2. CASE x = t
      BY <1>3, <1>4, <3>1, <3>2
    <3>3. CASE x # t
      <4>1. ~IsResult(v.messages[i], t)
        BY <3>1, <3>3 DEF IsResult
      <4>2. v.messages[i] = Outcome(v, x)
        BY <1>17, <3>1, <3>3 DEF Exact
      <4> QED BY <1>3, <1>4, <3>1, <4>1, <4>2
    <3> QED BY <3>2, <3>3
  <2> QED BY <1>13, <2>1 DEF Exact
<1>18. Told(v, w, s, C, t)
  BY <1>4, <1>7, <1>8, <1>11, <1>14, <1>15, <1>16, <1>17 DEF Told, Whole
<1> QED BY <1>1, <1>18 DEF w

(* flushUser, whatever the draft.                                          *)
LEMMA FlushUserAll ==
    ASSUME NEW v \in ViewOf, NEW s \in Seq(SaidOf), NEW C \in SUBSET Tools, Whole(v, s, C)
    PROVE  /\ Keeps(v, FlushUser(v), s, C) /\ ~FlushUser(v).user.open
           /\ FlushUser(v).tools = v.tools
<1>1. CASE v.user.open
  BY <1>1, FlushUserKeeps DEF Keeps, SameResults
<1>2. CASE ~v.user.open
  <2>1. FlushUser(v) = v
    BY <1>2 DEF FlushUser
  <2>2. Keeps(v, v, s, C)
    BY KeepsItself
  <2> QED BY <1>2, <2>1, <2>2
<1>3. v.user.open \in BOOLEAN
  BY ViewTyped
<1> QED BY <1>1, <1>2, <1>3

(* Only the status and the content of a call change, or what was told.     *)
LEMMA ToolFields ==
    ASSUME NEW r \in ToolOf
    PROVE  /\ [r EXCEPT !.told = TRUE] \in ToolOf
           /\ [r EXCEPT !.told = TRUE].told
           /\ [r EXCEPT !.told = TRUE].known = r.known
           /\ [r EXCEPT !.told = TRUE].content = r.content
BY DEF ToolOf

(* A result is added at the end, when no draft of the agent's is open.     *)
LEMMA ResultAdded ==
    ASSUME NEW u \in ViewOf, NEW s \in Seq(SaidOf), NEW C \in SUBSET Tools, Whole(u, s, C), ~u.agent.open,
           NEW t \in Tools, ~u.tools[t].told, u.tools[t].known,
           NEW w \in ViewOf, w.messages = Append(u.messages, Outcome(u, t)),
           w.tools = [u.tools EXCEPT ![t] = [@ EXCEPT !.told = TRUE]],
           w.user = u.user, w.agent = u.agent, w.slots = u.slots, w.order = u.order
    PROVE  Told(u, w, s, C, t)
<1> DEFINE N == Len(u.messages)
           o == Outcome(u, t)
<1>0. N \in Nat /\ N <= N + 1 /\ N + 1 \in Nat
  BY ViewTyped
<1>1. /\ o \in MessageOf /\ o.role = "result" /\ o.id = t
      /\ \A j, n \in Nat : ~Says(o, j, n)
      /\ \A r : ~Calls(o, r)
  BY OutcomeFields
<1> HIDE DEF o
<1>2. /\ Len(w.messages) = N + 1 /\ w.messages[N + 1] = o
      /\ \A i \in 1..N : w.messages[i] = u.messages[i]
  <2>1. w.messages = Append(u.messages, o)
    BY DEF o
  <2> QED BY <1>1, <2>1, AddedAtEnd
<1>3. /\ w.tools[t].told /\ w.tools[t].known = u.tools[t].known
      /\ w.tools[t].content = u.tools[t].content
      /\ \A x \in Tools \ {t} : w.tools[x] = u.tools[x]
  <2>1. u.tools[t] \in ToolOf /\ u.tools \in [Tools -> ToolOf]
    BY ViewTyped
  <2>2. /\ w.tools[t] = [u.tools[t] EXCEPT !.told = TRUE]
        /\ \A x \in Tools \ {t} : w.tools[x] = u.tools[x]
    BY <2>1
  <2>3. u.tools[t] \in ToolOf
    BY <2>1
  <2> DEFINE r == u.tools[t]
             q == [r EXCEPT !.told = TRUE]
  <2>4. w.tools[t] = q
    BY <2>2
  <2>5. q.told /\ q.known = r.known /\ q.content = r.content
    <3> HIDE DEF r
    <3> QED BY <2>3, ToolFields DEF r
  <2> HIDE DEF q
  <2> QED BY <2>2, <2>4, <2>5
<1>4. Drafted(u) /\ Slotted(u) /\ Chunked(u, s) /\ Resulted(u) /\ Called(u, C)
  BY DEF Whole
<1>5. \A i \in 1..N : ~IsResult(u.messages[i], t)
  BY <1>4 DEF Resulted
<1>6. \A k \in 0..N : At(w, k) = At(u, k)
  <2>1. At(w, 0) = At(u, 0)
    BY DEF At
  <2>2. \A k \in 1..N : At(w, k) = w.messages[k] /\ At(u, k) = u.messages[k]
    BY <1>0 DEF At
  <2> QED BY <1>0, <1>2, <2>1, <2>2
<1>7. At(w, N + 1) = o
  BY <1>0, <1>2 DEF At
<1>8. \A k \in 0..Len(w.messages) : k \in 0..N \/ k = N + 1
  BY <1>0, <1>2
<1>9. \A i \in 1..Len(w.messages) : i \in 1..N \/ i = N + 1
  BY <1>0, <1>2
<1>10. Chunked(w, s)
  <2>1. \A k \in 0..N : \A j, n \in Nat :
              /\ Says(At(w, k), j, n) <=> Says(At(u, k), j, n)
              /\ Says(At(u, k), j, n) => At(w, k).role = At(u, k).role /\ At(w, k).id = At(u, k).id
    BY <1>6
  <2>2. \A k \in 0..Len(w.messages) : \A j, n \in Nat : Says(At(w, k), j, n) => k <= N
    BY <1>0, <1>1, <1>7, <1>8
  <2>3. N <= Len(w.messages)
    BY <1>0, <1>2
  <2> QED BY <1>4, <2>1, <2>2, <2>3, ChunksKept
<1>11. \A i \in 1..Len(w.messages) : \A x \in Tools :
         IsResult(w.messages[i], x) <=> \/ i \in 1..N /\ x # t /\ IsResult(u.messages[i], x)
                                        \/ i = N + 1 /\ x = t
  <2>1. ASSUME NEW x \in Tools PROVE IsResult(o, x) <=> x = t
    BY <1>1 DEF IsResult
  <2>2. ASSUME NEW i \in 1..N, NEW x \in Tools
        PROVE  /\ IsResult(w.messages[i], x) <=> IsResult(u.messages[i], x)
               /\ IsResult(u.messages[i], x) => x # t
               /\ i # N + 1
    BY <1>0, <1>2, <1>5
  <2>3. N + 1 \notin 1..N
    BY <1>0
  <2> QED BY <1>2, <1>9, <2>1, <2>2, <2>3
<1>12. Resulted(w)
  <2>1. \A i, j \in 1..Len(w.messages) : \A x \in Tools :
          IsResult(w.messages[i], x) /\ IsResult(w.messages[j], x) => i = j
    BY <1>4, <1>11 DEF Resulted
  <2>2. ASSUME NEW x \in Tools
        PROVE  w.tools[x].told <=> \E i \in 1..Len(w.messages) : IsResult(w.messages[i], x)
    <3>1. CASE x = t
      BY <1>0, <1>2, <1>3, <1>11, <3>1
    <3>2. CASE x # t
      <4>1. u.tools[x].told <=> \E i \in 1..N : IsResult(u.messages[i], x)
        BY <1>4 DEF Resulted
      <4>2. \A i \in 1..N : IsResult(w.messages[i], x) <=> IsResult(u.messages[i], x)
        BY <1>2
      <4>3. \A i \in 1..N : i \in 1..Len(w.messages)
        BY <1>0, <1>2
      <4>4. w.tools[x] = u.tools[x]
        BY <1>3, <3>2
      <4> QED BY <1>11, <3>2, <4>1, <4>2, <4>3, <4>4
    <3> QED BY <3>1, <3>2
  <2>3. \A x \in Tools : w.tools[x].told => w.tools[x].known
    BY <1>3, <1>4 DEF Resulted
  <2>4. \A x \in Tools : w.tools[x].known <=> \E i \in 1..Len(w.order) : w.order[i] = x
    <3>1. \A x \in Tools : w.tools[x].known = u.tools[x].known
      BY <1>3
    <3> QED BY <1>4, <3>1 DEF Resulted
  <2>5. \A x \in Tools : \A i \in 1..Len(w.messages) : IsResult(w.messages[i], x) =>
          \A j, n \in Nat : ~Says(w.messages[i], j, n)
    <3>1. ASSUME NEW x \in Tools, NEW i \in 1..Len(w.messages), IsResult(w.messages[i], x)
          PROVE  \A j, n \in Nat : ~Says(w.messages[i], j, n)
      <4>1. CASE i = N + 1
        BY <1>1, <1>2, <4>1
      <4>2. CASE i \in 1..N
        <5>1. IsResult(u.messages[i], x) /\ w.messages[i] = u.messages[i]
          BY <1>2, <3>1, <4>2
        <5> QED BY <1>4, <4>2, <5>1 DEF Resulted
      <4> QED BY <1>9, <4>1, <4>2
    <3> QED BY <3>1
  <2> QED BY <2>1, <2>2, <2>3, <2>4, <2>5 DEF Resulted
<1>13. Called(w, C)
  <2>0. /\ \A x \in C : \E k \in 0..N : Calls(At(u, k), x)
        /\ \A x \in C : \A i \in 1..N : IsResult(u.messages[i], x) =>
             \E j \in 1..N : j < i /\ Calls(u.messages[j], x)
    BY <1>4 DEF Called
  <2>1. ASSUME NEW x \in C PROVE \E k \in 0..Len(w.messages) : Calls(At(w, k), x)
    <3>1. PICK k \in 0..N : Calls(At(u, k), x)
      BY <2>0
    <3>2. k \in 0..Len(w.messages) /\ At(w, k) = At(u, k)
      BY <1>0, <1>2, <1>6
    <3> QED BY <3>1, <3>2
  <2>2. ASSUME NEW x \in C, NEW i \in 1..Len(w.messages), IsResult(w.messages[i], x)
        PROVE  \E j \in 1..Len(w.messages) : j < i /\ Calls(w.messages[j], x)
    <3>1. CASE i \in 1..N
      <4>1. IsResult(u.messages[i], x)
        BY <1>2, <2>2, <3>1
      <4>2. PICK j \in 1..N : j < i /\ Calls(u.messages[j], x)
        BY <2>0, <3>1, <4>1
      <4>3. j \in 1..Len(w.messages) /\ w.messages[j] = u.messages[j]
        BY <1>0, <1>2
      <4> QED BY <4>2, <4>3
    <3>2. CASE i = N + 1
      <4>1. PICK k \in 0..N : Calls(At(u, k), x)
        BY <2>0
      <4>2. k # 0
        <5>1. At(u, 0) = Message("user", NoId, u.user.parts) \/ At(u, 0) = Message("none", NoId, <<>>)
          BY AtFields
        <5>2. At(u, 0).role # "agent"
          BY <5>1, MessageFields
        <5> QED BY <4>1, <5>2 DEF Calls
      <4>3. k \in 1..N /\ k < i /\ k \in 1..Len(w.messages)
        BY <1>0, <1>2, <3>2, <4>2
      <4>4. At(u, k) = u.messages[k] /\ w.messages[k] = u.messages[k]
        BY <1>2, <4>3, AtFields
      <4> QED BY <4>1, <4>3, <4>4
    <3> QED BY <1>9, <3>1, <3>2
  <2> QED BY <2>1, <2>2 DEF Called
<1>14. Drafted(w)
  <2>1. \A k : k \in 0..N => k \in 0..Len(w.messages)
    BY <1>0, <1>2
  <2> QED BY <1>4, <2>1 DEF Drafted
<1>15. Slotted(w)
  <2>1. /\ \A i \in 1..N :
             /\ u.messages[i].role = "result" => u.messages[i].id \in Tools
             /\ u.messages[i].role # "result" => u.messages[i].id \in MessageIds \cup {NoId}
             /\ u.messages[i].role = "user" => u.messages[i].id \in UserIds \cup {NoId}
             /\ u.messages[i].role = "agent" => u.messages[i].id \in AgentIds \cup {NoId}
             /\ u.messages[i].role = "agent" /\ u.messages[i].id # NoId => u.slots[u.messages[i].id] = i
        /\ \A id \in MessageIds : u.slots[id] \in 0..N
        /\ \A id \in AgentIds : u.slots[id] # 0 =>
             /\ u.messages[u.slots[id]].role = "agent" /\ u.messages[u.slots[id]].id = id
    BY <1>4 DEF Slotted
  <2>2. ASSUME NEW i \in 1..Len(w.messages)
        PROVE  /\ w.messages[i].role = "result" => w.messages[i].id \in Tools
               /\ w.messages[i].role # "result" => w.messages[i].id \in MessageIds \cup {NoId}
               /\ w.messages[i].role = "user" => w.messages[i].id \in UserIds \cup {NoId}
               /\ w.messages[i].role = "agent" => w.messages[i].id \in AgentIds \cup {NoId}
               /\ w.messages[i].role = "agent" /\ w.messages[i].id # NoId => w.slots[w.messages[i].id] = i
    <3>1. CASE i \in 1..N
      BY <1>2, <2>1, <3>1
    <3>2. CASE i = N + 1
      BY <1>1, <1>2, <3>2
    <3> QED BY <1>9, <3>1, <3>2
  <2>3. ASSUME NEW id \in AgentIds, w.slots[id] # 0
        PROVE  w.messages[w.slots[id]].role = "agent" /\ w.messages[w.slots[id]].id = id
    <3>0. id \in MessageIds /\ w.slots[id] = u.slots[id]
      BY <1>3 DEF AgentIds
    <3>1. /\ u.slots[id] \in 0..N
          /\ u.messages[u.slots[id]].role = "agent" /\ u.messages[u.slots[id]].id = id
      BY <2>1, <2>3, <3>0
    <3>2. w.messages[u.slots[id]] = u.messages[u.slots[id]]
      BY <1>0, <1>2, <2>3, <3>0, <3>1
    <3> QED BY <3>0, <3>1, <3>2
  <2>4. ASSUME NEW id \in MessageIds PROVE w.slots[id] \in 0..Len(w.messages)
    <3>1. u.slots[id] \in 0..N /\ w.slots[id] = u.slots[id]
      BY <1>3, <2>1
    <3> QED BY <1>0, <1>2, <3>1
  <2> QED BY <2>2, <2>3, <2>4 DEF Slotted
<1>16. Grows(u, w)
  BY <1>0, <1>2, MessagesGrow
<1>17. ASSUME NEW T \in SUBSET Tools, Exact(u, T) PROVE Exact(w, T \cup {t})
  <2>1. ASSUME NEW x \in T \cup {t}, NEW i \in 1..Len(w.messages), IsResult(w.messages[i], x)
        PROVE  w.messages[i] = Outcome(w, x)
    <3>1. x \in Tools /\ Outcome(w, x) = Outcome(u, x)
      BY <1>3 DEF Outcome
    <3>2. CASE i = N + 1
      BY <1>2, <1>11, <2>1, <3>1, <3>2 DEF o
    <3>3. CASE i \in 1..N /\ x # t
      <4>1. IsResult(u.messages[i], x)
        BY <1>2, <2>1, <3>3
      <4>2. u.messages[i] = Outcome(u, x)
        BY <1>17, <3>3, <4>1 DEF Exact
      <4> QED BY <1>2, <3>1, <3>3, <4>2
    <3> QED BY <1>11, <2>1, <3>1, <3>2, <3>3
  <2> QED BY <2>1 DEF Exact
<1> QED BY <1>3, <1>10, <1>12, <1>13, <1>14, <1>15, <1>16, <1>17 DEF Told, Whole

(* emitToolResult.                                                         *)
LEMMA TellTells ==
    ASSUME NEW v \in ViewOf, NEW s \in Seq(SaidOf), NEW C \in SUBSET Tools, Whole(v, s, C),
           NEW t \in Tools, v.tools[t].known
    PROVE  Told(v, Tell(v, t), s, C, t)
<1>1. CASE v.tools[t].told
  BY <1>1, RefreshTells DEF Tell
<1>2. CASE ~v.tools[t].told
  <2> DEFINE u == FlushAgent(v)
             w == [u EXCEPT !.messages = Append(@, Outcome(u, t)), !.tools[t].told = TRUE]
  <2>1. Tell(v, t) = w
    BY <1>2 DEF Tell
  <2>2. Keeps(v, u, s, C) /\ ~u.agent.open
    BY FlushAgentKeeps
  <2> HIDE DEF u
  <2>3. /\ u \in ViewOf /\ Whole(u, s, C) /\ Grows(v, u) /\ SameResults(v, u)
        /\ u.tools = v.tools /\ u.order = v.order
    BY <2>2 DEF Keeps, Whole, SameResults
  <2>4. /\ w \in ViewOf /\ w.messages = Append(u.messages, Outcome(u, t))
        /\ w.tools = [u.tools EXCEPT ![t] = [@ EXCEPT !.told = TRUE]]
        /\ w.user = u.user /\ w.agent = u.agent /\ w.slots = u.slots /\ w.order = u.order
    <3>1. Outcome(u, t) \in MessageOf /\ u.messages \in Seq(MessageOf) /\ u.tools \in [Tools -> ToolOf]
      BY <2>3, ViewTyped, OutcomeFields
    <3>2. u.tools[t] \in ToolOf
      BY <3>1
    <3>3. [u.tools[t] EXCEPT !.told = TRUE] \in ToolOf
      BY <3>2, ToolFields
    <3>4. Append(u.messages, Outcome(u, t)) \in Seq(MessageOf)
      BY <3>1
    <3>5. [u.tools EXCEPT ![t] = [@ EXCEPT !.told = TRUE]] \in [Tools -> ToolOf]
      BY <3>1, <3>3
    <3> QED BY <2>3, <3>4, <3>5 DEF ViewOf
  <2> HIDE DEF w
  <2>5. Told(u, w, s, C, t)
    BY <1>2, <2>2, <2>3, <2>4, ResultAdded
  <2>6. Grows(v, w)
    BY <2>3, <2>4, <2>5, GrowsOn DEF Told
  <2>7. \A T \in SUBSET Tools : Exact(v, T) => Exact(u, T)
    BY <2>3, ResultsKept DEF Whole
  <2> QED BY <2>1, <2>3, <2>5, <2>6, <2>7 DEF Told
<1>3. v.tools[t].told \in BOOLEAN
  <2>1. v.tools[t] \in ToolOf
    BY ViewTyped
  <2> QED BY <2>1 DEF ToolOf
<1> QED BY <1>1, <1>2, <1>3

(* ensureTool and what the update says of the status and the content.      *)
LEMMA TouchFields ==
    ASSUME NEW v \in ViewOf, NEW t \in Tools, NEW mark \in Statuses \cup {"none"},
           NEW content \in 0..MaxUpdates
    PROVE  /\ Touch(v, t, mark, content) \in ViewOf
           /\ \E r \in ToolOf :
                /\ r.known /\ r.told = v.tools[t].told
                /\ r.content = IF content = 0 THEN v.tools[t].content ELSE content
                /\ Tools1(v, Touch(v, t, mark, content), t, r)
<1> DEFINE q == v.tools[t]
           r == [q EXCEPT !.known = TRUE,
                          !.status = IF mark = "none" THEN @ ELSE mark,
                          !.content = IF content = 0 THEN @ ELSE content]
           w == Touch(v, t, mark, content)
<1>0. /\ q \in ToolOf /\ v.tools \in [Tools -> ToolOf] /\ v.order \in Seq(Tools)
  BY ViewTyped
<1> HIDE DEF q
<1>1. /\ r \in ToolOf /\ r.known /\ r.told = q.told
      /\ r.content = IF content = 0 THEN q.content ELSE content
  BY <1>0 DEF ToolOf
<1>2. w = [v EXCEPT !.tools[t] = r, !.order = IF v.tools[t].known THEN @ ELSE Append(@, t)]
  BY DEF Touch, q
<1> HIDE DEF w, r
<1>3. Append(v.order, t) \in Seq(Tools) /\ [v.tools EXCEPT ![t] = r] \in [Tools -> ToolOf]
  BY <1>0, <1>1
<1>4. w \in ViewOf
  BY <1>2, <1>3 DEF ViewOf
<1>5. Tools1(v, w, t, r)
  BY <1>2 DEF Tools1, ViewOf
<1> QED BY <1>1, <1>4, <1>5 DEF q, w

(* A call without a result says nothing.                                   *)
LEMMA ExactUntold ==
    ASSUME NEW v, NEW s, NEW C, Whole(v, s, C), NEW t \in Tools, ~v.tools[t].told,
           Exact(v, Tools \ {t})
    PROVE  Exact(v, Tools)
<1>1. \A i \in 1..Len(v.messages) : ~IsResult(v.messages[i], t)
  BY DEF Whole, Resulted
<1> QED BY <1>1 DEF Exact

(* What a step keeps, whatever it is.                                      *)
Steps(v, w, s, C) == Whole(w, s, C) /\ Exact(w, Tools) /\ Grows(v, w)

(* What is known of the call after it was heard of: its result may be      *)
(* behind what was said last.                                              *)
Touched(v, w, s, C, t) ==
    /\ Whole(w, s, C) /\ Grows(v, w) /\ Exact(w, Tools \ {t})
    /\ w.tools[t].known /\ w.tools[t].told = v.tools[t].told
    /\ w.user = v.user /\ w.agent = v.agent
    /\ \/ Exact(w, Tools)
       \/ w.tools[t].told /\ w.tools[t].content # 0

(* ensureTool keeps the transcript in order.                               *)
LEMMA TouchKeeps ==
    ASSUME NEW v \in ViewOf, NEW s \in Seq(SaidOf), NEW C \in SUBSET Tools, Whole(v, s, C),
           Exact(v, Tools), NEW t \in Tools, NEW mark \in Statuses \cup {"none"},
           NEW content \in 0..MaxUpdates
    PROVE  Touched(v, Touch(v, t, mark, content), s, C, t)
<1> DEFINE w == Touch(v, t, mark, content)
<1>1. w \in ViewOf
  BY TouchFields
<1>2. PICK r \in ToolOf : /\ r.known /\ r.told = v.tools[t].told
                          /\ r.content = IF content = 0 THEN v.tools[t].content ELSE content
                          /\ Tools1(v, w, t, r)
  BY TouchFields
<1> HIDE DEF w
<1>3. w.user = v.user /\ w.agent = v.agent /\ w.tools[t] = r
  BY <1>2, ViewTyped DEF Tools1
<1>4. /\ Whole(w, s, C) /\ Grows(v, w)
      /\ \A T \in SUBSET Tools : Exact(v, T) => Exact(w, T \ {t})
      /\ r.content = v.tools[t].content /\ Exact(v, {t}) => Exact(w, {t})
  BY <1>1, <1>2, ToolChanges
<1>5. Exact(w, Tools \ {t})
  BY <1>4
<1>6. CASE content = 0
  <2>1. Exact(v, {t})
    BY DEF Exact
  <2>2. Exact(w, {t})
    BY <1>2, <1>4, <1>6, <2>1
  <2>3. Exact(w, Tools)
    BY <1>5, <2>2 DEF Exact
  <2> QED BY <1>2, <1>3, <1>4, <1>5, <2>3 DEF w, Touched
<1>7. CASE content # 0 /\ ~w.tools[t].told
  <2>1. Exact(w, Tools)
    BY <1>4, <1>5, <1>7, ExactUntold
  <2> QED BY <1>2, <1>3, <1>4, <1>5, <2>1 DEF w, Touched
<1>8. CASE content # 0 /\ w.tools[t].told
  BY <1>2, <1>3, <1>4, <1>5, <1>8 DEF w, Touched
<1>9. w.tools[t].told \in BOOLEAN
  BY <1>3 DEF ToolOf
<1> QED BY <1>6, <1>7, <1>8, <1>9

(* A view that keeps everything else is exact again.                       *)
LEMMA KeepsExact ==
    ASSUME NEW v \in ViewOf, NEW w, NEW s, NEW z, NEW C, NEW D, Whole(v, s, C), Keeps(v, w, z, D),
           NEW T \in SUBSET Tools, Exact(v, T)
    PROVE  Exact(w, T) /\ w \in ViewOf /\ w.tools = v.tools
<1>1. w \in ViewOf /\ SameResults(v, w) /\ Resulted(v)
  BY DEF Keeps, Whole
<1> QED BY <1>1, ResultsKept DEF SameResults

(* A call or an update is said, and no chunk.                              *)
LEMMA WholeOfOther ==
    ASSUME NEW v \in ViewOf, NEW s \in Seq(SaidOf), NEW C \in SUBSET Tools, Whole(v, s, C),
           NEW x \in SaidOf, x.kind \notin {"user", "agent"}
    PROVE  Whole(v, Append(s, x), C)
BY ChunksOfOther DEF Whole

(* A chunk of the user's: it continues his draft, or closes what is open   *)
(* and begins one.                                                         *)
LEMMA UserChunkSteps ==
    ASSUME NEW v \in ViewOf, NEW s \in Seq(SaidOf), NEW C \in SUBSET Tools, Whole(v, s, C),
           Exact(v, Tools), NEW x \in SaidOf, x.kind = "user", NEW id \in UserIds \cup {NoId}
    PROVE  Steps(v, UserChunk(v, id, Len(s) + 1), Append(s, x), C)
<1> DEFINE z == FlushAgent(v)
           fresh == ~z.user.open \/ (id # NoId /\ z.user.id # NoId /\ z.user.id # id)
           u == IF fresh THEN FlushUser(z) ELSE z
           e == <<"said", Len(s) + 1>>
           a == IF fresh THEN <<>> ELSE z.user.parts
           i == IF ~fresh /\ id = NoId THEN z.user.id ELSE id
           d == Draft(i, Append(a, e), 0)
           w == [u EXCEPT !.user = d]
<1>1. Keeps(v, z, s, C) /\ ~z.agent.open
  BY FlushAgentKeeps
<1>2. /\ e \in PartOf /\ <<e>> = Append(<<>>, e) /\ <<>> \in Seq(PartOf)
  <2>1. Len(s) + 1 \in Nat
    OBVIOUS
  <2> QED BY <2>1, SaidPart, OnePart
<1>3. z \in ViewOf /\ Whole(z, s, C) /\ Drafted(z)
  BY <1>1 DEF Keeps, Whole
<1>4. /\ z.user.open \in BOOLEAN /\ z.user.parts \in Seq(PartOf)
      /\ z.user.id \in UserIds \cup {NoId}
  BY <1>3, ViewTyped DEF Drafted
<1>5. UserChunk(v, id, Len(s) + 1) = w
  <2> HIDE DEF z, e
  <2>1. CASE fresh
    <3>1. UserChunk(v, id, Len(s) + 1) = [FlushUser(z) EXCEPT !.user = Draft(id, <<e>>, 0)]
      BY <2>1 DEF UserChunk, z, e
    <3> QED BY <1>2, <2>1, <3>1
  <2>2. CASE ~fresh
    <3>1. UserChunk(v, id, Len(s) + 1) = [z EXCEPT !.user =
              Draft(IF id = NoId THEN z.user.id ELSE id, Append(z.user.parts, e), 0)]
      BY <2>2 DEF UserChunk, z, e
    <3> QED BY <2>2, <3>1
  <2> QED BY <2>1, <2>2
<1> HIDE DEF z, e
<1>6. a \in Seq(PartOf) /\ i \in UserIds \cup {NoId}
  BY <1>2, <1>4
<1>7. Append(a, e) \in Seq(PartOf) /\ i \in MessageIds \cup {NoId}
  BY <1>2, <1>6, TranscriptAssumption
<1>8. d \in DraftOf
  <2> HIDE DEF a, i
  <2> QED BY <1>7, DraftFields
<1>9. Keeps(z, u, s, C) /\ ~u.agent.open /\ a = IF u.user.open THEN u.user.parts ELSE <<>>
  <2>1. CASE fresh /\ z.user.open
    BY <1>3, <2>1, FlushUserKeeps
  <2>2. CASE fresh /\ ~z.user.open
    <3>1. FlushUser(z) = z
      BY <2>2 DEF FlushUser
    <3> QED BY <1>1, <1>3, <2>2, <3>1, KeepsItself
  <2>3. CASE ~fresh
    BY <1>1, <1>3, <2>3, KeepsItself
  <2> QED BY <1>4, <2>1, <2>2, <2>3
<1> HIDE DEF a, i, u, fresh
<1>14. u \in ViewOf /\ Whole(u, s, C) /\ Keeps(v, u, s, C)
  BY <1>1, <1>9, KeepsOn DEF Keeps, Whole
<1>10. /\ w \in ViewOf /\ w.user = Draft(i, Append(a, e), 0) /\ w.agent = u.agent
       /\ w.messages = u.messages /\ w.slots = u.slots /\ w.tools = u.tools /\ w.order = u.order
  <2> HIDE DEF d
  <2>1. /\ w \in ViewOf /\ w.user = d /\ w.agent = u.agent
        /\ w.messages = u.messages /\ w.slots = u.slots /\ w.tools = u.tools /\ w.order = u.order
    BY <1>8, <1>14 DEF ViewOf
  <2> QED BY <2>1 DEF d
<1> HIDE DEF w, d
<1>11. Keeps(u, w, Append(s, x), C)
  BY <1>6, <1>9, <1>10, <1>14, UserAdded DEF e
<1>12. Keeps(v, w, Append(s, x), C)
  BY <1>11, <1>14, KeepsOn
<1>13. Exact(w, Tools)
  BY <1>12, KeepsExact
<1> QED BY <1>5, <1>12, <1>13 DEF Steps, Keeps

(* A chunk of the agent's.                                                 *)
LEMMA AgentChunkSteps ==
    ASSUME NEW v \in ViewOf, NEW s \in Seq(SaidOf), NEW C \in SUBSET Tools, Whole(v, s, C),
           Exact(v, Tools), NEW id \in AgentIds \cup {NoId}, NEW x \in SaidOf, x.kind = "agent", x.id = id
    PROVE  Steps(v, AgentChunk(v, id, Len(s) + 1), Append(s, x), C)
<1> DEFINE u == FlushUser(v)
           w == Say(u, id, <<"said", Len(s) + 1>>)
<1>1. Keeps(v, u, s, C) /\ ~u.user.open
  BY FlushUserAll
<1>2. AgentChunk(v, id, Len(s) + 1) = w
  BY DEF AgentChunk
<1> HIDE DEF u
<1>3. u \in ViewOf /\ Whole(u, s, C)
  BY <1>1 DEF Keeps, Whole
<1>4. Keeps(u, w, Append(s, x), C)
  BY <1>1, <1>3, SayKeeps
<1> HIDE DEF w
<1>5. Keeps(v, w, Append(s, x), C)
  BY <1>1, <1>4, KeepsOn
<1>6. Exact(w, Tools)
  BY <1>5, KeepsExact
<1> QED BY <1>2, <1>5, <1>6 DEF Steps, Keeps

(* A call is announced, of which nothing was heard before.                 *)
LEMMA ToolCallSteps ==
    ASSUME NEW v \in ViewOf, NEW s \in Seq(SaidOf), NEW C \in SUBSET Tools, Whole(v, s, C),
           Exact(v, Tools), NEW t \in Tools, ~v.tools[t].known, NEW mark \in Statuses \cup {"none"},
           NEW content \in 0..MaxUpdates, NEW x \in SaidOf, x.kind = "call"
    PROVE  Steps(v, ToolCall(v, t, mark, content), Append(s, x), C \cup {t})
<1> DEFINE a == FlushUser(v)
           b == Touch(a, t, mark, content)
           c == ShowCall(b, t)
           d == IF Terminal(c, t) THEN Tell(c, t) ELSE c
           D == C \cup {t}
<1>0. D \in SUBSET Tools /\ ToolCall(v, t, mark, content) = d
  BY DEF ToolCall
<1>1. Keeps(v, a, s, C) /\ ~a.user.open
  BY FlushUserAll
<1> HIDE DEF a, D
<1>2. /\ a \in ViewOf /\ Whole(a, s, C) /\ Grows(v, a) /\ Exact(a, Tools) /\ a.tools = v.tools
  BY <1>1, KeepsExact DEF Keeps, Whole
<1>3. ~a.tools[t].told
  BY <1>2 DEF Whole, Resulted
<1>4. /\ Whole(b, s, C) /\ Grows(a, b) /\ b.tools[t].known /\ ~b.tools[t].told
      /\ ~b.user.open /\ Exact(b, Tools)
  <2>1. Touched(a, b, s, C, t)
    BY <1>2, TouchKeeps
  <2> HIDE DEF b
  <2> QED BY <1>1, <1>3, <2>1 DEF Touched
<1> HIDE DEF b
<1>5. /\ Keeps(b, c, s, C) /\ b \in ViewOf
      /\ \E k \in 0..Len(c.messages) : Calls(At(c, k), t)
  BY <1>4, ShowCallKeeps DEF Whole
<1> HIDE DEF c
<1>6. /\ c \in ViewOf /\ Whole(c, s, C) /\ Grows(b, c) /\ Exact(c, Tools) /\ c.tools = b.tools
  BY <1>4, <1>5, KeepsExact DEF Keeps
<1>7. Whole(c, s, D) /\ ~c.tools[t].told /\ c.tools[t].known
  <2>1. ~c.tools[t].told /\ c.tools[t].known
    BY <1>4, <1>6
  <2> QED BY <1>5, <1>6, <2>1, CalledMore DEF D
<1>8. Whole(d, s, D) /\ Grows(c, d) /\ Exact(d, Tools)
  <2>1. CASE Terminal(c, t)
    <3>1. Told(c, Tell(c, t), s, D, t)
      BY <1>0, <1>6, <1>7, TellTells
    <3>2. Tools \cup {t} = Tools
      OBVIOUS
    <3>3. Exact(Tell(c, t), Tools \cup {t})
      BY <1>6, <3>1 DEF Told
    <3> QED BY <2>1, <3>1, <3>2, <3>3 DEF Told
  <2>2. CASE ~Terminal(c, t)
    <3>1. Grows(c, c)
      BY <1>6, GrowsItself
    <3> QED BY <1>6, <1>7, <2>2, <3>1
  <2> QED BY <2>1, <2>2
<1> HIDE DEF d
<1>9. d \in ViewOf
  BY <1>8 DEF Whole
<1>10. Whole(d, Append(s, x), D)
  BY <1>0, <1>8, <1>9, WholeOfOther
<1>11. Grows(v, d)
  <2>1. Grows(v, b)
    BY <1>2, <1>4, <1>5, GrowsOn
  <2>2. Grows(v, c)
    BY <1>5, <1>6, <2>1, GrowsOn
  <2> QED BY <1>6, <1>8, <1>9, <2>2, GrowsOn
<1> QED BY <1>0, <1>8, <1>10, <1>11 DEF Steps, D

(* An update of a call.                                                    *)
LEMMA ToolUpdateSteps ==
    ASSUME NEW v \in ViewOf, NEW s \in Seq(SaidOf), NEW C \in SUBSET Tools, Whole(v, s, C),
           Exact(v, Tools), NEW t \in Tools, NEW mark \in Statuses \cup {"none"},
           NEW content \in 0..MaxUpdates, NEW y \in SaidOf, y.kind = "tool"
    PROVE  Steps(v, ToolUpdate(v, t, mark, content), Append(s, y), C)
<1> DEFINE w == Touch(v, t, mark, content)
           x == IF w.agent.open THEN ShowCall(w, t) ELSE w
           d == IF Terminal(x, t) THEN Tell(x, t)
                ELSE IF x.tools[t].told /\ x.tools[t].content # 0 THEN Refresh(x, t) ELSE x
<1>0. ToolUpdate(v, t, mark, content) = d
  BY DEF ToolUpdate
<1>1. /\ Whole(w, s, C) /\ Grows(v, w) /\ Exact(w, Tools \ {t}) /\ w.tools[t].known
      /\ \/ Exact(w, Tools)
         \/ w.tools[t].told /\ w.tools[t].content # 0
  <2>1. Touched(v, w, s, C, t)
    BY TouchKeeps
  <2> HIDE DEF w
  <2> QED BY <2>1 DEF Touched
<1> HIDE DEF w
<1>2. w \in ViewOf /\ Drafted(w)
  BY <1>1 DEF Whole
<1>3. Keeps(w, x, s, C)
  <2>1. CASE w.agent.open
    <3>1. ~w.user.open
      BY <1>2, <2>1 DEF Drafted
    <3> QED BY <1>1, <1>2, <2>1, <3>1, ShowCallKeeps
  <2>2. CASE ~w.agent.open
    BY <1>1, <1>2, <2>2, KeepsItself
  <2> QED BY <2>1, <2>2
<1> HIDE DEF x
<1>4. /\ x \in ViewOf /\ Whole(x, s, C) /\ Grows(w, x) /\ x.tools = w.tools
      /\ \A T \in SUBSET Tools : Exact(w, T) => Exact(x, T)
  BY <1>1, <1>2, <1>3, KeepsExact DEF Keeps, Whole, SameResults
<1>5. /\ Exact(x, Tools \ {t}) /\ x.tools[t].known
      /\ \/ Exact(x, Tools)
         \/ x.tools[t].told /\ x.tools[t].content # 0
  <2>1. Tools \ {t} \in SUBSET Tools /\ Tools \in SUBSET Tools
    OBVIOUS
  <2> QED BY <1>1, <1>4, <2>1
<1>6. ASSUME NEW z, Told(x, z, s, C, t) PROVE Whole(z, s, C) /\ Grows(x, z) /\ Exact(z, Tools)
  <2>1. (Tools \ {t}) \cup {t} = Tools /\ Tools \ {t} \in SUBSET Tools
    OBVIOUS
  <2>2. Exact(z, (Tools \ {t}) \cup {t})
    BY <1>5, <1>6, <2>1 DEF Told
  <2>3. Whole(z, s, C) /\ Grows(x, z)
    BY <1>6 DEF Told
  <2> QED BY <2>1, <2>2, <2>3
<1>7. Whole(d, s, C) /\ Grows(x, d) /\ Exact(d, Tools)
  <2>1. CASE Terminal(x, t)
    <3>1. Told(x, Tell(x, t), s, C, t)
      BY <1>4, <1>5, TellTells
    <3> QED BY <1>6, <2>1, <3>1
  <2>2. CASE ~Terminal(x, t) /\ x.tools[t].told /\ x.tools[t].content # 0
    <3>1. Told(x, Refresh(x, t), s, C, t)
      BY <1>4, <2>2, RefreshTells
    <3> QED BY <1>6, <2>2, <3>1
  <2>3. CASE ~Terminal(x, t) /\ ~(x.tools[t].told /\ x.tools[t].content # 0)
    <3>1. Grows(x, x) /\ d = x
      BY <1>4, <2>3, GrowsItself
    <3>2. Exact(x, Tools)
      BY <1>5, <2>3
    <3> QED BY <1>4, <3>1, <3>2
  <2> QED BY <2>1, <2>2, <2>3
<1> HIDE DEF d
<1>8. d \in ViewOf
  BY <1>7 DEF Whole
<1>9. Whole(d, Append(s, y), C)
  BY <1>7, <1>8, WholeOfOther
<1>10. Grows(v, d)
  <2>1. Grows(v, x)
    BY <1>1, <1>2, <1>4, GrowsOn
  <2> QED BY <1>4, <1>7, <1>8, <2>1, GrowsOn
<1> QED BY <1>0, <1>7, <1>9, <1>10 DEF Steps

(* finalizePromptResponse, and what the load closes first.                 *)
LEMMA PromptOverSteps ==
    ASSUME NEW v \in ViewOf, NEW s \in Seq(SaidOf), NEW C \in SUBSET Tools, Whole(v, s, C),
           Exact(v, Tools)
    PROVE  /\ Steps(v, PromptOver(v), s, C)
           /\ ~PromptOver(v).user.open /\ ~PromptOver(v).agent.open
<1> DEFINE u == FlushUser(v)
           w == FlushAgent(u)
<1>1. Keeps(v, u, s, C) /\ ~u.user.open
  BY FlushUserAll
<1> HIDE DEF u
<1>2. u \in ViewOf /\ Whole(u, s, C)
  BY <1>1 DEF Keeps, Whole
<1>3. Keeps(u, w, s, C) /\ ~w.agent.open /\ (w.user.open <=> u.user.open)
  BY <1>2, FlushAgentKeeps
<1> HIDE DEF w
<1>4. Keeps(v, w, s, C)
  BY <1>1, <1>3, KeepsOn
<1>5. Exact(w, Tools)
  BY <1>4, KeepsExact
<1>6. Steps(v, w, s, C) /\ ~w.user.open
  BY <1>1, <1>3, <1>4, <1>5 DEF Steps, Keeps
<1>7. PromptOver(v) = w
  BY DEF PromptOver, u, w
<1> QED BY <1>3, <1>6, <1>7

(* A call of the history that had no end gets its result.                  *)
LEMMA InterruptSteps ==
    ASSUME NEW v \in ViewOf, NEW s \in Seq(SaidOf), NEW C \in SUBSET Tools, Whole(v, s, C),
           Exact(v, Tools), NEW t \in Tools, v.tools[t].known
    PROVE  LET w == Interrupt(v, t)
           IN  /\ Steps(v, w, s, C) /\ w.order = v.order /\ w.tools[t].told
               /\ \A x \in Tools : v.tools[x].told => w.tools[x].told
<1> DEFINE w == Interrupt(v, t)
<1>1. CASE v.tools[t].told
  <2>1. w = v
    BY <1>1 DEF Interrupt
  <2>2. Grows(v, v)
    BY GrowsItself
  <2> QED BY <1>1, <2>1, <2>2 DEF Steps
<1>2. CASE ~v.tools[t].told
  <2> DEFINE q == v.tools[t]
             r == [q EXCEPT !.status = "interrupted"]
             u == [v EXCEPT !.tools[t].status = "interrupted"]
  <2>1. w = Tell(u, t)
    BY <1>2 DEF Interrupt
  <2>2. q \in ToolOf /\ v.tools \in [Tools -> ToolOf]
    BY ViewTyped
  <2>3. r \in ToolOf /\ r.known = q.known /\ r.told = q.told /\ r.content = q.content
    <3> HIDE DEF q
    <3> QED BY <2>2 DEF ToolOf
  <2>4. u = [v EXCEPT !.tools[t] = r]
    OBVIOUS
  <2> HIDE DEF r, u
  <2>5. [v.tools EXCEPT ![t] = r] \in [Tools -> ToolOf]
    BY <2>2, <2>3
  <2>6. u \in ViewOf /\ Tools1(v, u, t, r)
    <3>1. u \in ViewOf
      BY <2>4, <2>5 DEF ViewOf
    <3>2. Tools1(v, u, t, r)
      BY <2>4 DEF Tools1, ViewOf
    <3> QED BY <3>1, <3>2
  <2>7. /\ Whole(u, s, C) /\ Grows(v, u)
        /\ \A T \in SUBSET Tools : Exact(v, T) => Exact(u, T \ {t})
    BY <2>3, <2>6, ToolChanges
  <2>8. /\ u.tools[t] = r /\ u.order = v.order
        /\ \A x \in Tools \ {t} : u.tools[x] = v.tools[x]
    BY <2>2, <2>6 DEF Tools1
  <2>9. Exact(u, Tools)
    <3>1. ~u.tools[t].told
      BY <1>2, <2>3, <2>8
    <3> QED BY <2>7, <3>1, ExactUntold
  <2>10. Told(u, w, s, C, t)
    BY <2>1, <2>3, <2>6, <2>7, <2>8, TellTells
  <2> HIDE DEF w
  <2>11. w \in ViewOf /\ Whole(w, s, C) /\ Grows(v, w)
    BY <2>6, <2>7, <2>10, GrowsOn DEF Told, Whole
  <2>12. Exact(w, Tools)
    <3>1. Tools \cup {t} = Tools
      OBVIOUS
    <3>2. Exact(w, Tools \cup {t})
      BY <2>9, <2>10 DEF Told
    <3> QED BY <3>1, <3>2
  <2>13. \A x \in Tools : v.tools[x].told => w.tools[x].told
    <3>1. ASSUME NEW x \in Tools, v.tools[x].told PROVE w.tools[x].told
      <4>1. x # t
        BY <1>2, <3>1
      <4> QED BY <2>8, <2>10, <3>1, <4>1 DEF Told
    <3> QED BY <3>1
  <2> QED BY <2>8, <2>10, <2>11, <2>12, <2>13 DEF Steps, Told, w
<1>3. v.tools[t].told \in BOOLEAN
  <2>1. v.tools[t] \in ToolOf
    BY ViewTyped
  <2> QED BY <2>1 DEF ToolOf
<1> QED BY <1>1, <1>2, <1>3

(* A set of naturals that has an element has a least one.                  *)
LEMMA LeastNumber ==
    ASSUME NEW T, T \subseteq Nat, T # {}
    PROVE  \E x \in T : \A y \in T : x <= y
<1>1. PICK x \in T : \A y \in T : ~ (<<y, x>> \in OpToRel(<, Nat))
    BY NatLessThanWellFounded, WFMin
<1>2. ASSUME NEW y \in T PROVE x <= y
    <2>1. ~ (<<y, x>> \in {ss \in Nat \X Nat : ss[1] < ss[2]})
        BY <1>1 DEF OpToRel
    <2> QED
        BY <2>1
<1> QED
    BY <1>2

(* The first k calls of the history are interrupted, one by one.           *)
EndedSoFar(f, v, n) == f = [k \in 0..n |-> IF k = 0 THEN v ELSE Interrupt(f[k - 1], v.order[k])]

(* There is such a function, for any number of calls.                      *)
LEMMA EndsExist == ASSUME NEW v, NEW m \in Nat PROVE \E f : EndedSoFar(f, v, m)
<1> DEFINE T == {n \in Nat : ~ \E f : EndedSoFar(f, v, n)}
<1>1. SUFFICES ASSUME T # {} PROVE FALSE
  OBVIOUS
<1>2. PICK n \in T : \A y \in T : n <= y
  BY <1>1, LeastNumber
<1>3. n # 0
  <2> DEFINE g == [k \in 0..0 |-> v]
  <2>1. \A k \in 0..0 : k = 0
    OBVIOUS
  <2>2. g = [k \in 0..0 |-> IF k = 0 THEN v ELSE Interrupt(g[k - 1], v.order[k])]
    BY <2>1
  <2>3. EndedSoFar(g, v, 0)
    BY <2>2 DEF EndedSoFar
  <2> QED BY <2>3
<1>4. n - 1 \in Nat /\ n - 1 \notin T
  BY <1>2, <1>3
<1>5. PICK g : EndedSoFar(g, v, n - 1)
  BY <1>4
<1> DEFINE h == [k \in 0..n |-> IF k = n THEN Interrupt(g[n - 1], v.order[n]) ELSE g[k]]
<1>6. \A k \in 0..n - 1 : g[k] = IF k = 0 THEN v ELSE Interrupt(g[k - 1], v.order[k])
  BY <1>5, Zenon DEF EndedSoFar
<1>7. ASSUME NEW k \in 0..n PROVE h[k] = IF k = 0 THEN v ELSE Interrupt(h[k - 1], v.order[k])
  <2>1. CASE k = n
    <3>1. h[k] = Interrupt(g[n - 1], v.order[n])
      BY <2>1
    <3>2. k # 0 /\ n - 1 \in 0..n /\ n - 1 # n
      BY <1>2, <1>3, <2>1
    <3>3. h[k - 1] = g[n - 1]
      BY <2>1, <3>2
    <3> QED BY <2>1, <3>1, <3>2, <3>3
  <2>2. CASE k # n
    <3>1. k \in 0..n - 1
      BY <1>2, <2>2
    <3>2. h[k] = g[k]
      BY <2>2
    <3>3. CASE k = 0
      BY <1>6, <3>1, <3>2, <3>3
    <3>4. CASE k # 0
      <4>1. k - 1 \in 0..n /\ k - 1 # n
        BY <1>2, <3>1, <3>4
      <4>2. h[k - 1] = g[k - 1]
        BY <4>1
      <4> QED BY <1>6, <3>1, <3>2, <3>4, <4>2
    <3> QED BY <3>3, <3>4
  <2> QED BY <2>1, <2>2
<1>8. EndedSoFar(h, v, n)
  <2>1. h = [k \in 0..n |-> h[k]]
    OBVIOUS
  <2> DEFINE R(k) == IF k = 0 THEN v ELSE Interrupt(h[k - 1], v.order[k])
  <2>2. \A k \in 0..n : h[k] = R(k)
    BY <1>7
  <2> HIDE DEF h
  <2>3. [k \in 0..n |-> h[k]] = [k \in 0..n |-> R(k)]
    BY <2>2
  <2> QED BY <2>1, <2>3 DEF EndedSoFar
<1> QED BY <1>2, <1>8

(* Interrupted is one.                                                     *)
LEMMA InterruptedFields ==
    ASSUME NEW v \in ViewOf
    PROVE  /\ Interrupted(v)[0] = v
           /\ \A k \in 1..Len(v.order) : Interrupted(v)[k] = Interrupt(Interrupted(v)[k - 1], v.order[k])
<1> DEFINE N == Len(v.order)
           f == Interrupted(v)
<1>1. N \in Nat
  BY ViewTyped
<1>2. Interrupted(v) =
        CHOOSE g : g = [k \in 0..N |-> IF k = 0 THEN v ELSE Interrupt(g[k - 1], v.order[k])]
  BY DEF Interrupted
<1>3. \E g : g = [k \in 0..N |-> IF k = 0 THEN v ELSE Interrupt(g[k - 1], v.order[k])]
  BY <1>1, EndsExist, Zenon DEF EndedSoFar
<1>4. f = [k \in 0..N |-> IF k = 0 THEN v ELSE Interrupt(f[k - 1], v.order[k])]
  BY <1>2, <1>3, Zenon
<1> HIDE DEF f
<1>5. 0 \in 0..N /\ \A k \in 1..N : k \in 0..N /\ k # 0
  BY <1>1
<1>6. \A k \in 0..N : f[k] = IF k = 0 THEN v ELSE Interrupt(f[k - 1], v.order[k])
  BY <1>4, Zenon
<1>7. f[0] = v /\ \A k \in 1..N : f[k] = Interrupt(f[k - 1], v.order[k])
  BY <1>5, <1>6
<1> QED BY <1>7 DEF f

(* Once all have been, every call has its result.                          *)
LEMMA InterruptedSteps ==
    ASSUME NEW v \in ViewOf, NEW s \in Seq(SaidOf), NEW C \in SUBSET Tools, Whole(v, s, C),
           Exact(v, Tools)
    PROVE  LET w == Interrupted(v)[Len(v.order)]
           IN  /\ Steps(v, w, s, C) /\ \A t \in Tools : w.tools[t].known => w.tools[t].told
<1> DEFINE N == Len(v.order)
           f == Interrupted(v)
           P(k) == /\ Steps(v, f[k], s, C) /\ f[k].order = v.order
                   /\ \A i \in 1..k : f[k].tools[v.order[i]].told
           T == {k \in 0..N : ~P(k)}
<1>1. N \in Nat /\ \A i \in 1..N : v.order[i] \in Tools
  BY ViewTyped
<1>2. f[0] = v /\ \A k \in 1..N : f[k] = Interrupt(f[k - 1], v.order[k])
  BY InterruptedFields
<1> HIDE DEF f
<1>3. P(0)
  <2>1. Steps(v, v, s, C)
    BY GrowsItself DEF Steps
  <2> QED BY <1>2, <2>1
<1>4. ASSUME NEW k \in 1..N, P(k - 1) PROVE P(k)
  <2> DEFINE u == f[k - 1]
             w == f[k]
             t == v.order[k]
  <2>1. u \in ViewOf /\ Whole(u, s, C) /\ Exact(u, Tools) /\ u.order = v.order /\ Grows(v, u)
    BY <1>4 DEF Steps, Whole
  <2>2. t \in Tools /\ w = Interrupt(u, t)
    BY <1>1, <1>2
  <2>3. u.tools[t].known
    <3>1. u.order[k] = t /\ k \in 1..Len(u.order)
      BY <2>1
    <3>2. \A x \in Tools : u.tools[x].known <=> \E i \in 1..Len(u.order) : u.order[i] = x
      BY <2>1 DEF Whole, Resulted
    <3> HIDE DEF t
    <3> QED BY <2>2, <3>1, <3>2
  <2>4. \A i \in 1..(k - 1) : u.tools[v.order[i]].told
    BY <1>4
  <2> HIDE DEF u, w, t
  <2>5. /\ Steps(u, w, s, C) /\ w.order = u.order /\ w.tools[t].told
        /\ \A x \in Tools : u.tools[x].told => w.tools[x].told
    BY <2>1, <2>2, <2>3, InterruptSteps
  <2>6. Steps(v, w, s, C)
    <3>1. w \in ViewOf
      BY <2>5 DEF Steps, Whole
    <3> QED BY <2>1, <2>5, <3>1, GrowsOn DEF Steps
  <2>7. ASSUME NEW i \in 1..k PROVE w.tools[v.order[i]].told
    <3>1. CASE i = k
      BY <2>5, <3>1 DEF t
    <3>2. CASE i # k
      <4>1. i \in 1..(k - 1) /\ v.order[i] \in Tools
        BY <1>1, <3>2
      <4> QED BY <2>4, <2>5, <4>1
    <3> QED BY <3>1, <3>2
  <2> QED BY <2>1, <2>5, <2>6, <2>7 DEF w
<1> HIDE DEF P
<1>5. \A k \in 0..N : P(k)
  <2>1. SUFFICES ASSUME T # {} PROVE FALSE
    OBVIOUS
  <2>2. T \subseteq Nat
    OBVIOUS
  <2>3. PICK n \in T : \A y \in T : n <= y
    BY <2>1, <2>2, LeastNumber
  <2>4. n \in 1..N /\ n - 1 \in 0..N /\ ~(n <= n - 1)
    BY <1>1, <1>3, <2>3
  <2>5. P(n - 1)
    BY <2>3, <2>4
  <2>6. P(n)
    BY <1>4, <2>4, <2>5
  <2> QED BY <2>3, <2>6
<1>6. P(N)
  BY <1>1, <1>5
<1> DEFINE z == f[N]
<1>7. /\ Steps(v, z, s, C) /\ z.order = v.order
      /\ \A i \in 1..N : z.tools[v.order[i]].told
  BY <1>6 DEF P
<1> HIDE DEF z
<1>8. ASSUME NEW t \in Tools, z.tools[t].known PROVE z.tools[t].told
  <2>1. \A x \in Tools : z.tools[x].known <=> \E i \in 1..Len(z.order) : z.order[i] = x
    BY <1>7 DEF Steps, Whole, Resulted
  <2>2. PICK i \in 1..Len(z.order) : z.order[i] = t
    BY <1>8, <2>1
  <2> QED BY <1>7, <2>2
<1> QED BY <1>7, <1>8 DEF z, f

(* finalizeLoadBarrier.                                                    *)
LEMMA BarrierSteps ==
    ASSUME NEW v \in ViewOf, NEW s \in Seq(SaidOf), NEW C \in SUBSET Tools, Whole(v, s, C),
           Exact(v, Tools)
    PROVE  LET w == Barrier(v)
           IN  Steps(v, w, s, C) /\ \A t \in Tools : w.tools[t].known => w.tools[t].told
<1> DEFINE u == PromptOver(v)
           w == Interrupted(u)[Len(u.order)]
<1>1. Barrier(v) = w
  BY DEF Barrier, PromptOver
<1>2. Steps(v, u, s, C)
  BY PromptOverSteps
<1> HIDE DEF u
<1>3. u \in ViewOf /\ Whole(u, s, C) /\ Exact(u, Tools) /\ Grows(v, u)
  BY <1>2 DEF Steps, Whole
<1>4. Steps(u, w, s, C) /\ \A t \in Tools : w.tools[t].known => w.tools[t].told
  BY <1>3, InterruptedSteps
<1> HIDE DEF w
<1>5. w \in ViewOf
  BY <1>4 DEF Steps, Whole
<1>6. Steps(v, w, s, C)
  BY <1>3, <1>4, <1>5, GrowsOn DEF Steps
<1> QED BY <1>1, <1>4, <1>6

(* Only calls are announced.                                               *)
LEMMA AnnouncedMore ==
    ASSUME NEW s \in Seq(SaidOf), NEW x \in SaidOf
    PROVE  /\ x.kind # "call" => Announced(Append(s, x)) = Announced(s)
           /\ \A t \in Tools : x = [kind |-> "call", id |-> t] =>
                Announced(Append(s, x)) = Announced(s) \cup {t}
<1> DEFINE z == Append(s, x)
<1>1. /\ DOMAIN s = 1..Len(s) /\ DOMAIN z = 1..(Len(s) + 1) /\ z[Len(s) + 1] = x
      /\ \A i \in 1..Len(s) : z[i] = s[i] /\ Len(s) \in Nat
  OBVIOUS
<1> HIDE DEF z
<1>2. \A y : y \in ToSet(z) <=> y \in ToSet(s) \/ y = x
  BY <1>1 DEF ToSet
<1>3. ASSUME x.kind # "call" PROVE Announced(z) = Announced(s)
  <2>1. \A t \in Tools : [kind |-> "call", id |-> t] # x
    BY <1>3
  <2> QED BY <1>2, <2>1 DEF Announced
<1>4. ASSUME NEW t \in Tools, x = [kind |-> "call", id |-> t]
      PROVE  Announced(z) = Announced(s) \cup {t}
  <2>1. \A r \in Tools : [kind |-> "call", id |-> r] = x <=> r = t
    <3>1. ASSUME NEW r \in Tools, [kind |-> "call", id |-> r] = x PROVE r = t
      <4>1. [kind |-> "call", id |-> r].id = [kind |-> "call", id |-> t].id
        BY <1>4, <3>1
      <4> QED BY <4>1
    <3> QED BY <1>4, <3>1
  <2>2. \A r \in Tools : r \in Announced(z) <=> r \in Announced(s) \/ r = t
    BY <1>2, <2>1 DEF Announced
  <2> QED BY <2>2 DEF Announced
<1> QED BY <1>3, <1>4 DEF z

(* Announced are tools.                                                    *)
LEMMA AnnouncedTools == ASSUME NEW s PROVE Announced(s) \in SUBSET Tools
BY DEF Announced

(* At the start nothing is shown.                                          *)
LEMMA TranscriptStarts == TranscriptInit => TranscriptInv
<1> SUFFICES ASSUME TranscriptInit PROVE TranscriptInv
  OBVIOUS
<1>1. /\ view.messages = <<>> /\ view.user = Nothing /\ view.agent = Nothing
      /\ view.slots = [m \in MessageIds |-> 0] /\ view.tools = [t \in Tools |-> NewTool]
      /\ view.order = <<>> /\ loading \in BOOLEAN /\ said = <<>>
  BY DEF TranscriptInit
<1>2. /\ Len(view.messages) = 0 /\ Len(said) = 0 /\ said \in Seq(SaidOf) /\ Len(view.order) = 0
      /\ \A i : i \notin 1..0
      /\ MaxUpdates \in Nat
  BY <1>1, TranscriptAssumption
<1>3. view \in ViewOf
  <2>1. NewTool \in ToolOf
    <3>1. 0 \in 0..MaxUpdates
      BY <1>2
    <3> QED BY <3>1 DEF NewTool, ToolOf
  <2>2. [t \in Tools |-> NewTool] \in [Tools -> ToolOf]
    BY <2>1
  <2>3. [m \in MessageIds |-> 0] \in [MessageIds -> Nat]
    OBVIOUS
  <2>4. Nothing \in DraftOf
    BY NothingFields
  <2>5. <<>> \in Seq(MessageOf) /\ <<>> \in Seq(Tools)
    OBVIOUS
  <2> DEFINE sl == [m \in MessageIds |-> 0]
             to == [t \in Tools |-> NewTool]
  <2>6. view = [messages |-> <<>>, user |-> Nothing, agent |-> Nothing,
                slots |-> sl, tools |-> to, order |-> <<>>]
    BY DEF TranscriptInit
  <2> HIDE DEF sl, to
  <2>7. sl \in [MessageIds -> Nat] /\ to \in [Tools -> ToolOf]
    BY <2>2, <2>3 DEF sl, to
  <2> QED BY <2>4, <2>5, <2>6, <2>7 DEF ViewOf
<1>4. /\ ~view.user.open /\ ~view.agent.open /\ view.user.id = NoId /\ view.user.slot = 0
      /\ view.agent.slot = 0
  BY <1>1, NothingFields
<1>5. Drafted(view)
  <2>1. view.agent.id = NoId /\ NoId \in UserIds \cup {NoId} /\ NoId \in AgentIds \cup {NoId}
    BY <1>1, NothingFields
  <2> QED BY <1>2, <1>4, <2>1 DEF Drafted
<1>6. Slotted(view)
  <2>1. Len(view.messages) = 0 /\ \A id \in MessageIds : view.slots[id] = 0
    BY <1>1
  <2>2. \A id \in AgentIds : view.slots[id] = 0
    BY <2>1 DEF AgentIds
  <2> QED BY <2>1, <2>2 DEF Slotted
<1>7. At(view, 0) = Message("none", NoId, <<>>)
  BY <1>4 DEF At
<1>8. Chunked(view, said)
  <2>1. \A k \in 0..Len(view.messages) : At(view, k) = Message("none", NoId, <<>>)
    BY <1>2, <1>7
  <2>2. \A k \in 0..Len(view.messages) : \A j, n \in Nat : ~Says(At(view, k), j, n)
    BY <2>1, NothingShown
  <2>3. DOMAIN said = {}
    BY <1>1
  <2> QED BY <2>2, <2>3 DEF Chunked, ChunksShown, ChunksKnown, ChunksOrdered, ChunksApart
<1>9. Resulted(view)
  <2>1. \A t \in Tools : ~view.tools[t].told /\ ~view.tools[t].known
    BY <1>1 DEF NewTool
  <2> QED BY <1>2, <2>1 DEF Resulted
<1>10. Announced(said) = {}
  BY <1>1 DEF Announced, ToSet
<1>11. Called(view, Announced(said)) /\ Exact(view, Tools)
  BY <1>2, <1>10 DEF Called, Exact
<1> QED BY <1>1, <1>2, <1>3, <1>5, <1>6, <1>8, <1>9, <1>11 DEF TranscriptInv, Whole

(* What every step keeps.                                                  *)
LEMMA TranscriptSteps ==
    ASSUME TranscriptInv, TranscriptNext
    PROVE  /\ Steps(view, view', said', Announced(said'))
           /\ said' \in Seq(SaidOf) /\ loading' \in BOOLEAN /\ Len(said') <= MaxUpdates
           /\ loading # loading' => \A t \in Tools : view'.tools[t].known => view'.tools[t].told
<1> DEFINE C == Announced(said)
<1>1. /\ view \in ViewOf /\ Whole(view, said, C) /\ Exact(view, Tools) /\ said \in Seq(SaidOf)
      /\ loading \in BOOLEAN /\ Len(said) <= MaxUpdates /\ C \in SUBSET Tools
      /\ MaxUpdates \in Nat /\ Len(said) \in Nat
  BY AnnouncedTools, TranscriptAssumption DEF TranscriptInv, Whole
<1> HIDE DEF C
<1>2. ASSUME NEW x \in SaidOf, Len(said) < MaxUpdates, said' = Append(said, x)
      PROVE  said' \in Seq(SaidOf) /\ Len(said') <= MaxUpdates
  BY <1>1, <1>2
<1>3. ASSUME NEW id \in AgentIds \cup {NoId}, AgentSays(id)
      PROVE  /\ Steps(view, view', said', Announced(said'))
             /\ said' \in Seq(SaidOf) /\ Len(said') <= MaxUpdates /\ loading' = loading
  <2> DEFINE x == [kind |-> "agent", id |-> id]
  <2>1. /\ Len(said) < MaxUpdates /\ view' = AgentChunk(view, id, Len(said) + 1)
        /\ said' = Append(said, x) /\ loading' = loading
    BY <1>3 DEF AgentSays, Update
  <2>2. x \in SaidOf /\ x.kind = "agent" /\ x.id = id
    BY DEF SaidOf, AgentIds
  <2> HIDE DEF x
  <2>3. Steps(view, view', said', C)
    BY <1>1, <2>1, <2>2, AgentChunkSteps
  <2>4. Announced(said') = C
    BY <1>1, <2>1, <2>2, AnnouncedMore DEF C
  <2> QED BY <1>2, <2>1, <2>2, <2>3, <2>4
<1>4. ASSUME NEW id \in UserIds \cup {NoId}, UserSays(id)
      PROVE  /\ Steps(view, view', said', Announced(said'))
             /\ said' \in Seq(SaidOf) /\ Len(said') <= MaxUpdates /\ loading' = loading
  <2> DEFINE x == [kind |-> "user", id |-> id]
  <2>1. /\ Len(said) < MaxUpdates /\ view' = UserChunk(view, id, Len(said) + 1)
        /\ said' = Append(said, x) /\ loading' = loading
    BY <1>4 DEF UserSays, Update
  <2>2. x \in SaidOf /\ x.kind = "user"
    BY TranscriptAssumption DEF SaidOf
  <2> HIDE DEF x
  <2>3. Steps(view, view', said', C)
    BY <1>1, <2>1, <2>2, UserChunkSteps
  <2>4. Announced(said') = C
    BY <1>1, <2>1, <2>2, AnnouncedMore DEF C
  <2> QED BY <1>2, <2>1, <2>2, <2>3, <2>4
<1>5. ASSUME NEW t \in Tools, NEW mark \in Statuses \cup {"none"}, NEW says \in BOOLEAN,
             ToolCalled(t, mark, says)
      PROVE  /\ Steps(view, view', said', Announced(said'))
             /\ said' \in Seq(SaidOf) /\ Len(said') <= MaxUpdates /\ loading' = loading
  <2> DEFINE x == [kind |-> "call", id |-> t]
             content == IF says THEN Len(said) + 1 ELSE 0
  <2>1. /\ Len(said) < MaxUpdates /\ view' = ToolCall(view, t, mark, content)
        /\ said' = Append(said, x) /\ loading' = loading /\ ~view.tools[t].known
    BY <1>5 DEF ToolCalled, Update
  <2>2. x \in SaidOf /\ x.kind = "call"
    BY DEF SaidOf
  <2>3. content \in 0..MaxUpdates
    BY <1>1, <2>1
  <2>4. Announced(said') = C \cup {t}
    BY <1>1, <2>1, <2>2, AnnouncedMore DEF C
  <2> HIDE DEF x, content
  <2>5. Steps(view, view', said', C \cup {t})
    BY <1>1, <2>1, <2>2, <2>3, ToolCallSteps
  <2> QED BY <1>2, <2>1, <2>2, <2>4, <2>5
<1>6. ASSUME NEW t \in Tools, NEW mark \in Statuses \cup {"none"}, NEW says \in BOOLEAN,
             ToolUpdated(t, mark, says)
      PROVE  /\ Steps(view, view', said', Announced(said'))
             /\ said' \in Seq(SaidOf) /\ Len(said') <= MaxUpdates /\ loading' = loading
  <2> DEFINE x == [kind |-> "tool", id |-> t]
             content == IF says THEN Len(said) + 1 ELSE 0
  <2>1. /\ Len(said) < MaxUpdates /\ view' = ToolUpdate(view, t, mark, content)
        /\ said' = Append(said, x) /\ loading' = loading
    BY <1>6 DEF ToolUpdated, Update
  <2>2. x \in SaidOf /\ x.kind = "tool"
    BY DEF SaidOf
  <2>3. content \in 0..MaxUpdates
    BY <1>1, <2>1
  <2> HIDE DEF x, content
  <2>4. Announced(said') = C
    BY <1>1, <2>1, <2>2, AnnouncedMore DEF C
  <2>5. Steps(view, view', said', C)
    BY <1>1, <2>1, <2>2, <2>3, ToolUpdateSteps
  <2> QED BY <1>2, <2>1, <2>2, <2>4, <2>5
<1>7. ASSUME Loaded
      PROVE  /\ Steps(view, view', said', Announced(said'))
             /\ said' = said /\ loading' \in BOOLEAN
             /\ \A t \in Tools : view'.tools[t].known => view'.tools[t].told
  <2>1. view' = Barrier(view) /\ said' = said /\ loading' = FALSE
    BY <1>7 DEF Loaded
  <2> DEFINE w == Barrier(view)
  <2>2. Steps(view, w, said, C) /\ \A t \in Tools : w.tools[t].known => w.tools[t].told
    BY <1>1, BarrierSteps
  <2> HIDE DEF w
  <2>3. view' = w
    BY <2>1 DEF w
  <2> QED BY <2>1, <2>2, <2>3 DEF C
<1>8. ASSUME Answered
      PROVE  /\ Steps(view, view', said', Announced(said'))
             /\ said' = said /\ loading' = loading
  <2>1. view' = PromptOver(view) /\ said' = said /\ loading' = loading
    BY <1>8 DEF Answered
  <2>2. Steps(view, PromptOver(view), said, C)
    BY <1>1, PromptOverSteps
  <2> QED BY <2>1, <2>2 DEF C
<1> QED BY <1>1, <1>3, <1>4, <1>5, <1>6, <1>7, <1>8 DEF TranscriptNext, AgentIds

(* So the invariant is inductive.                                          *)
LEMMA TranscriptStays == TranscriptInv /\ [TranscriptNext]_transcriptVars => TranscriptInv'
<1> SUFFICES ASSUME TranscriptInv, [TranscriptNext]_transcriptVars PROVE TranscriptInv'
  OBVIOUS
<1>1. CASE TranscriptNext
  BY <1>1, TranscriptSteps DEF TranscriptInv, Steps
<1>2. CASE UNCHANGED transcriptVars
  <2>1. view' = view /\ loading' = loading /\ said' = said
    BY <1>2 DEF transcriptVars
  <2> QED BY <2>1 DEF TranscriptInv
<1> QED BY <1>1, <1>2

(* The types.                                                              *)
LEMMA TranscriptTyped == TranscriptInv => TranscriptTypeOK
<1> SUFFICES ASSUME TranscriptInv PROVE TranscriptTypeOK
  OBVIOUS
<1>1. /\ view \in ViewOf /\ Drafted(view) /\ Slotted(view) /\ loading \in BOOLEAN
      /\ Len(said) <= MaxUpdates
  BY DEF TranscriptInv, Whole
<1>2. ASSUME NEW m \in ToSet(view.messages)
      PROVE  /\ m.role \in {"user", "agent", "result"}
             /\ m.id \in IF m.role = "result" THEN Tools ELSE MessageIds \cup {NoId}
  <2>1. PICK i \in 1..Len(view.messages) : m = view.messages[i]
    BY <1>1, ViewTyped DEF ToSet
  <2>2. m.role \in {"user", "agent", "result"}
    BY <1>1, <2>1, ViewTyped
  <2>3. /\ m.role = "result" => m.id \in Tools
        /\ m.role # "result" => m.id \in MessageIds \cup {NoId}
    BY <1>1, <2>1 DEF Slotted
  <2> QED BY <2>2, <2>3
<1>3. \A draft \in {view.user, view.agent} : draft.slot \in 0..Len(view.messages)
  <2>1. Len(view.messages) \in Nat /\ view.user.slot = 0 /\ view.agent.slot \in 0..Len(view.messages)
    BY <1>1, ViewTyped DEF Drafted
  <2> QED BY <2>1
<1>4. view.slots \in [MessageIds -> 0..Len(view.messages)]
  <2>1. view.slots \in [MessageIds -> Nat] /\ Len(view.messages) \in Nat
    BY <1>1, ViewTyped
  <2>2. ASSUME NEW id \in MessageIds PROVE view.slots[id] \in 0..Len(view.messages)
    BY <1>1 DEF Slotted
  <2> QED BY <2>1, <2>2
<1>5. view.tools \in [Tools -> [known : BOOLEAN, told : BOOLEAN, content : 0..MaxUpdates,
                          status : Statuses \cup {"none", "interrupted"}]]
  <2>1. view.tools \in [Tools -> ToolOf]
    BY <1>1, ViewTyped
  <2>2. ToolOf = [known : BOOLEAN, told : BOOLEAN, content : 0..MaxUpdates,
                  status : Statuses \cup {"none", "interrupted"}]
    BY DEF ToolOf
  <2> QED BY <2>1, <2>2
<1> QED BY <1>1, <1>2, <1>3, <1>4, <1>5 DEF TranscriptTypeOK

(* Once the drafts are closed, the messages are what is shown.             *)
LEMMA FinalShown ==
    ASSUME TranscriptInv
    PROVE  \E w \in ViewOf :
             /\ Whole(w, said, Announced(said)) /\ Final = w.messages
             /\ \A k \in 1..Len(w.messages) : At(w, k) = w.messages[k]
             /\ \A j, n : ~Says(At(w, 0), j, n)
<1> DEFINE w == PromptOver(view)
           C == Announced(said)
<1>1. /\ view \in ViewOf /\ Whole(view, said, C) /\ Exact(view, Tools) /\ said \in Seq(SaidOf)
      /\ C \in SUBSET Tools
  BY AnnouncedTools DEF TranscriptInv, Whole
<1> HIDE DEF C
<1>2. Steps(view, w, said, C) /\ ~w.user.open /\ ~w.agent.open
  BY <1>1, PromptOverSteps
<1>3. Final = w.messages
  BY DEF Final
<1> HIDE DEF w
<1>4. w \in ViewOf /\ Whole(w, said, C)
  BY <1>2 DEF Steps, Whole
<1>5. /\ \A k \in 1..Len(w.messages) : At(w, k) = w.messages[k]
      /\ At(w, 0) = Message("none", NoId, <<>>)
  BY <1>2, <1>4, AtFields
<1> QED BY <1>3, <1>4, <1>5, NothingShown DEF C

(* Every chunk has one place.                                              *)
LEMMA ChunksOnce == TranscriptInv => SaidOnce
<1> SUFFICES ASSUME TranscriptInv PROVE SaidOnce
  OBVIOUS
<1>1. PICK w \in ViewOf : /\ Whole(w, said, Announced(said)) /\ Final = w.messages
                          /\ \A k \in 1..Len(w.messages) : At(w, k) = w.messages[k]
                          /\ \A j, n : ~Says(At(w, 0), j, n)
  BY FinalShown
<1> DEFINE ms == Final
           N == Len(ms)
<1>0. ms = w.messages
  BY <1>1
<1> HIDE DEF ms
<1>2. /\ Chunked(w, said) /\ Slotted(w) /\ N \in Nat /\ DOMAIN ms = 1..N
      /\ DOMAIN said = 1..Len(said) /\ Len(said) \in Nat
      /\ \A k \in 1..N : ms[k].parts \in Seq(PartOf)
  BY <1>0, <1>1, ViewTyped DEF TranscriptInv, Whole
<1>3. \A k \in 1..N : \A l \in DOMAIN ms[k].parts : l \in Nat /\ k \in 0..N
  BY <1>2
<1>4. \A k \in 1..N : At(w, k) = ms[k]
  BY <1>0, <1>1
<1>5. ASSUME NEW n \in DOMAIN said, said[n].kind \in {"user", "agent"}
      PROVE  \E i \in 1..N : OfKind(ms[i], said[n]) /\ \E j \in Nat : Says(ms[i], j, n)
  <2>1. PICK k \in 0..Len(w.messages) : OfKind(At(w, k), said[n]) /\ \E j \in Nat : Says(At(w, k), j, n)
    BY <1>2, <1>5 DEF Chunked, ChunksShown
  <2>2. k # 0
    BY <1>1, <2>1
  <2>3. k \in 1..N
    BY <1>0, <1>2, <2>1, <2>2
  <2> QED BY <1>4, <2>1, <2>3
<1>6. ASSUME NEW k \in 1..N, NEW l \in 1..N, NEW i \in Nat, NEW j \in Nat, NEW n \in Nat,
             Says(ms[k], i, n), Says(ms[l], j, n)
      PROVE  k = l
  <2>1. k \in 0..Len(w.messages) /\ l \in 0..Len(w.messages)
    BY <1>0, <1>2
  <2> QED BY <1>2, <1>4, <1>6, <2>1 DEF Chunked, ChunksApart
<1>7. ASSUME NEW k \in 1..N, NEW i \in Nat, NEW j \in Nat, NEW n \in Nat, NEW m \in Nat,
             Says(ms[k], i, n), Says(ms[k], j, m), i < j
      PROVE  n < m
  <2>1. k \in 0..Len(w.messages)
    BY <1>0, <1>2
  <2> QED BY <1>2, <1>4, <1>7, <2>1 DEF Chunked, ChunksOrdered
<1>8. ASSUME NEW n \in DOMAIN said, said[n].kind \in {"user", "agent"}
      PROVE  \E i \in DOMAIN ms : \E j \in DOMAIN ms[i].parts :
                /\ ms[i].role = said[n].kind
                /\ \A k \in DOMAIN ms : \A l \in DOMAIN ms[k].parts :
                      ms[k].parts[l] = <<"said", n>> <=> k = i /\ l = j
  <2>1. PICK i \in 1..N : OfKind(ms[i], said[n]) /\ \E j \in Nat : Says(ms[i], j, n)
    BY <1>5, <1>8
  <2>2. PICK j \in Nat : Says(ms[i], j, n)
    BY <2>1
  <2>3. i \in DOMAIN ms /\ j \in DOMAIN ms[i].parts /\ ms[i].parts[j] = <<"said", n>> /\ n \in Nat
    BY <1>2, <2>2 DEF Says
  <2>4. ASSUME NEW k \in DOMAIN ms, NEW l \in DOMAIN ms[k].parts, ms[k].parts[l] = <<"said", n>>
        PROVE  k = i /\ l = j
    <3>1. k \in 1..N /\ l \in Nat /\ Says(ms[k], l, n)
      BY <1>2, <1>3, <2>4 DEF Says
    <3>2. k = i
      BY <1>6, <2>2, <2>3, <3>1
    <3>3. ~(l < j) /\ ~(j < l)
      <4>1. Says(ms[i], l, n)
        BY <3>1, <3>2
      <4> QED BY <1>7, <2>2, <2>3, <3>1, <4>1
    <3> QED BY <3>1, <3>2, <3>3
  <2>5. ms[i].role = said[n].kind
    BY <2>1 DEF OfKind
  <2>6. \A k \in DOMAIN ms : \A l \in DOMAIN ms[k].parts :
          ms[k].parts[l] = <<"said", n>> <=> k = i /\ l = j
    <3>1. ASSUME NEW k \in DOMAIN ms, NEW l \in DOMAIN ms[k].parts
          PROVE  ms[k].parts[l] = <<"said", n>> <=> k = i /\ l = j
      <4>1. CASE ms[k].parts[l] = <<"said", n>>
        BY <2>4, <4>1
      <4>2. CASE k = i /\ l = j
        BY <2>3, <4>2
      <4> QED BY <4>1, <4>2, Zenon
    <3> QED BY <3>1, Zenon
  <2> QED BY <2>3, <2>5, <2>6, Zenon
<1>9. ASSUME NEW n \in DOMAIN said, NEW m \in DOMAIN said, n < m, said[n].kind = "agent",
             said[m].kind = "agent", said[n].id = said[m].id, said[n].id # NoId
      PROVE  \E i \in DOMAIN ms : Before(ms[i].parts, n, m)
  <2>1. PICK i \in 1..N : OfKind(ms[i], said[n]) /\ \E j \in Nat : Says(ms[i], j, n)
    BY <1>5, <1>9
  <2>2. PICK k \in 1..N : OfKind(ms[k], said[m]) /\ \E j \in Nat : Says(ms[k], j, m)
    BY <1>5, <1>9
  <2>3. i = k
    <3>1. /\ ms[i].role = "agent" /\ ms[k].role = "agent" /\ ms[i].id = said[n].id
          /\ ms[k].id = said[n].id
      BY <1>9, <2>1, <2>2 DEF OfKind
    <3>2. w.slots[ms[i].id] = i /\ w.slots[ms[k].id] = k
      BY <1>0, <1>2, <1>9, <3>1 DEF Slotted
    <3> QED BY <3>1, <3>2
  <2>4. PICK a \in Nat : Says(ms[i], a, n)
    BY <2>1
  <2>5. PICK b \in Nat : Says(ms[i], b, m)
    BY <2>2, <2>3
  <2>6. /\ a \in DOMAIN ms[i].parts /\ ms[i].parts[a] = <<"said", n>>
        /\ b \in DOMAIN ms[i].parts /\ ms[i].parts[b] = <<"said", m>> /\ n \in Nat /\ m \in Nat
    BY <1>2, <2>4, <2>5 DEF Says
  <2>7. a # b
    <3>1. a = b => n = m
      BY <2>6, SameNumber
    <3> QED BY <1>9, <2>6, <3>1
  <2>8. ~(b < a)
    BY <1>7, <1>9, <2>4, <2>5, <2>6
  <2>9. a < b
    BY <2>7, <2>8
  <2>10. Before(ms[i].parts, n, m)
    BY <2>6, <2>9 DEF Before
  <2> QED BY <1>2, <2>10
<1>10. \A n \in DOMAIN said : said[n].kind \in {"user", "agent"} =>
            \E i \in DOMAIN ms : \E j \in DOMAIN ms[i].parts :
                /\ ms[i].role = said[n].kind
                /\ \A k \in DOMAIN ms : \A l \in DOMAIN ms[k].parts :
                      ms[k].parts[l] = <<"said", n>> <=> k = i /\ l = j
  BY <1>8, Zenon
<1>11. \A n, m \in DOMAIN said :
            (/\ n < m /\ said[n].kind = "agent" /\ said[m].kind = "agent"
             /\ said[n].id = said[m].id /\ said[n].id # NoId) =>
               \E i \in DOMAIN ms : Before(ms[i].parts, n, m)
  BY <1>9, Zenon
<1> QED BY <1>10, <1>11, Zenon DEF SaidOnce, ms

(* A call that ended has its one result.                                   *)
LEMMA ResultsAreTrue == TranscriptInv => ResultsTrue
<1> SUFFICES ASSUME TranscriptInv, NEW t \in Tools
             PROVE  /\ Cardinality(Results(t)) = IF view.tools[t].told THEN 1 ELSE 0
                    /\ \A i \in Results(t) : view.messages[i] = Outcome(view, t)
  BY DEF ResultsTrue
<1>1. view \in ViewOf /\ Resulted(view) /\ Exact(view, Tools)
  BY DEF TranscriptInv, Whole
<1>2. \A i : i \in Results(t) <=> i \in 1..Len(view.messages) /\ IsResult(view.messages[i], t)
  BY <1>1, ViewTyped DEF Results, IsResult
<1>3. CASE view.tools[t].told
  <2>1. PICK i \in 1..Len(view.messages) : IsResult(view.messages[i], t)
    BY <1>1, <1>3 DEF Resulted
  <2>2. \A j \in Results(t) : j = i
    BY <1>1, <1>2, <2>1 DEF Resulted
  <2>3. i \in Results(t)
    BY <1>2, <2>1
  <2>4. Results(t) = {i}
    BY <2>2, <2>3
  <2>5. Cardinality({i}) = 1
    BY FS_Singleton
  <2>6. Cardinality(Results(t)) = 1
    BY <2>4, <2>5
  <2> QED BY <1>1, <1>2, <1>3, <2>6 DEF Exact
<1>4. CASE ~view.tools[t].told
  <2>1. \A i : i \notin Results(t)
    BY <1>1, <1>2, <1>4 DEF Resulted
  <2>2. Results(t) = {}
    BY <2>1
  <2>3. Cardinality({}) = 0
    BY FS_EmptySet
  <2>4. Cardinality(Results(t)) = 0
    BY <2>2, <2>3
  <2> QED BY <1>4, <2>1, <2>4
<1>5. view.tools[t].told \in BOOLEAN
  <2>1. view.tools[t] \in ToolOf
    BY <1>1, ViewTyped
  <2> QED BY <2>1 DEF ToolOf
<1> QED BY <1>3, <1>4, <1>5

(* The message that calls comes before the result.                         *)
LEMMA CallsAreFirst == TranscriptInv => CallFirst
<1> SUFFICES ASSUME TranscriptInv, NEW t \in Tools, [kind |-> "call", id |-> t] \in ToSet(said),
                    NEW i \in Results(t)
             PROVE  \E j \in 1..(i - 1) : <<"call", t>> \in ToSet(view.messages[j].parts)
  BY DEF CallFirst
<1>1. view \in ViewOf /\ Called(view, Announced(said)) /\ t \in Announced(said)
  BY DEF TranscriptInv, Whole, Announced
<1>2. i \in 1..Len(view.messages) /\ IsResult(view.messages[i], t) /\ Len(view.messages) \in Nat
  BY <1>1, ViewTyped DEF Results, IsResult
<1>3. PICK j \in 1..Len(view.messages) : j < i /\ Calls(view.messages[j], t)
  BY <1>1, <1>2 DEF Called
<1>4. j \in 1..(i - 1)
  BY <1>2, <1>3
<1>5. <<"call", t>> \in ToSet(view.messages[j].parts)
  BY <1>3 DEF Calls, ToSet
<1> QED BY <1>4, <1>5

(* What TranscriptInv says of the transcript.                                       *)
LEMMA TInvSafe == TranscriptInv => TranscriptSafe
BY TranscriptTyped, ChunksOnce, ResultsAreTrue, CallsAreFirst DEF TranscriptSafe

(* A message is only ever continued, and keeps its place.                  *)
HistoryGrowsStep ==
    /\ Len(view'.messages) >= Len(view.messages)
    /\ \A i \in DOMAIN view.messages :
         LET old == view.messages[i] new == view'.messages[i]
         IN  /\ new.role = old.role /\ new.id = old.id
             /\ old.role # "result" => IsPrefix(old.parts, new.parts)

(* No step takes a message away or rewrites it.                            *)
LEMMA HistoryGrowsOn == TranscriptInv /\ TranscriptNext => HistoryGrowsStep
<1> SUFFICES ASSUME TranscriptInv, TranscriptNext PROVE HistoryGrowsStep
  OBVIOUS
<1> DEFINE w == view'
<1>1. view \in ViewOf /\ w \in ViewOf /\ Grows(view, w)
  BY TranscriptSteps DEF TranscriptInv, Steps, Whole
<1> HIDE DEF w
<1>2. /\ Len(view.messages) \in Nat /\ Len(w.messages) \in Nat
      /\ DOMAIN view.messages = 1..Len(view.messages)
      /\ Len(view.messages) <= Len(w.messages)
  BY <1>1, ViewTyped DEF Grows
<1>3. ASSUME NEW i \in 1..Len(view.messages)
      PROVE  /\ w.messages[i].role = view.messages[i].role /\ w.messages[i].id = view.messages[i].id
             /\ view.messages[i].role # "result" =>
                  IsPrefix(view.messages[i].parts, w.messages[i].parts)
  <2>1. /\ w.messages[i].role = view.messages[i].role /\ w.messages[i].id = view.messages[i].id
        /\ view.messages[i].role # "result" => Leads(view.messages[i].parts, w.messages[i].parts)
    BY <1>1 DEF Grows
  <2>2. view.messages[i].parts \in Seq(PartOf) /\ w.messages[i].parts \in Seq(PartOf)
    <3>1. i \in 1..Len(w.messages)
      BY <1>2
    <3> QED BY <1>1, <3>1, ViewTyped
  <2> QED BY <2>1, <2>2, LeadsIsPrefix
<1> QED BY <1>2, <1>3 DEF HistoryGrowsStep, w

(* The invariant of the transcript: what is shown at each place.           *)
THEOREM TranscriptKeepsInv == TranscriptSpec => []TranscriptInv
BY TranscriptStarts, TranscriptStays, PTL DEF TranscriptSpec

(* Whatever comes between two chunks, nothing that was said is lost or     *)
(* shown twice, and every result is its call's and comes after it.         *)
THEOREM TranscriptIsSafe == TranscriptSpec => []TranscriptSafe
BY TranscriptKeepsInv, TInvSafe, PTL

(* What the view was given stays.                                          *)
THEOREM HistoryOnlyGrows == TranscriptSpec => HistoryGrows
<1>1. TranscriptInv /\ [TranscriptNext]_transcriptVars => [HistoryGrowsStep]_transcriptVars
  BY HistoryGrowsOn
<1>2. [][HistoryGrowsStep]_transcriptVars <=> HistoryGrows
  BY DEF HistoryGrows, HistoryGrowsStep
<1> QED BY <1>1, <1>2, TranscriptKeepsInv, PTL DEF TranscriptSpec

(* When a load is over every call of the history has its result.           *)
THEOREM LoadsEnd == TranscriptSpec => LoadEndsCalls
<1>1. TranscriptInv /\ [TranscriptNext]_transcriptVars =>
        [loading # loading' => \A t \in Tools : view'.tools[t].known => view'.tools[t].told]_transcriptVars
  BY TranscriptSteps
<1> QED BY <1>1, TranscriptKeepsInv, PTL DEF TranscriptSpec, LoadEndsCalls
=============================================================================
