----------------------------- MODULE HostProofs -----------------------------
(***************************************************************************)
(* Proofs about the components that live as long as the host: the          *)
(* background jobs, remote workspaces, the hooks around an edit and the    *)
(* registry of diagnostics.  They hold for any finite set of calls, any    *)
(* number of connects, edits and texts, and any caps.                      *)
(*                                                                         *)
(* Background.  The latch is closed exactly when a job that still runs has *)
(* been told as cancelled, what a run is finalized as follows from how it  *)
(* ended as long as nobody has aborted it, and a call is over only when    *)
(* its record has its verdict.                                             *)
(*                                                                         *)
(* Remote.  How far a connect has come says what its connection is, and as *)
(* long as no two connects were under way at once, the connection a        *)
(* connect is to replace is the one in use.                                *)
(*                                                                         *)
(* EditHooks.  Who changes the file is first in its queue, and so has all  *)
(* the edits made before; one text at most is on its way to the server.    *)
(*                                                                         *)
(* Diagnostics.  The properties are inductive as they stand.               *)
(***************************************************************************)
EXTENDS Background, Remote, Diagnostics, EditHooks,
        FiniteSetTheorems, WellFoundedInduction, TLAPS

(* Of numbers, one is the least.                                           *)
LEMMA LeastNumber ==
    ASSUME NEW T, T \subseteq Nat, T # {}
    PROVE  \E x \in T : \A y \in T : x <= y
<1>1. PICK x \in T : \A y \in T : ~ (<<y, x>> \in OpToRel(<, Nat))
    BY NatLessThanWellFounded, WFMin
<1>2. ASSUME NEW y \in T PROVE x <= y
    <2>1. ~ (<<y, x>> \in {ss \in Nat \X Nat : ss[1] < ss[2]})
        BY <1>1 DEF OpToRel
    <2> QED
        BY <2>1
<1> QED
    BY <1>2

-----------------------------------------------------------------------------
(* Background jobs.                                                        *)
(* A call is told once: when it is over, or before by cancelAll.           *)
Telling == \A c \in Calls :
    /\ told[c] \in {0, 1}
    /\ told[c] = 1 => c \in settled \/ phase[c] = "over"
    /\ told[c] = 0 => said[c] = "nothing"
    /\ phase[c] # "over" /\ c \in settled => said[c] = "cancelled"
    /\ c \in settled => told[c] = 1 /\ (phase[c] = "over" \/ c \in Jobs)
    /\ phase[c] = "over" => told[c] = 1 \/ (c \in lost /\ lane[c] = "background")

(* Only durable runs are claimed and finalized.                            *)
Finalizing ==
    /\ claimed \subseteq kept
    /\ \A c \in Calls : phase[c] \in {"refused", "ending", "recorded"} =>
         c \in kept /\ verdict[c] \in Statuses

(* The verdict of a run that nobody aborted.                               *)
Verdicts == \A c \in Calls : phase[c] \in {"ending", "recorded"} /\ ~Aborted(c) =>
    verdict[c] = IF ended[c] = "ok" THEN "completed" ELSE "failed"

(* What the record says.                                                   *)
Recording == \A c \in kept :
    /\ phase[c] = "recorded" => onRecord[c] = verdict[c]
    /\ phase[c] = "over" => onRecord[c] \in Statuses \/ c \in lost

Draining == host = "idle" => Jobs \subseteq late

IInv == /\ BackgroundTypeOK /\ Telling /\ Finalizing /\ Verdicts /\ Recording
        /\ Draining /\ ToldAsRecorded /\ NoClaimKept

LEMMA InitIInv == BackgroundInit => IInv
BY DEF BackgroundInit, IInv, BackgroundTypeOK, Telling, Finalizing, Verdicts, Recording,
       Draining, ToldAsRecorded, NoClaimKept, Jobs, Aborted, Statuses

(* What the flags and the word of a run may be.                            *)
LEMMA FlagsAre ==
    ASSUME BackgroundTypeOK, NEW c \in Calls, NEW how \in {"ok", "error", "thrown"}
    PROVE  /\ Flags(c, how) \in Statuses
           /\ ~Aborted(c) => Flags(c, how) = IF how = "ok" THEN "completed" ELSE "failed"
BY DEF Flags, OfOrigin, Statuses, Aborted, BackgroundTypeOK

LEMMA WordIs ==
    ASSUME BackgroundTypeOK, NEW c \in Calls, NEW how \in {"ok", "error", "thrown", "no"},
           NEW flags \in Statuses
    PROVE  /\ Word(c, how, flags) \in Statuses \cup {"error"}
           /\ /\ ~Aborted(c) => flags = IF how = "ok" THEN "completed" ELSE "failed"
              /\ Word(c, how, flags) \in {"completed", "failed"}
              => Word(c, how, flags) = flags
BY DEF Word, OfOrigin, Statuses, Aborted, BackgroundTypeOK

LEMMA StepIInv == IInv /\ [BackgroundNext]_backgroundVars => IInv'
<1> SUFFICES ASSUME IInv, [BackgroundNext]_backgroundVars PROVE IInv'
    OBVIOUS
<1> USE DEF IInv
<1>1. ASSUME NEW c \in Calls, Begin(c) PROVE IInv'
    BY <1>1 DEF Begin, kinds, hostVars, BackgroundTypeOK, Telling, Finalizing, Verdicts,
       Recording, Draining, ToldAsRecorded, NoClaimKept, Jobs, Aborted, Statuses
<1>2. ASSUME NEW c \in Calls, RunForeground(c) PROVE IInv'
    BY <1>2 DEF RunForeground, kinds, hostVars, BackgroundTypeOK, Telling, Finalizing,
       Verdicts, Recording, Draining, ToldAsRecorded, NoClaimKept, Jobs, Aborted, Statuses
<1>3. ASSUME NEW c \in Calls, Launch(c) PROVE IInv'
    BY <1>3 DEF Launch, kinds, hostVars, BackgroundTypeOK, Telling, Finalizing, Verdicts,
       Recording, Draining, ToldAsRecorded, NoClaimKept, Jobs, Aborted, Statuses
<1>4. ASSUME NEW c \in Calls, Refuse(c) PROVE IInv'
  <2>1. OfOrigin(origin[c]) \in Statuses
      BY DEF OfOrigin, Statuses
  <2>2. CASE c \in kept
      BY <1>4, <2>1, <2>2 DEF Refuse, Tell, kinds, hostVars, BackgroundTypeOK, Telling,
         Finalizing, Verdicts, Recording, Draining, ToldAsRecorded, NoClaimKept, Jobs,
         Aborted, Statuses
  <2>3. CASE c \notin kept
      BY <1>4, <2>3 DEF Refuse, Tell, kinds, hostVars, BackgroundTypeOK, Telling,
         Finalizing, Verdicts, Recording, Draining, ToldAsRecorded, NoClaimKept, Jobs,
         Aborted, Statuses
  <2> QED BY <2>2, <2>3
<1>5. ASSUME NEW c \in Calls, Recorded(c) PROVE IInv'
    BY <1>5 DEF Recorded, kinds, hostVars, BackgroundTypeOK, Telling, Finalizing, Verdicts,
       Recording, Draining, ToldAsRecorded, NoClaimKept, Jobs, Aborted, Statuses
<1>6. ASSUME NEW c \in Calls, Answered(c) PROVE IInv'
  <2> DEFINE w == Word(c, ended[c], verdict[c])
  <2>1. /\ c \in kept /\ verdict[c] \in Statuses /\ onRecord[c] = verdict[c]
        /\ ~Aborted(c) => verdict[c] = IF ended[c] = "ok" THEN "completed" ELSE "failed"
        /\ ended[c] \in {"ok", "error", "thrown", "no"}
      BY <1>6 DEF Answered, Finalizing, Recording, Verdicts, BackgroundTypeOK
  <2>2. /\ w \in Statuses \cup {"error"}
        /\ w \in {"completed", "failed"} => w = onRecord[c]
      BY <2>1, WordIs
  <2> HIDE DEF w
  <2>3. CASE c \in settled
      BY <1>6, <2>1, <2>3 DEF Answered, Finish, kinds, hostVars, BackgroundTypeOK, Telling,
         Finalizing, Verdicts, Recording, Draining, ToldAsRecorded, NoClaimKept, Jobs,
         Aborted, Statuses
  <2>4. CASE c \notin settled
    <3>1. Tell(c, w)
        BY <1>6, <2>4 DEF Answered, Finish, w
    <3> QED BY <1>6, <2>1, <2>2, <2>4, <3>1 DEF Answered, Finish, Tell, kinds, hostVars,
         BackgroundTypeOK, Telling, Finalizing, Verdicts, Recording, Draining,
         ToldAsRecorded, NoClaimKept, Jobs, Aborted, Statuses
  <2> QED BY <2>3, <2>4
<1>7. ASSUME NEW c \in Calls, RefusalRecorded(c) PROVE IInv'
    BY <1>7 DEF RefusalRecorded, Tell, kinds, hostVars, BackgroundTypeOK, Telling,
       Finalizing, Verdicts, Recording, Draining, ToldAsRecorded, NoClaimKept, Jobs,
       Aborted, Statuses
<1>8. ASSUME NEW c \in Calls, FinalizeFails(c) PROVE IInv'
    BY <1>8 DEF FinalizeFails, Tell, kinds, hostVars, BackgroundTypeOK, Telling,
       Finalizing, Verdicts, Recording, Draining, ToldAsRecorded, NoClaimKept, Jobs,
       Aborted, Statuses
<1>9. ASSUME NEW c \in Calls, UserAborts(c) PROVE IInv'
    BY <1>9 DEF UserAborts, kinds, hostVars, BackgroundTypeOK, Telling, Finalizing,
       Verdicts, Recording, Draining, ToldAsRecorded, NoClaimKept, Jobs, Aborted, Statuses
<1>10. ASSUME NEW c \in Calls, NEW how \in {"ok", "error", "thrown"}, RunEnds(c, how)
       PROVE IInv'
  <2> DEFINE f == Flags(c, how)
             w == Word(c, how, f)
  <2>1. f \in Statuses /\ (~Aborted(c) => f = IF how = "ok" THEN "completed" ELSE "failed")
      BY FlagsAre
  <2>2. w \in Statuses \cup {"error"}
      BY <2>1, WordIs
  <2>3. CASE c \in kept
    <3> HIDE DEF f, w
    <3>1. verdict' = [verdict EXCEPT ![c] = f]
        BY <1>10 DEF RunEnds, f
    <3> QED BY <1>10, <2>1, <2>3, <3>1 DEF RunEnds, kinds, hostVars, BackgroundTypeOK,
         Telling, Finalizing, Verdicts, Recording, Draining, ToldAsRecorded, NoClaimKept,
         Jobs, Aborted, Statuses
  <2>4. CASE c \notin kept
    <3>1. /\ verdict' = [verdict EXCEPT ![c] = f]
          /\ settled' = settled \cup {c} /\ phase' = [phase EXCEPT ![c] = "over"]
          /\ c \in settled => UNCHANGED <<told, said>>
          /\ c \notin settled => Tell(c, w)
        BY <1>10, <2>4 DEF RunEnds, Finish
    <3> HIDE DEF f, w
    <3> QED BY <1>10, <2>1, <2>2, <2>4, <3>1 DEF RunEnds, Tell, kinds, hostVars,
         BackgroundTypeOK, Telling, Finalizing, Verdicts, Recording, Draining,
         ToldAsRecorded, NoClaimKept, Jobs, Aborted, Statuses
  <2> QED BY <2>3, <2>4
<1>11. ASSUME CancelAll PROVE IInv'
  <2>1. \A c \in Calls : c \in Running => phase[c] # "over" /\ told[c] = 0
      BY DEF Running, Jobs, Telling
  <2> QED BY <1>11, <2>1 DEF CancelAll, Running, kinds, BackgroundTypeOK, Telling,
         Finalizing, Verdicts, Recording, Draining, ToldAsRecorded, NoClaimKept, Jobs,
         Aborted, Statuses
<1>12. ASSUME Drain PROVE IInv'
    BY <1>12 DEF Drain, callVars, kinds, BackgroundTypeOK, Telling, Finalizing, Verdicts,
       Recording, Draining, ToldAsRecorded, NoClaimKept, Jobs, Aborted, Statuses
<1>13. ASSUME UNCHANGED backgroundVars PROVE IInv'
    BY <1>13 DEF backgroundVars, callVars, kinds, hostVars, BackgroundTypeOK, Telling,
       Finalizing, Verdicts, Recording, Draining, ToldAsRecorded, NoClaimKept, Jobs,
       Aborted, Statuses
<1> QED BY <1>1, <1>2, <1>3, <1>4, <1>5, <1>6, <1>7, <1>8, <1>9, <1>10, <1>11, <1>12, <1>13
        DEF BackgroundNext, Step

LEMMA SpecIInv == BackgroundSpec => []IInv
BY InitIInv, StepIInv, PTL DEF BackgroundSpec

(* The values every variable may have.                                     *)
THEOREM BackgroundTyped == BackgroundSpec => []BackgroundTypeOK
BY SpecIInv, PTL DEF IInv

(* The end of a call is told once, whoever cancels, aborts or ends it.     *)
THEOREM BackgroundToldOnce == BackgroundSpec => []ToldOnce
<1>1. IInv => ToldOnce
    BY DEF IInv, Telling, ToldOnce
<1> QED BY <1>1, SpecIInv, PTL

(* Only a job whose end fails to be recorded ends in silence.              *)
THEOREM BackgroundNoSilentEnd == BackgroundSpec => []NoSilentEnd
<1>1. IInv => NoSilentEnd
    BY DEF IInv, Telling, NoSilentEnd
<1> QED BY <1>1, SpecIInv, PTL

(* The session is told what the record says.                               *)
THEOREM BackgroundToldAsRecorded == BackgroundSpec => []ToldAsRecorded
BY SpecIInv, PTL DEF IInv

(* A call that is over has left no claim.                                  *)
THEOREM BackgroundNoClaimKept == BackgroundSpec => []NoClaimKept
BY SpecIInv, PTL DEF IInv

(* Past the shutdown every job of before is on record.                     *)
THEOREM BackgroundDrained == BackgroundSpec => []DrainedIsRecorded
<1>1. IInv => DrainedIsRecorded
    BY DEF IInv, BackgroundTypeOK, Draining, Recording, DrainedIsRecorded, Jobs
<1> QED BY <1>1, SpecIInv, PTL

(* A step adds at most one running job, and only below the limit.          *)
LEMMA StepLimit == IInv /\ LimitHeld /\ [BackgroundNext]_backgroundVars => LimitHeld'
<1> SUFFICES ASSUME IInv, LimitHeld, [BackgroundNext]_backgroundVars PROVE LimitHeld'
    OBVIOUS
<1>1. IsFiniteSet(Running) /\ Cardinality(Running) \in Nat
    BY BackgroundAssumption, FS_Subset, FS_CardinalityType DEF Running, Jobs
<1>2. ASSUME NEW c \in Calls, Launch(c) PROVE LimitHeld'
  <2>1. Running' \subseteq Running \cup {c}
      BY <1>2 DEF Launch, Running, Jobs, kinds, IInv, BackgroundTypeOK
  <2>2. /\ IsFiniteSet(Running \cup {c})
        /\ Cardinality(Running \cup {c}) <= Cardinality(Running) + 1
    <3>1. /\ IsFiniteSet(Running \cup {c})
          /\ \/ Cardinality(Running \cup {c}) = Cardinality(Running)
             \/ Cardinality(Running \cup {c}) = Cardinality(Running) + 1
        BY <1>1, FS_AddElement
    <3> QED BY <1>1, <3>1
  <2>3. Cardinality(Running') <= Cardinality(Running \cup {c}) /\ IsFiniteSet(Running')
      BY <2>1, <2>2, FS_Subset
  <2>4. Cardinality(Running') \in Nat /\ Cardinality(Running \cup {c}) \in Nat
      BY <2>2, <2>3, FS_CardinalityType
  <2>5. Cardinality(Running) < MaxJobs
      BY <1>2 DEF Launch
  <2> QED BY <1>1, <2>2, <2>3, <2>4, <2>5, BackgroundAssumption DEF LimitHeld
<1>3. ASSUME ~(\E c \in Calls : Launch(c)) PROVE Running' \subseteq Running
  <2> USE DEF Running, Jobs, IInv, BackgroundTypeOK
  <2>1. ASSUME NEW c \in Calls, Begin(c) PROVE Running' \subseteq Running
      BY <2>1 DEF Begin, kinds
  <2>2. ASSUME NEW c \in Calls, RunForeground(c) PROVE Running' \subseteq Running
      BY <2>2 DEF RunForeground, kinds
  <2>3. ASSUME NEW c \in Calls, Refuse(c) PROVE Running' \subseteq Running
      BY <2>3 DEF Refuse, kinds
  <2>4. ASSUME NEW c \in Calls, Recorded(c) PROVE Running' \subseteq Running
      BY <2>4 DEF Recorded, kinds
  <2>5. ASSUME NEW c \in Calls, Answered(c) PROVE Running' \subseteq Running
      BY <2>5 DEF Answered, Finish, kinds
  <2>6. ASSUME NEW c \in Calls, RefusalRecorded(c) PROVE Running' \subseteq Running
      BY <2>6 DEF RefusalRecorded, kinds
  <2>7. ASSUME NEW c \in Calls, FinalizeFails(c) PROVE Running' \subseteq Running
      BY <2>7 DEF FinalizeFails, kinds
  <2>8. ASSUME NEW c \in Calls, UserAborts(c) PROVE Running' \subseteq Running
      BY <2>8 DEF UserAborts, kinds
  <2>9. ASSUME NEW c \in Calls, NEW how \in {"ok", "error", "thrown"}, RunEnds(c, how)
        PROVE Running' \subseteq Running
      BY <2>9 DEF RunEnds, Finish, kinds
  <2>10. ASSUME CancelAll PROVE Running' \subseteq Running
      BY <2>10 DEF CancelAll, kinds
  <2>11. ASSUME Drain \/ UNCHANGED backgroundVars PROVE Running' \subseteq Running
      BY <2>11 DEF Drain, backgroundVars, callVars, kinds
  <2> QED BY <1>3, <2>1, <2>2, <2>3, <2>4, <2>5, <2>6, <2>7, <2>8, <2>9, <2>10, <2>11
          DEF BackgroundNext, Step
<1>4. ASSUME Running' \subseteq Running PROVE LimitHeld'
  <2>1. Cardinality(Running') <= Cardinality(Running) /\ IsFiniteSet(Running')
      BY <1>1, <1>4, FS_Subset
  <2>2. Cardinality(Running') \in Nat
      BY <2>1, FS_CardinalityType
  <2> QED BY <1>1, <2>1, <2>2, BackgroundAssumption DEF LimitHeld
<1> QED BY <1>2, <1>3, <1>4

(* Never more running jobs than the limit, whatever it is.                 *)
THEOREM BackgroundLimitHeld == BackgroundSpec => []LimitHeld
<1>1. BackgroundInit => LimitHeld
  <2> SUFFICES ASSUME BackgroundInit PROVE LimitHeld
      OBVIOUS
  <2>1. Running = {}
      BY DEF BackgroundInit, Running, Jobs
  <2> QED BY <2>1, FS_EmptySet, BackgroundAssumption DEF LimitHeld
<1> QED BY <1>1, SpecIInv, StepLimit, PTL DEF BackgroundSpec

(* The end of a call is told, once, and as it is on record.                *)
THEOREM EndsAreTold == BackgroundSpec => []EndIsTold
BY BackgroundToldOnce, BackgroundNoSilentEnd, BackgroundToldAsRecorded, PTL DEF EndIsTold

(* The limit holds, no claim is kept and the shutdown waits for the        *)
(* records.                                                                *)
THEOREM JobsAreKept == BackgroundSpec => []JobsKept
BY BackgroundTyped, BackgroundLimitHeld, BackgroundNoClaimKept, BackgroundDrained, PTL DEF JobsKept

-----------------------------------------------------------------------------
(* Remote workspaces.                                                      *)
(* As long as no two connects were under way at once, the one that is      *)
(* under way replaces the connection in use.                               *)
OneConnect == \A c, d \in Pending : c = d

(* How far a connect has come says what its connection is.                 *)
SocketsFollow == \A c \in Connects :
    /\ conn[c] \in {"idle", "creating"} => socket[c] = "none"
    /\ conn[c] = "asking" => socket[c] = "open"
    /\ conn[c] = "replacing" => before[c] # NoHost
    /\ conn[c] = "replacing" /\ socket[c] = "open" => resolved = c

(* What a connect replaces is an older connection: the one in use, unless  *)
(* the session has ended meanwhile.                                        *)
ReplacesCurrent ==
    /\ resolved # NoHost => conn[resolved] \in {"replacing", "done"}
    /\ \A c \in Pending : before[c] # NoHost => conn[before[c]] = "done"
    /\ \A c \in Connects : conn[c] \in {"creating", "asking"} =>
          resolved \in {NoHost, before[c]} /\ (session = "open" => resolved = before[c])

(* A failure is one of a session without a connection.                     *)
FailedIsBare == failure /\ session = "open" => resolved = NoHost

(* Somebody waits for every connection that closes.                        *)
ClosingIsAwaited == \A d \in Connects : socket[d] = "closing" =>
    \/ session = d
    \/ conn[d] = "giving up"
    \/ \E c \in Connects : conn[c] = "replacing" /\ before[c] = d

(* A session that ended while no connect was under way has no connection.  *)
EndedIsBare == session # "open" /\ ~belated => resolved = NoHost /\ Pending = {}

(* A switch of directory knows the connection it began on.                 *)
SwitchesOn == \A m \in Moves : move[m].at # "idle" => move[m].on # NoHost

OneByOne ==
    /\ OneConnect /\ SocketsFollow /\ ReplacesCurrent
    /\ FailedIsBare /\ ClosingIsAwaited /\ EndedIsBare
    /\ ConnectionWorks /\ NoneLeftOpen /\ ShownIsCurrent

RemoteInv == RemoteTypeOK /\ SwitchesOn /\ (~overlap => OneByOne)

LEMMA ClosingOfType ==
    ASSUME NEW s \in [Connects -> {"none", "open", "closing", "closed"}], NEW h \in Hosts
    PROVE  /\ ClosingOf(h, s) \in [Connects -> {"none", "open", "closing", "closed"}]
           /\ \A c \in Connects : ClosingOf(h, s)[c] =
                 IF c = h /\ s[c] = "open" THEN "closing" ELSE s[c]
BY RemoteAssumption DEF ClosingOf, Hosts

LEMMA RemoteInitial == RemoteInit => RemoteInv
<1> SUFFICES ASSUME RemoteInit PROVE RemoteInv
    OBVIOUS
<1> USE RemoteAssumption DEF RemoteInit
<1>1. RemoteTypeOK
    BY DEF RemoteTypeOK, Hosts
<1>2. Pending = {}
    BY DEF Pending, Busy
<1>3. SwitchesOn
    BY DEF SwitchesOn
<1>4. OneConnect /\ SocketsFollow /\ ReplacesCurrent /\ FailedIsBare /\ ClosingIsAwaited /\ EndedIsBare
    BY <1>2 DEF OneConnect, SocketsFollow, ReplacesCurrent, FailedIsBare, ClosingIsAwaited, EndedIsBare
<1>5. ConnectionWorks /\ NoneLeftOpen /\ ShownIsCurrent
    BY <1>2 DEF ConnectionWorks, NoneLeftOpen, ShownIsCurrent
<1> QED
    BY <1>1, <1>3, <1>4, <1>5 DEF RemoteInv, OneByOne

LEMMA WireType ==
    ASSUME NEW c \in Connects, NEW d \in Dirs, RemoteInv, conn[c] \in {"creating", "asking"}, Wire(c, d)
    PROVE  RemoteTypeOK'
<1> USE DEF RemoteInv, RemoteTypeOK
<1>1. conn' \in [Connects -> Busy \cup {"idle", "done", "failed"}]
    BY DEF Wire, Busy
<1>2. socket' \in [Connects -> {"none", "open", "closing", "closed"}]
    <2>1. [socket EXCEPT ![c] = "open"] \in [Connects -> {"none", "open", "closing", "closed"}]
        OBVIOUS
    <2> QED
        BY <2>1, ClosingOfType DEF Wire
<1>3. dir' \in [Connects -> Dirs] /\ shown' \in Connects \X Dirs
    BY DEF Wire
<1> QED
    BY <1>1, <1>2, <1>3 DEF Wire, Hosts

LEMMA RemoteTypeStep == RemoteInv /\ [RemoteNext]_remoteVars => RemoteTypeOK'
<1> SUFFICES ASSUME RemoteInv, [RemoteNext]_remoteVars PROVE RemoteTypeOK'
    OBVIOUS
<1> USE DEF RemoteInv, RemoteTypeOK
<1>1. ASSUME NEW c \in Connects, Connect(c) PROVE RemoteTypeOK'
    BY <1>1 DEF Connect, Busy
<1>2. ASSUME NEW c \in Connects, Created(c) PROVE RemoteTypeOK'
    BY <1>2, WireType DEF Created, Busy
<1>3. ASSUME NEW c \in Connects, PwdAnswered(c) PROVE RemoteTypeOK'
    BY <1>3, WireType DEF PwdAnswered
<1>4. ASSUME NEW c \in Connects, ConnectFails(c) PROVE RemoteTypeOK'
    <2>1. socket' \in [Connects -> {"none", "open", "closing", "closed"}]
        BY <1>4, ClosingOfType DEF ConnectFails, Hosts
    <2>2. conn' \in [Connects -> Busy \cup {"idle", "done", "failed"}]
        BY <1>4 DEF ConnectFails, Busy
    <2> QED
        BY <1>4, <2>1, <2>2 DEF ConnectFails
<1>5. ASSUME NEW c \in Connects, SocketCloses(c) \/ Returns(c) PROVE RemoteTypeOK'
    BY <1>5 DEF SocketCloses, Returns, Busy
<1>6. CASE SessionEnds
    <2>1. socket' \in [Connects -> {"none", "open", "closing", "closed"}]
        BY <1>6, ClosingOfType DEF SessionEnds
    <2> QED
        BY <1>6, <2>1 DEF SessionEnds, Hosts
<1>7. CASE SessionEnded
    BY <1>7 DEF SessionEnded
<1>8. ASSUME NEW m \in Moves, MoveBegins(m) \/ Picked(m) \/ Moved(m) PROVE RemoteTypeOK'
    <2>1. move' \in [Moves -> [at : {"idle", "picking", "asking", "done"}, on : Hosts]]
        BY <1>8 DEF MoveBegins, Picked, Moved
    <2>2. dir' \in [Connects -> Dirs] /\ shown' \in (Connects \X Dirs) \cup {<<"nothing">>, <<"failed">>}
        <3>1. CASE Moved(m)
            BY <3>1 DEF Moved, Hosts, SwitchesOn
        <3> QED
            BY <1>8, <3>1 DEF MoveBegins, Picked
    <2> QED
        BY <1>8, <2>1, <2>2 DEF MoveBegins, Picked, Moved, links
<1>9. ASSUME NEW u \in Uses, CallTool(u) \/ CallBash(u) PROVE RemoteTypeOK'
    <2>1. use' \in [Uses -> [at : Hosts \cup {"none", "error"}, broken : BOOLEAN]]
        BY <1>9 DEF CallTool, CallBash
    <2> QED
        BY <1>9, <2>1 DEF CallTool, CallBash, links
<1>10. CASE UNCHANGED remoteVars
    BY <1>10 DEF remoteVars
<1> QED
    BY <1>1, <1>2, <1>3, <1>4, <1>5, <1>6, <1>7, <1>8, <1>9, <1>10 DEF RemoteNext, RemoteStep

LEMMA WireKeeps ==
    ASSUME NEW c \in Connects, NEW d \in Dirs, RemoteInv, ~overlap,
           conn[c] \in {"creating", "asking"}, Wire(c, d)
    PROVE  OneByOne'
<1> USE RemoteAssumption DEF RemoteInv, RemoteTypeOK
<1>0. /\ c \in Pending /\ before[c] \in Hosts /\ resolved \in {NoHost, before[c]}
      /\ before[c] # NoHost => conn[before[c]] = "done"
    BY DEF Pending, Busy, OneByOne, ReplacesCurrent
<1>1. /\ c \in Pending /\ before[c] # c /\ resolved \in {NoHost, before[c]}
      /\ before[c] # NoHost => before[c] \in Connects /\ conn[before[c]] = "done"
    BY <1>0 DEF Hosts
<1>2. \A e \in Connects : socket'[e] =
          IF e = c THEN "open" ELSE IF e = before[c] /\ socket[e] = "open" THEN "closing" ELSE socket[e]
    <2> DEFINE opened == [socket EXCEPT ![c] = "open"]
    <2>1. /\ opened \in [Connects -> {"none", "open", "closing", "closed"}]
          /\ \A e \in Connects : opened[e] = IF e = c THEN "open" ELSE socket[e]
        OBVIOUS
    <2>2. socket' = ClosingOf(before[c], opened)
        BY DEF Wire
    <2> HIDE DEF opened
    <2>3. \A e \in Connects : socket'[e] = IF e = before[c] /\ opened[e] = "open" THEN "closing" ELSE opened[e]
        BY <1>0, <2>1, <2>2, ClosingOfType
    <2> QED
        BY <1>1, <2>1, <2>3
<1>3. \A e \in Connects : conn'[e] =
          IF e = c THEN IF before[c] = NoHost THEN "done" ELSE "replacing" ELSE conn[e]
    BY DEF Wire
<1>4. resolved' = c /\ tools' = c /\ failure' = FALSE /\ shown' = <<c, d>> /\ dir'[c] = d
    BY DEF Wire
<1>5. UNCHANGED <<before, session, overlap, belated>>
    BY DEF Wire
<1>6. Pending' \subseteq Pending /\ Pending' \subseteq {c} /\ \A e \in Connects : e # c => conn[e] \notin Busy
    BY <1>1, <1>3 DEF Pending, Busy, OneByOne, OneConnect
<1>7. OneConnect'
    BY <1>6 DEF OneConnect
<1>8. SocketsFollow'
    BY ZenonT(40), <1>2, <1>3, <1>4, <1>5, <1>6 DEF SocketsFollow, OneByOne, Busy
<1>9. ReplacesCurrent'
    <2>1. \A e \in Connects : conn'[e] \notin {"creating", "asking"}
        BY <1>3, <1>6 DEF Busy
    <2>2. before[c] # NoHost => conn'[before[c]] = "done"
        BY <1>1, <1>3
    <2>3. conn'[c] \in {"replacing", "done"}
        BY <1>3
    <2> QED
        BY <1>4, <1>5, <1>6, <2>1, <2>2, <2>3 DEF ReplacesCurrent
<1>10. FailedIsBare'
    BY <1>4 DEF FailedIsBare
<1>11. ClosingIsAwaited'
    <2> SUFFICES ASSUME NEW e \in Connects, socket'[e] = "closing"
                 PROVE  \/ session = e
                        \/ conn'[e] = "giving up"
                        \/ \E f \in Connects : conn'[f] = "replacing" /\ before[f] = e
        BY <1>5 DEF ClosingIsAwaited
    <2>1. CASE e = before[c]
        BY <1>3, <2>1, RemoteAssumption
    <2>2. CASE e # before[c]
        <3>1. e # c /\ socket[e] = "closing"
            BY <1>2, <2>2
        <3>2. session = e \/ conn[e] = "giving up" \/ \E f \in Connects : conn[f] = "replacing" /\ before[f] = e
            BY <3>1 DEF OneByOne, ClosingIsAwaited
        <3>3. \A f \in Connects : conn[f] # "replacing"
            BY <1>6 DEF Busy
        <3> QED
            BY <1>6, <3>1, <3>2, <3>3 DEF Busy
    <2> QED
        BY <2>1, <2>2
<1>12. EndedIsBare'
    BY <1>1, <1>5 DEF EndedIsBare, OneByOne
<1>13. ConnectionWorks'
    BY <1>2, <1>4 DEF ConnectionWorks
<1>14. NoneLeftOpen'
    <2> SUFFICES ASSUME NEW e \in Connects, socket'[e] = "open", e # c PROVE FALSE
        BY <1>4 DEF NoneLeftOpen
    <2>1. socket[e] = "open" /\ e # before[c]
        BY <1>2
    <2>2. e = resolved \/ e \in Pending
        BY <2>1 DEF OneByOne, NoneLeftOpen
    <2> QED
        BY <1>1, <1>6, <2>1, <2>2 DEF Pending
<1>15. ShownIsCurrent'
    BY <1>4 DEF ShownIsCurrent
<1> QED
    BY <1>7, <1>8, <1>9, <1>10, <1>11, <1>12, <1>13, <1>14, <1>15 DEF OneByOne

LEMMA FailKeeps ==
    ASSUME NEW c \in Connects, RemoteInv, ~overlap, ConnectFails(c)
    PROVE  OneByOne'
<1> USE RemoteAssumption DEF RemoteInv, RemoteTypeOK
<1>0. /\ c \in Pending /\ before[c] \in Hosts /\ resolved \in {NoHost, before[c]}
      /\ before[c] # NoHost => conn[before[c]] = "done"
      /\ conn[c] \in {"creating", "asking"} /\ (session = "open" => resolved = before[c])
    BY DEF ConnectFails, Pending, Busy, OneByOne, ReplacesCurrent
<1>1. /\ c \in Pending /\ before[c] # c /\ resolved \in {NoHost, before[c]}
      /\ before[c] # NoHost => before[c] \in Connects /\ conn[before[c]] = "done"
      /\ conn[c] \in {"creating", "asking"} /\ (session = "open" => resolved = before[c])
    BY <1>0 DEF Hosts
<1>2. \A e \in Connects : socket'[e] = IF e = c /\ socket[e] = "open" THEN "closing" ELSE socket[e]
    <2>1. c \in Hosts /\ socket' = ClosingOf(c, socket)
        BY DEF ConnectFails, Hosts
    <2> QED
        BY <2>1, ClosingOfType
<1>3. \A e \in Connects : conn'[e] =
          IF e = c THEN IF socket[c] = "none" THEN "failed" ELSE "giving up" ELSE conn[e]
    BY DEF ConnectFails
<1>4. /\ resolved' = before[c] /\ failure' = (before[c] = NoHost)
      /\ shown' = IF before[c] = NoHost THEN <<"failed">> ELSE shown
    BY DEF ConnectFails
<1>5. UNCHANGED <<before, dir, tools, session, overlap, belated>>
    BY DEF ConnectFails
<1>6. Pending' \subseteq Pending /\ Pending' \subseteq {c} /\ \A e \in Connects : e # c => conn[e] \notin Busy
    BY <1>1, <1>3 DEF Pending, Busy, OneByOne, OneConnect
<1>7. OneConnect'
    BY <1>6 DEF OneConnect
<1>8. SocketsFollow'
    BY <1>2, <1>3, <1>4, <1>5, <1>6 DEF SocketsFollow, OneByOne, Busy
<1>9. ReplacesCurrent'
    <2>1. \A e \in Connects : conn'[e] \notin {"creating", "asking"}
        BY <1>3, <1>6 DEF Busy
    <2>2. before[c] # NoHost => conn'[before[c]] = "done"
        BY <1>1, <1>3
    <2> QED
        BY <1>4, <1>5, <1>6, <2>1, <2>2 DEF ReplacesCurrent
<1>10. FailedIsBare'
    BY <1>4 DEF FailedIsBare
<1>11. ClosingIsAwaited'
    <2> SUFFICES ASSUME NEW e \in Connects, socket'[e] = "closing"
                 PROVE  \/ session = e
                        \/ conn'[e] = "giving up"
                        \/ \E f \in Connects : conn'[f] = "replacing" /\ before[f] = e
        BY <1>5 DEF ClosingIsAwaited
    <2>1. CASE e = c
        BY <1>2, <1>3, <2>1
    <2>2. CASE e # c
        <3>1. session = e \/ conn[e] = "giving up" \/ \E f \in Connects : conn[f] = "replacing" /\ before[f] = e
            BY <1>2, <2>2 DEF OneByOne, ClosingIsAwaited
        <3>2. \A f \in Connects : conn[f] # "replacing"
            BY <1>1, <1>6 DEF Busy
        <3> QED
            BY <1>6, <2>2, <3>1, <3>2 DEF Busy
    <2> QED
        BY <2>1, <2>2
<1>12. EndedIsBare'
    BY <1>1, <1>5 DEF EndedIsBare, OneByOne
<1>13. ConnectionWorks'
    <2> SUFFICES ASSUME session = "open", before[c] # NoHost
                 PROVE  tools = before[c] /\ socket'[before[c]] = "open"
        BY <1>4, <1>5 DEF ConnectionWorks
    <2>1. tools = before[c] /\ socket[before[c]] = "open"
        BY <1>1 DEF OneByOne, ConnectionWorks
    <2> QED
        BY <1>1, <1>2, <2>1
<1>14. NoneLeftOpen'
    <2> SUFFICES ASSUME NEW e \in Connects, socket'[e] = "open", e # before[c] PROVE FALSE
        BY <1>4 DEF NoneLeftOpen
    <2>1. socket[e] = "open" /\ e # c
        BY <1>2
    <2>2. e = resolved \/ e \in Pending
        BY <2>1 DEF OneByOne, NoneLeftOpen
    <2> QED
        BY <1>1, <1>6, <2>1, <2>2, RemoteAssumption DEF Pending
<1>15. ShownIsCurrent'
    BY <1>1, <1>4, <1>5 DEF ShownIsCurrent, OneByOne, ReplacesCurrent
<1> QED
    BY <1>7, <1>8, <1>9, <1>10, <1>11, <1>12, <1>13, <1>14, <1>15 DEF OneByOne

LEMMA RemoteStepKeeps == RemoteInv /\ [RemoteNext]_remoteVars => RemoteInv'
<1> SUFFICES ASSUME RemoteInv, [RemoteNext]_remoteVars PROVE RemoteInv'
    OBVIOUS
<1>1. SwitchesOn'
    <2> USE DEF RemoteInv, RemoteTypeOK, SwitchesOn
    <2>1. move' = move \/ \E m \in Moves : MoveBegins(m) \/ Picked(m) \/ Moved(m)
        BY DEF RemoteNext, RemoteStep, Connect, Created, PwdAnswered, Wire, ConnectFails, Returns,
           SocketCloses, SessionEnds, SessionEnded, CallTool, CallBash, remoteVars
    <2>2. ASSUME NEW m \in Moves, MoveBegins(m) \/ Picked(m) \/ Moved(m) PROVE SwitchesOn'
        BY SMTT(30), <2>2 DEF MoveBegins, Picked, Moved
    <2> QED
        BY <2>1, <2>2
<1>2. overlap => overlap'
    BY DEF RemoteNext, RemoteStep, Connect, Created, PwdAnswered, Wire, ConnectFails, Returns,
       SocketCloses, SessionEnds, SessionEnded, MoveBegins, Picked, Moved, links, CallTool,
       CallBash, remoteVars
<1>3. ASSUME ~overlap' PROVE OneByOne'
    <2>0. ~overlap /\ OneByOne /\ RemoteTypeOK
        BY <1>2, <1>3 DEF RemoteInv
    <2> USE RemoteAssumption, <2>0 DEF RemoteTypeOK
    <2>1. ASSUME NEW c \in Connects, Connect(c) PROVE OneByOne'
        <3>0. Pending = {} /\ session = "open" /\ conn[c] = "idle" /\ conn' = [conn EXCEPT ![c] = "creating"]
            BY <1>3, <2>1 DEF Connect
        <3>1. Pending = {} /\ Pending' = {c} /\ session = "open" /\ conn[c] = "idle"
            <4>1. \A e \in Connects : e # c => conn'[e] \notin Busy
                BY <3>0 DEF Pending
            <4>2. conn'[c] \in Busy
                BY <3>0 DEF Busy
            <4> QED
                BY <3>0, <4>1, <4>2 DEF Pending
        <3>2. resolved # NoHost => resolved \in Connects /\ conn[resolved] = "done" /\ resolved # c
            BY <3>1 DEF OneByOne, ReplacesCurrent, Pending, Busy, Hosts
        <3>3. /\ \A e \in Connects : conn'[e] = IF e = c THEN "creating" ELSE conn[e]
              /\ \A e \in Connects : before'[e] = IF e = c THEN resolved ELSE before[e]
              /\ UNCHANGED <<socket, dir, resolved, failure, tools, shown, session, belated>>
            BY <2>1 DEF Connect
        <3>4. \A e \in Connects : conn[e] \notin Busy
            BY <3>1 DEF Pending
        <3>5. OneConnect' /\ SocketsFollow'
            BY <3>1, <3>3, <3>4 DEF OneByOne, OneConnect, SocketsFollow, Busy
        <3>6. ReplacesCurrent'
            BY ZenonT(40), <3>1, <3>2, <3>3, <3>4 DEF OneByOne, ReplacesCurrent, Busy
        <3>7. FailedIsBare' /\ ClosingIsAwaited' /\ EndedIsBare'
            BY <3>1, <3>3, <3>4 DEF OneByOne, FailedIsBare, ClosingIsAwaited, EndedIsBare, Busy
        <3>8. ConnectionWorks' /\ NoneLeftOpen' /\ ShownIsCurrent'
            BY <3>1, <3>3 DEF OneByOne, ConnectionWorks, NoneLeftOpen, ShownIsCurrent
        <3> QED
            BY <3>5, <3>6, <3>7, <3>8 DEF OneByOne
    <2>2. ASSUME NEW c \in Connects, Created(c) PROVE OneByOne'
        <3>1. CASE \E d \in Dirs : Wire(c, d)
            BY <2>2, <3>1, WireKeeps DEF Created
        <3>2. CASE /\ conn' = [conn EXCEPT ![c] = "asking"]
                   /\ socket' = [socket EXCEPT ![c] = "open"]
                   /\ UNCHANGED <<before, dir, resolved, failure, tools, shown, session, belated>>
            <4>1. conn[c] = "creating"
                BY <2>2 DEF Created
            <4>2. resolved # c /\ Pending' = Pending /\ c \in Pending
                BY <3>2, <4>1 DEF OneByOne, ReplacesCurrent, Pending, Busy
            <4>3. OneConnect' /\ SocketsFollow' /\ ReplacesCurrent'
                BY <3>2, <4>1, <4>2 DEF OneByOne, OneConnect, SocketsFollow, ReplacesCurrent
            <4>4. FailedIsBare' /\ ClosingIsAwaited' /\ EndedIsBare'
                BY ZenonT(40), <3>2, <4>1, <4>2 DEF OneByOne, FailedIsBare, ClosingIsAwaited, EndedIsBare
            <4>5. ConnectionWorks' /\ NoneLeftOpen' /\ ShownIsCurrent'
                BY <3>2, <4>1, <4>2 DEF OneByOne, ConnectionWorks, NoneLeftOpen, ShownIsCurrent
            <4> QED
                BY <4>3, <4>4, <4>5 DEF OneByOne
        <3> QED
            BY <2>2, <3>1, <3>2 DEF Created
    <2>3. ASSUME NEW c \in Connects, PwdAnswered(c) PROVE OneByOne'
        BY <2>3, WireKeeps DEF PwdAnswered
    <2>4. ASSUME NEW c \in Connects, ConnectFails(c) PROVE OneByOne'
        BY <2>4, FailKeeps
    <2>5. ASSUME NEW c \in Connects, SocketCloses(c) PROVE OneByOne'
        <3>1. /\ socket[c] = "closing"
              /\ \A e \in Connects : socket'[e] = IF e = c THEN "closed" ELSE socket[e]
              /\ UNCHANGED <<conn, before, dir, resolved, failure, tools, shown, session, belated>>
            BY <2>5 DEF SocketCloses
        <3>2. Pending' = Pending
            BY <3>1 DEF Pending
        <3>3. OneConnect' /\ SocketsFollow' /\ ReplacesCurrent'
            BY <3>1, <3>2 DEF OneByOne, OneConnect, SocketsFollow, ReplacesCurrent
        <3>4. FailedIsBare' /\ ClosingIsAwaited' /\ EndedIsBare'
            BY <3>1, <3>2 DEF OneByOne, FailedIsBare, ClosingIsAwaited, EndedIsBare
        <3>5. ConnectionWorks' /\ NoneLeftOpen' /\ ShownIsCurrent'
            BY <3>1, <3>2 DEF OneByOne, ConnectionWorks, NoneLeftOpen, ShownIsCurrent, Hosts
        <3> QED
            BY <3>3, <3>4, <3>5 DEF OneByOne
    <2>6. ASSUME NEW c \in Connects, Returns(c) PROVE OneByOne'
        <3>1. /\ conn[c] \in {"replacing", "giving up"}
              /\ conn[c] = "replacing" => socket[before[c]] = "closed"
              /\ conn[c] = "giving up" => socket[c] = "closed"
              /\ \A e \in Connects : conn'[e] =
                    IF e = c THEN IF conn[c] = "replacing" THEN "done" ELSE "failed" ELSE conn[e]
              /\ UNCHANGED <<socket, before, dir, resolved, failure, tools, shown, session, belated>>
            BY <2>6 DEF Returns
        <3>2. c \in Pending /\ Pending' = {} /\ \A e \in Connects : e # c => conn[e] \notin Busy
            <4>1. c \in Pending /\ conn'[c] \notin Busy
                BY <3>1 DEF Pending, Busy
            <4>2. \A e \in Connects : e # c => conn[e] \notin Busy
                BY <4>1 DEF OneByOne, OneConnect, Pending
            <4> QED
                BY <3>1, <4>1, <4>2 DEF Pending
        <3>3. OneConnect' /\ SocketsFollow'
            BY <3>1, <3>2 DEF OneByOne, OneConnect, SocketsFollow, Busy
        <3>4. ReplacesCurrent'
            BY <3>1, <3>2 DEF OneByOne, ReplacesCurrent, Busy, Hosts
        <3>5. FailedIsBare' /\ EndedIsBare'
            BY <3>1, <3>2 DEF OneByOne, FailedIsBare, EndedIsBare
        <3>8. ClosingIsAwaited'
            <4> SUFFICES ASSUME NEW e \in Connects, socket[e] = "closing" PROVE session = e
                BY <3>1 DEF ClosingIsAwaited
            <4>1. session = e \/ conn[e] = "giving up" \/ \E f \in Connects : conn[f] = "replacing" /\ before[f] = e
                BY DEF OneByOne, ClosingIsAwaited
            <4>2. conn[e] # "giving up"
                BY <3>1, <3>2 DEF Busy
            <4>3. \A f \in Connects : conn[f] = "replacing" => f = c
                BY <3>2 DEF Busy
            <4> QED
                BY <3>1, <4>1, <4>2, <4>3
        <3>6. NoneLeftOpen'
            <4> SUFFICES ASSUME NEW e \in Connects, socket[e] = "open" PROVE e = resolved
                BY <3>1 DEF NoneLeftOpen
            <4>1. e = resolved \/ e = c
                BY <3>2 DEF OneByOne, NoneLeftOpen, Pending
            <4>2. e = c => conn[c] = "replacing"
                BY <3>1
            <4> QED
                BY <4>1, <4>2 DEF OneByOne, SocketsFollow
        <3>7. ConnectionWorks' /\ ShownIsCurrent'
            BY <3>1 DEF OneByOne, ConnectionWorks, ShownIsCurrent
        <3> QED
            BY <3>3, <3>4, <3>5, <3>6, <3>7, <3>8 DEF OneByOne
    <2>7. CASE SessionEnds
        <3>1. \A e \in Connects : socket'[e] =
                  IF e = resolved /\ socket[e] = "open" THEN "closing" ELSE socket[e]
            BY <2>7, ClosingOfType DEF SessionEnds
        <3>2. /\ session = "open" /\ session' = IF resolved = NoHost THEN "ended" ELSE resolved
              /\ resolved' = NoHost /\ failure' = FALSE /\ belated' = (Pending # {})
              /\ UNCHANGED <<conn, before, dir, tools, shown>>
            BY <2>7 DEF SessionEnds
        <3>3. session' # "open" /\ Pending' = Pending
            BY <3>2 DEF Hosts, Pending
        <3>4. resolved # NoHost => conn[resolved] \in {"replacing", "done"}
            BY DEF OneByOne, ReplacesCurrent
        <3>5. OneConnect' /\ SocketsFollow' /\ ReplacesCurrent'
            BY <3>1, <3>2, <3>3, <3>4 DEF OneByOne, OneConnect, SocketsFollow, ReplacesCurrent
        <3>6. FailedIsBare' /\ EndedIsBare' /\ ConnectionWorks' /\ ShownIsCurrent'
            BY <3>2, <3>3 DEF FailedIsBare, EndedIsBare, ConnectionWorks, ShownIsCurrent
        <3>7. ClosingIsAwaited'
            <4> SUFFICES ASSUME NEW e \in Connects, socket'[e] = "closing"
                         PROVE  \/ session' = e
                                \/ conn[e] = "giving up"
                                \/ \E f \in Connects : conn[f] = "replacing" /\ before[f] = e
                BY <3>2 DEF ClosingIsAwaited
            <4>1. CASE e = resolved
                BY <3>2, <4>1
            <4>2. CASE e # resolved
                BY <3>1, <3>2, <4>2 DEF OneByOne, ClosingIsAwaited
            <4> QED
                BY <4>1, <4>2
        <3>8. NoneLeftOpen'
            BY <3>1, <3>2, <3>3 DEF OneByOne, NoneLeftOpen
        <3> QED
            BY <3>5, <3>6, <3>7, <3>8 DEF OneByOne
    <2>8. CASE SessionEnded
        <3>1. /\ session \in Connects /\ socket[session] = "closed" /\ session' = "ended"
              /\ UNCHANGED <<conn, socket, before, dir, resolved, failure, tools, shown, belated>>
            BY <2>8 DEF SessionEnded
        <3>2. Pending' = Pending /\ session # "open"
            BY <3>1 DEF Pending
        <3>3. OneConnect' /\ SocketsFollow' /\ ReplacesCurrent'
            BY <3>1, <3>2 DEF OneByOne, OneConnect, SocketsFollow, ReplacesCurrent
        <3>4. FailedIsBare' /\ EndedIsBare' /\ ConnectionWorks' /\ ShownIsCurrent'
            BY <3>1, <3>2 DEF OneByOne, FailedIsBare, EndedIsBare, ConnectionWorks, ShownIsCurrent
        <3>5. ClosingIsAwaited' /\ NoneLeftOpen'
            BY <3>1, <3>2 DEF OneByOne, ClosingIsAwaited, NoneLeftOpen
        <3> QED
            BY <3>3, <3>4, <3>5 DEF OneByOne
    <2>9. ASSUME NEW m \in Moves, MoveBegins(m) \/ Picked(m) \/ Moved(m) PROVE OneByOne'
        <3>1. UNCHANGED links
            BY <2>9 DEF MoveBegins, Picked, Moved
        <3>2. /\ OneConnect' /\ SocketsFollow' /\ ReplacesCurrent'
              /\ FailedIsBare' /\ ClosingIsAwaited' /\ EndedIsBare'
              /\ ConnectionWorks' /\ NoneLeftOpen'
            <4>1. UNCHANGED <<conn, socket, before, resolved, failure, tools, session, overlap, belated>>
                BY <3>1 DEF links
            <4>2. Pending' = Pending
                BY <4>1 DEF Pending
            <4>3. OneConnect' /\ SocketsFollow' /\ ReplacesCurrent' /\ FailedIsBare'
                BY <4>1, <4>2 DEF OneByOne, OneConnect, SocketsFollow, ReplacesCurrent, FailedIsBare
            <4>4. ClosingIsAwaited' /\ EndedIsBare' /\ ConnectionWorks' /\ NoneLeftOpen'
                BY <4>1, <4>2 DEF OneByOne, ClosingIsAwaited, EndedIsBare, ConnectionWorks, NoneLeftOpen
            <4> QED
                BY <4>3, <4>4
        <3>3. \/ UNCHANGED <<dir, shown>>
              \/ /\ resolved # NoHost
                 /\ \E d \in Dirs : dir' = [dir EXCEPT ![resolved] = d] /\ shown' = <<resolved, d>>
            BY <2>9 DEF MoveBegins, Picked, Moved, RemoteInv, SwitchesOn
        <3>4. ShownIsCurrent'
            BY <3>1, <3>3 DEF links, OneByOne, ShownIsCurrent, FailedIsBare, Hosts
        <3> QED
            BY <3>2, <3>4 DEF OneByOne
    <2>10. ASSUME UNCHANGED <<links, dir, shown>> PROVE OneByOne'
        <3>1. UNCHANGED <<conn, socket, before, dir, resolved, failure, tools, shown, session, overlap,
                          belated>>
            BY <2>10 DEF links
        <3>2. Pending' = Pending
            BY <3>1 DEF Pending
        <3>3. OneConnect' /\ SocketsFollow' /\ ReplacesCurrent' /\ FailedIsBare' /\ ShownIsCurrent'
            BY <3>1, <3>2 DEF OneByOne, OneConnect, SocketsFollow, ReplacesCurrent, FailedIsBare, ShownIsCurrent
        <3>4. ClosingIsAwaited' /\ EndedIsBare' /\ ConnectionWorks' /\ NoneLeftOpen'
            BY <3>1, <3>2 DEF OneByOne, ClosingIsAwaited, EndedIsBare, ConnectionWorks, NoneLeftOpen
        <3> QED
            BY <3>3, <3>4 DEF OneByOne
    <2>11. ASSUME NEW u \in Uses, CallTool(u) \/ CallBash(u) PROVE OneByOne'
        BY <2>10, <2>11 DEF CallTool, CallBash
    <2>12. CASE UNCHANGED remoteVars
        BY <2>10, <2>12 DEF remoteVars, links
    <2> QED
        BY <2>1, <2>2, <2>3, <2>4, <2>5, <2>6, <2>7, <2>8, <2>9, <2>11, <2>12 DEF RemoteNext, RemoteStep
<1> QED
    BY <1>1, <1>3, RemoteTypeStep DEF RemoteInv

(* The connection in use works, is the one that is shown, and is the only  *)
(* one that stays open, none after the session: for any number of connects *)
(* (connectSsh), switches of directory and calls of the tools.             *)
THEOREM RemoteIsSafe == RemoteSpec => []RemoteSafe
<1>1. RemoteInv => RemoteSafe
    <2> SUFFICES ASSUME RemoteInv PROVE RemoteSafe
        OBVIOUS
    <2>1. ConnectionWorks /\ NoneLeftOpen /\ ShownIsCurrent
        BY DEF RemoteInv, OneByOne, ConnectionWorks, NoneLeftOpen, ShownIsCurrent
    <2>2. NoneAfterSession
        <3> SUFFICES ASSUME session = "ended", ~belated, ~overlap, NEW c \in Connects
                     PROVE  socket[c] \in {"none", "closed"}
            BY DEF NoneAfterSession
        <3>1. resolved = NoHost /\ Pending = {} /\ session \notin Connects
            BY RemoteAssumption DEF RemoteInv, OneByOne, EndedIsBare
        <3>2. socket[c] # "open"
            BY <3>1, RemoteAssumption DEF RemoteInv, OneByOne, NoneLeftOpen
        <3>3. socket[c] # "closing"
            BY <3>1 DEF RemoteInv, OneByOne, ClosingIsAwaited, Pending, Busy
        <3> QED
            BY <3>2, <3>3 DEF RemoteInv, RemoteTypeOK
    <2> QED
        BY <2>1, <2>2 DEF RemoteInv, RemoteSafe
<1> QED
    BY <1>1, RemoteInitial, RemoteStepKeeps, PTL DEF RemoteSpec

-----------------------------------------------------------------------------
(* The hooks around an edit.                                               *)
(* Who changes the file in an edit or after it is first in the file's      *)
(* mutation queue.                                                         *)
HoldsTurn == \A e \in Edits : at[e] \in {"write", "run", "out"} => HasTurn(e)

(* Whoever is about to replace the text of the file has all of the edits   *)
(* that were made, but those made while the format tool held a text.       *)
InFile == {"queue", "config", "run", "out", "sync", "send", "done"}
Replacing(c) == at[c] = "out" \/ (c \in Edits /\ at[c] = "write")
OldTextsWhole ==
    \A c \in Edits \cup Formats, e \in Edits :
        Replacing(c) /\ at[e] \in InFile => e \in base[c].edits \cup exposed

(* Unless texts race, at most one is on its way to the server, and what    *)
(* the server does not have is on its way or will be read.                 *)
ToBeRead == {"queue", "config", "run", "out", "sync"}
OneSender == ~raced => \A e, f \in Edits : at[e] = "send" /\ at[f] = "send" => e = f
ServerFollows ==
    first = "format" /\ ~raced /\ ~touched =>
        \/ \E e \in Edits : at[e] \in ToBeRead
        \/ \E e \in Edits : at[e] = "send" /\ base[e] = text
        \/ server = text /\ \A e \in Edits : at[e] # "send"

(* One turn at a time: the file is one switch behind the list until it is  *)
(* written.                                                                *)
SwitchFollows ==
    ~crossed =>
        /\ \A t, u \in UnderWay : t = u
        /\ UnderWay = {} => config = listed /\ ~torn
        /\ \A t \in UnderWay :
            /\ listed = [config EXCEPT ![turn[t].of] = ~config[turn[t].of]]
            /\ torn = (turn[t].is = "torn")
            /\ turn[t].is # "read" => turn[t].was = config

(* Who formats has a formatter.                                            *)
RunsChosen == \A c \in Edits \cup Formats : at[c] \in {"run", "out"} => chosen[c] \in Names

HooksInv ==
    /\ HooksTypeOK /\ RunsChosen
    /\ HoldsTurn /\ OldTextsWhole /\ NoEditLost
    /\ OneSender /\ ServerFollows
    /\ SwitchFollows

(* The formatter that is chosen is one of the file's.                      *)
LEMMA UsableType ==
    ASSUME NEW s \in Settings
    PROVE  FirstUsable(s) \in Names \cup {"none"} /\ Automatic(s) \in Names \cup {"none"}
<1>1. FirstUsable(s) \in Names \cup {"none"}
    <2>1. CASE Usable(s) = {}
        BY <2>1 DEF FirstUsable
    <2>2. CASE Usable(s) # {}
        <3>1. Usable(s) \subseteq DOMAIN Formatters /\ DOMAIN Formatters \subseteq Nat
            BY EditHooksAssumption DEF Usable
        <3>2. \E i \in Usable(s) : \A j \in Usable(s) : i <= j
            BY <2>2, <3>1, LeastNumber
        <3>3. FirstUsable(s) = Formatters[CHOOSE i \in Usable(s) : \A j \in Usable(s) : i <= j]
            BY <2>2 DEF FirstUsable
        <3>4. (CHOOSE i \in Usable(s) : \A j \in Usable(s) : i <= j) \in Usable(s)
            BY <3>2
        <3> QED
            BY <3>1, <3>3, <3>4 DEF Names
    <2> QED
        BY <2>1, <2>2
<1> QED
    BY <1>1 DEF Automatic

LEMMA ParsedType == HooksTypeOK => Parsed \in Settings
BY DEF HooksTypeOK, Parsed, Defaults, Settings

LEMMA HooksInitial == HooksInit => HooksInv
<1> SUFFICES ASSUME HooksInit PROVE HooksInv
    OBVIOUS
<1> USE DEF HooksInit
<1>1. HooksTypeOK
    <2>1. text \in Texts /\ server \in Texts
        BY DEF Texts
    <2>2. Defaults \in Settings /\ "enabled" \in Switches
        BY DEF Defaults, Settings, Switches
    <2>3. line \in Seq(Edits)
        OBVIOUS
    <2>4. turn \in [Turns -> [is : {"new", "read", "open", "torn", "done"},
                              of : Switches, was : Settings]]
        BY <2>2
    <2>5. enrolled \subseteq {"hook", "tool"}
        OBVIOUS
    <2> QED
        BY <2>1, <2>3, <2>4, <2>5 DEF HooksTypeOK, Places
<1>2. RunsChosen /\ HoldsTurn /\ OldTextsWhole /\ NoEditLost /\ OneSender /\ ServerFollows
    BY DEF RunsChosen, HoldsTurn, OldTextsWhole, Replacing, InFile, NoEditLost, OneSender, ServerFollows
<1>3. SwitchFollows
    <2>1. UnderWay = {}
        BY DEF UnderWay
    <2> QED
        BY <2>1 DEF SwitchFollows
<1> QED
    BY <1>1, <1>2, <1>3 DEF HooksInv

(* What the steps of edits and formats do to where they are.               *)
LEMMA HookPlaces ==
    /\ AfterEdit \in {"queue", "sync"} /\ AfterFormat \in {"sync", "done"} /\ AfterSync \in {"queue", "done"}
    /\ first = "format" => AfterFormat = "sync" /\ AfterSync = "done"
BY DEF AfterEdit, Then, AfterFormat, AfterSync

LEMMA HooksTypeStep == HooksInv /\ [HooksNext]_hookVars => HooksTypeOK'
<1> SUFFICES ASSUME HooksInv, [HooksNext]_hookVars PROVE HooksTypeOK'
    OBVIOUS
<1>0. HooksTypeOK
    BY DEF HooksInv
<1> USE <1>0 DEF HooksTypeOK
<1>a. ASSUME NEW c \in Edits \cup Formats, NEW place \in Places, Go(c, place)
      PROVE  at' \in [Edits \cup Formats -> Places]
    BY <1>a DEF Go
<1>b. ASSUME line # <<>> PROVE Tail(line) \in Seq(Edits)
    BY <1>b
<1>c. \A e \in Edits : at[e] \in {"write", "run", "out"} => line # <<>>
    BY DEF HooksInv, HoldsTurn, HasTurn
<1>1. ASSUME NEW e \in Edits, EditBegins(e) PROVE HooksTypeOK'
    <2>1. line' \in Seq(Edits)
        BY <1>1 DEF EditBegins
    <2>2. at' \in [Edits \cup Formats -> Places]
        BY <1>1, <1>a DEF EditBegins, Places
    <2> QED
        BY <1>1, <2>1, <2>2 DEF EditBegins, syncVars, switchVars
<1>2. ASSUME NEW e \in Edits, EditReads(e) PROVE HooksTypeOK'
    <2>1. at' \in [Edits \cup Formats -> Places]
        BY <1>2, <1>a DEF EditReads, Places
    <2> QED
        BY <1>2, <2>1 DEF EditReads, syncVars, switchVars
<1>3. ASSUME NEW e \in Edits, EditWrites(e) PROVE HooksTypeOK'
    <2>1. at' \in [Edits \cup Formats -> Places]
        BY <1>3, <1>a, HookPlaces DEF EditWrites, Places
    <2>2. text' \in Texts
        BY <1>3 DEF EditWrites, Texts
    <2>3. line' \in Seq(Edits)
        BY <1>3, <1>b, <1>c DEF EditWrites
    <2>4. exposed' \subseteq Edits
        BY <1>3 DEF EditWrites
    <2> QED
        BY <1>3, <2>1, <2>2, <2>3, <2>4 DEF EditWrites, syncVars, switchVars
<1>4. ASSUME NEW e \in Edits, EditFails(e) PROVE HooksTypeOK'
    <2>1. at' \in [Edits \cup Formats -> Places]
        BY <1>4, <1>a DEF EditFails, Places
    <2>2. line' \in Seq(Edits)
        BY <1>4, <1>b, <1>c DEF EditFails
    <2> QED
        BY <1>4, <2>1, <2>2 DEF EditFails, syncVars, switchVars
<1>5. ASSUME NEW e \in Edits, QueueUp(e) PROVE HooksTypeOK'
    <2>1. line' \in Seq(Edits)
        BY <1>5 DEF QueueUp
    <2>2. at' \in [Edits \cup Formats -> Places]
        BY <1>5, <1>a DEF QueueUp, Places
    <2> QED
        BY <1>5, <2>1, <2>2 DEF QueueUp, syncVars, switchVars
<1>6. ASSUME NEW e \in Edits, HookReads(e) PROVE HooksTypeOK'
    <2>1. at' \in [Edits \cup Formats -> Places]
        BY <1>6, <1>a, HookPlaces DEF HookReads, Places
    <2>2. line' \in Seq(Edits)
        BY <1>6, <1>b DEF HookReads, HasTurn
    <2>3. chosen' \in [Edits \cup Formats -> Names \cup {"none"}]
        BY <1>6, UsableType, ParsedType DEF HookReads
    <2> QED
        BY <1>6, <2>1, <2>2, <2>3 DEF HookReads, syncVars, switchVars
<1>7. ASSUME NEW e \in Edits, SyncReads(e) PROVE HooksTypeOK'
    <2>1. at' \in [Edits \cup Formats -> Places]
        BY <1>7, <1>a DEF SyncReads, Places
    <2> QED
        BY <1>7, <2>1 DEF SyncReads, switchVars
<1>8. ASSUME NEW e \in Edits, SyncSends(e) PROVE HooksTypeOK'
    <2>1. at' \in [Edits \cup Formats -> Places]
        BY <1>8, <1>a, HookPlaces DEF SyncSends, Places
    <2> QED
        BY <1>8, <2>1 DEF SyncSends, fileVars, switchVars
<1>9. ASSUME NEW t \in Formats, FormatBegins(t) PROVE HooksTypeOK'
    <2>1. PICK f \in Explicit(Parsed) : /\ chosen' = [chosen EXCEPT ![t] = f]
                                        /\ Go(t, IF f = "none" THEN "done" ELSE "run")
        BY <1>9 DEF FormatBegins
    <2>2. f \in Names \cup {"none"}
        BY UsableType, ParsedType DEF Explicit
    <2>3. at' \in [Edits \cup Formats -> Places]
        BY <2>1, <1>a DEF Places
    <2> QED
        BY <1>9, <2>1, <2>2, <2>3 DEF FormatBegins, fileVars, syncVars, switchVars
<1>10. ASSUME NEW c \in Edits \cup Formats, FormatterStep(c) PROVE HooksTypeOK'
    <2>1. at' \in [Edits \cup Formats -> Places]
        BY <1>10, <1>a, HookPlaces DEF FormatterStep, FormatterReads, FormatterWrites, FormatterFails,
           AfterRun, Places
    <2>2. line' \in Seq(Edits)
        BY <1>10, <1>b, <1>c DEF FormatterStep, FormatterReads, FormatterWrites, FormatterFails, Release
    <2>3. CASE FormatterReads(c) \/ FormatterFails(c)
        BY ZenonT(40), <2>1, <2>2, <2>3 DEF FormatterReads, FormatterFails, syncVars, switchVars
    <2>4. CASE FormatterWrites(c)
        <3>1. text' \in Texts
            BY <2>4 DEF FormatterWrites, Texts, HooksInv, RunsChosen
        <3> QED
            BY <2>1, <2>2, <2>4, <3>1 DEF FormatterWrites, syncVars, switchVars
    <2> QED
        BY <1>10, <2>3, <2>4 DEF FormatterStep
<1>11. ASSUME NEW t \in Turns, TurnStep(t) PROVE HooksTypeOK'
    <2>1. CASE TurnReads(t)
        BY ZenonT(40), <2>1, ParsedType DEF TurnReads, fileVars, syncVars
    <2>2. CASE TurnOpens(t)
        BY <2>2 DEF TurnOpens, fileVars, syncVars
    <2>0. /\ turn[t].of \in Switches /\ turn[t].was \in Settings
          /\ \A s \in Settings : [s EXCEPT ![turn[t].of] = ~s[turn[t].of]] \in Settings
        BY DEF Settings
    <2>3. CASE TurnWrites(t)
        <3>1. config' \in Settings
            BY <2>0, <2>3 DEF TurnWrites
        <3>2. torn' \in BOOLEAN
            BY <2>3 DEF TurnWrites
        <3> QED
            BY ZenonT(40), <2>3, <3>1, <3>2 DEF TurnWrites, fileVars, syncVars
    <2>4. CASE TurnFails(t)
        <3>1. listed' \in Settings
            BY <2>0, <2>4 DEF TurnFails
        <3> QED
            BY <2>4, <3>1 DEF TurnFails, fileVars, syncVars
    <2> QED
        BY <1>11, <2>1, <2>2, <2>3, <2>4 DEF TurnStep
<1>12. ASSUME NEW t \in Turns, NEW s \in Switches, TurnBegins(t, s) PROVE HooksTypeOK'
    <2>1. turn' \in [Turns -> [is : {"new", "read", "open", "torn", "done"}, of : Switches, was : Settings]]
        <3> DEFINE records == [is : {"new", "read", "open", "torn", "done"}, of : Switches, was : Settings]
                   begun == [turn[t] EXCEPT !.is = "read", !.of = s]
        <3>1. turn[t] \in records /\ turn \in [Turns -> records]
            OBVIOUS
        <3>2. begun \in records
            BY <3>1
        <3>3. turn' = [turn EXCEPT ![t] = begun]
            BY <1>12 DEF TurnBegins
        <3> HIDE DEF records, begun
        <3>4. turn' \in [Turns -> records]
            BY <3>1, <3>2, <3>3
        <3> QED
            BY <3>4 DEF records
    <2>2. listed' \in Settings
        BY <1>12 DEF TurnBegins, Settings
    <2> QED
        BY <1>12, <2>1, <2>2 DEF TurnBegins, fileVars, syncVars
<1>13. CASE UNCHANGED hookVars
    BY <1>13 DEF hookVars, fileVars, syncVars, switchVars
<1> QED
    BY <1>1, <1>2, <1>3, <1>4, <1>5, <1>6, <1>7, <1>8, <1>9, <1>10, <1>11, <1>12, <1>13
       DEF HooksNext, EditStep

(* The queue of the file and the edits in its text.                        *)
LEMMA HooksFileStep ==
    HooksInv /\ [HooksNext]_hookVars => (RunsChosen /\ HoldsTurn /\ OldTextsWhole /\ NoEditLost)'
<1> SUFFICES ASSUME HooksInv, [HooksNext]_hookVars
             PROVE  (RunsChosen /\ HoldsTurn /\ OldTextsWhole /\ NoEditLost)'
    OBVIOUS
<1>0. HooksTypeOK /\ RunsChosen /\ HoldsTurn /\ OldTextsWhole /\ NoEditLost
    BY DEF HooksInv
<1> USE <1>0 DEF HooksTypeOK, HasTurn, InFile
<1>a. ASSUME NEW c \in Edits \cup Formats, NEW place \in Places, Go(c, place)
      PROVE  \A d \in Edits \cup Formats : at'[d] = IF d = c THEN place ELSE at[d]
    BY <1>a DEF Go
<1>b. \A e \in Edits : Append(line, e) # <<>> /\ (line # <<>> => Head(Append(line, e)) = Head(line))
    OBVIOUS
<1>1. ASSUME NEW e \in Edits, EditBegins(e) \/ QueueUp(e)
      PROVE  (RunsChosen /\ HoldsTurn /\ OldTextsWhole /\ NoEditLost)'
    <2>1. /\ \A d \in Edits \cup Formats : d # e => at'[d] = at[d]
          /\ at'[e] \in {"edit", "config"} /\ (at'[e] = "config" => at[e] \in InFile)
          /\ line' = Append(line, e) /\ UNCHANGED <<base, text, exposed, chosen>>
        BY <1>1, <1>a DEF EditBegins, QueueUp, Places
    <2>2. RunsChosen' /\ HoldsTurn'
        BY <1>b, <2>1 DEF RunsChosen, HoldsTurn
    <2>3. OldTextsWhole' /\ NoEditLost'
        BY <2>1 DEF OldTextsWhole, Replacing, NoEditLost
    <2> QED
        BY <2>2, <2>3
<1>2. ASSUME NEW e \in Edits, EditReads(e)
      PROVE  (RunsChosen /\ HoldsTurn /\ OldTextsWhole /\ NoEditLost)'
    <2>1. /\ \A d \in Edits \cup Formats : at'[d] = IF d = e THEN "write" ELSE at[d]
          /\ \A d \in Edits \cup Formats : base'[d] = IF d = e THEN text ELSE base[d]
          /\ HasTurn(e) /\ UNCHANGED <<line, text, exposed, chosen>>
        BY <1>2, <1>a DEF EditReads, Places
    <2>2. RunsChosen' /\ HoldsTurn' /\ NoEditLost'
        BY <2>1 DEF RunsChosen, HoldsTurn, NoEditLost
    <2>3. OldTextsWhole'
        BY <2>1 DEF OldTextsWhole, Replacing, NoEditLost
    <2> QED
        BY <2>2, <2>3
<1>3. ASSUME NEW e \in Edits, EditWrites(e)
      PROVE  (RunsChosen /\ HoldsTurn /\ OldTextsWhole /\ NoEditLost)'
    <2>1. /\ \A d \in Edits \cup Formats : at'[d] = IF d = e THEN AfterEdit ELSE at[d]
          /\ text'.edits = base[e].edits \cup {e} /\ line' = Tail(line) /\ UNCHANGED <<base, chosen>>
          /\ at[e] = "write" /\ AfterEdit \in {"queue", "sync"}
        BY <1>3, <1>a, HookPlaces DEF EditWrites, Places
    <2>2. /\ exposed \subseteq exposed'
          /\ (\E t \in Formats : at[t] = "out") => e \in exposed'
        BY <1>3 DEF EditWrites
    <2>3. \A d \in Edits : d # e => at[d] \notin {"write", "run", "out"}
        BY <2>1 DEF HoldsTurn
    <2>4. RunsChosen' /\ HoldsTurn'
        BY <2>1, <2>3 DEF RunsChosen, HoldsTurn
    <2>5. NoEditLost'
        BY <2>1, <2>2 DEF NoEditLost, OldTextsWhole, Replacing
    <2>6. OldTextsWhole'
        <3> SUFFICES ASSUME NEW c \in Edits \cup Formats, NEW f \in Edits, Replacing(c)', at'[f] \in InFile
                     PROVE  f \in base[c].edits \cup exposed'
            BY <2>1 DEF OldTextsWhole
        <3>1. c \notin Edits /\ at[c] = "out" /\ c \in Formats
            BY <2>1, <2>3 DEF Replacing
        <3> QED
            BY <2>1, <2>2, <3>1 DEF OldTextsWhole, Replacing
    <2> QED
        BY <2>4, <2>5, <2>6
<1>4. ASSUME NEW e \in Edits, EditFails(e)
      PROVE  (RunsChosen /\ HoldsTurn /\ OldTextsWhole /\ NoEditLost)'
    <2>1. /\ \A d \in Edits \cup Formats : at'[d] = IF d = e THEN "failed" ELSE at[d]
          /\ line' = Tail(line) /\ UNCHANGED <<base, text, exposed, chosen>> /\ at[e] = "write"
        BY <1>4, <1>a DEF EditFails, Places
    <2>2. \A d \in Edits : d # e => at[d] \notin {"write", "run", "out"}
        BY <2>1 DEF HoldsTurn
    <2>3. RunsChosen' /\ HoldsTurn'
        BY <2>1, <2>2 DEF RunsChosen, HoldsTurn
    <2>4. OldTextsWhole' /\ NoEditLost'
        BY <2>1 DEF OldTextsWhole, Replacing, NoEditLost
    <2> QED
        BY <2>3, <2>4
<1>5. ASSUME NEW e \in Edits, HookReads(e)
      PROVE  (RunsChosen /\ HoldsTurn /\ OldTextsWhole /\ NoEditLost)'
    <2> DEFINE formatter == Automatic(Parsed)
    <2>1. formatter \in Names \cup {"none"}
        BY UsableType, ParsedType
    <2>2. /\ \A d \in Edits \cup Formats : at'[d] = IF d = e THEN IF formatter = "none" THEN AfterFormat ELSE "run" ELSE at[d]
          /\ \A d \in Edits \cup Formats : chosen'[d] = IF d = e THEN formatter ELSE chosen[d]
          /\ line' = IF formatter = "none" THEN Tail(line) ELSE line
          /\ HasTurn(e) /\ at[e] = "config" /\ UNCHANGED <<base, text, exposed>>
        <3>1. AfterFormat \in Places
            BY HookPlaces DEF Places
        <3>2. at' = [at EXCEPT ![e] = IF formatter = "none" THEN AfterFormat ELSE "run"]
            BY <1>5 DEF HookReads, Go
        <3>3. /\ chosen' = [chosen EXCEPT ![e] = formatter] /\ HasTurn(e) /\ at[e] = "config"
              /\ UNCHANGED <<base, text, exposed>>
            BY <1>5 DEF HookReads
        <3>4. line' = IF formatter = "none" THEN Tail(line) ELSE line
            BY <1>5 DEF HookReads
        <3> QED
            BY <3>2, <3>3, <3>4
    <2> HIDE DEF formatter
    <2>3. formatter = "none" => \A d \in Edits : at'[d] \notin {"write", "run", "out"}
        BY <2>2, HookPlaces DEF HoldsTurn
    <2>4. RunsChosen' /\ HoldsTurn'
        BY <2>1, <2>2, <2>3, HookPlaces DEF RunsChosen, HoldsTurn
    <2>5. OldTextsWhole' /\ NoEditLost'
        BY <2>2, HookPlaces DEF OldTextsWhole, Replacing, NoEditLost
    <2> QED
        BY <2>4, <2>5
<1>6. ASSUME NEW e \in Edits, SyncReads(e)
      PROVE  (RunsChosen /\ HoldsTurn /\ OldTextsWhole /\ NoEditLost)'
    <2>1. /\ \A d \in Edits \cup Formats : at'[d] = IF d = e THEN "send" ELSE at[d]
          /\ \A d \in Edits \cup Formats : base'[d] = IF d = e THEN text ELSE base[d]
          /\ at[e] = "sync" /\ UNCHANGED <<line, text, exposed, chosen>>
        BY <1>6, <1>a DEF SyncReads, Places
    <2>2. RunsChosen' /\ HoldsTurn' /\ NoEditLost'
        BY <2>1 DEF RunsChosen, HoldsTurn, NoEditLost
    <2>3. OldTextsWhole'
        BY <2>1 DEF OldTextsWhole, Replacing
    <2> QED
        BY <2>2, <2>3
<1>7. ASSUME NEW e \in Edits, SyncSends(e)
      PROVE  (RunsChosen /\ HoldsTurn /\ OldTextsWhole /\ NoEditLost)'
    <2>1. /\ \A d \in Edits \cup Formats : at'[d] = IF d = e THEN AfterSync ELSE at[d]
          /\ at[e] = "send" /\ UNCHANGED <<base, line, text, exposed, chosen>>
        BY <1>7, <1>a, HookPlaces DEF SyncSends, Places, fileVars
    <2>2. RunsChosen' /\ HoldsTurn' /\ NoEditLost'
        BY <2>1, HookPlaces DEF RunsChosen, HoldsTurn, NoEditLost
    <2>3. OldTextsWhole'
        BY <2>1, HookPlaces DEF OldTextsWhole, Replacing
    <2> QED
        BY <2>2, <2>3
<1>8. ASSUME NEW t \in Formats, FormatBegins(t)
      PROVE  (RunsChosen /\ HoldsTurn /\ OldTextsWhole /\ NoEditLost)'
    <2>1. PICK f \in Explicit(Parsed) : /\ chosen' = [chosen EXCEPT ![t] = f]
                                        /\ Go(t, IF f = "none" THEN "done" ELSE "run")
        BY <1>8 DEF FormatBegins
    <2>2. f \in Names \cup {"none"} /\ t \notin Edits
        BY UsableType, ParsedType, EditHooksAssumption DEF Explicit
    <2>3. \A d \in Edits \cup Formats : at'[d] = IF d = t THEN IF f = "none" THEN "done" ELSE "run" ELSE at[d]
        BY <2>1 DEF Go
    <2>4. UNCHANGED <<base, line, text, exposed>>
        BY <1>8 DEF FormatBegins, fileVars
    <2>5. RunsChosen'
        BY <2>1, <2>2, <2>3 DEF RunsChosen
    <2>6. HoldsTurn' /\ NoEditLost' /\ OldTextsWhole'
        BY <2>2, <2>3, <2>4 DEF HoldsTurn, NoEditLost, OldTextsWhole, Replacing
    <2> QED
        BY <2>5, <2>6
<1>9. ASSUME NEW c \in Edits \cup Formats, FormatterReads(c)
      PROVE  (RunsChosen /\ HoldsTurn /\ OldTextsWhole /\ NoEditLost)'
    <2>1. /\ \A d \in Edits \cup Formats : at'[d] = IF d = c THEN "out" ELSE at[d]
          /\ \A d \in Edits \cup Formats : base'[d] = IF d = c THEN text ELSE base[d]
          /\ at[c] = "run" /\ UNCHANGED <<line, text, exposed, chosen>>
        BY <1>9, <1>a DEF FormatterReads, Places
    <2>2. RunsChosen' /\ HoldsTurn' /\ NoEditLost'
        BY <2>1 DEF RunsChosen, HoldsTurn, NoEditLost
    <2>3. OldTextsWhole'
        BY <2>1 DEF OldTextsWhole, Replacing, NoEditLost
    <2> QED
        BY <2>2, <2>3
<1>10. ASSUME NEW c \in Edits \cup Formats, FormatterWrites(c) \/ FormatterFails(c)
      PROVE  (RunsChosen /\ HoldsTurn /\ OldTextsWhole /\ NoEditLost)'
    <2>0. AfterRun(c) \in {"sync", "done"}
        BY HookPlaces DEF AfterRun
    <2>1. /\ \A d \in Edits \cup Formats : at'[d] = IF d = c THEN AfterRun(c) ELSE at[d]
          /\ text' = text \/ text'.edits = base[c].edits
          /\ line' = Release(c) /\ UNCHANGED <<base, exposed, chosen>>
          /\ at[c] = "out"
        BY <1>10, <1>a, <2>0 DEF FormatterWrites, FormatterFails, Places
    <2>2. c \in Edits => \A d \in Edits : d # c => at[d] \notin {"write", "run", "out"}
        BY <2>1 DEF HoldsTurn
    <2>3. RunsChosen'
        BY <2>0, <2>1 DEF RunsChosen
    <2>4. HoldsTurn'
        BY <2>0, <2>1, <2>2 DEF HoldsTurn, Release
    <2>5. NoEditLost'
        BY <2>0, <2>1 DEF NoEditLost, OldTextsWhole, Replacing
    <2>6. OldTextsWhole'
        BY <2>0, <2>1 DEF OldTextsWhole, Replacing
    <2> QED
        BY <2>3, <2>4, <2>5, <2>6
<1>11. ASSUME UNCHANGED <<fileVars, at, chosen>>
      PROVE  (RunsChosen /\ HoldsTurn /\ OldTextsWhole /\ NoEditLost)'
    BY <1>11 DEF fileVars, RunsChosen, HoldsTurn, OldTextsWhole, Replacing, NoEditLost
<1>12. ASSUME NEW t \in Turns, TurnStep(t) \/ \E s \in Switches : TurnBegins(t, s)
      PROVE  (RunsChosen /\ HoldsTurn /\ OldTextsWhole /\ NoEditLost)'
    <2>1. UNCHANGED <<fileVars, at, chosen>>
        BY <1>12 DEF TurnStep, TurnReads, TurnOpens, TurnWrites, TurnFails, TurnBegins
    <2> QED
        BY <1>11, <2>1
<1>13. CASE UNCHANGED hookVars
    BY <1>11, <1>13 DEF hookVars
<1> QED
    BY <1>1, <1>2, <1>3, <1>4, <1>5, <1>6, <1>7, <1>8, <1>9, <1>10, <1>12, <1>13
       DEF HooksNext, EditStep, FormatterStep

(* What is on its way to the language server.                              *)
LEMMA HooksServerStep == HooksInv /\ [HooksNext]_hookVars => OneSender' /\ ServerFollows'
<1> SUFFICES ASSUME HooksInv, [HooksNext]_hookVars PROVE OneSender' /\ ServerFollows'
    OBVIOUS
<1>0. HooksTypeOK /\ OneSender /\ ServerFollows
    BY DEF HooksInv
<1> USE <1>0 DEF HooksTypeOK, ToBeRead
<1>a. ASSUME NEW c \in Edits \cup Formats, NEW place \in Places, Go(c, place)
      PROVE  \A d \in Edits \cup Formats : at'[d] = IF d = c THEN place ELSE at[d]
    BY <1>a DEF Go
<1>b. ASSUME NEW e \in Edits, at[e] \notin {"send"} \cup ToBeRead, at'[e] # "send",
             \A d \in Edits : d # e => at'[d] = at[d] /\ base'[d] = base[d],
             UNCHANGED <<first, text, server, raced, touched>>
      PROVE  OneSender' /\ ServerFollows'
    BY <1>b DEF OneSender, ServerFollows
<1>c. ASSUME NEW e \in Edits, at[e] # "send", at'[e] \in ToBeRead \/ first # "format", at'[e] # "send",
             \A d \in Edits : d # e => at'[d] = at[d],
             UNCHANGED <<first, raced>>
      PROVE  OneSender' /\ ServerFollows'
    BY <1>c DEF OneSender, ServerFollows
<1>1. ASSUME NEW e \in Edits, EditBegins(e) PROVE OneSender' /\ ServerFollows'
    <2>1. /\ \A d \in Edits : at'[d] = IF d = e THEN "edit" ELSE at[d]
          /\ at[e] = "new" /\ UNCHANGED <<base, first, text, server, raced, touched>>
        BY <1>1, <1>a DEF EditBegins, Places, syncVars
    <2> QED
        BY <1>b, <2>1
<1>2. ASSUME NEW e \in Edits, EditReads(e) PROVE OneSender' /\ ServerFollows'
    <2>1. /\ \A d \in Edits : at'[d] = IF d = e THEN "write" ELSE at[d]
          /\ \A d \in Edits : d # e => base'[d] = base[d]
          /\ at[e] = "edit" /\ UNCHANGED <<first, text, server, raced, touched>>
        BY <1>2, <1>a DEF EditReads, Places, syncVars
    <2> QED
        BY <1>b, <2>1
<1>3. ASSUME NEW e \in Edits, EditWrites(e) PROVE OneSender' /\ ServerFollows'
    <2>1. /\ \A d \in Edits : at'[d] = IF d = e THEN AfterEdit ELSE at[d]
          /\ at[e] = "write" /\ UNCHANGED <<first, raced>>
        BY <1>3, <1>a, HookPlaces DEF EditWrites, Places, syncVars
    <2> QED
        BY <1>c, <2>1, HookPlaces
<1>4. ASSUME NEW e \in Edits, EditFails(e) PROVE OneSender' /\ ServerFollows'
    <2>1. /\ \A d \in Edits : at'[d] = IF d = e THEN "failed" ELSE at[d]
          /\ at[e] = "write" /\ UNCHANGED <<base, first, text, server, raced, touched>>
        BY <1>4, <1>a DEF EditFails, Places, syncVars
    <2> QED
        BY <1>b, <2>1
<1>5. ASSUME NEW e \in Edits, QueueUp(e) PROVE OneSender' /\ ServerFollows'
    <2>1. /\ \A d \in Edits : at'[d] = IF d = e THEN "config" ELSE at[d]
          /\ at[e] = "queue" /\ UNCHANGED <<first, raced>>
        BY <1>5, <1>a DEF QueueUp, Places, syncVars
    <2> QED
        BY <1>c, <2>1
<1>6. ASSUME NEW e \in Edits, HookReads(e) PROVE OneSender' /\ ServerFollows'
    <2>1. /\ \A d \in Edits : d # e => at'[d] = at[d]
          /\ at'[e] \in {AfterFormat, "run"}
          /\ at[e] = "config" /\ UNCHANGED <<first, raced>>
        BY <1>6, HookPlaces DEF HookReads, Go, syncVars
    <2> QED
        BY <1>c, <2>1, HookPlaces
<1>7. ASSUME NEW e \in Edits, SyncReads(e) PROVE OneSender' /\ ServerFollows'
    <2>1. /\ \A d \in Edits : at'[d] = IF d = e THEN "send" ELSE at[d]
          /\ base'[e] = text /\ text' = text
          /\ at[e] = "sync" /\ raced' = \E o \in Edits : at[o] = "send"
        BY <1>7, <1>a DEF SyncReads, Places
    <2> QED
        BY <2>1 DEF OneSender, ServerFollows
<1>8. ASSUME NEW e \in Edits, SyncSends(e) PROVE OneSender' /\ ServerFollows'
    <2>1. /\ \A d \in Edits : at'[d] = IF d = e THEN AfterSync ELSE at[d]
          /\ at[e] = "send" /\ UNCHANGED <<first, base, text, raced, touched>>
          /\ server' = base[e] \/ raced
        BY <1>8, <1>a, HookPlaces DEF SyncSends, Places, fileVars
    <2>2. OneSender'
        BY <2>1, HookPlaces DEF OneSender
    <2>3. ServerFollows'
        <3> SUFFICES ASSUME first = "format", ~raced, ~touched PROVE ServerFollows'
            BY <2>1 DEF ServerFollows
        <3>1. AfterSync = "done" /\ server' = base[e]
            BY <2>1, HookPlaces
        <3>2. \A d \in Edits : at'[d] # "send"
            BY <2>1, <3>1 DEF OneSender
        <3>3. \/ \E d \in Edits : at[d] \in ToBeRead
              \/ base[e] = text
            BY <2>1 DEF ServerFollows, OneSender
        <3>4. ASSUME NEW d \in Edits, at[d] \in ToBeRead PROVE ServerFollows'
            <4>1. at'[d] = at[d]
                BY <2>1, <3>4
            <4> QED
                BY <3>4, <4>1 DEF ServerFollows
        <3> QED
            BY <2>1, <3>1, <3>2, <3>3, <3>4 DEF ServerFollows
    <2> QED
        BY <2>2, <2>3
<1>9. ASSUME NEW t \in Formats, FormatBegins(t) PROVE OneSender' /\ ServerFollows'
    <2>1. /\ \A d \in Edits : at'[d] = at[d]
          /\ UNCHANGED <<first, base, text, server, raced, touched>>
        BY <1>9, EditHooksAssumption DEF FormatBegins, Go, fileVars, syncVars
    <2> QED
        BY <2>1 DEF OneSender, ServerFollows
<1>10. ASSUME NEW e \in Edits, FormatterStep(e) PROVE OneSender' /\ ServerFollows'
    <2>1. CASE FormatterReads(e)
        <3>1. /\ \A d \in Edits : at'[d] = IF d = e THEN "out" ELSE at[d]
              /\ at[e] = "run" /\ UNCHANGED <<first, raced>>
            BY <1>a, <2>1 DEF FormatterReads, Places, syncVars
        <3> QED
            BY <1>c, <3>1
    <2>2. CASE FormatterWrites(e) \/ FormatterFails(e)
        <3>1. AfterRun(e) = AfterFormat
            BY DEF AfterRun
        <3>2. /\ \A d \in Edits : at'[d] = IF d = e THEN AfterFormat ELSE at[d]
              /\ at[e] = "out" /\ UNCHANGED <<first, raced>>
            BY <1>a, <2>2, <3>1, HookPlaces DEF FormatterWrites, FormatterFails, Places, syncVars
        <3> QED
            BY <1>c, <3>2, HookPlaces
    <2> QED
        BY <1>10, <2>1, <2>2 DEF FormatterStep
<1>11. ASSUME NEW t \in Formats, FormatterStep(t) PROVE OneSender' /\ ServerFollows'
    <2>0. t \notin Edits
        BY EditHooksAssumption
    <2>1. /\ \A d \in Edits : at'[d] = at[d] /\ base'[d] = base[d]
          /\ UNCHANGED <<first, server, raced>>
          /\ touched' \/ UNCHANGED <<text, touched>>
        BY <1>11, <2>0 DEF FormatterStep, FormatterReads, FormatterWrites, FormatterFails, Go, syncVars
    <2> QED
        BY <2>1 DEF OneSender, ServerFollows
<1>12. ASSUME UNCHANGED <<first, fileVars, at, syncVars>> PROVE OneSender' /\ ServerFollows'
    BY <1>12 DEF fileVars, syncVars, OneSender, ServerFollows
<1>13. ASSUME NEW t \in Turns, TurnStep(t) \/ \E s \in Switches : TurnBegins(t, s)
       PROVE  OneSender' /\ ServerFollows'
    <2>1. UNCHANGED <<first, fileVars, at, syncVars>>
        BY <1>13 DEF TurnStep, TurnReads, TurnOpens, TurnWrites, TurnFails, TurnBegins
    <2> QED
        BY <1>12, <2>1
<1>14. CASE UNCHANGED hookVars
    BY <1>12, <1>14 DEF hookVars
<1> QED
    BY <1>1, <1>2, <1>3, <1>4, <1>5, <1>6, <1>7, <1>8, <1>9, <1>10, <1>11, <1>13, <1>14
       DEF HooksNext, EditStep

(* The switches on disk and in the list.                                   *)
LEMMA HooksSwitchStep == HooksInv /\ [HooksNext]_hookVars => SwitchFollows'
<1> SUFFICES ASSUME HooksInv, [HooksNext]_hookVars, ~crossed' PROVE SwitchFollows'
    BY DEF SwitchFollows
<1>0. HooksTypeOK /\ SwitchFollows
    BY DEF HooksInv
<1> USE <1>0 DEF HooksTypeOK
<1>1. ASSUME UNCHANGED switchVars PROVE SwitchFollows'
    BY <1>1 DEF switchVars, SwitchFollows, UnderWay
<1>a. ASSUME NEW t \in Turns, t \in UnderWay, ~crossed
      PROVE  /\ \A u \in Turns : u # t => turn[u].is \notin {"read", "open", "torn"}
             /\ listed = [config EXCEPT ![turn[t].of] = ~config[turn[t].of]]
             /\ torn = (turn[t].is = "torn")
             /\ turn[t].is # "read" => turn[t].was = config
    BY <1>a DEF SwitchFollows, UnderWay
<1>b. ASSUME NEW t \in Turns, turn'[t].is \in {"read", "open", "torn"},
             \A u \in Turns : u # t => turn'[u] = turn[u] /\ turn[u].is \notin {"read", "open", "torn"},
             listed' = [config' EXCEPT ![turn'[t].of] = ~config'[turn'[t].of]],
             torn' = (turn'[t].is = "torn"),
             turn'[t].is # "read" => turn'[t].was = config'
      PROVE  SwitchFollows'
    <2>1. UnderWay' = {t}
        BY <1>b DEF UnderWay
    <2> QED
        BY <1>b, <2>1 DEF SwitchFollows
<1>c. ASSUME NEW t \in Turns, turn'[t].is = "done",
             \A u \in Turns : u # t => turn'[u] = turn[u] /\ turn[u].is \notin {"read", "open", "torn"},
             config' = listed', ~torn'
      PROVE  SwitchFollows'
    <2>1. UnderWay' = {}
        BY <1>c DEF UnderWay
    <2> QED
        BY <1>c, <2>1 DEF SwitchFollows
<1>2. ASSUME NEW t \in Turns, NEW s \in Switches, TurnBegins(t, s) PROVE SwitchFollows'
    <2>1. ~crossed /\ UnderWay = {}
        BY <1>2 DEF TurnBegins
    <2>2. config = listed /\ ~torn
        BY <2>1 DEF SwitchFollows
    <2>3. /\ turn'[t].is = "read" /\ turn'[t].of = s
          /\ \A u \in Turns : u # t => turn'[u] = turn[u]
          /\ listed' = [listed EXCEPT ![s] = ~listed[s]] /\ UNCHANGED <<config, torn>>
        BY <1>2 DEF TurnBegins
    <2>4. \A u \in Turns : turn[u].is \notin {"read", "open", "torn"}
        BY <2>1 DEF UnderWay
    <2> QED
        BY <1>b, <2>2, <2>3, <2>4
<1>3. ASSUME NEW t \in Turns, TurnReads(t) PROVE SwitchFollows'
    <2>1. /\ turn[t].is = "read" /\ turn'[t].is = "open" /\ turn'[t].of = turn[t].of
          /\ turn'[t].was = Parsed /\ \A u \in Turns : u # t => turn'[u] = turn[u]
          /\ ~crossed /\ UNCHANGED <<config, torn, listed>>
        BY <1>3 DEF TurnReads
    <2>2. t \in UnderWay
        BY <2>1 DEF UnderWay
    <2>3. ~torn
        BY <1>a, <2>1, <2>2
    <2>4. Parsed = config
        BY <2>3 DEF Parsed
    <2>5. /\ \A u \in Turns : u # t => turn[u].is \notin {"read", "open", "torn"}
          /\ listed = [config EXCEPT ![turn[t].of] = ~config[turn[t].of]]
        BY <1>a, <2>1, <2>2
    <2>6. /\ listed' = [config' EXCEPT ![turn'[t].of] = ~config'[turn'[t].of]]
          /\ turn'[t].was = config' /\ torn' = FALSE
        BY <2>1, <2>3, <2>4, <2>5
    <2> QED
        BY <1>b, <2>1, <2>5, <2>6
<1>4. ASSUME NEW t \in Turns, TurnOpens(t) PROVE SwitchFollows'
    <2>1. /\ turn[t].is = "open" /\ turn'[t].is = "torn" /\ turn'[t].of = turn[t].of
          /\ turn'[t].was = turn[t].was /\ \A u \in Turns : u # t => turn'[u] = turn[u]
          /\ ~crossed /\ torn' = TRUE /\ UNCHANGED <<config, listed>>
        BY <1>4 DEF TurnOpens
    <2>2. t \in UnderWay
        BY <2>1 DEF UnderWay
    <2>3. /\ \A u \in Turns : u # t => turn[u].is \notin {"read", "open", "torn"}
          /\ listed = [config EXCEPT ![turn[t].of] = ~config[turn[t].of]]
          /\ turn[t].was = config
        BY <1>a, <2>1, <2>2
    <2>4. /\ listed' = [config' EXCEPT ![turn'[t].of] = ~config'[turn'[t].of]]
          /\ turn'[t].was = config'
        BY <2>1, <2>3
    <2> QED
        BY ZenonT(40), <1>b, <2>1, <2>3, <2>4
<1>5. ASSUME NEW t \in Turns, TurnWrites(t) PROVE SwitchFollows'
    <2>1. /\ turn[t].is = "torn" /\ turn'[t].is = "done" /\ \A u \in Turns : u # t => turn'[u] = turn[u]
          /\ ~crossed /\ ~torn' /\ UNCHANGED listed
          /\ config' = [turn[t].was EXCEPT ![turn[t].of] = ~turn[t].was[turn[t].of]]
        <3>1. crossed = FALSE /\ torn' \in {FALSE, crossed}
            BY <1>5 DEF TurnWrites
        <3>2. torn' = FALSE
            BY <3>1
        <3> QED
            BY <1>5, <3>1, <3>2 DEF TurnWrites
    <2>2. t \in UnderWay
        BY <2>1 DEF UnderWay
    <2> QED
        BY <1>a, <1>c, <2>1, <2>2
<1>6. ASSUME NEW t \in Turns, TurnFails(t) PROVE SwitchFollows'
    <2>1. /\ turn[t].is = "open" /\ turn'[t].is = "done" /\ \A u \in Turns : u # t => turn'[u] = turn[u]
          /\ ~crossed /\ UNCHANGED <<config, torn>>
          /\ listed' = [listed EXCEPT ![turn[t].of] = ~listed[turn[t].of]]
        BY <1>6 DEF TurnFails
    <2>2. t \in UnderWay
        BY <2>1 DEF UnderWay
    <2>3. listed' = config
        <3>1. listed = [config EXCEPT ![turn[t].of] = ~config[turn[t].of]] /\ turn[t].of \in Switches
            BY <1>a, <2>1, <2>2
        <3>2. config \in [Switches -> BOOLEAN] /\ listed' \in [Switches -> BOOLEAN]
            BY <2>1 DEF Settings
        <3>3. \A s \in Switches : listed'[s] = config[s]
            <4>1. \A s \in Switches : s # turn[t].of => listed'[s] = config[s]
                BY <2>1, <3>1, <3>2
            <4>2. /\ listed[turn[t].of] = ~config[turn[t].of]
                  /\ listed'[turn[t].of] = ~listed[turn[t].of] /\ config[turn[t].of] \in BOOLEAN
                BY <2>1, <3>1, <3>2 DEF Settings
            <4>3. listed'[turn[t].of] = config[turn[t].of]
                <5>1. CASE config[turn[t].of] = TRUE
                    <6>1. listed[turn[t].of] = FALSE
                        BY <4>2, <5>1
                    <6> QED
                        BY <4>2, <5>1, <6>1
                <5>2. CASE config[turn[t].of] = FALSE
                    <6>1. listed[turn[t].of] = TRUE
                        BY <4>2, <5>2
                    <6> QED
                        BY <4>2, <5>2, <6>1
                <5> QED
                    BY <4>2, <5>1, <5>2
            <4> QED
                BY <4>1, <4>3
        <3> QED
            BY <3>2, <3>3
    <2> QED
        BY <1>a, <1>c, <2>1, <2>2, <2>3
<1>7. ASSUME NEW e \in Edits, EditBegins(e) \/ EditStep(e) PROVE SwitchFollows'
    BY <1>1, <1>7 DEF EditBegins, EditStep, EditReads, EditWrites, EditFails, QueueUp, HookReads, SyncReads, SyncSends
<1>8. ASSUME NEW t \in Formats, FormatBegins(t) PROVE SwitchFollows'
    BY <1>1, <1>8 DEF FormatBegins
<1>9. ASSUME NEW c \in Edits \cup Formats, FormatterStep(c) PROVE SwitchFollows'
    BY <1>1, <1>9 DEF FormatterStep, FormatterReads, FormatterWrites, FormatterFails
<1>10. CASE UNCHANGED hookVars
    BY <1>1, <1>10 DEF hookVars
<1> QED
    BY <1>2, <1>3, <1>4, <1>5, <1>6, <1>7, <1>8, <1>9, <1>10 DEF HooksNext, TurnStep

LEMMA HooksHold == HooksSpec => []HooksInv
<1>1. HooksInv /\ [HooksNext]_hookVars => HooksInv'
    BY HooksTypeStep, HooksFileStep, HooksServerStep, HooksSwitchStep DEF HooksInv
<1> QED
    BY <1>1, HooksInitial, PTL DEF HooksSpec

(* No edit and no switch is lost, and the language server has the text     *)
(* when the hooks of pi-format and pi-lsp are through, for any number of   *)
(* edits, formats and turns of the switches.                               *)
THEOREM HooksAreSafe == HooksSpec => []HooksSafe
<1>1. HooksInv => ServerCurrent
    <2> SUFFICES ASSUME HooksInv, first = "format", \A e \in Edits : Ended(e), ~raced, ~touched
                 PROVE  server = text
        BY DEF ServerCurrent
    <2>1. ServerFollows
        BY DEF HooksInv
    <2> QED
        BY <2>1 DEF ServerFollows, Ended, ToBeRead
<1>2. HooksInv => SwitchesKept
    BY DEF HooksInv, SwitchFollows, SwitchesKept
<1>3. HooksInv => HooksSafe
    BY <1>1, <1>2 DEF HooksInv, HooksSafe
<1> QED
    BY <1>3, HooksHold, PTL

-----------------------------------------------------------------------------
(* The registry of diagnostics.                                            *)
(* What can be counted is finite.                                          *)
LEMMA FilesFinite == IsFiniteSet(Files) /\ \A T \in SUBSET Files : IsFiniteSet(T) /\ Cardinality(T) \in Nat
<1> DEFINE fileOf == [w \in Watches |-> w[2]]
<1>1. fileOf \in Surjection(Watches, Files)
    BY DEF Files, Surjection
<1> HIDE DEF fileOf
<1>2. IsFiniteSet(Files)
    BY <1>1, FS_Surjection, DiagnosticsAssumption
<1> QED
    BY <1>2, FS_Subset, FS_CardinalityType

LEMMA PairsFinite ==
    ASSUME NEW S, S \subseteq Watches \X Diags
    PROVE  IsFiniteSet(S) /\ Cardinality(S) \in Nat
BY DiagnosticsAssumption, FS_Product, FS_Subset, FS_CardinalityType

(* A full history names as many files as it may.                           *)
LEMMA TrackedFew ==
    ASSUME NEW X, X \subseteq Files, NEW sets \in [Watches -> SUBSET Diags], Tracked(sets) \subseteq X,
           Cardinality(X) <= MaxFiles
    PROVE  Cardinality(Tracked(sets)) <= MaxFiles
<1>1. IsFiniteSet(X) /\ Cardinality(X) \in Nat /\ Cardinality(Tracked(sets)) \in Nat
    BY FilesFinite
<1>2. Cardinality(Tracked(sets)) <= Cardinality(X)
    BY <1>1, FS_Subset
<1> QED
    BY <1>1, <1>2, DiagnosticsAssumption

(* What a drain selects keeps the caps: the last file it takes anything of *)
(* had room for it.                                                        *)
LEMMA SelectionFits ==
    ASSUME DiagnosticsTypeOK, NEW o \in Orders, NEW S \in Selected(o), S # {}
    PROVE  /\ S \subseteq Watches \X Diags
           /\ Cardinality(S) <= Total
           /\ \A f \in Files : Cardinality(S \cap Candidates({f})) <= PerFile
<1> DEFINE n == Cardinality(Files)
           Mine(i) == S \cap Candidates({o[i]})
           Before(i) == S \cap Candidates({o[j] : j \in 1..(i - 1)})
<1>1. n \in Nat /\ DOMAIN o = 1..n /\ o \in [1..n -> Files] /\ Files = {o[i] : i \in 1..n}
    BY FilesFinite DEF Orders
<1>2. Candidates(Files) \subseteq Watches \X Diags
    BY DEF Candidates, Fresh, DiagnosticsTypeOK
<1>3. S \subseteq Candidates(Files) /\ S \subseteq Watches \X Diags
    BY <1>2 DEF Selected
<1>4. \A T \in SUBSET S : IsFiniteSet(T) /\ Cardinality(T) \in Nat
    BY <1>3, PairsFinite
<1>5. ASSUME NEW i \in 1..n
      PROVE  /\ Cardinality(Mine(i)) <= PerFile
             /\ Mine(i) # {} => Cardinality(Before(i)) + Cardinality(Mine(i)) <= Total
    <2>1. LET all == Candidates({o[i]})
              room == Room(Cardinality(Before(i)))
          IN  Cardinality(Mine(i)) = IF Cardinality(all) < room THEN Cardinality(all) ELSE room
        BY <1>1, <1>5 DEF Selected
    <2>2. Candidates({o[i]}) \subseteq Watches \X Diags
        BY DEF Candidates, Fresh, DiagnosticsTypeOK
    <2>3. Cardinality(Candidates({o[i]})) \in Nat
        BY <2>2, PairsFinite
    <2>4. Cardinality(Before(i)) \in Nat /\ Cardinality(Mine(i)) \in Nat
        BY <1>4
    <2>5. Mine(i) # {} => Cardinality(Mine(i)) # 0
        BY <1>4, FS_EmptySet
    <2> HIDE DEF Mine, Before
    <2> QED
        BY <2>1, <2>3, <2>4, <2>5, DiagnosticsAssumption DEF Room
<1>6. PICK m \in 1..n : Mine(m) # {} /\ \A k \in 1..n : Mine(k) # {} => k <= m
    <2> DEFINE T == {n - i : i \in {k \in 1..n : Mine(k) # {}}}
    <2>1. PICK x \in S : TRUE
        OBVIOUS
    <2>2. PICK k \in 1..n : x \in Mine(k)
        <3>1. PICK w \in Watches : w[2] \in Files /\ x \in {w} \X Fresh(w)
            BY <1>3 DEF Candidates
        <3>2. PICK k \in 1..n : o[k] = w[2]
            BY <1>1, <3>1
        <3> QED
            BY <3>1, <3>2 DEF Candidates
    <2>3. T \subseteq Nat /\ T # {}
        <3>1. \A i \in 1..n : n - i \in Nat
            BY <1>1
        <3>2. n - k \in T
            BY <2>2
        <3> QED
            BY <3>1, <3>2
    <2>4. PICK z \in T : \A y \in T : z <= y
        BY <2>3, LeastNumber
    <2>5. PICK i \in 1..n : z = n - i /\ Mine(i) # {}
        BY <2>4
    <2>6. ASSUME NEW l \in 1..n, Mine(l) # {} PROVE l <= i
        <3>1. n - l \in T
            BY <2>6
        <3>2. n - i <= n - l
            BY <2>4, <2>5, <3>1
        <3> QED
            BY <1>1, <3>2
    <2> QED
        BY <2>5, <2>6
<1>7. S = Before(m) \cup Mine(m)
    <2> SUFFICES ASSUME NEW x \in S PROVE x \in Before(m) \cup Mine(m)
        OBVIOUS
    <2>1. PICK w \in Watches : w[2] \in Files /\ x \in {w} \X Fresh(w)
        BY <1>3 DEF Candidates
    <2>2. PICK k \in 1..n : o[k] = w[2]
        BY <1>1, <2>1
    <2>3. x \in Mine(k)
        BY <2>1, <2>2 DEF Candidates
    <2>4. k <= m
        BY <1>6, <2>3
    <2>5. CASE k = m
        BY <2>3, <2>5
    <2>6. CASE k # m
        <3>1. k \in 1..(m - 1)
            BY <2>4, <2>6
        <3>2. x \in Candidates({o[j] : j \in 1..(m - 1)})
            BY <2>1, <2>2, <3>1 DEF Candidates
        <3> QED
            BY <3>2
    <2> QED
        BY <2>5, <2>6
<1>8. Cardinality(S) <= Cardinality(Before(m)) + Cardinality(Mine(m))
    <2>1. /\ IsFiniteSet(Before(m)) /\ IsFiniteSet(Mine(m)) /\ Cardinality(Before(m) \cap Mine(m)) \in Nat
          /\ Cardinality(Before(m)) \in Nat /\ Cardinality(Mine(m)) \in Nat
        BY <1>4
    <2> HIDE DEF Mine, Before
    <2>2. Cardinality(Before(m) \cup Mine(m))
             = Cardinality(Before(m)) + Cardinality(Mine(m)) - Cardinality(Before(m) \cap Mine(m))
        BY <2>1, FS_Union
    <2> QED
        BY <1>7, <2>1, <2>2
<1>9. Cardinality(S) <= Total
    <2>1. Cardinality(Before(m)) + Cardinality(Mine(m)) <= Total
        BY <1>5, <1>6
    <2>2. /\ Cardinality(S) \in Nat /\ Cardinality(Before(m)) \in Nat /\ Cardinality(Mine(m)) \in Nat
          /\ Total \in Nat
        BY <1>4, DiagnosticsAssumption
    <2> HIDE DEF Mine, Before
    <2> QED
        BY <1>8, <2>1, <2>2
<1>10. ASSUME NEW f \in Files PROVE Cardinality(S \cap Candidates({f})) <= PerFile
    <2>1. PICK k \in 1..n : o[k] = f
        BY <1>1
    <2> QED
        BY <1>5, <2>1
<1> QED
    BY <1>3, <1>9, <1>10

(* A step that delivers nothing keeps the caps of a delivery.              *)
LEMMA SaidNothing ==
    ASSUME NEW notice, \A w \in Watches : notice[w] = {}
    PROVE  /\ Cardinality(UNION {{w} \X notice[w] : w \in {v \in Watches : v[2] \in Files}}) <= Total
           /\ \A f \in Files :
                Cardinality(UNION {{w} \X notice[w] : w \in {v \in Watches : v[2] \in {f}}}) <= PerFile
<1>1. ASSUME NEW fs PROVE Cardinality(UNION {{w} \X notice[w] : w \in {v \in Watches : v[2] \in fs}}) = 0
    <2>1. UNION {{w} \X notice[w] : w \in {v \in Watches : v[2] \in fs}} = {}
        OBVIOUS
    <2> QED
        BY <2>1, FS_EmptySet
<1>2. 0 <= Total /\ 0 <= PerFile
    BY DiagnosticsAssumption
<1>3. Cardinality(UNION {{w} \X notice[w] : w \in {v \in Watches : v[2] \in Files}}) = 0
    BY <1>1
<1>4. ASSUME NEW f \in Files
      PROVE  Cardinality(UNION {{w} \X notice[w] : w \in {v \in Watches : v[2] \in {f}}}) = 0
    BY <1>1
<1> QED
    BY <1>2, <1>3, <1>4

LEMMA DiagnosticsInitial == DiagnosticsInit => DiagnosticsSafe
<1> SUFFICES ASSUME DiagnosticsInit PROVE DiagnosticsSafe
    OBVIOUS
<1> USE DEF DiagnosticsInit
<1>1. DiagnosticsTypeOK
    BY DEF DiagnosticsTypeOK, Nothing
<1>2. HistoryExact /\ NothingForgotten /\ MarkIsTrue /\ FreshUnlessPassed
    BY DEF HistoryExact, NothingForgotten, MarkIsTrue, FreshUnlessPassed, Present, Nothing
<1>3. Tracked(delivered) = {}
    BY DEF Tracked, Nothing
<1>4. CapsHeld
    <2>1. \A w \in Watches : message[w] = {}
        BY DEF Nothing
    <2>2. Cardinality(Tracked(delivered)) <= MaxFiles
        BY <1>3, FS_EmptySet, DiagnosticsAssumption
    <2> QED
        BY <2>1, <2>2, SaidNothing DEF CapsHeld
<1> QED
    BY <1>1, <1>2, <1>4 DEF DiagnosticsSafe

(* What is taken out of the sets, and what stays in.                       *)
LEMMA WithoutType ==
    ASSUME NEW sets \in [Watches -> SUBSET Diags], NEW ws
    PROVE  /\ Without(sets, ws) \in [Watches -> SUBSET Diags]
           /\ \A w \in Watches : Without(sets, ws)[w] = IF w \in ws THEN {} ELSE sets[w]
BY DEF Without

LEMMA MarkFollows == MarkIsTrue /\ NotifyIfChanged => MarkIsTrue'
<1> SUFFICES ASSUME MarkIsTrue, NotifyIfChanged PROVE MarkIsTrue'
    OBVIOUS
<1>1. mark' = IF Present(unread', delivered') # Present(unread, delivered)
              THEN Present(unread', delivered') ELSE mark
    BY DEF NotifyIfChanged
<1>2. MarkIsTrue' = (mark' = Present(unread', delivered'))
    BY DEF MarkIsTrue
<1> QED
    BY <1>1, <1>2 DEF MarkIsTrue

(* The steps that only take away: an empty publication, an edit and /lsp   *)
(* clean.                                                                  *)
LEMMA TakingAway ==
    ASSUME DiagnosticsSafe, NEW ws \in SUBSET Watches, NEW es \in SUBSET Watches,
           unread' = Without(unread, ws), passed' = passed \ ws,
           delivered' = Without(delivered, es), sent' = Without(sent, es),
           published' \in [Watches -> SUBSET Diags],
           \A w \in Watches : published'[w] = {} \/ (w \notin ws \cup es /\ published'[w] = published[w]),
           behind' \subseteq Watches, \A w \in behind' : w \in behind \/ w \in ws,
           message' = Nothing, NotifyIfChanged
    PROVE  DiagnosticsSafe'
<1> USE DEF DiagnosticsSafe
<1>1. /\ unread' \in [Watches -> SUBSET Diags] /\ delivered' \in [Watches -> SUBSET Diags]
      /\ sent' \in [Watches -> SUBSET Diags]
      /\ \A w \in Watches : unread'[w] = IF w \in ws THEN {} ELSE unread[w]
      /\ \A w \in Watches : delivered'[w] = IF w \in es THEN {} ELSE delivered[w]
    BY WithoutType DEF DiagnosticsTypeOK
<1>2. DiagnosticsTypeOK'
    <2>1. passed' \subseteq {w \in Watches : unread'[w] # {}}
        BY <1>1 DEF DiagnosticsTypeOK
    <2>2. mark' \in BOOLEAN /\ message' \in [Watches -> SUBSET Diags]
        BY DEF NotifyIfChanged, Present, Nothing, DiagnosticsTypeOK
    <2> QED
        BY <1>1, <2>1, <2>2 DEF DiagnosticsTypeOK
<1>3. HistoryExact'
    BY DEF HistoryExact
<1>4. NothingForgotten'
    BY <1>1 DEF NothingForgotten
<1>5. MarkIsTrue'
    BY MarkFollows
<1>6. FreshUnlessPassed'
    BY <1>1 DEF FreshUnlessPassed
<1>7. CapsHeld'
    <2>1. Tracked(delivered') \subseteq Tracked(delivered) /\ Tracked(delivered) \subseteq Files
        BY <1>1 DEF Tracked, Files
    <2>2. Cardinality(Tracked(delivered)) <= MaxFiles
        BY DEF CapsHeld
    <2>3. Cardinality(Tracked(delivered')) <= MaxFiles
        BY <1>1, <2>1, <2>2, TrackedFew
    <2>4. \A w \in Watches : message'[w] = {}
        BY DEF Nothing
    <2>5. Tracked(delivered)' = Tracked(delivered')
        BY DEF Tracked
    <2> QED
        BY <2>3, <2>4, <2>5, SaidNothing DEF CapsHeld
<1> QED
    BY <1>2, <1>3, <1>4, <1>5, <1>6, <1>7

(* A publication that says something: it waits, whatever the agent knows.  *)
LEMMA Saying ==
    ASSUME DiagnosticsSafe, NEW w \in Watches, NEW found \in SUBSET Diags, found # {}, Register(w, found)
    PROVE  DiagnosticsSafe'
<1> USE DEF DiagnosticsSafe
<1>1. /\ behind' \in {behind, behind \ {w}}
      /\ unread' = [unread EXCEPT ![w] = found]
      /\ passed' = (passed \ {w}) \cup ({w} \cap behind')
      /\ delivered' = delivered /\ sent' = sent
      /\ NotifyIfChanged
      /\ published' = [published EXCEPT ![w] = found]
      /\ message' = Nothing
    BY DEF Register
<1>2. /\ \A v \in Watches : unread'[v] = IF v = w THEN found ELSE unread[v]
      /\ \A v \in Watches : published'[v] = IF v = w THEN found ELSE published[v]
      /\ unread' \in [Watches -> SUBSET Diags] /\ published' \in [Watches -> SUBSET Diags]
    BY <1>1 DEF DiagnosticsTypeOK
<1>3. DiagnosticsTypeOK'
    <2>1. passed' \subseteq {v \in Watches : unread'[v] # {}}
        BY <1>1, <1>2 DEF DiagnosticsTypeOK
    <2>2. mark' \in BOOLEAN /\ message' \in [Watches -> SUBSET Diags] /\ behind' \subseteq Watches
        BY <1>1 DEF NotifyIfChanged, Present, Nothing, DiagnosticsTypeOK
    <2> QED
        BY <1>1, <1>2, <2>1, <2>2 DEF DiagnosticsTypeOK
<1>4. HistoryExact'
    BY <1>1 DEF HistoryExact
<1>5. NothingForgotten'
    BY <1>1, <1>2 DEF NothingForgotten
<1>6. MarkIsTrue'
    BY <1>1, MarkFollows
<1>7. FreshUnlessPassed'
    BY <1>1, <1>2 DEF FreshUnlessPassed
<1>8. CapsHeld'
    <2>1. \A v \in Watches : message'[v] = {}
        BY <1>1 DEF Nothing
    <2>2. Cardinality(Tracked(delivered)) <= MaxFiles /\ Tracked(delivered)' = Tracked(delivered)
        BY <1>1 DEF CapsHeld, Tracked
    <2> QED
        BY <2>1, <2>2, SaidNothing DEF CapsHeld
<1> QED
    BY <1>3, <1>4, <1>5, <1>6, <1>7, <1>8

LEMMA DrainNothingStep ==
    ASSUME DiagnosticsSafe, DrainNothing
    PROVE  DiagnosticsSafe'
<1> USE DEF DiagnosticsSafe
<1>1. /\ unread # Nothing /\ unread' = Nothing /\ passed' = {} /\ message' = Nothing
      /\ delivered' = delivered /\ behind' = behind /\ published' = published
      /\ sent' = sent /\ mark' = mark
      /\ \A w \in Watches : unread[w] \subseteq delivered[w]
    BY DEF DrainNothing, Fresh
<1>2. Nothing \in [Watches -> SUBSET Diags] /\ \A w \in Watches : Nothing[w] = {}
    BY DEF Nothing
<1>3. DiagnosticsTypeOK'
    BY <1>1, <1>2 DEF DiagnosticsTypeOK
<1>4. HistoryExact' /\ FreshUnlessPassed'
    BY <1>1, <1>2 DEF HistoryExact, FreshUnlessPassed
<1>5. NothingForgotten'
    BY <1>1 DEF NothingForgotten
<1>6. MarkIsTrue'
    <2>1. PICK w \in Watches : unread[w] # {}
        BY <1>1 DEF Nothing, DiagnosticsTypeOK
    <2>2. delivered[w] # {}
        BY <1>1, <2>1
    <2>3. Present(unread, delivered) = TRUE /\ Present(unread', delivered') = TRUE
        BY <1>1, <2>2 DEF Present
    <2> QED
        BY <1>1, <2>3 DEF MarkIsTrue
<1>7. CapsHeld'
    <2>1. Cardinality(Tracked(delivered)) <= MaxFiles /\ Tracked(delivered)' = Tracked(delivered)
        BY <1>1 DEF CapsHeld, Tracked
    <2> QED
        BY <1>1, <1>2, <2>1, SaidNothing DEF CapsHeld
<1> QED
    BY <1>3, <1>4, <1>5, <1>6, <1>7

(* A delivery: what the caps leave out is in no set any more, and a file   *)
(* the history loses is dropped in the account of what was sent as well.      *)
LEMMA DrainNewStep ==
    ASSUME DiagnosticsSafe, DrainNew
    PROVE  DiagnosticsSafe'
<1> USE DEF DiagnosticsSafe
<1>0. PICK o \in Orders : \E S \in Selected(o) \ {{}}, gone \in SUBSET Files :
        LET new == [w \in Watches |-> {d \in Diags : <<w, d>> \in S}]
            all == Tracked(delivered) \cup Tracked(new)
            dropped == {w \in Watches : w[2] \in gone}
        IN /\ gone \subseteq all
           /\ Cardinality(all \ gone) =
                IF Cardinality(all) < MaxFiles THEN Cardinality(all) ELSE MaxFiles
           /\ Remember(new, gone)
           /\ unread' = Nothing /\ passed' = {}
           /\ message' = new
           /\ sent' = Without([w \in Watches |-> sent[w] \cup new[w]], dropped)
           /\ published' =
                Without([w \in Watches |-> published[w] \ (Fresh(w) \ new[w])], dropped)
           /\ UNCHANGED <<behind, mark>>
    BY Zenon DEF DrainNew
<1>1. PICK S \in Selected(o) \ {{}}, gone \in SUBSET Files :
        LET new == [w \in Watches |-> {d \in Diags : <<w, d>> \in S}]
            all == Tracked(delivered) \cup Tracked(new)
            dropped == {w \in Watches : w[2] \in gone}
        IN /\ gone \subseteq all
           /\ Cardinality(all \ gone) =
                IF Cardinality(all) < MaxFiles THEN Cardinality(all) ELSE MaxFiles
           /\ Remember(new, gone)
           /\ unread' = Nothing /\ passed' = {}
           /\ message' = new
           /\ sent' = Without([w \in Watches |-> sent[w] \cup new[w]], dropped)
           /\ published' =
                Without([w \in Watches |-> published[w] \ (Fresh(w) \ new[w])], dropped)
           /\ UNCHANGED <<behind, mark>>
    BY <1>0, Zenon
<1> DEFINE new == [w \in Watches |-> {d \in Diags : <<w, d>> \in S}]
           all == Tracked(delivered) \cup Tracked(new)
           dropped == {w \in Watches : w[2] \in gone}
<1>2. /\ new \in [Watches -> SUBSET Diags]
      /\ \A w \in Watches : new[w] = {d \in Diags : <<w, d>> \in S}
    OBVIOUS
<1>3. /\ unread' = Nothing /\ passed' = {} /\ message' = new
      /\ behind' = behind /\ mark' = mark
      /\ delivered' = [w \in Watches |-> IF w[2] \in gone THEN {} ELSE delivered[w] \cup new[w]]
      /\ sent' = [w \in Watches |-> IF w[2] \in gone THEN {} ELSE sent[w] \cup new[w]]
      /\ published' = [w \in Watches |->
            IF w[2] \in gone THEN {} ELSE published[w] \ (Fresh(w) \ new[w])]
    <2>1. /\ sent' = Without([w \in Watches |-> sent[w] \cup new[w]], dropped)
          /\ published' = Without([w \in Watches |-> published[w] \ (Fresh(w) \ new[w])], dropped)
          /\ Remember(new, gone)
        BY <1>1
    <2> HIDE DEF new
    <2> QED
        BY <1>1, <2>1 DEF Without, Remember, new
<1>4. /\ gone \subseteq all
      /\ Cardinality(all \ gone) = IF Cardinality(all) < MaxFiles THEN Cardinality(all) ELSE MaxFiles
    BY <1>1
<1>5. S # {} /\ S \in Selected(o)
    OBVIOUS
<1>6. /\ S \subseteq Watches \X Diags /\ Cardinality(S) <= Total
      /\ \A f \in Files : Cardinality(S \cap Candidates({f})) <= PerFile
    BY <1>5, SelectionFits
<1>7. S \subseteq Candidates(Files)
    BY DEF Selected
<1> HIDE DEF new
<1>8. /\ delivered' \in [Watches -> SUBSET Diags] /\ sent' \in [Watches -> SUBSET Diags]
      /\ published' \in [Watches -> SUBSET Diags]
      /\ \A w \in Watches : delivered'[w] = IF w[2] \in gone THEN {} ELSE delivered[w] \cup new[w]
      /\ \A w \in Watches : published'[w] =
            IF w[2] \in gone THEN {} ELSE published[w] \ (Fresh(w) \ new[w])
    BY <1>2, <1>3 DEF DiagnosticsTypeOK
<1>9. Nothing \in [Watches -> SUBSET Diags] /\ \A w \in Watches : Nothing[w] = {}
    BY DEF Nothing
<1>10. DiagnosticsTypeOK'
    BY <1>2, <1>3, <1>8, <1>9 DEF DiagnosticsTypeOK
<1>11. HistoryExact'
    BY <1>3 DEF HistoryExact
<1>12. NothingForgotten'
    BY <1>2, <1>8 DEF NothingForgotten, Fresh
<1>13. FreshUnlessPassed'
    BY <1>3, <1>9 DEF FreshUnlessPassed
<1>14. Tracked(delivered') \subseteq all \ gone /\ all \ gone \subseteq Tracked(delivered')
    BY <1>8 DEF Tracked
<1>15. PICK v \in Watches : new[v] # {} /\ unread[v] # {}
    BY <1>2, <1>5, <1>6, <1>7 DEF Candidates, Fresh
<1>16. /\ IsFiniteSet(all \ gone) /\ Cardinality(all \ gone) \in Nat /\ Cardinality(all) \in Nat
       /\ all \subseteq Files /\ IsFiniteSet(all)
    <2>1. all \subseteq Files
        BY DEF Tracked, Files
    <2> HIDE DEF all
    <2> QED
        BY <2>1, FilesFinite
<1>17. Cardinality(all \ gone) # 0
    <2>1. v[2] \in all
        BY <1>15 DEF Tracked
    <2> HIDE DEF all
    <2>2. Cardinality(all) # 0
        BY <1>16, <2>1, FS_EmptySet
    <2> QED
        BY <1>4, <2>2, DiagnosticsAssumption
<1>18. MarkIsTrue'
    <2>1. PICK f \in all \ gone : TRUE
        BY <1>17, FS_EmptySet
    <2>2. PICK u \in Watches : delivered'[u] # {}
        BY <1>14, <2>1 DEF Tracked
    <2>3. Present(unread', delivered') = TRUE
        BY <2>2 DEF Present
    <2>4. Present(unread, delivered) = TRUE
        BY <1>15 DEF Present
    <2> QED
        BY <1>3, <2>3, <2>4 DEF MarkIsTrue
<1>19. Cardinality(Tracked(delivered)') <= MaxFiles
    <2>1. Cardinality(all \ gone) <= MaxFiles
        BY <1>4, <1>16, DiagnosticsAssumption
    <2>2. Tracked(delivered)' = Tracked(delivered')
        BY DEF Tracked
    <2>3. all \ gone \subseteq Files
        BY <1>16
    <2> HIDE DEF all
    <2> QED
        BY <1>8, <1>14, <2>1, <2>2, <2>3, TrackedFew
<1>20. CapsHeld'
    <2>1. ASSUME NEW fs \in SUBSET Files
          PROVE  UNION {{w} \X new[w] : w \in {u \in Watches : u[2] \in fs}} = S \cap Candidates(fs)
        BY <1>2, <1>6, <1>7 DEF Candidates
    <2>2. UNION {{w} \X new[w] : w \in {u \in Watches : u[2] \in Files}} = S
        BY <1>7, <2>1
    <2>3. \A f \in Files : UNION {{w} \X new[w] : w \in {u \in Watches : u[2] \in {f}}} = S \cap Candidates({f})
        BY <2>1
    <2>4. /\ Cardinality(UNION {{w} \X new[w] : w \in {u \in Watches : u[2] \in Files}}) <= Total
          /\ \A f \in Files :
                Cardinality(UNION {{w} \X new[w] : w \in {u \in Watches : u[2] \in {f}}}) <= PerFile
        BY <1>6, <2>2, <2>3
    <2> QED
        BY <1>3, <1>19, <2>4 DEF CapsHeld
<1> QED
    BY <1>10, <1>11, <1>12, <1>13, <1>18, <1>20

LEMMA CleaningStep ==
    ASSUME DiagnosticsSafe, NEW w \in Watches, Register(w, {})
    PROVE  DiagnosticsSafe'
<1>1. /\ unread' = Without(unread, {w}) /\ passed' = passed \ {w}
      /\ delivered' = Without(delivered, {w}) /\ sent' = Without(sent, {w})
      /\ NotifyIfChanged /\ message' = Nothing
      /\ published' = [published EXCEPT ![w] = {}]
      /\ behind' \in {behind, behind \ {w}}
    BY DEF Register, Clean
<1>2. /\ published' \in [Watches -> SUBSET Diags]
      /\ \A v \in Watches : published'[v] = IF v = w THEN {} ELSE published[v]
      /\ behind' \subseteq Watches
    BY <1>1 DEF DiagnosticsSafe, DiagnosticsTypeOK
<1>3. /\ {w} \in SUBSET Watches /\ \A v \in behind' : v \in behind \/ v \in {w}
      /\ \A v \in Watches : published'[v] = {} \/ (v \notin {w} \cup {w} /\ published'[v] = published[v])
    BY <1>1, <1>2
<1> QED
    BY <1>1, <1>2, <1>3, TakingAway

LEMMA EditingStep ==
    ASSUME DiagnosticsSafe, NEW f \in Files, Edit(f)
    PROVE  DiagnosticsSafe'
<1>1. /\ unread' = Without(unread, Of(f)) /\ passed' = passed \ Of(f)
      /\ published' = Without(published, Of(f)) /\ behind' = behind \cup Of(f)
      /\ message' = Nothing /\ delivered' = delivered /\ sent' = sent /\ NotifyIfChanged
    BY DEF Edit
<1>2. Of(f) \in SUBSET Watches
    BY DEF Of
<1>3. delivered' = Without(delivered, {}) /\ sent' = Without(sent, {})
    BY <1>1 DEF Without, DiagnosticsSafe, DiagnosticsTypeOK
<1>4. /\ published' \in [Watches -> SUBSET Diags] /\ behind' \subseteq Watches
      /\ \A v \in Watches : published'[v] = IF v \in Of(f) THEN {} ELSE published[v]
    BY <1>1, <1>2, WithoutType DEF DiagnosticsSafe, DiagnosticsTypeOK
<1>5. /\ {} \in SUBSET Watches /\ \A v \in behind' : v \in behind \/ v \in Of(f)
      /\ \A v \in Watches : published'[v] = {} \/ (v \notin Of(f) \cup {} /\ published'[v] = published[v])
    BY <1>1, <1>4
<1> QED
    BY <1>1, <1>2, <1>3, <1>4, <1>5, TakingAway

LEMMA DiscardStep ==
    ASSUME DiagnosticsSafe, NEW fs \in SUBSET Files, Discard(fs)
    PROVE  DiagnosticsSafe'
<1> DEFINE ws == {w \in Watches : w[2] \in fs}
<1>1. /\ unread' = Without(unread, ws) /\ delivered' = Without(delivered, ws)
      /\ published' = Without(published, ws) /\ sent' = Without(sent, ws)
      /\ passed' = passed \ ws /\ message' = Nothing /\ behind' = behind /\ NotifyIfChanged
    BY DEF Discard
<1>2. ws \in SUBSET Watches
    OBVIOUS
<1> HIDE DEF ws
<1>3. /\ published' \in [Watches -> SUBSET Diags] /\ behind' \subseteq Watches
      /\ \A v \in Watches : published'[v] = IF v \in ws THEN {} ELSE published[v]
    BY <1>1, WithoutType DEF DiagnosticsSafe, DiagnosticsTypeOK
<1>4. /\ \A v \in behind' : v \in behind \/ v \in ws
      /\ \A v \in Watches : published'[v] = {} \/ (v \notin ws \cup ws /\ published'[v] = published[v])
    BY <1>1, <1>3
<1> QED
    BY <1>1, <1>2, <1>3, <1>4, TakingAway

LEMMA DiagnosticsStep == DiagnosticsSafe /\ [DiagnosticsNext]_diagnosticsVars => DiagnosticsSafe'
<1> SUFFICES ASSUME DiagnosticsSafe, [DiagnosticsNext]_diagnosticsVars PROVE DiagnosticsSafe'
    OBVIOUS
<1>1. ASSUME NEW w \in Watches, NEW found \in SUBSET Diags, Register(w, found) PROVE DiagnosticsSafe'
    <2>1. CASE found = {}
        BY <1>1, <2>1, CleaningStep
    <2>2. CASE found # {}
        BY <1>1, <2>2, Saying
    <2> QED
        BY <2>1, <2>2
<1>2. CASE DrainNothing
    BY <1>2, DrainNothingStep
<1>3. CASE DrainNew
    BY <1>3, DrainNewStep
<1>4. ASSUME NEW f \in Files, Edit(f) PROVE DiagnosticsSafe'
    BY <1>4, EditingStep
<1>5. ASSUME NEW fs \in SUBSET Files, Discard(fs) PROVE DiagnosticsSafe'
    BY <1>5, DiscardStep
<1>6. CASE UNCHANGED diagnosticsVars
    BY <1>6 DEF diagnosticsVars, registry, DiagnosticsSafe, DiagnosticsTypeOK, HistoryExact,
        NothingForgotten, MarkIsTrue, Present, CapsHeld, Tracked, FreshUnlessPassed
<1> QED
    BY <1>1, <1>2, <1>3, <1>4, <1>5, <1>6 DEF DiagnosticsNext

(* Whatever the servers publish and in whatever order, edits and cleanings *)
(* in between: what a drain delivers is what was published, once, within   *)
(* both caps; the history is what was delivered, of at most so many files; *)
(* what was published waits or was delivered, save what a cap left out;    *)
(* nothing waits that an edit made stale; the mark says whether anything   *)
(* is tracked (diagnostics.ts).                                            *)
THEOREM DiagnosticsAreSafe == DiagnosticsSpec => []DiagnosticsSafe
<1>1. DiagnosticsSpec => DiagnosticsInit /\ [][DiagnosticsNext]_diagnosticsVars
    BY DEF DiagnosticsSpec
<1> QED
    BY <1>1, DiagnosticsInitial, DiagnosticsStep, PTL
=============================================================================
