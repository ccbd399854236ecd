---------------------------- MODULE MCEndpoints -----------------------------
(***************************************************************************)
(* Small instances of what stands between pi-agents and the processes that *)
(* run its agents: the pipe to a pi child, the parser of its records, and  *)
(* a run over it; a run over ACP, the connection the agent view keeps to a *)
(* Grok session, and its transcript.  A behaviour is one of "system"; the  *)
(* others stay in their first state, so that their states add up and do    *)
(* not multiply.                                                           *)
(***************************************************************************)
EXTENDS RpcTransport, RecordProjector, RpcExecution,
        GrokAcp, GrokTransport, GrokTranscript, TLC

VARIABLE system

CONSTANTS r1, r2, d1, d2, q1, q2

piSystems == <<rpcVars, projectorVars, execVars>>
grokSystems == <<acpVars, transportVars, transcriptVars>>
endpointSystems == <<system, piSystems, grokSystems>>

-----------------------------------------------------------------------------
(* The records: events with up to three members of any kind and order,     *)
(* containers within containers, one event with every shape of key, and    *)
(* each of these with a token left out, put in or replaced anywhere.       *)
Obj(ms) == LET all[i \in 0..Len(ms)] ==
                 IF i = 0 THEN <<"{">>
                 ELSE all[i - 1] \o (IF i > 1 THEN <<",">> ELSE <<>>)
                                 \o <<ms[i][1], ":">> \o ms[i][2]
           IN all[Len(ms)] \o <<"}">>
Big == <<"[", "big", "]">>
Members == {<<"type", <<"agent_end">>>>, <<"type", <<"message_update">>>>,
            <<"type", <<"other">>>>,
            <<"messages", Big>>, <<"messages", <<"big">>>>, <<"messages", <<"[", "huge", "]">>>>,
            <<"willRetry", <<"true">>>>, <<"willRetry", <<"null">>>>,
            <<"assistantMessageEvent", <<"{", "other", ":", "big", "}">>>>,
            <<"assistantMessageEvent", <<"{", "}">>>>,
            <<"message", Obj(<<<<"role", <<"other">>>>, <<"other", Big>>>>)>>,
            <<"message", Obj(<<<<"role", <<"long">>>>>>)>>,
            <<"message", Obj(<<<<"other", Obj(<<<<"role", <<"other">>>>>>)>>, <<"other", Big>>>>)>>}
Built == {Obj(ms) : ms \in UNION {[1..n -> Members] : n \in 0..3}}
Event == Obj(<<<<"type", <<"agent_end">>>>, <<"messages", Big>>, <<"willRetry", <<"true">>>>>>)
Deep == Obj(<<<<"other", <<"[", "[", "1", "]", ",", "{", "}", "]">>>>>>)
Tool(last) == Obj(<<<<"type", <<"tool_execution_end">>>>, <<"toolCallId", <<"other">>>>,
                    <<"toolName", <<"other">>>>, <<"result", Big>>,
                    <<"isError", <<"true">>>>>> \o last)
Spoilt(s) == {SubSeq(s, 1, i - 1) \o new \o SubSeq(s, i + skip, Len(s)) :
                i \in 1..Len(s) + 1, skip \in {0, 1},
                new \in {<<>>, <<",">>, <<"]">>, <<"}">>, <<"big">>}}
MCTexts == Built \cup Spoilt(Event) \cup Spoilt(Deep)
           \cup {Tool(<<>>)} \cup {Tool(<<<<"durationMs", <<v>>>>>>) : v \in {"1", "1e999", "other"}}
MCStrings == Types \cup {"type", "messages", "willRetry", "assistantMessageEvent", "message",
                         "role", "usage", "toolCallId", "toolName", "result", "isError",
                         "durationMs", "other", "long", "big", "huge"}
MCBytes == [t \in Scalars \cup {"{", "}", "[", "]", ",", ":"} |->
              CASE t = "huge" -> 60 [] t = "big" -> 18 [] t \in {"long", "1e999"} -> 3
                [] OTHER -> 1]

-----------------------------------------------------------------------------
EndpointsInit ==
    /\ system \in {"rpc", "records", "execution", "acp", "transport", "transcript"}
    /\ RpcInit /\ ProjectorInit /\ ExecInit
    /\ AcpInit /\ TransportInit /\ TranscriptInit
    /\ system # "records" => text = Event
    /\ system # "acp" => path = "fresh" /\ ~signalled
    /\ system # "transcript" => ~loading

EndpointsNext ==
    /\ UNCHANGED system
    /\ \/ /\ UNCHANGED grokSystems
          /\ \/ system = "rpc" /\ RpcNext /\ UNCHANGED <<projectorVars, execVars>>
             \/ system = "records" /\ ProjectorNext /\ UNCHANGED <<rpcVars, execVars>>
             \/ system = "execution" /\ ExecNext /\ UNCHANGED <<rpcVars, projectorVars>>
       \/ /\ UNCHANGED piSystems
          /\ \/ system = "acp" /\ AcpNext /\ UNCHANGED <<transportVars, transcriptVars>>
             \/ system = "transport" /\ TransportNext /\ UNCHANGED <<acpVars, transcriptVars>>
             \/ system = "transcript" /\ TranscriptNext /\ UNCHANGED <<acpVars, transportVars>>

(* The fairness of each, where it is the one at work.                      *)
EndpointsFair ==
    /\ \A r \in Requests : WF_rpcVars(system = "rpc" /\ TimesOut(r))
    /\ WF_rpcVars(system = "rpc" /\ Kill) /\ WF_rpcVars(system = "rpc" /\ HardBound)
    /\ WF_rpcVars(system = "rpc" /\ Receive) /\ WF_rpcVars(system = "rpc" /\ Closes)
    /\ WF_execVars(system = "execution" /\ (ActivateReturns \/ ActivateFails))
    /\ WF_execVars(system = "execution" /\ Bind) /\ WF_execVars(system = "execution" /\ End)
    /\ WF_execVars(system = "execution" /\ TimerFires)
    /\ WF_execVars(system = "execution" /\ Detaches)
    /\ WF_acpVars(system = "acp" /\ RunStep) /\ WF_acpVars(system = "acp" /\ OtherLetsGo)
    /\ \A p \in Prompts :
        /\ WF_transportVars(system = "transport" /\ Begin(p))
        /\ WF_transportVars(system = "transport" /\ ChainFrees(p))
        /\ WF_transportVars(system = "transport" /\ GraceEnds(p))
        /\ WF_transportVars(system = "transport" /\ ~grokUp /\ PromptBreaks(p))
    /\ WF_transportVars(system = "transport" /\ CancelWritten)
    /\ WF_transportVars(system = "transport" /\ CancelOver)
    /\ WF_transportVars(system = "transport" /\ Gone)

EndpointsSpec == EndpointsInit /\ [][EndpointsNext]_endpointSystems /\ EndpointsFair

(* The n-th request or turn, a run that was aborted; the n-th disposal, a  *)
(* run whose turn has ended: it goes on, and it settles.                   *)
RequestN == <<r1, r2>>
DisposalN == <<d1, d2>>
PromptN == <<q1, q2>>
Asked(n) ==
    \/ system = "rpc" /\ req[RequestN[n]] = "pending"
    \/ system = "execution" /\ aborted /\ at # "start"
    \/ system = "acp" /\ signalled
    \/ system = "transport" /\ TurnMustEnd(PromptN[n])
AnsweredFor(n) ==
    \/ system = "rpc" /\ req[RequestN[n]] # "pending"
    \/ system = "execution" /\ at = "done"
    \/ system = "acp" /\ stageAt = "over"
    \/ system = "transport" /\ turn[PromptN[n]] # "running"
Finishing(n) ==
    \/ system = "rpc" /\ wanted[DisposalN[n]] = "waits"
    \/ system = "execution" /\ outcome # "none"
EndedFor(n) ==
    \/ system = "rpc" /\ wanted[DisposalN[n]] # "waits"
    \/ system = "execution" /\ (at = "done" \/ evicted)

(* Requests settle, runs return, also when they are aborted, and turns     *)
(* end: RpcSettles, RunReturns, AbortEnds and TurnsSettle, of whichever is *)
(* at work.                                                                *)
EndpointsSettle ==
    \A n \in 1..2 : /\ Asked(n) ~> AnsweredFor(n)
                    /\ Finishing(n) ~> EndedFor(n)

(* Nothing is told after an exit or a disposal, and what a transcript      *)
(* showed stays and gets its results.                                      *)
EndpointsStand ==
    /\ SilentAfterExit
    /\ QuietAfterDispose
    /\ HistoryGrows
    /\ LoadEndsCalls
=============================================================================
