----------------------------- MODULE MCWorkflow -----------------------------
(* Instances of Workflow: one task in a worktree, parallel tasks, a chain  *)
(* with a fanout between two steps.                                        *)
EXTENDS Workflow

MCPlans == {<<"single">>, <<"parallel">>, <<"sequential", "fanout", "sequential">>}
MCOrigins == [p \in MCPlans |->
    CASE p = <<"single">> -> {"user", "session_shutdown"}
      [] p = <<"parallel">> -> {"session_shutdown"}
      [] OTHER -> {"user"}]
MCSingle == {<<"single">>}
MCSingleOrigins == [p \in MCSingle |-> {"user", "session_shutdown"}]
MCIsolated == {"single"}
=============================================================================
