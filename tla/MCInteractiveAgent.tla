------------------------- MODULE MCInteractiveAgent -------------------------
EXTENDS InteractiveAgent

CONSTANTS act1, act2

Two == {act1, act2}
(* A Pi endpoint with a session file, and nothing that goes wrong.         *)
None == [runtime |-> "pi", file |-> TRUE, big |-> FALSE, lru |-> FALSE,
         untrusted |-> 0, faults |-> 0, stuck |-> 0, shutdown |-> 0, aborts |-> 0,
         detaches |-> 0, distrusts |-> 0, retries |-> 0, turns |-> 0, exits |-> 0]
Grok == [None EXCEPT !.runtime = "grok"]

MCPlans ==
    {[None EXCEPT !.detaches = 1, !.big = TRUE],
     [None EXCEPT !.exits = 1, !.untrusted = 1],
     [None EXCEPT !.retries = 1, !.turns = 1],
     [None EXCEPT !.faults = 1, !.file = FALSE],
     [None EXCEPT !.stuck = 1, !.aborts = 1],
     [None EXCEPT !.distrusts = 1],
     [None EXCEPT !.shutdown = 1, !.stuck = 1],
     [Grok EXCEPT !.turns = 1, !.lru = TRUE],
     [Grok EXCEPT !.faults = 1]}
=============================================================================
