-------------------------- MODULE MCLanguageServer --------------------------
EXTENDS LanguageServer

CONSTANTS e, f, t

Callers == {e, f, t}
Plan(edits, tools, times, dying, again) ==
    [edits |-> edits, tools |-> tools, toggles |-> times, deaths |-> dying,
     restarts |-> again]

(* Two edits and a death; an edit, a question and a toggle; an edit, a     *)
(* question and a death; one edit and as many deaths as there may be       *)
(* restarts, and one more.                                                 *)
MCPlans == {Plan({e, f}, {}, 0, 1, FALSE), Plan({e}, {t}, 1, 0, FALSE),
            Plan({e}, {t}, 0, 1, TRUE), Plan({e}, {}, 0, 3, TRUE),
            Plan({e}, {}, 2, 1, TRUE)}
=============================================================================
