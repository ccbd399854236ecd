---------------------------- MODULE ExclusiveUse ----------------------------
(***************************************************************************)
(* What every ownership protocol of pi-agents promises: of the clients     *)
(* that may ask for a resource (a run's claim, a run's transaction lock,   *)
(* a native session) at most one uses it at a time.  A client stops using  *)
(* it by giving it back or by dying; the two are the same to the others.   *)
(***************************************************************************)
CONSTANT Client

VARIABLE users

Init == users = {}

Enter(c) == /\ users = {}
            /\ users' = {c}

Leave(gone) == /\ gone # {}
               /\ gone \subseteq users
               /\ users' = users \ gone

Next == \/ \E c \in Client : Enter(c)
        \/ \E gone \in SUBSET Client : Leave(gone)

Spec == Init /\ [][Next]_users
=============================================================================
