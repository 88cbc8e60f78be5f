----------------------------- MODULE ServiceView -----------------------------
(***************************************************************************)
(* What the synchronisation of two formations promises, with nothing of    *)
(* how it is done.  Each formation is the authority for the services of    *)
(* its own node, and has a view of the other's.  A view is always          *)
(* something the other formation said of itself, and is never more than    *)
(* one change behind: a formation does not change its services again       *)
(* before the other has seen the last change.                              *)
(***************************************************************************)
CONSTANTS Node1, Node2, Service

VARIABLES
    own,   \* the services each formation lists for its own node
    view   \* the services each formation lists for the other's node

vars == <<own, view>>

Peers == {Node1, Node2}

Peer(r) == IF r = Node1 THEN Node2 ELSE Node1

Init ==
    /\ own \in [Peers -> SUBSET Service]
    /\ view = [r \in Peers |-> own[Peer(r)]]

\* The services of r's node change.
Change(r) ==
    /\ view[Peer(r)] = own[r]
    /\ own' \in [Peers -> SUBSET Service]
    /\ own'[Peer(r)] = own[Peer(r)]
    /\ UNCHANGED view

\* r learns of the services of the other's node.
Deliver(r) ==
    /\ view' = [view EXCEPT ![r] = own[Peer(r)]]
    /\ UNCHANGED own

Next == \E r \in Peers : Change(r) \/ Deliver(r)

Spec == Init /\ [][Next]_vars

\* A view that is behind catches up.
FairSpec == Spec /\ \A r \in Peers : WF_vars(Deliver(r))
=============================================================================
