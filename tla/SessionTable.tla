--------------------------- MODULE SessionTable ---------------------------
(***************************************************************************)
(* What the routing table promises: each client has at most one home, a    *)
(* home takes a client only while it has room, and a client changes homes  *)
(* only by leaving first.                                                  *)
(***************************************************************************)
EXTENDS Naturals, FiniteSets

CONSTANTS Clients, Homes, None, Room

VARIABLE home

At(h) == {c \in Clients : home[c] = h}

Init == home = [c \in Clients |-> None]

Join(c, h) ==
    /\ home[c] = None
    /\ Cardinality(At(h)) < Room
    /\ home' = [home EXCEPT ![c] = h]

Leave(c) ==
    /\ home[c] # None
    /\ home' = [home EXCEPT ![c] = None]

Next == \E c \in Clients : Leave(c) \/ \E h \in Homes : Join(c, h)

Spec == Init /\ [][Next]_home
=============================================================================
