------------------------------ MODULE Admission ------------------------------
(***************************************************************************)
(* What max_connections promises: never more than Capacity guests inside,  *)
(* a guest who has left is not let out a second time, and nobody is turned *)
(* away while there is room.                                               *)
(***************************************************************************)
EXTENDS Naturals, FiniteSets

CONSTANTS Guests, Capacity

VARIABLES inside, gone

Init ==
  /\ inside = {}
  /\ gone = {}

Enter(g) ==
  /\ g \notin inside \union gone
  /\ Cardinality(inside) < Capacity
  /\ inside' = inside \union {g}
  /\ UNCHANGED gone

Leave(g) ==
  /\ g \in inside
  /\ inside' = inside \ {g}
  /\ gone' = gone \union {g}

TurnAway(g) ==
  /\ g \notin inside \union gone
  /\ Cardinality(inside) >= Capacity
  /\ gone' = gone \union {g}
  /\ UNCHANGED inside

Next == \E g \in Guests : Enter(g) \/ Leave(g) \/ TurnAway(g)

Spec == Init /\ [][Next]_<<inside, gone>>
=============================================================================
