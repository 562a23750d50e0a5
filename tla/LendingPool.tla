----------------------------- MODULE LendingPool -----------------------------
(***************************************************************************)
(* What a pool of connections promises, whatever keeps the connections: a  *)
(* connection is free, or lent to one client, or gone.  Only a free        *)
(* connection is lent, only its client gives it back or writes it off, and *)
(* a client may recover one that was written off.                          *)
(***************************************************************************)
EXTENDS FiniteSets

CONSTANTS Clients, Items

VARIABLES free, lent

lvars == <<free, lent>>

Init ==
  /\ free = Items
  /\ lent = [p \in Clients |-> {}]

(* Items that are neither free nor lent. *)
Gone == (Items \ free) \ UNION {lent[p] : p \in Clients}

Lend(p, c) ==
  /\ c \in free
  /\ lent[p] = {}
  /\ free' = free \ {c}
  /\ lent' = [lent EXCEPT ![p] = {c}]

GiveBack(p, c) ==
  /\ c \in lent[p]
  /\ free' = free \union {c}
  /\ lent' = [lent EXCEPT ![p] = {}]

WriteOff(p, c) ==
  /\ c \in lent[p]
  /\ lent' = [lent EXCEPT ![p] = {}]
  /\ UNCHANGED free

Recover(p, c) ==
  /\ c \in Gone
  /\ lent[p] = {}
  /\ lent' = [lent EXCEPT ![p] = {c}]
  /\ UNCHANGED free

Dispose(c) ==
  /\ c \in free
  /\ free' = free \ {c}
  /\ UNCHANGED lent

Next ==
  \E c \in Items :
    \/ Dispose(c)
    \/ \E p \in Clients :
         Lend(p, c) \/ GiveBack(p, c) \/ WriteOff(p, c) \/ Recover(p, c)

Spec == Init /\ [][Next]_lvars
=============================================================================
