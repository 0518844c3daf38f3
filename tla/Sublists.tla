------------------------------ MODULE Sublists ------------------------------
(***************************************************************************)
(* What a loop of the communication layer keeps of a list: the comparisons  *)
(* of ring.py (_set_succs, stabilize, _h_set_successor) and broker.py       *)
(* (on_disconnect) are sets of positions here.                              *)
(***************************************************************************)
EXTENDS Naturals, Sequences, FiniteSets

\* The entries of list at the positions in kept, in their order.
Picked(list, kept) ==
  LET nth(k) == CHOOSE i \in kept : Cardinality({j \in kept : j <= i}) = k
  IN  [k \in 1 .. Cardinality(kept) |-> list[nth(k)]]
=============================================================================
