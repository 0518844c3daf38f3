------------------------------- MODULE KeyRing -------------------------------
(***************************************************************************)
(* The arithmetic of the ring: src/communication/ring.py (between),         *)
(* keymap.py (who owns a key) and lookup.py (where a LOOKUP goes next).     *)
(* Peers and keys are positions 0 .. RingSize-1; a set of positions stands  *)
(* for the peers of a ring.                                                 *)
(***************************************************************************)
EXTENDS Naturals, Sequences, FiniteSets

CONSTANT RingSize   \* 2^16 in the code

ASSUME KeyRingAssumption == RingSize \in Nat \ {0}

Slots == 0 .. RingSize - 1

\* Seeded fault: an interval that goes past the last position is empty.
Between_NoWrap(x, a, b) == a < x /\ x <= b

\* x lies in the ring interval (a, b]; a = b means the whole ring.
Between(x, a, b) == IF a < b THEN a < x /\ x <= b ELSE x > a \/ x <= b

Least(S) == CHOOSE x \in S : \A y \in S : x <= y

\* The first peer at or after kid, or the first of all past the last one.
ResponsibleId(kid, ids) ==
  LET after == {id \in ids : id >= kid}
  IN  Least(IF after # {} THEN after ELSE ids)

\* Seeded fault: the predecessor's own position is counted in.
IsResponsible_Closed(kid, pred, me) == pred = me \/ kid = pred \/ Between(kid, pred, me)

\* What a peer can decide alone, from its predecessor.
IsResponsible(kid, pred, me) == pred = me \/ Between(kid, pred, me)

\* p is the predecessor of me on the ring of the peers ids: nobody in between.
IsPredIn(p, me, ids) ==
  /\ p \in ids
  /\ IF \E id \in ids : id < me
     THEN p < me /\ \A id \in ids : id < me => id <= p
     ELSE \A id \in ids : id <= p

PredIn(me, ids) == CHOOSE p \in ids : IsPredIn(p, me, ids)

\* How far y lies after x, going round.
Distance(x, y) == (y + RingSize - x) % RingSize

\* The n peers that follow me on a settled ring, nearest first.
SuccessorsIn(me, ids, n) ==
  LET others == ids \ {me}
      count  == IF Cardinality(others) < n THEN Cardinality(others) ELSE n
  IN  IF others = {} THEN <<me>>
      ELSE [i \in 1 .. count |->
              CHOOSE x \in others :
                Cardinality({y \in others : Distance(me, y) < Distance(me, x)}) = i - 1]

\* s lies after me and strictly before the key, as next_hop tests it.
BeforeKey(s, me, kid) == s # kid /\ Between(s, me, (kid + RingSize - 1) % RingSize)

\* Seeded fault: the farthest entry, whether it passes the key or not.
NextHop_Farthest(kid, me, succs) == succs[Len(succs)]

\* The last entry of the successor list that does not pass the key.
NextHop(kid, me, succs) ==
  LET ok == {i \in 1 .. Len(succs) : BeforeKey(succs[i], me, kid)}
  IN  IF ok = {} THEN succs[1] ELSE succs[CHOOSE i \in ok : \A j \in ok : j <= i]
=============================================================================
