--------------------------- MODULE OperatorProofs ----------------------------
(***************************************************************************)
(* Facts about the operators the components are built from: what a loop     *)
(* keeps of a list (Sublists), and who precedes, follows and owns what on a *)
(* ring of positions (KeyRing), for rings of any size.                      *)
(***************************************************************************)
EXTENDS KeyRing, Sublists, TLAPS, FiniteSetTheorems


\* A finite set of numbers can be counted through in order.
LEMMA Counted ==
  ASSUME NEW S \in SUBSET Nat, IsFiniteSet(S)
  PROVE  /\ \A i, j \in S : Cardinality({k \in S : k <= i}) = Cardinality({k \in S : k <= j})
                            => i = j
         /\ \A n \in 1 .. Cardinality(S) : \E i \in S : Cardinality({k \in S : k <= i}) = n
<1> DEFINE upto(i) == {k \in S : k <= i}
           n == Cardinality(S)
           r == [i \in S |-> Cardinality(upto(i))]
<1>1. n \in Nat
  BY FS_CardinalityType
<1>2. ASSUME NEW i \in S
      PROVE  IsFiniteSet(upto(i)) /\ Cardinality(upto(i)) \in 1 .. n
  <2>1. upto(i) \in SUBSET S /\ i \in upto(i)
    OBVIOUS
  <2>2. IsFiniteSet(upto(i)) /\ Cardinality(upto(i)) <= n
    BY <2>1, FS_Subset
  <2>3. Cardinality(upto(i)) \in Nat /\ Cardinality(upto(i)) # 0
    BY <2>1, <2>2, FS_CardinalityType, FS_EmptySet
  <2> QED
    BY <1>1, <2>2, <2>3
<1>3. ASSUME NEW i \in S, NEW j \in S, i < j
      PROVE  Cardinality(upto(i)) # Cardinality(upto(j))
  <2>1. upto(i) \in SUBSET upto(j) /\ j \in upto(j) /\ j \notin upto(i)
    <3>1. \A x \in S : x \in Int
      OBVIOUS
    <3>2. \A x \in S : x <= i => x <= j
      BY <1>3, <3>1
    <3>3. ~(j <= i) /\ j <= j
      BY <1>3, <3>1
    <3> QED
      BY <3>2, <3>3
  <2> QED
    BY <1>2, <2>1, FS_Subset
<1>4. ASSUME NEW i \in S, NEW j \in S, Cardinality(upto(i)) = Cardinality(upto(j))
      PROVE  i = j
  <2>1. ~(i < j) /\ ~(j < i)
    BY <1>3, <1>4
  <2> QED
    BY <2>1
<1>5. r \in Injection(S, 1 .. n)
  <2>1. r \in [S -> 1 .. n]
    BY <1>2
  <2>2. ASSUME NEW i \in S, NEW j \in S, r[i] = r[j] PROVE i = j
    BY <1>4, <2>2
  <2> QED
    BY <2>1, <2>2 DEF Injection, IsInjective
<1>6. IsFiniteSet(1 .. n) /\ Cardinality(1 .. n) = n
  BY <1>1, FS_Interval
<1>7. r \in Surjection(S, 1 .. n)
  <2> HIDE DEF r, n
  <2> QED
    BY <1>5, <1>6, FS_Injection DEF n
<1>8. ASSUME NEW m \in 1 .. n PROVE \E i \in S : Cardinality(upto(i)) = m
  <2>1. PICK i \in S : r[i] = m
    BY <1>7 DEF Surjection
  <2> QED
    BY <2>1
<1> QED
  BY <1>4, <1>8
\* A nonempty set of numbers up to n has a greatest element.
LEMMA GreatestExists ==
  ASSUME NEW n \in Nat, NEW S \in SUBSET (0 .. n), S # {}
  PROVE  \E x \in S : \A y \in S : y <= x
<1>1. S \in SUBSET Nat /\ IsFiniteSet(S)
  <2>1. IsFiniteSet(0 .. n) /\ 0 .. n \in SUBSET Nat
    BY FS_Interval
  <2> QED
    BY <2>1, FS_Subset
<1>2. Cardinality(S) \in 1 .. Cardinality(S)
  BY <1>1, FS_CardinalityType, FS_EmptySet
<1>3. PICK x \in S : Cardinality({y \in S : y <= x}) = Cardinality(S)
  BY <1>1, <1>2, Counted
<1>4. {y \in S : y <= x} = S
  BY <1>1, <1>3, FS_Subset
<1> QED
  BY <1>4

\* Picked has an entry for each position kept and no other, as often and in
\* no other list than that: it is as long as there are positions, and two of its
\* entries come from two positions.
LEMMA PickedIs ==
  ASSUME NEW S, NEW list \in Seq(S), NEW kept \in SUBSET DOMAIN list
  PROVE  LET w == Picked(list, kept) IN
         /\ w \in Seq(S) /\ Len(w) = Cardinality(kept) /\ Len(w) \in Nat
         /\ Len(w) <= Len(list)
         /\ \A k \in 1 .. Len(w) : \E i \in kept : w[k] = list[i]
         /\ \A i \in kept : \E k \in 1 .. Len(w) : w[k] = list[i]
         /\ (\A i, j \in kept : list[i] = list[j] => i = j) =>
              \A k, l \in 1 .. Len(w) : w[k] = w[l] => k = l
<1> DEFINE rank(i) == Cardinality({j \in kept : j <= i})
           nth(k) == CHOOSE i \in kept : rank(i) = k
           n == Cardinality(kept)
           w == [k \in 1 .. n |-> list[nth(k)]]
<1>1. Len(list) \in Nat /\ DOMAIN list = 1 .. Len(list) /\ \A i \in DOMAIN list : list[i] \in S
  OBVIOUS
<1>2. kept \in SUBSET Nat /\ IsFiniteSet(kept) /\ n \in Nat /\ n <= Len(list)
  <2>1. IsFiniteSet(1 .. Len(list)) /\ Cardinality(1 .. Len(list)) = Len(list)
    <3> DEFINE len == Len(list)
    <3>1. len \in Nat
      BY <1>1
    <3> HIDE DEF len
    <3>2. IsFiniteSet(1 .. len) /\ Cardinality(1 .. len) = len
      BY <3>1, FS_Interval
    <3> QED
      BY <3>2 DEF len
  <2>2. kept \in SUBSET (1 .. Len(list))
    BY <1>1
  <2>3. IsFiniteSet(kept) /\ n <= Len(list)
    BY <2>1, <2>2, FS_Subset
  <2>4. 1 .. Len(list) \in SUBSET Nat
    BY <1>1
  <2> QED
    BY <2>2, <2>3, <2>4, FS_CardinalityType
<1>3. Picked(list, kept) = w
  BY DEF Picked
<1>4. \A i \in kept : list[i] \in S
  BY <1>1
<1>5. \A k \in 1 .. n : nth(k) \in kept /\ rank(nth(k)) = k
  <2>1. \A k \in 1 .. n : \E i \in kept : rank(i) = k
    BY <1>2, Counted
  <2> HIDE DEF rank
  <2> QED
    BY <2>1
<1>6. \A i \in kept : rank(i) \in 1 .. n /\ nth(rank(i)) = i
  <2> SUFFICES ASSUME NEW i \in kept
               PROVE  rank(i) \in 1 .. n /\ nth(rank(i)) = i
    OBVIOUS
  <2>1. {j \in kept : j <= i} \in SUBSET kept /\ i \in {j \in kept : j <= i}
    BY <1>2
  <2>2. IsFiniteSet({j \in kept : j <= i}) /\ rank(i) <= n /\ rank(i) \in Nat /\ rank(i) # 0
    BY <1>2, <2>1, FS_Subset, FS_CardinalityType, FS_EmptySet
  <2>3. rank(i) \in 1 .. n
    BY <1>2, <2>2
  <2>4. nth(rank(i)) \in kept /\ rank(nth(rank(i))) = rank(i)
    <3> HIDE DEF rank
    <3> QED
      BY <1>5, <2>3
  <2> QED
    BY <1>2, <2>3, <2>4, Counted
<1> HIDE DEF nth, rank
<1>7. DOMAIN w = 1 .. n /\ Len(w) = n /\ \A k \in 1 .. n : w[k] = list[nth(k)] /\ w[k] \in S
  <2>1. DOMAIN w = 1 .. n /\ \A k \in 1 .. n : w[k] = list[nth(k)]
    OBVIOUS
  <2>2. Len(w) = n
    BY <1>2
  <2> HIDE DEF w
  <2> QED
    BY <1>4, <1>5, <2>1, <2>2
<1>8. w \in Seq(S)
  <2> HIDE DEF w
  <2>1. w = [k \in 1 .. n |-> w[k]]
    BY <1>7 DEF w
  <2> QED
    BY <1>2, <1>7, <2>1
<1> HIDE DEF w
<1>9. \A k \in 1 .. n : \E i \in kept : w[k] = list[i]
  BY <1>5, <1>7
<1>10. \A i \in kept : \E k \in 1 .. n : w[k] = list[i]
  BY <1>6, <1>7
<1>11. ASSUME \A i, j \in kept : list[i] = list[j] => i = j,
              NEW k \in 1 .. n, NEW l \in 1 .. n, w[k] = w[l]
       PROVE  k = l
  <2>1. nth(k) = nth(l)
    BY <1>5, <1>7, <1>11
  <2> QED
    BY <1>5, <2>1
<1> QED
  BY <1>2, <1>3, <1>7, <1>8, <1>9, <1>10, <1>11

-----------------------------------------------------------------------------
(* Least positions                                                          *)

\* Least picks the least element of a nonempty set of numbers.
LEMMA LeastIsLeast ==
  ASSUME NEW S \in SUBSET Nat, S # {}
  PROVE  Least(S) \in S /\ \A y \in S : Least(S) <= y
<1>1. PICK x \in S : \A y \in S : <<y, x>> \notin OpToRel(<, Nat)
  BY WFMin, NatLessThanWellFounded, Zenon
<1>2. \A y \in S : ~(y < x)
  BY <1>1, Zenon DEF OpToRel
<1>3. \A y \in S : x <= y
  BY <1>2
<1> QED  BY <1>3 DEF Least

\* The positions are the numbers up to the last one.
LEMMA SlotsAre == RingSize - 1 \in Nat /\ Slots = 0 .. (RingSize - 1) /\ Slots \subseteq Nat
BY KeyRingAssumption DEF Slots

\* Every peer has a predecessor on its ring.
LEMMA PredExists ==
  ASSUME NEW ids \in SUBSET Slots, NEW me \in ids
  PROVE  IsPredIn(PredIn(me, ids), me, ids)
<1> DEFINE below == {id \in ids : id < me}
<1>1. CASE below # {}
  <2>1. below \in SUBSET (0 .. (RingSize - 1))
    BY SlotsAre
  <2>2. PICK p \in below : \A y \in below : y <= p
    BY <1>1, <2>1, SlotsAre, GreatestExists
  <2>3. IsPredIn(p, me, ids)
    BY <2>2 DEF IsPredIn
  <2> QED  BY <2>3 DEF PredIn, IsPredIn
<1>2. CASE below = {}
  <2>1. PICK p \in ids : \A y \in ids : y <= p
    BY SlotsAre, GreatestExists
  <2>2. IsPredIn(p, me, ids)
    BY <1>2, <2>1 DEF IsPredIn
  <2> QED  BY <2>2 DEF PredIn, IsPredIn
<1> QED  BY <1>1, <1>2

\* responsible_id returns a peer: the least at or after the key, or the least.
LEMMA ResponsibleIs ==
  ASSUME NEW ids \in SUBSET Slots, ids # {}, NEW k \in Slots
  PROVE  LET o == ResponsibleId(k, ids) IN
         /\ o \in ids
         /\ \/ o >= k /\ \A y \in ids : y >= k => o <= y
            \/ (\A y \in ids : y < k /\ o <= y)
<1> DEFINE after == {id \in ids : id >= k}
           o == Least(IF after # {} THEN after ELSE ids)
<1>0. Slots \subseteq Nat
  BY KeyRingAssumption DEF Slots
<1>1. ids \in SUBSET Nat /\ after \in SUBSET Nat
  BY <1>0
<1>2. CASE after # {}
  <2>1. o \in after /\ \A y \in after : o <= y
    BY <1>1, <1>2, LeastIsLeast
  <2> QED  BY <2>1, <1>2 DEF ResponsibleId
<1>3. CASE after = {}
  <2>1. o \in ids /\ \A y \in ids : o <= y
    BY <1>1, <1>3, LeastIsLeast
  <2>2. \A y \in ids : y < k
    BY <1>3, <1>1 DEF Slots
  <2> QED  BY <2>1, <2>2, <1>3 DEF ResponsibleId
<1> QED  BY <1>2, <1>3

-----------------------------------------------------------------------------
(* The ownership rule                                                       *)

\* A peer's own test, is_responsible, agrees with the rule over all the peers.
THEOREM ResponsibleIffOwner ==
  ASSUME NEW ids \in SUBSET Slots, NEW k \in Slots, NEW p \in ids
  PROVE  IsResponsible(k, PredIn(p, ids), p) <=> p = ResponsibleId(k, ids)
<1> DEFINE q == PredIn(p, ids)
           o == ResponsibleId(k, ids)
<1>1. IsPredIn(q, p, ids)
  BY PredExists
<1>2. /\ o \in ids
      /\ \/ o >= k /\ \A y \in ids : y >= k => o <= y
         \/ (\A y \in ids : y < k /\ o <= y)
  BY ResponsibleIs
<1>3. k \in Nat /\ \A y \in ids : y \in Nat
  BY KeyRingAssumption DEF Slots
<1> HIDE DEF q, o
<1>4. CASE \E id \in ids : id < p
  <2>1. q \in ids /\ q < p /\ \A id \in ids : id < p => id <= q
    BY <1>1, <1>4 DEF IsPredIn
  <2>2. IsResponsible(k, q, p) <=> q < k /\ k <= p
    BY <1>3, <2>1 DEF IsResponsible, Between
  <2>3. ASSUME q < k, k <= p PROVE p = o
    BY <1>2, <1>3, <2>1, <2>3
  <2>4. ASSUME p = o PROVE q < k /\ k <= p
    BY <1>2, <1>3, <1>4, <2>1, <2>4
  <2> QED  BY <2>2, <2>3, <2>4 DEF q, o
<1>5. CASE ~ \E id \in ids : id < p
  <2>1. q \in ids /\ (\A id \in ids : id <= q) /\ \A id \in ids : p <= id
    BY <1>1, <1>3, <1>5 DEF IsPredIn
  <2>2. IsResponsible(k, q, p) <=> (q = p \/ k > q \/ k <= p)
    BY <1>3, <2>1 DEF IsResponsible, Between
  <2>3. ASSUME q = p \/ k > q \/ k <= p PROVE p = o
    BY <1>2, <1>3, <2>1, <2>3
  <2>4. ASSUME p = o PROVE q = p \/ k > q \/ k <= p
    BY <1>2, <1>3, <2>1, <2>4
  <2> QED  BY <2>2, <2>3, <2>4 DEF q, o
<1> QED  BY <1>4, <1>5

-----------------------------------------------------------------------------
(* Distances and successors                                                 *)

LEMMA PeersFinite ==
  ASSUME NEW ids \in SUBSET Slots
  PROVE  IsFiniteSet(ids) /\ Cardinality(ids) \in Nat
<1>1. IsFiniteSet(Slots)
  BY SlotsAre, FS_Interval
<1>2. IsFiniteSet(ids)
  BY <1>1, FS_Subset
<1> QED  BY <1>2, FS_CardinalityType

LEMMA DistanceIs ==
  ASSUME NEW x \in Slots, NEW y \in Slots
  PROVE  /\ Distance(x, y) = IF y >= x THEN y - x ELSE y + RingSize - x
         /\ Distance(x, y) \in Nat /\ Distance(x, y) < RingSize
<1>1. CASE y >= x
  <2>1. y - x \in Nat /\ y - x < RingSize /\ y + RingSize - x = (y - x) + RingSize
    BY <1>1, KeyRingAssumption DEF Slots
  <2>2. ((y - x) + RingSize) % RingSize = y - x
    BY <2>1, KeyRingAssumption
  <2> QED  BY <1>1, <2>1, <2>2 DEF Distance
<1>2. CASE ~(y >= x)
  <2>1. y + RingSize - x \in Nat /\ y + RingSize - x < RingSize
    BY <1>2, KeyRingAssumption DEF Slots
  <2>2. (y + RingSize - x) % RingSize = y + RingSize - x
    BY <2>1, KeyRingAssumption
  <2> QED  BY <1>2, <2>1, <2>2 DEF Distance
<1> QED  BY <1>1, <1>2

\* No two positions are equally far.
LEMMA DistanceApart ==
  ASSUME NEW x \in Slots, NEW y \in Slots, NEW z \in Slots, Distance(x, y) = Distance(x, z)
  PROVE  y = z
<1>1. RingSize \in Nat /\ x \in Nat /\ y \in Nat /\ z \in Nat
  BY KeyRingAssumption DEF Slots
<1>2. x < RingSize /\ y < RingSize /\ z < RingSize
  BY KeyRingAssumption DEF Slots
<1>3. /\ Distance(x, y) = IF y >= x THEN y - x ELSE y + RingSize - x
      /\ Distance(x, z) = IF z >= x THEN z - x ELSE z + RingSize - x
  BY DistanceIs
<1>4. CASE y >= x /\ z >= x
  <2>1. y - x = z - x
    BY <1>3, <1>4
  <2> QED  BY <1>1, <2>1
<1>5. CASE ~(y >= x) /\ ~(z >= x)
  <2>1. y + RingSize - x = z + RingSize - x
    BY <1>3, <1>5
  <2> QED  BY <1>1, <2>1
<1>6. CASE y >= x /\ ~(z >= x)
  <2>1. y - x = z + RingSize - x
    BY <1>3, <1>6
  <2> QED  BY <1>1, <1>2, <2>1
<1>7. CASE ~(y >= x) /\ z >= x
  <2>1. y + RingSize - x = z - x
    BY <1>3, <1>7
  <2> QED  BY <1>1, <1>2, <2>1
<1> QED  BY <1>4, <1>5, <1>6, <1>7

\* How many of S are nearer to me than x.
Rank(me, S, x) == Cardinality({y \in S : Distance(me, y) < Distance(me, x)})

\* The peers of a ring can be numbered by their distance.
LEMMA RankExists ==
  ASSUME NEW S \in SUBSET Slots, NEW me \in Slots, NEW k \in 0 .. (Cardinality(S) - 1)
  PROVE  \E x \in S : Rank(me, S, x) = k
<1> DEFINE nearer(x) == {y \in S : Distance(me, y) < Distance(me, x)}
           n == Cardinality(S)
           r == [x \in S |-> Rank(me, S, x)]
<1>0. IsFiniteSet(S) /\ n \in Nat
  BY PeersFinite
<1>1. ASSUME NEW x \in S
      PROVE  /\ IsFiniteSet(nearer(x)) /\ Cardinality(nearer(x)) \in Nat
             /\ Cardinality(nearer(x)) < n
  <2>1. nearer(x) \in SUBSET S /\ x \notin nearer(x)
    BY DistanceIs
  <2>2. IsFiniteSet(nearer(x)) /\ Cardinality(nearer(x)) <= n /\ Cardinality(nearer(x)) # n
    BY <1>0, <2>1, FS_Subset
  <2> QED  BY <1>0, <2>2, FS_CardinalityType
<1>2. ASSUME NEW x \in S, NEW y \in S, Distance(me, x) < Distance(me, y)
      PROVE  Cardinality(nearer(x)) # Cardinality(nearer(y))
  <2>1. nearer(x) \in SUBSET nearer(y) /\ x \in nearer(y) /\ x \notin nearer(x)
    <3>1. \A z \in S : Distance(me, z) \in Nat
      BY DistanceIs
    <3> QED  BY <1>2, <3>1
  <2> QED  BY <1>1, <2>1, FS_Subset
<1>3. r \in Injection(S, 0 .. (n - 1))
  <2>1. r \in [S -> 0 .. (n - 1)]
    BY <1>0, <1>1 DEF Rank
  <2>2. ASSUME NEW x \in S, NEW y \in S, r[x] = r[y] PROVE x = y
    <3>1. Cardinality(nearer(x)) = Cardinality(nearer(y))
      BY <2>2 DEF Rank
    <3>2. ~(Distance(me, x) < Distance(me, y)) /\ ~(Distance(me, y) < Distance(me, x))
      BY <1>2, <3>1
    <3>3. Distance(me, x) = Distance(me, y)
      BY <3>2, DistanceIs
    <3> QED  BY <3>3, DistanceApart
  <2> QED  BY <2>1, <2>2 DEF Injection, IsInjective
<1>4. IsFiniteSet(0 .. (n - 1)) /\ Cardinality(0 .. (n - 1)) = n
  BY <1>0, FS_Interval
<1> HIDE DEF r, n
<1>5. r \in Surjection(S, 0 .. (n - 1))
  BY <1>3, <1>4, FS_Injection DEF n
<1>6. PICK x \in S : r[x] = k
  BY <1>5 DEF Surjection, n
<1> QED  BY <1>6 DEF r

\* The successor list of a peer that is not alone: other peers, the nearest first.
LEMMA SuccessorsAre ==
  ASSUME NEW ids \in SUBSET Slots, NEW me \in ids, ids # {me}, NEW n \in Nat \ {0}
  PROVE  LET s == SuccessorsIn(me, ids, n) IN
         /\ Len(s) \in Nat \ {0}
         /\ \A i \in 1 .. Len(s) : s[i] \in ids \ {me}
         /\ \A y \in ids \ {me} : Distance(me, s[1]) <= Distance(me, y)
<1> DEFINE others == ids \ {me}
           count == IF Cardinality(others) < n THEN Cardinality(others) ELSE n
           entry(i) == CHOOSE x \in others :
                         Cardinality({y \in others : Distance(me, y) < Distance(me, x)}) = i - 1
           s == SuccessorsIn(me, ids, n)
<1>1. others \in SUBSET Slots /\ others # {} /\ me \in Slots
  OBVIOUS
<1>2. IsFiniteSet(others) /\ Cardinality(others) \in Nat \ {0}
  BY <1>1, PeersFinite, FS_EmptySet
<1>3. count \in Nat \ {0} /\ count <= Cardinality(others)
  BY <1>2
<1>4. s = [i \in 1 .. count |-> entry(i)]
  BY <1>1 DEF SuccessorsIn
<1>5. ASSUME NEW i \in 1 .. count
      PROVE  entry(i) \in others /\ Rank(me, others, entry(i)) = i - 1
  <2>1. i - 1 \in 0 .. (Cardinality(others) - 1)
    BY <1>2, <1>3
  <2>2. \E x \in others : Rank(me, others, x) = i - 1
    BY <1>1, <2>1, RankExists
  <2> QED  BY <2>2 DEF Rank
<1> HIDE DEF others, count, entry, s
<1>6. s \in [1 .. count -> others] /\ Len(s) = count
  BY <1>3, <1>4, <1>5
<1>7. ASSUME NEW y \in others PROVE Distance(me, s[1]) <= Distance(me, y)
  <2>1. s[1] = entry(1) /\ s[1] \in others /\ Rank(me, others, s[1]) = 0
    BY <1>3, <1>4, <1>5, <1>6
  <2>2. IsFiniteSet({z \in others : Distance(me, z) < Distance(me, s[1])})
    BY <1>1, PeersFinite
  <2>3. {z \in others : Distance(me, z) < Distance(me, s[1])} = {}
    BY <2>1, <2>2, FS_EmptySet DEF Rank
  <2>4. ~(Distance(me, y) < Distance(me, s[1]))
    BY <2>3
  <2> QED  BY <1>1, <2>1, <2>4, DistanceIs
<1> QED  BY <1>3, <1>6, <1>7 DEF others, s


-----------------------------------------------------------------------------
(* A ring with one peer more or less                                        *)

\* A peer has one predecessor only.
LEMMA PredUnique ==
  ASSUME NEW ids \in SUBSET Slots, NEW me \in ids, NEW p, IsPredIn(p, me, ids)
  PROVE  PredIn(me, ids) = p
<1> DEFINE q == PredIn(me, ids)
<1>1. IsPredIn(q, me, ids)
  BY PredExists
<1>2. q \in ids /\ p \in ids /\ \A id \in ids : id \in Nat
  BY <1>1, SlotsAre DEF IsPredIn
<1> HIDE DEF q
<1>3. q <= p /\ p <= q
  BY <1>1, <1>2 DEF IsPredIn
<1>4. q = p
  BY <1>2, <1>3
<1> QED  BY <1>4 DEF q

\* No two peers have the same predecessor.
LEMMA PredInjective ==
  ASSUME NEW ids \in SUBSET Slots, NEW a \in ids, NEW b \in ids, PredIn(a, ids) = PredIn(b, ids)
  PROVE  a = b
<1> DEFINE p == PredIn(a, ids)
<1>1. IsPredIn(p, a, ids) /\ IsPredIn(p, b, ids)
  BY PredExists
<1>2. p \in ids /\ \A id \in ids : id \in Nat
  BY <1>1, SlotsAre DEF IsPredIn
<1> HIDE DEF p
<1>3. ~(a < b)
  BY <1>1, <1>2 DEF IsPredIn
<1>4. ~(b < a)
  BY <1>1, <1>2 DEF IsPredIn
<1> QED  BY <1>2, <1>3, <1>4

\* Nobody else is its own predecessor, only a peer that is alone.
LEMMA PredSelf ==
  ASSUME NEW ids \in SUBSET Slots, NEW me \in ids
  PROVE  PredIn(me, ids) \in ids /\ (PredIn(me, ids) = me <=> ids = {me})
<1> DEFINE p == PredIn(me, ids)
<1>1. IsPredIn(p, me, ids)
  BY PredExists
<1>2. p \in ids /\ \A id \in ids : id \in Nat
  BY <1>1, SlotsAre DEF IsPredIn
<1> HIDE DEF p
<1>3. ASSUME p = me PROVE \A id \in ids : id = me
  BY <1>1, <1>2, <1>3 DEF IsPredIn
<1> QED  BY <1>2, <1>3 DEF p

\* Without x, the one after x follows the one before x; nothing else changes.
LEMMA PredWithout ==
  ASSUME NEW ids \in SUBSET Slots, NEW x \in ids, NEW q \in ids \ {x}
  PROVE  PredIn(q, ids \ {x}) = IF PredIn(q, ids) = x THEN PredIn(x, ids) ELSE PredIn(q, ids)
<1> DEFINE pq == PredIn(q, ids)
           px == PredIn(x, ids)
           rest == ids \ {x}
<1>1. IsPredIn(pq, q, ids) /\ IsPredIn(px, x, ids)
  BY PredExists
<1>2. px \in ids /\ pq \in ids /\ \A id \in ids : id \in Nat
  BY <1>1, SlotsAre DEF IsPredIn
<1> HIDE DEF pq, px
<1>3. CASE pq # x
  <2>1. IsPredIn(pq, q, rest)
    BY <1>1, <1>2, <1>3 DEF IsPredIn
  <2> QED  BY <1>3, <2>1, PredUnique DEF pq, px
<1>4. CASE pq = x
  <2>1. px # x
    BY <1>1, <1>2 DEF IsPredIn
  <2>2. CASE x < q
    <3>1. \A id \in ids : id < q => id <= x
      BY <1>1, <1>2, <1>4, <2>2 DEF IsPredIn
    <3>2. ASSUME \E id \in ids : id < x PROVE IsPredIn(px, q, rest)
      <4>1. px < x /\ \A id \in ids : id < x => id <= px
        BY <1>1, <3>2 DEF IsPredIn
      <4>2. \A id \in rest : id < q => id <= px
        BY <1>2, <3>1, <4>1
      <4>3. px \in rest /\ px < q
        BY <1>2, <2>1, <2>2, <4>1
      <4> QED  BY <4>2, <4>3 DEF IsPredIn
    <3>3. ASSUME ~ \E id \in ids : id < x PROVE IsPredIn(px, q, rest)
      <4>1. \A id \in ids : id <= px
        BY <1>1, <3>3 DEF IsPredIn
      <4>2. ~ \E id \in rest : id < q
        BY <1>2, <3>1, <3>3
      <4> QED  BY <1>2, <2>1, <4>1, <4>2 DEF IsPredIn
    <3>4. IsPredIn(px, q, rest)
      BY <3>2, <3>3
    <3> QED  BY <1>4, <3>4, PredUnique DEF pq, px
  <2>3. CASE q < x
    <3>1. (\A id \in ids : id <= x) /\ ~ \E id \in ids : id < q
      BY <1>1, <1>2, <1>4, <2>3 DEF IsPredIn
    <3>2. px < x /\ \A id \in ids : id < x => id <= px
      BY <1>1, <2>3 DEF IsPredIn
    <3>3. \A id \in rest : id <= px
      BY <1>2, <3>1, <3>2
    <3>4. IsPredIn(px, q, rest)
      BY <1>2, <2>1, <3>1, <3>3 DEF IsPredIn
    <3> QED  BY <1>4, <3>4, PredUnique DEF pq, px
  <2> QED  BY <1>2, <2>2, <2>3
<1> QED  BY <1>3, <1>4

\* The owner of a key in a ring with one peer more is the new peer, if the key
\* lies between it and its predecessor, and is the owner it had otherwise.
LEMMA OwnerWithout ==
  ASSUME NEW ids \in SUBSET Slots, NEW x \in ids, ids # {x}, NEW k \in Slots
  PROVE  LET o == ResponsibleId(k, ids)
             r == ResponsibleId(k, ids \ {x}) IN
         /\ o \in ids /\ r \in ids \ {x}
         /\ o # x => r = o
         /\ o = x => PredIn(r, ids) = x
<1> DEFINE o == ResponsibleId(k, ids)
           rest == ids \ {x}
           r == ResponsibleId(k, rest)
<1>0. \A id \in ids : id \in Nat
  BY SlotsAre
<1>1. k \in Nat
  BY SlotsAre
<1>2. /\ o \in ids
      /\ \/ o >= k /\ \A y \in ids : y >= k => o <= y
         \/ (\A y \in ids : y < k /\ o <= y)
  BY ResponsibleIs
<1>3. /\ r \in rest
      /\ \/ r >= k /\ \A y \in rest : y >= k => r <= y
         \/ (\A y \in rest : y < k /\ r <= y)
  <2>1. rest \in SUBSET Slots /\ rest # {}
    OBVIOUS
  <2> HIDE DEF rest
  <2> QED  BY <2>1, ResponsibleIs
<1> HIDE DEF o, r
<1>4. ASSUME o # x PROVE r = o
  <2>1. o \in rest
    BY <1>2, <1>4
  <2> QED  BY <1>0, <1>1, <1>2, <1>3, <2>1
<1>5. ASSUME o = x PROVE IsPredIn(x, r, ids)
  <2>1. CASE \E id \in ids : id < r
    <3>1. CASE o >= k
      <4>1. r >= k
        BY <1>0, <1>1, <1>2, <1>3, <1>5, <2>1, <3>1
      <4>2. x < r /\ \A id \in ids : id < r => id <= x
        BY <1>0, <1>1, <1>2, <1>3, <1>5, <3>1, <4>1
      <4> QED  BY <1>2, <1>5, <2>1, <4>2 DEF IsPredIn
    <3>2. CASE ~(o >= k)
      <4>1. \A y \in ids : y < k /\ x <= y
        BY <1>2, <1>5, <3>2
      <4>2. \A y \in rest : r <= y
        BY <1>0, <1>1, <1>3, <4>1
      <4>3. x < r /\ \A id \in ids : id < r => id <= x
        BY <1>0, <1>3, <4>1, <4>2
      <4> QED  BY <1>2, <1>5, <2>1, <4>3 DEF IsPredIn
    <3> QED  BY <3>1, <3>2
  <2>2. CASE ~ \E id \in ids : id < r
    <3>1. x > r
      BY <1>0, <1>2, <1>3, <1>5, <2>2
    <3>2. x >= k /\ \A y \in ids : y >= k => x <= y
      BY <1>0, <1>1, <1>2, <1>3, <1>5, <3>1
    <3>3. \A id \in ids : id <= x
      BY <1>0, <1>1, <1>3, <3>1, <3>2
    <3> QED  BY <1>2, <1>5, <2>2, <3>3 DEF IsPredIn
  <2> QED  BY <2>1, <2>2
<1>6. ASSUME o = x PROVE PredIn(r, ids) = x
  BY <1>3, <1>5, <1>6, PredUnique
<1> QED  BY <1>2, <1>3, <1>4, <1>6 DEF o, r

\* A peer that joins at the owner of its own position goes in between that
\* owner and the peer before it, and takes over the keys in between.
LEMMA JoinedBetween ==
  ASSUME NEW ids \in SUBSET Slots, ids # {}, NEW p \in Slots \ ids
  PROVE  LET s == ResponsibleId(p, ids)
             all == ids \cup {p} IN
         /\ s \in ids
         /\ PredIn(s, all) = p /\ PredIn(p, all) = PredIn(s, ids)
         /\ \A q \in ids \ {s} : PredIn(q, all) = PredIn(q, ids)
         /\ \A k \in Slots : Between(k, PredIn(s, ids), p) <=> ResponsibleId(k, all) = p
         /\ \A k \in Slots : ResponsibleId(k, all) # p => ResponsibleId(k, all) = ResponsibleId(k, ids)
<1> DEFINE s == ResponsibleId(p, ids)
           all == ids \cup {p}
<1>1. all \in SUBSET Slots /\ p \in all /\ all # {p} /\ all \ {p} = ids
  OBVIOUS
<1>2. ResponsibleId(p, all) = p
  <2>1. p \in Nat /\ \A id \in all : id \in Nat
    BY SlotsAre
  <2>2. all # {} /\ p \in Slots
    OBVIOUS
  <2> DEFINE o == ResponsibleId(p, all)
  <2>3. /\ o \in all
        /\ \/ o >= p /\ \A y \in all : y >= p => o <= y
           \/ (\A y \in all : y < p /\ o <= y)
    BY <1>1, <2>2, ResponsibleIs
  <2> HIDE DEF o
  <2>4. o = p
    BY <1>1, <2>1, <2>3
  <2> QED  BY <2>4 DEF o
<1> HIDE DEF all
<1>3. s \in ids /\ PredIn(s, all) = p
  BY <1>1, <1>2, OwnerWithout
<1>4. \A q \in ids : PredIn(q, ids) = IF PredIn(q, all) = p THEN PredIn(p, all) ELSE PredIn(q, all)
  BY <1>1, PredWithout
<1>5. \A q \in ids \ {s} : PredIn(q, all) # p
  BY <1>1, <1>3, PredInjective
<1>6. PredIn(p, all) # p
  BY <1>1, PredSelf
<1>7. \A k \in Slots : Between(k, PredIn(p, all), p) <=> ResponsibleId(k, all) = p
  BY <1>1, <1>6, ResponsibleIffOwner DEF IsResponsible
<1>8. \A k \in Slots : ResponsibleId(k, all) # p => ResponsibleId(k, all) = ResponsibleId(k, ids)
  BY <1>1, OwnerWithout
<1> QED  BY <1>3, <1>4, <1>5, <1>7, <1>8 DEF all

-----------------------------------------------------------------------------
(* The first two successors                                                 *)

\* The nearest other peer is the one whose predecessor this peer is.
LEMMA NearestFollows ==
  ASSUME NEW ids \in SUBSET Slots, NEW me \in ids, NEW s \in ids \ {me},
         \A y \in ids \ {me} : Distance(me, s) <= Distance(me, y)
  PROVE  PredIn(s, ids) = me
<1>1. /\ me \in Slots /\ \A y \in ids : y \in Slots /\ y \in Nat
      /\ RingSize \in Nat /\ \A y \in ids : y < RingSize
  BY KeyRingAssumption, SlotsAre DEF Slots
<1>2. \A y \in ids : Distance(me, y) = IF y >= me THEN y - me ELSE y + RingSize - me
  BY <1>1, DistanceIs
<1>3. ASSUME NEW y \in ids \ {me}
      PROVE  (IF s >= me THEN s - me ELSE s + RingSize - me)
               <= (IF y >= me THEN y - me ELSE y + RingSize - me)
  <2>1. Distance(me, s) <= Distance(me, y)
    OBVIOUS
  <2> QED  BY <1>2, <2>1
<1>4. CASE me < s
  <2>1. ASSUME NEW id \in ids, id < s PROVE id <= me
    BY <1>1, <1>3, <1>4, <2>1
  <2>2. IsPredIn(me, s, ids)
    BY <1>4, <2>1 DEF IsPredIn
  <2> QED  BY <2>2, PredUnique
<1>5. CASE s < me
  <2>1. ASSUME NEW id \in ids PROVE id <= me /\ ~(id < s)
    <3>1. CASE id = me
      BY <1>1, <1>5, <3>1
    <3>2. CASE id # me
      BY <1>1, <1>3, <1>5, <3>2
    <3> QED  BY <3>1, <3>2
  <2>2. IsPredIn(me, s, ids)
    BY <2>1 DEF IsPredIn
  <2> QED  BY <2>2, PredUnique
<1> QED  BY <1>1, <1>4, <1>5

\* A successor list: it names peers of the ring, and the first follows this
\* peer; the second, of three peers or more, follows it once the first is gone.
LEMMA SuccessorListIs ==
  ASSUME NEW ids \in SUBSET Slots, NEW me \in ids, NEW n \in Nat \ {0}
  PROVE  LET s == SuccessorsIn(me, ids, n) IN
         /\ Len(s) \in Nat \ {0} /\ DOMAIN s = 1 .. Len(s)
         /\ \A i \in 1 .. Len(s) : s[i] \in ids
         /\ PredIn(s[1], ids) = me
         /\ ids = {me} => s = <<me>>
         /\ \A x : n >= 2 /\ x = s[1] /\ ids = {me, x} => s = <<x>>
         /\ \A x : n >= 2 /\ x = s[1] /\ ids \ {me, x} # {} =>
              Len(s) >= 2 /\ s[2] \in ids \ {me, x} /\ PredIn(s[2], ids \ {x}) = me
<1> DEFINE others == ids \ {me}
           count == IF Cardinality(others) < n THEN Cardinality(others) ELSE n
           entry(i) == CHOOSE x \in others :
                         Cardinality({y \in others : Distance(me, y) < Distance(me, x)}) = i - 1
           s == SuccessorsIn(me, ids, n)
<1>0. CASE ids = {me}
  <2>1. s = <<me>>
    BY <1>0 DEF SuccessorsIn
  <2>2. PredIn(me, ids) = me
    BY <1>0, PredSelf
  <2>3. /\ Len(s) = 1 /\ DOMAIN s = 1 .. 1 /\ s[1] = me
        /\ \A x : x = s[1] => ids \ {me, x} = {} /\ ids = {me, x} /\ s = <<x>>
    BY <1>0, <2>1
  <2> HIDE DEF s
  <2>4. /\ Len(s) \in Nat \ {0} /\ DOMAIN s = 1 .. Len(s) /\ PredIn(s[1], ids) = me
        /\ \A i \in 1 .. Len(s) : s[i] \in ids
    BY <1>0, <2>2, <2>3
  <2>5. \A x : x = s[1] => ids \ {me, x} = {} /\ s = <<x>>
    BY <2>3
  <2>6. s = <<me>>
    BY <2>1 DEF s
  <2> QED  BY <2>4, <2>5, <2>6, Zenon DEF s
<1>a. CASE ids # {me}
  <2>0. others \in SUBSET Slots /\ others # {} /\ me \in Slots
    BY <1>a
  <2>1. IsFiniteSet(others) /\ Cardinality(others) \in Nat \ {0}
    BY <2>0, PeersFinite, FS_EmptySet
  <2>2. count \in Nat \ {0} /\ count <= Cardinality(others)
    BY <2>1
  <2>3. s = [i \in 1 .. count |-> entry(i)]
    BY <2>0 DEF SuccessorsIn
  <2>4. ASSUME NEW i \in 1 .. count
        PROVE  entry(i) \in others /\ Rank(me, others, entry(i)) = i - 1
    <3>1. i - 1 \in 0 .. (Cardinality(others) - 1)
      BY <2>1, <2>2
    <3>2. \E x \in others : Rank(me, others, x) = i - 1
      BY <2>0, <3>1, RankExists
    <3> QED  BY <3>2 DEF Rank
  <2>5. s \in [1 .. count -> others] /\ Len(s) = count /\ DOMAIN s = 1 .. count
        /\ \A i \in 1 .. count : s[i] = entry(i)
    <3> HIDE DEF others, count, entry, s
    <3> QED  BY <2>2, <2>3, <2>4
  <2>6. (\A y \in others : Distance(me, s[1]) <= Distance(me, y)) /\ s[1] \in others
    <3>1. s[1] \in others
      <4> HIDE DEF others, count, s
      <4> QED  BY <2>2, <2>5
    <3> QED  BY <1>a, <3>1, SuccessorsAre
  <2>7. PredIn(s[1], ids) = me
    BY <2>6, NearestFollows
  <2>8. ASSUME n >= 2, NEW x, x = s[1], ids = {me, x} PROVE s = <<x>>
    <3>1. others = {x} /\ Cardinality(others) = 1
      <4>1. x \in others
        BY <2>6, <2>8
      <4>2. others = {x}
        BY <2>8, <4>1
      <4> QED  BY <4>2, FS_Singleton
    <3>2. count = 1
      BY <2>8, <3>1
    <3> HIDE DEF count, s
    <3> QED  BY <2>5, <2>8, <3>2
  <2>9. ASSUME n >= 2, NEW x, x = s[1], ids \ {me, x} # {}
        PROVE  Len(s) >= 2 /\ s[2] \in ids \ {me, x} /\ PredIn(s[2], ids \ {x}) = me
    <3> DEFINE rest == ids \ {x}
    <3>1. Cardinality(others) >= 2
      <4>1. PICK y \in ids : y # me /\ y # x
        BY <2>9
      <4>2. Cardinality({x, y}) = 2 /\ {x, y} \in SUBSET others
        <5>1. {x, y} \in SUBSET others
          BY <2>6, <2>9, <4>1
        <5>2. IsFiniteSet({x}) /\ Cardinality({x}) = 1 /\ y \notin {x}
          BY <4>1, FS_Singleton
        <5>3. Cardinality({x} \cup {y}) = 2
          BY <5>2, FS_AddElement
        <5>4. {x, y} = {x} \cup {y}
          OBVIOUS
        <5> QED  BY <5>1, <5>3, <5>4
      <4> QED  BY <2>1, <4>2, FS_Subset
    <3>2. count >= 2 /\ 2 \in 1 .. count /\ 1 \in 1 .. count
      BY <2>1, <2>9, <3>1
    <3>3. /\ s[2] \in others /\ Rank(me, others, s[2]) = 2 - 1
          /\ Rank(me, others, s[1]) = 1 - 1
      BY <2>4, <2>5, <3>2
    <3>4. s[2] # x
      BY <2>9, <3>3
    <3>5. ASSUME NEW y \in rest \ {me} PROVE Distance(me, s[2]) <= Distance(me, y)
      <4> DEFINE nearer == {z \in others : Distance(me, z) < Distance(me, s[2])}
      <4>1. IsFiniteSet(nearer) /\ Cardinality(nearer) = 1
        <5>1. nearer \in SUBSET Slots
          BY <2>0
        <5> QED  BY <3>3, <5>1, PeersFinite DEF Rank
      <4>2. x \in nearer
        <5>1. Distance(me, x) <= Distance(me, s[2])
          BY <2>6, <2>9, <3>3
        <5>2. Distance(me, x) # Distance(me, s[2])
          BY <2>0, <2>6, <2>9, <3>3, <3>4, DistanceApart
        <5> QED  BY <2>0, <2>6, <2>9, <3>3, <5>1, <5>2, DistanceIs
      <4>3. PICK w : nearer = {w}
        BY <4>1, FS_Singleton
      <4>4. y \notin nearer /\ y \in others
        BY <4>2, <4>3
      <4>5. ~(Distance(me, y) < Distance(me, s[2]))
        BY <4>4
      <4> QED  BY <2>0, <3>3, <4>4, <4>5, DistanceIs
    <3>6. rest \in SUBSET Slots /\ me \in rest /\ s[2] \in rest \ {me}
      BY <2>6, <2>9, <3>3, <3>4
    <3>7. PredIn(s[2], rest) = me
      <4> HIDE DEF rest, s
      <4> QED  BY <3>5, <3>6, NearestFollows
    <3> QED  BY <2>5, <3>2, <3>3, <3>4, <3>7
  <2>10. \A i \in 1 .. Len(s) : s[i] \in ids
    BY <2>5
  <2> HIDE DEF s, others, count
  <2> QED  BY <1>a, <2>2, <2>5, <2>7, <2>8, <2>9, <2>10 DEF s
<1> QED  BY <1>0, <1>a

\* The first of a successor list follows this peer.
LEMMA FirstSuccessor ==
  ASSUME NEW ids \in SUBSET Slots, NEW me \in ids
  PROVE  \A n \in Nat \ {0} : LET q == SuccessorsIn(me, ids, n)[1] IN
                            q \in ids /\ PredIn(q, ids) = me
<1> SUFFICES ASSUME NEW n \in Nat \ {0}
             PROVE  LET q == SuccessorsIn(me, ids, n)[1] IN q \in ids /\ PredIn(q, ids) = me
  OBVIOUS
<1> DEFINE s == SuccessorsIn(me, ids, n)
<1>1. Len(s) \in Nat \ {0} /\ (\A i \in 1 .. Len(s) : s[i] \in ids) /\ PredIn(s[1], ids) = me
  BY SuccessorListIs
<1> HIDE DEF s
<1>2. 1 \in 1 .. Len(s)
  BY <1>1
<1> QED  BY <1>1, <1>2 DEF s

\* Every peer is the predecessor of one.
LEMMA NextExists ==
  ASSUME NEW ids \in SUBSET Slots, NEW me \in ids
  PROVE  \E q \in ids : PredIn(q, ids) = me
<1>1. SuccessorsIn(me, ids, 1)[1] \in ids /\ PredIn(SuccessorsIn(me, ids, 1)[1], ids) = me
  BY FirstSuccessor
<1> QED  BY <1>1

-----------------------------------------------------------------------------
(* The first of a list                                                      *)

\* Picked keeps the first entry first.
LEMMA PickedFirst ==
  ASSUME NEW S, NEW list \in Seq(S), NEW kept \in SUBSET DOMAIN list, 1 \in kept
  PROVE  Picked(list, kept) # <<>> /\ Picked(list, kept)[1] = list[1]
<1> DEFINE upto(i) == {j \in kept : j <= i}
           nth(k) == CHOOSE i \in kept : Cardinality(upto(i)) = k
<1>1. kept \in SUBSET Nat /\ IsFiniteSet(kept) /\ \A i \in kept : i >= 1
  <2> DEFINE m == Len(list)
  <2>1. m \in Nat /\ kept \in SUBSET (1 .. m)
    OBVIOUS
  <2> HIDE DEF m
  <2>2. IsFiniteSet(1 .. m)
    BY <2>1, FS_Interval
  <2> QED  BY <2>1, <2>2, FS_Subset
<1>2. Cardinality(upto(1)) = 1
  <2>1. upto(1) = {1}
    BY <1>1
  <2> QED  BY <2>1, FS_Singleton
<1>3. nth(1) \in kept /\ Cardinality(upto(nth(1))) = 1
  BY <1>2
<1>4. nth(1) = 1
  BY <1>1, <1>2, <1>3, Counted
<1>5. Cardinality(kept) \in Nat \ {0}
  BY <1>1, FS_CardinalityType, FS_EmptySet
<1>6. Picked(list, kept) = [k \in 1 .. Cardinality(kept) |-> list[nth(k)]]
  BY DEF Picked
<1> HIDE DEF nth, upto
<1>7. 1 \in 1 .. Cardinality(kept)
  BY <1>5
<1>8. Picked(list, kept)[1] = list[1] /\ 1 \in DOMAIN Picked(list, kept)
  BY <1>4, <1>6, <1>7
<1> QED  BY <1>8
=============================================================================
