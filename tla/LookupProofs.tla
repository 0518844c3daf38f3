---------------------------- MODULE LookupProofs -----------------------------
(***************************************************************************)
(* The ownership rule of keymap.py for every ring: each key has exactly one *)
(* owner, every peer can tell from its predecessor whether it is the one,   *)
(* and a lookup is only ever answered by it.  And the way there: every hop  *)
(* comes closer to the key or reaches the owner, so that a lookup takes     *)
(* fewer hops than there are peers - unless a peer sits on the position     *)
(* just before the key, where "between" has equal ends.                     *)
(***************************************************************************)
EXTENDS Lookup, OperatorProofs

\* The ring and the key of a lookup are positions; they do not change.
RingInv == peers \in SUBSET Slots /\ peers # {} /\ kid \in Slots

\* Whatever the ring and the key, exactly one peer finds itself responsible,
\* and it is the one the successor rule of responsible_id names.
THEOREM OwnerUnique == Spec => []OneOwner
<1>1. Init => RingInv
  BY DEF Init, RingInv
<1>2. RingInv /\ [Next]_vars => RingInv'
  BY DEF RingInv, Next, Answer, GiveUp, Forward, vars
<1>3. RingInv => OneOwner
  <2> SUFFICES ASSUME RingInv PROVE OneOwner
    OBVIOUS
  <2>1. ResponsibleId(kid, peers) \in peers
    BY ResponsibleIs DEF RingInv
  <2> QED  BY <2>1, ResponsibleIffOwner DEF OneOwner, RingInv
<1> QED  BY <1>1, <1>2, <1>3, PTL DEF Spec

-----------------------------------------------------------------------------
(* One hop                                                                  *)

\* The position just before the key.
KeyLess == (kid + RingSize - 1) % RingSize

LEMMA KeyLessIs ==
  ASSUME kid \in Slots
  PROVE  KeyLess = IF kid = 0 THEN RingSize - 1 ELSE kid - 1
<1>1. kid \in Nat /\ kid < RingSize /\ RingSize \in Nat
  BY KeyRingAssumption DEF Slots
<1>2. CASE kid = 0
  <2>1. (RingSize - 1) % RingSize = RingSize - 1
    BY KeyRingAssumption
  <2> QED  BY <1>1, <1>2, <2>1 DEF KeyLess
<1>3. CASE kid # 0
  <2>1. kid - 1 \in Nat /\ kid - 1 < RingSize /\ kid + RingSize - 1 = (kid - 1) + RingSize
    BY <1>1, <1>3
  <2>2. ((kid - 1) + RingSize) % RingSize = kid - 1
    BY <2>1, KeyRingAssumption
  <2> QED  BY <1>3, <2>1, <2>2 DEF KeyLess
<1> QED  BY <1>2, <1>3

\* next_hop returns the first entry, or one that lies before the key; the first
\* only if it does, or none does.
LEMMA NextHopIs ==
  ASSUME NEW succs, Len(succs) \in Nat \ {0}, NEW me
  PROVE  \/ \E i \in 1 .. Len(succs) : /\ NextHop(kid, me, succs) = succs[i]
                                     /\ BeforeKey(succs[i], me, kid)
         \/ /\ NextHop(kid, me, succs) = succs[1]
            /\ \A i \in 1 .. Len(succs) : ~BeforeKey(succs[i], me, kid)
<1> DEFINE ok == {i \in 1 .. Len(succs) : BeforeKey(succs[i], me, kid)}
<1>1. CASE ok = {}
  BY <1>1 DEF NextHop
<1>2. CASE ok # {}
  <2>1. ok \in SUBSET (0 .. Len(succs))
    OBVIOUS
  <2>2. \E i \in ok : \A j \in ok : j <= i
    BY <1>2, <2>1, GreatestExists
  <2>3. (CHOOSE i \in ok : \A j \in ok : j <= i) \in ok
    BY <2>2
  <2> QED  BY <1>2, <2>3 DEF NextHop
<1> QED  BY <1>1, <1>2

\* An entry before the key is nearer to it, unless this peer is just before it.
LEMMA BeforeKeyNearer ==
  ASSUME kid \in Slots, NEW me \in Slots, NEW s \in Slots, s # me, me # kid, me # KeyLess,
         BeforeKey(s, me, kid)
  PROVE  Distance(s, kid) < Distance(me, kid)
<1>1. /\ kid \in Nat /\ me \in Nat /\ s \in Nat /\ RingSize \in Nat
      /\ kid < RingSize /\ me < RingSize /\ s < RingSize
  BY KeyRingAssumption DEF Slots
<1>2. s # kid /\ Between(s, me, KeyLess)
  BY DEF BeforeKey, KeyLess
<1>3. IF me < KeyLess THEN me < s /\ s <= KeyLess ELSE s > me \/ s <= KeyLess
  BY <1>2 DEF Between
<1>4. KeyLess = IF kid = 0 THEN RingSize - 1 ELSE kid - 1
  BY KeyLessIs
<1>5. /\ Distance(s, kid) = IF kid >= s THEN kid - s ELSE kid + RingSize - s
      /\ Distance(me, kid) = IF kid >= me THEN kid - me ELSE kid + RingSize - me
  BY DistanceIs
<1>6. CASE me < kid
  <2>1. me < s /\ s < kid
    BY <1>1, <1>2, <1>3, <1>4, <1>6
  <2> QED  BY <1>1, <1>5, <1>6, <2>1
<1>7. CASE me > kid
  <2>1. s > me \/ s < kid
    BY <1>1, <1>2, <1>3, <1>4, <1>7
  <2>2. CASE s > me
    BY <1>1, <1>5, <1>7, <2>2
  <2>3. CASE s < kid
    BY <1>1, <1>5, <1>7, <2>3
  <2> QED  BY <2>1, <2>2, <2>3
<1> QED  BY <1>1, <1>6, <1>7

\* If the nearest successor does not lie before the key, it owns it - unless
\* this peer is the owner or just before the key.
LEMMA NearestOwns ==
  ASSUME RingInv, NEW me \in peers, NEW s \in peers, s # me,
         me # ResponsibleId(kid, peers), me # KeyLess,
         \A y \in peers \ {me} : Distance(me, s) <= Distance(me, y),
         ~BeforeKey(s, me, kid)
  PROVE  s = ResponsibleId(kid, peers)
<1> DEFINE o == ResponsibleId(kid, peers)
<1>0. peers \subseteq Slots /\ peers # {} /\ kid \in Slots
  BY DEF RingInv
<1>1. /\ o \in peers
      /\ \/ o >= kid /\ \A y \in peers : y >= kid => o <= y
         \/ (\A y \in peers : y < kid /\ o <= y)
  BY <1>0, ResponsibleIs
<1> HIDE DEF o
<1>2. Distance(me, s) <= Distance(me, o)
  BY <1>1 DEF o
<1>3. /\ kid \in Nat /\ me \in Nat /\ s \in Nat /\ o \in Nat /\ RingSize \in Nat
      /\ kid < RingSize /\ me < RingSize /\ s < RingSize /\ o < RingSize
  BY <1>0, <1>1, KeyRingAssumption DEF Slots
<1>4. s = kid \/ ~Between(s, me, KeyLess)
  BY DEF BeforeKey, KeyLess
<1>5. s = kid \/ ~(IF me < KeyLess THEN me < s /\ s <= KeyLess ELSE s > me \/ s <= KeyLess)
  BY <1>4 DEF Between
<1>6. KeyLess = IF kid = 0 THEN RingSize - 1 ELSE kid - 1
  BY <1>0, KeyLessIs
<1>7. /\ Distance(me, s) = IF s >= me THEN s - me ELSE s + RingSize - me
      /\ Distance(me, o) = IF o >= me THEN o - me ELSE o + RingSize - me
  BY <1>0, <1>1, DistanceIs
<1>8. o # me
  BY DEF o
<1>9. CASE s >= kid
  <2>1. o >= kid /\ o <= s
    BY <1>1, <1>3, <1>9
  <2>2. ASSUME o < s PROVE FALSE
    <3>1. CASE me < o
      BY <1>2, <1>3, <1>7, <2>2, <3>1
    <3>2. CASE me > s
      BY <1>2, <1>3, <1>7, <2>2, <3>2
    <3>3. CASE o < me /\ me < s
      BY <1>3, <1>5, <1>6, <2>1, <2>2, <3>3
    <3> QED  BY <1>3, <1>8, <3>1, <3>2, <3>3
  <2>3. o = s
    BY <1>3, <2>1, <2>2
  <2> QED  BY <2>3 DEF o
<1>10. CASE s < kid
  <2>1. s < me /\ me < kid
    BY <1>3, <1>5, <1>6, <1>10
  <2>2. ~(o >= kid)
    BY <1>2, <1>3, <1>7, <2>1
  <2>3. o <= s
    BY <1>1, <1>3, <2>2
  <2>4. o = s
    BY <1>2, <1>3, <1>7, <2>1, <2>3
  <2> QED  BY <2>4 DEF o
<1> QED  BY <1>3, <1>9, <1>10

-----------------------------------------------------------------------------
(* A lookup                                                                 *)

Owner == ResponsibleId(kid, peers)

\* The peer that holds the request exists; only the owner has answered it.
RouteInv ==
  /\ RingInv /\ at \in peers /\ hops \in 0 .. MaxHops
  /\ status \in {"routing", "answered", "error"}
  /\ status = "answered" => at = Owner

LEMMA OwnerIsPeer == RingInv => Owner \in peers /\ peers \subseteq Slots
BY ResponsibleIs DEF RingInv, Owner

\* A peer answers exactly if it is the owner.
LEMMA AnswersIffOwner == RouteInv => (Answers <=> at = Owner)
<1> SUFFICES ASSUME RouteInv PROVE Answers <=> at = Owner
  OBVIOUS
<1>1. IsResponsible(kid, PredIn(at, peers), at) <=> at = Owner
  BY ResponsibleIffOwner DEF RouteInv, RingInv, Owner
<1>2. peers = {at} => at = Owner
  BY OwnerIsPeer DEF RouteInv
<1> QED  BY <1>1, <1>2 DEF Answers

\* A hop goes to another peer: nearer to the key or the owner, except from the
\* position just before the key.
LEMMA HopGoes ==
  ASSUME RouteInv, at # Owner
  PROVE  LET s == NextHop(kid, at, SuccessorsIn(at, peers, SuccLen)) IN
         /\ s \in peers
         /\ at # KeyLess => s = Owner \/ (s # kid /\ Distance(s, kid) < Distance(at, kid))
<1> DEFINE succs == SuccessorsIn(at, peers, SuccLen)
           s == NextHop(kid, at, succs)
<1>0. /\ RingInv /\ peers \in SUBSET Slots /\ at \in peers /\ kid \in Slots
      /\ Owner \in peers /\ peers # {at}
  BY OwnerIsPeer DEF RouteInv, RingInv
<1>1. /\ Len(succs) \in Nat \ {0} /\ 1 \in 1 .. Len(succs)
      /\ \A i \in 1 .. Len(succs) : succs[i] \in peers /\ succs[i] # at
      /\ \A y \in peers \ {at} : Distance(at, succs[1]) <= Distance(at, y)
  <2>1. /\ Len(succs) \in Nat \ {0}
        /\ \A i \in 1 .. Len(succs) : succs[i] \in peers \ {at}
        /\ \A y \in peers \ {at} : Distance(at, succs[1]) <= Distance(at, y)
    BY <1>0, SuccessorsAre, LookupAssumption
  <2> HIDE DEF succs
  <2> QED  BY <2>1
<1> HIDE DEF succs
<1>2. \/ \E i \in 1 .. Len(succs) : s = succs[i] /\ BeforeKey(succs[i], at, kid)
      \/ s = succs[1] /\ \A i \in 1 .. Len(succs) : ~BeforeKey(succs[i], at, kid)
  BY <1>1, NextHopIs
<1> HIDE DEF s
<1>3. at # kid
  <2>1. kid \in peers => Owner = kid
    <3>1. /\ Owner \in peers
          /\ \/ Owner >= kid /\ \A y \in peers : y >= kid => Owner <= y
             \/ (\A y \in peers : y < kid /\ Owner <= y)
      BY <1>0, ResponsibleIs DEF RingInv, Owner
    <3>2. kid \in Nat /\ Owner \in Nat
      BY <1>0, SlotsAre
    <3> QED  BY <3>1, <3>2
  <2> QED  BY <1>0, <2>1
<1>4. ASSUME at # KeyLess, NEW i \in 1 .. Len(succs), s = succs[i], BeforeKey(succs[i], at, kid)
      PROVE  s # kid /\ Distance(s, kid) < Distance(at, kid)
  <2>1. s \in Slots /\ at \in Slots /\ s # at /\ s # kid
    BY <1>0, <1>1, <1>4 DEF BeforeKey
  <2> QED  BY <1>0, <1>3, <1>4, <2>1, BeforeKeyNearer
<1>5. ASSUME at # KeyLess, s = succs[1], ~BeforeKey(succs[1], at, kid)
      PROVE  s = Owner
  <2>1. s \in peers /\ s # at /\ \A y \in peers \ {at} : Distance(at, s) <= Distance(at, y)
    BY <1>1, <1>5
  <2>2. at # ResponsibleId(kid, peers) /\ ~BeforeKey(s, at, kid)
    BY <1>5 DEF Owner
  <2> QED  BY <1>0, <1>5, <2>1, <2>2, NearestOwns DEF Owner
<1> QED  BY <1>1, <1>2, <1>4, <1>5 DEF s, succs

LEMMA RouteStep == RouteInv /\ [Next]_vars => RouteInv'
<1> SUFFICES ASSUME RouteInv, [Next]_vars PROVE RouteInv'
  OBVIOUS
<1>0. peers' = peers /\ kid' = kid /\ Owner' = Owner /\ (RingInv => RingInv')
  BY DEF Next, Answer, GiveUp, Forward, vars, Owner, RingInv
<1>1. CASE Answer
  BY <1>0, <1>1, AnswersIffOwner DEF Answer, RouteInv
<1>2. CASE GiveUp
  BY <1>0, <1>2 DEF GiveUp, RouteInv
<1>3. CASE Forward
  <2>1. at' \in peers
    BY <1>3, AnswersIffOwner, HopGoes DEF Forward
  <2>2. hops' \in 0 .. MaxHops
    BY <1>3, LookupAssumption DEF Forward, RouteInv, HopLeft
  <2> QED  BY <1>0, <1>3, <2>1, <2>2 DEF Forward, RouteInv
<1>4. CASE UNCHANGED vars
  BY <1>0, <1>4 DEF vars, RouteInv
<1> QED  BY <1>1, <1>2, <1>3, <1>4 DEF Next

LEMMA RouteInvariant == Spec => []RouteInv
<1>1. Init => RouteInv
  BY LookupAssumption DEF Init, RouteInv, RingInv
<1> QED  BY <1>1, RouteStep, PTL DEF Spec

\* The variables hold what the code can put in them.
THEOREM TypeCorrect == Spec => []TypeOK
<1>1. RouteInv => TypeOK
  BY DEF RouteInv, RingInv, TypeOK
<1> QED  BY <1>1, RouteInvariant, PTL

\* The peer that answers is the one responsible_id names.
THEOREM OnlyTheOwnerAnswers == Spec => []AnsweredByOwner
<1>1. RouteInv => AnsweredByOwner
  BY DEF RouteInv, Owner, AnsweredByOwner
<1> QED  BY <1>1, RouteInvariant, PTL

\* The peers that a request at peer x can still visit before the owner.
Ahead(x) == {y \in peers : y # kid /\ Distance(y, kid) < Distance(x, kid)}

\* Hops that were made and hops that may be left are fewer than the peers.
HopsInv ==
  NoPeerBeforeKey /\ Cardinality(peers) <= MaxHops + 1 =>
    /\ hops < Cardinality(peers) /\ status # "error"
    /\ at # Owner => hops + Cardinality(Ahead(at)) + 2 <= Cardinality(peers)

LEMMA AheadFinite ==
  ASSUME RingInv, NEW x
  PROVE  IsFiniteSet(Ahead(x)) /\ Cardinality(Ahead(x)) \in Nat
<1>1. Ahead(x) \in SUBSET Slots
  BY DEF Ahead, RingInv
<1> QED  BY <1>1, PeersFinite

\* Every other peer is nearer to the key than its owner, unless it owns its own position.
LEMMA OwnerNotAhead ==
  ASSUME RingInv, NEW x \in peers
  PROVE  Owner \notin Ahead(x)
<1>0. /\ peers \subseteq Slots /\ kid \in Slots /\ Owner \in peers
      /\ \/ Owner >= kid /\ \A y \in peers : y >= kid => Owner <= y
         \/ (\A y \in peers : y < kid /\ Owner <= y)
  BY ResponsibleIs DEF RingInv, Owner
<1>1. /\ kid \in Nat /\ x \in Nat /\ Owner \in Nat /\ RingSize \in Nat
      /\ kid < RingSize /\ x < RingSize /\ Owner < RingSize
  BY <1>0, KeyRingAssumption DEF Slots
<1>2. /\ Distance(x, kid) = IF kid >= x THEN kid - x ELSE kid + RingSize - x
      /\ Distance(Owner, kid) = IF kid >= Owner THEN kid - Owner ELSE kid + RingSize - Owner
  BY <1>0, DistanceIs
<1>3. ASSUME Owner # kid PROVE ~(Distance(Owner, kid) < Distance(x, kid))
  <2>1. CASE Owner > kid
    <3>1. CASE x >= kid
      <4>1. x >= Owner
        BY <1>0, <1>1, <2>1, <3>1
      <4> QED  BY <1>1, <1>2, <2>1, <4>1
    <3>2. CASE x < kid
      BY <1>1, <1>2, <2>1, <3>2
    <3> QED  BY <1>1, <3>1, <3>2
  <2>2. CASE Owner < kid
    <3>1. x < kid /\ Owner <= x
      BY <1>0, <1>1, <2>2
    <3> QED  BY <1>1, <1>2, <2>2, <3>1
  <2> QED  BY <1>1, <1>3, <2>1, <2>2
<1> QED  BY <1>3 DEF Ahead

LEMMA HopsInit == Init => HopsInv
<1> SUFFICES ASSUME Init PROVE /\ hops < Cardinality(peers) /\ status # "error"
                               /\ at # Owner => hops + Cardinality(Ahead(at)) + 2 <= Cardinality(peers)
  BY DEF HopsInv
<1>0. RingInv /\ at \in peers /\ hops = 0 /\ status = "routing"
  BY DEF Init, RingInv
<1>1. IsFiniteSet(peers) /\ Cardinality(peers) \in Nat \ {0}
  BY <1>0, PeersFinite, FS_EmptySet DEF RingInv
<1>2. ASSUME at # Owner PROVE Cardinality(Ahead(at)) + 2 <= Cardinality(peers)
  <2>1. Owner \in peers /\ Owner \notin Ahead(at) /\ at \notin Ahead(at)
    BY <1>0, OwnerIsPeer, OwnerNotAhead, DistanceIs DEF Ahead, RingInv
  <2>2. /\ IsFiniteSet(peers \ {at}) /\ Cardinality(peers \ {at}) = Cardinality(peers) - 1
    BY <1>0, <1>1, FS_RemoveElement
  <2>3. /\ IsFiniteSet((peers \ {at}) \ {Owner})
        /\ Cardinality((peers \ {at}) \ {Owner}) = Cardinality(peers \ {at}) - 1
    BY <1>2, <2>1, <2>2, FS_RemoveElement
  <2>4. Ahead(at) \in SUBSET ((peers \ {at}) \ {Owner})
    BY <2>1 DEF Ahead
  <2>5. Cardinality(Ahead(at)) <= Cardinality((peers \ {at}) \ {Owner})
    BY <2>3, <2>4, FS_Subset
  <2>6. Cardinality(Ahead(at)) \in Nat
    BY <1>0, AheadFinite
  <2> QED  BY <1>1, <2>2, <2>3, <2>5, <2>6
<1> QED  BY <1>0, <1>1, <1>2, AheadFinite

LEMMA RingStays == [Next]_vars => peers' = peers /\ kid' = kid
BY DEF Next, Answer, GiveUp, Forward, vars

LEMMA HopsStep == RouteInv /\ HopsInv /\ [Next]_vars => HopsInv'
<1> SUFFICES ASSUME RouteInv, HopsInv, [Next]_vars,
                    NoPeerBeforeKey, Cardinality(peers) <= MaxHops + 1
             PROVE  /\ hops' < Cardinality(peers) /\ status' # "error"
                    /\ at' # Owner => hops' + Cardinality(Ahead(at')) + 2 <= Cardinality(peers)
  <2>1. [Next]_vars => peers' = peers /\ kid' = kid
    BY RingStays
  <2>2. [Next]_vars => Owner' = Owner /\ Ahead(at)' = Ahead(at') /\ NoPeerBeforeKey' = NoPeerBeforeKey
    BY <2>1 DEF Owner, Ahead, NoPeerBeforeKey
  <2> QED  BY <2>1, <2>2 DEF HopsInv
<1>0. /\ hops < Cardinality(peers) /\ status # "error"
      /\ at # Owner => hops + Cardinality(Ahead(at)) + 2 <= Cardinality(peers)
      /\ RingInv /\ hops \in Nat /\ MaxHops \in Nat /\ Cardinality(peers) \in Nat
      /\ Cardinality(Ahead(at)) \in Nat /\ Cardinality(Ahead(at')) \in Nat
  BY LookupAssumption, PeersFinite, AheadFinite DEF HopsInv, RouteInv, RingInv
<1>1. CASE Answer \/ UNCHANGED vars
  BY <1>0, <1>1 DEF Answer, vars
<1>2. ~GiveUp
  BY <1>0, AnswersIffOwner DEF GiveUp, HopLeft
<1>3. CASE Forward
  <2>1. at # Owner /\ hops' = hops + 1 /\ status' = status
    BY <1>3, AnswersIffOwner DEF Forward
  <2>2. at # KeyLess
    BY DEF NoPeerBeforeKey, KeyLess, RouteInv
  <2>3. at' \in peers /\ (at' = Owner \/ (at' # kid /\ Distance(at', kid) < Distance(at, kid)))
    BY <1>3, <2>1, <2>2, HopGoes DEF Forward
  <2>4. hops' < Cardinality(peers)
    BY <1>0, <2>1
  <2>5. ASSUME at' # Owner PROVE Cardinality(Ahead(at')) + 1 <= Cardinality(Ahead(at))
    <3>1. at' \in Ahead(at) /\ at' \notin Ahead(at')
      BY <1>0, <2>3, <2>5, DistanceIs DEF Ahead, RingInv
    <3>2. Ahead(at') \in SUBSET Ahead(at)
      <4>1. \A y \in peers : Distance(y, kid) \in Nat
        BY <1>0, DistanceIs DEF RingInv
      <4> QED  BY <1>0, <2>3, <2>5, <4>1 DEF Ahead, RouteInv
    <3>3. /\ Cardinality(Ahead(at')) <= Cardinality(Ahead(at))
          /\ Cardinality(Ahead(at')) # Cardinality(Ahead(at))
      BY <1>0, <3>1, <3>2, AheadFinite, FS_Subset
    <3> QED  BY <1>0, <3>3
  <2> QED  BY <1>0, <2>1, <2>4, <2>5
<1> QED  BY <1>1, <1>2, <1>3 DEF Next

\* On a ring of at most MAX_HOPS + 1 peers a lookup takes at most one hop per
\* other peer and never runs into the limit, unless a peer sits just before the key.
THEOREM FewHops == Spec => [](Cardinality(peers) <= MaxHops + 1 => HopsBounded)
<1>1. HopsInv => (Cardinality(peers) <= MaxHops + 1 => HopsBounded)
  BY DEF HopsInv, HopsBounded
<1> QED  BY <1>1, HopsInit, HopsStep, RouteInvariant, PTL DEF Spec

\* Every hop from a peer that is not just before the key goes to the owner or
\* comes closer to the key.
THEOREM HopsComeCloser == Spec => ComesCloser
<1>1. RouteInv /\ [Next]_vars =>
        [at # KeyLess /\ at' # at /\ at' # Owner => Distance(at', kid) < Distance(at, kid)]_vars
  <2> SUFFICES ASSUME RouteInv, Next, at # KeyLess, at' # at, at' # Owner
               PROVE  Distance(at', kid) < Distance(at, kid)
    OBVIOUS
  <2>1. Forward
    BY DEF Next, Answer, GiveUp
  <2> QED  BY <2>1, AnswersIffOwner, HopGoes DEF Forward
<1>2. RouteInv /\ [Next]_vars =>
        [/\ at # (kid + RingSize - 1) % RingSize
         /\ at' # at /\ at' # ResponsibleId(kid, peers)
         => Distance(at', kid) < Distance(at, kid)]_vars
  BY <1>1 DEF KeyLess, Owner
<1> QED  BY <1>2, RouteInvariant, PTL DEF Spec, ComesCloser
=============================================================================
