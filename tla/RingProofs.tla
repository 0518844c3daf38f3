----------------------------- MODULE RingProofs ------------------------------
(***************************************************************************)
(* Ring keeps its types, for any positions, peers, keys, tasks, faults and  *)
(* interleavings: a successor list never names its peer beside others, nor  *)
(* anybody twice, and is never longer than SUCC_LIST; no peer, message or   *)
(* acknowledgement has a version of a value that was not stored.            *)
(*                                                                          *)
(* One operation at a time, with a crash and its restart whenever the ring  *)
(* has settled, the way the demos and tests run it (Serial): every peer has *)
(* a live next hop, for any number of crashes (Geometry is inductive); one  *)
(* crash loses no acknowledged value (so is Geometry with DataInv).         *)
(***************************************************************************)
EXTENDS Ring, OperatorProofs
LOCAL INSTANCE SequencesExt

-----------------------------------------------------------------------------
(* Successor lists                                                          *)

LEMMA SuccListIs ==
  ASSUME NEW p \in Peers, NEW list \in SuccLists(p)
  PROVE  list \in Seq(Peers) /\ Len(list) \in Nat \ {0} /\ list # <<>> /\ list[1] \in Peers
<1>1. CASE list = <<p>>
  BY <1>1
<1>2. CASE list # <<p>>
  <2>1. list \in Seq(Peers \ {p}) /\ Len(list) \in 1 .. SuccLen
    BY <1>2 DEF SuccLists
  <2>2. /\ Len(list) \in Nat \ {0} /\ list = [k \in 1 .. Len(list) |-> list[k]]
        /\ \A k \in 1 .. Len(list) : list[k] \in Peers
    BY <2>1, RingAssumption
  <2> QED
    BY <2>2
<1> QED
  BY <1>1, <1>2

\* _set_succs leaves no duplicates, nor the peer itself beside others.
LEMMA SetSuccsIs ==
  ASSUME NEW p \in Peers, NEW list \in Seq(Peers)
  PROVE  SetSuccs(p, list) \in SuccLists(p)
<1> DEFINE first == {i \in DOMAIN list : list[i] # p /\ \A j \in 1 .. i - 1 : list[j] # list[i]}
           out == Picked(list, first)
           n == IF Len(out) < SuccLen THEN Len(out) ELSE SuccLen
<1>1. SetSuccs(p, list) = IF out = <<>> THEN <<p>> ELSE SubSeq(out, 1, n)
  BY DEF SetSuccs
<1>2. \A i, j \in first : list[i] = list[j] => i = j
  <2> SUFFICES ASSUME NEW i \in first, NEW j \in first, list[i] = list[j], i # j PROVE FALSE
    OBVIOUS
  <2>1. i \in Nat /\ j \in Nat /\ i >= 1 /\ j >= 1
    BY DEF first
  <2>2. i \in 1 .. j - 1 \/ j \in 1 .. i - 1
    BY <2>1
  <2> QED
    BY <2>2
<1>3. first \in SUBSET DOMAIN list /\ \A i \in first : list[i] \in Peers \ {p}
  OBVIOUS
<1> HIDE DEF first
<1>4. /\ out \in Seq(Peers) /\ Len(out) \in Nat
      /\ \A k \in 1 .. Len(out) : \E i \in first : out[k] = list[i]
      /\ \A k, l \in 1 .. Len(out) : out[k] = out[l] => k = l
  BY <1>2, <1>3, PickedIs
<1> HIDE DEF out
<1>5. CASE out # <<>>
  <2>1. n \in 1 .. SuccLen /\ n <= Len(out) /\ n \in Nat
    <3>1. Len(out) # 0
      BY <1>4, <1>5
    <3> QED
      BY <1>4, <3>1, RingAssumption
  <2> HIDE DEF n
  <2> DEFINE s == SubSeq(out, 1, n)
  <2>2. s = [k \in 1 .. n |-> out[k]]
    BY <1>4, <2>1
  <2>3. \A k \in 1 .. n : k \in 1 .. Len(out) /\ out[k] \in Peers \ {p}
    BY <1>3, <1>4, <2>1
  <2> HIDE DEF s
  <2>4. s \in Seq(Peers \ {p}) /\ Len(s) = n /\ DOMAIN s = 1 .. n
    BY <2>1, <2>2, <2>3
  <2>5. \A i, j \in DOMAIN s : s[i] = s[j] => i = j
    BY <1>4, <2>2, <2>3, <2>4
  <2> QED
    BY <1>1, <1>5, <2>1, <2>4, <2>5 DEF SuccLists, s
<1> QED
  BY <1>1, <1>5 DEF SuccLists

LEMMA OthersTyped ==
  ASSUME TypeOK, NEW p \in Peers, NEW drop
  PROVE  Others(p, drop) \in Seq(Peers)
<1> DEFINE kept == {j \in DOMAIN succs[p] : succs[p][j] \notin drop}
<1>1. succs[p] \in Seq(Peers) /\ kept \in SUBSET DOMAIN succs[p]
  BY DEF TypeOK
<1> HIDE DEF kept
<1>2. Picked(succs[p], kept) \in Seq(Peers)
  BY <1>1, PickedIs
<1> QED
  BY <1>2 DEF Others, kept

LEMMA AnsweringTyped ==
  ASSUME NEW list \in Seq(Peers)
  PROVE  Answering(list) \in Seq(Peers)
<1> DEFINE kept == {j \in DOMAIN list : up[list[j]]}
<1>1. kept \in SUBSET DOMAIN list
  OBVIOUS
<1> HIDE DEF kept
<1>2. Picked(list, kept) \in Seq(Peers)
  BY <1>1, PickedIs
<1> QED
  BY <1>2 DEF Answering, kept

\* A peer in front of a list, or without the first.
LEMMA ListsTyped ==
  ASSUME NEW p \in Peers, NEW list \in Seq(Peers)
  PROVE  <<p>> \o list \in Seq(Peers) /\ <<p>> \o list # <<>> /\ (list # <<>> => Tail(list) \in Seq(Peers))
<1>1. <<p>> \in Seq(Peers) /\ Len(<<p>>) = 1 /\ Len(list) \in Nat
  OBVIOUS
<1>2. <<p>> \o list \in Seq(Peers) /\ Len(<<p>> \o list) = 1 + Len(list)
  BY <1>1
<1> QED
  BY <1>1, <1>2

\* The next hop is one of the successors.
LEMMA NextHopTyped ==
  ASSUME NEW list \in Seq(Peers), Len(list) \in Nat \ {0}, NEW kid, NEW me
  PROVE  NextHop(kid, me, list) \in Peers
<1> DEFINE ok == {i \in 1 .. Len(list) : BeforeKey(list[i], me, kid)}
<1>1. CASE ok = {}
  BY <1>1 DEF NextHop
<1>2. CASE ok # {}
  <2>1. ok \in SUBSET (0 .. Len(list)) /\ \A i \in ok : i \in 1 .. Len(list)
    OBVIOUS
  <2> HIDE DEF ok
  <2>2. \E i \in ok : \A j \in ok : j <= i
    <3> DEFINE n == Len(list)
    <3>1. n \in Nat /\ ok \in SUBSET (0 .. n)
      BY <2>1
    <3> HIDE DEF n
    <3> QED
      BY <1>2, <3>1, GreatestExists
  <2> DEFINE last == CHOOSE i \in ok : \A j \in ok : j <= i
  <2>3. last \in ok
    BY <2>2
  <2>4. NextHop(kid, me, list) = list[last]
    BY <1>2 DEF NextHop, ok
  <2> HIDE DEF last
  <2>5. last \in 1 .. Len(list)
    BY <2>1, <2>3
  <2> QED
    BY <2>4, <2>5
<1> QED
  BY <1>1, <1>2

-----------------------------------------------------------------------------
(* Instructions                                                             *)

\* What an instruction carries.
LEMMA Carried ==
  ASSUME NEW i \in Instructions
  PROVE  /\ i.at \in Peers /\ i.by \in Peers
         /\ i.do \in {"find", "lookup", "joinAt", "store", "fetch"} => i \in Searches
         /\ i.do = "settle" => i.old \in Peers /\ i.moved \in Values
         /\ i.do \in {"takeData", "replicate"} => i.given \in Values
         /\ i.do = "setPred" => i.peer \in Peers /\ i.promote \in BOOLEAN
         /\ i.do = "setSucc" => i.peer \in Peers
         /\ i.do = "snap" => i.to \in Peers
         /\ i.do = "refresh" => i.list \in Seq(Peers) /\ i.list # <<>>
         /\ i.do = "trim" => i.succ \in Peers /\ i.rest \in Seq(Peers)
         /\ i.do = "ack" => i.kid \in Keys /\ i.version \in 0 .. stores
BY DEF Instructions, Searches

\* What an operation may do next.
LEMMA Callable ==
  ASSUME NEW p \in Peers, NEW q \in Peers
  PROVE  /\ \A w \in {"leave", "reset", "stop", "push", "beat", "repair"} :
              Call(w, p, q) \in Instructions
         /\ Push(p) \in Instructions
         /\ \A r \in Peers, m \in Values :
              [do |-> "settle", at |-> p, by |-> q, old |-> r, moved |-> m] \in Instructions
         /\ \A w \in {"takeData", "replicate"}, m \in Values :
              [do |-> w, at |-> p, by |-> q, given |-> m] \in Instructions
         /\ \A r \in Peers, b \in BOOLEAN :
              [do |-> "setPred", at |-> p, by |-> q, peer |-> r, promote |-> b] \in Instructions
         /\ \A r \in Peers, d \in SUBSET Peers :
              [do |-> "setSucc", at |-> p, by |-> q, peer |-> r, drop |-> d] \in Instructions
         /\ \A r \in Peers :
              [do |-> "snap", at |-> p, by |-> q, to |-> r] \in Instructions
         /\ \A l \in Seq(Peers) : l # <<>> =>
              [do |-> "refresh", at |-> p, by |-> q, list |-> l] \in Instructions
         /\ \A r \in Peers, l \in Seq(Peers) :
              [do |-> "trim", at |-> p, by |-> q, succ |-> r, rest |-> l] \in Instructions
         /\ \A k \in Keys, v \in 0 .. stores :
              [do |-> "ack", at |-> p, by |-> q, kid |-> k, version |-> v] \in Instructions
<1>1. \A w \in {"leave", "reset", "stop", "push", "beat", "repair"} :
        Call(w, p, q) \in Instructions /\ Call("push", p, p) \in Instructions
  BY DEF Instructions, Call
<1>2. \A r \in Peers, m \in Values :
        [do |-> "settle", at |-> p, by |-> q, old |-> r, moved |-> m] \in Instructions
  BY DEF Instructions
<1>3. \A w \in {"takeData", "replicate"}, m \in Values :
        [do |-> w, at |-> p, by |-> q, given |-> m] \in Instructions
  BY DEF Instructions
<1>4. \A r \in Peers, b \in BOOLEAN :
        [do |-> "setPred", at |-> p, by |-> q, peer |-> r, promote |-> b] \in Instructions
  BY DEF Instructions
<1>5. \A r \in Peers, d \in SUBSET Peers :
        [do |-> "setSucc", at |-> p, by |-> q, peer |-> r, drop |-> d] \in Instructions
  BY DEF Instructions
<1>6. \A r \in Peers : [do |-> "snap", at |-> p, by |-> q, to |-> r] \in Instructions
  BY DEF Instructions
<1>7. \A l \in Seq(Peers) : l # <<>> =>
        [do |-> "refresh", at |-> p, by |-> q, list |-> l] \in Instructions
  BY DEF Instructions
<1>8. \A r \in Peers, l \in Seq(Peers) :
        [do |-> "trim", at |-> p, by |-> q, succ |-> r, rest |-> l] \in Instructions
  BY DEF Instructions
<1>9. \A k \in Keys, v \in 0 .. stores :
        [do |-> "ack", at |-> p, by |-> q, kid |-> k, version |-> v] \in Instructions
  BY DEF Instructions
<1> QED
  BY <1>1, <1>2, <1>3, <1>4, <1>5, <1>6, <1>7, <1>8, <1>9 DEF Push

\* Lists of up to three instructions, and a list in front of another.
LEMMA CallsTyped ==
  /\ <<>> \in Seq(Instructions)
  /\ \A c \in Instructions : <<c>> \in Seq(Instructions)
  /\ \A c, d \in Instructions : <<c, d>> \in Seq(Instructions)
  /\ \A c, d, e \in Instructions : <<c, d, e>> \in Seq(Instructions)
  /\ \A c, d, e, f \in Instructions : <<c, d, e, f>> \in Seq(Instructions)
  /\ \A a, b \in Seq(Instructions) : a \o b \in Seq(Instructions)
  /\ \A a \in Seq(Instructions) : a # <<>> => Tail(a) \in Seq(Instructions) /\ a[1] \in Instructions
<1>1. \A a, b \in Seq(Instructions) : a \o b \in Seq(Instructions)
  OBVIOUS
<1>2. \A a \in Seq(Instructions) : a # <<>> => Tail(a) \in Seq(Instructions) /\ a[1] \in Instructions
  OBVIOUS
<1> QED
  BY <1>1, <1>2

\* After a step that stores nothing, instructions and values are what they were.
LEMMA SameVersions ==
  ASSUME stores' = stores
  PROVE  Instructions' = Instructions /\ Values' = Values
<1>1. Values' = Values
  BY DEF Values
<1> QED
  BY <1>1 DEF Instructions, Searches

\* The operation of task t goes on with calls.
LEMMA ThenTyped ==
  ASSUME TypeOK, NEW t \in Tasks, todo[t] # <<>>, NEW calls \in Seq(Instructions), Then(t, calls)
  PROVE  todo' \in [Tasks -> Seq(Instructions)]
<1>1. todo \in [Tasks -> Seq(Instructions)]
  BY DEF TypeOK
<1>2. calls \o Tail(todo[t]) \in Seq(Instructions)
  BY <1>1, CallsTyped
<1> QED
  BY <1>1, <1>2 DEF Then

\* TypeOK' of a step that stores nothing, with the values known so far.
TypedNext ==
  /\ up' \in [Peers -> BOOLEAN] /\ pred' \in [Peers -> Peers]
  /\ succs' \in [Peers -> Seq(Peers)] /\ \A p \in Peers : succs'[p] \in SuccLists(p)
  /\ data' \in [Peers -> Values] /\ replicas' \in [Peers -> Values]
  /\ todo' \in [Tasks -> Seq(Instructions)]
  /\ member' \subseteq Peers
  /\ acked' \in Values /\ stores' = stores /\ staleRead' \in BOOLEAN

LEMMA TypedNextSuffices == TypeOK /\ TypedNext => TypeOK'
<1> SUFFICES ASSUME TypeOK, TypedNext PROVE TypeOK'
  OBVIOUS
<1>1. Instructions' = Instructions /\ Values' = Values
  BY SameVersions DEF TypedNext
<1>2. \A p : SuccLists(p)' = SuccLists(p)
  BY DEF SuccLists
<1> QED
  BY <1>1, <1>2 DEF TypeOK, TypedNext

-----------------------------------------------------------------------------
(* Values                                                                   *)

LEMMA ValuesAre ==
  ASSUME TypeOK
  PROVE  /\ Empty \in Values /\ stores \in Nat
         /\ \A v, w \in Values : Merge(v, w) \in Values
         /\ \A v \in Values, k \in Keys : v[k] \in 0 .. stores /\ v[k] \in Nat
<1>1. stores \in Nat
  BY DEF TypeOK
<1> QED
  BY <1>1 DEF Values, Empty, Merge

LEMMA PromoteTyped ==
  ASSUME TypeOK, NEW n \in Peers, Promote(n)
  PROVE  data' \in [Peers -> Values] /\ replicas' \in [Peers -> Values]
<1>1. data \in [Peers -> Values] /\ replicas \in [Peers -> Values]
  BY DEF TypeOK
<1>2. Merge(data[n], replicas[n]) \in Values /\ Empty \in Values
  BY <1>1, ValuesAre
<1> QED
  BY <1>1, <1>2 DEF Promote

-----------------------------------------------------------------------------
(* Operations begin                                                         *)

LEMMA FindTyped ==
  ASSUME TypeOK, NEW p \in Peers, NEW q \in Peers
  PROVE  /\ Find(p, q, q, "joinAt") \in Instructions
         /\ \A k \in Keys : /\ Find(p, q, k, "store") \in Instructions
                            /\ Find(p, q, k, "fetch") \in Instructions
                            /\ Lookup(p, k, "store") \in Instructions
                            /\ Lookup(p, k, "value") \in Instructions
<1>1. p \in Slots /\ q \in Slots /\ \A k \in Keys : k \in Slots
  BY RingAssumption
<1>2. 0 \in Nat /\ \A k \in Keys : acked[k] \in Nat
  BY ValuesAre DEF TypeOK
<1>3. Find(p, q, q, "joinAt") \in Searches
  BY <1>1, <1>2 DEF Find, Searches
<1>4. ASSUME NEW k \in Keys
      PROVE  /\ Find(p, q, k, "store") \in Searches /\ Find(p, q, k, "fetch") \in Searches
             /\ Lookup(p, k, "store") \in Searches /\ Lookup(p, k, "value") \in Searches
  <2>1. Find(p, q, k, "store") \in Searches /\ Find(p, q, k, "fetch") \in Searches
    BY <1>1, <1>2 DEF Find, Searches
  <2>2. \A n \in {"store", "value"} :
          Lookup(p, k, n) =
            [do |-> "lookup", at |-> p, by |-> p, kid |-> k, next |-> n, via |-> {p}, hops |-> 0,
             floor |-> IF n \in {"fetch", "value"} THEN acked[k] ELSE 0]
    BY DEF Lookup, Find
  <2>3. Lookup(p, k, "store") \in Searches /\ Lookup(p, k, "value") \in Searches
    BY <1>1, <1>2, <2>2 DEF Searches
  <2> QED
    BY <2>1, <2>3
<1> QED
  BY <1>3, <1>4 DEF Instructions

LEMMA StartTyped ==
  ASSUME TypeOK, NEW t \in Tasks, NEW p, NEW calls \in Seq(Instructions), Start(t, p, calls)
  PROVE  todo' \in [Tasks -> Seq(Instructions)]
BY DEF Start, TypeOK

LEMMA ListingsTyped == \A ks \in Listings : ks \in Seq(Keys)
<1>1. IsFiniteSet(Keys)
  <2>1. RingSize - 1 \in Int /\ 0 \in Int
    BY KeyRingAssumption
  <2>2. IsFiniteSet(Slots)
    BY <2>1, FS_Interval DEF Slots
  <2> QED
    BY <2>2, RingAssumption, FS_Subset
<1> DEFINE n == Cardinality(Keys)
<1>2. n \in Nat
  BY <1>1, FS_CardinalityType
<1> HIDE DEF n
<1>3. ASSUME NEW ks \in [1 .. n -> Keys] PROVE ks \in Seq(Keys)
  <2>1. ks = [i \in 1 .. n |-> ks[i]] /\ \A i \in 1 .. n : ks[i] \in Keys
    OBVIOUS
  <2> QED
    BY <1>2, <2>1
<1>4. \A k \in Keys : <<k>> \in Seq(Keys)
  OBVIOUS
<1>5. ASSUME NEW ks \in Listings
      PROVE  (\E k \in Keys : ks = <<k>>) \/ ks \in [1 .. n -> Keys]
  BY Zenon DEF Listings, n
<1> QED
  BY <1>3, <1>4, <1>5

\* What is left alone keeps its type.
LEMMA Kept ==
  ASSUME TypeOK
  PROVE  /\ UNCHANGED up => up' \in [Peers -> BOOLEAN]
         /\ UNCHANGED pred => pred' \in [Peers -> Peers]
         /\ UNCHANGED succs => succs' \in [Peers -> Seq(Peers)] /\ \A p \in Peers : succs'[p] \in SuccLists(p)
         /\ UNCHANGED data => data' \in [Peers -> Values]
         /\ UNCHANGED replicas => replicas' \in [Peers -> Values]
         /\ UNCHANGED todo => todo' \in [Tasks -> Seq(Instructions)]
         /\ UNCHANGED member => member' \subseteq Peers
         /\ UNCHANGED acked => acked' \in Values
         /\ UNCHANGED staleRead => staleRead' \in BOOLEAN
BY DEF TypeOK

LEMMA JoinTyped ==
  ASSUME TypeOK, NEW t \in Tasks, NEW p \in Peers, NEW b \in Peers, Join(t, p, b)
  PROVE  TypedNext
<1>1. <<Find(b, p, p, "joinAt")>> \in Seq(Instructions)
  BY FindTyped, CallsTyped
<1>2. todo' \in [Tasks -> Seq(Instructions)]
  BY <1>1, StartTyped DEF Join
<1> QED
  BY <1>2, Kept DEF Join, TypedNext, peerVars, hist

LEMMA LeaveTyped ==
  ASSUME TypeOK, NEW t \in Tasks, NEW p \in Peers, Leave(t, p) \/ Stabilize(t, p)
  PROVE  TypedNext
<1>1. <<Call("leave", p, p)>> \in Seq(Instructions) /\ <<Call("beat", p, p)>> \in Seq(Instructions)
  BY Callable, CallsTyped
<1>2. todo' \in [Tasks -> Seq(Instructions)]
  BY <1>1, StartTyped DEF Leave, Stabilize
<1> QED
  BY <1>2, Kept DEF Leave, Stabilize, TypedNext, peerVars, hist

LEMMA PutTyped ==
  ASSUME TypeOK, NEW t \in Tasks, NEW p \in Peers, NEW k \in Keys,
         Put(t, p, k) \/ Get(t, p, k) \/ Discover(t, p, k)
  PROVE  TypedNext
<1>1. /\ <<Find(p, p, k, "store")>> \in Seq(Instructions)
      /\ <<Find(p, p, k, "fetch")>> \in Seq(Instructions)
      /\ <<Lookup(p, k, "value")>> \in Seq(Instructions)
  BY FindTyped, CallsTyped
<1>2. todo' \in [Tasks -> Seq(Instructions)]
  BY <1>1, StartTyped DEF Put, Get, Discover
<1> QED
  BY <1>2, Kept DEF Put, Get, Discover, TypedNext, peerVars, hist

LEMMA PublishTyped ==
  ASSUME TypeOK, NEW t \in Tasks, NEW p \in Peers, NEW ks \in Listings, Publish(t, p, ks)
  PROVE  TypedNext
<1> DEFINE calls == [j \in 1 .. Len(ks) |-> Lookup(p, ks[j], "store")]
<1>1. ks \in Seq(Keys)
  BY ListingsTyped
<1>2. Len(ks) \in Nat /\ \A j \in 1 .. Len(ks) : ks[j] \in Keys
  BY <1>1
<1>3. \A j \in 1 .. Len(ks) : Lookup(p, ks[j], "store") \in Instructions
  BY <1>2, FindTyped
<1>4. calls \in Seq(Instructions)
  BY <1>2, <1>3
<1>5. Start(t, p, calls)
  BY DEF Publish
<1> HIDE DEF calls
<1>6. todo' \in [Tasks -> Seq(Instructions)]
  BY <1>4, <1>5, StartTyped
<1> QED
  BY <1>6, Kept DEF Publish, TypedNext, peerVars, hist

LEMMA CrashTyped ==
  ASSUME TypeOK, NEW p \in Peers, Crash(p)
  PROVE  TypedNext
<1>1. up' \in [Peers -> BOOLEAN]
  BY DEF Crash, TypeOK
<1> QED
  BY <1>1, Kept DEF Crash, TypedNext, hist

\* A peer has another list, or is alone.
LEMMA SuccsAt ==
  ASSUME TypeOK, NEW p \in Peers, NEW list \in SuccLists(p), succs' = [succs EXCEPT ![p] = list]
  PROVE  succs' \in [Peers -> Seq(Peers)] /\ \A q \in Peers : succs'[q] \in SuccLists(q)
<1>1. succs \in [Peers -> Seq(Peers)] /\ \A q \in Peers : succs[q] \in SuccLists(q)
  BY DEF TypeOK
<1>2. list \in Seq(Peers)
  BY SuccListIs
<1> QED
  BY <1>1, <1>2

LEMMA AloneTyped == \A p \in Peers : <<p>> \in SuccLists(p)
BY DEF SuccLists

LEMMA RestartTyped ==
  ASSUME TypeOK, NEW p \in Peers, Restart(p)
  PROVE  TypedNext
<1>1. up' \in [Peers -> BOOLEAN] /\ pred' \in [Peers -> Peers]
  BY DEF Restart, TypeOK
<1>2. succs' \in [Peers -> Seq(Peers)] /\ \A q \in Peers : succs'[q] \in SuccLists(q)
  BY SuccsAt, AloneTyped DEF Restart
<1>3. data' \in [Peers -> Values] /\ replicas' \in [Peers -> Values]
  BY ValuesAre DEF Restart, TypeOK
<1>4. member' \subseteq Peers
  BY DEF Restart, TypeOK
<1> QED
  BY <1>1, <1>2, <1>3, <1>4, Kept DEF Restart, TypedNext

-----------------------------------------------------------------------------
(* The steps of an operation                                                *)

LEMMA RaiseTyped ==
  ASSUME TypeOK, NEW t \in Tasks, NEW i \in Instructions, Raise(t, i)
  PROVE  up' \in [Peers -> BOOLEAN] /\ todo' \in [Tasks -> Seq(Instructions)]
<1>1. up \in [Peers -> BOOLEAN] /\ todo \in [Tasks -> Seq(Instructions)]
  BY DEF TypeOK
<1>2. up' = up \/ up' = [up EXCEPT ![i.by] = FALSE]
  BY DEF Raise
<1>3. todo' = [todo EXCEPT ![t] = <<>>]
  BY DEF Raise
<1>4. up' \in [Peers -> BOOLEAN]
  BY <1>1, <1>2
<1> QED
  BY <1>1, <1>3, <1>4, CallsTyped

LEMMA FailTyped ==
  ASSUME TypeOK, NEW t \in Tasks, todo[t] # <<>>, NEW i \in Instructions, Fail(t, i)
  PROVE  TypedNext
<1>1. Raise(t, i) \/ (todo' = [todo EXCEPT ![t] = Tail(@)] /\ UNCHANGED up)
  BY DEF Fail
<1>2. up' \in [Peers -> BOOLEAN] /\ todo' \in [Tasks -> Seq(Instructions)]
  <2>1. todo \in [Tasks -> Seq(Instructions)]
    BY DEF TypeOK
  <2>2. Tail(todo[t]) \in Seq(Instructions)
    BY <2>1, CallsTyped
  <2> QED
    BY <1>1, <2>1, <2>2, RaiseTyped, Kept
<1> QED
  BY <1>2, Kept DEF Fail, TypedNext, hist

LEMMA FindStepTyped ==
  ASSUME TypeOK, NEW t \in Tasks, todo[t] # <<>>, NEW i \in Instructions, FindStep(t, i)
  PROVE  TypedNext
<1> DEFINE s == Succ(i.at)
           on == [i EXCEPT !.do = i.next, !.at = s, !.via = {}]
           ask == [i EXCEPT !.at = s, !.via = @ \cup {i.at}]
<1>1. i \in Searches /\ i.do = "find" /\ i.at \in Peers
  BY Carried DEF FindStep
<1>2. s \in Peers
  BY <1>1, SuccListIs DEF Succ, TypeOK
<1>3. on \in Instructions /\ ask \in Instructions
  <2> HIDE DEF s
  <2>1. on \in Searches /\ ask \in Searches
    BY <1>1, <1>2 DEF Searches
  <2> QED
    BY <2>1 DEF Instructions
<1>4. \/ Then(t, <<on>>) /\ UNCHANGED up
      \/ Raise(t, i)
      \/ Then(t, <<ask>>) /\ UNCHANGED up
  BY DEF FindStep
<1> HIDE DEF on, ask
<1>5. up' \in [Peers -> BOOLEAN] /\ todo' \in [Tasks -> Seq(Instructions)]
  BY <1>3, <1>4, CallsTyped, ThenTyped, RaiseTyped, Kept
<1> QED
  BY <1>5, Kept DEF FindStep, TypedNext, hist

LEMMA LookupStepTyped ==
  ASSUME TypeOK, NEW t \in Tasks, todo[t] # <<>>, NEW i \in Instructions, LookupStep(t, i)
  PROVE  TypedNext
<1> DEFINE hop == NextHop(i.kid, i.at, succs[i.at])
           store == [i EXCEPT !.do = "store", !.via = {}, !.hops = 0]
           ask == [i EXCEPT !.at = hop, !.via = @ \cup {i.at}, !.hops = @ + 1]
<1>1. i \in Searches /\ i.do = "lookup" /\ i.at \in Peers
  BY Carried DEF LookupStep
<1>2. hop \in Peers
  BY <1>1, SuccListIs, NextHopTyped DEF TypeOK
<1>3. (i.next = "store" => store \in Instructions) /\ ask \in Instructions
  <2> HIDE DEF hop
  <2>1. i.next = "store" => store \in Searches
    BY <1>1 DEF Searches
  <2>2. i.hops + 1 \in Nat /\ i.via \cup {i.at} \in SUBSET Peers
    BY <1>1 DEF Searches
  <2>3. ask \in Searches
    BY <1>1, <1>2, <2>2 DEF Searches
  <2> QED
    BY <2>1, <2>3 DEF Instructions
<1>4. \/ Then(t, IF i.next = "store" THEN <<store>> ELSE <<>>) /\ UNCHANGED up
      \/ Raise(t, i)
      \/ Then(t, <<ask>>) /\ UNCHANGED up
  BY DEF LookupStep
<1>5. staleRead' \in BOOLEAN
  BY Kept DEF LookupStep, TypeOK
<1> HIDE DEF store, ask
<1>6. (IF i.next = "store" THEN <<store>> ELSE <<>>) \in Seq(Instructions)
  BY <1>3, CallsTyped
<1>7. up' \in [Peers -> BOOLEAN] /\ todo' \in [Tasks -> Seq(Instructions)]
  BY <1>3, <1>4, <1>6, CallsTyped, ThenTyped, RaiseTyped, Kept
<1> QED
  BY <1>5, <1>7, Kept DEF LookupStep, TypedNext

LEMMA JoinAtTyped ==
  ASSUME TypeOK, NEW t \in Tasks, todo[t] # <<>>, NEW i \in Instructions, JoinAtStep(t, i)
  PROVE  TypedNext
<1> DEFINE s == i.at
           p == i.by
           old == pred[s]
           moved == [k \in Keys |-> IF Between(k, old, p) THEN data[s][k] ELSE 0]
           kept == [k \in Keys |-> IF Between(k, old, p) THEN 0 ELSE data[s][k]]
           link == IF old = s THEN Push(s)
                   ELSE [do |-> "setSucc", at |-> old, by |-> s, peer |-> p, drop |-> {}]
           settle == [do |-> "settle", at |-> s, by |-> p, old |-> old, moved |-> moved]
<1>1. s \in Peers /\ p \in Peers /\ old \in Peers
  BY Carried DEF TypeOK
<1>2. moved \in Values /\ kept \in Values
  <2>1. data[s] \in Values
    BY <1>1 DEF TypeOK
  <2>2. \A k \in Keys : data[s][k] \in 0 .. stores /\ 0 \in 0 .. stores
    BY <2>1, ValuesAre
  <2> HIDE DEF s, p, old
  <2> QED
    BY <2>2 DEF Values
<1>3. /\ data' = [data EXCEPT ![s] = kept] /\ replicas' = [replicas EXCEPT ![s] = moved]
      /\ pred' = [pred EXCEPT ![s] = p]
      /\ succs' = IF old = s THEN [succs EXCEPT ![s] = SetSuccs(s, <<p>>)] ELSE succs
      /\ Then(t, <<link, settle>>)
  BY DEF JoinAtStep, TypeOK
<1> HIDE DEF s, p, old, moved, kept
<1>4. link \in Instructions /\ settle \in Instructions
  BY <1>1, <1>2, Callable
<1> HIDE DEF link, settle
<1>5. todo' \in [Tasks -> Seq(Instructions)]
  BY <1>3, <1>4, CallsTyped, ThenTyped
<1>6. data' \in [Peers -> Values] /\ replicas' \in [Peers -> Values] /\ pred' \in [Peers -> Peers]
  BY <1>1, <1>2, <1>3 DEF TypeOK
<1>7. succs' \in [Peers -> Seq(Peers)] /\ \A q \in Peers : succs'[q] \in SuccLists(q)
  <2>1. SetSuccs(s, <<p>>) \in SuccLists(s)
    <3>1. <<p>> \in Seq(Peers)
      BY <1>1
    <3> QED
      BY <1>1, <3>1, SetSuccsIs
  <2> QED
    BY <1>1, <1>3, <2>1, SuccsAt, Kept
<1> QED
  BY <1>5, <1>6, <1>7, Kept DEF JoinAtStep, TypedNext, hist

LEMMA SettleTyped ==
  ASSUME TypeOK, NEW t \in Tasks, todo[t] # <<>>, NEW i \in Instructions, SettleStep(t, i)
  PROVE  TypedNext
<1>1. i.at \in Peers /\ i.by \in Peers /\ i.old \in Peers /\ i.moved \in Values
  BY Carried DEF SettleStep
<1>2. todo' \in [Tasks -> Seq(Instructions)]
  <2>1. <<Push(i.by)>> \in Seq(Instructions)
    BY <1>1, Callable, CallsTyped
  <2> QED
    BY <2>1, ThenTyped DEF SettleStep
<1>3. succs' \in [Peers -> Seq(Peers)] /\ \A q \in Peers : succs'[q] \in SuccLists(q)
  <2>1. <<i.at>> \in Seq(Peers)
    BY <1>1
  <2>2. SetSuccs(i.by, <<i.at>>) \in SuccLists(i.by)
    BY <1>1, <2>1, SetSuccsIs
  <2> QED
    BY <1>1, <2>2, SuccsAt DEF SettleStep
<1>4. pred' \in [Peers -> Peers] /\ member' \subseteq Peers
  BY <1>1 DEF SettleStep, TypeOK
<1>5. data' \in [Peers -> Values]
  <2>1. Received(i.by, i.moved) \in Values
    BY <1>1, ValuesAre DEF Received, TypeOK
  <2> QED
    BY <2>1 DEF SettleStep, TypeOK
<1> QED
  BY <1>2, <1>3, <1>4, <1>5, Kept DEF SettleStep, TypedNext

LEMMA LeaveStepTyped ==
  ASSUME TypeOK, NEW t \in Tasks, todo[t] # <<>>, NEW i \in Instructions, LeaveStep(t, i)
  PROVE  TypedNext
<1> DEFINE p == i.at
           s == Succ(p)
           hand == [do |-> "takeData", at |-> s, by |-> p, given |-> data[p]]
           back == [do |-> "setPred", at |-> s, by |-> p, peer |-> pred[p], promote |-> FALSE]
           forth == [do |-> "setSucc", at |-> pred[p], by |-> p, peer |-> s, drop |-> {p}]
           calls == IF s = p THEN <<>> ELSE IF pred[p] = p THEN <<hand, back>> ELSE <<hand, back, forth>>
           reset == Call("reset", p, p)
<1>1. p \in Peers
  BY Carried
<1>2. s \in Peers /\ pred[p] \in Peers /\ data[p] \in Values
  BY <1>1, SuccListIs DEF Succ, TypeOK
<1>3. Then(t, Append(calls, reset))
  BY DEF LeaveStep
<1> HIDE DEF p, s
<1>4. hand \in Instructions /\ back \in Instructions /\ forth \in Instructions /\ reset \in Instructions
  BY <1>1, <1>2, Callable
<1> HIDE DEF hand, back, forth, reset
<1>5. calls \in Seq(Instructions)
  BY <1>4, CallsTyped
<1> HIDE DEF calls
<1>6. Append(calls, reset) \in Seq(Instructions)
  BY <1>4, <1>5
<1>7. todo' \in [Tasks -> Seq(Instructions)]
  BY <1>3, <1>6, ThenTyped
<1> QED
  BY <1>7, Kept DEF LeaveStep, TypedNext, peerVars, hist

LEMMA ResetTyped ==
  ASSUME TypeOK, NEW t \in Tasks, todo[t] # <<>>, NEW i \in Instructions, ResetStep(t, i)
  PROVE  TypedNext
<1>1. i.at \in Peers
  BY Carried
<1>2. todo' \in [Tasks -> Seq(Instructions)]
  <2>1. <<Call("stop", i.at, i.at)>> \in Seq(Instructions)
    BY <1>1, Callable, CallsTyped
  <2> QED
    BY <2>1, ThenTyped DEF ResetStep
<1>3. succs' \in [Peers -> Seq(Peers)] /\ \A q \in Peers : succs'[q] \in SuccLists(q)
  BY <1>1, SuccsAt, AloneTyped DEF ResetStep
<1>4. /\ pred' \in [Peers -> Peers] /\ member' \subseteq Peers
      /\ data' \in [Peers -> Values] /\ replicas' \in [Peers -> Values]
  BY <1>1, ValuesAre DEF ResetStep, TypeOK
<1> QED
  BY <1>2, <1>3, <1>4, Kept DEF ResetStep, TypedNext

LEMMA StopTyped ==
  ASSUME TypeOK, NEW t \in Tasks, todo[t] # <<>>, NEW i \in Instructions, StopStep(t, i)
  PROVE  TypedNext
<1>1. todo' \in [Tasks -> Seq(Instructions)]
  BY CallsTyped, ThenTyped DEF StopStep
<1>2. up' \in [Peers -> BOOLEAN]
  BY DEF StopStep, TypeOK
<1> QED
  BY <1>1, <1>2, Kept DEF StopStep, TypedNext, hist

LEMMA TakeDataTyped ==
  ASSUME TypeOK, NEW t \in Tasks, todo[t] # <<>>, NEW i \in Instructions, TakeDataStep(t, i)
  PROVE  TypedNext
<1>1. i.at \in Peers /\ i.given \in Values
  BY Carried DEF TakeDataStep
<1>2. todo' \in [Tasks -> Seq(Instructions)]
  <2>1. <<Push(i.at)>> \in Seq(Instructions)
    BY <1>1, Callable, CallsTyped
  <2> QED
    BY <2>1, ThenTyped DEF TakeDataStep
<1>3. data' \in [Peers -> Values]
  BY <1>1, ValuesAre DEF TakeDataStep, TypeOK
<1> QED
  BY <1>2, <1>3, Kept DEF TakeDataStep, TypedNext, hist

LEMMA SetPredTyped ==
  ASSUME TypeOK, NEW t \in Tasks, todo[t] # <<>>, NEW i \in Instructions, SetPredStep(t, i)
  PROVE  TypedNext
<1>1. i.at \in Peers /\ i.peer \in Peers
  BY Carried DEF SetPredStep
<1>2. <<Push(i.at)>> \in Seq(Instructions) /\ <<>> \in Seq(Instructions)
  BY <1>1, Callable, CallsTyped
<1>3. todo' \in [Tasks -> Seq(Instructions)]
  BY <1>2, ThenTyped DEF SetPredStep
<1>4. data' \in [Peers -> Values] /\ replicas' \in [Peers -> Values]
  BY <1>1, PromoteTyped, Kept DEF SetPredStep
<1>5. pred' \in [Peers -> Peers]
  BY <1>1 DEF SetPredStep, TypeOK
<1> QED
  BY <1>3, <1>4, <1>5, Kept DEF SetPredStep, TypedNext, hist

LEMMA SetSuccTyped ==
  ASSUME TypeOK, NEW t \in Tasks, todo[t] # <<>>, NEW i \in Instructions, SetSuccStep(t, i)
  PROVE  TypedNext
<1>1. i.at \in Peers /\ i.peer \in Peers
  BY Carried DEF SetSuccStep
<1>2. todo' \in [Tasks -> Seq(Instructions)]
  <2>1. CopyOn(i.at) \in Seq(Instructions)
    BY <1>1, Callable, CallsTyped DEF CopyOn
  <2> QED
    BY <2>1, ThenTyped DEF SetSuccStep
<1>3. succs' \in [Peers -> Seq(Peers)] /\ \A q \in Peers : succs'[q] \in SuccLists(q)
  <2>1. <<i.peer>> \o Others(i.at, i.drop) \in Seq(Peers)
    BY <1>1, OthersTyped, ListsTyped
  <2>2. SetSuccs(i.at, <<i.peer>> \o Others(i.at, i.drop)) \in SuccLists(i.at)
    BY <1>1, <2>1, SetSuccsIs
  <2> QED
    BY <1>1, <2>2, SuccsAt DEF SetSuccStep
<1> QED
  BY <1>2, <1>3, Kept DEF SetSuccStep, TypedNext, hist

LEMMA PushTyped ==
  ASSUME TypeOK, NEW t \in Tasks, todo[t] # <<>>, NEW i \in Instructions, PushStep(t, i) \/ SnapStep(t, i)
  PROVE  TypedNext
<1>1. i.at \in Peers /\ Succ(i.at) \in Peers /\ data[i.at] \in Values
  BY Carried, SuccListIs DEF Succ, TypeOK
<1>2. ASSUME PushStep(t, i) PROVE todo' \in [Tasks -> Seq(Instructions)]
  <2> DEFINE snap == [do |-> "snap", at |-> i.at, by |-> i.at, to |-> Succ(i.at)]
  <2>1. snap \in Instructions
    BY <1>1, Callable
  <2>2. Then(t, IF Succ(i.at) = i.at THEN <<>> ELSE <<snap>>)
    BY <1>2 DEF PushStep
  <2> HIDE DEF snap
  <2>3. (IF Succ(i.at) = i.at THEN <<>> ELSE <<snap>>) \in Seq(Instructions)
    BY <2>1, CallsTyped
  <2> QED
    BY <2>2, <2>3, ThenTyped
<1>3. ASSUME SnapStep(t, i) PROVE todo' \in [Tasks -> Seq(Instructions)]
  <2> DEFINE copy == [do |-> "replicate", at |-> i.to, by |-> i.at, given |-> data[i.at]]
  <2>1. copy \in Instructions
    BY <1>1, <1>3, Carried, Callable DEF SnapStep
  <2>2. Then(t, <<copy>>)
    BY <1>3 DEF SnapStep
  <2> HIDE DEF copy
  <2>3. <<copy>> \in Seq(Instructions)
    BY <2>1, CallsTyped
  <2> QED
    BY <2>2, <2>3, ThenTyped
<1> QED
  BY <1>2, <1>3, Kept DEF PushStep, SnapStep, TypedNext, peerVars, hist

LEMMA ReplicateTyped ==
  ASSUME TypeOK, NEW t \in Tasks, todo[t] # <<>>, NEW i \in Instructions, ReplicateStep(t, i)
  PROVE  TypedNext
<1>1. i.at \in Peers /\ i.given \in Values
  BY Carried DEF ReplicateStep
<1>2. todo' \in [Tasks -> Seq(Instructions)]
  BY CallsTyped, ThenTyped DEF ReplicateStep
<1>3. replicas' \in [Peers -> Values]
  BY <1>1 DEF ReplicateStep, TypeOK
<1> QED
  BY <1>2, <1>3, Kept DEF ReplicateStep, TypedNext, hist

LEMMA PingTyped ==
  ASSUME TypeOK, NEW t \in Tasks, todo[t] # <<>>, NEW i \in Instructions, Ping(t, i)
  PROVE  TypedNext
<1> DEFINE s == Succ(i.at)
           refresh == [do |-> "refresh", at |-> i.at, by |-> i.at, list |-> <<s>> \o succs[s]]
           repair == Call("repair", i.at, i.at)
<1>1. i.at \in Peers
  BY Carried
<1>2. s \in Peers /\ succs[s] \in Seq(Peers)
  BY <1>1, SuccListIs DEF Succ, TypeOK
<1>3. Then(t, <<>>) \/ Then(t, <<refresh>>) \/ Then(t, <<repair>>)
  BY DEF Ping, Heard
<1> HIDE DEF s
<1>4. refresh \in Instructions /\ repair \in Instructions
  <2>1. <<s>> \o succs[s] \in Seq(Peers) /\ <<s>> \o succs[s] # <<>>
    BY <1>2, ListsTyped
  <2> QED
    BY <1>1, <2>1, Callable
<1> HIDE DEF refresh, repair
<1>5. <<>> \in Seq(Instructions) /\ <<refresh>> \in Seq(Instructions) /\ <<repair>> \in Seq(Instructions)
  BY <1>4, CallsTyped
<1>6. todo' \in [Tasks -> Seq(Instructions)]
  BY <1>3, <1>5, ThenTyped
<1> QED
  BY <1>6, Kept DEF Ping, TypedNext, peerVars, hist

LEMMA RefreshTyped ==
  ASSUME TypeOK, NEW t \in Tasks, todo[t] # <<>>, NEW i \in Instructions, RefreshStep(t, i)
  PROVE  TypedNext
<1> DEFINE new == SetSuccs(i.at, i.list)
           trim == [do |-> "trim", at |-> i.at, by |-> i.at, succ |-> i.list[1], rest |-> Tail(new)]
<1>1. i.at \in Peers /\ i.list \in Seq(Peers) /\ i.list # <<>>
  BY Carried DEF RefreshStep
<1>2. new \in SuccLists(i.at)
  BY <1>1, SetSuccsIs
<1>3. succs' = [succs EXCEPT ![i.at] = new] /\ Then(t, <<trim>>)
  BY DEF RefreshStep
<1> HIDE DEF new
<1>4. trim \in Instructions
  <2>1. i.list[1] \in Peers
    BY <1>1
  <2>2. new \in Seq(Peers) /\ new # <<>>
    BY <1>1, <1>2, SuccListIs
  <2>3. Tail(new) \in Seq(Peers)
    BY <1>1, <2>2, ListsTyped
  <2> QED
    BY <1>1, <2>1, <2>3, Callable
<1> HIDE DEF trim
<1>5. todo' \in [Tasks -> Seq(Instructions)]
  BY <1>3, <1>4, CallsTyped, ThenTyped
<1>6. succs' \in [Peers -> Seq(Peers)] /\ \A q \in Peers : succs'[q] \in SuccLists(q)
  BY <1>1, <1>2, <1>3, SuccsAt
<1> QED
  BY <1>5, <1>6, Kept DEF RefreshStep, TypedNext, hist

LEMMA TrimTyped ==
  ASSUME TypeOK, NEW t \in Tasks, todo[t] # <<>>, NEW i \in Instructions, TrimStep(t, i)
  PROVE  TypedNext
<1>1. i.at \in Peers /\ i.succ \in Peers /\ i.rest \in Seq(Peers)
  BY Carried DEF TrimStep
<1>2. todo' \in [Tasks -> Seq(Instructions)]
  BY CallsTyped, ThenTyped DEF TrimStep
<1>3. succs' \in [Peers -> Seq(Peers)] /\ \A q \in Peers : succs'[q] \in SuccLists(q)
  <2>1. <<i.succ>> \o Answering(i.rest) \in Seq(Peers)
    BY <1>1, AnsweringTyped, ListsTyped
  <2>2. SetSuccs(i.at, <<i.succ>> \o Answering(i.rest)) \in SuccLists(i.at)
    BY <1>1, <2>1, SetSuccsIs
  <2> QED
    BY <1>1, <2>2, SuccsAt DEF TrimStep
<1> QED
  BY <1>2, <1>3, Kept DEF TrimStep, TypedNext, hist

LEMMA RepairTyped ==
  ASSUME TypeOK, NEW t \in Tasks, todo[t] # <<>>, NEW i \in Instructions, RepairStep(t, i)
  PROVE  TypedNext
<1> DEFINE p == i.at
           new == WithoutFirst(p)
           link == [do |-> "setPred", at |-> new[1], by |-> p, peer |-> p, promote |-> TRUE]
           beat == Call("beat", p, p)
<1>1. p \in Peers
  BY Carried
<1>2. new \in SuccLists(p)
  <2>1. succs[p] \in Seq(Peers) /\ succs[p] # <<>>
    BY <1>1, SuccListIs DEF TypeOK
  <2>2. Tail(succs[p]) \in Seq(Peers)
    BY <1>1, <2>1, ListsTyped
  <2> QED
    BY <1>1, <2>2, SetSuccsIs DEF WithoutFirst
<1>3. /\ succs' = [succs EXCEPT ![p] = new]
      /\ \/ pred' = [pred EXCEPT ![p] = p] /\ Promote(p) /\ Then(t, <<beat>>)
         \/ Then(t, <<link, Push(p), beat>>) /\ UNCHANGED <<pred, data, replicas>>
  BY DEF RepairStep
<1> HIDE DEF p, new
<1>4. link \in Instructions /\ Push(p) \in Instructions /\ beat \in Instructions
  <2>1. new[1] \in Peers
    BY <1>1, <1>2, SuccListIs
  <2> QED
    BY <1>1, <2>1, Callable
<1> HIDE DEF link, beat
<1>5. <<beat>> \in Seq(Instructions) /\ <<link, Push(p), beat>> \in Seq(Instructions)
  BY <1>4, CallsTyped
<1>6. todo' \in [Tasks -> Seq(Instructions)]
  BY <1>3, <1>5, ThenTyped
<1>7. succs' \in [Peers -> Seq(Peers)] /\ \A q \in Peers : succs'[q] \in SuccLists(q)
  BY <1>1, <1>2, <1>3, SuccsAt
<1>8. data' \in [Peers -> Values] /\ replicas' \in [Peers -> Values]
  BY <1>1, <1>3, PromoteTyped, Kept
<1>9. pred' \in [Peers -> Peers]
  BY <1>1, <1>3 DEF TypeOK
<1> QED
  BY <1>6, <1>7, <1>8, <1>9, Kept DEF RepairStep, TypedNext, hist

LEMMA AckTyped ==
  ASSUME TypeOK, NEW t \in Tasks, todo[t] # <<>>, NEW i \in Instructions, AckStep(t, i)
  PROVE  TypedNext
<1>1. i.kid \in Keys /\ i.version \in 0 .. stores
  BY Carried DEF AckStep
<1>2. todo' \in [Tasks -> Seq(Instructions)]
  BY CallsTyped, ThenTyped DEF AckStep
<1>3. acked' \in Values
  BY <1>1 DEF AckStep, TypeOK, Values
<1> QED
  BY <1>2, <1>3, Kept DEF AckStep, TypedNext, peerVars

LEMMA FetchTyped ==
  ASSUME TypeOK, NEW t \in Tasks, todo[t] # <<>>, NEW i \in Instructions, FetchStep(t, i)
  PROVE  TypedNext
<1>1. todo' \in [Tasks -> Seq(Instructions)]
  BY CallsTyped, ThenTyped DEF FetchStep
<1>2. staleRead' \in BOOLEAN
  BY DEF FetchStep, TypeOK
<1> QED
  BY <1>1, <1>2, Kept DEF FetchStep, TypedNext, peerVars

\* A store makes one more version, which its value and its acknowledgement carry.
LEMMA StoreTyped ==
  ASSUME TypeOK, NEW t \in Tasks, todo[t] # <<>>, NEW i \in Instructions, StoreStep(t, i)
  PROVE  TypeOK'
<1> DEFINE ack == [do |-> "ack", at |-> i.at, by |-> i.by, kid |-> i.kid, version |-> stores']
<1>1. i.at \in Peers /\ i.by \in Peers /\ i.kid \in Keys
  <2>1. i \in Searches /\ i.do = "store" /\ i.at \in Peers /\ i.by \in Peers
    BY Carried DEF StoreStep
  <2> QED
    BY <2>1 DEF Searches
<1>2. stores \in Nat /\ stores' = stores + 1
  BY DEF StoreStep, TypeOK
<1>3. \A v \in 0 .. stores : v \in 0 .. stores'
  BY <1>2
<1>4. stores' \in 0 .. stores' /\ stores' \in Nat
  BY <1>2
<1>5. \A v \in Values : v \in Values'
  BY <1>3 DEF Values
<1>6. Values \subseteq Values' /\ Searches' = Searches
  BY <1>5 DEF Searches
<1>7. \A c \in Instructions : c \in Instructions'
  <2>1. ASSUME NEW c \in [do : {"settle"}, at : Peers, by : Peers, old : Peers, moved : Values]
        PROVE  c \in [do : {"settle"}, at : Peers, by : Peers, old : Peers, moved : Values']
    BY <1>5
  <2>2. ASSUME NEW c \in [do : {"takeData", "replicate"}, at : Peers, by : Peers, given : Values]
        PROVE  c \in [do : {"takeData", "replicate"}, at : Peers, by : Peers, given : Values']
    BY <1>5
  <2>3. ASSUME NEW c \in [do : {"ack"}, at : Peers, by : Peers, kid : Keys, version : 0 .. stores]
        PROVE  c \in [do : {"ack"}, at : Peers, by : Peers, kid : Keys, version : 0 .. stores']
    BY <1>3
  <2> QED
    BY <1>6, <2>1, <2>2, <2>3, Zenon DEF Instructions
<1>8. ack \in Instructions' /\ Push(i.at) \in Instructions
  <2>1. ack \in [do : {"ack"}, at : Peers, by : Peers, kid : Keys, version : 0 .. stores']
    BY <1>1, <1>4
  <2> QED
    BY <1>1, <2>1, Callable DEF Instructions
<1>9. Then(t, <<Push(i.at), ack>>)
  BY DEF StoreStep
<1> HIDE DEF ack
<1>10. todo' \in [Tasks -> Seq(Instructions')]
  <2> DEFINE J == Instructions'
             I == Instructions
             rest == Tail(todo[t])
  <2>1. I \subseteq J /\ todo \in [Tasks -> Seq(I)] /\ ack \in J /\ Push(i.at) \in J
    BY <1>7, <1>8 DEF TypeOK
  <2> HIDE DEF J, I
  <2>2. \A a \in Seq(I) : a \in Seq(J)
    BY <2>1
  <2>3. todo \in [Tasks -> Seq(J)]
    BY <2>1, <2>2
  <2>4. rest \in Seq(J)
    BY <2>3
  <2>5. <<Push(i.at), ack>> \o rest \in Seq(J)
    <3>1. <<Push(i.at), ack>> \in Seq(J)
      BY <2>1
    <3> HIDE DEF rest
    <3> QED
      BY <2>4, <3>1
  <2>6. todo' = [todo EXCEPT ![t] = <<Push(i.at), ack>> \o rest]
    BY <1>9 DEF Then
  <2> QED
    BY <2>3, <2>5, <2>6 DEF J
<1>11. data' \in [Peers -> Values']
  <2>1. data' = [data EXCEPT ![i.at] = [@ EXCEPT ![i.kid] = stores']] /\ data \in [Peers -> Values]
    BY DEF StoreStep, TypeOK
  <2>2. data \in [Peers -> Values'] /\ data[i.at] \in Values'
    BY <1>1, <1>5, <2>1
  <2>3. [data[i.at] EXCEPT ![i.kid] = stores'] \in Values'
    BY <1>1, <1>4, <2>2 DEF Values
  <2> QED
    BY <2>1, <2>2, <2>3
<1>12. replicas' \in [Peers -> Values'] /\ acked' \in Values'
  BY <1>5 DEF StoreStep, TypeOK
<1>13. \A p : SuccLists(p)' = SuccLists(p)
  BY DEF SuccLists
<1>14. /\ up' \in [Peers -> BOOLEAN] /\ pred' \in [Peers -> Peers]
       /\ succs' \in [Peers -> Seq(Peers)] /\ \A p \in Peers : succs'[p] \in SuccLists(p)
       /\ member' \subseteq Peers /\ staleRead' \in BOOLEAN
  BY Kept DEF StoreStep
<1> QED
  BY <1>4, <1>10, <1>11, <1>12, <1>13, <1>14 DEF TypeOK

-----------------------------------------------------------------------------
(* Together                                                                 *)

LEMMA StepTyped ==
  ASSUME TypeOK, NEW t \in Tasks, Step(t)
  PROVE  TypeOK'
<1> DEFINE i == todo[t][1]
<1>1. todo[t] # <<>> /\ i \in Instructions
  BY CallsTyped DEF Step, TypeOK
<1>2. \/ Fail(t, i)
      \/ FindStep(t, i) \/ LookupStep(t, i) \/ JoinAtStep(t, i) \/ SettleStep(t, i)
      \/ LeaveStep(t, i) \/ ResetStep(t, i) \/ StopStep(t, i) \/ TakeDataStep(t, i)
      \/ SetPredStep(t, i) \/ SetSuccStep(t, i) \/ PushStep(t, i)
      \/ SnapStep(t, i) \/ ReplicateStep(t, i)
      \/ Ping(t, i) \/ RefreshStep(t, i) \/ TrimStep(t, i) \/ RepairStep(t, i)
      \/ StoreStep(t, i) \/ AckStep(t, i) \/ FetchStep(t, i)
  BY DEF Step
<1> HIDE DEF i
<1>3. CASE StoreStep(t, i)
  BY <1>1, <1>3, StoreTyped
<1>4. ASSUME ~StoreStep(t, i) PROVE TypedNext
  BY <1>1, <1>2, <1>4, FailTyped, FindStepTyped, LookupStepTyped, JoinAtTyped, SettleTyped,
     LeaveStepTyped, ResetTyped, StopTyped, TakeDataTyped, SetPredTyped, SetSuccTyped, PushTyped,
     ReplicateTyped, PingTyped, RefreshTyped, TrimTyped, RepairTyped, AckTyped, FetchTyped
<1> QED
  BY <1>3, <1>4, TypedNextSuffices

LEMMA TypeInit == Init => TypeOK
<1> SUFFICES ASSUME Init PROVE TypeOK
  OBVIOUS
<1>1. Empty \in Values
  BY DEF Init, Empty, Values
<1>2. succs \in [Peers -> Seq(Peers)] /\ \A p \in Peers : succs[p] \in SuccLists(p)
  <2>1. \A p \in Peers : <<p>> \in Seq(Peers)
    OBVIOUS
  <2> QED
    BY <2>1, AloneTyped DEF Init
<1>3. todo \in [Tasks -> Seq(Instructions)]
  BY CallsTyped DEF Init
<1> QED
  BY <1>1, <1>2, <1>3, RingAssumption DEF Init, TypeOK

LEMMA TypeStep == TypeOK /\ [Next]_vars => TypeOK'
<1> SUFFICES ASSUME TypeOK, [Next]_vars PROVE TypeOK'
  OBVIOUS
<1>1. CASE \E t \in Tasks : Step(t)
  BY <1>1, StepTyped
<1>2. ASSUME NEW t \in Tasks, NEW p \in Peers,
             \/ \E b \in Peers : Join(t, p, b)
             \/ Leave(t, p) \/ Stabilize(t, p)
             \/ \E k \in Keys : Put(t, p, k) \/ Get(t, p, k) \/ Discover(t, p, k)
             \/ \E ks \in Listings : Publish(t, p, ks)
      PROVE  TypedNext
  BY <1>2, JoinTyped, LeaveTyped, PutTyped, PublishTyped
<1>3. ASSUME NEW p \in Peers, Crash(p) \/ Restart(p) PROVE TypedNext
  BY <1>3, CrashTyped, RestartTyped
<1>4. ASSUME UNCHANGED vars PROVE TypedNext
  BY <1>4, Kept DEF vars, peerVars, hist, TypedNext
<1>5. CASE TypedNext
  BY <1>5, TypedNextSuffices
<1>6. \/ \E t \in Tasks : Step(t)
      \/ \E t \in Tasks, p \in Peers :
           \/ \E b \in Peers : Join(t, p, b)
           \/ Leave(t, p) \/ Stabilize(t, p)
           \/ \E k \in Keys : Put(t, p, k) \/ Get(t, p, k) \/ Discover(t, p, k)
           \/ \E ks \in Listings : Publish(t, p, ks)
      \/ \E p \in Peers : Crash(p) \/ Restart(p)
      \/ UNCHANGED vars
  BY Zenon DEF Next
<1> QED
  BY <1>1, <1>2, <1>3, <1>4, <1>5, <1>6

\* Whatever joins, leaves, crashes and repairs run at the same time, a peer's
\* successor list names other peers, each once, and at most SUCC_LIST of them,
\* or the peer alone; the neighbours and the peers that calls go to exist; and
\* every version kept, sent or acknowledged was stored.
THEOREM TypeCorrect == Spec => []TypeOK
  BY TypeInit, TypeStep, PTL DEF Spec

-----------------------------------------------------------------------------
(* One operation at a time: where the pointers are                          *)

\* One operation is under way at a time, nobody leaves, no live peer is taken
\* for dead, operators wait for the ring to settle, and a successor list has
\* room for a second peer.  Any number of peers and keys, joins, crashes and
\* restarts.
Serial ==
  /\ \E t : Tasks = {t}
  /\ Calm /\ MaxLeaves = 0 /\ MaxSuspicions = 0 /\ SuccLen >= 2

\* What is left of the operation under way.
Op == todo[CHOOSE t \in Tasks : TRUE]

\* The peers the pointers go round: the live ones, and one more that is linked
\* in: a dead peer that nobody replaced yet, or one that joins.
Around == Live \cup {pred[p] : p \in Live}

\* Who owns a key on that ring.
Own(k) == ResponsibleId(k, Around)

\* The next pointers go round the ring of S.
SuccsOn(S) == \A p \in Live : Succ(p) \in S /\ PredIn(Succ(p), S) = p

\* The ring of the live peers is linked.
Sound == Around = Live /\ SuccsOn(Live)

\* A dead peer is still linked in; the one before it has its list from before.
Gap(x) == x \in member /\ ~up[x] /\ Around = Live \cup {x}
Torn ==
  \E x \in Peers :
    /\ Gap(x) /\ SuccsOn(Around)
    /\ \A n \in Live : Succ(n) = x => succs[n] = SuccessorsIn(n, Around, SuccLen)
AtRest == Sound \/ Torn

\* i is one of the three steps of a _replicate of n.
Copying(i, n) ==
  /\ i.by = n
  /\ \/ i.do = "push" /\ i.at = n
     \/ i.do = "snap" /\ i.at = n /\ i.to = Succ(n) /\ Succ(n) # n
     \/ i.do = "replicate" /\ i.at = Succ(n) /\ i.given = data[n] /\ Succ(n) # n

\* p is live, unless it does not answer.
Known(p) == up[p] => p \in Live

\* The rest of a publish_listings.
Writes(from) ==
  \A j \in DOMAIN Op : j >= from => Op[j].do = "lookup" /\ Op[j].next = "store" /\ Known(Op[j].at)

-----------------------------------------------------------------------------
(* How far the operation is                                                 *)

Idle == Op = <<>> /\ AtRest

\* A peer looks for its place, on a ring that is linked, and finds it.
JoinSearch ==
  /\ Len(Op) = 1 /\ Sound
  /\ LET i == Op[1] IN
     /\ i.do \in {"find", "joinAt"} /\ i.next = "joinAt"
     /\ i.by \notin member /\ up[i.by] /\ i.kid = i.by /\ i.at \in Live
     /\ i.do = "joinAt" => i.at = Own(i.by)

\* j is the call that ends a join: its peer is linked in from behind.
Settling(j) ==
  /\ j.do = "settle" /\ j.by \notin member /\ up[j.by] /\ j.at \in Live
  /\ pred[j.at] = j.by /\ Around = Live \cup {j.by} /\ j.old = PredIn(j.by, Around)

JoinLink ==
  /\ Len(Op) = 2 /\ Settling(Op[2]) /\ SuccsOn(Live)
  /\ LET i == Op[1] IN
     /\ i.do = "setSucc" /\ i.at = Op[2].old /\ i.by = Op[2].at
     /\ i.peer = Op[2].by /\ i.drop = {}
JoinCopy == Len(Op) = 2 /\ Settling(Op[2]) /\ SuccsOn(Around) /\ Copying(Op[1], Op[2].old)
JoinSettle ==
  /\ Len(Op) = 1 /\ Settling(Op[1]) /\ SuccsOn(Around)
  /\ replicas[Op[1].by] = data[Op[1].old]
JoinPush == Len(Op) = 1 /\ Sound /\ Copying(Op[1], Op[1].by) /\ Op[1].by \in Live

\* A put, a get, or a publication looks for the owner, and finds it.
Searching ==
  /\ Op # <<>> /\ AtRest
  /\ LET i == Op[1] IN
     /\ \/ i.do \in {"find", "lookup", "store"} /\ i.next = "store" /\ Writes(2)
        \/ /\ Len(Op) = 1
           /\ \/ i.do \in {"find", "fetch"} /\ i.next = "fetch"
              \/ i.do = "lookup" /\ i.next = "value"
           /\ i.floor <= acked[i.kid]
     /\ Known(i.at)
     /\ i.do \in {"store", "fetch"} /\ up[i.at] => i.at = Own(i.kid)

\* The acknowledgement of a value that its owner has, unless it crashed.
AckOf(a) ==
  /\ a.do = "ack" /\ Known(a.at)
  /\ up[a.at] => a.at = Own(a.kid) /\ data[a.at][a.kid] >= a.version
StoreCopy == Len(Op) >= 2 /\ AtRest /\ AckOf(Op[2]) /\ Copying(Op[1], Op[2].at) /\ Writes(3)
StoreAck == Op # <<>> /\ AtRest /\ AckOf(Op[1]) /\ Writes(2)

\* A heartbeat takes the list of a live successor, or finds it dead.
Beat ==
  /\ Len(Op) = 1 /\ AtRest
  /\ LET i == Op[1]
         s == Succ(i.at) IN
     /\ i.at \in Live /\ i.by = i.at
     /\ \/ i.do = "beat"
        \/ i.do = "refresh" /\ i.list = <<s>> \o succs[s] /\ s \in Live \ {i.at}
        \/ i.do = "trim" /\ i.succ = s /\ i.rest = Tail(succs[i.at]) /\ s \in Live \ {i.at}
Repair ==
  /\ Len(Op) = 1 /\ Torn
  /\ Op[1].do = "repair" /\ Op[1].at \in Live /\ Op[1].by = Op[1].at /\ Succ(Op[1].at) \notin Live
RepairLink ==
  /\ Len(Op) = 3 /\ SuccsOn(Live)
  /\ LET i == Op[1] IN
     /\ i.do = "setPred" /\ i.promote /\ i.by \in Live /\ i.peer = i.by
     /\ i.at = Succ(i.by) /\ i.at # i.by
     /\ Gap(pred[i.at]) /\ PredIn(pred[i.at], Around) = i.by
     /\ Op[2] = Push(i.by) /\ Op[3] = Call("beat", i.by, i.by)
RepairCopy ==
  /\ Len(Op) = 3 /\ Sound
  /\ \E p \in Live : /\ Op[2] = Push(p) /\ Op[3] = Call("beat", p, p)
                     /\ Succ(p) # p /\ Copying(Op[1], Succ(p))
RepairPush ==
  /\ Len(Op) = 2 /\ Sound
  /\ \E p \in Live : Op[2] = Call("beat", p, p) /\ Copying(Op[1], p)

Phase ==
  \/ Idle \/ JoinSearch \/ JoinLink \/ JoinCopy \/ JoinSettle \/ JoinPush
  \/ Searching \/ StoreCopy \/ StoreAck
  \/ Beat \/ Repair \/ RepairLink \/ RepairCopy \/ RepairPush

\* What holds of the pointers however far the operation is.
Base ==
  /\ leaves = 0 /\ suspicions = 0 /\ crashes \in Nat
  /\ Live # {}
  /\ \A p \in Live : pred[p] = PredIn(p, Around)
  /\ \A p \in Live : \A j \in DOMAIN succs[p] : up[succs[p][j]] => succs[p][j] \in Around
  /\ \A p \in member : ~up[p] => crashes > 0
  /\ \A p \in Peers \ member : up[p] => data[p] = Empty

Geometry == Base /\ Phase

-----------------------------------------------------------------------------
(* One crash: where the values are                                          *)

\* A _replicate of n is yet to come.
Pending(n) ==
  \E j \in DOMAIN Op : Op[j].do \in {"push", "snap", "replicate"} /\ Op[j].by = n

\* No crash yet, or nobody has put the replica of a dead peer in its place.
Pristine == crashes = 0 \/ \E x \in Around : Gap(x)

\* The owner has the newest acknowledged value, and the next peer a copy of it.
NewestKept == \A k \in Keys : Own(k) \in Live => data[Own(k)][k] >= acked[k]
Copied ==
  \A q \in Live : \A k \in Keys :
    pred[q] \in Live /\ pred[q] # q /\ Own(k) = pred[q] /\ ~Pending(pred[q])
      => replicas[q][k] = data[pred[q]][k]

\* Until the crash is repaired: no replica is older than what is acknowledged;
\* nobody has a value of a key of others; nobody has a replica of an own key.
Covered ==
  \A q \in Live : \A k \in Keys : pred[q] # q /\ Own(k) = pred[q] => replicas[q][k] >= acked[k]
OwnOnly == \A p \in Live : \A k \in Keys : data[p][k] # 0 => Own(k) = p
OthersOnly == \A q \in Live : \A k \in Keys : replicas[q][k] # 0 => Own(k) # q

\* What a joiner is given are the newest values of the keys it will own.
Given ==
  \A j \in DOMAIN Op : Op[j].do = "settle" =>
    \A k \in Keys : /\ Own(k) = Op[j].by => Op[j].moved[k] >= acked[k]
                    /\ Pristine => (Op[j].moved[k] # 0 => Own(k) = Op[j].by)

DataInv ==
  /\ NewestKept /\ Copied /\ Given /\ ~staleRead
  /\ Pristine => Covered /\ OwnOnly /\ OthersOnly

-----------------------------------------------------------------------------
(* The operation under way                                                  *)

LEMMA OpIs ==
  ASSUME Serial, TypeOK, NEW t \in Tasks
  PROVE  /\ Op = todo[t] /\ Op \in Seq(Instructions) /\ Op' = todo'[t] /\ Tasks = {t}
         /\ \A calls : Then(t, calls) => Op' = calls \o Tail(Op)
         /\ \A p, calls : Start(t, p, calls) => Op = <<>> /\ Op' = calls /\ up[p]
<1>1. Tasks = {t}
  BY DEF Serial
<1>2. (CHOOSE u \in Tasks : TRUE) = t
  BY <1>1
<1>3. Op = todo[t] /\ Op' = todo'[t]
  BY <1>2 DEF Op
<1>4. todo \in [Tasks -> Seq(Instructions)]
  BY DEF TypeOK
<1>5. ASSUME NEW calls, Then(t, calls) PROVE Op' = calls \o Tail(Op)
  BY <1>3, <1>4, <1>5 DEF Then
<1>6. ASSUME NEW p, NEW calls, Start(t, p, calls) PROVE Op = <<>> /\ Op' = calls /\ up[p]
  BY <1>3, <1>4, <1>6 DEF Start
<1> QED
  BY <1>1, <1>3, <1>4, <1>5, <1>6

\* The first instruction gives way to none, to one, two or three.
LEMMA Spliced ==
  ASSUME NEW ops \in Seq(Instructions), ops # <<>>, NEW c, NEW d, NEW e
  PROVE  /\ Len(ops) \in Nat \ {0} /\ DOMAIN ops = 1 .. Len(ops)
         /\ LET r == <<>> \o Tail(ops) IN
            /\ Len(r) = Len(ops) - 1 /\ DOMAIN r = 1 .. (Len(ops) - 1)
            /\ (r = <<>> <=> Len(ops) = 1)
            /\ \A j \in 1 .. (Len(ops) - 1) : r[j] = ops[j + 1]
         /\ LET r == <<c>> \o Tail(ops) IN
            /\ Len(r) = Len(ops) /\ DOMAIN r = 1 .. Len(ops) /\ r # <<>> /\ r[1] = c
            /\ \A j \in 2 .. Len(ops) : r[j] = ops[j]
         /\ LET r == <<c, d>> \o Tail(ops) IN
            /\ Len(r) = Len(ops) + 1 /\ DOMAIN r = 1 .. (Len(ops) + 1) /\ r # <<>>
            /\ r[1] = c /\ r[2] = d
            /\ \A j \in 3 .. (Len(ops) + 1) : r[j] = ops[j - 1]
         /\ LET r == <<c, d, e>> \o Tail(ops) IN
            /\ Len(r) = Len(ops) + 2 /\ DOMAIN r = 1 .. (Len(ops) + 2) /\ r # <<>>
            /\ r[1] = c /\ r[2] = d /\ r[3] = e
<1> DEFINE S == Instructions \cup {c, d, e}
           n == Len(ops)
           u == Tail(ops)
<1>1. n \in Nat \ {0} /\ ops \in Seq(S) /\ c \in S /\ d \in S /\ e \in S /\ DOMAIN ops = 1 .. n
  OBVIOUS
<1> HIDE DEF S, n
<1>2. /\ u \in Seq(S) /\ Len(u) = n - 1 /\ DOMAIN u = 1 .. (n - 1)
      /\ \A j \in 1 .. (n - 1) : u[j] = ops[j + 1]
  BY <1>1 DEF n
<1> HIDE DEF u
<1>3. /\ Len(<<>> \o u) = n - 1 /\ DOMAIN (<<>> \o u) = 1 .. (n - 1)
      /\ (<<>> \o u = <<>> <=> n = 1)
      /\ \A j \in 1 .. (n - 1) : (<<>> \o u)[j] = ops[j + 1]
  <2>1. <<>> \o u = u
    BY <1>2
  <2>2. u = <<>> <=> n = 1
    BY <1>1, <1>2
  <2> QED
    BY <1>1, <1>2, <2>1, <2>2
<1>4. /\ Len(<<c>> \o u) = n /\ DOMAIN (<<c>> \o u) = 1 .. n /\ <<c>> \o u # <<>>
      /\ (<<c>> \o u)[1] = c
      /\ \A j \in 2 .. n : (<<c>> \o u)[j] = ops[j]
  <2> DEFINE r == <<c>> \o u
  <2>1. <<c>> \in Seq(S) /\ Len(<<c>>) = 1 /\ <<c>>[1] = c
    BY <1>1
  <2>2. r \in Seq(S) /\ Len(r) = n /\ r[1] = c
    BY <1>1, <1>2, <2>1
  <2>3. \A j \in 2 .. n : r[j] = u[j - 1]
    BY <1>1, <1>2, <2>1
  <2>4. \A j \in 2 .. n : u[j - 1] = ops[j]
    BY <1>1, <1>2
  <2> HIDE DEF r
  <2>5. DOMAIN r = 1 .. n /\ r # <<>>
    BY <1>1, <2>2
  <2> QED
    BY <2>2, <2>3, <2>4, <2>5 DEF r
<1>5. /\ Len(<<c, d>> \o u) = n + 1 /\ DOMAIN (<<c, d>> \o u) = 1 .. (n + 1) /\ <<c, d>> \o u # <<>>
      /\ (<<c, d>> \o u)[1] = c /\ (<<c, d>> \o u)[2] = d
      /\ \A j \in 3 .. (n + 1) : (<<c, d>> \o u)[j] = ops[j - 1]
  <2> DEFINE r == <<c, d>> \o u
  <2>1. <<c, d>> \in Seq(S) /\ Len(<<c, d>>) = 2 /\ <<c, d>>[1] = c /\ <<c, d>>[2] = d
    BY <1>1
  <2>2. r \in Seq(S) /\ Len(r) = n + 1 /\ r[1] = c /\ r[2] = d
    BY <1>1, <1>2, <2>1
  <2>3. \A j \in 3 .. (n + 1) : r[j] = u[j - 2]
    BY <1>1, <1>2, <2>1
  <2>4. \A j \in 3 .. (n + 1) : u[j - 2] = ops[j - 1]
    BY <1>1, <1>2
  <2> HIDE DEF r
  <2>5. DOMAIN r = 1 .. (n + 1) /\ r # <<>>
    BY <1>1, <2>2
  <2> QED
    BY <2>2, <2>3, <2>4, <2>5 DEF r
<1>6. /\ Len(<<c, d, e>> \o u) = n + 2 /\ DOMAIN (<<c, d, e>> \o u) = 1 .. (n + 2)
      /\ <<c, d, e>> \o u # <<>>
      /\ (<<c, d, e>> \o u)[1] = c /\ (<<c, d, e>> \o u)[2] = d /\ (<<c, d, e>> \o u)[3] = e
  <2> DEFINE r == <<c, d, e>> \o u
  <2>1. /\ <<c, d, e>> \in Seq(S) /\ Len(<<c, d, e>>) = 3
        /\ <<c, d, e>>[1] = c /\ <<c, d, e>>[2] = d /\ <<c, d, e>>[3] = e
    BY <1>1
  <2>2. r \in Seq(S) /\ Len(r) = n + 2 /\ r[1] = c /\ r[2] = d /\ r[3] = e
    BY <1>1, <1>2, <2>1
  <2> HIDE DEF r
  <2>5. DOMAIN r = 1 .. (n + 2) /\ r # <<>>
    BY <1>1, <2>2
  <2> QED
    BY <2>2, <2>5 DEF r
<1> QED
  BY <1>1, <1>3, <1>4, <1>5, <1>6 DEF n, u

\* Which operation an instruction belongs to.
LEMMA PhaseIs ==
  ASSUME Phase, Op # <<>>
  PROVE  LET w == Op[1].do IN
         /\ w \notin {"leave", "reset", "stop", "takeData"}
         /\ w = "find" => JoinSearch \/ Searching
         /\ w \in {"lookup", "store", "fetch"} => Searching
         /\ w = "joinAt" => JoinSearch
         /\ w = "settle" => JoinSettle
         /\ w = "setPred" => RepairLink
         /\ w = "setSucc" => JoinLink
         /\ w \in {"push", "snap", "replicate"} =>
              JoinCopy \/ JoinPush \/ StoreCopy \/ RepairCopy \/ RepairPush
         /\ w \in {"beat", "refresh", "trim"} => Beat
         /\ w = "repair" => Repair
         /\ w = "ack" => StoreAck
<1> USE DEF Copying
<1>0. ~Idle
  BY DEF Idle
<1>1. JoinSearch => Op[1].do \in {"find", "joinAt"}
  BY DEF JoinSearch
<1>2. JoinLink => Op[1].do = "setSucc"
  BY DEF JoinLink
<1>3. JoinCopy \/ JoinPush \/ StoreCopy \/ RepairCopy \/ RepairPush => Op[1].do \in {"push", "snap", "replicate"}
  BY DEF JoinCopy, JoinPush, StoreCopy, RepairCopy, RepairPush
<1>4. JoinSettle => Op[1].do = "settle"
  BY DEF JoinSettle, Settling
<1>5. Searching => Op[1].do \in {"find", "lookup", "store", "fetch"}
  BY DEF Searching
<1>6. StoreAck => Op[1].do = "ack"
  BY DEF StoreAck, AckOf
<1>7. Beat => Op[1].do \in {"beat", "refresh", "trim"}
  BY DEF Beat
<1>8. (Repair => Op[1].do = "repair") /\ (RepairLink => Op[1].do = "setPred")
  BY DEF Repair, RepairLink
<1> QED
  BY <1>0, <1>1, <1>2, <1>3, <1>4, <1>5, <1>6, <1>7, <1>8 DEF Phase

-----------------------------------------------------------------------------
(* The ring                                                                 *)

LEMMA RingTyped ==
  ASSUME TypeOK, Base
  PROVE  /\ Live \subseteq Peers /\ Live \subseteq Around /\ Live # {}
         /\ Around \subseteq Peers /\ Around \in SUBSET Slots /\ Around # {} /\ Live \in SUBSET Slots
         /\ Peers \subseteq Slots /\ Keys \subseteq Slots
         /\ \A p \in Live : /\ pred[p] \in Around /\ pred[p] = PredIn(p, Around)
                            /\ (pred[p] = p <=> Around = {p})
                            /\ succs[p] \in SuccLists(p) /\ Succ(p) \in Peers
                            /\ Len(succs[p]) \in Nat \ {0} /\ DOMAIN succs[p] = 1 .. Len(succs[p])
<1>1. Live \subseteq Peers /\ Live # {} /\ \A p \in Live : pred[p] \in Peers /\ pred[p] = PredIn(p, Around)
  BY DEF TypeOK, Base, Live
<1>2. Around \subseteq Peers /\ Live \subseteq Around /\ \A p \in Live : pred[p] \in Around
  BY <1>1 DEF Around
<1>3. Peers \subseteq Slots /\ Keys \subseteq Slots
  BY RingAssumption
<1>4. \A p \in Live : pred[p] = p <=> Around = {p}
  BY <1>1, <1>2, <1>3, PredSelf
<1>5. \A p \in Live : succs[p] \in SuccLists(p) /\ succs[p] \in Seq(Peers)
  BY <1>1 DEF TypeOK
<1>6. \A p \in Live : Len(succs[p]) \in Nat \ {0} /\ Succ(p) \in Peers
  BY <1>1, <1>5, SuccListIs DEF Succ
<1>7. \A p \in Live : DOMAIN succs[p] = 1 .. Len(succs[p])
  BY <1>5
<1> QED
  BY <1>1, <1>2, <1>3, <1>4, <1>5, <1>6, <1>7

\* One peer of the ring owns a key, and knows it from its predecessor.
LEMMA OwnIs ==
  ASSUME TypeOK, Base, NEW k \in Slots
  PROVE  Own(k) \in Around /\ \A p \in Live : Own(k) = p <=> IsResponsible(k, pred[p], p)
<1>1. Around \in SUBSET Slots /\ Around # {} /\ Live \subseteq Around
      /\ \A p \in Live : pred[p] = PredIn(p, Around)
  BY RingTyped
<1>2. Own(k) \in Around
  BY <1>1, ResponsibleIs DEF Own
<1>3. ASSUME NEW p \in Live PROVE Own(k) = p <=> IsResponsible(k, pred[p], p)
  BY <1>1, ResponsibleIffOwner DEF Own
<1> QED
  BY <1>2, <1>3

\* Once the next pointers go round, each is the other's inverse.
LEMMA NextIs ==
  ASSUME TypeOK, Base, SuccsOn(Around), NEW p \in Live
  PROVE  /\ Succ(p) \in Around
         /\ \A q \in Live : Succ(p) = q <=> pred[q] = p
         /\ Succ(p) = p <=> Around = {p}
<1>1. /\ Around \in SUBSET Slots /\ Live \subseteq Around
      /\ \A q \in Live : pred[q] = PredIn(q, Around) /\ (pred[q] = q <=> Around = {q})
  BY RingTyped
<1>2. Succ(p) \in Around /\ PredIn(Succ(p), Around) = p
  BY DEF SuccsOn
<1>3. ASSUME NEW q \in Live, pred[q] = p PROVE Succ(p) = q
  <2>1. PredIn(q, Around) = PredIn(Succ(p), Around) /\ q \in Around
    BY <1>1, <1>2, <1>3
  <2> QED
    BY <1>1, <1>2, <2>1, PredInjective
<1>4. ASSUME NEW q \in Live, Succ(p) = q PROVE pred[q] = p
  BY <1>1, <1>2, <1>4
<1> QED
  BY <1>1, <1>2, <1>3, <1>4

\* At rest the pointers go round the live peers and at most one dead one.
LEMMA AtRestIs ==
  ASSUME TypeOK, Base, AtRest
  PROVE  /\ SuccsOn(Around)
         /\ \A p \in Around : Known(p)
         /\ \A p \in Live : \A j \in DOMAIN succs[p] : Known(succs[p][j])
         /\ \A p \in Live : Succ(p) \in Around /\ Known(Succ(p))
<1>1. SuccsOn(Around)
  BY DEF AtRest, Sound, Torn
<1>2. \A p \in Around : Known(p)
  BY DEF AtRest, Sound, Torn, Gap, Known
<1>3. \A p \in Live : \A j \in DOMAIN succs[p] : Known(succs[p][j])
  BY <1>2 DEF Base, Known
<1>4. \A p \in Live : Succ(p) \in Around
  BY <1>1 DEF SuccsOn
<1> QED
  BY <1>1, <1>2, <1>3, <1>4

\* Whom _find names is the owner.
LEMMA FoundOwner ==
  ASSUME TypeOK, Base, SuccsOn(Around), NEW p \in Live, NEW k \in Slots,
         Succ(p) = p \/ Between(k, p, Succ(p))
  PROVE  Succ(p) = Own(k)
<1>1. Around \in SUBSET Slots /\ Succ(p) \in Around /\ PredIn(Succ(p), Around) = p
  BY RingTyped DEF SuccsOn
<1>2. IsResponsible(k, PredIn(Succ(p), Around), Succ(p))
  BY <1>1 DEF IsResponsible
<1> QED
  BY <1>1, <1>2, ResponsibleIffOwner DEF Own

\* Who answers a lookup is the owner.
LEMMA ResponsibleOwner ==
  ASSUME TypeOK, Base, SuccsOn(Around), NEW p \in Live, NEW k \in Slots, Responsible(p, k)
  PROVE  p = Own(k)
<1>1. CASE IsResponsible(k, pred[p], p)
  BY <1>1, OwnIs
<1>2. CASE Succ(p) = p
  <2>1. Around = {p}
    BY <1>2, NextIs
  <2> QED
    BY <2>1, OwnIs
<1> QED
  BY <1>1, <1>2 DEF Responsible

\* A lookup goes on at an entry of the list.
LEMMA NextHopEntry ==
  ASSUME TypeOK, NEW p \in Peers, NEW kid, NEW me
  PROVE  \E j \in DOMAIN succs[p] : NextHop(kid, me, succs[p]) = succs[p][j]
<1> DEFINE list == succs[p]
           ok == {i \in 1 .. Len(list) : BeforeKey(list[i], me, kid)}
<1>0. list \in Seq(Peers) /\ Len(list) \in Nat \ {0} /\ DOMAIN list = 1 .. Len(list)
  BY SuccListIs DEF TypeOK
<1> HIDE DEF list
<1>1. CASE ok = {}
  BY <1>0, <1>1 DEF NextHop, list
<1>2. CASE ok # {}
  <2> DEFINE n == Len(list)
             last == CHOOSE i \in ok : \A j \in ok : j <= i
  <2>1. n \in Nat /\ ok \in SUBSET (0 .. n) /\ \A i \in ok : i \in DOMAIN list
    BY <1>0
  <2> HIDE DEF n, ok
  <2>2. \E i \in ok : \A j \in ok : j <= i
    BY <1>2, <2>1, GreatestExists
  <2>3. last \in ok
    BY <2>2
  <2>4. NextHop(kid, me, list) = list[last]
    BY <1>2 DEF NextHop, ok
  <2> HIDE DEF last
  <2> QED
    BY <2>1, <2>3, <2>4 DEF list
<1> QED
  BY <1>1, <1>2

-----------------------------------------------------------------------------
(* Steps that change no pointer and no value of an owner                    *)

\* At most a peer that is not of the ring stops.
SamePointers ==
  /\ UNCHANGED <<pred, succs, member, leaves, crashes, suspicions>>
  /\ \A p \in Peers : up'[p] = up[p] \/ (p \notin member /\ ~up'[p])
SameRing == SamePointers /\ UNCHANGED <<data, acked>>

LEMMA PointersAre ==
  ASSUME TypeOK, SamePointers
  PROVE  /\ Live' = Live /\ Around' = Around
         /\ \A k : Own(k)' = Own(k)
         /\ Base /\ (\A p \in Peers \ member : data'[p] = data[p]) => Base'
         /\ SuccsOn(Live) => (SuccsOn(Live))'
         /\ SuccsOn(Around) => (SuccsOn(Around))'
         /\ Sound => Sound'
         /\ Torn => Torn'
         /\ AtRest => AtRest'
         /\ \A p \in Peers : Known(p) => Known(p)'
         /\ \A x \in Peers : Gap(x)' <=> Gap(x)
<1>1. Live' = Live /\ member' = member
  BY DEF Live, SamePointers, TypeOK
<1>2. Around' = Around
  BY <1>1 DEF Around, SamePointers
<1>3. \A p \in Live : p \in Peers /\ up[p] /\ up'[p]
  BY <1>1 DEF Live, TypeOK
<1>4. \A p \in Peers : up'[p] => up[p]
  BY DEF SamePointers
<1>5. \A p \in member : p \in Peers /\ up'[p] = up[p]
  BY DEF SamePointers, TypeOK
<1>6. \A k : Own(k)' = Own(k)
  BY <1>2 DEF Own
<1>7. \A n : Succ(n)' = Succ(n)
  BY DEF Succ, SamePointers
<1>8. Base /\ (\A p \in Peers \ member : data'[p] = data[p]) => Base'
  <2> SUFFICES ASSUME Base, \A p \in Peers \ member : data'[p] = data[p] PROVE Base'
    OBVIOUS
  <2>1. \A p \in Live : \A j \in DOMAIN succs[p] : succs[p][j] \in Peers
    BY <1>3 DEF TypeOK
  <2>2. \A p \in Live : \A j \in DOMAIN succs[p] : up'[succs[p][j]] => succs[p][j] \in Around
    BY <1>4, <2>1 DEF Base
  <2>3. \A p \in Live : pred[p] = PredIn(p, Around)
    BY DEF Base
  <2>4. \A p \in Peers \ member : up'[p] => data[p] = Empty
    BY <1>4 DEF Base
  <2>5. \A p \in member : ~up'[p] => crashes > 0
    BY <1>5 DEF Base
  <2>6. Live # {} /\ Empty' = Empty /\ leaves = 0 /\ suspicions = 0 /\ crashes \in Nat
    BY DEF Base, Empty
  <2> QED
    BY <1>1, <1>2, <2>2, <2>3, <2>4, <2>5, <2>6 DEF Base, SamePointers
<1>9. \A S : SuccsOn(S)' <=> SuccsOn(S)
  BY <1>1, <1>7 DEF SuccsOn
<1>10. (SuccsOn(Live))' <=> SuccsOn(Live)
  BY <1>1, <1>7 DEF SuccsOn
<1>11. (SuccsOn(Around))' <=> SuccsOn(Around)
  BY <1>1, <1>2, <1>7 DEF SuccsOn
<1>12. Sound => Sound'
  BY <1>1, <1>2, <1>10 DEF Sound
<1>13. \A x \in Peers : Gap(x)' <=> Gap(x)
  BY <1>1, <1>2, <1>5 DEF Gap
<1>14. Torn => Torn'
  <2> SUFFICES ASSUME Torn PROVE Torn'
    OBVIOUS
  <2>1. PICK x \in Peers : /\ Gap(x) /\ SuccsOn(Around)
                           /\ \A n \in Live : Succ(n) = x => succs[n] = SuccessorsIn(n, Around, SuccLen)
    BY DEF Torn
  <2>2. Gap(x)' /\ (SuccsOn(Around))'
    BY <1>11, <1>13, <2>1
  <2>3. \A n \in Live' : Succ(n)' = x => succs'[n] = SuccessorsIn(n, Around', SuccLen)
    BY <1>1, <1>2, <1>7, <2>1 DEF SamePointers
  <2> QED
    BY <2>2, <2>3 DEF Torn
<1>16. \A p \in Peers : Known(p) => Known(p)'
  BY <1>1, <1>4 DEF Known
<1> QED
  BY <1>1, <1>2, <1>6, <1>8, <1>10, <1>11, <1>12, <1>13, <1>14, <1>16 DEF AtRest

LEMMA SameRingIs ==
  ASSUME TypeOK, SameRing
  PROVE  /\ Live' = Live /\ Around' = Around
         /\ \A k : Own(k)' = Own(k)
         /\ Base => Base'
         /\ SuccsOn(Live) => (SuccsOn(Live))'
         /\ SuccsOn(Around) => (SuccsOn(Around))'
         /\ Sound => Sound'
         /\ Torn => Torn'
         /\ AtRest => AtRest'
         /\ \A i, n : Copying(i, n) => Copying(i, n)'
         /\ \A p \in Peers : Known(p) => Known(p)'
         /\ \A x \in Peers : Gap(x)' <=> Gap(x)
<1>1. \A i, n : Copying(i, n) => Copying(i, n)'
  BY DEF Copying, Succ, SameRing, SamePointers
<1>2. SamePointers /\ data' = data
  BY DEF SameRing
<1>3. Base => Base'
  BY <1>2, PointersAre
<1> QED
  BY <1>1, <1>2, <1>3, PointersAre

\* A gap does not come from nowhere.
LEMMA PristineKept ==
  ASSUME TypeOK, Base, Around' = Around, crashes' = crashes, \A x \in Peers : Gap(x)' => Gap(x)
  PROVE  Pristine' => Pristine
<1>1. \A x \in Around : Gap(x)' => Gap(x)
  BY RingTyped
<1> QED
  BY <1>1 DEF Pristine

\* What a joiner is given stays what it was.
LEMMA GivenKept ==
  ASSUME Given, acked' = acked, \A k : Own(k)' = Own(k), Pristine' => Pristine,
         \A j \in DOMAIN Op' : Op'[j].do = "settle" => \E l \in DOMAIN Op : Op'[j] = Op[l]
  PROVE  Given'
<1>1. ASSUME NEW j \in DOMAIN Op', Op'[j].do = "settle", NEW k \in Keys
      PROVE  /\ Own(k) = Op'[j].by => Op'[j].moved[k] >= acked[k]
             /\ Pristine => (Op'[j].moved[k] # 0 => Own(k) = Op'[j].by)
  <2>1. PICK l \in DOMAIN Op : Op'[j] = Op[l]
    BY <1>1
  <2>2. Op[l].do = "settle"
    BY <1>1, <2>1
  <2>3. /\ Own(k) = Op[l].by => Op[l].moved[k] >= acked[k]
        /\ Pristine => (Op[l].moved[k] # 0 => Own(k) = Op[l].by)
    BY <2>2 DEF Given
  <2> QED
    BY <2>1, <2>3
<1> QED
  BY <1>1 DEF Given

\* The values stay right as long as no copy is forgotten that somebody waits for.
LEMMA SameValues ==
  ASSUME TypeOK, Base, Live' = Live, Around' = Around, UNCHANGED <<pred, data, replicas, acked, crashes>>,
         \A x \in Peers : Gap(x)' => Gap(x), DataInv, Given', ~staleRead',
         \A n \in Live : Pending(n) /\ (\E q \in Live : q # n /\ pred[q] = n) => Pending(n)'
  PROVE  DataInv'
<1>1. Live' = Live /\ Around' = Around /\ \A k : Own(k)' = Own(k)
  BY DEF Own
<1>2. UNCHANGED <<pred, data, replicas, acked, crashes>>
  OBVIOUS
<1>3. Pristine' => Pristine
  BY PristineKept
<1>4. NewestKept'
  <2>1. NewestKept
    BY DEF DataInv
  <2> QED
    BY <1>1, <1>2, <2>1 DEF NewestKept
<1>5. Copied'
  <2>1. ASSUME NEW q \in Live, NEW k \in Keys,
               pred[q] \in Live, pred[q] # q, Own(k) = pred[q], ~Pending(pred[q])'
        PROVE  replicas[q][k] = data[pred[q]][k]
    <3>1. PICK n \in Live : n = pred[q]
      BY <2>1
    <3>2. ~Pending(n)'
      BY <1>2, <2>1, <3>1 DEF Pending
    <3>3. ~Pending(n)
      BY <2>1, <3>1, <3>2
    <3> QED
      BY <2>1, <3>1, <3>3 DEF DataInv, Copied
  <2>2. ASSUME NEW q \in Live, ~(Pending(pred[q]))' PROVE ~Pending(pred[q])'
    BY <2>2
  <2> QED
    BY <1>1, <1>2, <2>1, <2>2 DEF Copied
<1>6. ASSUME Pristine' PROVE Covered' /\ OwnOnly' /\ OthersOnly'
  <2>1. Covered /\ OwnOnly /\ OthersOnly
    BY <1>3, <1>6 DEF DataInv
  <2>2. Covered'
    BY <1>1, <1>2, <2>1 DEF Covered
  <2>3. OwnOnly'
    BY <1>1, <1>2, <2>1 DEF OwnOnly
  <2>4. OthersOnly'
    BY <1>1, <1>2, <2>1 DEF OthersOnly
  <2> QED
    BY <2>2, <2>3, <2>4
<1> QED
  BY <1>4, <1>5, <1>6 DEF DataInv

\* What no longer is under way was not needed.
LEMMA StepKeeps ==
  ASSUME TypeOK, Geometry, SameRing, replicas' = replicas, Phase', DataInv => ~staleRead',
         \A j \in DOMAIN Op' : Op'[j].do = "settle" => \E l \in DOMAIN Op : Op'[j] = Op[l],
         \A n \in Live : Pending(n) /\ (\E q \in Live : q # n /\ pred[q] = n) => Pending(n)'
  PROVE  Geometry' /\ (DataInv => DataInv')
<1>1. Base'
  BY SameRingIs DEF Geometry
<1>2. ASSUME DataInv PROVE Given'
  <2>1. Around' = Around /\ crashes' = crashes /\ \A x \in Peers : Gap(x)' => Gap(x)
    BY SameRingIs DEF SameRing, SamePointers
  <2>2. Pristine' => Pristine
    BY <2>1, PristineKept DEF Geometry
  <2>3. Given /\ acked' = acked /\ \A k : Own(k)' = Own(k)
    BY <1>2, SameRingIs DEF DataInv, SameRing, SamePointers
  <2> QED
    BY <2>2, <2>3, GivenKept
<1>3. DataInv => DataInv'
  <2>1. Live' = Live /\ Around' = Around /\ \A x \in Peers : Gap(x)' => Gap(x)
    BY SameRingIs
  <2>2. UNCHANGED <<pred, data, replicas, acked, crashes>>
    BY DEF SameRing, SamePointers
  <2> QED
    BY <1>2, <2>1, <2>2, SameValues DEF Geometry
<1> QED
  BY <1>1, <1>3 DEF Geometry

-----------------------------------------------------------------------------
(* Operations begin                                                         *)

LEMMA IdleIs ==
  ASSUME Phase, Op = <<>>
  PROVE  AtRest
<1>1. Len(Op) = 0
  OBVIOUS
<1> QED
  BY <1>1 DEF Phase, Idle, JoinSearch, JoinLink, JoinCopy, JoinSettle, JoinPush, Searching,
     StoreCopy, StoreAck, Beat, Repair, RepairLink, RepairCopy, RepairPush

LEMMA LinkedIs ==
  ASSUME TypeOK, Base, Linked
  PROVE  Sound
<1>1. Live \in SUBSET Slots
  BY RingTyped
<1>2. ASSUME NEW p \in Live PROVE pred[p] \in Live
  <2>1. PredIn(p, Live) \in Live
    BY <1>1, PredSelf
  <2> QED
    BY <2>1 DEF Linked
<1>3. Around = Live
  BY <1>2 DEF Around
<1>4. ASSUME NEW p \in Live PROVE Succ(p) \in Live /\ PredIn(Succ(p), Live) = p
  <2>1. Succ(p) = SuccessorsIn(p, Live, 1)[1]
    BY DEF Linked
  <2> QED
    BY <1>1, <2>1, FirstSuccessor
<1> QED
  BY <1>3, <1>4 DEF Sound, SuccsOn

\* An operation that begins changes nothing yet.
LEMMA BeginKeeps ==
  ASSUME TypeOK, Geometry, Op = <<>>, SameRing, replicas' = replicas, Phase',
         \A j \in DOMAIN Op' : Op'[j].do # "settle", staleRead' = staleRead
  PROVE  Geometry' /\ (DataInv => DataInv')
<1>1. \A n : ~Pending(n)
  BY DEF Pending
<1>2. DataInv => ~staleRead'
  BY DEF DataInv
<1> QED
  BY <1>1, <1>2, StepKeeps

LEMMA JoinKeeps ==
  ASSUME TypeOK, Serial, Geometry, NEW t \in Tasks, NEW p \in Peers, NEW b \in Peers, Join(t, p, b)
  PROVE  Geometry' /\ (DataInv => DataInv')
<1> DEFINE find == Find(b, p, p, "joinAt")
<1>1. Op = <<>> /\ Op' = <<find>> /\ up[p]
  BY OpIs DEF Join
<1>2. SameRing /\ replicas' = replicas /\ staleRead' = staleRead /\ up' = up /\ member' = member
  BY DEF Join, SameRing, SamePointers, peerVars, hist
<1>3. Sound'
  BY LinkedIs, <1>2, SameRingIs DEF Join, Ready, Serial, Geometry
<1>4. find.do = "find" /\ find.next = "joinAt" /\ find.by = p /\ find.kid = p /\ find.at = b
  BY DEF Find
<1> HIDE DEF find
<1>5. Len(Op') = 1 /\ Op'[1] = find /\ DOMAIN Op' = {1}
  BY <1>1
<1>6. b \in Live' /\ p \notin member' /\ up'[p]
  BY <1>1, <1>2, SameRingIs DEF Join
<1>7. JoinSearch'
  BY <1>3, <1>4, <1>5, <1>6 DEF JoinSearch
<1>8. Phase'
  BY <1>7 DEF Phase
<1> QED
  BY <1>1, <1>2, <1>4, <1>5, <1>8, BeginKeeps

LEMMA StabilizeKeeps ==
  ASSUME TypeOK, Serial, Geometry, NEW t \in Tasks, NEW p \in Peers, Stabilize(t, p)
  PROVE  Geometry' /\ (DataInv => DataInv')
<1> DEFINE beat == Call("beat", p, p)
<1>1. Op = <<>> /\ Op' = <<beat>>
  BY OpIs DEF Stabilize
<1>2. SameRing /\ replicas' = replicas /\ staleRead' = staleRead
  BY DEF Stabilize, SameRing, SamePointers, peerVars, hist, bounds
<1>3. AtRest'
  BY <1>1, <1>2, IdleIs, SameRingIs DEF Geometry
<1>4. beat.do = "beat" /\ beat.by = p /\ beat.at = p
  BY DEF Call
<1> HIDE DEF beat
<1>5. Len(Op') = 1 /\ Op'[1] = beat /\ DOMAIN Op' = {1}
  BY <1>1
<1>6. p \in Live'
  BY <1>2, SameRingIs DEF Stabilize
<1>7. Beat'
  BY <1>3, <1>4, <1>5, <1>6 DEF Beat
<1>8. Phase'
  BY <1>7 DEF Phase
<1> QED
  BY <1>1, <1>2, <1>4, <1>5, <1>8, BeginKeeps

LEMMA PutKeeps ==
  ASSUME TypeOK, Serial, Geometry, NEW t \in Tasks, NEW p \in Peers, NEW k \in Keys,
         Put(t, p, k) \/ Get(t, p, k) \/ Discover(t, p, k)
  PROVE  Geometry' /\ (DataInv => DataInv')
<1>1. PICK i : /\ Op = <<>> /\ Op' = <<i>> /\ i.at = p /\ i.kid = k
               /\ \/ i.do = "find" /\ i.next = "store"
                  \/ i.do = "find" /\ i.next = "fetch" /\ i.floor = acked[k]
                  \/ i.do = "lookup" /\ i.next = "value" /\ i.floor = acked[k]
  <2>1. CASE Put(t, p, k)
    <3>1. Op = <<>> /\ Op' = <<Find(p, p, k, "store")>>
      BY <2>1, OpIs DEF Put
    <3>2. /\ Find(p, p, k, "store").at = p /\ Find(p, p, k, "store").kid = k
          /\ Find(p, p, k, "store").do = "find" /\ Find(p, p, k, "store").next = "store"
      BY DEF Find
    <3> QED
      BY <3>1, <3>2
  <2>2. CASE Get(t, p, k)
    <3>1. Op = <<>> /\ Op' = <<Find(p, p, k, "fetch")>>
      BY <2>2, OpIs DEF Get
    <3>2. /\ Find(p, p, k, "fetch").at = p /\ Find(p, p, k, "fetch").kid = k
          /\ Find(p, p, k, "fetch").do = "find" /\ Find(p, p, k, "fetch").next = "fetch"
          /\ Find(p, p, k, "fetch").floor = acked[k]
      BY DEF Find
    <3> QED
      BY <3>1, <3>2
  <2>3. CASE Discover(t, p, k)
    <3>1. Op = <<>> /\ Op' = <<Lookup(p, k, "value")>>
      BY <2>3, OpIs DEF Discover
    <3>2. /\ Lookup(p, k, "value").at = p /\ Lookup(p, k, "value").kid = k
          /\ Lookup(p, k, "value").do = "lookup" /\ Lookup(p, k, "value").next = "value"
          /\ Lookup(p, k, "value").floor = acked[k]
      BY DEF Lookup, Find
    <3> QED
      BY <3>1, <3>2
  <2> QED
    BY <2>1, <2>2, <2>3
<1>2. SameRing /\ replicas' = replicas /\ staleRead' = staleRead /\ acked' = acked
  BY DEF Put, Get, Discover, SameRing, SamePointers, peerVars, hist, bounds
<1>3. AtRest'
  BY <1>1, <1>2, IdleIs, SameRingIs DEF Geometry
<1>4. Len(Op') = 1 /\ Op'[1] = i /\ DOMAIN Op' = {1} /\ Op' # <<>>
  BY <1>1
<1>5. Known(p)'
  BY <1>2, SameRingIs DEF Put, Get, Discover, Known
<1>6. acked[k] <= acked'[k]
  BY <1>2, ValuesAre DEF TypeOK
<1>7. Writes(2)'
  BY <1>4 DEF Writes
<1>8. Searching'
  BY <1>1, <1>3, <1>4, <1>5, <1>6, <1>7 DEF Searching
<1>9. Phase'
  BY <1>8 DEF Phase
<1> QED
  BY <1>1, <1>2, <1>4, <1>9, BeginKeeps

LEMMA PublishKeeps ==
  ASSUME TypeOK, Serial, Geometry, NEW t \in Tasks, NEW p \in Peers, NEW ks \in Listings,
         Publish(t, p, ks)
  PROVE  Geometry' /\ (DataInv => DataInv')
<1> DEFINE calls == [j \in 1 .. Len(ks) |-> Lookup(p, ks[j], "store")]
           n == Len(ks)
<1>0. n \in Nat
  BY ListingsTyped
<1>1. Op = <<>> /\ Op' = calls
  BY OpIs DEF Publish
<1>2. SameRing /\ replicas' = replicas /\ staleRead' = staleRead
  BY DEF Publish, SameRing, SamePointers, peerVars, hist
<1>3. AtRest'
  BY <1>1, <1>2, IdleIs, SameRingIs DEF Geometry
<1>4. \A j \in 1 .. n : /\ Lookup(p, ks[j], "store").at = p
                        /\ Lookup(p, ks[j], "store").do = "lookup"
                        /\ Lookup(p, ks[j], "store").next = "store"
  BY DEF Lookup, Find
<1>5. /\ DOMAIN Op' = 1 .. n /\ Len(Op') = n
      /\ \A j \in 1 .. n : Op'[j].at = p /\ Op'[j].do = "lookup" /\ Op'[j].next = "store"
  <2> HIDE DEF n
  <2>1. DOMAIN Op' = 1 .. n /\ Len(Op') = n /\ \A j \in 1 .. n : Op'[j] = Lookup(p, ks[j], "store")
    BY <1>0, <1>1 DEF n
  <2> QED
    BY <1>4, <2>1
<1>10. n = 0 => calls = <<>>
  OBVIOUS
<1> HIDE DEF calls, n
<1>6. Known(p)'
  BY <1>2, SameRingIs DEF Publish, Known
<1>7. Writes(2)'
  <2>1. \A j \in DOMAIN Op' : Op'[j].do = "lookup" /\ Op'[j].next = "store" /\ Op'[j].at = p
    BY <1>5
  <2>2. \A j \in DOMAIN Op' : up'[Op'[j].at] => Op'[j].at \in Live'
    BY <1>6, <2>1 DEF Known
  <2> QED
    BY <2>1, <2>2 DEF Writes, Known
<1>8. CASE n = 0
  <2>1. Op' = <<>>
    BY <1>1, <1>8, <1>10
  <2>2. Phase'
    BY <1>3, <2>1 DEF Phase, Idle
  <2>3. \A j \in DOMAIN Op' : Op'[j].do # "settle"
    BY <1>0, <1>5, <1>8
  <2> QED
    BY <1>1, <1>2, <2>2, <2>3, BeginKeeps
<1>9. CASE n # 0
  <2>1. 1 \in DOMAIN Op' /\ Op' # <<>>
    BY <1>0, <1>5, <1>9
  <2>2. Op'[1].do = "lookup" /\ Op'[1].next = "store" /\ Op'[1].at = p
    BY <1>5, <2>1
  <2>3. Searching'
    BY <1>3, <1>6, <1>7, <2>1, <2>2 DEF Searching, Known
  <2>4. Phase'
    BY <2>3 DEF Phase
  <2>5. \A j \in DOMAIN Op' : Op'[j].do # "settle"
    BY <1>5
  <2> QED
    BY <1>1, <1>2, <2>4, <2>5, BeginKeeps
<1> QED
  BY <1>8, <1>9

-----------------------------------------------------------------------------
(* An operation goes on, or fails                                           *)

\* The instructions of an operation, and the first.
LEMMA FirstIs ==
  ASSUME TypeOK, Serial, Op # <<>>
  PROVE  /\ Op \in Seq(Instructions) /\ Op[1] \in Instructions /\ Op[1].at \in Peers /\ Op[1].by \in Peers
         /\ Len(Op) \in Nat \ {0} /\ DOMAIN Op = 1 .. Len(Op) /\ 1 \in DOMAIN Op
         /\ \A j \in DOMAIN Op : Op[j] \in Instructions /\ Op[j].at \in Peers
<1>1. PICK t \in Tasks : TRUE
  BY DEF Serial
<1>2. Op \in Seq(Instructions)
  BY <1>1, OpIs
<1>3. Len(Op) \in Nat \ {0} /\ DOMAIN Op = 1 .. Len(Op) /\ \A j \in DOMAIN Op : Op[j] \in Instructions
  BY <1>2
<1>4. 1 \in DOMAIN Op
  BY <1>3
<1> QED
  BY <1>2, <1>3, <1>4, Carried

\* The rest of a publication is what it was.
LEMMA WritesOn ==
  ASSUME TypeOK, Serial, Op # <<>>, \A p \in Peers : Known(p) => Known(p)', NEW m \in Nat, m >= 1, Writes(m + 1)
  PROVE  /\ Op' = <<>> \o Tail(Op) => Writes(m)'
         /\ \A c : Op' = <<c>> \o Tail(Op) => Writes(m + 1)'
         /\ \A c, d : Op' = <<c, d>> \o Tail(Op) => Writes(m + 2)'
<1> DEFINE n == Len(Op)
<1>1. n \in Nat \ {0} /\ DOMAIN Op = 1 .. n
  BY FirstIs
<1>2. \A j \in 1 .. n : j >= m + 1 =>
        Op[j].do = "lookup" /\ Op[j].next = "store" /\ (up'[Op[j].at] => Op[j].at \in Live')
  <2>1. \A j \in 1 .. n : Op[j].at \in Peers
    BY <1>1, FirstIs
  <2>2. \A j \in 1 .. n : j >= m + 1 => Op[j].do = "lookup" /\ Op[j].next = "store" /\ Known(Op[j].at)
    BY <1>1 DEF Writes
  <2> QED
    BY <2>1, <2>2 DEF Known
<1>3. ASSUME Op' = <<>> \o Tail(Op) PROVE Writes(m)'
  <2>1. DOMAIN Op' = 1 .. (n - 1) /\ \A j \in 1 .. (n - 1) : Op'[j] = Op[j + 1]
    BY <1>3, FirstIs, Spliced
  <2> HIDE DEF n
  <2>2. \A j \in DOMAIN Op' : j >= m =>
          Op'[j].do = "lookup" /\ Op'[j].next = "store" /\ (up'[Op'[j].at] => Op'[j].at \in Live')
    <3>1. \A j \in 1 .. (n - 1) : j >= m => j + 1 \in 1 .. n /\ j + 1 >= m + 1
      BY <1>1
    <3> QED
      BY <1>2, <2>1, <3>1
  <2> QED
    BY <2>2 DEF Writes, Known
<1>4. ASSUME NEW c, Op' = <<c>> \o Tail(Op) PROVE Writes(m + 1)'
  <2>1. DOMAIN Op' = 1 .. n /\ \A j \in 2 .. n : Op'[j] = Op[j]
    BY <1>4, FirstIs, Spliced
  <2> HIDE DEF n
  <2>2. \A j \in DOMAIN Op' : j >= m + 1 =>
          Op'[j].do = "lookup" /\ Op'[j].next = "store" /\ (up'[Op'[j].at] => Op'[j].at \in Live')
    <3>1. \A j \in 1 .. n : j >= m + 1 => j \in 2 .. n
      BY <1>1
    <3> QED
      BY <1>2, <2>1, <3>1
  <2> QED
    BY <2>2 DEF Writes, Known
<1>5. ASSUME NEW c, NEW d, Op' = <<c, d>> \o Tail(Op) PROVE Writes(m + 2)'
  <2>1. DOMAIN Op' = 1 .. (n + 1) /\ \A j \in 3 .. (n + 1) : Op'[j] = Op[j - 1]
    BY <1>5, FirstIs, Spliced
  <2> HIDE DEF n
  <2>2. \A j \in DOMAIN Op' : j >= m + 2 =>
          Op'[j].do = "lookup" /\ Op'[j].next = "store" /\ (up'[Op'[j].at] => Op'[j].at \in Live')
    <3>1. \A j \in 1 .. (n + 1) : j >= m + 2 => j \in 3 .. (n + 1) /\ j - 1 \in 1 .. n /\ j - 1 >= m + 1
      BY <1>1
    <3> QED
      BY <1>2, <2>1, <3>1
  <2> QED
    BY <2>2 DEF Writes, Known
<1> QED
  BY <1>3, <1>4, <1>5

\* An operation that ends, or raises, leaves a ring at rest.
LEMMA EndKeeps ==
  ASSUME TypeOK, Geometry, SameRing, replicas' = replicas, AtRest, DataInv => ~staleRead', Op' = <<>>,
         \A j \in DOMAIN Op : Op[j].do \notin {"push", "snap", "replicate"}
  PROVE  Geometry' /\ (DataInv => DataInv')
<1>1. Idle'
  BY SameRingIs DEF Idle
<1>2. Phase'
  BY <1>1 DEF Phase
<1>3. \A n : ~Pending(n)
  BY DEF Pending
<1> QED
  BY <1>2, <1>3, StepKeeps

LEMMA RaiseIs ==
  ASSUME TypeOK, Serial, NEW t \in Tasks, NEW i, Raise(t, i),
         i.do = "settle" \/ (i.do \in {"find", "joinAt"} /\ i.next = "joinAt") => i.by \notin member
  PROVE  /\ Op' = <<>>
         /\ \A p \in Peers : up'[p] = up[p] \/ (p \notin member /\ ~up'[p])
<1>1. todo' = [todo EXCEPT ![t] = <<>>] /\ todo \in [Tasks -> Seq(Instructions)]
  BY DEF Raise, TypeOK
<1>2. Op' = <<>>
  BY <1>1, OpIs
<1>3. up' = up \/ (i.by \notin member /\ up' = [up EXCEPT ![i.by] = FALSE])
  BY DEF Raise
<1>4. up \in [Peers -> BOOLEAN]
  BY DEF TypeOK
<1> QED
  BY <1>2, <1>3, <1>4

LEMMA FindKeeps ==
  ASSUME TypeOK, Serial, Geometry, NEW t \in Tasks, NEW i, Op # <<>>, i = Op[1], Reached(i),
         FindStep(t, i)
  PROVE  Geometry' /\ (DataInv => DataInv')
<1> DEFINE s == Succ(i.at)
           on == [i EXCEPT !.do = i.next, !.at = s, !.via = {}]
           ask == [i EXCEPT !.at = s, !.via = @ \cup {i.at}]
<1>1. /\ Op \in Seq(Instructions) /\ i \in Instructions /\ i \in Searches /\ i.at \in Peers /\ i.kid \in Slots
      /\ i.do = "find" /\ (JoinSearch \/ Searching)
  <2>1. i \in Instructions /\ i.do = "find" /\ Op \in Seq(Instructions)
    BY FirstIs DEF FindStep
  <2>2. i \in Searches /\ i.at \in Peers
    BY <2>1, Carried
  <2> QED
    BY <2>1, <2>2, PhaseIs DEF Geometry, Searches
<1>2. /\ on.do = i.next /\ on.at = s /\ on.by = i.by /\ on.kid = i.kid /\ on.next = i.next /\ on.floor = i.floor
      /\ ask.do = "find" /\ ask.at = s /\ ask.by = i.by /\ ask.kid = i.kid /\ ask.next = i.next
      /\ ask.floor = i.floor
  <2> HIDE DEF s
  <2> QED
    BY <1>1 DEF Searches
<1>3. /\ UNCHANGED <<pred, succs, data, replicas, member, acked, staleRead, leaves, crashes, suspicions>>
      /\ \/ (s = i.at \/ Between(i.kid, i.at, s)) /\ Then(t, <<on>>) /\ up' = up
         \/ Raise(t, i)
         \/ Then(t, <<ask>>) /\ up' = up
  BY DEF FindStep, hist, bounds
<1> HIDE DEF s, on, ask
<1>4. AtRest /\ Base /\ i.at \in Live
  <2>1. JoinSearch => AtRest /\ i.at \in Live
    BY DEF JoinSearch, AtRest
  <2>2. Searching => AtRest /\ Known(i.at) /\ up[i.at]
    BY DEF Searching, Reached
  <2> QED
    BY <1>1, <2>1, <2>2 DEF Geometry, Known
<1>5. s \in Peers /\ s \in Around /\ Known(s) /\ SuccsOn(Around)
  BY <1>4, AtRestIs, RingTyped DEF s
<1>6. s = i.at \/ Between(i.kid, i.at, s) => s = Own(i.kid)
  BY <1>1, <1>4, <1>5, FoundOwner DEF s
<1>7. \A j \in DOMAIN Op : Op[j].do \notin {"push", "snap", "replicate", "settle"}
  <2>1. \A j \in DOMAIN Op : j = 1 \/ j >= 2
    BY FirstIs
  <2>2. \A j \in DOMAIN Op : j = 1 \/ Op[j].do = "lookup"
    BY <1>1, <2>1, FirstIs DEF JoinSearch, Searching, Writes
  <2> QED
    BY <1>1, <2>2
<1>8. CASE Raise(t, i)
  <2>1. JoinSearch => i.by \notin member
    BY DEF JoinSearch
  <2>2. Searching => i.next # "joinAt"
    BY DEF Searching
  <2>3. Op' = <<>> /\ SameRing /\ replicas' = replicas
    BY <1>1, <1>3, <1>8, <2>1, <2>2, RaiseIs DEF SameRing, SamePointers
  <2> QED
    BY <1>3, <1>4, <1>7, <2>3, EndKeeps DEF DataInv
<1>9. CASE ~Raise(t, i)
  <2>1. PICK c : /\ Op' = <<c>> \o Tail(Op) /\ c.at = s /\ c.by = i.by /\ c.kid = i.kid
                 /\ c.next = i.next /\ c.floor = i.floor
                 /\ (c.do = i.next /\ s = Own(i.kid)) \/ c.do = "find"
    BY <1>2, <1>3, <1>6, <1>9, OpIs
  <2>2. SameRing /\ replicas' = replicas /\ up' = up /\ member' = member /\ acked' = acked
    BY <1>3, <1>9 DEF SameRing, SamePointers
  <2>3. /\ Len(Op') = Len(Op) /\ Op' # <<>> /\ Op'[1] = c /\ DOMAIN Op' = DOMAIN Op
        /\ \A j \in 2 .. Len(Op) : Op'[j] = Op[j]
    BY <1>1, <2>1, Spliced
  <2>4. JoinSearch => JoinSearch'
    <3> SUFFICES ASSUME JoinSearch PROVE JoinSearch'
      OBVIOUS
    <3>1. Sound' /\ Live' = Live /\ Own(i.by)' = Own(i.by)
      BY <2>2, SameRingIs DEF JoinSearch
    <3>2. s \in Live /\ i.next = "joinAt" /\ i.by \notin member /\ up[i.by] /\ i.kid = i.by /\ Len(Op) = 1
      BY <1>5 DEF JoinSearch, Sound
    <3>3. c.do = "joinAt" => c.at = Own(c.by)
      BY <2>1, <3>2
    <3>4. Own(c.by)' = Own(c.by)
      BY <2>2, SameRingIs
    <3> QED
      BY <2>1, <2>2, <2>3, <3>1, <3>2, <3>3, <3>4 DEF JoinSearch
  <2>5. Searching => Searching'
    <3> SUFFICES ASSUME Searching PROVE Searching'
      OBVIOUS
    <3>0. c.at \in Peers /\ Known(c.at)
      BY <1>5, <2>1
    <3>1. AtRest' /\ Known(c.at)' /\ (\A p \in Peers : Known(p) => Known(p)') /\ Own(c.kid)' = Own(c.kid)
      BY <1>4, <2>2, <3>0, SameRingIs
    <3>2. i.next = "store" => Writes(2)
      BY <1>1 DEF Searching
    <3>3. i.next = "store" => Writes(2)'
      <4>1. 1 \in Nat /\ 1 >= 1 /\ 1 + 1 = 2
        OBVIOUS
      <4> QED
        BY <2>1, <3>1, <3>2, <4>1, WritesOn
    <3>4. i.next = "store" \/ (i.next = "fetch" /\ Len(Op) = 1 /\ i.floor <= acked[i.kid])
      BY <1>1 DEF Searching
    <3>5. c.do \in {"store", "fetch"} => c.at = Own(c.kid)
      BY <2>1
    <3> QED
      BY <2>1, <2>2, <2>3, <3>1, <3>3, <3>4, <3>5 DEF Searching
  <2>6. Phase'
    BY <1>1, <2>4, <2>5 DEF Phase
  <2>7. \A j \in DOMAIN Op' : Op'[j].do # "settle"
    <3>1. c.do # "settle"
      BY <1>1, <2>1 DEF JoinSearch, Searching
    <3>2. \A j \in DOMAIN Op' : j = 1 \/ j \in 2 .. Len(Op)
      BY <2>3, FirstIs
    <3> QED
      BY <1>7, <2>3, <3>1, <3>2
  <2>8. \A n : ~Pending(n)
    BY <1>7 DEF Pending
  <2> QED
    BY <1>3, <2>2, <2>6, <2>7, <2>8, StepKeeps DEF DataInv
<1> QED
  BY <1>8, <1>9

\* After a search or an acknowledgement come other writes only.
LEMMA TailIs ==
  ASSUME TypeOK, Serial, Op # <<>>, Searching \/ StoreAck
  PROVE  \A j \in DOMAIN Op : Op[j].do \notin {"push", "snap", "replicate", "settle"}
<1>1. Op[1].do \notin {"push", "snap", "replicate", "settle"}
  BY DEF Searching, StoreAck, AckOf
<1>2. Len(Op) = 1 \/ Writes(2)
  BY DEF Searching, StoreAck
<1>3. \A j \in DOMAIN Op : j = 1 \/ (Len(Op) # 1 /\ j >= 2)
  BY FirstIs
<1> QED
  BY <1>1, <1>2, <1>3 DEF Writes

\* The owner has what a read must find.
LEMMA FreshRead ==
  ASSUME TypeOK, DataInv, NEW k \in Keys, NEW f \in Nat, f <= acked[k], Own(k) \in Live
  PROVE  ~(data[Own(k)][k] < f)
<1>1. Own(k) \in Peers
  BY DEF Live, TypeOK
<1>2. data[Own(k)][k] \in Nat /\ acked[k] \in Nat
  BY <1>1, ValuesAre DEF TypeOK
<1>3. data[Own(k)][k] >= acked[k]
  BY DEF DataInv, NewestKept
<1> QED
  BY <1>2, <1>3

LEMMA LookupKeeps ==
  ASSUME TypeOK, Serial, Geometry, NEW t \in Tasks, NEW i, Op # <<>>, i = Op[1], Reached(i),
         LookupStep(t, i)
  PROVE  Geometry' /\ (DataInv => DataInv')
<1> DEFINE hop == NextHop(i.kid, i.at, succs[i.at])
           store == [i EXCEPT !.do = "store", !.via = {}, !.hops = 0]
           ask == [i EXCEPT !.at = hop, !.via = @ \cup {i.at}, !.hops = @ + 1]
<1>1. /\ Op \in Seq(Instructions) /\ i \in Instructions /\ i \in Searches /\ i.at \in Peers
      /\ i.kid \in Slots /\ i.kid \in Keys /\ i.floor \in Nat
      /\ i.do = "lookup" /\ Searching
  <2>1. i \in Instructions /\ i.do = "lookup" /\ Op \in Seq(Instructions)
    BY FirstIs DEF LookupStep
  <2>2. i \in Searches /\ i.at \in Peers
    BY <2>1, Carried
  <2> QED
    BY <2>1, <2>2, PhaseIs DEF Geometry, Searches
<1>2. /\ store.do = "store" /\ store.at = i.at /\ store.kid = i.kid /\ store.next = i.next
      /\ ask.do = "lookup" /\ ask.at = hop /\ ask.kid = i.kid /\ ask.next = i.next /\ ask.floor = i.floor
  <2> HIDE DEF hop
  <2>1. /\ i \in [do : {"find", "lookup", "joinAt", "store", "fetch"}, at : Peers, by : Peers, kid : Slots,
                  next : {"joinAt", "store", "fetch", "value"}, via : SUBSET Peers, hops : Nat, floor : Nat]
        /\ i.do = "lookup"
    BY <1>1 DEF Searches
  <2>2. store.do = "store" /\ store.at = i.at /\ store.kid = i.kid /\ store.next = i.next
    <3> HIDE DEF ask
    <3> QED
      BY <2>1
  <2>3. ask.do = "lookup" /\ ask.at = hop /\ ask.kid = i.kid /\ ask.next = i.next /\ ask.floor = i.floor
    <3> HIDE DEF store
    <3> QED
      BY <2>1
  <2> QED
    BY <2>2, <2>3
<1>3. /\ UNCHANGED <<pred, succs, data, replicas, member, acked, leaves, crashes, suspicions>>
      /\ \/ /\ Responsible(i.at, i.kid) /\ Then(t, IF i.next = "store" THEN <<store>> ELSE <<>>)
            /\ staleRead' = (staleRead \/ (i.next = "value" /\ data[i.at][i.kid] < i.floor))
            /\ up' = up
         \/ Raise(t, i) /\ staleRead' = staleRead
         \/ Then(t, <<ask>>) /\ up' = up /\ staleRead' = staleRead
  BY DEF LookupStep, bounds
<1>4. AtRest /\ Base /\ i.at \in Live /\ SuccsOn(Around)
  BY <1>1, AtRestIs DEF Searching, Geometry, Known, Reached
<1>5. hop \in Peers /\ Known(hop)
  <2> HIDE DEF store, ask, hop
  <2>0. \A p \in Peers : \E j \in DOMAIN succs[p] : NextHop(i.kid, i.at, succs[p]) = succs[p][j]
    BY NextHopEntry
  <2>1. PICK j \in DOMAIN succs[i.at] : hop = succs[i.at][j]
    BY <1>1, <2>0 DEF hop
  <2>2. succs[i.at] \in Seq(Peers)
    BY <1>1 DEF TypeOK
  <2> QED
    BY <1>4, <2>1, <2>2, AtRestIs
<1> HIDE DEF hop, store, ask
<1>6. \A j \in DOMAIN Op : Op[j].do \notin {"push", "snap", "replicate", "settle"}
  BY <1>1, TailIs
<1>7. CASE Raise(t, i)
  <2>1. i.do # "settle" /\ i.do \notin {"find", "joinAt"}
    BY <1>1
  <2>2. Op' = <<>> /\ SameRing /\ replicas' = replicas
    BY <1>1, <1>3, <1>7, <2>1, RaiseIs DEF SameRing, SamePointers
  <2>3. DataInv => ~staleRead'
    <3>1. ASSUME DataInv, Responsible(i.at, i.kid), i.next = "value" PROVE ~(data[i.at][i.kid] < i.floor)
      BY <1>1, <1>4, <3>1, ResponsibleOwner, FreshRead DEF Searching
    <3> QED
      BY <1>3, <3>1 DEF DataInv
  <2> QED
    BY <1>4, <1>6, <2>2, <2>3, EndKeeps
<1>8. CASE ~Raise(t, i)
  <2>1. SameRing /\ replicas' = replicas /\ up' = up /\ member' = member /\ acked' = acked
    BY <1>3, <1>8 DEF SameRing, SamePointers
  <2>2. DataInv => ~staleRead'
    <3>1. ASSUME DataInv, Responsible(i.at, i.kid), i.next = "value" PROVE ~(data[i.at][i.kid] < i.floor)
      BY <1>1, <1>4, <3>1, ResponsibleOwner, FreshRead DEF Searching
    <3> QED
      BY <1>3, <1>8, <3>1 DEF DataInv
  <2>3. AtRest' /\ (\A p \in Peers : Known(p) => Known(p)') /\ \A k : Own(k)' = Own(k)
    BY <1>4, <2>1, SameRingIs
  <2>4. i.next = "store" \/ (i.next = "value" /\ Len(Op) = 1 /\ i.floor <= acked[i.kid])
    BY <1>1 DEF Searching
  <2>5. CASE Responsible(i.at, i.kid) /\ Then(t, <<>>) /\ i.next # "store"
    <3>1. Op' = <<>>
      BY <1>1, <2>4, <2>5, OpIs, Spliced
    <3> QED
      BY <1>4, <1>6, <2>1, <2>2, <3>1, EndKeeps
  <2>6. ASSUME NEW c, Op' = <<c>> \o Tail(Op), c.at \in Peers, Known(c.at), c.kid = i.kid, c.next = i.next,
               \/ c.do = "store" /\ c.at = Own(c.kid) /\ i.next = "store"
               \/ c.do = "lookup" /\ c.floor = i.floor
        PROVE  Geometry' /\ (DataInv => DataInv')
    <3>1. /\ Len(Op') = Len(Op) /\ Op' # <<>> /\ Op'[1] = c /\ DOMAIN Op' = DOMAIN Op
          /\ \A j \in 2 .. Len(Op) : Op'[j] = Op[j]
      BY <1>1, <2>6, Spliced
    <3>2. i.next = "store" => Writes(2)
      BY <1>1 DEF Searching
    <3>3. i.next = "store" => Writes(2)'
      <4>1. 1 \in Nat /\ 1 >= 1 /\ 1 + 1 = 2
        OBVIOUS
      <4> QED
        BY <2>3, <2>6, <3>2, <4>1, WritesOn
    <3>4. Known(c.at)' /\ Own(c.kid)' = Own(c.kid)
      BY <2>3, <2>6
    <3>5. Searching'
      BY <2>1, <2>3, <2>4, <2>6, <3>1, <3>3, <3>4 DEF Searching
    <3>6. \A j \in DOMAIN Op' : Op'[j].do # "settle"
      <4>1. \A j \in DOMAIN Op' : j = 1 \/ j \in 2 .. Len(Op)
        BY <3>1, FirstIs
      <4> QED
        BY <1>6, <2>6, <3>1, <4>1
    <3>7. \A n : ~Pending(n)
      BY <1>6 DEF Pending
    <3>8. Phase'
      BY <3>5 DEF Phase
    <3> QED
      BY <2>1, <2>2, <3>6, <3>7, <3>8, StepKeeps
  <2>7. CASE Responsible(i.at, i.kid) /\ Then(t, <<store>>) /\ i.next = "store"
    <3>1. Op' = <<store>> \o Tail(Op)
      BY <2>7, OpIs
    <3>2. i.at = Own(i.kid)
      BY <1>1, <1>4, <2>7, ResponsibleOwner
    <3> QED
      BY <1>1, <1>2, <1>4, <2>6, <2>7, <3>1, <3>2 DEF Known
  <2>8. CASE Then(t, <<ask>>)
    <3>1. Op' = <<ask>> \o Tail(Op)
      BY <2>8, OpIs
    <3> QED
      BY <1>2, <1>5, <2>6, <3>1
  <2> QED
    BY <1>3, <1>8, <2>5, <2>7, <2>8
<1> QED
  BY <1>7, <1>8

LEMMA FetchKeeps ==
  ASSUME TypeOK, Serial, Geometry, NEW t \in Tasks, NEW i, Op # <<>>, i = Op[1], Reached(i),
         FetchStep(t, i)
  PROVE  Geometry' /\ (DataInv => DataInv')
<1>1. /\ Op \in Seq(Instructions) /\ i \in Instructions /\ i \in Searches /\ i.at \in Peers
      /\ i.kid \in Keys /\ i.floor \in Nat /\ i.do = "fetch" /\ Searching
  <2>1. i \in Instructions /\ i.do = "fetch" /\ Op \in Seq(Instructions)
    BY FirstIs DEF FetchStep
  <2>2. i \in Searches /\ i.at \in Peers /\ i.next = "fetch"
    BY <2>1, Carried DEF Searches
  <2> QED
    BY <2>1, <2>2, PhaseIs DEF Geometry, Searches
<1>2. AtRest /\ i.at \in Live /\ i.at = Own(i.kid) /\ Len(Op) = 1 /\ i.floor <= acked[i.kid]
  BY <1>1 DEF Searching, Known, Reached
<1>3. Op' = <<>>
  BY <1>1, <1>2, OpIs, Spliced DEF FetchStep
<1>4. SameRing /\ replicas' = replicas
  BY DEF FetchStep, SameRing, SamePointers, peerVars, bounds
<1>5. DataInv => ~staleRead'
  BY <1>1, <1>2, FreshRead DEF FetchStep, DataInv
<1> QED
  BY <1>1, <1>2, <1>3, <1>4, <1>5, TailIs, EndKeeps

-----------------------------------------------------------------------------
(* Copies on their way                                                      *)

\* The peer that settles has the place between two live ones.
LEMMA SettlingIs ==
  ASSUME TypeOK, Base, NEW j, Settling(j)
  PROVE  /\ j.by \in Around /\ j.by \notin Live /\ j.by \in Peers /\ j.at \in Live
         /\ j.old \in Live /\ PredIn(j.by, Around) = j.old /\ Around \ {j.by} = Live
         /\ \A n \in Live : SuccsOn(Around) => (Succ(n) = j.by <=> n = j.old)
<1>1. /\ j.by \in Around /\ j.by \notin Live /\ j.at \in Live /\ Around = Live \cup {j.by}
      /\ j.old = PredIn(j.by, Around)
  BY RingTyped DEF Settling, Live
<1>2. Around \in SUBSET Slots /\ Around \subseteq Peers
  BY RingTyped
<1>3. j.old \in Around /\ j.old # j.by
  BY <1>1, <1>2, PredSelf
<1>4. ASSUME NEW n \in Live, SuccsOn(Around) PROVE Succ(n) = j.by <=> n = j.old
  <2>1. Succ(n) \in Around /\ PredIn(Succ(n), Around) = n
    BY <1>4 DEF SuccsOn
  <2> QED
    BY <1>1, <1>2, <2>1, PredInjective
<1> QED
  BY <1>1, <1>2, <1>3, <1>4

LEMMA CopyIs ==
  ASSUME TypeOK, Serial, Geometry, Op # <<>>, Op[1].do \in {"push", "snap", "replicate"}
  PROVE  /\ JoinCopy \/ JoinPush \/ StoreCopy \/ RepairCopy \/ RepairPush
         /\ Base /\ SuccsOn(Around) /\ Copying(Op[1], Op[1].by) /\ Known(Op[1].by)
         /\ ~StoreCopy => Reached(Op[1]) /\ Op[1].by \in Live
<1>1. Base /\ (JoinCopy \/ JoinPush \/ StoreCopy \/ RepairCopy \/ RepairPush)
  BY PhaseIs DEF Geometry
<1>2. Copying(Op[1], Op[1].by)
  BY <1>1 DEF JoinCopy, JoinPush, StoreCopy, RepairCopy, RepairPush, Copying
<1>3. ASSUME StoreCopy PROVE SuccsOn(Around) /\ Known(Op[1].by)
  <2>1. Op[1].by = Op[2].at /\ Known(Op[2].at)
    BY <1>3 DEF StoreCopy, AckOf, Copying
  <2> QED
    BY <1>1, <1>3, <2>1, AtRestIs DEF StoreCopy
<1>4. ASSUME JoinCopy PROVE SuccsOn(Around) /\ Op[1].by \in Live /\ Reached(Op[1])
  <2>1. PICK j : j = Op[2]
    OBVIOUS
  <2>2. Settling(j) /\ SuccsOn(Around) /\ Op[1].by = j.old
    BY <1>4, <2>1 DEF JoinCopy, Copying
  <2>3. j.old \in Live /\ Succ(j.old) = j.by /\ up[j.by]
    BY <1>1, <2>2, SettlingIs DEF Settling
  <2> QED
    BY <1>2, <2>2, <2>3 DEF Reached, Copying, Live
<1>5. ASSUME JoinPush \/ RepairCopy \/ RepairPush
      PROVE  SuccsOn(Around) /\ Op[1].by \in Live /\ Reached(Op[1])
  <2>1. Sound
    BY <1>5 DEF JoinPush, RepairCopy, RepairPush
  <2>2. \A n \in Live : Succ(n) \in Live
    BY <2>1 DEF Sound, SuccsOn
  <2>3. Op[1].by \in Live
    BY <1>5, <2>2 DEF JoinPush, RepairCopy, RepairPush, Copying
  <2> QED
    BY <1>2, <2>1, <2>2, <2>3 DEF Reached, Copying, Sound, Live
<1> QED
  BY <1>1, <1>2, <1>3, <1>4, <1>5 DEF Known, Live

LEMMA PartsKept ==
  ASSUME TypeOK, SameRing, up' = up
  PROVE  /\ \A j : Settling(j) => Settling(j)'
         /\ \A a : AckOf(a) => AckOf(a)'
<1>1. Live' = Live /\ Around' = Around /\ \A k : Own(k)' = Own(k)
  BY SameRingIs
<1>2. UNCHANGED <<pred, data, member>>
  BY DEF SameRing, SamePointers
<1>3. \A j : Settling(j) => Settling(j)'
  BY <1>1, <1>2 DEF Settling
<1>4. \A a : AckOf(a) => AckOf(a)'
  BY <1>1, <1>2 DEF AckOf, Known
<1> QED
  BY <1>3, <1>4

LEMMA CopyGoesOn ==
  ASSUME TypeOK, Serial, Geometry, Op # <<>>, Op[1].do \in {"push", "snap", "replicate"},
         SameRing, up' = up, replicas' = replicas, staleRead' = staleRead,
         NEW c, Op' = <<c>> \o Tail(Op), c.do \in {"push", "snap", "replicate"}, c.by = Op[1].by,
         Copying(c, c.by)
  PROVE  Geometry' /\ (DataInv => DataInv')
<1>1. JoinCopy \/ JoinPush \/ StoreCopy \/ RepairCopy \/ RepairPush
  BY CopyIs
<1>2. /\ Len(Op') = Len(Op) /\ Op' # <<>> /\ Op'[1] = c /\ DOMAIN Op' = DOMAIN Op
      /\ \A j \in 2 .. Len(Op) : Op'[j] = Op[j]
  BY FirstIs, Spliced
<1>3. Len(Op) \in Nat /\ (Len(Op) >= 2 => Op'[2] = Op[2]) /\ (Len(Op) >= 3 => Op'[3] = Op[3])
  BY <1>2, FirstIs
<1>4. Copying(c, c.by)' /\ Live' = Live /\ (Sound => Sound') /\ (AtRest => AtRest')
      /\ (SuccsOn(Around) => (SuccsOn(Around))')
  BY SameRingIs
<1>5. ASSUME JoinCopy PROVE Phase'
  <2>1. PICK j : j = Op[2]
    OBVIOUS
  <2>2. Settling(j) /\ SuccsOn(Around) /\ c.by = j.old /\ Len(Op) = 2
    BY <1>5, <2>1 DEF JoinCopy, Copying
  <2>3. Settling(j)' /\ Op'[2] = j
    BY <1>3, <2>1, <2>2, PartsKept
  <2>4. Copying(c, j.old)'
    BY <1>4, <2>2
  <2>5. JoinCopy'
    BY <1>2, <1>4, <2>2, <2>3, <2>4 DEF JoinCopy
  <2> QED
    BY <2>5 DEF Phase
<1>6. ASSUME JoinPush PROVE Phase'
  <2>1. JoinPush'
    BY <1>2, <1>4, <1>6 DEF JoinPush
  <2> QED
    BY <2>1 DEF Phase
<1>7. ASSUME StoreCopy PROVE Phase'
  <2>1. PICK a : a = Op[2]
    OBVIOUS
  <2>2. AckOf(a) /\ c.by = a.at /\ Len(Op) >= 2 /\ Writes(3) /\ AtRest
    BY <1>7, <2>1 DEF StoreCopy, Copying
  <2>3. AckOf(a)' /\ Op'[2] = a
    BY <1>3, <2>1, <2>2, PartsKept
  <2>4. Writes(3)'
    <3>1. 2 \in Nat /\ 2 >= 1 /\ 2 + 1 = 3
      OBVIOUS
    <3>2. \A p \in Peers : Known(p) => Known(p)'
      BY SameRingIs
    <3> QED
      BY <2>2, <3>1, <3>2, WritesOn
  <2>5. Copying(c, a.at)'
    BY <1>4, <2>2
  <2>6. StoreCopy'
    BY <1>2, <1>4, <2>2, <2>3, <2>4, <2>5 DEF StoreCopy
  <2> QED
    BY <2>6 DEF Phase
<1>8. ASSUME RepairCopy PROVE Phase'
  <2>1. PICK p \in Live : /\ Op[2] = Push(p) /\ Op[3] = Call("beat", p, p)
                          /\ Succ(p) # p /\ Copying(Op[1], Succ(p))
    BY <1>8 DEF RepairCopy
  <2>2. c.by = Succ(p) /\ Succ(p)' = Succ(p)
    BY <2>1 DEF Copying, Succ, SameRing, SamePointers
  <2>3. (Copying(c, Succ(p)))'
    BY <1>4, <2>2 DEF Copying
  <2>4. Op'[2] = Push(p) /\ Op'[3] = Call("beat", p, p) /\ Len(Op) = 3 /\ Sound
    <3>1. Len(Op) = 3 /\ Sound
      BY <1>8 DEF RepairCopy
    <3>2. Len(Op) >= 2 /\ Len(Op) >= 3
      BY <3>1
    <3>3. Op'[2] = Op[2] /\ Op'[3] = Op[3]
      BY <1>3, <3>2
    <3> QED
      BY <2>1, <3>1, <3>3, Zenon
  <2>5. RepairCopy'
    BY <1>2, <1>4, <2>1, <2>2, <2>3, <2>4 DEF RepairCopy
  <2> QED
    BY <2>5 DEF Phase
<1>9. ASSUME RepairPush PROVE Phase'
  <2>1. PICK p \in Live : Op[2] = Call("beat", p, p) /\ Copying(Op[1], p)
    BY <1>9 DEF RepairPush
  <2>2. c.by = p
    BY <2>1 DEF Copying
  <2>3. Op'[2] = Call("beat", p, p) /\ Len(Op) = 2 /\ Sound
    BY <1>3, <1>9, <2>1 DEF RepairPush
  <2>4. RepairPush'
    BY <1>2, <1>4, <2>1, <2>2, <2>3 DEF RepairPush
  <2> QED
    BY <2>4 DEF Phase
<1>10. Phase'
  BY <1>1, <1>5, <1>6, <1>7, <1>8, <1>9
<1>11. \A j \in DOMAIN Op' : Op'[j].do = "settle" => \E l \in DOMAIN Op : Op'[j] = Op[l]
  <2>1. \A j \in DOMAIN Op' : j = 1 \/ j \in 2 .. Len(Op)
    BY <1>2, FirstIs
  <2> QED
    BY <1>2, <2>1
<1>12. \A n : Pending(n) => Pending(n)'
  <2> SUFFICES ASSUME NEW n, Pending(n) PROVE Pending(n)'
    OBVIOUS
  <2>1. PICK j \in DOMAIN Op : Op[j].do \in {"push", "snap", "replicate"} /\ Op[j].by = n
    BY DEF Pending
  <2>2. CASE j = 1
    <3>1. 1 \in DOMAIN Op' /\ Op'[1].do \in {"push", "snap", "replicate"} /\ Op'[1].by = n
      BY <1>2, <2>1, <2>2
    <3> QED
      BY <3>1 DEF Pending
  <2>3. CASE j # 1
    <3>1. j \in 2 .. Len(Op)
      BY <2>1, <2>3, FirstIs
    <3>2. j \in DOMAIN Op' /\ Op'[j] = Op[j]
      BY <1>2, <2>1, <3>1
    <3> QED
      BY <2>1, <3>2 DEF Pending
  <2> QED
    BY <2>2, <2>3
<1> QED
  BY <1>10, <1>11, <1>12, StepKeeps DEF DataInv

\* The copy is made, or cannot be made: the operation goes on behind it.
LEMMA CopyEnds ==
  ASSUME TypeOK, Serial, Geometry, Op # <<>>, Op[1].do \in {"push", "snap", "replicate"}, ~JoinCopy,
         SameRing, up' = up, Op' = <<>> \o Tail(Op)
  PROVE  Phase'
<1>1. JoinPush \/ StoreCopy \/ RepairCopy \/ RepairPush
  BY CopyIs
<1>2. /\ Len(Op') = Len(Op) - 1 /\ (Op' = <<>> <=> Len(Op) = 1)
      /\ \A j \in 1 .. (Len(Op) - 1) : Op'[j] = Op[j + 1]
  BY FirstIs, Spliced
<1>3. /\ Len(Op) \in Nat /\ (Len(Op) >= 2 => Op'[1] = Op[2])
      /\ Len(Op) = 3 => Op'[1] = Op[2] /\ Op'[2] = Op[3]
  <2>1. Len(Op) \in Nat
    BY FirstIs
  <2>2. Len(Op) >= 2 => 1 \in 1 .. (Len(Op) - 1)
    BY <2>1
  <2>3. Len(Op) = 3 => 1 \in 1 .. (Len(Op) - 1) /\ 2 \in 1 .. (Len(Op) - 1)
    BY <2>1
  <2> QED
    BY <1>2, <2>1, <2>2, <2>3
<1>4. Live' = Live /\ (Sound => Sound') /\ (AtRest => AtRest') /\ \A i, n : Copying(i, n) => Copying(i, n)'
  BY SameRingIs
<1>5. ASSUME JoinPush PROVE Phase'
  <2>1. Idle'
    BY <1>2, <1>4, <1>5 DEF JoinPush, Idle, AtRest
  <2> QED
    BY <2>1 DEF Phase
<1>6. ASSUME StoreCopy PROVE Phase'
  <2>1. PICK a : a = Op[2]
    OBVIOUS
  <2>2. AckOf(a) /\ Len(Op) >= 2 /\ Writes(3) /\ AtRest
    BY <1>6, <2>1 DEF StoreCopy
  <2>3. AckOf(a)' /\ Op'[1] = a /\ Op' # <<>>
    BY <1>2, <1>3, <2>1, <2>2, PartsKept
  <2>4. Writes(2)'
    <3>1. 2 \in Nat /\ 2 >= 1 /\ 2 + 1 = 3
      OBVIOUS
    <3>2. \A p \in Peers : Known(p) => Known(p)'
      BY SameRingIs
    <3> QED
      BY <2>2, <3>1, <3>2, WritesOn
  <2>5. StoreAck'
    BY <1>4, <2>2, <2>3, <2>4 DEF StoreAck
  <2> QED
    BY <2>5 DEF Phase
<1>7. ASSUME RepairCopy PROVE Phase'
  <2>1. PICK p \in Live : Op[2] = Push(p) /\ Op[3] = Call("beat", p, p)
    BY <1>7 DEF RepairCopy
  <2>2. Push(p).do = "push" /\ Push(p).by = p /\ Push(p).at = p
    BY DEF Push, Call
  <2>3. Op'[1] = Push(p) /\ Op'[2] = Call("beat", p, p) /\ Len(Op') = 2 /\ Sound'
    <3>1. Len(Op) = 3 /\ Sound
      BY <1>7 DEF RepairCopy
    <3>2. Op'[1] = Op[2] /\ Op'[2] = Op[3]
      BY <1>3, <3>1
    <3>3. Len(Op') = Len(Op) - 1
      BY <1>2
    <3>4. Len(Op') = 2
      BY <3>1, <3>3
    <3> QED
      BY <1>4, <2>1, <3>1, <3>2, <3>4
  <2>4. Copying(Push(p), p)'
    BY <1>4, <2>2 DEF Copying
  <2>5. RepairPush'
    BY <1>4, <2>1, <2>3, <2>4 DEF RepairPush
  <2> QED
    BY <2>5 DEF Phase
<1>8. ASSUME RepairPush PROVE Phase'
  <2>1. PICK p \in Live : Op[2] = Call("beat", p, p)
    BY <1>8 DEF RepairPush
  <2>2. Op'[1] = Call("beat", p, p) /\ Len(Op') = 1 /\ AtRest'
    BY <1>2, <1>3, <1>4, <1>8, <2>1 DEF RepairPush, AtRest
  <2>3. Call("beat", p, p).do = "beat" /\ Call("beat", p, p).at = p /\ Call("beat", p, p).by = p
    BY DEF Call
  <2>4. Beat'
    BY <1>4, <2>1, <2>2, <2>3 DEF Beat
  <2> QED
    BY <2>4 DEF Phase
<1> QED
  BY <1>1, <1>5, <1>6, <1>7, <1>8

\* Behind an instruction that is done the others wait on.
LEMMA DoneIs ==
  ASSUME TypeOK, Serial, Op # <<>>, Op' = <<>> \o Tail(Op)
  PROVE  /\ \A j \in DOMAIN Op' : \E l \in DOMAIN Op : Op'[j] = Op[l]
         /\ \A n : Pending(n) /\ Op[1].by # n => Pending(n)'
<1> DEFINE n == Len(Op)
<1>1. DOMAIN Op' = 1 .. (n - 1) /\ \A j \in 1 .. (n - 1) : Op'[j] = Op[j + 1]
  BY FirstIs, Spliced
<1>2. n \in Nat \ {0} /\ DOMAIN Op = 1 .. n
  BY FirstIs
<1> HIDE DEF n
<1>3. ASSUME NEW m, Pending(m), Op[1].by # m PROVE Pending(m)'
  <2>1. PICK j \in DOMAIN Op : Op[j].do \in {"push", "snap", "replicate"} /\ Op[j].by = m
    BY <1>3 DEF Pending
  <2>2. j # 1
    BY <1>3, <2>1
  <2>3. PICK l \in 1 .. (n - 1) : j = l + 1
    BY <1>2, <2>2
  <2>4. l \in DOMAIN Op' /\ Op'[l] = Op[j]
    BY <1>1, <2>3
  <2> QED
    BY <2>1, <2>4 DEF Pending
<1>4. \A j \in DOMAIN Op' : j + 1 \in DOMAIN Op
  BY <1>1, <1>2
<1> QED
  BY <1>1, <1>3, <1>4

LEMMA PushKeeps ==
  ASSUME TypeOK, Serial, Geometry, NEW t \in Tasks, NEW i, Op # <<>>, i = Op[1], Reached(i),
         PushStep(t, i) \/ SnapStep(t, i)
  PROVE  Geometry' /\ (DataInv => DataInv')
<1>1. /\ i.do \in {"push", "snap"} /\ SameRing /\ replicas' = replicas /\ up' = up /\ staleRead' = staleRead
  BY DEF PushStep, SnapStep, peerVars, hist, bounds, SameRing, SamePointers
<1>2. Base /\ SuccsOn(Around) /\ Copying(i, i.by) /\ i.by \in Live /\ i.at = i.by
  BY <1>1, CopyIs DEF Known, Reached, Copying
<1>3. CASE i.do = "push" /\ Succ(i.at) = i.at
  <2>1. Op' = <<>> \o Tail(Op)
    BY <1>3, OpIs DEF PushStep, SnapStep
  <2>2. Around = {i.at} /\ Live = {i.at}
    BY <1>2, <1>3, NextIs, RingTyped
  <2>3. ~JoinCopy
    <3>1. PICK j : j = Op[2]
      OBVIOUS
    <3> QED
      BY <1>2, <2>2, <3>1, SettlingIs DEF JoinCopy
  <2>4. Phase'
    BY <1>1, <2>1, <2>3, CopyEnds
  <2> QED
    BY <1>1, <2>1, <2>2, <2>4, DoneIs, StepKeeps DEF DataInv
<1>4. CASE i.do = "push" /\ Succ(i.at) # i.at
  <2> DEFINE c == [do |-> "snap", at |-> i.at, by |-> i.at, to |-> Succ(i.at)]
  <2>1. Op' = <<c>> \o Tail(Op)
    BY <1>4, OpIs DEF PushStep, SnapStep
  <2>2. c.do = "snap" /\ c.by = i.by /\ Copying(c, c.by)
    BY <1>2, <1>4 DEF Copying
  <2> HIDE DEF c
  <2> QED
    BY <1>1, <2>1, <2>2, CopyGoesOn
<1>5. CASE i.do = "snap"
  <2> DEFINE c == [do |-> "replicate", at |-> i.to, by |-> i.at, given |-> data[i.at]]
  <2>1. Op' = <<c>> \o Tail(Op)
    BY <1>5, OpIs DEF PushStep, SnapStep
  <2>2. c.do = "replicate" /\ c.by = i.by /\ Copying(c, c.by)
    BY <1>2, <1>5 DEF Copying
  <2> HIDE DEF c
  <2> QED
    BY <1>1, <2>1, <2>2, CopyGoesOn
<1> QED
  BY <1>1, <1>3, <1>4, <1>5

LEMMA ReplicateKeeps ==
  ASSUME TypeOK, Serial, Geometry, NEW t \in Tasks, NEW i, Op # <<>>, i = Op[1], Reached(i),
         ReplicateStep(t, i)
  PROVE  Geometry' /\ (DataInv => DataInv')
<1>1. PICK n : n = i.by
  OBVIOUS
<1>2. PICK s : s = i.at
  OBVIOUS
<1>3. /\ i.do = "replicate" /\ SameRing /\ up' = up /\ staleRead' = staleRead
      /\ replicas' = [replicas EXCEPT ![s] = i.given] /\ Op' = <<>> \o Tail(Op)
  BY <1>2, OpIs DEF ReplicateStep, hist, bounds, SameRing, SamePointers
<1>4. Base /\ SuccsOn(Around) /\ n \in Live /\ s \in Live \cup (Around \ Live)
      /\ s = Succ(n) /\ i.given = data[n] /\ s # n
  <2>1. Base /\ SuccsOn(Around) /\ Copying(i, n) /\ Known(n) /\ up[n]
    BY <1>1, <1>3, CopyIs DEF Reached
  <2>2. n \in Live /\ s = Succ(n) /\ i.given = data[n] /\ s # n
    BY <1>2, <1>3, <2>1 DEF Copying, Known
  <2> QED
    BY <2>1, <2>2, NextIs
<1>5. s \in Peers /\ n \in Peers
  BY <1>1, <1>2, FirstIs
<1>6. replicas'[s] = data[n] /\ \A q \in Peers : q # s => replicas'[q] = replicas[q]
  BY <1>3, <1>4, <1>5 DEF TypeOK
<1>7. \A q \in Live : q \in Peers /\ (s = q <=> pred[q] = n)
  BY <1>4, NextIs, RingTyped
<1>8. Phase'
  <2>1. CASE ~JoinCopy
    BY <1>3, <2>1, CopyEnds
  <2>2. CASE JoinCopy
    <3>1. PICK j : j = Op[2]
      OBVIOUS
    <3>2. Len(Op) = 2 /\ Settling(j) /\ SuccsOn(Around) /\ Copying(Op[1], j.old)
      BY <2>2, <3>1 DEF JoinCopy
    <3>3. n = j.old /\ s = j.by
      BY <1>1, <1>4, <3>2, SettlingIs DEF Copying
    <3>4. Len(Op') = 1 /\ Op'[1] = j
      <4>1. Len(Op') = Len(Op) - 1 /\ \A l \in 1 .. (Len(Op) - 1) : Op'[l] = Op[l + 1]
        BY <1>3, FirstIs, Spliced
      <4>2. 1 \in 1 .. (Len(Op) - 1) /\ Len(Op) - 1 = 1 /\ 1 + 1 = 2
        BY <3>2
      <4>3. Op'[1] = Op[1 + 1]
        BY <4>1, <4>2
      <4>4. Len(Op') = 1
        BY <4>1, <4>2
      <4> QED
        BY <3>1, <4>2, <4>3, <4>4
    <3>5. Settling(j)' /\ (SuccsOn(Around))'
      BY <1>3, <1>4, <3>2, PartsKept, SameRingIs
    <3>6. replicas'[j.by] = data'[j.old]
      BY <1>3, <1>6, <3>3 DEF SameRing
    <3>7. JoinSettle'
      BY <3>4, <3>5, <3>6 DEF JoinSettle
    <3> QED
      BY <3>7 DEF Phase
  <2> QED
    BY <2>1, <2>2
<1>9. Live' = Live /\ Around' = Around /\ Base' /\ (\A k : Own(k)' = Own(k))
      /\ UNCHANGED <<pred, data, acked, crashes>>
  BY <1>3, <1>4, SameRingIs DEF SameRing, SamePointers
<1>10. Pristine' => Pristine
  <2>1. \A x \in Peers : Gap(x)' => Gap(x)
    BY <1>3, <1>4, SameRingIs
  <2> QED
    BY <1>3, <1>4, <1>9, <2>1, PristineKept
<1>11. ASSUME DataInv PROVE DataInv'
  <2>1. NewestKept'
    <3>1. NewestKept
      BY <1>11 DEF DataInv
    <3> QED
      BY <1>9, <3>1 DEF NewestKept
  <2>2. Copied'
    <3>1. ASSUME NEW q \in Live, NEW k \in Keys, NEW m, m = pred[q],
                 m \in Live, m # q, Own(k) = m, ~Pending(m)'
          PROVE  replicas'[q][k] = data[m][k]
      <4>1. CASE m = n
        BY <1>6, <1>7, <3>1, <4>1
      <4>2. CASE m # n
        <5>1. ~Pending(m)
          BY <1>1, <1>3, <3>1, <4>2, DoneIs
        <5>2. replicas[q][k] = data[m][k]
          BY <1>11, <3>1, <5>1 DEF DataInv, Copied
        <5> QED
          BY <1>6, <1>7, <3>1, <4>2, <5>2
      <4> QED
        BY <4>1, <4>2
    <3>2. ASSUME NEW q \in Live, ~(Pending(pred[q]))' PROVE \E m : m = pred[q] /\ ~Pending(m)'
      <4>1. PICK m : m = pred[q]
        OBVIOUS
      <4>2. ~Pending(m)'
        BY <1>9, <3>2, <4>1 DEF Pending
      <4> QED
        BY <4>1, <4>2
    <3> QED
      BY <1>9, <3>1, <3>2 DEF Copied
  <2>3. Given'
    <3>1. \A j \in DOMAIN Op' : \E l \in DOMAIN Op : Op'[j] = Op[l]
      BY <1>3, DoneIs
    <3>2. Given
      BY <1>11 DEF DataInv
    <3> QED
      BY <1>9, <1>10, <3>1, <3>2, GivenKept
  <2>4. ASSUME Pristine' PROVE Covered' /\ OwnOnly' /\ OthersOnly'
    <3>1. Covered /\ OwnOnly /\ OthersOnly /\ NewestKept
      BY <1>10, <1>11, <2>4 DEF DataInv
    <3>2. ASSUME NEW q \in Live, NEW k \in Keys, pred[q] # q, Own(k) = pred[q]
          PROVE  replicas'[q][k] >= acked[k]
      <4>1. CASE q = s
        <5>1. Own(k) = n /\ data[n][k] >= acked[k]
          BY <1>4, <1>7, <3>1, <3>2, <4>1 DEF NewestKept
        <5> QED
          BY <1>6, <4>1, <5>1
      <4>2. CASE q # s
        BY <1>6, <1>7, <3>1, <3>2, <4>2 DEF Covered
      <4> QED
        BY <4>1, <4>2
    <3>3. Covered'
      BY <1>9, <3>2 DEF Covered
    <3>4. OwnOnly'
      BY <1>9, <3>1 DEF OwnOnly
    <3>5. ASSUME NEW q \in Live, NEW k \in Keys, replicas'[q][k] # 0 PROVE Own(k) # q
      <4>1. CASE q = s
        BY <1>4, <1>6, <3>1, <3>5, <4>1 DEF OwnOnly
      <4>2. CASE q # s
        BY <1>6, <1>7, <3>1, <3>5, <4>2 DEF OthersOnly
      <4> QED
        BY <4>1, <4>2
    <3>6. OthersOnly'
      BY <1>9, <3>5 DEF OthersOnly
    <3> QED
      BY <3>3, <3>4, <3>6
  <2>5. ~staleRead'
    BY <1>3, <1>11 DEF DataInv
  <2> QED
    BY <2>1, <2>2, <2>3, <2>4, <2>5 DEF DataInv
<1> QED
  BY <1>8, <1>9, <1>11 DEF Geometry

\* Who is called is dead, or who called: a search, a copy, an acknowledgement.
LEMMA FailKeeps ==
  ASSUME TypeOK, Serial, Geometry, NEW t \in Tasks, NEW i, Op # <<>>, i = Op[1], Fail(t, i)
  PROVE  Geometry' /\ (DataInv => DataInv')
<1>1. /\ ~Reached(i) /\ UNCHANGED <<pred, succs, data, replicas, member, acked, staleRead, leaves, crashes, suspicions>>
      /\ i.do \in Tried => todo' = [todo EXCEPT ![t] = Tail(@)] /\ up' = up
      /\ i.do \notin Tried => Raise(t, i)
  BY DEF Fail, hist, bounds
<1>2. Base /\ Op \in Seq(Instructions)
  BY FirstIs DEF Geometry
<1>3. ~JoinSearch /\ ~JoinLink /\ ~JoinSettle /\ ~Beat /\ ~Repair /\ ~RepairLink /\ ~Idle
  <2>1. ~JoinSearch /\ ~Idle
    BY <1>1 DEF JoinSearch, Idle, Reached, Live
  <2>2. ~JoinLink
    <3>1. PICK j : j = Op[2]
      OBVIOUS
    <3> QED
      BY <1>1, <1>2, <3>1, SettlingIs DEF JoinLink, Reached, Live
  <2>3. ~JoinSettle
    BY <1>1 DEF JoinSettle, Settling, Reached, Live
  <2>4. ~Beat /\ ~Repair
    BY <1>1 DEF Beat, Repair, Reached, Live
  <2>5. ~RepairLink
    BY <1>1 DEF RepairLink, SuccsOn, Reached, Live
  <2> QED
    BY <2>1, <2>2, <2>3, <2>4, <2>5
<1>4. CASE Searching \/ StoreAck
  <2>1. /\ i.do \notin Tried /\ AtRest /\ i.do # "settle" /\ ~(i.do \in {"find", "joinAt"} /\ i.next = "joinAt")
    BY <1>4 DEF Searching, StoreAck, AckOf, Tried
  <2>2. Op' = <<>> /\ SameRing
    BY <1>1, <2>1, RaiseIs DEF SameRing, SamePointers
  <2> QED
    BY <1>1, <1>4, <2>1, <2>2, TailIs, EndKeeps DEF DataInv
<1>5. CASE StoreCopy
  <2>1. i.do \in {"push", "snap", "replicate"}
    BY <1>5 DEF StoreCopy, Copying
  <2>2. SameRing /\ up' = up /\ todo' = [todo EXCEPT ![t] = Tail(@)]
    BY <1>1, <2>1 DEF SameRing, SamePointers, Tried
  <2>3. Op' = <<>> \o Tail(Op)
    <3>1. Op' = Tail(Op)
      BY <2>2, OpIs DEF TypeOK
    <3>2. Tail(Op) \in Seq(Instructions)
      BY <1>2
    <3> QED
      BY <3>1, <3>2
  <2>4. ~JoinCopy
    BY <1>5 DEF StoreCopy, JoinCopy, AckOf, Settling
  <2>5. Phase'
    BY <2>1, <2>2, <2>3, <2>4, CopyEnds
  <2>6. Copying(i, i.by) /\ SuccsOn(Around)
    BY <2>1, CopyIs
  <2>7. \A n \in Live : Pending(n) /\ (\E q \in Live : q # n /\ pred[q] = n) => Pending(n)'
    <3> SUFFICES ASSUME NEW n \in Live, Pending(n), NEW q \in Live, q # n, pred[q] = n
                 PROVE  Pending(n)'
      OBVIOUS
    <3>1. Succ(n) = q
      BY <1>2, <2>6, NextIs
    <3>2. i.by # n
      BY <1>1, <2>6, <3>1 DEF Copying, Reached, Live
    <3> QED
      BY <2>3, <3>2, DoneIs
  <2> QED
    BY <1>1, <2>2, <2>3, <2>5, <2>7, DoneIs, StepKeeps DEF DataInv
<1>6. ASSUME JoinCopy \/ JoinPush \/ RepairCopy \/ RepairPush, ~StoreCopy PROVE FALSE
  <2>1. i.do \in {"push", "snap", "replicate"}
    BY <1>6 DEF JoinCopy, JoinPush, RepairCopy, RepairPush, Copying
  <2> QED
    BY <1>1, <1>6, <2>1, CopyIs
<1>7. Phase
  BY DEF Geometry
<1> QED
  BY <1>3, <1>4, <1>5, <1>6, <1>7 DEF Phase

-----------------------------------------------------------------------------
(* A heartbeat                                                              *)

\* One instruction gives way to another, or to none.
LEMMA OneIs ==
  ASSUME TypeOK, Serial, Len(Op) = 1
  PROVE  /\ Op # <<>> /\ DOMAIN Op = {1}
         /\ Op' = <<>> \o Tail(Op) => Op' = <<>>
         /\ \A c : Op' = <<c>> \o Tail(Op) => Op' # <<>> /\ Len(Op') = 1 /\ Op'[1] = c /\ DOMAIN Op' = {1}
<1>1. Op # <<>> /\ 1 .. 1 = {1}
  OBVIOUS
<1>2. DOMAIN Op = {1} /\ Op \in Seq(Instructions)
  BY <1>1, FirstIs
<1>3. Op' = <<>> \o Tail(Op) => Op' = <<>>
  BY <1>1, <1>2, Spliced
<1>4. ASSUME NEW c, Op' = <<c>> \o Tail(Op)
      PROVE  Op' # <<>> /\ Len(Op') = 1 /\ Op'[1] = c /\ DOMAIN Op' = {1}
  <2>0. \A ops \in Seq(Instructions) : ops # <<>> =>
          /\ <<c>> \o Tail(ops) # <<>> /\ Len(<<c>> \o Tail(ops)) = Len(ops)
          /\ DOMAIN (<<c>> \o Tail(ops)) = 1 .. Len(ops) /\ (<<c>> \o Tail(ops))[1] = c
    BY Spliced
  <2>1. Op' # <<>> /\ Len(Op') = Len(Op) /\ DOMAIN Op' = 1 .. Len(Op) /\ Op'[1] = c
    BY <1>1, <1>2, <1>4, <2>0, Zenon
  <2>2. Len(Op') = 1
    BY <2>1
  <2>3. DOMAIN Op' = 1 .. 1
    BY <2>1, Zenon
  <2> QED
    BY <1>1, <2>1, <2>2, <2>3, Zenon
<1> QED
  BY <1>1, <1>2, <1>3, <1>4

LEMMA PingKeeps ==
  ASSUME TypeOK, Serial, Geometry, NEW t \in Tasks, NEW i, Op # <<>>, i = Op[1], Reached(i), Ping(t, i)
  PROVE  Geometry' /\ (DataInv => DataInv')
<1> DEFINE s == Succ(i.at)
           refresh == [do |-> "refresh", at |-> i.at, by |-> i.at, list |-> <<s>> \o succs[s]]
           repair == Call("repair", i.at, i.at)
<1>1. i.do = "beat" /\ Beat /\ Base /\ AtRest /\ Len(Op) = 1 /\ i.at \in Live
  BY PhaseIs DEF Ping, Geometry, Beat
<1>2. s \in Around /\ Known(s) /\ SuccsOn(Around)
  BY <1>1, AtRestIs
<1>3. UNCHANGED <<up, pred, succs, data, replicas, member, acked, staleRead, leaves, crashes>>
  BY DEF Ping, peerVars, hist
<1>4. /\ suspicions' = suspicions
      /\ \/ Then(t, <<>>)
         \/ s # i.at /\ up[s] /\ Then(t, <<refresh>>)
         \/ s # i.at /\ ~up[s] /\ Then(t, <<repair>>)
  <2>1. ~(suspicions < MaxSuspicions)
    BY <1>1 DEF Base, Serial
  <2> QED
    BY <2>1 DEF Ping, Heard
<1>5. refresh.do = "refresh" /\ refresh.at = i.at /\ refresh.by = i.at /\ refresh.list = <<s>> \o succs[s]
  OBVIOUS
<1>6. repair.do = "repair" /\ repair.at = i.at /\ repair.by = i.at
  BY DEF Call
<1> HIDE DEF refresh, repair
<1>7. SameRing /\ replicas' = replicas
  BY <1>3, <1>4 DEF SameRing, SamePointers
<1>8. Live' = Live /\ Succ(i.at)' = s /\ succs' = succs /\ AtRest' /\ (Torn => Torn')
  BY <1>1, <1>7, SameRingIs DEF SameRing, SamePointers, Succ
<1>9. \A j \in DOMAIN Op : Op[j].do \notin {"push", "snap", "replicate"}
  BY <1>1, OneIs
<1>10. \A n : ~Pending(n)
  BY <1>9 DEF Pending
<1> HIDE DEF s
<1>11. CASE Then(t, <<>>)
  <2>1. Op' = <<>>
    BY <1>1, <1>11, OpIs, OneIs
  <2> QED
    BY <1>1, <1>3, <1>7, <1>9, <2>1, EndKeeps DEF DataInv
<1>12. ASSUME NEW c, Then(t, <<c>>), c.do # "settle", (Beat \/ Repair)' PROVE Geometry' /\ (DataInv => DataInv')
  <2>1. Op'[1] = c /\ DOMAIN Op' = {1}
    BY <1>1, <1>12, OpIs, OneIs
  <2>2. Phase'
    BY <1>12 DEF Phase
  <2> QED
    BY <1>3, <1>7, <1>10, <1>12, <2>1, <2>2, StepKeeps DEF DataInv
<1>13. CASE s # i.at /\ up[s] /\ Then(t, <<refresh>>)
  <2>1. Len(Op') = 1 /\ Op'[1] = refresh
    BY <1>1, <1>13, OpIs, OneIs
  <2>2. s \in Live \ {i.at}
    BY <1>2, <1>13 DEF Known
  <2>3. Beat'
    BY <1>1, <1>5, <1>8, <2>1, <2>2 DEF Beat
  <2> QED
    BY <1>5, <1>12, <1>13, <2>3
<1>14. CASE s # i.at /\ ~up[s] /\ Then(t, <<repair>>)
  <2>1. Len(Op') = 1 /\ Op'[1] = repair
    BY <1>1, <1>14, OpIs, OneIs
  <2>2. s \notin Live
    BY <1>14 DEF Live
  <2>3. Torn
    BY <1>1, <1>2, <2>2 DEF AtRest, Sound
  <2>4. Repair'
    BY <1>1, <1>6, <1>8, <2>1, <2>2, <2>3 DEF Repair
  <2> QED
    BY <1>6, <1>12, <1>14, <2>4
<1> QED
  BY <1>4, <1>11, <1>13, <1>14

-----------------------------------------------------------------------------
(* Successor lists                                                          *)

\* _set_succs keeps the first entry first, and adds nobody.
LEMMA NewList ==
  ASSUME NEW p \in Peers, NEW list \in Seq(Peers)
  PROVE  LET new == SetSuccs(p, list) IN
         /\ \A j \in DOMAIN new : new[j] = p \/ \E k \in DOMAIN list : new[j] = list[k]
         /\ list # <<>> /\ list[1] # p =>
              new[1] = list[1] /\ \A j \in DOMAIN new : \E k \in DOMAIN list : new[j] = list[k]
         /\ list = <<>> => new = <<p>>
<1> DEFINE first == {i \in DOMAIN list : list[i] # p /\ \A j \in 1 .. i - 1 : list[j] # list[i]}
           out == Picked(list, first)
           n == IF Len(out) < SuccLen THEN Len(out) ELSE SuccLen
           new == SetSuccs(p, list)
<1>1. new = IF out = <<>> THEN <<p>> ELSE SubSeq(out, 1, n)
  BY DEF SetSuccs
<1>2. first \in SUBSET DOMAIN list
  OBVIOUS
<1>3. list # <<>> /\ list[1] # p => 1 \in first
  OBVIOUS
<1>4. list = <<>> => first = {}
  OBVIOUS
<1> HIDE DEF first, new
<1>5. /\ out \in Seq(Peers) /\ Len(out) \in Nat /\ Len(out) = Cardinality(first)
      /\ \A k \in 1 .. Len(out) : \E i \in first : out[k] = list[i]
  BY <1>2, PickedIs
<1>6. list # <<>> /\ list[1] # p => out # <<>> /\ out[1] = list[1]
  BY <1>2, <1>3, PickedFirst
<1>7. list = <<>> => out = <<>>
  BY <1>4, <1>5, FS_EmptySet
<1> HIDE DEF out
<1>8. CASE out = <<>>
  <2>1. new = <<p>> /\ DOMAIN <<p>> = {1} /\ <<p>>[1] = p
    BY <1>1, <1>8
  <2> QED
    BY <1>6, <1>8, <2>1 DEF new
<1>9. CASE out # <<>>
  <2>1. n \in Nat \ {0} /\ n <= Len(out)
    <3>1. Len(out) # 0
      BY <1>5, <1>9
    <3> QED
      BY <1>5, <3>1, RingAssumption
  <2>2. new = SubSeq(out, 1, n)
    BY <1>1, <1>9
  <2> HIDE DEF n
  <2>3. new = [k \in 1 .. n |-> out[k]]
    BY <1>5, <2>1, <2>2
  <2>4. new[1] = out[1] /\ \A j \in DOMAIN new : j \in 1 .. Len(out) /\ new[j] = out[j]
    BY <1>5, <2>1, <2>3
  <2>5. \A j \in DOMAIN new : \E k \in DOMAIN list : new[j] = list[k]
    BY <1>2, <1>5, <2>4
  <2> QED
    BY <1>6, <1>7, <1>9, <2>4, <2>5 DEF new
<1> QED
  BY <1>8, <1>9

\* An entry in front of a list.
LEMMA InFront ==
  ASSUME NEW p \in Peers, NEW list \in Seq(Peers)
  PROVE  /\ <<p>> \o list \in Seq(Peers) /\ <<p>> \o list # <<>> /\ (<<p>> \o list)[1] = p
         /\ \A j \in DOMAIN (<<p>> \o list) : (<<p>> \o list)[j] = p \/ \E k \in DOMAIN list : (<<p>> \o list)[j] = list[k]
<1> DEFINE w == <<p>> \o list
           n == Len(list)
<1>1. n \in Nat /\ DOMAIN list = 1 .. n /\ <<p>> \in Seq(Peers) /\ Len(<<p>>) = 1 /\ <<p>>[1] = p
  OBVIOUS
<1>2. w \in Seq(Peers) /\ Len(w) = n + 1 /\ w[1] = p
  BY <1>1
<1>3. \A j \in 2 .. (n + 1) : w[j] = list[j - 1]
  BY <1>1
<1> HIDE DEF w, n
<1>4. DOMAIN w = 1 .. (n + 1) /\ w # <<>>
  BY <1>1, <1>2
<1>5. \A j \in 1 .. (n + 1) : j = 1 \/ (j \in 2 .. (n + 1) /\ j - 1 \in 1 .. n)
  BY <1>1
<1> QED
  BY <1>1, <1>2, <1>3, <1>4, <1>5 DEF w

\* A part of a list adds nobody.
LEMMA PartsAre ==
  ASSUME NEW list \in Seq(Peers)
  PROVE  /\ \A j \in DOMAIN Answering(list) : \E k \in DOMAIN list : Answering(list)[j] = list[k]
         /\ \A j \in DOMAIN Tail(list) : list # <<>> => \E k \in DOMAIN list : Tail(list)[j] = list[k]
         /\ list # <<>> => Tail(list) \in Seq(Peers)
<1>1. ASSUME NEW j \in DOMAIN Answering(list) PROVE \E k \in DOMAIN list : Answering(list)[j] = list[k]
  <2> DEFINE kept == {k \in DOMAIN list : up[list[k]]}
             w == Picked(list, kept)
  <2>1. kept \in SUBSET DOMAIN list /\ Answering(list) = w
    BY DEF Answering
  <2> HIDE DEF kept
  <2>2. w \in Seq(Peers) /\ \A k \in 1 .. Len(w) : \E l \in kept : w[k] = list[l]
    BY <2>1, PickedIs
  <2> HIDE DEF w
  <2>3. DOMAIN w = 1 .. Len(w)
    BY <2>2
  <2> QED
    BY <1>1, <2>1, <2>2, <2>3
<1>2. ASSUME list # <<>>
      PROVE  /\ Tail(list) \in Seq(Peers)
             /\ \A j \in DOMAIN Tail(list) : \E k \in DOMAIN list : Tail(list)[j] = list[k]
  <2> DEFINE n == Len(list)
             u == Tail(list)
  <2>1. n \in Nat \ {0} /\ DOMAIN list = 1 .. n
    BY <1>2
  <2>2. u \in Seq(Peers) /\ Len(u) = n - 1 /\ \A j \in 1 .. (n - 1) : u[j] = list[j + 1]
    BY <1>2
  <2> HIDE DEF u, n
  <2>3. DOMAIN u = 1 .. (n - 1) /\ \A j \in 1 .. (n - 1) : j + 1 \in 1 .. n
    BY <2>1, <2>2
  <2> QED
    BY <2>1, <2>2, <2>3 DEF u
<1> QED
  BY <1>1, <1>2

LEMMA OthersAre ==
  ASSUME TypeOK, NEW p \in Peers, NEW drop
  PROVE  /\ Others(p, drop) \in Seq(Peers)
         /\ \A j \in DOMAIN Others(p, drop) : \E k \in DOMAIN succs[p] : Others(p, drop)[j] = succs[p][k]
<1> DEFINE kept == {j \in DOMAIN succs[p] : succs[p][j] \notin drop}
           w == Picked(succs[p], kept)
<1>1. kept \in SUBSET DOMAIN succs[p] /\ Others(p, drop) = w /\ succs[p] \in Seq(Peers)
  BY DEF Others, TypeOK
<1> HIDE DEF kept
<1>2. w \in Seq(Peers) /\ \A k \in 1 .. Len(w) : \E l \in kept : w[k] = succs[p][l]
  BY <1>1, PickedIs
<1> HIDE DEF w
<1>3. DOMAIN w = 1 .. Len(w)
  BY <1>2
<1> QED
  BY <1>1, <1>2, <1>3

\* A peer has another list, of peers that are linked in, and nothing else changed.
NewSuccs(p, new) ==
  /\ succs' = [succs EXCEPT ![p] = new]
  /\ UNCHANGED <<up, pred, data, replicas, member, acked, staleRead, leaves, crashes, suspicions>>
  /\ \A j \in DOMAIN new : up[new[j]] => new[j] \in Around

LEMMA NewSuccsAre ==
  ASSUME TypeOK, Base, NEW p \in Live, NEW new, NewSuccs(p, new)
  PROVE  /\ Live' = Live /\ Around' = Around /\ Base'
         /\ Succ(p)' = new[1] /\ succs'[p] = new
         /\ \A q \in Live : q # p => Succ(q)' = Succ(q) /\ succs'[q] = succs[q]
         /\ \A x \in Peers : Gap(x)' <=> Gap(x)
         /\ \A k : Own(k)' = Own(k)
<1>1. succs'[p] = new /\ \A q \in Live : q \in Peers /\ (q # p => succs'[q] = succs[q])
  BY DEF TypeOK, Live, NewSuccs
<1>2. Live' = Live /\ Around' = Around /\ \A x \in Peers : Gap(x)' <=> Gap(x)
  BY DEF Live, Around, Gap, NewSuccs
<1>3. \A q \in Live : \A j \in DOMAIN succs'[q] : up'[succs'[q][j]] => succs'[q][j] \in Around'
  BY <1>1, <1>2 DEF NewSuccs, Base
<1>4. /\ leaves' = 0 /\ suspicions' = 0 /\ crashes' \in Nat /\ Live' # {}
      /\ \A q \in Live' : pred'[q] = PredIn(q, Around')
      /\ \A q \in member' : ~up'[q] => crashes' > 0
  BY <1>2 DEF NewSuccs, Base
<1>5. \A q \in Peers \ member' : up'[q] => data'[q] = Empty'
  BY DEF NewSuccs, Base, Empty
<1>6. Base'
  BY <1>2, <1>3, <1>4, <1>5 DEF Base
<1>7. Succ(p)' = new[1] /\ \A q \in Live : q # p => Succ(q)' = Succ(q)
  BY <1>1 DEF Succ
<1> QED
  BY <1>1, <1>2, <1>6, <1>7 DEF Own

\* The values are where they were.
LEMMA NewSuccsKeep ==
  ASSUME TypeOK, Base, NEW p \in Live, NEW new, NewSuccs(p, new), Phase',
         \A j \in DOMAIN Op' : Op'[j].do = "settle" => \E l \in DOMAIN Op : Op'[j] = Op[l],
         \A n : ~Pending(n)
  PROVE  Geometry' /\ (DataInv => DataInv')
<1>1. /\ Live' = Live /\ Around' = Around /\ Base' /\ (\A x \in Peers : Gap(x)' <=> Gap(x))
      /\ \A k : Own(k)' = Own(k)
  BY NewSuccsAre
<1>2. UNCHANGED <<pred, data, replicas, acked, crashes, staleRead>>
  BY DEF NewSuccs
<1>3. ASSUME DataInv PROVE Given'
  <2>1. Pristine' => Pristine
    BY <1>1, <1>2, PristineKept
  <2>2. Given
    BY <1>3 DEF DataInv
  <2> QED
    BY <1>1, <1>2, <2>1, <2>2, GivenKept
<1>4. DataInv => ~staleRead'
  BY <1>2 DEF DataInv
<1>5. DataInv => DataInv'
  BY <1>1, <1>2, <1>3, <1>4, SameValues
<1> QED
  BY <1>1, <1>5 DEF Geometry

\* The next peer of p stays.
LEMMA SameNext ==
  ASSUME TypeOK, Base, AtRest, NEW p \in Live, NEW new, NewSuccs(p, new), new[1] = Succ(p), Succ(p) \in Live
  PROVE  AtRest'
<1>1. /\ Live' = Live /\ Around' = Around /\ \A x \in Peers : Gap(x)' <=> Gap(x)
      /\ \A q \in Live : Succ(q)' = Succ(q) /\ (q # p => succs'[q] = succs[q])
  BY NewSuccsAre
<1>2. (SuccsOn(Live) => (SuccsOn(Live))') /\ (SuccsOn(Around) => (SuccsOn(Around))')
  BY <1>1 DEF SuccsOn
<1>3. CASE Sound
  BY <1>1, <1>2, <1>3 DEF AtRest, Sound
<1>4. CASE Torn
  <2>1. PICK x \in Peers : /\ Gap(x) /\ SuccsOn(Around)
                           /\ \A n \in Live : Succ(n) = x => succs[n] = SuccessorsIn(n, Around, SuccLen)
    BY <1>4 DEF Torn
  <2>2. Succ(p) # x
    BY <2>1 DEF Gap, Live
  <2>3. \A n \in Live' : Succ(n)' = x => succs'[n] = SuccessorsIn(n, Around', SuccLen)
    BY <1>1, <2>1, <2>2
  <2>4. Gap(x)' /\ (SuccsOn(Around))'
    BY <1>1, <1>2, <2>1
  <2> QED
    BY <2>3, <2>4 DEF AtRest, Torn
<1> QED
  BY <1>3, <1>4 DEF AtRest

LEMMA RefreshKeeps ==
  ASSUME TypeOK, Serial, Geometry, NEW t \in Tasks, NEW i, Op # <<>>, i = Op[1], Reached(i),
         RefreshStep(t, i)
  PROVE  Geometry' /\ (DataInv => DataInv')
<1> DEFINE p == i.at
           s == Succ(p)
           list == i.list
           new == SetSuccs(p, list)
           trim == [do |-> "trim", at |-> p, by |-> p, succ |-> list[1], rest |-> Tail(new)]
<1>1. /\ i.do = "refresh" /\ Beat /\ Base /\ AtRest /\ Len(Op) = 1 /\ p \in Live
      /\ list = <<s>> \o succs[s] /\ s \in Live \ {p}
  BY PhaseIs DEF RefreshStep, Geometry, Beat
<1>2. succs' = [succs EXCEPT ![p] = new] /\ Then(t, <<trim>>)
      /\ UNCHANGED <<up, pred, data, replicas, member, acked, staleRead, leaves, crashes, suspicions>>
  BY DEF RefreshStep, hist, bounds
<1>3. trim.do = "trim" /\ trim.at = p /\ trim.by = p /\ trim.succ = list[1] /\ trim.rest = Tail(new)
  OBVIOUS
<1> HIDE DEF trim
<1>4. p \in Peers /\ s \in Peers /\ succs[s] \in Seq(Peers)
  BY <1>1, RingTyped DEF TypeOK
<1> HIDE DEF p, s
<1>5. /\ list \in Seq(Peers) /\ list # <<>> /\ list[1] = s
      /\ \A j \in DOMAIN list : list[j] = s \/ \E k \in DOMAIN succs[s] : list[j] = succs[s][k]
  BY <1>1, <1>4, InFront
<1> HIDE DEF list
<1>6. new[1] = s /\ \A j \in DOMAIN new : \E k \in DOMAIN list : new[j] = list[k]
  BY <1>1, <1>4, <1>5, NewList
<1> HIDE DEF new
<1>7. \A j \in DOMAIN new : up[new[j]] => new[j] \in Around
  <2>1. s \in Around /\ \A k \in DOMAIN succs[s] : up[succs[s][k]] => succs[s][k] \in Around
    BY <1>1, RingTyped DEF Base
  <2>2. \A j \in DOMAIN new : new[j] = s \/ \E k \in DOMAIN succs[s] : new[j] = succs[s][k]
    BY <1>5, <1>6
  <2> QED
    BY <2>1, <2>2
<1>8. NewSuccs(p, new)
  BY <1>2, <1>7 DEF NewSuccs
<1>9. Live' = Live /\ Succ(p)' = s /\ succs'[p] = new
  BY <1>1, <1>6, <1>8, NewSuccsAre
<1>10. AtRest'
  BY <1>1, <1>6, <1>8, SameNext DEF s
<1>11. Len(Op') = 1 /\ Op'[1] = trim /\ DOMAIN Op' = {1}
  BY <1>1, <1>2, OpIs, OneIs
<1>12. Beat'
  BY <1>1, <1>3, <1>5, <1>9, <1>10, <1>11 DEF Beat
<1>13. Phase'
  BY <1>12 DEF Phase
<1>14. \A n : ~Pending(n)
  BY <1>1, OneIs DEF Pending
<1> QED
  BY <1>1, <1>3, <1>8, <1>11, <1>13, <1>14, NewSuccsKeep

LEMMA TrimKeeps ==
  ASSUME TypeOK, Serial, Geometry, NEW t \in Tasks, NEW i, Op # <<>>, i = Op[1], Reached(i),
         TrimStep(t, i)
  PROVE  Geometry' /\ (DataInv => DataInv')
<1> DEFINE p == i.at
           s == Succ(p)
           rest == Tail(succs[p])
           list == <<s>> \o Answering(rest)
           new == SetSuccs(p, list)
<1>1. /\ i.do = "trim" /\ Beat /\ Base /\ AtRest /\ Len(Op) = 1 /\ p \in Live
      /\ i.succ = s /\ i.rest = rest /\ s \in Live \ {p}
  BY PhaseIs DEF TrimStep, Geometry, Beat
<1>2. succs' = [succs EXCEPT ![p] = new] /\ Then(t, <<>>)
      /\ UNCHANGED <<up, pred, data, replicas, member, acked, staleRead, leaves, crashes, suspicions>>
  BY <1>1 DEF TrimStep, hist, bounds
<1>3. p \in Peers /\ s \in Peers /\ succs[p] \in Seq(Peers) /\ succs[p] # <<>>
  BY <1>1, RingTyped DEF TypeOK
<1> HIDE DEF p, s
<1>4. rest \in Seq(Peers) /\ \A j \in DOMAIN rest : \E k \in DOMAIN succs[p] : rest[j] = succs[p][k]
  BY <1>3, PartsAre
<1> HIDE DEF rest
<1>5. Answering(rest) \in Seq(Peers)
      /\ \A j \in DOMAIN Answering(rest) : \E k \in DOMAIN rest : Answering(rest)[j] = rest[k]
  BY <1>4, PartsAre, AnsweringTyped
<1>6. /\ list \in Seq(Peers) /\ list # <<>> /\ list[1] = s
      /\ \A j \in DOMAIN list : list[j] = s \/ \E k \in DOMAIN Answering(rest) : list[j] = Answering(rest)[k]
  BY <1>3, <1>5, InFront
<1> HIDE DEF list
<1>7. new[1] = s /\ \A j \in DOMAIN new : \E k \in DOMAIN list : new[j] = list[k]
  BY <1>1, <1>3, <1>6, NewList
<1> HIDE DEF new
<1>8. \A j \in DOMAIN new : up[new[j]] => new[j] \in Around
  <2>1. s \in Around /\ \A k \in DOMAIN succs[p] : up[succs[p][k]] => succs[p][k] \in Around
    BY <1>1, RingTyped DEF Base
  <2>2. \A j \in DOMAIN new : new[j] = s \/ \E k \in DOMAIN succs[p] : new[j] = succs[p][k]
    BY <1>4, <1>5, <1>6, <1>7
  <2> QED
    BY <2>1, <2>2
<1>9. NewSuccs(p, new)
  BY <1>2, <1>8 DEF NewSuccs
<1>10. AtRest'
  BY <1>1, <1>7, <1>9, SameNext DEF s
<1>11. Op' = <<>>
  BY <1>1, <1>2, OpIs, OneIs
<1>12. Phase'
  BY <1>10, <1>11 DEF Phase, Idle
<1>13. \A n : ~Pending(n)
  BY <1>1, OneIs DEF Pending
<1> QED
  BY <1>1, <1>9, <1>11, <1>12, <1>13, NewSuccsKeep

\* The one before the joiner takes it as its successor.
LEMMA SetSuccKeeps ==
  ASSUME TypeOK, Serial, Geometry, NEW t \in Tasks, NEW i, Op # <<>>, i = Op[1], Reached(i),
         SetSuccStep(t, i)
  PROVE  Geometry' /\ (DataInv => DataInv')
<1>1. PICK j : j = Op[2]
  OBVIOUS
<1> DEFINE old == j.old
           p == j.by
           others == Others(old, {})
           list == <<p>> \o others
           new == SetSuccs(old, list)
<1>2. /\ i.do = "setSucc" /\ JoinLink /\ Base /\ Len(Op) = 2 /\ Settling(j) /\ SuccsOn(Live)
      /\ i.at = old /\ i.peer = p /\ i.drop = {}
  BY <1>1, PhaseIs DEF SetSuccStep, Geometry, JoinLink
<1>3. succs' = [succs EXCEPT ![old] = new] /\ Then(t, <<Push(old)>>)
      /\ UNCHANGED <<up, pred, data, replicas, member, acked, staleRead, leaves, crashes, suspicions>>
  BY <1>2 DEF SetSuccStep, CopyOn, hist, bounds
<1>4. /\ p \in Around /\ p \notin Live /\ p \in Peers /\ old \in Live /\ PredIn(p, Around) = old
      /\ Around \ {p} = Live /\ old \in Peers
  BY <1>2, SettlingIs, RingTyped
<1> HIDE DEF old, p
<1>5. others \in Seq(Peers) /\ \A l \in DOMAIN others : \E k \in DOMAIN succs[old] : others[l] = succs[old][k]
  BY <1>4, OthersAre
<1> HIDE DEF others
<1>6. /\ list \in Seq(Peers) /\ list # <<>> /\ list[1] = p
      /\ \A l \in DOMAIN list : list[l] = p \/ \E k \in DOMAIN others : list[l] = others[k]
  BY <1>4, <1>5, InFront
<1> HIDE DEF list
<1>7. new[1] = p /\ \A l \in DOMAIN new : \E k \in DOMAIN list : new[l] = list[k]
  BY <1>4, <1>6, NewList
<1> HIDE DEF new
<1>8. \A l \in DOMAIN new : up[new[l]] => new[l] \in Around
  <2>1. \A k \in DOMAIN succs[old] : up[succs[old][k]] => succs[old][k] \in Around
    BY <1>2, <1>4 DEF Base
  <2>2. \A l \in DOMAIN new : new[l] = p \/ \E k \in DOMAIN succs[old] : new[l] = succs[old][k]
    BY <1>5, <1>6, <1>7
  <2> QED
    BY <1>4, <2>1, <2>2
<1>9. NewSuccs(old, new)
  BY <1>3, <1>8 DEF NewSuccs
<1>10. Live' = Live /\ Around' = Around /\ Succ(old)' = p /\ \A n \in Live : n # old => Succ(n)' = Succ(n)
  BY <1>2, <1>4, <1>7, <1>9, NewSuccsAre
<1>11. (SuccsOn(Around))'
  <2>1. ASSUME NEW n \in Live, n # old PROVE Succ(n) \in Around /\ PredIn(Succ(n), Around) = n
    <3>1. Succ(n) \in Live /\ PredIn(Succ(n), Live) = n
      BY <1>2 DEF SuccsOn
    <3>2. Around \in SUBSET Slots /\ Succ(n) \in Around \ {p}
      BY <1>2, <1>4, <3>1, RingTyped
    <3> QED
      BY <1>4, <2>1, <3>1, <3>2, PredWithout
  <2> QED
    BY <1>4, <1>10, <2>1 DEF SuccsOn
<1>12. Settling(j)'
  BY <1>2, <1>3, <1>10 DEF Settling
<1>13. Len(Op') = 2 /\ Op'[1] = Push(old) /\ Op'[2] = j /\ DOMAIN Op' = 1 .. 2
  <2>1. Op' = <<Push(old)>> \o Tail(Op) /\ Op \in Seq(Instructions)
    BY <1>3, OpIs
  <2>2. \A ops \in Seq(Instructions) : ops # <<>> =>
          /\ Len(<<Push(old)>> \o Tail(ops)) = Len(ops) /\ DOMAIN (<<Push(old)>> \o Tail(ops)) = 1 .. Len(ops)
          /\ (<<Push(old)>> \o Tail(ops))[1] = Push(old)
          /\ \A l \in 2 .. Len(ops) : (<<Push(old)>> \o Tail(ops))[l] = ops[l]
    BY Spliced
  <2>3. 2 \in 2 .. 2
    OBVIOUS
  <2> QED
    BY <1>1, <1>2, <2>1, <2>2, <2>3, Zenon
<1>14. Push(old).do = "push" /\ Push(old).at = old /\ Push(old).by = old
  BY DEF Push, Call
<1>15. JoinCopy'
  BY <1>11, <1>12, <1>13, <1>14 DEF JoinCopy, Copying, old
<1>16. Phase'
  BY <1>15 DEF Phase
<1>17. \A n : ~Pending(n)
  <2>1. \A l \in DOMAIN Op : l = 1 \/ l = 2
    BY <1>2, FirstIs
  <2> QED
    BY <1>1, <1>2, <2>1 DEF Pending, Settling
<1>18. \A l \in DOMAIN Op' : Op'[l].do = "settle" => \E m \in DOMAIN Op : Op'[l] = Op[m]
  <2>1. 2 \in DOMAIN Op /\ \A l \in 1 .. 2 : l = 1 \/ l = 2
    BY <1>2, FirstIs
  <2> QED
    BY <1>1, <1>13, <1>14, <2>1
<1> QED
  BY <1>2, <1>4, <1>9, <1>16, <1>17, <1>18, NewSuccsKeep

-----------------------------------------------------------------------------
(* A join                                                                   *)

\* The owner of a place makes room there for p: who owns what then.
RoomFor(p, s, old, all) ==
  /\ s \in Live /\ old \in Live /\ p # s /\ all \in SUBSET Slots /\ p \in all
  /\ PredIn(s, all) = p /\ PredIn(p, all) = old
  /\ \A q \in Live : q # s => PredIn(q, all) = pred[q]
  /\ \A k \in Slots : /\ Between(k, old, p) <=> ResponsibleId(k, all) = p
                      /\ ResponsibleId(k, all) # p => ResponsibleId(k, all) = Own(k)
                      /\ ResponsibleId(k, all) = p => Own(k) = s

LEMMA RoomIs ==
  ASSUME TypeOK, Base, Sound, NEW p \in Peers, p \notin Live
  PROVE  RoomFor(p, Own(p), pred[Own(p)], Live \cup {p})
<1>0. PICK s, old, all : s = Own(p) /\ old = pred[s] /\ all = Live \cup {p}
  OBVIOUS
<1>1. /\ Around = Live /\ Live \in SUBSET Slots /\ Live # {} /\ p \in Slots \ Live
      /\ \A q \in Live : pred[q] = PredIn(q, Live) /\ pred[q] \in Live
  BY RingTyped DEF Sound
<1>2. s = ResponsibleId(p, Live) /\ \A k : Own(k) = ResponsibleId(k, Live)
  BY <1>0, <1>1 DEF Own
<1>3. /\ s \in Live
      /\ PredIn(s, all) = p /\ PredIn(p, all) = PredIn(s, Live)
      /\ \A q \in Live \ {s} : PredIn(q, all) = PredIn(q, Live)
      /\ \A k \in Slots : Between(k, PredIn(s, Live), p) <=> ResponsibleId(k, all) = p
      /\ \A k \in Slots : ResponsibleId(k, all) # p => ResponsibleId(k, all) = ResponsibleId(k, Live)
  <2>1. PICK ids : ids = Live
    OBVIOUS
  <2>2. ids \in SUBSET Slots /\ ids # {} /\ p \in Slots \ ids /\ s = ResponsibleId(p, ids)
    BY <1>1, <1>2, <2>1
  <2>3. LET r == ResponsibleId(p, ids) IN
        /\ r \in ids
        /\ PredIn(r, ids \cup {p}) = p /\ PredIn(p, ids \cup {p}) = PredIn(r, ids)
        /\ \A q \in ids \ {r} : PredIn(q, ids \cup {p}) = PredIn(q, ids)
        /\ \A k \in Slots : Between(k, PredIn(r, ids), p) <=> ResponsibleId(k, ids \cup {p}) = p
        /\ \A k \in Slots : ResponsibleId(k, ids \cup {p}) # p =>
                             ResponsibleId(k, ids \cup {p}) = ResponsibleId(k, ids)
    BY <2>2, JoinedBetween
  <2>4. all = ids \cup {p}
    BY <1>0, <2>1
  <2> QED
    BY <2>1, <2>2, <2>3, <2>4, Zenon
<1>4. all \in SUBSET Slots /\ p \in all /\ all # {p} /\ all \ {p} = Live
  BY <1>0, <1>1
<1>5. ASSUME NEW k \in Slots, ResponsibleId(k, all) = p PROVE Own(k) = s
  <2>0. ResponsibleId(k, all \ {p}) \in all \ {p} /\ PredIn(ResponsibleId(k, all \ {p}), all) = p
    BY <1>4, <1>5, OwnerWithout
  <2>1. ResponsibleId(k, Live) \in Live /\ PredIn(ResponsibleId(k, Live), all) = p
    BY <1>4, <2>0
  <2>2. ResponsibleId(k, Live) \in all /\ s \in all
    BY <1>0, <1>3, <1>4, <2>1
  <2> QED
    BY <1>2, <1>3, <1>4, <2>1, <2>2, PredInjective
<1>6. old \in Live /\ old = PredIn(s, Live) /\ p # s
  BY <1>0, <1>1, <1>3
<1>7. \A q \in Live : q # s => PredIn(q, all) = pred[q]
  BY <1>1, <1>3
<1>8. \A k \in Slots : /\ Between(k, old, p) <=> ResponsibleId(k, all) = p
                       /\ ResponsibleId(k, all) # p => ResponsibleId(k, all) = Own(k)
                       /\ ResponsibleId(k, all) = p => Own(k) = s
  <2> SUFFICES ASSUME NEW k \in Slots
               PROVE  /\ Between(k, old, p) <=> ResponsibleId(k, all) = p
                      /\ ResponsibleId(k, all) # p => ResponsibleId(k, all) = Own(k)
                      /\ ResponsibleId(k, all) = p => Own(k) = s
    OBVIOUS
  <2>1. Between(k, PredIn(s, Live), p) <=> ResponsibleId(k, all) = p
    BY <1>3
  <2>2. ResponsibleId(k, all) # p => ResponsibleId(k, all) = ResponsibleId(k, Live)
    BY <1>3
  <2>3. ResponsibleId(k, Live) = Own(k)
    BY <1>2
  <2>4. ResponsibleId(k, all) = p => Own(k) = s
    BY <1>5
  <2>5. Between(k, old, p) <=> ResponsibleId(k, all) = p
    BY <1>6, <2>1
  <2>6. ResponsibleId(k, all) # p => ResponsibleId(k, all) = Own(k)
    BY <2>2, <2>3
  <2> QED
    BY <2>4, <2>5, <2>6, Zenon
<1>9. RoomFor(p, s, old, all)
  <2>1. /\ s \in Live /\ old \in Live /\ p # s /\ all \in SUBSET Slots /\ p \in all
        /\ PredIn(s, all) = p /\ PredIn(p, all) = old
    BY <1>3, <1>4, <1>6
  <2> QED
    BY <1>7, <1>8, <2>1 DEF RoomFor
<1> QED
  BY <1>0, <1>9

LEMMA JoinAtKeeps ==
  ASSUME TypeOK, Serial, Geometry, NEW t \in Tasks, NEW i, Op # <<>>, i = Op[1], Reached(i),
         JoinAtStep(t, i)
  PROVE  Geometry' /\ (DataInv => DataInv')
<1>1. PICK s : s = i.at
  OBVIOUS
<1>2. PICK p : p = i.by
  OBVIOUS
<1>3. PICK old : old = pred[s]
  OBVIOUS
<1>0. PICK all : all = Live \cup {p}
  OBVIOUS
<1> DEFINE moved == [k \in Keys |-> IF Between(k, old, p) THEN data[s][k] ELSE 0]
           kept == [k \in Keys |-> IF Between(k, old, p) THEN 0 ELSE data[s][k]]
           link == IF old = s THEN Push(s)
                   ELSE [do |-> "setSucc", at |-> old, by |-> s, peer |-> p, drop |-> {}]
           settle == [do |-> "settle", at |-> s, by |-> p, old |-> old, moved |-> moved]
           now(k) == ResponsibleId(k, all)
<1>4. /\ i.do = "joinAt" /\ JoinSearch /\ Base /\ Len(Op) = 1 /\ Sound /\ p \notin member /\ up[p]
      /\ s \in Live /\ s = Own(p)
  BY <1>1, <1>2, PhaseIs DEF JoinAtStep, Geometry, JoinSearch
<1>5. s \in Peers /\ p \in Peers /\ p \notin Live /\ Live \subseteq Peers
  BY <1>1, <1>2, <1>4, FirstIs, RingTyped DEF Live
<1>6. /\ data' = [data EXCEPT ![s] = kept] /\ replicas' = [replicas EXCEPT ![s] = moved]
      /\ pred' = [pred EXCEPT ![s] = p]
      /\ succs' = IF old = s THEN [succs EXCEPT ![s] = SetSuccs(s, <<p>>)] ELSE succs
      /\ Op' = <<link, settle>> \o Tail(Op)
      /\ UNCHANGED <<up, member, acked, staleRead, leaves, crashes, suspicions>>
  <2>1. /\ data' = [data EXCEPT ![s] = [k \in Keys |-> IF Between(k, old, p) THEN 0 ELSE @[k]]]
        /\ replicas' = [replicas EXCEPT ![s] = moved] /\ pred' = [pred EXCEPT ![s] = p]
        /\ succs' = IF old = s THEN [succs EXCEPT ![s] = SetSuccs(s, <<p>>)] ELSE succs
        /\ Then(t, <<link, settle>>)
        /\ UNCHANGED <<up, member, acked, staleRead, leaves, crashes, suspicions>>
    BY <1>1, <1>2, <1>3 DEF JoinAtStep, hist, bounds
  <2> QED
    BY <2>1, OpIs
<1>16. PICK first, last, given : first = link /\ last = settle /\ given = moved
  OBVIOUS
<1>7. /\ old = s => first = Push(s)
      /\ old # s => first.do = "setSucc" /\ first.at = old /\ first.by = s /\ first.peer = p /\ first.drop = {}
      /\ last.do = "settle" /\ last.at = s /\ last.by = p /\ last.old = old /\ last.moved = given
  BY <1>16
<1>8. \A k \in Keys : /\ Between(k, old, p) => given[k] = data[s][k] /\ kept[k] = 0
                      /\ ~Between(k, old, p) => given[k] = 0 /\ kept[k] = data[s][k]
  BY <1>16
<1> HIDE DEF link, settle, moved, kept
<1>9. /\ data'[s] = kept /\ replicas'[s] = given /\ pred'[s] = p
      /\ \A q \in Peers : q # s => data'[q] = data[q] /\ replicas'[q] = replicas[q] /\ pred'[q] = pred[q]
  BY <1>5, <1>6, <1>16 DEF TypeOK
<1>10. /\ old \in Live /\ p # s /\ all \in SUBSET Slots /\ p \in all
       /\ PredIn(s, all) = p /\ PredIn(p, all) = old
       /\ \A q \in Live : q # s => PredIn(q, all) = pred[q]
       /\ \A k \in Slots : /\ Between(k, old, p) <=> now(k) = p
                           /\ now(k) # p => now(k) = Own(k)
                           /\ now(k) = p => Own(k) = s
  <2>1. RoomFor(p, Own(p), pred[Own(p)], Live \cup {p})
    BY <1>4, <1>5, RoomIs
  <2>2. RoomFor(p, s, old, all)
    BY <1>0, <1>3, <1>4, <2>1
  <2> QED
    BY <2>2 DEF RoomFor
<1>11. Around = Live /\ Keys \subseteq Slots /\ \A q \in Live : pred[q] \in Live
  BY <1>4, RingTyped DEF Sound
<1>12. Live' = Live
  BY <1>6 DEF Live
<1>13. Around' = all
  <2>1. \A q \in Live : pred'[q] = IF q = s THEN p ELSE pred[q]
    BY <1>5, <1>9
  <2>2. {pred'[q] : q \in Live} \subseteq all /\ p \in {pred'[q] : q \in Live}
    BY <1>0, <1>4, <1>11, <2>1
  <2> QED
    BY <1>0, <1>12, <2>2 DEF Around
<1>14. \A k : Own(k)' = now(k)
  BY <1>13 DEF Own
<1> HIDE DEF now
<1>15. \A q \in Live : q \in Peers /\ (q # s => succs'[q] = succs[q])
  BY <1>5, <1>6 DEF TypeOK
<1>17. old = s => Succ(s)' = p /\ \A j \in DOMAIN succs'[s] : succs'[s][j] = p
  <2> SUFFICES ASSUME old = s
               PROVE  succs'[s][1] = p /\ \A j \in DOMAIN succs'[s] : succs'[s][j] = p
    BY DEF Succ
  <2>1. PICK w : w = <<p>>
    OBVIOUS
  <2>2. w \in Seq(Peers) /\ w # <<>> /\ w[1] = p /\ DOMAIN w = {1}
    BY <1>5, <2>1
  <2>3. succs'[s] = SetSuccs(s, w)
    BY <1>5, <1>6, <2>1 DEF TypeOK
  <2>4. SetSuccs(s, w)[1] = w[1]
        /\ \A j \in DOMAIN SetSuccs(s, w) : \E k \in DOMAIN w : SetSuccs(s, w)[j] = w[k]
    BY <1>5, <1>10, <2>2, NewList
  <2> QED
    BY <2>2, <2>3, <2>4
<1>18. Base'
  <2>1. \A q \in Live : pred'[q] = PredIn(q, all)
    BY <1>5, <1>9, <1>10
  <2>2. ASSUME NEW q \in Live, NEW j \in DOMAIN succs'[q], up[succs'[q][j]] PROVE succs'[q][j] \in all
    <3>1. CASE q = s /\ old = s
      BY <1>10, <1>17, <2>2, <3>1
    <3>2. CASE ~(q = s /\ old = s)
      <4>1. succs'[q] = succs[q]
        BY <1>6, <1>15, <3>2
      <4>2. succs[q][j] \in Live
        BY <1>4, <1>11, <2>2, <4>1 DEF Base
      <4> QED
        BY <1>0, <4>1, <4>2
    <3> QED
      BY <3>1, <3>2
  <2>3. \A q \in Peers \ member : up[q] => data'[q] = Empty
    <3>1. s \in member
      BY <1>4 DEF Live
    <3> QED
      BY <1>4, <1>9, <3>1 DEF Base
  <2>4. leaves' = 0 /\ suspicions' = 0 /\ crashes' \in Nat /\ Live # {} /\ Empty' = Empty
        /\ \A q \in member : ~up[q] => crashes > 0
    BY <1>4, <1>6 DEF Base, Empty
  <2> QED
    BY <1>6, <1>12, <1>13, <2>1, <2>2, <2>3, <2>4 DEF Base
<1>19. /\ Len(Op') = 2 /\ DOMAIN Op' = 1 .. 2 /\ Op' # <<>> /\ Op'[1] = first /\ Op'[2] = last
  <2>1. \A ops \in Seq(Instructions) : ops # <<>> =>
          /\ Len(<<first, last>> \o Tail(ops)) = Len(ops) + 1
          /\ DOMAIN (<<first, last>> \o Tail(ops)) = 1 .. (Len(ops) + 1)
          /\ <<first, last>> \o Tail(ops) # <<>>
          /\ (<<first, last>> \o Tail(ops))[1] = first /\ (<<first, last>> \o Tail(ops))[2] = last
    BY Spliced
  <2>2. Op \in Seq(Instructions) /\ 1 + 1 = 2
    BY FirstIs
  <2> QED
    BY <1>4, <1>6, <1>16, <2>1, <2>2, Zenon
<1>20. Settling(last)'
  BY <1>4, <1>6, <1>7, <1>9, <1>10, <1>12, <1>13, <1>0 DEF Settling
<1>21. Phase'
  <2>1. CASE old = s
    <3>1. Live = {s}
      <4>1. pred[s] = s <=> Around = {s}
        BY <1>4, RingTyped
      <4> QED
        BY <1>3, <1>11, <2>1, <4>1
    <3>2. (SuccsOn(Around))'
      BY <1>10, <1>12, <1>13, <1>17, <2>1, <3>1 DEF SuccsOn
    <3>3. Push(s).do = "push" /\ Push(s).at = s /\ Push(s).by = s
      BY DEF Push, Call
    <3>4. JoinCopy'
      BY <1>7, <1>19, <1>20, <2>1, <3>2, <3>3 DEF JoinCopy, Copying
    <3> QED
      BY <3>4 DEF Phase
  <2>2. CASE old # s
    <3>1. succs' = succs
      BY <1>6, <2>2
    <3>2. (SuccsOn(Live))'
      BY <1>4, <1>12, <3>1 DEF Sound, SuccsOn, Succ
    <3>3. JoinLink'
      BY <1>7, <1>19, <1>20, <2>2, <3>2 DEF JoinLink
    <3> QED
      BY <3>3 DEF Phase
  <2> QED
    BY <2>1, <2>2
<1>22. \A n : ~Pending(n)
  BY <1>4, OneIs DEF Pending
<1>23. Pristine' => Pristine
  <2>1. ASSUME NEW x, Gap(x)' PROVE FALSE
    BY <1>4, <1>6, <1>10, <1>12, <1>13, <2>1, <1>0 DEF Gap, Live
  <2> QED
    BY <1>6, <2>1 DEF Pristine
<1>24. ASSUME DataInv PROVE DataInv'
  <2>1. NewestKept /\ Copied /\ \A k \in Keys : k \in Slots
    BY <1>11, <1>24 DEF DataInv
  <2>2. \A k \in Keys : now(k) = p => Own(k) = s /\ given[k] >= acked[k]
    BY <1>4, <1>8, <1>10, <2>1 DEF NewestKept
  <2>3. NewestKept'
    <3>1. ASSUME NEW k \in Keys, now(k) \in Live PROVE data'[now(k)][k] >= acked[k]
      <4>1. now(k) = Own(k) /\ ~Between(k, old, p)
        BY <1>5, <1>10, <2>1, <3>1
      <4>2. data[Own(k)][k] >= acked[k]
        BY <2>1, <3>1, <4>1 DEF NewestKept
      <4>3. data'[now(k)][k] = data[Own(k)][k]
        BY <1>5, <1>8, <1>9, <3>1, <4>1
      <4> QED
        BY <4>2, <4>3
    <3> QED
      BY <1>6, <1>12, <1>14, <3>1 DEF NewestKept
  <2>4. Copied'
    <3>1. ASSUME NEW q \in Live, NEW k \in Keys, pred'[q] \in Live, pred'[q] # q, now(k) = pred'[q]
          PROVE  replicas'[q][k] = data'[pred'[q]][k]
      <4>1. q # s /\ pred'[q] = pred[q] /\ replicas'[q] = replicas[q]
        BY <1>5, <1>9, <3>1
      <4>2. now(k) = Own(k) /\ ~Between(k, old, p)
        BY <1>5, <1>10, <2>1, <3>1
      <4>3. replicas[q][k] = data[pred[q]][k]
        BY <1>22, <2>1, <3>1, <4>1, <4>2 DEF Copied
      <4>4. data'[pred[q]][k] = data[pred[q]][k]
        BY <1>5, <1>8, <1>9, <3>1, <4>1, <4>2
      <4> QED
        BY <4>1, <4>3, <4>4
    <3> QED
      BY <1>12, <1>14, <3>1 DEF Copied
  <2>5. Given'
    <3>1. \A k \in Keys : /\ now(k) = p => given[k] >= acked[k]
                          /\ given[k] # 0 => now(k) = p
      BY <1>8, <1>10, <2>1, <2>2
    <3>2. first.do # "settle"
      <4>1. Push(s).do = "push"
        BY DEF Push, Call
      <4> QED
        BY <1>7, <4>1
    <3>3. \A j \in DOMAIN Op' : Op'[j].do = "settle" => Op'[j] = last
      <4>1. \A j \in 1 .. 2 : j = 1 \/ j = 2
        OBVIOUS
      <4> QED
        BY <1>19, <3>2, <4>1
    <3> QED
      BY <1>6, <1>7, <1>14, <3>1, <3>3 DEF Given
  <2>6. ASSUME Pristine' PROVE Covered' /\ OwnOnly' /\ OthersOnly'
    <3>1. Covered /\ OwnOnly /\ OthersOnly
      BY <1>23, <1>24, <2>6 DEF DataInv
    <3>2. ASSUME NEW q \in Live, NEW k \in Keys, pred'[q] # q, now(k) = pred'[q]
          PROVE  replicas'[q][k] >= acked[k]
      <4>1. CASE q = s
        BY <1>9, <2>2, <3>2, <4>1
      <4>2. CASE q # s
        <5>1. pred'[q] = pred[q] /\ replicas'[q] = replicas[q] /\ pred[q] \in Live
          BY <1>5, <1>9, <1>11, <4>2
        <5>2. Own(k) = pred[q]
          BY <1>5, <1>10, <2>1, <3>2, <5>1
        <5> QED
          BY <3>1, <3>2, <5>1, <5>2 DEF Covered
      <4> QED
        BY <4>1, <4>2
    <3>3. Covered'
      BY <1>6, <1>12, <1>14, <3>2 DEF Covered
    <3>4. ASSUME NEW q \in Live, NEW k \in Keys, data'[q][k] # 0 PROVE now(k) = q
      <4>1. data[q][k] # 0 /\ (q = s => ~Between(k, old, p))
        BY <1>5, <1>8, <1>9, <3>4
      <4>2. Own(k) = q
        BY <3>1, <4>1 DEF OwnOnly
      <4> QED
        BY <1>10, <2>1, <4>1, <4>2
    <3>5. OwnOnly'
      BY <1>12, <1>14, <3>4 DEF OwnOnly
    <3>6. ASSUME NEW q \in Live, NEW k \in Keys, replicas'[q][k] # 0 PROVE now(k) # q
      <4>1. CASE q = s
        BY <1>8, <1>9, <1>10, <2>1, <3>6, <4>1
      <4>2. CASE q # s
        <5>1. Own(k) # q
          BY <1>5, <1>9, <3>1, <3>6, <4>2 DEF OthersOnly
        <5> QED
          BY <1>5, <1>10, <2>1, <5>1
      <4> QED
        BY <4>1, <4>2
    <3>7. OthersOnly'
      BY <1>12, <1>14, <3>6 DEF OthersOnly
    <3> QED
      BY <3>3, <3>5, <3>7
  <2>7. ~staleRead'
    BY <1>6, <1>24 DEF DataInv
  <2> QED
    BY <2>3, <2>4, <2>5, <2>6, <2>7 DEF DataInv
<1> QED
  BY <1>18, <1>21, <1>24 DEF Geometry

\* The joiner takes the place that is made.
LEMMA SettleKeeps ==
  ASSUME TypeOK, Serial, Geometry, NEW t \in Tasks, NEW i, Op # <<>>, i = Op[1], Reached(i),
         SettleStep(t, i)
  PROVE  Geometry' /\ (DataInv => DataInv')
<1>1. PICK s, p, old : s = i.at /\ p = i.by /\ old = i.old
  OBVIOUS
<1>2. /\ i.do = "settle" /\ Base /\ Len(Op) = 1 /\ Settling(i) /\ SuccsOn(Around)
      /\ replicas[p] = data[old]
  BY <1>1, PhaseIs DEF SettleStep, Geometry, JoinSettle
<1>3. /\ p \in Around /\ p \notin Live /\ p \notin member /\ p \in Peers /\ up[p] /\ s \in Live /\ old \in Live
      /\ PredIn(p, Around) = old /\ Around = Live \cup {p} /\ pred[s] = p /\ p # s /\ p # old
  BY <1>1, <1>2, SettlingIs DEF Settling
<1>4. Live \subseteq Peers /\ Around \in SUBSET Slots /\ Keys \subseteq Slots
      /\ \A q \in Live : pred[q] \in Around /\ pred[q] = PredIn(q, Around)
  BY <1>2, RingTyped
<1>5. PICK w, given : w = <<s>> /\ given = Received(p, i.moved)
  OBVIOUS
<1>6. /\ succs' = [succs EXCEPT ![p] = SetSuccs(p, w)] /\ pred' = [pred EXCEPT ![p] = old]
      /\ data' = [data EXCEPT ![p] = given] /\ member' = member \cup {p} /\ Then(t, <<Push(p)>>)
      /\ UNCHANGED <<up, replicas, acked, staleRead, leaves, crashes, suspicions>>
  BY <1>1, <1>5 DEF SettleStep, bounds
<1>7. /\ pred'[p] = old /\ data'[p] = given /\ succs'[p] = SetSuccs(p, w)
      /\ \A q \in Peers : q # p => pred'[q] = pred[q] /\ data'[q] = data[q] /\ succs'[q] = succs[q]
  BY <1>3, <1>6 DEF TypeOK
<1>8. Succ(p)' = s /\ \A j \in DOMAIN succs'[p] : succs'[p][j] = s
  <2>1. w \in Seq(Peers) /\ w # <<>> /\ w[1] = s /\ DOMAIN w = {1}
    BY <1>3, <1>4, <1>5
  <2>2. SetSuccs(p, w)[1] = w[1]
        /\ \A j \in DOMAIN SetSuccs(p, w) : \E k \in DOMAIN w : SetSuccs(p, w)[j] = w[k]
    BY <1>3, <2>1, NewList
  <2> QED
    BY <1>7, <2>1, <2>2 DEF Succ
<1>9. \A k \in Keys : given[k] = i.moved[k]
  <2>1. data[p] = Empty
    BY <1>2, <1>3 DEF Base
  <2>2. given = [k \in Keys |-> IF i.moved[k] # 0 THEN i.moved[k] ELSE Empty[k]]
    BY <1>5, <2>1 DEF Received, Merge
  <2>3. \A k \in Keys : Empty[k] = 0
    BY DEF Empty
  <2> QED
    BY <2>2, <2>3
<1>10. Live' = Live \cup {p}
  BY <1>3, <1>6 DEF Live
<1>11. Around' = Around /\ Live' = Around
  <2>1. \A q \in Live \cup {p} : pred'[q] \in Around
    BY <1>3, <1>4, <1>7
  <2> QED
    BY <1>3, <1>10, <2>1 DEF Around
<1>12. Base'
  <2>1. \A q \in Live \cup {p} : pred'[q] = PredIn(q, Around)
    BY <1>3, <1>4, <1>7
  <2>2. ASSUME NEW q \in Live \cup {p}, NEW j \in DOMAIN succs'[q], up[succs'[q][j]]
        PROVE  succs'[q][j] \in Around
    <3>1. CASE q = p
      BY <1>3, <1>8, <2>2, <3>1
    <3>2. CASE q # p
      <4>1. q \in Live /\ succs'[q] = succs[q]
        BY <1>4, <1>7, <2>2, <3>2
      <4> QED
        BY <1>2, <2>2, <4>1 DEF Base
    <3> QED
      BY <3>1, <3>2
  <2>3. \A q \in Peers \ (member \cup {p}) : up[q] => data'[q] = Empty
    BY <1>2, <1>7 DEF Base
  <2>4. leaves' = 0 /\ suspicions' = 0 /\ crashes' \in Nat /\ Empty' = Empty
        /\ \A q \in member \cup {p} : ~up[q] => crashes > 0
    BY <1>2, <1>3, <1>6 DEF Base, Empty
  <2> QED
    BY <1>6, <1>10, <1>11, <2>1, <2>2, <2>3, <2>4 DEF Base
<1>13. Sound'
  <2>1. ASSUME NEW q \in Live PROVE Succ(q)' \in Around /\ PredIn(Succ(q)', Around) = q
    <3>1. Succ(q)' = Succ(q)
      BY <1>3, <1>4, <1>7 DEF Succ
    <3> QED
      BY <1>2, <3>1 DEF SuccsOn
  <2>2. Succ(p)' \in Around /\ PredIn(Succ(p)', Around) = p
    BY <1>3, <1>4, <1>8
  <2>3. \A q \in Around : Succ(q)' \in Around /\ PredIn(Succ(q)', Around) = q
    BY <1>3, <2>1, <2>2
  <2> QED
    BY <1>11, <2>3 DEF Sound, SuccsOn
<1>14. Op'[1] = Push(p) /\ Len(Op') = 1 /\ DOMAIN Op' = {1} /\ Op' # <<>>
  BY <1>2, <1>6, OpIs, OneIs
<1>15. Push(p).do = "push" /\ Push(p).at = p /\ Push(p).by = p
  BY DEF Push, Call
<1>16. Phase'
  <2>1. JoinPush'
    BY <1>10, <1>13, <1>14, <1>15 DEF JoinPush, Copying
  <2> QED
    BY <2>1 DEF Phase
<1>17. \A k : Own(k)' = Own(k)
  BY <1>11 DEF Own
<1>18. Pristine' => Pristine
  <2>1. ASSUME NEW x, Gap(x)' PROVE x \notin Around'
    BY <1>11, <2>1 DEF Gap, Live
  <2> QED
    BY <1>6, <2>1 DEF Pristine
<1>19. 1 \in DOMAIN Op /\ \A n : ~Pending(n)
  BY <1>1, <1>2, OneIs DEF Pending
<1>20. Pending(p)'
  BY <1>14, <1>15 DEF Pending
<1>21. ASSUME DataInv PROVE DataInv'
  <2>1. NewestKept /\ Copied /\ Given
    BY <1>21 DEF DataInv
  <2>2. \A k \in Keys : /\ Own(k) = p => given[k] >= acked[k]
                        /\ Pristine => (given[k] # 0 => Own(k) = p)
    BY <1>1, <1>2, <1>9, <1>19, <2>1 DEF Given
  <2>3. NewestKept'
    <3>1. ASSUME NEW k \in Keys, Own(k) \in Around PROVE data'[Own(k)][k] >= acked[k]
      <4>1. CASE Own(k) = p
        BY <1>7, <2>2, <4>1
      <4>2. CASE Own(k) # p
        BY <1>3, <1>4, <1>7, <2>1, <3>1, <4>2 DEF NewestKept
      <4> QED
        BY <4>1, <4>2
    <3> QED
      BY <1>6, <1>11, <1>17, <3>1 DEF NewestKept
  <2>4. Copied'
    <3>1. ASSUME NEW q \in Around, NEW k \in Keys, NEW n, n = pred'[q], n \in Around, n # q, n # p, Own(k) = n
          PROVE  replicas[q][k] = data'[n][k]
      <4>1. CASE q = p
        BY <1>2, <1>3, <1>4, <1>7, <3>1, <4>1
      <4>2. CASE q # p
        <5>1. q \in Live /\ n = pred[q] /\ n \in Live
          BY <1>3, <1>4, <1>7, <3>1, <4>2
        <5>2. replicas[q][k] = data[n][k]
          BY <1>19, <2>1, <3>1, <5>1 DEF Copied
        <5> QED
          BY <1>4, <1>7, <3>1, <5>1, <5>2
      <4> QED
        BY <4>1, <4>2
    <3>2. ASSUME NEW n, ~(Pending(n))' PROVE n # p
      BY <1>20, <3>2
    <3>3. ASSUME NEW q, ~(Pending(pred[q]))' PROVE \E n : n = pred'[q] /\ n # p
      <4>1. PICK n : n = pred'[q]
        OBVIOUS
      <4>2. ~Pending(n)'
        BY <3>3, <4>1 DEF Pending
      <4> QED
        BY <3>2, <4>1, <4>2
    <3> QED
      BY <1>6, <1>11, <1>17, <3>1, <3>3 DEF Copied
  <2>5. Given'
    BY <1>14, <1>15 DEF Given
  <2>6. ASSUME Pristine' PROVE Covered' /\ OwnOnly' /\ OthersOnly'
    <3>1. Covered /\ OwnOnly /\ OthersOnly /\ Pristine
      BY <1>18, <1>21, <2>6 DEF DataInv
    <3>2. ASSUME NEW q \in Around, NEW k \in Keys, pred'[q] # q, Own(k) = pred'[q]
          PROVE  replicas[q][k] >= acked[k]
      <4>1. CASE q = p
        <5>1. Own(k) = old /\ data[old][k] >= acked[k]
          BY <1>3, <1>7, <2>1, <3>2, <4>1 DEF NewestKept
        <5> QED
          BY <1>2, <4>1, <5>1
      <4>2. CASE q # p
        <5>1. q \in Live /\ pred'[q] = pred[q]
          BY <1>3, <1>4, <1>7, <4>2
        <5> QED
          BY <3>1, <3>2, <5>1 DEF Covered
      <4> QED
        BY <4>1, <4>2
    <3>3. Covered'
      BY <1>6, <1>11, <1>17, <3>2 DEF Covered
    <3>4. ASSUME NEW q \in Around, NEW k \in Keys, data'[q][k] # 0 PROVE Own(k) = q
      <4>1. CASE q = p
        BY <1>7, <2>2, <3>1, <3>4, <4>1
      <4>2. CASE q # p
        BY <1>3, <1>4, <1>7, <3>1, <3>4, <4>2 DEF OwnOnly
      <4> QED
        BY <4>1, <4>2
    <3>5. OwnOnly'
      BY <1>11, <1>17, <3>4 DEF OwnOnly
    <3>6. ASSUME NEW q \in Around, NEW k \in Keys, replicas[q][k] # 0 PROVE Own(k) # q
      <4>1. CASE q = p
        BY <1>2, <1>3, <3>1, <3>6, <4>1 DEF OwnOnly
      <4>2. CASE q # p
        BY <1>3, <3>1, <3>6, <4>2 DEF OthersOnly
      <4> QED
        BY <4>1, <4>2
    <3>7. OthersOnly'
      BY <1>6, <1>11, <1>17, <3>6 DEF OthersOnly
    <3> QED
      BY <3>3, <3>5, <3>7
  <2>7. ~staleRead'
    BY <1>6, <1>21 DEF DataInv
  <2> QED
    BY <2>3, <2>4, <2>5, <2>6, <2>7 DEF DataInv
<1> QED
  BY <1>12, <1>16, <1>21 DEF Geometry

-----------------------------------------------------------------------------
(* The repair of a crash                                                    *)

\* Without the dead peer: who follows whom, and who owns what.
LEMMA GapIs ==
  ASSUME TypeOK, Base, NEW x, Gap(x)
  PROVE  /\ x \in Around /\ x \notin Live /\ Around \ {x} = Live /\ crashes > 0
         /\ PredIn(x, Around) \in Live
         /\ \A q \in Live : /\ pred[q] = x => PredIn(q, Live) = PredIn(x, Around)
                            /\ pred[q] # x => PredIn(q, Live) = pred[q] /\ pred[q] \in Live
                            /\ pred[q] # PredIn(x, Around)
         /\ \A q, n \in Live : pred[q] = pred[n] => q = n
         /\ \A k \in Slots : /\ ResponsibleId(k, Live) \in Live
                             /\ Own(k) # x => Own(k) = ResponsibleId(k, Live)
                             /\ Own(k) = x => pred[ResponsibleId(k, Live)] = x
<1>1. x \in member /\ ~up[x] /\ Around = Live \cup {x}
  BY DEF Gap
<1>2. /\ Around \in SUBSET Slots /\ Live # {}
      /\ \A q \in Live : q \in Around /\ pred[q] \in Around /\ pred[q] = PredIn(q, Around)
  BY RingTyped
<1>3. x \in Around /\ x \notin Live /\ Around \ {x} = Live /\ Around # {x} /\ crashes > 0
  BY <1>1, <1>2 DEF Live, Base
<1>4. PredIn(x, Around) \in Live
  <2>1. PredIn(x, Around) \in Around /\ PredIn(x, Around) # x
    BY <1>2, <1>3, PredSelf
  <2> QED
    BY <1>3, <2>1
<1>5. \A q \in Around \ {x} :
        PredIn(q, Around \ {x}) = IF PredIn(q, Around) = x THEN PredIn(x, Around) ELSE PredIn(q, Around)
  BY <1>2, <1>3, PredWithout
<1>6. \A a, b \in Around : PredIn(a, Around) = PredIn(b, Around) => a = b
  BY <1>2, PredInjective
<1>7. ASSUME NEW q \in Live
      PROVE  /\ pred[q] = x => PredIn(q, Live) = PredIn(x, Around)
             /\ pred[q] # x => PredIn(q, Live) = pred[q] /\ pred[q] \in Live
             /\ pred[q] # PredIn(x, Around)
  <2>1. PredIn(q, Live) = IF pred[q] = x THEN PredIn(x, Around) ELSE pred[q]
    BY <1>2, <1>3, <1>5
  <2>2. pred[q] # PredIn(x, Around)
    BY <1>2, <1>3, <1>6
  <2> QED
    BY <1>2, <1>3, <2>1, <2>2
<1>8. \A q, n \in Live : pred[q] = pred[n] => q = n
  BY <1>2, <1>6
<1>9. ASSUME NEW k \in Slots
      PROVE  /\ ResponsibleId(k, Live) \in Live
             /\ Own(k) # x => Own(k) = ResponsibleId(k, Live)
             /\ Own(k) = x => pred[ResponsibleId(k, Live)] = x
  <2>1. LET o == ResponsibleId(k, Around)
            r == ResponsibleId(k, Around \ {x}) IN
        /\ o \in Around /\ r \in Around \ {x}
        /\ o # x => r = o
        /\ o = x => PredIn(r, Around) = x
    BY <1>2, <1>3, OwnerWithout
  <2>2. /\ ResponsibleId(k, Live) \in Live
        /\ Own(k) # x => ResponsibleId(k, Live) = Own(k)
        /\ Own(k) = x => PredIn(ResponsibleId(k, Live), Around) = x
    BY <1>3, <2>1 DEF Own
  <2> QED
    BY <1>2, <2>2
<1> QED
  BY <1>3, <1>4, <1>7, <1>8, <1>9

\* q takes the peer before the dead one x for its predecessor, and the replica
\* it has of x for its own.
Closes(x, q) ==
  /\ Gap(x) /\ q \in Live /\ pred[q] = x
  /\ pred' = [pred EXCEPT ![q] = PredIn(x, Around)]
  /\ Promote(q)
  /\ UNCHANGED <<up, member, acked, staleRead, leaves, crashes, suspicions>>
  /\ \A n \in Live : \A j \in DOMAIN succs'[n] : up[succs'[n][j]] => succs'[n][j] \in Around

LEMMA ClosedIs ==
  ASSUME TypeOK, Base, NEW x, NEW q, Closes(x, q)
  PROVE  /\ Live' = Live /\ Around' = Live /\ Base'
         /\ \A k : Own(k)' = ResponsibleId(k, Live)
         /\ pred'[q] = PredIn(x, Around)
         /\ \A n \in Live : n # q => /\ pred'[n] = pred[n] /\ data'[n] = data[n]
                                     /\ replicas'[n] = replicas[n]
         /\ data'[q] = Merge(data[q], replicas[q]) /\ replicas'[q] = Empty
         /\ ~Pristine'
<1>1. /\ x \in Around /\ x \notin Live /\ Around \ {x} = Live /\ crashes > 0
      /\ PredIn(x, Around) \in Live
      /\ \A n \in Live : /\ pred[n] = x => PredIn(n, Live) = PredIn(x, Around)
                         /\ pred[n] # x => PredIn(n, Live) = pred[n] /\ pred[n] \in Live
      /\ \A m, n \in Live : pred[m] = pred[n] => m = n
  BY GapIs DEF Closes
<1>2. /\ Gap(x) /\ q \in Live /\ pred[q] = x /\ pred' = [pred EXCEPT ![q] = PredIn(x, Around)]
      /\ data' = [data EXCEPT ![q] = Merge(data[q], replicas[q])] /\ replicas' = [replicas EXCEPT ![q] = Empty]
      /\ UNCHANGED <<up, member, acked, staleRead, leaves, crashes, suspicions>>
  BY DEF Closes, Promote
<1>3. Live \subseteq Peers /\ q \in Peers
  BY <1>2, RingTyped
<1>4. /\ pred'[q] = PredIn(x, Around)
      /\ data'[q] = Merge(data[q], replicas[q]) /\ replicas'[q] = Empty
      /\ \A n \in Peers : n # q => pred'[n] = pred[n] /\ data'[n] = data[n] /\ replicas'[n] = replicas[n]
  BY <1>2, <1>3 DEF TypeOK
<1>5. Live' = Live
  BY <1>2 DEF Live
<1>6. \A n \in Live : pred'[n] = PredIn(n, Live) /\ pred'[n] \in Live
  <2>1. ASSUME NEW n \in Live, n # q PROVE pred'[n] = PredIn(n, Live) /\ pred'[n] \in Live
    <3>1. pred[n] # x
      BY <1>1, <1>2, <2>1
    <3> QED
      BY <1>1, <1>3, <1>4, <2>1, <3>1
  <2>2. pred'[q] = PredIn(q, Live) /\ pred'[q] \in Live
    BY <1>1, <1>2, <1>4
  <2> QED
    BY <2>1, <2>2
<1>7. Around' = Live
  BY <1>5, <1>6 DEF Around
<1>8. Base'
  <2>1. \A n \in Live : \A j \in DOMAIN succs'[n] : up[succs'[n][j]] => succs'[n][j] \in Live
    <3>1. ~up[x]
      BY <1>2 DEF Gap
    <3>2. \A n \in Live : \A j \in DOMAIN succs'[n] : up[succs'[n][j]] => succs'[n][j] \in Around
      BY DEF Closes
    <3> QED
      BY <1>1, <3>1, <3>2
  <2>2. \A n \in Peers \ member : up[n] => data'[n] = Empty
    <3>1. q \in member
      BY <1>2 DEF Live
    <3> QED
      BY <1>4, <3>1 DEF Base
  <2>3. leaves' = 0 /\ suspicions' = 0 /\ crashes' \in Nat /\ Live # {} /\ Empty' = Empty
        /\ \A n \in member : ~up[n] => crashes > 0
    BY <1>2 DEF Base, Empty
  <2> QED
    BY <1>2, <1>5, <1>6, <1>7, <2>1, <2>2, <2>3 DEF Base
<1>9. ~Pristine'
  <2>1. ASSUME NEW y, Gap(y)' PROVE y \notin Around'
    BY <1>2, <1>5, <1>7, <2>1 DEF Gap, Live
  <2>2. crashes' # 0
    BY <1>1, <1>2 DEF Base
  <2> QED
    BY <2>1, <2>2 DEF Pristine
<1>10. \A k : Own(k)' = ResponsibleId(k, Live)
  BY <1>7 DEF Own
<1> QED
  BY <1>3, <1>4, <1>5, <1>7, <1>8, <1>9, <1>10

\* The values of x are at q then: they were in its replica, and nothing else was.
LEMMA ClosedKeeps ==
  ASSUME TypeOK, Base, DataInv, NEW x, NEW q, Closes(x, q),
         \A j \in DOMAIN Op' : Op'[j].do # "settle",
         \A n : Pending(n) => Pending(n)',
         \A p : p = PredIn(x, Around) /\ p # q => Pending(q)' /\ Pending(p)'
  PROVE  DataInv'
<1>1. PICK p : p = PredIn(x, Around)
  OBVIOUS
<1>2. /\ x \in Around /\ x \notin Live /\ Pristine
      /\ p \in Live
      /\ \A n \in Live : pred[n] # p
      /\ \A m, n \in Live : pred[m] = pred[n] => m = n
      /\ \A k \in Slots : /\ ResponsibleId(k, Live) \in Live
                          /\ Own(k) # x => Own(k) = ResponsibleId(k, Live)
                          /\ Own(k) = x => pred[ResponsibleId(k, Live)] = x
  <2>1. x \in Around /\ Gap(x)
    BY GapIs DEF Closes
  <2> QED
    BY <1>1, <2>1, GapIs DEF Pristine
<1>3. /\ Live' = Live
      /\ \A k : Own(k)' = ResponsibleId(k, Live)
      /\ pred'[q] = p
      /\ \A n \in Live : n # q => /\ pred'[n] = pred[n] /\ data'[n] = data[n]
                                  /\ replicas'[n] = replicas[n]
      /\ data'[q] = Merge(data[q], replicas[q])
      /\ ~Pristine'
  BY <1>1, ClosedIs
<1>4. q \in Live /\ pred[q] = x /\ acked' = acked /\ staleRead' = staleRead /\ q \in Peers
  BY RingTyped DEF Closes
<1>5. NewestKept /\ Copied /\ Covered /\ OthersOnly /\ ~staleRead /\ \A k \in Keys : k \in Slots
  BY <1>2, RingTyped DEF DataInv
<1>6. \A k \in Keys : /\ data[q][k] \in Nat /\ replicas[q][k] \in Nat /\ acked[k] \in Nat
                      /\ data'[q][k] = IF replicas[q][k] # 0 THEN replicas[q][k] ELSE data[q][k]
  <2>1. data[q] \in Values /\ replicas[q] \in Values /\ acked \in Values
    BY <1>4 DEF TypeOK
  <2> QED
    BY <1>3, <2>1, ValuesAre DEF Merge
<1>7. ASSUME NEW k \in Keys, NEW o, o = ResponsibleId(k, Live) PROVE data'[o][k] >= acked[k]
  <2>0. o \in Live
    BY <1>2, <1>5, <1>7
  <2>1. CASE Own(k) = x
    <3>1. o = q
      BY <1>2, <1>4, <1>5, <1>7, <2>1
    <3>2. replicas[q][k] >= acked[k]
      BY <1>2, <1>4, <1>5, <2>1 DEF Covered
    <3> QED
      BY <1>6, <3>1, <3>2
  <2>2. CASE Own(k) # x
    <3>1. Own(k) = o /\ data[o][k] >= acked[k]
      BY <1>2, <1>5, <1>7, <2>0, <2>2 DEF NewestKept
    <3>2. CASE o = q
      <4>1. replicas[q][k] = 0
        BY <1>4, <1>5, <3>1, <3>2 DEF OthersOnly
      <4> QED
        BY <1>6, <3>1, <3>2, <4>1
    <3>3. CASE o # q
      BY <1>3, <2>0, <3>1, <3>3
    <3> QED
      BY <3>2, <3>3
  <2> QED
    BY <2>1, <2>2
<1>8. NewestKept'
  BY <1>3, <1>4, <1>7 DEF NewestKept
<1>9. ASSUME NEW r \in Live, NEW n \in Live, n = pred'[r], n # r, ~Pending(n)',
             NEW k \in Keys, ResponsibleId(k, Live) = n
      PROVE  replicas'[r][k] = data'[n][k]
  <2>1. r # q
    <3>1. r = q => n = p /\ p # q
      BY <1>3, <1>9
    <3>2. p # q => Pending(p)'
      BY <1>1
    <3> QED
      BY <1>9, <3>1, <3>2
  <2>2. n = pred[r] /\ replicas'[r] = replicas[r]
    BY <1>3, <1>9, <2>1
  <2>3. n # q
    <3>1. p # n
      BY <1>2, <2>2
    <3> QED
      BY <1>1, <1>9, <3>1
  <2>4. Own(k) = n
    <3>1. Own(k) # x
      BY <1>2, <1>4, <1>5, <1>9, <2>3
    <3> QED
      BY <1>2, <1>5, <1>9, <3>1
  <2>5. ~Pending(n)
    BY <1>9
  <2>6. replicas[r][k] = data[n][k]
    BY <1>5, <1>9, <2>2, <2>4, <2>5 DEF Copied
  <2> QED
    BY <1>3, <2>2, <2>3, <2>6
<1>10. Copied'
  <2>1. ASSUME NEW r \in Live, NEW k \in Keys, pred'[r] \in Live, pred'[r] # r,
               ResponsibleId(k, Live) = pred'[r], ~(Pending(pred[r]))'
        PROVE  replicas'[r][k] = data'[pred'[r]][k]
    <3>1. PICK n \in Live : n = pred'[r]
      BY <2>1
    <3>2. ~Pending(n)'
      BY <2>1, <3>1 DEF Pending
    <3> QED
      BY <1>9, <2>1, <3>1, <3>2
  <2> QED
    BY <1>3, <2>1 DEF Copied
<1>11. Given'
  BY DEF Given
<1> QED
  BY <1>3, <1>4, <1>5, <1>8, <1>10, <1>11 DEF DataInv

\* The one before a dead peer, alone: it closes the ring on itself.
LEMMA AloneKeeps ==
  ASSUME TypeOK, Serial, Geometry, NEW t \in Tasks, NEW i, Op # <<>>, i = Op[1], Reached(i),
         RepairStep(t, i), Live = {i.at}
  PROVE  Geometry' /\ (DataInv => DataInv')
<1>1. PICK p, x : p = i.at /\ x = Succ(p)
  OBVIOUS
<1>2. PICK new, beat : new = WithoutFirst(p) /\ beat = Call("beat", p, p)
  OBVIOUS
<1>3. i.do = "repair" /\ Repair /\ Base /\ Len(Op) = 1 /\ Torn /\ Live = {p} /\ x \notin Live
  BY <1>1, PhaseIs DEF RepairStep, Geometry, Repair
<1>4. /\ Gap(x) /\ SuccsOn(Around) /\ succs[p] = SuccessorsIn(p, Around, SuccLen)
  <2>1. PICK y \in Peers : /\ Gap(y) /\ SuccsOn(Around)
                           /\ \A n \in Live : Succ(n) = y => succs[n] = SuccessorsIn(n, Around, SuccLen)
    BY <1>3 DEF Torn
  <2>2. Succ(p) \in Around
    BY <1>3, <2>1 DEF SuccsOn
  <2>3. x = y
    BY <1>1, <1>3, <2>1, <2>2 DEF Gap
  <2> QED
    BY <1>1, <1>3, <2>1, <2>3
<1>5. x \in Around /\ Around = {p, x} /\ PredIn(x, Around) = p /\ p \in Live
  BY <1>1, <1>3, <1>4, GapIs DEF SuccsOn
<1>6. Around \in SUBSET Slots /\ p \in Around /\ p \in Peers /\ succs[p] \in Seq(Peers) /\ succs[p] # <<>>
      /\ pred[p] \in Around
  BY <1>3, <1>5, RingTyped DEF TypeOK
<1>7. succs[p] = <<x>>
  <2>1. SuccLen \in Nat \ {0} /\ SuccLen >= 2
    BY RingAssumption DEF Serial
  <2>2. PICK ids : ids = Around
    OBVIOUS
  <2>3. LET s == SuccessorsIn(p, ids, SuccLen) IN
        \A y : SuccLen >= 2 /\ y = s[1] /\ ids = {p, y} => s = <<y>>
    <3>1. ids \in SUBSET Slots /\ p \in ids
      BY <1>6, <2>2
    <3> QED
      BY <2>1, <3>1, SuccessorListIs, Zenon
  <2> QED
    BY <1>1, <1>4, <1>5, <2>1, <2>2, <2>3 DEF Succ
<1>8. new = <<p>>
  <2>1. PICK u : u = Tail(succs[p])
    OBVIOUS
  <2>2. u \in Seq(Peers) /\ u = <<>>
    <3>1. u \in Seq(Peers) /\ Len(u) = 0
      BY <1>6, <1>7, <2>1
    <3> QED
      BY <3>1
  <2>3. u \in Seq(Peers) /\ SetSuccs(p, u) = <<p>>
    BY <1>6, <2>2, NewList
  <2> QED
    BY <1>2, <2>1, <2>3 DEF WithoutFirst
<1>9. /\ succs' = [succs EXCEPT ![p] = new] /\ pred' = [pred EXCEPT ![p] = p] /\ Promote(p)
      /\ Then(t, <<beat>>)
      /\ UNCHANGED <<up, member, acked, staleRead, leaves, crashes, suspicions>>
  <2>1. new[1] = p
    BY <1>8
  <2> QED
    BY <1>1, <1>2, <2>1 DEF RepairStep, hist, bounds
<1>10. succs'[p] = <<p>> /\ Succ(p)' = p
  BY <1>6, <1>8, <1>9 DEF TypeOK, Succ
<1>11. pred[p] = x
  <2>1. pred[p] = p <=> Around = {p}
    BY <1>3, <1>5, RingTyped
  <2>2. x # p
    BY <1>3, <1>5
  <2> QED
    BY <1>5, <1>6, <2>1, <2>2
<1>12. Closes(x, p)
  <2>1. \A n \in Live : \A j \in DOMAIN succs'[n] : up[succs'[n][j]] => succs'[n][j] \in Around
    <3>1. DOMAIN <<p>> = {1} /\ <<p>>[1] = p
      OBVIOUS
    <3>2. p \in Around /\ \A n \in Live : succs'[n] = <<p>>
      BY <1>3, <1>6, <1>10
    <3> QED
      BY <3>1, <3>2, Zenon
  <2> QED
    BY <1>4, <1>5, <1>9, <1>11, <2>1 DEF Closes
<1>13. Live' = {p} /\ Around' = {p} /\ Base'
  BY <1>3, <1>12, ClosedIs
<1>14. Len(Op') = 1 /\ Op'[1] = beat /\ DOMAIN Op' = {1}
  BY <1>3, <1>9, OpIs, OneIs
<1>15. beat.do = "beat" /\ beat.at = p /\ beat.by = p
  BY <1>2 DEF Call
<1>16. Sound'
  <2>1. {p} \in SUBSET Slots /\ PredIn(p, {p}) = p
    BY <1>6, PredSelf
  <2> QED
    BY <1>10, <1>13, <2>1 DEF Sound, SuccsOn
<1>17. Phase'
  <2>1. Beat'
    BY <1>13, <1>14, <1>15, <1>16 DEF Beat, AtRest
  <2> QED
    BY <2>1 DEF Phase
<1>18. \A n : ~Pending(n)
  BY <1>1, <1>3, OneIs DEF Pending
<1>19. DataInv => DataInv'
  BY <1>3, <1>5, <1>12, <1>14, <1>15, <1>18, ClosedKeeps
<1> QED
  BY <1>13, <1>17, <1>19 DEF Geometry

\* The second entry of the list takes the place of the dead first one.
LEMMA SecondIs ==
  ASSUME TypeOK, Serial, Base, Torn, NEW p \in Live, Succ(p) \notin Live, Live # {p}
  PROVE  LET x == Succ(p)
             s == succs[p][2] IN
         /\ Gap(x) /\ PredIn(x, Around) = p
         /\ 2 \in DOMAIN succs[p] /\ s \in Live /\ s # p /\ pred[s] = x
         /\ PredIn(s, Live) = p
         /\ \A n \in Live : n # p => Succ(n) \in Live /\ PredIn(Succ(n), Live) = n
<1>1. PICK x, s : x = Succ(p) /\ s = succs[p][2]
  OBVIOUS
<1>2. /\ Gap(x) /\ SuccsOn(Around) /\ succs[p] = SuccessorsIn(p, Around, SuccLen)
  <2>1. PICK y \in Peers : /\ Gap(y) /\ SuccsOn(Around)
                           /\ \A n \in Live : Succ(n) = y => succs[n] = SuccessorsIn(n, Around, SuccLen)
    BY DEF Torn
  <2>2. Succ(p) \in Around
    BY <2>1 DEF SuccsOn
  <2>3. x = y
    BY <1>1, <2>1, <2>2 DEF Gap
  <2> QED
    BY <1>1, <2>1, <2>3
<1>3. /\ x \in Around /\ x \notin Live /\ Around \ {x} = Live /\ PredIn(x, Around) = p
      /\ \A q \in Live : /\ pred[q] = x => PredIn(q, Live) = PredIn(x, Around)
                         /\ pred[q] # x => PredIn(q, Live) = pred[q] /\ pred[q] \in Live
                         /\ pred[q] # PredIn(x, Around)
  BY <1>1, <1>2, GapIs DEF SuccsOn
<1>4. Around \in SUBSET Slots /\ p \in Around /\ DOMAIN succs[p] = 1 .. Len(succs[p])
      /\ Len(succs[p]) \in Nat \ {0} /\ \A q \in Live : pred[q] = PredIn(q, Around)
  BY RingTyped
<1>5. Len(succs[p]) >= 2 /\ s \in Around \ {p, x} /\ PredIn(s, Around \ {x}) = p
  <2>1. SuccLen \in Nat \ {0} /\ SuccLen >= 2
    BY RingAssumption DEF Serial
  <2>2. PICK ids : ids = Around
    OBVIOUS
  <2>3. LET w == SuccessorsIn(p, ids, SuccLen) IN
        \A y : SuccLen >= 2 /\ y = w[1] /\ ids \ {p, y} # {} =>
              Len(w) >= 2 /\ w[2] \in ids \ {p, y} /\ PredIn(w[2], ids \ {y}) = p
    <3>1. ids \in SUBSET Slots /\ p \in ids
      BY <1>4, <2>2
    <3> QED
      BY <2>1, <3>1, SuccessorListIs, Zenon
  <2>4. Around \ {p, x} # {}
    BY <1>3, RingTyped
  <2>5. SuccessorsIn(p, ids, SuccLen) = succs[p] /\ x = succs[p][1]
    BY <1>1, <1>2, <2>2 DEF Succ
  <2>6. Len(succs[p]) >= 2 /\ succs[p][2] \in ids \ {p, x} /\ PredIn(succs[p][2], ids \ {x}) = p
    BY <2>1, <2>2, <2>3, <2>4, <2>5, Zenon
  <2> QED
    BY <1>1, <2>2, <2>6
<1>6. 2 \in DOMAIN succs[p] /\ s \in Live /\ s # p /\ PredIn(s, Live) = p
  <2>1. 2 \in DOMAIN succs[p]
    BY <1>4, <1>5
  <2> QED
    BY <1>3, <1>5, <2>1
<1>7. pred[s] = x
  BY <1>3, <1>6
<1>8. ASSUME NEW n \in Live, n # p PROVE Succ(n) \in Live /\ PredIn(Succ(n), Live) = n
  <2>1. Succ(n) \in Around /\ PredIn(Succ(n), Around) = n
    BY <1>2 DEF SuccsOn
  <2>2. Succ(n) \in Live
    BY <1>3, <1>8, <2>1
  <2>3. pred[Succ(n)] = n
    BY <1>4, <2>1, <2>2
  <2>4. n # x
    BY <1>3
  <2> QED
    BY <1>3, <2>2, <2>3, <2>4
<1> QED
  BY <1>1, <1>2, <1>3, <1>6, <1>7, <1>8

LEMMA RepairKeeps ==
  ASSUME TypeOK, Serial, Geometry, NEW t \in Tasks, NEW i, Op # <<>>, i = Op[1], Reached(i),
         RepairStep(t, i)
  PROVE  Geometry' /\ (DataInv => DataInv')
<1>1. PICK p, x, s : p = i.at /\ x = Succ(p) /\ s = succs[p][2]
  OBVIOUS
<1>2. PICK new, beat, push : new = WithoutFirst(p) /\ beat = Call("beat", p, p) /\ push = Push(p)
  OBVIOUS
<1>3. /\ i.do = "repair" /\ Repair /\ Base /\ Len(Op) = 1 /\ Torn /\ p \in Live /\ x \notin Live
      /\ i.by = p
  BY <1>1, PhaseIs DEF RepairStep, Geometry, Repair
<1>4. SUFFICES ASSUME Live # {p} PROVE Geometry' /\ (DataInv => DataInv')
  BY <1>1, AloneKeeps
<1>5. /\ Gap(x) /\ PredIn(x, Around) = p
      /\ 2 \in DOMAIN succs[p] /\ s \in Live /\ s # p /\ pred[s] = x
      /\ PredIn(s, Live) = p
      /\ \A n \in Live : n # p => Succ(n) \in Live /\ PredIn(Succ(n), Live) = n
  BY <1>1, <1>3, <1>4, SecondIs
<1>6. p \in Peers /\ succs[p] \in Seq(Peers) /\ Live \subseteq Around
  BY <1>3, RingTyped DEF TypeOK
<1>7. new[1] = s /\ \A j \in DOMAIN new : \E k \in DOMAIN succs[p] : new[j] = succs[p][k]
  <2>1. PICK u : u = Tail(succs[p])
    OBVIOUS
  <2>2. u \in Seq(Peers) /\ u # <<>> /\ u[1] = s
    <3>1. Len(succs[p]) \in Nat /\ Len(succs[p]) >= 2
      BY <1>5, <1>6
    <3>2. u \in Seq(Peers) /\ Len(u) = Len(succs[p]) - 1 /\ u[1] = succs[p][2]
      BY <1>6, <2>1, <3>1
    <3> QED
      BY <1>1, <3>1, <3>2
  <2>3. \A j \in DOMAIN u : \E k \in DOMAIN succs[p] : u[j] = succs[p][k]
    BY <1>5, <1>6, <2>1, PartsAre
  <2>4. SetSuccs(p, u)[1] = u[1] /\ \A j \in DOMAIN SetSuccs(p, u) : \E k \in DOMAIN u : SetSuccs(p, u)[j] = u[k]
    BY <1>5, <1>6, <2>2, NewList
  <2>5. new = SetSuccs(p, u)
    BY <1>2, <2>1 DEF WithoutFirst
  <2> QED
    BY <2>2, <2>3, <2>4, <2>5
<1>8. PICK link : link = [do |-> "setPred", at |-> s, by |-> p, peer |-> p, promote |-> TRUE]
  OBVIOUS
<1>9. link.do = "setPred" /\ link.at = s /\ link.by = p /\ link.peer = p /\ link.promote = TRUE
  BY <1>8
<1>10. /\ succs' = [succs EXCEPT ![p] = new] /\ Then(t, <<link, push, beat>>)
       /\ UNCHANGED <<up, pred, data, replicas, member, acked, staleRead, leaves, crashes, suspicions>>
  BY <1>1, <1>2, <1>5, <1>7, <1>8 DEF RepairStep, hist, bounds
<1>11. NewSuccs(p, new)
  <2>1. \A j \in DOMAIN new : up[new[j]] => new[j] \in Around
    BY <1>3, <1>7 DEF Base
  <2> QED
    BY <1>10, <2>1 DEF NewSuccs
<1>12. /\ Live' = Live /\ Around' = Around /\ Base' /\ Succ(p)' = s
       /\ \A q \in Live : q # p => Succ(q)' = Succ(q)
       /\ \A y \in Peers : Gap(y)' <=> Gap(y)
  BY <1>3, <1>7, <1>11, NewSuccsAre
<1>13. (SuccsOn(Live))'
  BY <1>5, <1>12 DEF SuccsOn
<1>14. /\ Len(Op') = 3 /\ DOMAIN Op' = 1 .. 3 /\ Op'[1] = link /\ Op'[2] = push /\ Op'[3] = beat
  <2>1. \A ops \in Seq(Instructions) : ops # <<>> =>
          /\ Len(<<link, push, beat>> \o Tail(ops)) = Len(ops) + 2
          /\ DOMAIN (<<link, push, beat>> \o Tail(ops)) = 1 .. (Len(ops) + 2)
          /\ (<<link, push, beat>> \o Tail(ops))[1] = link
          /\ (<<link, push, beat>> \o Tail(ops))[2] = push
          /\ (<<link, push, beat>> \o Tail(ops))[3] = beat
    BY Spliced
  <2>2. Op \in Seq(Instructions) /\ 1 + 2 = 3
    BY FirstIs
  <2>3. Op' = <<link, push, beat>> \o Tail(Op)
    BY <1>10, OpIs
  <2> QED
    BY <1>3, <2>1, <2>2, <2>3, Zenon
<1>15. Phase'
  <2>1. x \in Peers /\ pred'[s] = x
    BY <1>1, <1>3, <1>5, <1>10, RingTyped
  <2>2. Gap(x)' /\ PredIn(x, Around') = p
    BY <1>5, <1>12, <2>1
  <2>3. push = Push(p)' /\ beat = Call("beat", p, p)
    BY <1>2 DEF Push, Call
  <2>4. RepairLink'
    BY <1>3, <1>5, <1>9, <1>12, <1>13, <1>14, <2>1, <2>2, <2>3 DEF RepairLink
  <2> QED
    BY <2>4 DEF Phase
<1>16. \A n : ~Pending(n)
  BY <1>1, <1>3, OneIs DEF Pending
<1>17. \A j \in DOMAIN Op' : Op'[j].do # "settle"
  <2>1. push.do = "push" /\ beat.do = "beat"
    BY <1>2 DEF Push, Call
  <2>2. \A j \in 1 .. 3 : j = 1 \/ j = 2 \/ j = 3
    OBVIOUS
  <2> QED
    BY <1>9, <1>14, <2>1, <2>2
<1> QED
  BY <1>3, <1>11, <1>15, <1>16, <1>17, NewSuccsKeep

\* The peer after the gap closes it, and takes over what the dead one had.
LEMMA SetPredKeeps ==
  ASSUME TypeOK, Serial, Geometry, NEW t \in Tasks, NEW i, Op # <<>>, i = Op[1], Reached(i),
         SetPredStep(t, i)
  PROVE  Geometry' /\ (DataInv => DataInv')
<1>1. PICK q, p, x : q = i.at /\ p = i.by /\ x = pred[q]
  OBVIOUS
<1>2. PICK copy, push, beat : copy = Push(q) /\ push = Push(p) /\ beat = Call("beat", p, p)
  OBVIOUS
<1>3. /\ i.do = "setPred" /\ RepairLink /\ Base /\ Len(Op) = 3 /\ SuccsOn(Live)
      /\ i.promote /\ p \in Live /\ i.peer = p /\ q = Succ(p) /\ q # p
      /\ Gap(x) /\ PredIn(x, Around) = p /\ Op[2] = push /\ Op[3] = beat
  BY <1>1, <1>2, PhaseIs DEF SetPredStep, Geometry, RepairLink
<1>4. q \in Live
  BY <1>3 DEF SuccsOn
<1>5. /\ pred' = [pred EXCEPT ![q] = p] /\ Promote(q) /\ Then(t, <<copy>>)
      /\ UNCHANGED <<up, succs, member, acked, staleRead, leaves, crashes, suspicions>>
  BY <1>1, <1>2, <1>3 DEF SetPredStep, hist, bounds
<1>6. Closes(x, q)
  <2>1. \A n \in Live : \A j \in DOMAIN succs'[n] : up[succs'[n][j]] => succs'[n][j] \in Around
    BY <1>3, <1>5 DEF Base
  <2> QED
    BY <1>1, <1>3, <1>4, <1>5, <2>1 DEF Closes
<1>7. Live' = Live /\ Around' = Live /\ Base'
  BY <1>3, <1>6, ClosedIs
<1>8. \A n : Succ(n)' = Succ(n)
  BY <1>5 DEF Succ
<1>9. Sound'
  BY <1>3, <1>7, <1>8 DEF Sound, SuccsOn
<1>10. /\ Len(Op') = 3 /\ DOMAIN Op' = 1 .. 3 /\ Op'[1] = copy /\ Op'[2] = push /\ Op'[3] = beat
  <2>1. \A ops \in Seq(Instructions) : ops # <<>> =>
          /\ Len(<<copy>> \o Tail(ops)) = Len(ops)
          /\ DOMAIN (<<copy>> \o Tail(ops)) = 1 .. Len(ops)
          /\ (<<copy>> \o Tail(ops))[1] = copy
          /\ \A j \in 2 .. Len(ops) : (<<copy>> \o Tail(ops))[j] = ops[j]
    BY Spliced
  <2>2. Op \in Seq(Instructions) /\ 2 \in 2 .. 3 /\ 3 \in 2 .. 3
    BY FirstIs
  <2>3. Op' = <<copy>> \o Tail(Op)
    BY <1>5, OpIs
  <2>4. /\ Len(Op') = 3 /\ DOMAIN Op' = 1 .. 3 /\ Op'[1] = copy
        /\ \A j \in 2 .. 3 : Op'[j] = Op[j]
    BY <1>3, <2>1, <2>2, <2>3, Zenon
  <2> QED
    BY <1>3, <2>2, <2>4
<1>11. /\ copy.do = "push" /\ copy.at = q /\ copy.by = q
       /\ push.do = "push" /\ push.by = p /\ beat.do = "beat"
  BY <1>2 DEF Push, Call
<1>12. Phase'
  <2>1. push = Push(p)' /\ beat = Call("beat", p, p)'
    BY <1>2 DEF Push, Call
  <2>3. Copying(Op[1], Succ(p))'
    BY <1>3, <1>8, <1>10, <1>11 DEF Copying
  <2>4. RepairCopy'
    BY <1>3, <1>7, <1>8, <1>9, <1>10, <2>1, <2>3 DEF RepairCopy
  <2> QED
    BY <2>4 DEF Phase
<1>13. \A j \in 1 .. 3 : j = 1 \/ j = 2 \/ j = 3
  OBVIOUS
<1>14. \A j \in DOMAIN Op' : Op'[j].do # "settle"
  BY <1>10, <1>11, <1>13
<1>15. Pending(q)' /\ Pending(p)'
  <2>1. 1 \in DOMAIN Op' /\ 2 \in DOMAIN Op'
    BY <1>10
  <2> QED
    BY <1>10, <1>11, <2>1 DEF Pending
<1>16. \A n : Pending(n) => Pending(n)'
  <2>1. \A n : Pending(n) => n = p
    <3>1. DOMAIN Op = 1 .. 3
      BY <1>3, FirstIs
    <3> QED
      BY <1>1, <1>3, <1>11, <1>13, <3>1 DEF Pending
  <2> QED
    BY <1>15, <2>1
<1>17. DataInv => DataInv'
  BY <1>3, <1>6, <1>14, <1>15, <1>16, ClosedKeeps
<1> QED
  BY <1>7, <1>12, <1>17 DEF Geometry

-----------------------------------------------------------------------------
(* A put                                                                    *)

\* The owner stores the value, and its copy is yet to come.
LEMMA StoreKeeps ==
  ASSUME TypeOK, Serial, Geometry, NEW t \in Tasks, NEW i, Op # <<>>, i = Op[1], Reached(i),
         StoreStep(t, i)
  PROVE  Geometry' /\ (DataInv => DataInv')
<1>1. PICK o, kid : o = i.at /\ kid = i.kid
  OBVIOUS
<1>2. /\ i.do = "store" /\ Searching /\ Base /\ AtRest /\ kid \in Keys /\ o \in Peers
      /\ Writes(2) /\ o \in Live /\ o = Own(kid)
  <2>1. i \in Instructions /\ i.do = "store"
    BY FirstIs DEF StoreStep
  <2>2. i \in Searches /\ o \in Peers /\ i.next = "store" /\ kid \in Keys
    BY <1>1, <2>1, Carried DEF Searches
  <2>3. Searching /\ Base
    BY <2>1, PhaseIs DEF Geometry
  <2> QED
    BY <1>1, <2>1, <2>2, <2>3 DEF Searching, Known, Reached
<1>3. PICK version, push, ack :
        /\ version = stores + 1 /\ push = Push(o)
        /\ ack = [do |-> "ack", at |-> o, by |-> i.by, kid |-> kid, version |-> stores + 1]
  OBVIOUS
<1>4. /\ data' = [data EXCEPT ![o][kid] = version] /\ Then(t, <<push, ack>>)
      /\ UNCHANGED <<up, pred, succs, replicas, member, acked, staleRead, leaves, crashes, suspicions>>
  BY <1>1, <1>3 DEF StoreStep, bounds
<1>5. /\ push.do = "push" /\ push.at = o /\ push.by = o
      /\ ack.do = "ack" /\ ack.at = o /\ ack.kid = kid /\ ack.version = version
  BY <1>3 DEF Push, Call
<1>6. /\ data'[o][kid] = version
      /\ \A p \in Peers, k \in Keys : p # o \/ k # kid => data'[p][k] = data[p][k]
      /\ \A p \in Peers : p # o => data'[p] = data[p]
  <2>1. data \in [Peers -> Values] /\ \A v \in Values : v \in [Keys -> 0 .. stores]
    BY DEF TypeOK, Values
  <2>2. \A p \in Peers : data[p] \in [Keys -> 0 .. stores]
    BY <2>1
  <2>3. data'[o] = [data[o] EXCEPT ![kid] = version] /\ \A p \in Peers : p # o => data'[p] = data[p]
    BY <1>2, <1>4, <2>1
  <2> QED
    BY <1>2, <2>2, <2>3
<1>7. SamePointers
  BY <1>4 DEF SamePointers
<1>8. /\ Live' = Live /\ Around' = Around /\ AtRest'
      /\ \A k : Own(k)' = Own(k)
      /\ \A p \in Peers : Known(p) => Known(p)'
      /\ \A x \in Peers : Gap(x)' <=> Gap(x)
  BY <1>2, <1>7, PointersAre
<1>9. Base'
  <2>1. \A p \in Peers \ member : data'[p] = data[p]
    BY <1>2, <1>6 DEF Live
  <2> QED
    BY <1>2, <1>7, <2>1, PointersAre
<1>10. /\ Len(Op') >= 2 /\ Op'[1] = push /\ Op'[2] = ack /\ DOMAIN Op' = 1 .. Len(Op')
       /\ Op' = <<push, ack>> \o Tail(Op) /\ 1 \in DOMAIN Op'
       /\ \A j \in DOMAIN Op' : j = 1 \/ j = 2 \/ \E l \in DOMAIN Op : Op'[j] = Op[l]
  <2>1. \A ops \in Seq(Instructions) : ops # <<>> =>
          /\ Len(<<push, ack>> \o Tail(ops)) = Len(ops) + 1
          /\ DOMAIN (<<push, ack>> \o Tail(ops)) = 1 .. (Len(ops) + 1)
          /\ (<<push, ack>> \o Tail(ops))[1] = push
          /\ (<<push, ack>> \o Tail(ops))[2] = ack
          /\ \A j \in 3 .. (Len(ops) + 1) : (<<push, ack>> \o Tail(ops))[j] = ops[j - 1]
    BY Spliced
  <2>2. Op \in Seq(Instructions) /\ Len(Op) \in Nat \ {0} /\ DOMAIN Op = 1 .. Len(Op)
    BY FirstIs
  <2>3. Op' = <<push, ack>> \o Tail(Op)
    BY <1>4, OpIs
  <2>4. /\ Len(Op') = Len(Op) + 1 /\ DOMAIN Op' = 1 .. (Len(Op) + 1)
        /\ Op'[1] = push /\ Op'[2] = ack
        /\ \A j \in 3 .. (Len(Op) + 1) : Op'[j] = Op[j - 1]
    BY <2>1, <2>2, <2>3, Zenon
  <2>5. \A j \in 1 .. (Len(Op) + 1) : j = 1 \/ j = 2 \/ (j \in 3 .. (Len(Op) + 1) /\ j - 1 \in 1 .. Len(Op))
    BY <2>2
  <2>6. Len(Op) + 1 >= 2 /\ 1 \in 1 .. (Len(Op) + 1)
    BY <2>2
  <2>7. \A j \in DOMAIN Op' : j = 1 \/ j = 2 \/ \E l \in DOMAIN Op : Op'[j] = Op[l]
    BY <2>2, <2>4, <2>5
  <2> QED
    BY <2>3, <2>4, <2>6, <2>7
<1>11. version \in Nat /\ version >= version /\ version # 0 /\ \A k \in Keys : acked[k] \in Nat /\ acked[k] <= version
  <2>1. stores \in Nat /\ \A k \in Keys : acked[k] \in 0 .. stores
    BY ValuesAre DEF TypeOK
  <2> QED
    BY <1>3, <2>1
<1>12. Phase'
  <2>1. AckOf(ack)'
    <3>1. Own(kid)' = o
      BY <1>2, <1>8
    <3>2. Known(o)'
      BY <1>2, <1>8 DEF Known
    <3> QED
      BY <1>5, <1>6, <1>11, <3>1, <3>2 DEF AckOf
  <2>2. Copying(push, o)'
    BY <1>5 DEF Copying
  <2>3. Writes(3)'
    <3>1. 1 \in Nat /\ 1 >= 1 /\ 1 + 1 = 2 /\ 1 + 2 = 3
      OBVIOUS
    <3>2. \A m \in Nat : m >= 1 /\ Writes(m + 1) => \A c, d : Op' = <<c, d>> \o Tail(Op) => Writes(m + 2)'
      BY <1>8, WritesOn
    <3>3. Writes(1 + 1)
      BY <1>2, <3>1
    <3>4. Writes(1 + 2)'
      BY <1>10, <3>1, <3>2, <3>3
    <3> QED
      BY <3>4
  <2>4. StoreCopy'
    BY <1>5, <1>8, <1>10, <2>1, <2>2, <2>3 DEF StoreCopy
  <2> QED
    BY <2>4 DEF Phase
<1>13. \A j \in DOMAIN Op : Op[j].do \notin {"push", "snap", "replicate", "settle"}
  BY <1>2, TailIs
<1>14. Pending(o)'
  BY <1>5, <1>10 DEF Pending
<1>15. Pristine' => Pristine
  BY <1>2, <1>4, <1>8, PristineKept
<1>16. ASSUME DataInv PROVE DataInv'
  <2>0. Live \subseteq Peers
    BY <1>2, RingTyped
  <2>1. NewestKept /\ Copied /\ ~staleRead /\ (Pristine => Covered /\ OwnOnly /\ OthersOnly)
    BY <1>16 DEF DataInv
  <2>2. NewestKept'
    <3>1. ASSUME NEW k \in Keys, Own(k) \in Live PROVE data'[Own(k)][k] >= acked[k]
      BY <1>6, <1>11, <2>0, <2>1, <3>1 DEF NewestKept
    <3> QED
      BY <1>4, <1>8, <3>1 DEF NewestKept
  <2>3. Copied'
    <3>1. ASSUME NEW q \in Live, NEW k \in Keys, pred[q] \in Live, pred[q] # q, Own(k) = pred[q],
                 pred[q] # o
          PROVE  replicas[q][k] = data'[pred[q]][k]
      <4>1. replicas[q][k] = data[pred[q]][k]
        BY <1>13, <2>1, <3>1 DEF Copied, Pending
      <4> QED
        BY <1>6, <2>0, <3>1, <4>1
    <3>2. ASSUME NEW q, ~(Pending(pred[q]))' PROVE pred[q] # o
      <4>1. PICK n : n = pred[q]
        OBVIOUS
      <4>2. ~Pending(n)'
        BY <1>4, <3>2, <4>1 DEF Pending
      <4> QED
        BY <1>14, <4>1, <4>2
    <3> QED
      BY <1>4, <1>8, <3>1, <3>2 DEF Copied
  <2>4. Given'
    <3>1. \A j \in DOMAIN Op' : Op'[j].do # "settle"
      BY <1>5, <1>10, <1>13
    <3> QED
      BY <3>1 DEF Given
  <2>5. ASSUME Pristine' PROVE Covered' /\ OwnOnly' /\ OthersOnly'
    <3>1. Covered /\ OwnOnly /\ OthersOnly
      BY <1>15, <2>1, <2>5
    <3>2. Covered' /\ OthersOnly'
      BY <1>4, <1>8, <3>1 DEF Covered, OthersOnly
    <3>3. ASSUME NEW p \in Live, NEW k \in Keys, data'[p][k] # 0 PROVE Own(k) = p
      BY <1>2, <1>6, <2>0, <3>1, <3>3 DEF OwnOnly
    <3>4. OwnOnly'
      BY <1>8, <3>3 DEF OwnOnly
    <3> QED
      BY <3>2, <3>4
  <2>6. ~staleRead'
    BY <1>4, <2>1
  <2> QED
    BY <2>2, <2>3, <2>4, <2>5, <2>6 DEF DataInv
<1> QED
  BY <1>9, <1>12, <1>16 DEF Geometry

\* The value that is acknowledged is at its owner, and in its replica.
LEMMA AckKeeps ==
  ASSUME TypeOK, Serial, Geometry, NEW t \in Tasks, NEW i, Op # <<>>, i = Op[1], Reached(i),
         AckStep(t, i)
  PROVE  Geometry' /\ (DataInv => DataInv')
<1>1. PICK o, kid, version : o = i.at /\ kid = i.kid /\ version = i.version
  OBVIOUS
<1>2. /\ i.do = "ack" /\ StoreAck /\ Base /\ AtRest /\ kid \in Keys /\ version \in Nat
      /\ Writes(2) /\ o \in Live /\ o = Own(kid) /\ data[o][kid] >= version
  <2>1. i \in Instructions /\ i.do = "ack"
    BY FirstIs DEF AckStep
  <2>2. o \in Peers /\ kid \in Keys /\ version \in Nat
    <3>1. o \in Peers /\ kid \in Keys /\ version \in 0 .. stores
      BY <1>1, <2>1, Carried
    <3> QED
      BY <3>1, ValuesAre
  <2>3. StoreAck /\ Base
    BY <2>1, PhaseIs DEF Geometry
  <2> QED
    BY <1>1, <2>1, <2>2, <2>3 DEF StoreAck, AckOf, Known, Reached
<1>3. /\ acked' = [acked EXCEPT ![kid] = IF version > acked[kid] THEN version ELSE acked[kid]]
      /\ Then(t, <<>>)
      /\ UNCHANGED <<up, pred, succs, data, replicas, member, staleRead, leaves, crashes, suspicions>>
  BY <1>1 DEF AckStep, peerVars, bounds
<1>4. SamePointers
  BY <1>3 DEF SamePointers
<1>5. /\ Live' = Live /\ Around' = Around /\ AtRest'
      /\ \A k : Own(k)' = Own(k)
      /\ \A p \in Peers : Known(p) => Known(p)'
      /\ \A x \in Peers : Gap(x)' <=> Gap(x)
      /\ Base'
  BY <1>2, <1>3, <1>4, PointersAre
<1>6. Op' = <<>> \o Tail(Op) /\ Writes(1)'
  <2>1. Op' = <<>> \o Tail(Op)
    BY <1>3, OpIs
  <2>2. \A m \in Nat : m >= 1 /\ Writes(m + 1) => (Op' = <<>> \o Tail(Op) => Writes(m)')
    BY <1>5, WritesOn
  <2>3. 1 \in Nat /\ 1 >= 1 /\ Writes(1 + 1)
    BY <1>2
  <2> QED
    BY <2>1, <2>2, <2>3
<1>7. Phase'
  <2>1. CASE Op' = <<>>
    BY <1>5, <2>1 DEF Phase, Idle
  <2>2. CASE Op' # <<>>
    <3>1. Op' \in Seq(Instructions)
      BY <1>6, FirstIs
    <3>2. 1 \in DOMAIN Op' /\ DOMAIN Op' \subseteq Nat
      BY <2>2, <3>1
    <3>3. \A j \in DOMAIN Op' : j >= 1
      BY <3>1
    <3>4. Op'[1].do = "lookup" /\ Op'[1].next = "store" /\ Known(Op[1].at)'
      BY <1>6, <3>2, <3>3 DEF Writes
    <3>5. Writes(2)'
      BY <1>6, <3>3 DEF Writes
    <3>6. Searching'
      BY <1>5, <2>2, <3>4, <3>5 DEF Searching
    <3> QED
      BY <3>6 DEF Phase
  <2> QED
    BY <2>1, <2>2
<1>8. \A j \in DOMAIN Op : Op[j].do \notin {"push", "snap", "replicate", "settle"}
  BY <1>2, TailIs
<1>9. Pristine' => Pristine
  BY <1>2, <1>3, <1>5, PristineKept
<1>10. /\ acked'[kid] = IF version > acked[kid] THEN version ELSE acked[kid]
       /\ \A k \in Keys : k # kid => acked'[k] = acked[k]
  <2>1. acked \in [Keys -> 0 .. stores]
    BY DEF TypeOK, Values
  <2> QED
    BY <1>2, <1>3, <2>1
<1>11. ASSUME DataInv PROVE DataInv'
  <2>1. NewestKept /\ Copied /\ ~staleRead /\ (Pristine => Covered /\ OwnOnly /\ OthersOnly)
    BY <1>11 DEF DataInv
  <2>2. ASSUME NEW k \in Keys, Own(k) \in Live PROVE data[Own(k)][k] >= acked'[k]
    <3>1. data[Own(k)][k] >= acked[k]
      BY <2>1, <2>2 DEF NewestKept
    <3> QED
      BY <1>2, <1>10, <2>2, <3>1
  <2>3. NewestKept'
    BY <1>3, <1>5, <2>2 DEF NewestKept
  <2>4. \A q \in Live : \A k \in Keys :
          pred[q] \in Live /\ pred[q] # q /\ Own(k) = pred[q] => replicas[q][k] = data[pred[q]][k]
    BY <1>8, <2>1 DEF Copied, Pending
  <2>5. Copied'
    BY <1>3, <1>5, <2>4 DEF Copied
  <2>6. Given'
    <3>1. \A j \in DOMAIN Op' : \E l \in DOMAIN Op : Op'[j] = Op[l]
      BY <1>6, DoneIs
    <3>2. \A j \in DOMAIN Op' : Op'[j].do # "settle"
      BY <1>8, <3>1
    <3> QED
      BY <3>2 DEF Given
  <2>7. ASSUME Pristine' PROVE Covered' /\ OwnOnly' /\ OthersOnly'
    <3>1. Covered /\ OwnOnly /\ OthersOnly
      BY <1>9, <2>1, <2>7
    <3>2. ASSUME NEW q \in Live, NEW k \in Keys, pred[q] # q, Own(k) = pred[q]
          PROVE  replicas[q][k] >= acked'[k]
      <4>1. CASE k = kid
        <5>1. pred[q] = o
          BY <1>2, <3>2, <4>1
        <5> QED
          BY <1>2, <2>2, <2>4, <3>2, <5>1
      <4>2. CASE k # kid
        BY <1>10, <3>1, <3>2, <4>2 DEF Covered
      <4> QED
        BY <4>1, <4>2
    <3>3. Covered'
      BY <1>3, <1>5, <3>2 DEF Covered
    <3>4. OwnOnly' /\ OthersOnly'
      BY <1>3, <1>5, <3>1 DEF OwnOnly, OthersOnly
    <3> QED
      BY <3>3, <3>4
  <2>8. ~staleRead'
    BY <1>3, <2>1
  <2> QED
    BY <2>3, <2>5, <2>6, <2>7, <2>8 DEF DataInv
<1> QED
  BY <1>5, <1>7, <1>11 DEF Geometry

-----------------------------------------------------------------------------
(* Crashes and restarts                                                     *)

\* What is under way when a peer crashes: a put or a read.
LEMMA CrashedDuring ==
  ASSUME TypeOK, Serial, Phase, \A i \in UnderWay : Putting(i) \/ Reading(i)
  PROVE  Idle \/ Searching \/ StoreCopy \/ StoreAck
<1>1. PICK t \in Tasks : TRUE
  BY DEF Serial
<1>2. Op = todo[t]
  BY <1>1, OpIs
<1>3. Op # <<>> => Putting(Op[Len(Op)]) \/ Reading(Op[Len(Op)])
  BY <1>1, <1>2 DEF UnderWay, Last
<1> DEFINE w == Op[Len(Op)]
<1>4. Op # <<>> => \/ w.do \in {"store", "ack", "fetch"}
                   \/ w.do \in {"find", "lookup"} /\ w.next \in {"store", "fetch", "value"}
  BY <1>3 DEF Putting, Reading
<1>5. ~JoinSearch
  <2>1. JoinSearch => Op # <<>> /\ w.do \in {"find", "joinAt"} /\ w.next = "joinAt"
    BY OneIs DEF JoinSearch
  <2> QED
    BY <1>4, <2>1
<1>6. ~JoinLink /\ ~JoinCopy
  <2>1. JoinLink \/ JoinCopy => Op # <<>> /\ w.do = "settle"
    BY DEF JoinLink, JoinCopy, Settling
  <2> QED
    BY <1>4, <2>1
<1>7. ~JoinSettle /\ ~JoinPush
  <2>1. JoinSettle \/ JoinPush => Op # <<>> /\ w.do \in {"settle", "push", "snap", "replicate"}
    BY OneIs DEF JoinSettle, JoinPush, Settling, Copying
  <2> QED
    BY <1>4, <2>1
<1>8. ~Beat /\ ~Repair
  <2>1. Beat \/ Repair => Op # <<>> /\ w.do \in {"beat", "refresh", "trim", "repair"}
    BY OneIs DEF Beat, Repair
  <2> QED
    BY <1>4, <2>1
<1>9. ~RepairLink /\ ~RepairCopy /\ ~RepairPush
  <2>1. \A p : Call("beat", p, p).do = "beat"
    BY DEF Call
  <2>2. RepairLink => Op # <<>> /\ w.do = "beat"
    BY <2>1 DEF RepairLink
  <2>3. RepairCopy => Op # <<>> /\ w.do = "beat"
    BY <2>1 DEF RepairCopy
  <2>4. RepairPush => Op # <<>> /\ w.do = "beat"
    BY <2>1 DEF RepairPush
  <2> QED
    BY <1>4, <2>2, <2>3, <2>4
<1> QED
  BY <1>5, <1>6, <1>7, <1>8, <1>9 DEF Phase

\* A put or a read goes on with the peers that are left, on a ring as it was.
LEMMA GoesOn ==
  ASSUME TypeOK, Serial, AtRest', \A k : Own(k)' = Own(k), Op' = Op, acked' = acked,
         \A j \in DOMAIN Op : \A p : p = Op[j].at =>
           /\ up'[p] => up[p]
           /\ Known(p) => Known(p)'
           /\ data'[p] = data[p] /\ succs'[p] = succs[p]
  PROVE  /\ Idle => Idle'
         /\ Searching => Searching'
         /\ StoreCopy => StoreCopy'
         /\ StoreAck => StoreAck'
<1>1. Op # <<>> => /\ 1 \in DOMAIN Op /\ DOMAIN Op = 1 .. Len(Op) /\ Len(Op) \in Nat
                   /\ \A j \in DOMAIN Op : Op[j].at \in Peers
  BY FirstIs
<1>2. \A j \in DOMAIN Op : Known(Op[j].at) => Known(Op[j].at)'
  BY DEF Known
<1>3. \A m : Writes(m) => Writes(m)'
  BY <1>2 DEF Writes
<1>4. Idle => Idle'
  BY DEF Idle
<1>5. ASSUME NEW j \in DOMAIN Op, AckOf(Op[j]) PROVE AckOf(Op[j])'
  BY <1>2, <1>5 DEF AckOf
<1>6. Searching => Searching'
  BY <1>1, <1>2, <1>3 DEF Searching
<1>7. StoreAck => StoreAck'
  BY <1>1, <1>3, <1>5 DEF StoreAck
<1>8. ASSUME StoreCopy PROVE StoreCopy'
  <2>1. Len(Op) >= 2 /\ AckOf(Op[2]) /\ Copying(Op[1], Op[2].at) /\ Writes(3)
    BY <1>8 DEF StoreCopy
  <2>2. 2 \in DOMAIN Op
    <3>1. Op # <<>>
      BY <2>1
    <3> QED
      BY <1>1, <2>1, <3>1
  <2>3. AckOf(Op[2])'
    BY <1>5, <2>1, <2>2
  <2>4. Copying(Op[1], Op[2].at)'
    BY <2>1, <2>2 DEF Copying, Succ
  <2> QED
    BY <1>3, <2>1, <2>3, <2>4 DEF StoreCopy
<1> QED
  BY <1>4, <1>6, <1>7, <1>8

\* The dead peer stays linked in; its values are in the replica at the next one.
LEMMA CrashKeeps ==
  ASSUME TypeOK, Serial, Geometry, NEW p \in Peers, Crash(p)
  PROVE  Geometry' /\ (MaxCrashes <= 1 => (DataInv => DataInv'))
<1>1. /\ p \in Live /\ Live # {p} /\ crashes < MaxCrashes
      /\ Settled /\ \A i \in UnderWay : Putting(i) \/ Reading(i)
      /\ crashes' = crashes + 1 /\ up' = [up EXCEPT ![p] = FALSE]
      /\ UNCHANGED <<pred, succs, data, replicas, todo, member, acked, staleRead, leaves, suspicions>>
  BY DEF Crash, CrashReady, Serial, hist
<1>2. Sound /\ Base /\ Around = Live /\ SuccsOn(Live)
  BY <1>1, LinkedIs DEF Settled, Geometry, Sound
<1>3. Live \in SUBSET Slots /\ \A n \in Live : pred[n] \in Live /\ pred[n] = PredIn(n, Live)
  BY <1>2, RingTyped
<1>4. ~up'[p] /\ \A n \in Peers : n # p => up'[n] = up[n]
  BY <1>1 DEF TypeOK
<1>5. Live' = Live \ {p}
  BY <1>1, <1>4 DEF Live, TypeOK
<1>6. PICK q \in Live : q # p /\ pred[q] = p
  <2>1. PICK q \in Live : PredIn(q, Live) = p
    BY <1>1, <1>3, NextExists
  <2>2. q # p
    BY <1>1, <1>3, <2>1, PredSelf
  <2> QED
    BY <1>3, <2>1, <2>2
<1>7. Around' = Live /\ Around' = Around
  BY <1>1, <1>2, <1>3, <1>5, <1>6 DEF Around
<1>8. \A k : Own(k)' = Own(k)
  BY <1>7 DEF Own
<1>9. \A n : Succ(n)' = Succ(n)
  BY <1>1 DEF Succ
<1>10. Base'
  <2>1. \A n \in Live' : \A j \in DOMAIN succs[n] : up'[succs[n][j]] => succs[n][j] \in Live
    <3>1. \A n \in Live : \A j \in DOMAIN succs[n] : succs[n][j] \in Peers
      BY DEF TypeOK, Live
    <3>2. \A n \in Peers : up'[n] => up[n]
      BY <1>1, <1>4 DEF Live
    <3> QED
      BY <1>2, <1>5, <3>1, <3>2 DEF Base
  <2>2. leaves' = 0 /\ suspicions' = 0 /\ crashes' \in Nat /\ crashes' > 0 /\ Live' # {} /\ Empty' = Empty
    BY <1>1, <1>2, <1>5, <1>6 DEF Base, Empty
  <2>3. \A n \in Peers \ member : up'[n] => data[n] = Empty
    <3>1. \A n \in Peers : up'[n] => up[n]
      BY <1>1, <1>4 DEF Live
    <3> QED
      BY <1>2, <3>1 DEF Base
  <2> QED
    BY <1>1, <1>3, <1>5, <1>7, <2>1, <2>2, <2>3 DEF Base
<1>11. Gap(p)' /\ p \in Around'
  BY <1>1, <1>4, <1>5, <1>7 DEF Gap, Live
<1>12. AtRest'
  <2>1. (SuccsOn(Around))'
    BY <1>2, <1>5, <1>7, <1>9 DEF SuccsOn
  <2>2. \A n \in Live' : succs'[n] = SuccessorsIn(n, Around', SuccLen)
    BY <1>1, <1>5, <1>7 DEF Settled
  <2> QED
    BY <1>11, <2>1, <2>2 DEF AtRest, Torn
<1>13. Phase'
  <2>1. \A n \in Peers : Known(n) => Known(n)'
    BY <1>4, <1>5 DEF Known
  <2>2. \A j \in DOMAIN Op : \A n : n = Op[j].at =>
          (up'[n] => up[n]) /\ (Known(n) => Known(n)') /\ data'[n] = data[n] /\ succs'[n] = succs[n]
    <3>1. \A n \in Peers : up'[n] => up[n]
      BY <1>1, <1>4 DEF Live
    <3>2. \A j \in DOMAIN Op : Op[j].at \in Peers
      BY FirstIs
    <3> QED
      BY <1>1, <2>1, <3>1, <3>2
  <2>3. Op' = Op /\ acked' = acked
    BY <1>1 DEF Op
  <2>4. Idle \/ Searching \/ StoreCopy \/ StoreAck
    BY <1>1, CrashedDuring DEF Geometry
  <2> QED
    BY <1>8, <1>12, <2>2, <2>3, <2>4, GoesOn DEF Phase
<1>14. ASSUME MaxCrashes <= 1, DataInv PROVE DataInv'
  <2>1. Pristine
    <3>1. crashes = 0
      BY <1>1, <1>2, <1>14, RingAssumption DEF Base
    <3> QED
      BY <3>1 DEF Pristine
  <2>2. NewestKept /\ Copied /\ Given /\ ~staleRead /\ Covered /\ OwnOnly /\ OthersOnly
    BY <1>14, <2>1 DEF DataInv
  <2>3. Op' = Op /\ \A n : Pending(n)' <=> Pending(n)
    BY <1>1 DEF Op, Pending
  <2>4. NewestKept'
    BY <1>1, <1>5, <1>8, <2>2 DEF NewestKept
  <2>5. Copied'
    <3>1. ASSUME NEW r \in Live, ~(Pending(pred[r]))' PROVE ~Pending(pred[r])
      BY <1>1, <2>3, <3>1 DEF Pending
    <3> QED
      BY <1>1, <1>5, <1>8, <2>2, <3>1 DEF Copied
  <2>6. Given'
    BY <1>1, <1>8, <2>1, <2>2, <2>3 DEF Given
  <2>7. Covered' /\ OwnOnly' /\ OthersOnly'
    BY <1>1, <1>5, <1>8, <2>2 DEF Covered, OwnOnly, OthersOnly
  <2> QED
    BY <1>1, <2>2, <2>4, <2>5, <2>6, <2>7 DEF DataInv
<1> QED
  BY <1>10, <1>13, <1>14 DEF Geometry

\* A peer that is started again is not of the ring yet.
LEMMA RestartKeeps ==
  ASSUME TypeOK, Serial, Geometry, NEW p \in Peers, Restart(p)
  PROVE  Geometry' /\ (DataInv => DataInv')
<1>1. /\ ~up[p] /\ Settled /\ \A j \in DOMAIN Op : Op[j].at # p /\ Op[j].by # p
      /\ up' = [up EXCEPT ![p] = TRUE] /\ pred' = [pred EXCEPT ![p] = p]
      /\ succs' = [succs EXCEPT ![p] = <<p>>] /\ data' = [data EXCEPT ![p] = Empty]
      /\ replicas' = [replicas EXCEPT ![p] = Empty] /\ member' = member \ {p}
      /\ UNCHANGED <<todo, acked, staleRead, leaves, crashes, suspicions>>
  <2>1. PICK t \in Tasks : TRUE
    BY DEF Serial
  <2>2. Op = todo[t]
    BY <2>1, OpIs
  <2> QED
    BY <2>1, <2>2 DEF Restart, Serial
<1>2. Sound /\ Base /\ Around = Live /\ SuccsOn(Live)
  BY <1>1, LinkedIs DEF Settled, Geometry, Sound
<1>3. Live \in SUBSET Slots /\ Live \subseteq Peers
      /\ \A n \in Live : pred[n] \in Live /\ pred[n] = PredIn(n, Live)
  BY <1>2, RingTyped
<1>4. /\ up'[p] /\ data'[p] = Empty
      /\ \A n \in Peers : n # p => /\ up'[n] = up[n] /\ pred'[n] = pred[n] /\ succs'[n] = succs[n]
                                   /\ data'[n] = data[n] /\ replicas'[n] = replicas[n]
  BY <1>1 DEF TypeOK
<1>5. Live' = Live /\ p \notin Live
  BY <1>1, <1>4 DEF Live, TypeOK
<1>6. Around' = Live /\ Around' = Around /\ \A n \in Live : pred'[n] = pred[n]
  <2>1. \A n \in Live : pred'[n] = pred[n]
    BY <1>3, <1>4, <1>5
  <2>2. {pred'[n] : n \in Live} \subseteq Live
    BY <1>3, <2>1
  <2> QED
    BY <1>2, <1>5, <2>1, <2>2 DEF Around
<1>7. \A k : Own(k)' = Own(k)
  BY <1>6 DEF Own
<1>8. \A n \in Peers : n # p => Succ(n)' = Succ(n)
  BY <1>4 DEF Succ
<1>9. Base'
  <2>1. \A n \in Live : \A j \in DOMAIN succs'[n] : succs'[n][j] \in Live
    <3>1. SuccLen \in Nat \ {0}
      BY RingAssumption
    <3>2. ASSUME NEW n \in Live, NEW j \in DOMAIN succs[n] PROVE succs[n][j] \in Live
      <4>1. PICK ids : ids = Live
        OBVIOUS
      <4>2. LET s == SuccessorsIn(n, ids, SuccLen) IN \A i \in 1 .. Len(s) : s[i] \in ids
        <5>1. ids \in SUBSET Slots /\ n \in ids
          BY <1>3, <4>1
        <5> QED
          BY <3>1, <5>1, SuccessorListIs, Zenon
      <4>3. succs[n] = SuccessorsIn(n, ids, SuccLen)
        BY <1>1, <4>1 DEF Settled
      <4>4. j \in 1 .. Len(succs[n])
        BY <1>2, <3>2, RingTyped
      <4> QED
        BY <4>1, <4>2, <4>3, <4>4
    <3> QED
      BY <1>3, <1>4, <1>5, <3>2
  <2>2. leaves' = 0 /\ suspicions' = 0 /\ crashes' \in Nat /\ Live # {} /\ Empty' = Empty
    BY <1>1, <1>2 DEF Base, Empty
  <2>3. \A n \in Peers \ member' : up'[n] => data'[n] = Empty
    BY <1>1, <1>2, <1>4 DEF Base
  <2>4. \A n \in member' : ~up'[n] => crashes > 0
    BY <1>1, <1>2, <1>4 DEF Base, TypeOK
  <2> QED
    BY <1>1, <1>3, <1>5, <1>6, <2>1, <2>2, <2>3, <2>4 DEF Base
<1>10. Sound'
  BY <1>2, <1>3, <1>5, <1>6, <1>8 DEF Sound, SuccsOn
<1>11. Op' = Op /\ acked' = acked
  BY <1>1 DEF Op
<1>12. \A n \in Live : n \in Peers /\ n # p /\ Succ(n)' = Succ(n) /\ data'[n] = data[n] /\ succs'[n] = succs[n]
  BY <1>3, <1>4, <1>5, <1>8
<1>13. ~JoinLink /\ ~JoinCopy /\ ~JoinSettle
  <2>1. \A j : ~Settling(j)
    BY <1>2 DEF Settling, Live
  <2> QED
    BY <2>1 DEF JoinLink, JoinCopy, JoinSettle
<1>14. ~Repair /\ ~RepairLink
  <2>1. \A x : ~Gap(x)
    BY <1>2 DEF Gap, Live
  <2> QED
    BY <1>2, <2>1 DEF Repair, RepairLink, SuccsOn
<1>15. \A n \in Live : \A i : Copying(i, n) => Copying(i, n)'
  BY <1>12 DEF Copying
<1>16. Phase'
  <2>1. CASE Idle \/ Searching \/ StoreCopy \/ StoreAck
    <3>1. \A n \in Peers : n # p =>
            (up'[n] => up[n]) /\ (Known(n) => Known(n)') /\ data'[n] = data[n] /\ succs'[n] = succs[n]
      BY <1>4, <1>5 DEF Known
    <3>2. \A j \in DOMAIN Op : Op[j].at \in Peers
      BY FirstIs
    <3>3. AtRest'
      BY <1>10 DEF AtRest
    <3> QED
      BY <1>1, <1>7, <1>11, <2>1, <3>1, <3>2, <3>3, GoesOn DEF Phase
  <2>2. CASE JoinSearch
    <3>1. Op # <<>> /\ Op[1].by \in Peers /\ 1 \in DOMAIN Op
      BY <2>2, OneIs, FirstIs DEF JoinSearch
    <3>2. Op[1].by # p /\ Op[1].by \notin member' /\ up'[Op[1].by]
      BY <1>1, <1>4, <2>2, <3>1 DEF JoinSearch
    <3>3. JoinSearch'
      BY <1>5, <1>7, <1>10, <1>11, <2>2, <3>2 DEF JoinSearch
    <3> QED
      BY <3>3 DEF Phase
  <2>3. CASE JoinPush
    <3>1. JoinPush'
      BY <1>5, <1>10, <1>11, <1>15, <2>3 DEF JoinPush
    <3> QED
      BY <3>1 DEF Phase
  <2>4. CASE Beat
    <3>1. Beat'
      BY <1>5, <1>10, <1>11, <1>12, <2>4 DEF Beat, AtRest
    <3> QED
      BY <3>1 DEF Phase
  <2>5. CASE RepairCopy
    <3>1. PICK n \in Live : /\ Op[2] = Push(n) /\ Op[3] = Call("beat", n, n)
                            /\ Succ(n) # n /\ Copying(Op[1], Succ(n))
      BY <2>5 DEF RepairCopy
    <3>2. PICK s : s = Succ(n)
      OBVIOUS
    <3>3. s \in Live /\ Succ(n)' = s
      BY <1>2, <1>12, <3>1, <3>2 DEF SuccsOn
    <3>4. Copying(Op[1], s)'
      BY <1>11, <1>15, <3>1, <3>2, <3>3
    <3>5. Copying(Op[1], Succ(n))'
      BY <3>3, <3>4 DEF Copying
    <3>6. RepairCopy'
      BY <1>5, <1>10, <1>11, <2>5, <3>1, <3>2, <3>3, <3>5 DEF RepairCopy, Push, Call
    <3> QED
      BY <3>6 DEF Phase
  <2>6. CASE RepairPush
    <3>1. RepairPush'
      BY <1>5, <1>10, <1>11, <1>15, <2>6 DEF RepairPush, Call
    <3> QED
      BY <3>1 DEF Phase
  <2> QED
    BY <1>13, <1>14, <2>1, <2>2, <2>3, <2>4, <2>5, <2>6 DEF Geometry, Phase
<1>17. Pristine' => Pristine
  <2>1. ASSUME NEW x, Gap(x)' PROVE x \notin Around'
    BY <1>5, <1>6, <2>1 DEF Gap, Live
  <2> QED
    BY <1>1, <2>1 DEF Pristine
<1>18. ASSUME DataInv PROVE DataInv'
  <2>1. /\ \A n \in Live : pred'[n] = pred[n] /\ data'[n] = data[n] /\ replicas'[n] = replicas[n]
        /\ NewestKept /\ Copied /\ Given /\ ~staleRead
        /\ Pristine => Covered /\ OwnOnly /\ OthersOnly
    BY <1>3, <1>4, <1>5, <1>18 DEF DataInv
  <2>2. NewestKept'
    BY <1>5, <1>7, <1>11, <2>1 DEF NewestKept
  <2>3. Copied'
    <3>1. ASSUME NEW r \in Live, ~(Pending(pred[r]))' PROVE ~Pending(pred[r])
      BY <1>11, <2>1, <3>1 DEF Pending
    <3> QED
      BY <1>5, <1>7, <2>1, <3>1 DEF Copied
  <2>4. Given'
    BY <1>7, <1>11, <1>17, <2>1 DEF Given
  <2>5. Pristine' => Covered' /\ OwnOnly' /\ OthersOnly'
    BY <1>5, <1>7, <1>11, <1>17, <2>1 DEF Covered, OwnOnly, OthersOnly
  <2> QED
    BY <1>1, <2>1, <2>2, <2>3, <2>4, <2>5 DEF DataInv
<1> QED
  BY <1>9, <1>16, <1>18 DEF Geometry

-----------------------------------------------------------------------------
(* The invariant                                                            *)

LEMMA GeometryInit ==
  ASSUME Init, Serial, TypeOK
  PROVE  Geometry /\ DataInv
<1>1. First \in Peers /\ First \in Slots /\ Peers \subseteq Slots
  BY RingAssumption
<1>2. /\ up[First] /\ pred[First] = First /\ succs[First] = <<First>> /\ member = {First}
      /\ \A p \in Peers : data[p] = Empty /\ replicas[p] = Empty /\ up[p]
      /\ acked = Empty /\ ~staleRead /\ leaves = 0 /\ crashes = 0 /\ suspicions = 0
  BY <1>1 DEF Init
<1>3. Live = {First} /\ Around = {First}
  BY <1>2 DEF Live, Around
<1>4. PredIn(First, {First}) = First
  BY <1>1, PredSelf
<1>5. Op = <<>>
  <2>1. PICK t \in Tasks : TRUE
    BY DEF Serial
  <2>2. Op = todo[t]
    BY <2>1, OpIs
  <2> QED
    BY <2>1, <2>2 DEF Init
<1>6. Base
  <2>1. \A j \in DOMAIN succs[First] : succs[First][j] = First
    BY <1>2
  <2> QED
    BY <1>2, <1>3, <1>4, <2>1 DEF Base
<1>7. Sound
  BY <1>2, <1>3, <1>4 DEF Sound, SuccsOn, Succ
<1>8. Geometry
  BY <1>5, <1>6, <1>7 DEF Geometry, Phase, Idle, AtRest
<1>9. \A k \in Keys : Empty[k] = 0
  BY DEF Empty
<1>10. NewestKept /\ OwnOnly /\ OthersOnly
  BY <1>1, <1>2, <1>3, <1>9 DEF NewestKept, OwnOnly, OthersOnly
<1>11. Copied /\ Covered
  BY <1>2, <1>3 DEF Copied, Covered
<1>12. Given
  BY <1>5 DEF Given
<1> QED
  BY <1>2, <1>8, <1>10, <1>11, <1>12 DEF DataInv

LEMMA GeometryStep ==
  ASSUME TypeOK, Serial, Geometry, NEW t \in Tasks, Step(t)
  PROVE  Geometry' /\ (DataInv => DataInv')
<1>1. PICK i : i = Op[1]
  OBVIOUS
<1>2. Op # <<>> /\ i = todo[t][1]
  BY <1>1, OpIs DEF Step
<1>3. CASE Fail(t, i)
  BY <1>1, <1>2, <1>3, FailKeeps
<1>4. ASSUME Reached(i),
             \/ FindStep(t, i) \/ LookupStep(t, i) \/ FetchStep(t, i)
             \/ StoreStep(t, i) \/ AckStep(t, i)
      PROVE  Geometry' /\ (DataInv => DataInv')
  BY <1>1, <1>2, <1>4, FindKeeps, LookupKeeps, FetchKeeps, StoreKeeps, AckKeeps
<1>5. ASSUME Reached(i),
             \/ JoinAtStep(t, i) \/ SettleStep(t, i) \/ SetSuccStep(t, i) \/ SetPredStep(t, i)
             \/ RepairStep(t, i)
      PROVE  Geometry' /\ (DataInv => DataInv')
  BY <1>1, <1>2, <1>5, JoinAtKeeps, SettleKeeps, SetSuccKeeps, SetPredKeeps, RepairKeeps
<1>6. ASSUME Reached(i),
             \/ PushStep(t, i) \/ SnapStep(t, i) \/ ReplicateStep(t, i)
             \/ Ping(t, i) \/ RefreshStep(t, i) \/ TrimStep(t, i)
      PROVE  Geometry' /\ (DataInv => DataInv')
  BY <1>1, <1>2, <1>6, PushKeeps, ReplicateKeeps, PingKeeps, RefreshKeeps, TrimKeeps
<1>7. ~LeaveStep(t, i) /\ ~ResetStep(t, i) /\ ~StopStep(t, i) /\ ~TakeDataStep(t, i)
  <2>1. i.do \notin {"leave", "reset", "stop", "takeData"}
    BY <1>1, <1>2, PhaseIs DEF Geometry
  <2> QED
    BY <2>1 DEF LeaveStep, ResetStep, StopStep, TakeDataStep
<1>8. \/ Fail(t, i)
      \/ /\ Reached(i)
         /\ \/ FindStep(t, i)    \/ LookupStep(t, i)
            \/ JoinAtStep(t, i)   \/ SettleStep(t, i)
            \/ LeaveStep(t, i)   \/ ResetStep(t, i)    \/ StopStep(t, i)
            \/ TakeDataStep(t, i)
            \/ SetPredStep(t, i) \/ SetSuccStep(t, i)  \/ PushStep(t, i)
            \/ SnapStep(t, i)    \/ ReplicateStep(t, i)
            \/ Ping(t, i)        \/ RefreshStep(t, i)  \/ TrimStep(t, i)
            \/ RepairStep(t, i)
            \/ StoreStep(t, i)   \/ AckStep(t, i)      \/ FetchStep(t, i)
  BY <1>2, Zenon DEF Step
<1> QED
  BY <1>3, <1>4, <1>5, <1>6, <1>7, <1>8, Zenon

\* Nothing happens.
LEMMA GeometryStays ==
  ASSUME TypeOK, Geometry, UNCHANGED vars
  PROVE  Geometry' /\ (DataInv => DataInv')
<1>1. /\ SameRing /\ UNCHANGED <<up, pred, succs, data, replicas, todo, member, acked, staleRead>>
      /\ Op' = Op
  BY DEF vars, peerVars, hist, bounds, SameRing, SamePointers, Op
<1>2. Live' = Live /\ Around' = Around /\ (\A n : Succ(n)' = Succ(n)) /\ \A k : Own(k)' = Own(k)
  BY <1>1, SameRingIs DEF Succ
<1>3. /\ SuccsOn(Live) => (SuccsOn(Live))'
      /\ SuccsOn(Around) => (SuccsOn(Around))'
      /\ Sound => Sound'
      /\ Torn => Torn'
      /\ AtRest => AtRest'
      /\ \A i, n : Copying(i, n) => Copying(i, n)'
  <2>1. (Sound => Sound') /\ (Torn => Torn') /\ (AtRest => AtRest')
    BY <1>1, SameRingIs
  <2> QED
    BY <1>1, <2>1, SameRingIs
<1>4. \A j : (Settling(j) => Settling(j)') /\ (AckOf(j) => AckOf(j)')
  BY <1>1, PartsKept
<1>5. \A p : Known(p) => Known(p)'
  BY <1>1, <1>2 DEF Known
<1>6. \A m : Writes(m) => Writes(m)'
  BY <1>1, <1>2 DEF Writes, Known
<1>7. Idle \/ JoinSearch \/ JoinLink \/ JoinCopy \/ JoinSettle \/ JoinPush => Phase'
  <2>1. Idle => Idle'
    BY <1>1, <1>3 DEF Idle
  <2>2. JoinSearch => JoinSearch'
    BY <1>1, <1>2, <1>3 DEF JoinSearch
  <2>3. JoinLink => JoinLink'
    BY <1>1, <1>3, <1>4 DEF JoinLink
  <2>4. JoinCopy => JoinCopy'
    BY <1>1, <1>3, <1>4 DEF JoinCopy
  <2>5. JoinSettle => JoinSettle'
    BY <1>1, <1>3, <1>4 DEF JoinSettle
  <2>6. JoinPush => JoinPush'
    BY <1>1, <1>2, <1>3 DEF JoinPush
  <2> QED
    BY <2>1, <2>2, <2>3, <2>4, <2>5, <2>6 DEF Phase
<1>8. Searching \/ StoreCopy \/ StoreAck \/ Beat \/ Repair => Phase'
  <2>1. Searching => Searching'
    BY <1>1, <1>2, <1>3, <1>6 DEF Searching, Known
  <2>2. StoreCopy => StoreCopy'
    BY <1>1, <1>3, <1>4, <1>6 DEF StoreCopy, Copying, AckOf, Succ
  <2>3. StoreAck => StoreAck'
    BY <1>1, <1>3, <1>4, <1>6 DEF StoreAck
  <2>4. Beat => Beat'
    BY <1>1, <1>2, <1>3 DEF Beat, Succ
  <2>5. Repair => Repair'
    BY <1>1, <1>2, <1>3 DEF Repair, Succ
  <2> QED
    BY <2>1, <2>2, <2>3, <2>4, <2>5 DEF Phase
<1>9. RepairLink \/ RepairCopy \/ RepairPush => Phase'
  <2>1. RepairLink => RepairLink'
    BY <1>1, <1>2, <1>3 DEF RepairLink, Gap, Push, Call, Succ
  <2>2. RepairCopy => RepairCopy'
    BY <1>1, <1>2, <1>3 DEF RepairCopy, Push, Call, Copying, Succ
  <2>3. RepairPush => RepairPush'
    BY <1>1, <1>2, <1>3 DEF RepairPush, Call, Copying, Succ
  <2> QED
    BY <2>1, <2>2, <2>3 DEF Phase
<1>10. Phase'
  BY <1>7, <1>8, <1>9 DEF Geometry, Phase
<1>11. \A n : Pending(n)' <=> Pending(n)
  BY <1>1 DEF Pending
<1> QED
  BY <1>1, <1>10, <1>11, StepKeeps DEF DataInv

LEMMA GeometryNext ==
  ASSUME TypeOK, Serial, Geometry, [Next]_vars
  PROVE  Geometry' /\ (MaxCrashes <= 1 => (DataInv => DataInv'))
<1>1. ASSUME NEW t \in Tasks, Step(t) PROVE Geometry' /\ (DataInv => DataInv')
  BY <1>1, GeometryStep
<1>2. ASSUME NEW t \in Tasks, NEW p \in Peers,
             \/ \E b \in Peers : Join(t, p, b)
             \/ Stabilize(t, p)
             \/ \E k \in Keys : Put(t, p, k) \/ Get(t, p, k) \/ Discover(t, p, k)
             \/ \E ks \in Listings : Publish(t, p, ks)
      PROVE  Geometry' /\ (DataInv => DataInv')
  BY <1>2, JoinKeeps, StabilizeKeeps, PutKeeps, PublishKeeps
<1>3. ASSUME NEW t, NEW p PROVE ~Leave(t, p)
  BY DEF Leave, Serial, Geometry, Base
<1>4. ASSUME NEW p \in Peers, Crash(p)
      PROVE  Geometry' /\ (MaxCrashes <= 1 => (DataInv => DataInv'))
  BY <1>4, CrashKeeps
<1>5. ASSUME NEW p \in Peers, Restart(p) PROVE Geometry' /\ (DataInv => DataInv')
  BY <1>5, RestartKeeps
<1>6. ASSUME UNCHANGED vars PROVE Geometry' /\ (DataInv => DataInv')
  BY <1>6, GeometryStays
<1>7. \/ \E t \in Tasks : Step(t)
      \/ \E t \in Tasks, p \in Peers :
           \/ \E b \in Peers : Join(t, p, b)
           \/ Leave(t, p) \/ Stabilize(t, p)
           \/ \E k \in Keys : Put(t, p, k) \/ Get(t, p, k) \/ Discover(t, p, k)
           \/ \E ks \in Listings : Publish(t, p, ks)
      \/ \E p \in Peers : Crash(p) \/ Restart(p)
      \/ UNCHANGED vars
  BY Zenon DEF Next
<1> QED
  BY <1>1, <1>2, <1>3, <1>4, <1>5, <1>6, <1>7

-----------------------------------------------------------------------------
(* What it says                                                             *)

\* The next peer is alive, or the one after it is.
LEMMA NextHopIs ==
  ASSUME TypeOK, Serial, Geometry
  PROVE  HasNextHop
<1>1. SUFFICES ASSUME NEW p \in Live, Live # {p}
               PROVE  \E j \in DOMAIN succs[p] : up[succs[p][j]] /\ succs[p][j] # p
  BY DEF HasNextHop
<1>2. Base /\ Phase
  BY DEF Geometry
<1>3. /\ Live \in SUBSET Slots /\ Around \in SUBSET Slots /\ Live \subseteq Around
      /\ 1 \in DOMAIN succs[p] /\ \A q \in Live : up[q]
  <2>1. Len(succs[p]) \in Nat \ {0} /\ DOMAIN succs[p] = 1 .. Len(succs[p])
    BY <1>2, RingTyped
  <2>2. 1 \in DOMAIN succs[p]
    BY <2>1
  <2> QED
    BY <1>2, <2>2, RingTyped DEF Live
<1>4. CASE SuccsOn(Live)
  <2>1. Succ(p) \in Live /\ PredIn(Succ(p), Live) = p
    BY <1>4 DEF SuccsOn
  <2>2. Succ(p) # p
    BY <1>1, <1>3, <2>1, PredSelf
  <2> QED
    BY <1>3, <2>1, <2>2 DEF Succ
<1>5. ASSUME SuccsOn(Around), NEW j, Settling(j)
      PROVE  \E l \in DOMAIN succs[p] : up[succs[p][l]] /\ succs[p][l] # p
  <2>1. Succ(p) \in Around /\ PredIn(Succ(p), Around) = p
    BY <1>5 DEF SuccsOn
  <2>2. Around = Live \cup {j.by} /\ up[j.by] /\ j.by \notin Live
    BY <1>5 DEF Settling, Live
  <2>3. Succ(p) # p
    BY <1>3, <2>1, <2>2, PredSelf
  <2> QED
    BY <1>3, <2>1, <2>2, <2>3 DEF Succ
<1>6. CASE Torn
  <2>1. CASE Succ(p) \in Live
    <3>1. Succ(p) # p
      <4>1. PICK x : Gap(x) /\ SuccsOn(Around)
        BY <1>6 DEF Torn
      <4>2. PredIn(Succ(p), Around) = p /\ Around # {p}
        BY <1>1, <1>2, <4>1, GapIs DEF SuccsOn
      <4> QED
        BY <1>3, <4>2, PredSelf
    <3> QED
      BY <1>3, <2>1, <3>1 DEF Succ
  <2>2. CASE Succ(p) \notin Live
    <3>1. 2 \in DOMAIN succs[p] /\ succs[p][2] \in Live /\ succs[p][2] # p
      BY <1>1, <1>2, <1>6, <2>2, SecondIs
    <3> QED
      BY <1>3, <3>1
  <2> QED
    BY <2>1, <2>2
<1>7. SuccsOn(Live) \/ Torn \/ (SuccsOn(Around) /\ \E j : Settling(j))
  <2>1. AtRest \/ Sound => SuccsOn(Live) \/ Torn
    BY DEF AtRest, Sound
  <2>2. Idle \/ JoinSearch \/ JoinPush \/ Searching \/ StoreCopy \/ StoreAck \/ Beat => AtRest \/ Sound
    BY DEF Idle, JoinSearch, JoinPush, Searching, StoreCopy, StoreAck, Beat
  <2>3. JoinLink \/ RepairLink => SuccsOn(Live)
    BY DEF JoinLink, RepairLink
  <2>4. JoinCopy \/ JoinSettle => SuccsOn(Around) /\ \E j : Settling(j)
    BY DEF JoinCopy, JoinSettle
  <2>5. Repair \/ RepairCopy \/ RepairPush => Torn \/ Sound
    BY DEF Repair, RepairCopy, RepairPush
  <2> QED
    BY <1>2, <2>1, <2>2, <2>3, <2>4, <2>5 DEF Phase
<1> QED
  BY <1>4, <1>5, <1>6, <1>7

\* On a ring that has settled, the owner is who Own says.
LEMMA SettledIs ==
  ASSUME TypeOK, Geometry, Settled
  PROVE  /\ Base /\ Around = Live /\ SuccsOn(Around)
         /\ \A k \in Keys : Owner(k) = Own(k) /\ Own(k) \in Live
<1>1. Base /\ Sound
  BY LinkedIs DEF Settled, Geometry
<1>2. Around = Live /\ SuccsOn(Around) /\ \A k \in Keys : k \in Slots
  BY <1>1, RingTyped DEF Sound
<1>3. \A k \in Keys : Own(k) \in Live
  BY <1>1, <1>2, OwnIs
<1> QED
  BY <1>1, <1>2, <1>3 DEF Owner, Own

LEMMA NothingLost ==
  ASSUME TypeOK, Serial, Geometry, DataInv
  PROVE  NoLoss /\ ReplicaCovers
<1>1. NoLoss
  BY SettledIs DEF NoLoss, DataInv, NewestKept
<1>2. ASSUME Settled, Quiet, Cardinality(Live) > 1, NEW k \in Keys
      PROVE  replicas[Succ(Owner(k))][k] = data[Owner(k)][k]
  <2>1. PICK o, q : o = Own(k) /\ q = Succ(o)
    OBVIOUS
  <2>2. Base /\ Around = Live /\ SuccsOn(Around) /\ Owner(k) = o /\ o \in Live
    BY <1>2, <2>1, SettledIs
  <2>3. q \in Live /\ pred[q] = o
    BY <2>1, <2>2, NextIs
  <2>4. q # o
    <3>1. Live # {o}
      BY <1>2, FS_Singleton
    <3> QED
      BY <2>1, <2>2, <3>1, NextIs
  <2>5. \A n : ~Pending(n)
    <3>1. PICK t \in Tasks : TRUE
      BY DEF Serial
    <3>2. Op = <<>>
      BY <1>2, <3>1, OpIs DEF Quiet, UnderWay
    <3> QED
      BY <3>2 DEF Pending
  <2>6. replicas[q][k] = data[o][k]
    BY <2>1, <2>2, <2>3, <2>4, <2>5 DEF DataInv, Copied
  <2> QED
    BY <2>1, <2>2, <2>6
<1> QED
  BY <1>1, <1>2 DEF ReplicaCovers

\* However many peers crash and are started again, as long as the ring settles
\* in between: every peer that is not alone has a live one to pass a lookup on
\* to, also while a join or a repair is half done (ring.py:36).
THEOREM NextHopAlways ==
  ASSUME Serial
  PROVE  Spec => []HasNextHop
<1>1. Init => TypeOK /\ Geometry
  BY TypeInit, GeometryInit
<1>2. TypeOK /\ Geometry /\ [Next]_vars => (TypeOK /\ Geometry)'
  BY TypeStep, GeometryNext
<1>3. TypeOK /\ Geometry => HasNextHop
  BY NextHopIs
<1> QED
  BY <1>1, <1>2, <1>3, PTL DEF Spec

\* With one crash, whenever it comes, both together: they need the same
\* inductive invariant.
THEOREM OneCrashLosesNothing ==
  ASSUME Serial, MaxCrashes <= 1
  PROVE  Spec => [](NoLoss /\ ReplicaCovers)
<1> DEFINE IInv == TypeOK /\ Geometry /\ DataInv
<1>1. Init => IInv
  BY TypeInit, GeometryInit
<1>2. IInv /\ [Next]_vars => IInv'
  BY TypeStep, GeometryNext
<1>3. IInv => NoLoss /\ ReplicaCovers
  BY NothingLost
<1> HIDE DEF IInv
<1> QED
  BY <1>1, <1>2, <1>3, PTL DEF Spec

\* An acknowledged value is at its owner whenever the ring has settled, also
\* after the repair that put the replica in the place of the owner that crashed
\* (ring.py:5-7, ring.py:243-251).
COROLLARY NothingAcknowledgedIsLost ==
  ASSUME Serial, MaxCrashes <= 1
  PROVE  Spec => []NoLoss
  BY OneCrashLosesNothing, PTL

\* Whenever nobody works on a settled ring, the peer after the owner has a copy
\* of what the owner has (ring.py:125-132).
COROLLARY SecondCopyIsThere ==
  ASSUME Serial, MaxCrashes <= 1
  PROVE  Spec => []ReplicaCovers
  BY OneCrashLosesNothing, PTL
=============================================================================
