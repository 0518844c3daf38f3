---------------------------- MODULE BrokerProofs -----------------------------
(***************************************************************************)
(* Theorems about the broker, for any publishers, subscribers, buffer and   *)
(* number of events and faults.                                             *)
(*                                                                          *)
(* A thread that has written half of a frame holds the lock of the          *)
(* connection it writes to (LockInv), so a connection ends with half a      *)
(* frame exactly while its lock is held (WireInv).  The list of subscribers *)
(* has those whose thread acknowledged, while they are open (ListInv), and  *)
(* each loop works on what is left of such a list (LoopInv): how far a      *)
(* subscriber is with a publisher's events is told by whether the loop      *)
(* still has it to go to (Done, SentInv).                                   *)
(***************************************************************************)
EXTENDS Broker, OperatorProofs

\* No entry twice.
Once(list) == \A i, j \in DOMAIN list : list[i] = list[j] => i = j

\* The thread of s took up its subscribe request.
Joined(s) == thread[s] \notin {"off", "asked"}

CountInv ==
  \A p \in Publishers :
    /\ sent[p] <= events
    /\ thread[p] \in {"serving", "fanout", "gone"}
    /\ thread[p] = "fanout" => acked[p] < taken[p]
    /\ targets[p] # <<>> => thread[p] = "fanout"

\* Half a frame is written exactly by the thread that holds the lock.
LockInv ==
  /\ \A c \in Conns : part[c] = 1 => \E s \in Subscribers : lock[s] = c
  /\ \A s \in Subscribers : lock[s] # NoThread => part[lock[s]] = 1 /\ Sends(lock[s], s)

\* Nothing is mixed, and the half frame at the end is the one of the holder.
WireInv ==
  /\ FramesWhole
  /\ \A s \in Subscribers :
       /\ ~open[s] => wire[s] = <<>>
       /\ open[s] => IF lock[s] = NoThread THEN Len(wire[s]) % 2 = 0
                     ELSE /\ Len(wire[s]) % 2 = 1
                          /\ wire[s][Len(wire[s])][1] = Frame(lock[s])

\* While it is open, a subscriber is in the list from its acknowledgement on.
ListInv ==
  /\ Once(subs)
  /\ \A s \in Subscribers :
       /\ thread[s] # "fanout"
       /\ thread[s] = "gone" => ~open[s]
       /\ Contains(subs, s) => thread[s] \in {"ack", "serving"}
       /\ open[s] /\ Joined(s) => Contains(subs, s)

LoopInv ==
  \A p \in Publishers :
    /\ Once(targets[p])
    /\ \A s \in Subscribers : Contains(targets[p], s) => Joined(s)

\* Nothing reaches a subscriber, and nothing is promised to it, before it joined.
JoinedInv ==
  \A s \in Subscribers :
    ready[s] \/ wire[s] # <<>> \/ received[s] # <<>> \/ (\E e \in Events : s \in promised[e])
      => Joined(s)

\* In the frames a, the events of p come in order and without gaps.
InOrder(a, p) ==
  \A i, j \in DOMAIN a : i < j /\ a[i][1] = p /\ a[j][1] = p =>
    /\ a[i][2] < a[j][2]
    /\ \A n \in a[i][2]..a[j][2] : Contains(a, <<p, n>>)

\* If there are any, the last is the d-th.
Upto(a, p, d) ==
  \A i \in DOMAIN a : a[i][1] = p => a[i][2] <= d /\ Contains(a, <<p, d>>)

\* The last event of p that the loop is through with, as far as s goes.
Done(p, s) == IF Contains(targets[p], s) THEN taken[p] - 1 ELSE taken[p]

SentInv ==
  \A s \in Subscribers, p \in Publishers : open[s] =>
    /\ Upto(Stream(s), p, Done(p, s))
    /\ \A n \in 1..Done(p, s) : s \in promised[<<p, n>>] => Contains(Stream(s), <<p, n>>)

Base == TypeOK /\ CountInv /\ LockInv /\ WireInv /\ ListInv /\ LoopInv /\ JoinedInv

Inv == Base /\ PublisherOrder /\ SentInv

-----------------------------------------------------------------------------
(* Lists of subscribers.                                                     *)

LEMMA Conn ==
  /\ Conns = Publishers \cup Subscribers /\ Publishers \cap Subscribers = {}
  /\ NoThread \notin Conns
  /\ MaxEvents \in Nat /\ MaxFaults \in Nat /\ Buffer \in Nat
BY BrokerAssumption DEF Conns

\* on_disconnect takes the entries of s out, and only those.
LEMMA WithoutIs ==
  ASSUME NEW s \in Conns, subs \in Seq(Subscribers), Once(subs)
  PROVE  /\ Without(s) \in Seq(Subscribers) /\ Once(Without(s))
         /\ ~Contains(Without(s), s)
         /\ \A x \in Subscribers : x # s => (Contains(Without(s), x) <=> Contains(subs, x))
<1> DEFINE kept == {i \in DOMAIN subs : subs[i] # s}
           w == Picked(subs, kept)
<1>1. kept \in SUBSET DOMAIN subs
  OBVIOUS
<1>2. Without(s) = w
  BY DEF Without
<1>3. DOMAIN subs = 1 .. Len(subs) /\ \A i : i \in kept <=> i \in DOMAIN subs /\ subs[i] # s
  OBVIOUS
<1> HIDE DEF kept
<1>4. /\ w \in Seq(Subscribers)
      /\ \A k \in 1 .. Len(w) : \E i \in kept : w[k] = subs[i]
      /\ \A i \in kept : \E k \in 1 .. Len(w) : w[k] = subs[i]
      /\ (\A i, j \in kept : subs[i] = subs[j] => i = j) =>
           \A k, l \in 1 .. Len(w) : w[k] = w[l] => k = l
  BY <1>1, PickedIs
<1> HIDE DEF w
<1>5. DOMAIN w = 1 .. Len(w)
  BY <1>4
<1>6. Once(w)
  <2>1. \A i, j \in kept : subs[i] = subs[j] => i = j
    BY <1>3 DEF Once
  <2> QED
    BY <1>4, <1>5, <2>1 DEF Once
<1>7. ~Contains(w, s)
  <2>1. \A k \in 1 .. Len(w) : w[k] # s
    BY <1>3, <1>4
  <2> QED
    BY <2>1 DEF Contains
<1>8. ASSUME NEW x \in Subscribers, x # s PROVE Contains(w, x) <=> Contains(subs, x)
  <2>1. ASSUME NEW k \in 1 .. Len(w), w[k] = x PROVE \E i \in 1 .. Len(subs) : subs[i] = x
    <3>1. PICK i \in kept : w[k] = subs[i]
      BY <1>4
    <3> QED
      BY <1>3, <2>1, <3>1
  <2>2. ASSUME NEW i \in 1 .. Len(subs), subs[i] = x PROVE \E k \in 1 .. Len(w) : w[k] = x
    <3>1. i \in kept
      BY <1>3, <1>8, <2>2
    <3>2. PICK k \in 1 .. Len(w) : w[k] = subs[i]
      BY <1>4, <3>1
    <3> QED
      BY <2>2, <3>2
  <2> QED
    BY <2>1, <2>2 DEF Contains
<1> QED
  BY <1>2, <1>4, <1>6, <1>7, <1>8

LEMMA WithIs ==
  ASSUME NEW s \in Subscribers, subs \in Seq(Subscribers), Once(subs), ~Contains(subs, s)
  PROVE  /\ With(s) \in Seq(Subscribers) /\ Once(With(s))
         /\ \A x \in Subscribers : Contains(With(s), x) <=> Contains(subs, x) \/ x = s
<1>1. /\ Len(subs) \in Nat /\ DOMAIN subs = 1 .. Len(subs)
      /\ With(s) \in Seq(Subscribers) /\ Len(With(s)) = Len(subs) + 1
      /\ DOMAIN With(s) = 1 .. (Len(subs) + 1)
      /\ \A i \in 1 .. Len(subs) : With(s)[i] = subs[i]
      /\ With(s)[Len(subs) + 1] = s
  BY DEF With
<1>2. \A i \in DOMAIN With(s) : i \in 1 .. Len(subs) \/ i = Len(subs) + 1
  BY <1>1
<1>3. Once(With(s))
  BY <1>1, <1>2 DEF Once, Contains
<1>4. \A x \in Subscribers : Contains(With(s), x) <=> Contains(subs, x) \/ x = s
  BY <1>1, <1>2 DEF Contains
<1> QED
  BY <1>1, <1>3, <1>4

\* The loop goes on to the next subscriber.
LEMMA TailIs ==
  ASSUME NEW q \in Seq(Subscribers), q # <<>>
  PROVE  /\ Tail(q) \in Seq(Subscribers) /\ Head(q) \in Subscribers
         /\ Contains(q, Head(q))
         /\ Once(q) => Once(Tail(q)) /\ ~Contains(Tail(q), Head(q))
         /\ \A x \in Subscribers : x # Head(q) => (Contains(Tail(q), x) <=> Contains(q, x))
<1>1. /\ Len(q) \in Nat /\ Len(q) # 0 /\ DOMAIN q = 1 .. Len(q)
      /\ Tail(q) \in Seq(Subscribers) /\ Head(q) = q[1] /\ q[1] \in Subscribers
      /\ Len(Tail(q)) = Len(q) - 1 /\ DOMAIN Tail(q) = 1 .. (Len(q) - 1)
      /\ \A i \in 1 .. (Len(q) - 1) : Tail(q)[i] = q[i + 1]
  OBVIOUS
<1>2. \A i \in 1 .. (Len(q) - 1) : i + 1 \in DOMAIN q /\ i + 1 # 1
  BY <1>1
<1>3. \A i \in 1 .. Len(q) : i = 1 \/ (i - 1 \in 1 .. (Len(q) - 1) /\ q[i] = Tail(q)[i - 1])
  BY <1>1
<1>4. 1 \in DOMAIN q /\ 1 \in 1 .. Len(q)
  BY <1>1
<1>5. Once(q) => Once(Tail(q))
  BY <1>1, <1>2 DEF Once
<1>6. Once(q) => ~Contains(Tail(q), Head(q))
  BY <1>1, <1>2, <1>4 DEF Once, Contains
<1>7. \A x \in Subscribers : x # Head(q) => (Contains(Tail(q), x) <=> Contains(q, x))
  BY <1>1, <1>2, <1>3 DEF Contains
<1> QED
  BY <1>1, <1>4, <1>5, <1>6, <1>7 DEF Contains

\* A frame, two halves, is taken off a connection.
LEMMA TwoOff ==
  ASSUME NEW S, NEW q \in Seq(S), Len(q) >= 2
  PROVE  /\ Tail(Tail(q)) \in Seq(S) /\ Len(Tail(Tail(q))) = Len(q) - 2
         /\ DOMAIN Tail(Tail(q)) = 1 .. (Len(q) - 2)
         /\ \A i \in 1 .. (Len(q) - 2) : Tail(Tail(q))[i] = q[i + 2]
         /\ Head(q) = q[1]
<1>1. Len(q) \in Nat /\ DOMAIN q = 1 .. Len(q) /\ q # <<>>
  OBVIOUS
<1>2. PICK t : t = Tail(q)
  OBVIOUS
<1>3. /\ t \in Seq(S) /\ Len(t) = Len(q) - 1 /\ t # <<>>
      /\ \A i \in 1 .. (Len(q) - 1) : t[i] = q[i + 1]
  <2>1. t \in Seq(S) /\ Len(t) = Len(q) - 1
    BY <1>1, <1>2
  <2>2. \A i \in 1 .. (Len(q) - 1) : t[i] = q[i + 1]
    BY <1>1, <1>2
  <2>3. t # <<>>
    BY <1>1, <2>1
  <2> QED
    BY <2>1, <2>2, <2>3
<1>4. PICK u : u = Tail(t)
  OBVIOUS
<1>5. /\ u \in Seq(S) /\ Len(u) = Len(t) - 1 /\ DOMAIN u = 1 .. Len(u)
      /\ \A i \in 1 .. (Len(t) - 1) : u[i] = t[i + 1]
  BY <1>3, <1>4
<1>6. \A i \in 1 .. (Len(q) - 2) : i \in 1 .. (Len(t) - 1) /\ i + 1 \in 1 .. (Len(q) - 1)
                                  /\ i + 1 + 1 = i + 2
  BY <1>1, <1>3
<1>7. \A i \in 1 .. (Len(q) - 2) : u[i] = q[i + 2]
  BY <1>3, <1>5, <1>6
<1>8. Len(u) = Len(q) - 2 /\ Head(q) = q[1]
  BY <1>1, <1>3, <1>5
<1> QED
  BY <1>2, <1>4, <1>5, <1>7, <1>8

-----------------------------------------------------------------------------
(* Types and counts.                                                         *)

LEMMA FrameIs ==
  ASSUME TypeOK, CountInv, NEW c \in Conns, NEW s \in Subscribers, Sends(c, s)
  PROVE  /\ Frame(c) \in Frames /\ <<Frame(c), part[c] + 1>> \in Halves
         /\ c \in Publishers  => Frame(c) \in Events /\ taken[c] \in 1 .. MaxEvents
         /\ c \in Subscribers => c = s /\ Frame(c) = <<s, 0>> /\ thread[s] = "ack"
<1>1. c \in Publishers => thread[c] = "fanout" /\ c \notin Subscribers
  BY Conn DEF Sends
<1>2. c \in Publishers => taken[c] \in 1 .. MaxEvents
  BY <1>1, Conn DEF TypeOK, CountInv
<1>3. c \in Subscribers => c = s /\ c \notin Publishers /\ thread[s] = "ack"
  BY Conn DEF Sends
<1>4. c \in Publishers => Frame(c) \in Events
  BY <1>2 DEF Frame, Events
<1>5. c \in Subscribers => Frame(c) = <<s, 0>>
  BY <1>3 DEF Frame
<1>6. Frame(c) \in Frames
  BY <1>4, <1>5, Conn DEF Frames
<1>7. part[c] \in {0, 1}
  BY DEF TypeOK
<1> QED
  BY <1>2, <1>3, <1>4, <1>5, <1>6, <1>7 DEF Halves

\* Proceed, or the end of a send that raised: what changes at the thread.
LEMMA LoopTypes ==
  ASSUME TypeOK, NEW c \in Conns, NEW s \in Subscribers, Sends(c, s),
         NEW next \in {"serving", "gone"},
         IF c \in Publishers
         THEN targets' = [targets EXCEPT ![c] = Tail(@)] /\ UNCHANGED thread
         ELSE thread' = [thread EXCEPT ![c] = next] /\ UNCHANGED targets
  PROVE  /\ thread' \in [Conns -> {"off", "asked", "ack", "serving", "fanout", "gone"}]
         /\ targets' \in [Publishers -> Seq(Subscribers)]
<1>1. CASE c \in Publishers
  <2>1. targets[c] \in Seq(Subscribers) /\ targets[c] # <<>>
    BY <1>1, Conn DEF TypeOK, Sends
  <2>2. Tail(targets[c]) \in Seq(Subscribers)
    BY <2>1
  <2> QED
    BY <1>1, <2>2 DEF TypeOK
<1>2. CASE c \notin Publishers
  BY <1>2 DEF TypeOK
<1> QED
  BY <1>1, <1>2

LEMMA TypeServe ==
  ASSUME TypeOK, CountInv, ListInv, NEW c \in Conns, Serve(c)
  PROVE  TypeOK'
<1> USE Conn
<1>1. ASSUME c \in Subscribers, Subscribe(c) PROVE TypeOK'
  <2>1. With(c) \in Seq(Subscribers)
    BY <1>1 DEF TypeOK, With
  <2>2. thread' \in [Conns -> {"off", "asked", "ack", "serving", "fanout", "gone"}]
        /\ subs' \in Seq(Subscribers)
    BY <1>1, <2>1 DEF TypeOK, Subscribe
  <2>3. UNCHANGED <<loop, taken, wire, acked, open, publisher, subscriber, bounds>>
    BY <1>1 DEF Subscribe
  <2> QED
    BY <2>2, <2>3 DEF TypeOK, loop, publisher, subscriber, bounds
<1>2. ASSUME c \in Publishers, TakePublish(c) PROVE TypeOK'
  <2>1. taken[c] < sent[c] /\ taken' = [taken EXCEPT ![c] = @ + 1]
    BY <1>2 DEF TakePublish
  <2>2. taken' \in [Publishers -> 0..MaxEvents]
    BY <1>2, <2>1 DEF TypeOK
  <2>3. \A p \in Publishers : read[p] <= acked[p] /\ acked[p] <= taken'[p] /\ taken'[p] <= sent[p]
    BY <1>2, <2>1 DEF TypeOK
  <2>4. thread' \in [Conns -> {"off", "asked", "ack", "serving", "fanout", "gone"}]
        /\ targets' \in [Publishers -> Seq(Subscribers)]
    BY <1>2 DEF TypeOK, TakePublish
  <2>5. UNCHANGED <<subs, lock, part, wire, acked, open, publisher, subscriber, bounds>>
    BY <1>2 DEF TakePublish
  <2> QED
    BY <2>2, <2>3, <2>4, <2>5 DEF TypeOK, publisher, subscriber, bounds
<1>3. ASSUME c \in Publishers, EndPublish(c) PROVE TypeOK'
  <2>1. acked' = [acked EXCEPT ![c] = taken[c]] \/ acked' = acked
    BY <1>3 DEF EndPublish
  <2>2. acked' \in [Publishers -> 0..MaxEvents]
    BY <1>3, <2>1 DEF TypeOK
  <2>3. \A p \in Publishers : read[p] <= acked'[p] /\ acked'[p] <= taken[p] /\ taken[p] <= sent[p]
    <3>1. \A p \in Publishers : acked'[p] \in {acked[p], taken[p]}
      BY <2>1 DEF TypeOK
    <3>2. \A p \in Publishers : /\ read[p] \in Nat /\ acked[p] \in Nat /\ taken[p] \in Nat
                                /\ read[p] <= acked[p] /\ acked[p] <= taken[p]
                                /\ taken[p] <= sent[p]
      BY DEF TypeOK
    <3> QED
      BY <3>1, <3>2
  <2>4. thread' \in [Conns -> {"off", "asked", "ack", "serving", "fanout", "gone"}]
    BY <1>3 DEF TypeOK, EndPublish
  <2>5. UNCHANGED <<subs, loop, taken, wire, open, publisher, subscriber, bounds>>
    BY <1>3 DEF EndPublish
  <2> QED
    BY <2>2, <2>3, <2>4, <2>5 DEF TypeOK, loop, publisher, subscriber, bounds
<1>4. ASSUME NEW s \in Subscribers, Put(c, s) PROVE TypeOK'
  <2>1. Sends(c, s) /\ <<Frame(c), part[c] + 1>> \in Halves
    BY <1>4, FrameIs DEF Put
  <2>2. wire' \in [Subscribers -> Seq(Halves)] /\ \A t \in Subscribers : Len(wire'[t]) <= Buffer
    <3>1. CASE open[s]
      <4> DEFINE h == <<Frame(c), part[c] + 1>>
      <4>1. wire' = [wire EXCEPT ![s] = Append(@, h)] /\ Len(wire[s]) < Buffer
        BY <1>4, <3>1 DEF Put
      <4>2. wire[s] \in Seq(Halves) /\ Len(wire[s]) \in Nat /\ h \in Halves
        BY <2>1 DEF TypeOK
      <4> HIDE DEF h
      <4>3. Append(wire[s], h) \in Seq(Halves) /\ Len(Append(wire[s], h)) <= Buffer
        BY <4>1, <4>2
      <4> QED
        BY <4>1, <4>3 DEF TypeOK
    <3>2. CASE ~open[s]
      BY <1>4, <3>2 DEF Put, TypeOK
    <3> QED
      BY <3>1, <3>2
  <2>3. lock' \in [Subscribers -> Conns \cup {NoThread}] /\ part' \in [Conns -> {0, 1}]
    <3>1. lock' \in {[lock EXCEPT ![s] = c], [lock EXCEPT ![s] = NoThread]}
          /\ part' \in {[part EXCEPT ![c] = 1], [part EXCEPT ![c] = 0]}
      BY <1>4 DEF Put, Proceed
    <3>2. c \in Conns /\ lock \in [Subscribers -> Conns \cup {NoThread}] /\ part \in [Conns -> {0, 1}]
      BY DEF TypeOK
    <3> QED
      BY <3>1, <3>2
  <2>4. /\ thread' \in [Conns -> {"off", "asked", "ack", "serving", "fanout", "gone"}]
        /\ targets' \in [Publishers -> Seq(Subscribers)]
    <3>1. CASE part[c] = 0
      BY <1>4, <3>1 DEF Put, TypeOK
    <3>2. CASE part[c] # 0
      BY <1>4, <2>1, <3>2, LoopTypes DEF Put, Proceed
    <3> QED
      BY <3>1, <3>2
  <2>5. UNCHANGED <<subs, taken, acked, open, publisher, subscriber, bounds>>
    BY <1>4 DEF Put
  <2> QED
    BY <2>2, <2>3, <2>4, <2>5 DEF TypeOK, publisher, subscriber, bounds
<1>5. ASSUME NEW s \in Subscribers, Broken(c, s) PROVE TypeOK'
  <2>1. /\ thread' \in [Conns -> {"off", "asked", "ack", "serving", "fanout", "gone"}]
        /\ targets' \in [Publishers -> Seq(Subscribers)]
    BY <1>5, LoopTypes DEF Broken
  <2>2. subs' \in Seq(Subscribers)
    BY <1>5, WithoutIs DEF Broken, TypeOK, ListInv
  <2>3. lock' \in [Subscribers -> Conns \cup {NoThread}] /\ part' \in [Conns -> {0, 1}]
    BY <1>5 DEF Broken, Released, TypeOK
  <2>4. UNCHANGED <<taken, wire, acked, open, publisher, subscriber, bounds>>
    BY <1>5 DEF Broken
  <2> QED
    BY <2>1, <2>2, <2>3, <2>4 DEF TypeOK, publisher, subscriber, bounds
<1>6. ASSUME Notice(c) PROVE TypeOK'
  <2>1. subs' \in Seq(Subscribers)
    BY <1>6, WithoutIs DEF Notice, Disconnected, TypeOK, ListInv
  <2>2. thread' \in [Conns -> {"off", "asked", "ack", "serving", "fanout", "gone"}]
    BY <1>6 DEF Notice, TypeOK
  <2>3. UNCHANGED <<loop, taken, wire, acked, open, publisher, subscriber, bounds>>
    BY <1>6 DEF Notice
  <2> QED
    BY <2>1, <2>2, <2>3 DEF TypeOK, loop, publisher, subscriber, bounds
<1> QED
  BY <1>1, <1>2, <1>3, <1>4, <1>5, <1>6 DEF Serve

LEMMA TypeClients ==
  ASSUME TypeOK, CountInv,
         \/ \E c \in Conns : Close(c)
         \/ \E p \in Publishers : Publish(p) \/ ReadAck(p) \/ Timeout(p)
         \/ \E s \in Subscribers : Start(s) \/ Receive(s) \/ Stall(s)
  PROVE  TypeOK'
<1> USE Conn
<1>1. ASSUME NEW c \in Conns, Close(c) PROVE TypeOK'
  <2>1. faults' \in 0..MaxFaults
    BY <1>1 DEF Close, TypeOK
  <2>2. open' \in [Conns -> BOOLEAN] /\ waiting' \in [Publishers -> BOOLEAN]
    BY <1>1, ZenonT(40) DEF Close, TypeOK
  <2>3. wire' \in [Subscribers -> Seq(Halves)] /\ \A s \in Subscribers : Len(wire'[s]) <= Buffer
    <3>1. wire' = wire \/ wire' = [wire EXCEPT ![c] = <<>>]
      BY <1>1 DEF Close
    <3>2. <<>> \in Seq(Halves) /\ Len(<<>>) <= Buffer
      OBVIOUS
    <3>3. wire \in [Subscribers -> Seq(Halves)] /\ \A s \in Subscribers : Len(wire[s]) <= Buffer
      BY DEF TypeOK
    <3>4. \A s \in Subscribers : wire'[s] \in {wire[s], <<>>}
      BY <3>1, <3>3
    <3>5. wire' \in [Subscribers -> Seq(Halves)]
      BY <3>1, <3>2, <3>3
    <3> QED
      BY <3>2, <3>3, <3>4, <3>5
  <2>4. UNCHANGED <<broker, sent, read, promised, subscriber, events>>
    BY <1>1 DEF Close
  <2> QED
    BY <2>1, <2>2, <2>3, <2>4 DEF TypeOK, broker, loop, subscriber
<1>2. ASSUME NEW p \in Publishers, Publish(p) PROVE TypeOK'
  <2>1. events < MaxEvents /\ events' = events + 1 /\ sent' = [sent EXCEPT ![p] = @ + 1]
    BY <1>2 DEF Publish
  <2>2. events' \in 0..MaxEvents
    BY <2>1 DEF TypeOK
  <2>3. sent[p] + 1 \in 1..MaxEvents
    BY <2>1 DEF TypeOK, CountInv
  <2>4. sent' \in [Publishers -> 0..MaxEvents]
    BY <2>1, <2>3 DEF TypeOK
  <2>5. \A q \in Publishers : read[q] <= acked[q] /\ acked[q] <= taken[q] /\ taken[q] <= sent'[q]
    BY <2>1 DEF TypeOK
  <2>6. waiting' \in [Publishers -> BOOLEAN]
    BY <1>2 DEF TypeOK, Publish
  <2>7. promised' \in [Events -> SUBSET Subscribers]
    BY <1>2, <2>3 DEF TypeOK, Publish, Events
  <2>8. UNCHANGED <<broker, wire, open, read, subscriber, faults>>
    BY <1>2 DEF Publish
  <2> QED
    BY <2>2, <2>4, <2>5, <2>6, <2>7, <2>8 DEF TypeOK, broker, loop, subscriber
<1>3. ASSUME NEW p \in Publishers, ReadAck(p) PROVE TypeOK'
  <2>1. read[p] < acked[p] /\ read' = [read EXCEPT ![p] = @ + 1]
    BY <1>3 DEF ReadAck
  <2>2. read' \in [Publishers -> 0..MaxEvents]
    BY <2>1 DEF TypeOK
  <2>3. \A q \in Publishers : read'[q] <= acked[q] /\ acked[q] <= taken[q] /\ taken[q] <= sent[q]
    BY <2>1 DEF TypeOK
  <2>4. waiting' \in [Publishers -> BOOLEAN]
    BY <1>3 DEF TypeOK, ReadAck
  <2>5. UNCHANGED <<broker, wire, open, sent, promised, subscriber, bounds>>
    BY <1>3 DEF ReadAck
  <2> QED
    BY <2>2, <2>3, <2>4, <2>5 DEF TypeOK, broker, loop, subscriber, bounds
<1>4. ASSUME NEW p \in Publishers, Timeout(p) PROVE TypeOK'
  <2>1. faults' \in 0..MaxFaults /\ waiting' \in [Publishers -> BOOLEAN]
    BY <1>4 DEF TypeOK, Timeout
  <2>2. UNCHANGED <<broker, wire, open, sent, read, promised, subscriber, events>>
    BY <1>4 DEF Timeout
  <2> QED
    BY <2>1, <2>2 DEF TypeOK, broker, loop, subscriber
<1>5. ASSUME NEW s \in Subscribers, Start(s) PROVE TypeOK'
  <2>1. thread' \in [Conns -> {"off", "asked", "ack", "serving", "fanout", "gone"}]
    BY <1>5 DEF TypeOK, Start
  <2>2. UNCHANGED <<subs, loop, taken, wire, acked, open, publisher, subscriber, bounds>>
    BY <1>5 DEF Start
  <2> QED
    BY <2>1, <2>2 DEF TypeOK, loop, publisher, subscriber, bounds
<1>6. ASSUME NEW s \in Subscribers, Receive(s) PROVE TypeOK'
  <2> DEFINE frame == Head(wire[s])[1]
  <2>1. received' \in [Subscribers -> Seq(Events)] /\ ready' \in [Subscribers -> BOOLEAN]
    <3>1. CASE frame \in Events
      <4>1. received' = [received EXCEPT ![s] = Append(@, frame)] /\ ready' = ready
        BY <1>6, <3>1 DEF Receive
      <4> HIDE DEF frame
      <4> QED
        BY <3>1, <4>1 DEF TypeOK
    <3>2. CASE frame \notin Events
      BY ZenonT(40), <1>6, <3>2 DEF Receive, TypeOK
    <3> QED
      BY <3>1, <3>2
  <2>2. wire' \in [Subscribers -> Seq(Halves)] /\ \A t \in Subscribers : Len(wire'[t]) <= Buffer
    <3>1. wire[s] \in Seq(Halves) /\ Len(wire[s]) >= 2 /\ Len(wire[s]) <= Buffer
          /\ wire' = [wire EXCEPT ![s] = Tail(Tail(@))]
      BY <1>6 DEF TypeOK, Receive
    <3>3. Tail(Tail(wire[s])) \in Seq(Halves) /\ Len(Tail(Tail(wire[s]))) = Len(wire[s]) - 2
      BY <3>1, TwoOff
    <3>4. Len(Tail(Tail(wire[s]))) <= Buffer /\ Len(wire[s]) \in Nat
      BY <3>1, <3>3
    <3>5. wire \in [Subscribers -> Seq(Halves)] /\ \A t \in Subscribers : Len(wire[t]) <= Buffer
      BY DEF TypeOK
    <3> DEFINE rest == Tail(Tail(wire[s]))
    <3>6. wire' = [wire EXCEPT ![s] = rest] /\ rest \in Seq(Halves) /\ Len(rest) <= Buffer
      BY <3>1, <3>3, <3>4
    <3> HIDE DEF rest
    <3>7. wire' \in [Subscribers -> Seq(Halves)]
      BY <3>5, <3>6
    <3>8. \A t \in Subscribers : wire'[t] = IF t = s THEN rest ELSE wire[t]
      BY <3>5, <3>6
    <3> QED
      BY <3>5, <3>6, <3>7, <3>8
  <2>3. UNCHANGED <<broker, open, publisher, reading, bounds>>
    BY <1>6 DEF Receive
  <2> QED
    BY <2>1, <2>2, <2>3 DEF TypeOK, broker, loop, publisher, bounds
<1>7. ASSUME NEW s \in Subscribers, Stall(s) PROVE TypeOK'
  <2>1. faults' \in 0..MaxFaults /\ reading' \in [Subscribers -> BOOLEAN]
    BY <1>7 DEF TypeOK, Stall
  <2>2. UNCHANGED <<broker, wire, open, publisher, ready, received, events>>
    BY <1>7 DEF Stall
  <2> QED
    BY <2>1, <2>2 DEF TypeOK, broker, loop, publisher
<1> QED
  BY <1>1, <1>2, <1>3, <1>4, <1>5, <1>6, <1>7

\* The publish calls count up, the loop of a publisher runs while it has targets.
LEMMA CountStep ==
  ASSUME TypeOK, CountInv, Next
  PROVE  CountInv'
<1> USE Conn
<1> DEFINE Ok(p) == /\ sent'[p] <= events'
                    /\ thread'[p] \in {"serving", "fanout", "gone"}
                    /\ thread'[p] = "fanout" => acked'[p] < taken'[p]
                    /\ targets'[p] # <<>> => thread'[p] = "fanout"
<1> SUFFICES ASSUME NEW p \in Publishers PROVE Ok(p)
  BY DEF CountInv
<1>1. /\ sent[p] <= events /\ sent[p] \in Nat /\ events \in Nat
      /\ thread[p] \in {"serving", "fanout", "gone"}
      /\ thread[p] = "fanout" => acked[p] < taken[p]
      /\ targets[p] # <<>> => thread[p] = "fanout"
      /\ acked[p] \in Nat /\ taken[p] \in Nat /\ acked[p] <= taken[p] /\ p \in Conns
  BY DEF CountInv, TypeOK
<1>2. ASSUME sent' = sent, events' = events, thread'[p] = thread[p], acked' = acked,
             taken' = taken, targets'[p] = targets[p]
      PROVE  Ok(p)
  BY <1>1, <1>2
<1>3. ASSUME NEW c \in Conns, Serve(c) PROVE Ok(p)
  <2>1. sent' = sent /\ events' = events
    BY <1>3 DEF Serve, Subscribe, TakePublish, EndPublish, Put, Broken, Notice, publisher, bounds
  <2>2. ASSUME c \in Subscribers, Subscribe(c) PROVE Ok(p)
    BY <1>2, <2>1, <2>2 DEF Subscribe, loop, TypeOK
  <2>3. ASSUME c \in Publishers, TakePublish(c) PROVE Ok(p)
    <3>1. CASE c = p
      <4>1. taken'[p] = taken[p] + 1 /\ acked' = acked /\ thread'[p] = "fanout"
        BY <2>3, <3>1 DEF TakePublish, TypeOK
      <4> QED
        BY <1>1, <2>1, <4>1
    <3>2. CASE c # p
      <4>1. /\ taken'[p] = taken[p] /\ acked' = acked /\ thread'[p] = thread[p]
            /\ targets'[p] = targets[p]
        BY <2>3, <3>2 DEF TakePublish, TypeOK
      <4> QED
        BY <1>1, <2>1, <4>1
    <3> QED
      BY <3>1, <3>2
  <2>4. ASSUME c \in Publishers, EndPublish(c) PROVE Ok(p)
    <3>1. CASE c = p
      <4>1. targets'[p] = <<>> /\ thread'[p] \in {"serving", "gone"}
        BY <2>4, <3>1 DEF EndPublish, TypeOK, loop
      <4> QED
        BY <1>1, <2>1, <4>1
    <3>2. CASE c # p
      <4>1. /\ taken'[p] = taken[p] /\ acked'[p] = acked[p] /\ thread'[p] = thread[p]
            /\ targets'[p] = targets[p]
        BY <2>4, <3>2 DEF EndPublish, TypeOK, loop
      <4> QED
        BY <1>1, <2>1, <4>1
    <3> QED
      BY <3>1, <3>2
  <2>5. ASSUME NEW s \in Subscribers, Put(c, s) \/ Broken(c, s) PROVE Ok(p)
    <3>1. /\ taken' = taken /\ acked' = acked /\ thread'[p] = thread[p]
          /\ targets'[p] # <<>> => targets[p] # <<>>
      <4>1. taken' = taken /\ acked' = acked /\ Sends(c, s)
        BY <2>5 DEF Put, Broken
      <4>2. CASE c \in Publishers
        <5>1. thread' = thread /\ (targets' = targets \/ targets' = [targets EXCEPT ![c] = Tail(@)])
          BY <2>5, <4>2 DEF Put, Broken, Proceed
        <5>2. targets[c] # <<>>
          BY <4>1, <4>2 DEF Sends
        <5> QED
          BY <4>1, <5>1, <5>2 DEF TypeOK
      <4>3. CASE c \notin Publishers
        BY <2>5, <4>1, <4>3 DEF Put, Broken, Proceed, TypeOK
      <4> QED
        BY <4>2, <4>3
    <3> QED
      BY <1>1, <2>1, <3>1
  <2>6. ASSUME Notice(c) PROVE Ok(p)
    BY <1>1, <2>1, <2>6 DEF Notice, TypeOK, loop
  <2> QED
    BY <1>3, <2>2, <2>3, <2>4, <2>5, <2>6 DEF Serve
<1>4. ASSUME NEW q \in Publishers, Publish(q) PROVE Ok(p)
  <2>1. /\ events' = events + 1 /\ sent'[p] \in {sent[p], sent[p] + 1}
        /\ thread' = thread /\ acked' = acked /\ taken' = taken /\ targets' = targets
    BY <1>4 DEF Publish, broker, loop, TypeOK
  <2> QED
    BY <1>1, <2>1
<1>5. ASSUME \/ \E c \in Conns : Close(c)
             \/ \E q \in Publishers : ReadAck(q) \/ Timeout(q)
             \/ \E s \in Subscribers : Receive(s) \/ Stall(s)
      PROVE  Ok(p)
  <2>1. sent' = sent /\ events' = events /\ thread' = thread /\ acked' = acked
        /\ taken' = taken /\ targets' = targets
    BY <1>5 DEF Close, ReadAck, Timeout, Receive, Stall, broker, loop, publisher, bounds
  <2> QED
    BY <1>2, <2>1
<1>6. ASSUME NEW s \in Subscribers, Start(s) PROVE Ok(p)
  <2>1. sent' = sent /\ events' = events /\ thread'[p] = thread[p] /\ acked' = acked
        /\ taken' = taken /\ targets' = targets
    BY <1>6 DEF Start, loop, publisher, bounds, TypeOK
  <2> QED
    BY <1>2, <2>1
<1> QED
  BY <1>3, <1>4, <1>5, <1>6 DEF Next

-----------------------------------------------------------------------------
(* The locks.                                                                *)

\* A thread is about to write to one subscriber.
LEMMA OneTarget ==
  ASSUME NEW c \in Conns, NEW s \in Subscribers, NEW t \in Subscribers, Sends(c, s), Sends(c, t)
  PROVE  s = t
BY Conn DEF Sends

\* Only the thread itself changes what it is about to write to.
LEMMA SendsStays ==
  ASSUME TypeOK, NEW c \in Conns, NEW s \in Subscribers, thread'[c] = thread[c],
         c \in Publishers => targets'[c] = targets[c]
  PROVE  Sends(c, s)' <=> Sends(c, s)
BY Conn DEF Sends

LEMMA LeavesLock ==
  ASSUME TypeOK, LockInv, NEW c \in Conns, NEW s \in Subscribers, Sends(c, s), Locks(c, s),
         lock' = [lock EXCEPT ![s] = NoThread], part' = [part EXCEPT ![c] = 0],
         \A d \in Conns : d # c => \A t \in Subscribers : Sends(d, t) => Sends(d, t)'
  PROVE  LockInv'
<1>1. /\ lock'[s] = NoThread /\ \A t \in Subscribers : t # s => lock'[t] = lock[t]
      /\ part'[c] = 0 /\ \A d \in Conns : d # c => part'[d] = part[d]
      /\ \A t \in Subscribers : lock[t] \in Conns \cup {NoThread}
  BY DEF TypeOK
<1>2. ASSUME NEW d \in Conns, part'[d] = 1 PROVE \E t \in Subscribers : lock'[t] = d
  <2>1. d # c /\ part[d] = 1
    BY <1>1, <1>2
  <2>2. PICK t \in Subscribers : lock[t] = d
    BY <2>1 DEF LockInv
  <2>3. t # s
    BY <2>1, <2>2, Conn DEF Locks
  <2> QED
    BY <1>1, <2>2, <2>3
<1>3. ASSUME NEW t \in Subscribers, lock'[t] # NoThread
      PROVE  part'[lock'[t]] = 1 /\ Sends(lock[t], t)' /\ lock'[t] = lock[t]
  <2>1. t # s /\ lock'[t] = lock[t] /\ lock[t] \in Conns
    BY <1>1, <1>3
  <2>2. part[lock[t]] = 1 /\ Sends(lock[t], t)
    BY <1>3, <2>1 DEF LockInv
  <2>3. lock[t] # c
    BY <2>1, <2>2, OneTarget
  <2>4. PICK d \in Conns : d = lock[t]
    BY <2>1
  <2>5. Sends(d, t)'
    BY <2>2, <2>3, <2>4
  <2>6. lock'[t] = d
    BY <2>1, <2>4
  <2>7. Sends(lock[t], t)'
    BY <2>4, <2>5, <2>6 DEF Sends
  <2> QED
    BY <1>1, <2>1, <2>2, <2>3, <2>7
<1> QED
  BY <1>2, <1>3 DEF LockInv

\* What a step of the broker's thread of c does to the other threads: nothing.
LEMMA OwnThread ==
  ASSUME TypeOK, NEW c \in Conns,
         \/ \E s \in Subscribers : Put(c, s) \/ Broken(c, s)
         \/ Subscribe(c) \/ Notice(c)
         \/ c \in Publishers /\ (TakePublish(c) \/ EndPublish(c))
  PROVE  \A d \in Conns : d # c =>
           /\ thread'[d] = thread[d]
           /\ d \in Publishers => targets'[d] = targets[d]
<1> SUFFICES ASSUME NEW d \in Conns, d # c
             PROVE  /\ thread'[d] = thread[d]
                    /\ d \in Publishers => targets'[d] = targets[d]
  OBVIOUS
<1> USE Conn
<1>1. ASSUME NEW s \in Subscribers, Put(c, s) \/ Broken(c, s)
      PROVE  /\ thread'[d] = thread[d]
             /\ d \in Publishers => targets'[d] = targets[d]
  <2>1. thread' = thread \/ \E x : thread' = [thread EXCEPT ![c] = x]
    BY <1>1 DEF Put, Broken, Proceed
  <2>2. targets' = targets \/ targets' = [targets EXCEPT ![c] = Tail(@)]
    BY <1>1 DEF Put, Broken, Proceed
  <2> QED
    BY <2>1, <2>2 DEF TypeOK
<1>2. CASE Subscribe(c) \/ Notice(c)
  BY <1>2 DEF Subscribe, Notice, loop, TypeOK
<1>3. CASE c \in Publishers /\ TakePublish(c)
  BY <1>3 DEF TakePublish, TypeOK
<1>4. CASE c \in Publishers /\ EndPublish(c)
  BY <1>4 DEF EndPublish, loop, TypeOK
<1> QED
  BY <1>1, <1>2, <1>3, <1>4

LEMMA LockStep ==
  ASSUME TypeOK, LockInv, Next
  PROVE  LockInv'
<1> USE Conn
<1>1. ASSUME lock' = lock, part' = part,
             \A c \in Conns, s \in Subscribers : Sends(c, s) => Sends(c, s)'
      PROVE  LockInv'
  <2>1. ASSUME NEW t \in Subscribers, lock[t] # NoThread
        PROVE  part[lock[t]] = 1 /\ Sends(lock[t], t)'
    <3>1. part[lock[t]] = 1 /\ Sends(lock[t], t) /\ lock[t] \in Conns
      BY <2>1 DEF LockInv, TypeOK
    <3>2. PICK d \in Conns : d = lock[t]
      BY <3>1
    <3>3. Sends(d, t)'
      BY <1>1, <3>1, <3>2
    <3>4. lock'[t] = d
      BY <1>1, <3>2
    <3>5. Sends(lock[t], t)'
      BY <3>3, <3>4 DEF Sends
    <3> QED
      BY <3>1, <3>5
  <2> QED
    BY <1>1, <2>1 DEF LockInv
<1>2. ASSUME NEW c \in Conns, NEW s \in Subscribers, Put(c, s) PROVE LockInv'
  <2>1. Sends(c, s) /\ Locks(c, s)
    BY <1>2 DEF Put
  <2>2. CASE part[c] = 0
    <3>1. lock' = [lock EXCEPT ![s] = c] /\ part' = [part EXCEPT ![c] = 1]
          /\ thread' = thread /\ targets' = targets
      BY <1>2, <2>2 DEF Put
    <3>2. /\ lock'[s] = c /\ \A t \in Subscribers : t # s => lock'[t] = lock[t]
          /\ part'[c] = 1 /\ \A d \in Conns : d # c => part'[d] = part[d]
      BY <3>1 DEF TypeOK
    <3>3. lock[s] = NoThread
      BY <2>1, <2>2 DEF Locks, LockInv
    <3>4. ASSUME NEW d \in Conns, part'[d] = 1 PROVE \E t \in Subscribers : lock'[t] = d
      <4>1. CASE d = c
        BY <3>2, <4>1
      <4>2. CASE d # c
        <5>1. PICK t \in Subscribers : lock[t] = d
          BY <3>2, <3>4, <4>2 DEF LockInv
        <5> QED
          BY <3>2, <3>3, <5>1
      <4> QED
        BY <4>1, <4>2
    <3>5. ASSUME NEW t \in Subscribers, lock'[t] # NoThread
          PROVE  part'[lock'[t]] = 1 /\ Sends(lock[t], t)'
      <4>1. CASE t = s
        <5>1. Sends(c, s)'
          BY <2>1, <3>1 DEF Sends
        <5>2. Sends(lock[t], t)'
          BY <3>2, <4>1, <5>1 DEF Sends
        <5> QED
          BY <3>2, <4>1, <5>2
      <4>2. CASE t # s
        <5>1. lock'[t] = lock[t] /\ lock[t] \in Conns /\ part[lock[t]] = 1 /\ Sends(lock[t], t)
          BY <3>2, <3>5, <4>2 DEF LockInv, TypeOK
        <5>2. lock[t] # c
          BY <2>2, <5>1
        <5>3. Sends(lock[t], t)'
          BY <3>1, <5>1 DEF Sends
        <5> QED
          BY <3>2, <5>1, <5>2, <5>3
      <4> QED
        BY <4>1, <4>2
    <3> QED
      BY <3>4, <3>5 DEF LockInv
  <2>3. CASE part[c] # 0
    <3>1. lock' = [lock EXCEPT ![s] = NoThread] /\ part' = [part EXCEPT ![c] = 0]
      BY <1>2, <2>3 DEF Put, Proceed
    <3>2. \A d \in Conns : d # c => \A t \in Subscribers : Sends(d, t) => Sends(d, t)'
      BY <1>2, OwnThread, SendsStays
    <3> QED
      BY <2>1, <3>1, <3>2, LeavesLock
  <2> QED
    BY <2>2, <2>3
<1>3. ASSUME NEW c \in Conns, NEW s \in Subscribers, Broken(c, s) PROVE LockInv'
  <2>1. Sends(c, s) /\ Locks(c, s) /\ lock' = [lock EXCEPT ![s] = NoThread]
        /\ part' = [part EXCEPT ![c] = 0]
    BY <1>3 DEF Broken, Released
  <2>2. \A d \in Conns : d # c => \A t \in Subscribers : Sends(d, t) => Sends(d, t)'
    BY <1>3, OwnThread, SendsStays
  <2> QED
    BY <2>1, <2>2, LeavesLock
<1>4. ASSUME NEW c \in Conns,
             \/ c \in Subscribers /\ Subscribe(c)
             \/ Notice(c)
             \/ c \in Publishers /\ (TakePublish(c) \/ EndPublish(c))
      PROVE  LockInv'
  <2>1. lock' = lock /\ part' = part
    BY <1>4 DEF Subscribe, Notice, TakePublish, EndPublish, loop
  <2>2. \A s \in Subscribers : ~Sends(c, s)
    BY <1>4 DEF Subscribe, Notice, TakePublish, EndPublish, Sends
  <2>3. \A d \in Conns : d # c => \A t \in Subscribers : Sends(d, t) => Sends(d, t)'
    BY <1>4, OwnThread, SendsStays
  <2> QED
    BY <1>1, <2>1, <2>2, <2>3
<1>5. ASSUME \/ \E c \in Conns : Close(c)
             \/ \E p \in Publishers : Publish(p) \/ ReadAck(p) \/ Timeout(p)
             \/ \E s \in Subscribers : Receive(s) \/ Stall(s)
      PROVE  LockInv'
  <2>1. lock' = lock /\ part' = part /\ thread' = thread /\ targets' = targets
    BY <1>5 DEF Close, Publish, ReadAck, Timeout, Receive, Stall, broker, loop
  <2>2. \A c \in Conns, s \in Subscribers : Sends(c, s) => Sends(c, s)'
    BY <2>1 DEF Sends
  <2> QED
    BY <1>1, <2>1, <2>2
<1>6. ASSUME NEW s \in Subscribers, Start(s) PROVE LockInv'
  <2>1. lock' = lock /\ part' = part /\ targets' = targets /\ thread[s] = "off"
        /\ \A d \in Conns : d # s => thread'[d] = thread[d]
    BY <1>6 DEF Start, loop, TypeOK
  <2>2. \A c \in Conns, t \in Subscribers : Sends(c, t) => Sends(c, t)'
    BY <2>1 DEF Sends
  <2> QED
    BY <1>1, <2>1, <2>2
<1> QED
  BY <1>2, <1>3, <1>4, <1>5, <1>6 DEF Next, Serve

-----------------------------------------------------------------------------
(* The list.                                                                 *)

LEMMA ListStep ==
  ASSUME TypeOK, CountInv, ListInv, Next
  PROVE  ListInv'
<1> USE Conn
<1> DEFINE Ok(s) == /\ thread'[s] # "fanout"
                    /\ thread'[s] = "gone" => ~open'[s]
                    /\ Contains(subs', s) => thread'[s] \in {"ack", "serving"}
                    /\ open'[s] /\ thread'[s] \notin {"off", "asked"} => Contains(subs', s)
<1>1. /\ subs \in Seq(Subscribers) /\ Once(subs)
      /\ \A s \in Subscribers :
           /\ s \in Conns /\ s \notin Publishers
           /\ thread[s] # "fanout"
           /\ thread[s] = "gone" => ~open[s]
           /\ Contains(subs, s) => thread[s] \in {"ack", "serving"}
           /\ open[s] /\ thread[s] \notin {"off", "asked"} => Contains(subs, s)
  BY DEF ListInv, TypeOK, Joined
<1>2. thread \in [Conns -> {"off", "asked", "ack", "serving", "fanout", "gone"}]
      /\ open \in [Conns -> BOOLEAN]
  BY DEF TypeOK
<1>3. ASSUME Once(subs'), \A s \in Subscribers : Ok(s) PROVE ListInv'
  BY <1>3 DEF ListInv, Joined, Contains, Once
<1>4. ASSUME subs' = subs, \A s \in Subscribers : thread'[s] = thread[s] /\ (open'[s] => open[s])
      PROVE  ListInv'
  BY <1>1, <1>3, <1>4
<1>5. ASSUME NEW c \in Subscribers, Subscribe(c) PROVE ListInv'
  <2>1. /\ thread[c] = "asked" /\ thread' = [thread EXCEPT ![c] = "ack"]
        /\ subs' = With(c) /\ open' = open
    BY <1>5 DEF Subscribe
  <2>2. /\ Once(subs')
        /\ \A x \in Subscribers : Contains(subs', x) <=> Contains(subs, x) \/ x = c
    BY <1>1, <2>1, WithIs
  <2>3. ASSUME NEW s \in Subscribers PROVE Ok(s)
    BY <1>1, <1>2, <2>1, <2>2
  <2> QED
    BY <1>3, <2>2, <2>3
<1>6. ASSUME NEW c \in Publishers, TakePublish(c) \/ EndPublish(c) PROVE ListInv'
  <2>1. subs' = subs /\ open' = open
    BY <1>6 DEF TakePublish, EndPublish
  <2>2. \A s \in Subscribers : thread'[s] = thread[s]
    BY <1>1, <1>6, OwnThread
  <2> QED
    BY <1>4, <2>1, <2>2
<1>7. ASSUME NEW c \in Conns, NEW s \in Subscribers, Put(c, s) PROVE ListInv'
  <2>1. subs' = subs /\ open' = open
    BY <1>7 DEF Put
  <2>2. CASE thread' = thread
    BY <1>4, <2>1, <2>2
  <2>3. CASE thread' # thread
    <3>1. c = s /\ thread[s] = "ack" /\ thread' = [thread EXCEPT ![s] = "serving"]
      BY <1>7, <2>3 DEF Put, Sends, Proceed
    <3>2. ASSUME NEW t \in Subscribers PROVE Ok(t)
      BY <1>1, <1>2, <2>1, <3>1
    <3> QED
      BY <1>1, <1>3, <2>1, <3>2
  <2> QED
    BY <2>2, <2>3
<1>8. ASSUME NEW c \in Conns, NEW s \in Subscribers, Broken(c, s) PROVE ListInv'
  <2>1. subs' = Without(s) /\ open' = open /\ ~open[s] /\ Sends(c, s)
    BY <1>8 DEF Broken
  <2>2. /\ Once(subs') /\ ~Contains(subs', s)
        /\ \A x \in Subscribers : x # s => (Contains(subs', x) <=> Contains(subs, x))
    BY <1>1, <2>1, WithoutIs
  <2>3. \A t \in Subscribers : t # s => thread'[t] = thread[t]
    BY <1>1, <1>2, <1>8, <2>1 DEF Broken, Sends
  <2>4. thread'[s] \in {thread[s], "gone"}
    BY <1>1, <1>2, <1>8 DEF Broken
  <2>5. ASSUME NEW t \in Subscribers PROVE Ok(t)
    BY <1>1, <2>1, <2>2, <2>3, <2>4
  <2> QED
    BY <1>3, <2>2, <2>5
<1>9. ASSUME NEW c \in Conns, Notice(c) PROVE ListInv'
  <2>1. /\ subs' = Without(c) /\ open' = open /\ ~open[c]
        /\ thread' = [thread EXCEPT ![c] = "gone"]
    BY <1>9 DEF Notice, Disconnected
  <2>2. /\ Once(subs') /\ ~Contains(subs', c)
        /\ \A x \in Subscribers : x # c => (Contains(subs', x) <=> Contains(subs, x))
    BY <1>1, <2>1, WithoutIs
  <2>3. ASSUME NEW t \in Subscribers PROVE Ok(t)
    BY <1>1, <1>2, <2>1, <2>2
  <2> QED
    BY <1>3, <2>2, <2>3
<1>10. ASSUME NEW c \in Conns, Close(c) PROVE ListInv'
  <2>1. subs' = subs /\ thread' = thread /\ \A s \in Subscribers : open'[s] => open[s]
    BY <1>1, <1>2, <1>10 DEF Close, broker
  <2> QED
    BY <1>4, <2>1
<1>11. ASSUME \/ \E p \in Publishers : Publish(p) \/ ReadAck(p) \/ Timeout(p)
              \/ \E s \in Subscribers : Receive(s) \/ Stall(s)
       PROVE  ListInv'
  <2>1. subs' = subs /\ thread' = thread /\ open' = open
    BY <1>11 DEF Publish, ReadAck, Timeout, Receive, Stall, broker
  <2> QED
    BY <1>4, <2>1
<1>12. ASSUME NEW c \in Subscribers, Start(c) PROVE ListInv'
  <2>1. /\ subs' = subs /\ open' = open /\ thread[c] = "off"
        /\ thread' = [thread EXCEPT ![c] = "asked"]
    BY <1>12 DEF Start
  <2>2. ASSUME NEW s \in Subscribers PROVE Ok(s)
    BY <1>1, <1>2, <2>1
  <2> QED
    BY <1>1, <1>3, <2>1, <2>2
<1> QED
  BY <1>5, <1>6, <1>7, <1>8, <1>9, <1>10, <1>11, <1>12 DEF Next, Serve

\* What is left of a loop's list was in the broker's list when the loop began.
LEMMA LoopStep ==
  ASSUME TypeOK, CountInv, ListInv, LoopInv, Next
  PROVE  LoopInv' /\ \A s \in Subscribers : Joined(s) => Joined(s)'
<1> USE Conn
<1>1. /\ subs \in Seq(Subscribers) /\ Once(subs)
      /\ \A s \in Subscribers :
           /\ s \in Conns /\ s \notin Publishers
           /\ Contains(subs, s) => Joined(s)
  BY DEF ListInv, TypeOK, Joined
<1>2. thread \in [Conns -> {"off", "asked", "ack", "serving", "fanout", "gone"}]
      /\ targets \in [Publishers -> Seq(Subscribers)]
  BY DEF TypeOK
<1>3. \A p \in Publishers :
        /\ Once(targets[p]) /\ \A s \in Subscribers : Contains(targets[p], s) => Joined(s)
  BY DEF LoopInv
<1>4. \A s \in Subscribers : Joined(s) => Joined(s)'
  <2> SUFFICES ASSUME NEW s \in Subscribers, thread[s] \notin {"off", "asked"}
               PROVE  thread'[s] \notin {"off", "asked"}
    BY DEF Joined
  <2>1. ASSUME NEW c \in Conns, Serve(c) PROVE thread'[s] \notin {"off", "asked"}
    <3>1. CASE thread' = thread
      BY <3>1
    <3>2. ASSUME NEW x \in {"ack", "serving", "fanout", "gone"}, thread' = [thread EXCEPT ![c] = x]
          PROVE  thread'[s] \notin {"off", "asked"}
      BY <1>1, <1>2, <3>2
    <3> QED
      BY <2>1, <3>1, <3>2 DEF Serve, Subscribe, TakePublish, EndPublish, Put, Broken, Proceed, Notice
  <2>2. ASSUME NEW t \in Subscribers, Start(t) PROVE thread'[s] \notin {"off", "asked"}
    BY <1>1, <1>2, <2>2 DEF Start
  <2>3. ASSUME \/ \E c \in Conns : Close(c)
               \/ \E p \in Publishers : Publish(p) \/ ReadAck(p) \/ Timeout(p)
               \/ \E t \in Subscribers : Receive(t) \/ Stall(t)
        PROVE  thread' = thread
    BY <2>3 DEF Close, Publish, ReadAck, Timeout, Receive, Stall, broker
  <2> QED
    BY <2>1, <2>2, <2>3 DEF Next
<1>5. ASSUME \A p \in Publishers :
               /\ Once(targets'[p])
               /\ \A s \in Subscribers : Contains(targets'[p], s) => Joined(s)
      PROVE  LoopInv'
  BY <1>4, <1>5 DEF LoopInv, Once, Contains
<1>6. ASSUME targets' = targets PROVE LoopInv'
  <2>1. \A p \in Publishers : targets'[p] = targets[p]
    BY <1>6
  <2> QED
    BY <1>3, <1>5, <2>1
<1>7. ASSUME NEW c \in Publishers, targets' = [targets EXCEPT ![c] = subs] PROVE LoopInv'
  BY <1>1, <1>2, <1>3, <1>5, <1>7
<1>8. ASSUME NEW c \in Publishers, targets[c] # <<>>, targets' = [targets EXCEPT ![c] = Tail(@)]
      PROVE  LoopInv'
  <2>1. /\ Once(Tail(targets[c]))
        /\ \A s \in Subscribers : Contains(Tail(targets[c]), s) => Contains(targets[c], s)
    BY <1>2, <1>3, <1>8, TailIs
  <2>2. \A p \in Publishers : targets'[p] = IF p = c THEN Tail(targets[c]) ELSE targets[p]
    BY <1>2, <1>8
  <2> QED
    BY <1>3, <1>5, <2>1, <2>2
<1>9. ASSUME NEW c \in Conns, Serve(c) PROVE LoopInv'
  <2>1. ASSUME NEW s \in Subscribers, Put(c, s) \/ Broken(c, s) PROVE LoopInv'
    <3>1. CASE targets' = targets
      BY <1>6, <3>1
    <3>2. CASE targets' # targets
      <4>1. /\ c \in Publishers /\ Sends(c, s) 
            /\ targets' = [targets EXCEPT ![c] = Tail(@)]
        BY <2>1, <3>2 DEF Put, Broken, Proceed
      <4>2. targets[c] # <<>>
        BY <1>1, <4>1 DEF Sends
      <4> QED
        BY <1>8, <4>1, <4>2
    <3> QED
      BY <3>1, <3>2
  <2>2. ASSUME c \in Subscribers, Subscribe(c) PROVE LoopInv'
    BY <1>6, <2>2 DEF Subscribe, loop
  <2>3. ASSUME c \in Publishers, TakePublish(c) PROVE LoopInv'
    BY <1>7, <2>3 DEF TakePublish
  <2>4. ASSUME c \in Publishers, EndPublish(c) PROVE LoopInv'
    BY <1>6, <2>4 DEF EndPublish, loop
  <2>5. ASSUME Notice(c) PROVE LoopInv'
    BY <1>6, <2>5 DEF Notice, loop
  <2> QED
    BY <1>9, <2>1, <2>2, <2>3, <2>4, <2>5 DEF Serve
<1>10. ASSUME \/ \E c \in Conns : Close(c)
              \/ \E p \in Publishers : Publish(p) \/ ReadAck(p) \/ Timeout(p)
              \/ \E s \in Subscribers : Receive(s) \/ Stall(s) \/ Start(s)
       PROVE  LoopInv'
  BY <1>6, <1>10 DEF Close, Publish, ReadAck, Timeout, Receive, Stall, Start, broker, loop
<1> QED
  BY <1>4, <1>9, <1>10 DEF Next

-----------------------------------------------------------------------------
(* What a connection carries.                                                *)

\* FramesWhole of one connection.
Whole(q) == \A i \in DOMAIN q : IF i % 2 = 1 THEN q[i][2] = 1 ELSE q[i] = <<q[i - 1][1], 2>>

LEMMA WholeStart ==
  ASSUME NEW q \in Seq(Halves), NEW f \in Frames, Whole(q), Len(q) % 2 = 0
  PROVE  /\ Whole(Append(q, <<f, 1>>)) /\ Len(Append(q, <<f, 1>>)) % 2 = 1
         /\ Append(q, <<f, 1>>)[Len(Append(q, <<f, 1>>))][1] = f
<1> DEFINE r == Append(q, <<f, 1>>)
<1>1. /\ Len(q) \in Nat /\ DOMAIN q = 1 .. Len(q) /\ <<f, 1>> \in Halves
      /\ r \in Seq(Halves) /\ Len(r) = Len(q) + 1 /\ DOMAIN r = 1 .. (Len(q) + 1)
      /\ \A i \in 1 .. Len(q) : r[i] = q[i]
      /\ r[Len(q) + 1] = <<f, 1>>
  BY DEF Halves
<1> HIDE DEF r
<1>2. ASSUME NEW i \in 1 .. Len(q)
      PROVE  IF i % 2 = 1 THEN r[i][2] = 1 ELSE r[i] = <<r[i - 1][1], 2>>
  <2>1. IF i % 2 = 1 THEN q[i][2] = 1 ELSE q[i] = <<q[i - 1][1], 2>>
    BY <1>1 DEF Whole
  <2>2. i % 2 # 1 => i - 1 \in 1 .. Len(q)
    BY <1>1
  <2> QED
    BY <1>1, <2>1, <2>2
<1>3. (Len(q) + 1) % 2 = 1 /\ r[Len(q) + 1][2] = 1 /\ r[Len(q) + 1][1] = f
  BY <1>1
<1>4. \A i \in 1 .. (Len(q) + 1) : i \in 1 .. Len(q) \/ i = Len(q) + 1
  BY <1>1
<1>5. Whole(r)
  BY <1>1, <1>2, <1>3, <1>4 DEF Whole
<1> QED
  BY <1>1, <1>3, <1>5 DEF r

LEMMA WholeEnd ==
  ASSUME NEW q \in Seq(Halves), NEW f \in Frames, Whole(q), Len(q) % 2 = 1, q[Len(q)][1] = f
  PROVE  Whole(Append(q, <<f, 2>>)) /\ Len(Append(q, <<f, 2>>)) % 2 = 0
<1> DEFINE r == Append(q, <<f, 2>>)
<1>1. /\ Len(q) \in Nat /\ DOMAIN q = 1 .. Len(q) /\ <<f, 2>> \in Halves
      /\ r \in Seq(Halves) /\ Len(r) = Len(q) + 1 /\ DOMAIN r = 1 .. (Len(q) + 1)
      /\ \A i \in 1 .. Len(q) : r[i] = q[i]
      /\ r[Len(q) + 1] = <<f, 2>>
  BY DEF Halves
<1> HIDE DEF r
<1>2. ASSUME NEW i \in 1 .. Len(q)
      PROVE  IF i % 2 = 1 THEN r[i][2] = 1 ELSE r[i] = <<r[i - 1][1], 2>>
  <2>1. IF i % 2 = 1 THEN q[i][2] = 1 ELSE q[i] = <<q[i - 1][1], 2>>
    BY <1>1 DEF Whole
  <2>2. i % 2 # 1 => i - 1 \in 1 .. Len(q)
    BY <1>1
  <2> QED
    BY <1>1, <2>1, <2>2
<1>3. (Len(q) + 1) % 2 = 0 /\ (Len(q) + 1) - 1 = Len(q) /\ Len(q) \in 1 .. Len(q)
  BY SMTT(30), <1>1
<1>4. r[Len(q) + 1] = <<r[(Len(q) + 1) - 1][1], 2>>
  BY <1>1, <1>3
<1>5. \A i \in 1 .. (Len(q) + 1) : i \in 1 .. Len(q) \/ i = Len(q) + 1
  BY <1>1
<1>6. Whole(r)
  BY <1>1, <1>2, <1>3, <1>4, <1>5 DEF Whole
<1> QED
  BY <1>1, <1>3, <1>6 DEF r

LEMMA WholeRest ==
  ASSUME NEW q \in Seq(Halves), Whole(q), Len(q) >= 2
  PROVE  /\ Whole(Tail(Tail(q))) /\ Len(Tail(Tail(q))) % 2 = Len(q) % 2
         /\ Len(q) % 2 = 1 => Tail(Tail(q))[Len(Tail(Tail(q)))] = q[Len(q)]
<1> DEFINE r == Tail(Tail(q))
<1>1. /\ r \in Seq(Halves) /\ Len(r) = Len(q) - 2 /\ DOMAIN r = 1 .. (Len(q) - 2)
      /\ \A i \in 1 .. (Len(q) - 2) : r[i] = q[i + 2]
  BY TwoOff
<1>2. Len(q) \in Nat /\ DOMAIN q = 1 .. Len(q)
  OBVIOUS
<1> HIDE DEF r
<1>3. ASSUME NEW i \in 1 .. (Len(q) - 2)
      PROVE  IF i % 2 = 1 THEN r[i][2] = 1 ELSE r[i] = <<r[i - 1][1], 2>>
  <2>1. i + 2 \in 1 .. Len(q) /\ (i + 2) % 2 = i % 2 /\ r[i] = q[i + 2]
    BY <1>1, <1>2
  <2>2. IF (i + 2) % 2 = 1 THEN q[i + 2][2] = 1 ELSE q[i + 2] = <<q[(i + 2) - 1][1], 2>>
    BY <1>2, <2>1 DEF Whole
  <2>3. i % 2 # 1 => i - 1 \in 1 .. (Len(q) - 2) /\ (i + 2) - 1 = (i - 1) + 2
    BY <1>2
  <2> QED
    BY <1>1, <2>1, <2>2, <2>3
<1>4. Whole(r)
  BY <1>1, <1>3 DEF Whole
<1>5. (Len(q) - 2) % 2 = Len(q) % 2
  BY <1>2
<1>6. Len(q) % 2 = 1 => r[Len(r)] = q[Len(q)]
  <2>1. Len(q) % 2 = 1 => Len(q) - 2 \in 1 .. (Len(q) - 2)
    BY <1>2
  <2>2. (Len(q) - 2) + 2 = Len(q)
    BY <1>2
  <2> QED
    BY <1>1, <2>1, <2>2
<1> QED
  BY <1>1, <1>4, <1>5, <1>6 DEF r

\* A thread that writes to s finds the connection as it left it.
LEMMA Holder ==
  ASSUME TypeOK, LockInv, NEW c \in Conns, NEW s \in Subscribers, Sends(c, s), Locks(c, s)
  PROVE  lock[s] = IF part[c] = 0 THEN NoThread ELSE c
<1>1. CASE part[c] = 0
  BY <1>1 DEF Locks, LockInv
<1>2. CASE part[c] # 0
  <2>1. part[c] = 1
    BY <1>2 DEF TypeOK
  <2>2. PICK t \in Subscribers : lock[t] = c
    BY <2>1 DEF LockInv
  <2>3. Sends(c, t)
    BY <2>2, Conn DEF LockInv
  <2> QED
    BY <1>2, <2>2, <2>3, OneTarget
<1> QED
  BY <1>1, <1>2

\* Frames are never mixed, whoever waits for whom.
LEMMA WireStep ==
  ASSUME TypeOK, CountInv, LockInv, WireInv, Next
  PROVE  WireInv'
<1> USE Conn
<1> DEFINE F(d) == IF d \in Publishers THEN <<d, taken[d]>> ELSE <<d, 0>>
           G(d) == IF d \in Publishers THEN <<d, taken'[d]>> ELSE <<d, 0>>
           Old(s) == /\ Whole(wire[s])
                     /\ ~open[s] => wire[s] = <<>>
                     /\ open[s] => IF lock[s] = NoThread THEN Len(wire[s]) % 2 = 0
                                   ELSE /\ Len(wire[s]) % 2 = 1
                                        /\ wire[s][Len(wire[s])][1] = F(lock[s])
           Ok(s) == /\ Whole(wire'[s])
                    /\ ~open'[s] => wire'[s] = <<>>
                    /\ open'[s] => IF lock'[s] = NoThread THEN Len(wire'[s]) % 2 = 0
                                   ELSE /\ Len(wire'[s]) % 2 = 1
                                        /\ wire'[s][Len(wire'[s])][1] = G(lock'[s])
<1>1. \A s \in Subscribers : Old(s)
  BY DEF WireInv, FramesWhole, Whole, Frame
<1>2. ASSUME \A s \in Subscribers : Ok(s) PROVE WireInv'
  BY <1>2 DEF WireInv, FramesWhole, Whole, Frame
<1>3. Whole(<<>>) /\ Len(<<>>) % 2 = 0
  <2>1. DOMAIN <<>> = {} /\ Len(<<>>) = 0
    OBVIOUS
  <2> QED
    BY <2>1 DEF Whole
<1>4. /\ \A s \in Subscribers : wire[s] \in Seq(Halves) /\ s \in Conns /\ s \notin Publishers
      /\ wire \in [Subscribers -> Seq(Halves)] /\ open \in [Conns -> BOOLEAN]
      /\ lock \in [Subscribers -> Conns \cup {NoThread}]
      /\ part \in [Conns -> {0, 1}] /\ taken \in [Publishers -> 0..MaxEvents]
  BY DEF TypeOK
<1>5. ASSUME NEW s \in Subscribers, wire'[s] = wire[s], open'[s] = open[s], lock'[s] = lock[s],
             taken' = taken
      PROVE  Ok(s)
  BY <1>1, <1>5
<1>6. ASSUME NEW c \in Conns, NEW s \in Subscribers, Put(c, s) PROVE WireInv'
  <2>1. /\ Sends(c, s) /\ Locks(c, s) /\ taken' = taken /\ open' = open
        /\ part[c] \in {0, 1} /\ c # NoThread
    BY <1>4, <1>6 DEF Put
  <2>2. lock[s] = IF part[c] = 0 THEN NoThread ELSE c
    BY <2>1, Holder
  <2>3. PICK f \in Frames : f = Frame(c)
    BY <2>1, FrameIs
  <2>4. f = F(c) /\ f = G(c)
    BY <2>1, <2>3 DEF Frame
  <2>5. lock'[s] = (IF part[c] = 0 THEN c ELSE NoThread)
        /\ \A t \in Subscribers : t # s => lock'[t] = lock[t]
    BY <1>4, <1>6 DEF Put, Proceed
  <2>6. wire'[s] = (IF open[s] THEN Append(wire[s], <<f, part[c] + 1>>) ELSE wire[s])
        /\ \A t \in Subscribers : t # s => wire'[t] = wire[t]
    BY <1>4, <1>6, <2>3 DEF Put
  <2>7. \A t \in Subscribers : t # s => Ok(t)
    <3> HIDE DEF Ok
    <3> QED
      BY <1>5, <2>1, <2>5, <2>6
  <2>8. CASE ~open[s]
    <3>1. Ok(s)
      BY <1>1, <2>1, <2>6, <2>8
    <3> HIDE DEF Ok
    <3> QED
      BY <1>2, <2>7, <3>1
  <2>9. CASE open[s] /\ part[c] = 0
    <3> PICK q : q = wire[s]
      OBVIOUS
    <3> PICK r : r = Append(q, <<f, 1>>)
      OBVIOUS
    <3>1. Whole(q) /\ Len(q) % 2 = 0 /\ q \in Seq(Halves)
      BY <1>1, <1>4, <2>2, <2>9
    <3>2. wire'[s] = r
      BY <2>6, <2>9
    <3>3. Whole(r) /\ Len(r) % 2 = 1 /\ r[Len(r)][1] = f
      BY <3>1, WholeStart
    <3>4. Ok(s)
      BY <2>1, <2>4, <2>5, <2>9, <3>2, <3>3
    <3> HIDE DEF Ok
    <3> QED
      BY <1>2, <2>7, <3>4
  <2>10. CASE open[s] /\ part[c] = 1
    <3> PICK q : q = wire[s]
      OBVIOUS
    <3> PICK r : r = Append(q, <<f, 2>>)
      OBVIOUS
    <3>1. /\ Whole(q) /\ Len(q) % 2 = 1 /\ q[Len(q)][1] = f /\ q \in Seq(Halves)
      BY <1>1, <1>4, <2>1, <2>2, <2>4, <2>10
    <3>2. wire'[s] = r
      BY <2>6, <2>10
    <3>3. Whole(r) /\ Len(r) % 2 = 0
      BY <3>1, WholeEnd
    <3>4. lock'[s] = NoThread /\ open'[s]
      BY <2>1, <2>5, <2>10
    <3>5. Ok(s)
      BY <3>2, <3>3, <3>4
    <3> HIDE DEF Ok
    <3> QED
      BY <1>2, <2>7, <3>5
  <2> QED
    BY <2>1, <2>8, <2>9, <2>10
<1>7. ASSUME NEW c \in Conns, NEW s \in Subscribers, Broken(c, s) PROVE WireInv'
  <2>1. /\ ~open[s] /\ open' = open /\ wire' = wire /\ taken' = taken
        /\ \A t \in Subscribers : t # s => lock'[t] = lock[t]
    BY <1>4, <1>7 DEF Broken, Released
  <2>2. \A t \in Subscribers : t # s => Ok(t)
    <3> HIDE DEF Ok
    <3> QED
      BY <1>5, <2>1
  <2>3. Ok(s)
    BY <1>1, <2>1
  <2> HIDE DEF Ok
  <2> QED
    BY <1>2, <2>2, <2>3
<1>8. ASSUME NEW c \in Publishers, TakePublish(c) PROVE WireInv'
  <2>1. /\ wire' = wire /\ open' = open /\ lock' = lock /\ thread[c] = "serving"
        /\ \A d \in Publishers : d # c => taken'[d] = taken[d]
    BY <1>4, <1>8 DEF TakePublish
  <2>2. ASSUME NEW s \in Subscribers PROVE Ok(s)
    <3>1. CASE lock[s] = NoThread
      BY <1>1, <2>1, <3>1
    <3>2. CASE lock[s] # NoThread
      <4>1. lock[s] \in Conns /\ Sends(lock[s], s)
        BY <1>4, <3>2 DEF LockInv
      <4>2. lock[s] # c
        BY <2>1, <4>1 DEF Sends
      <4>3. G(lock[s]) = F(lock[s])
        BY <2>1, <4>2
      <4> QED
        BY <1>1, <2>1, <4>3
    <3> QED
      BY <3>1, <3>2
  <2> HIDE DEF Ok
  <2> QED
    BY <1>2, <2>2
<1>9. ASSUME wire' = wire, open' = open, lock' = lock, taken' = taken PROVE WireInv'
  <2>1. \A s \in Subscribers : Ok(s)
    <3> HIDE DEF Ok
    <3> QED
      BY <1>5, <1>9
  <2> HIDE DEF Ok
  <2> QED
    BY <1>2, <2>1
<1>10. ASSUME NEW c \in Conns,
              \/ c \in Subscribers /\ Subscribe(c)
              \/ Notice(c)
              \/ c \in Publishers /\ EndPublish(c)
       PROVE  WireInv'
  <2>1. wire' = wire /\ open' = open /\ lock' = lock /\ taken' = taken
    BY <1>10 DEF Subscribe, Notice, EndPublish, loop
  <2> QED
    BY <1>9, <2>1
<1>11. ASSUME NEW s \in Subscribers, Receive(s) PROVE WireInv'
  <2>1. /\ Len(wire[s]) >= 2 /\ wire' = [wire EXCEPT ![s] = Tail(Tail(@))] /\ open[s]
        /\ open' = open /\ lock' = lock /\ taken' = taken
    BY <1>11 DEF Receive, broker, loop
  <2>2. PICK r : r = Tail(Tail(wire[s]))
    OBVIOUS
  <2>3. wire'[s] = r /\ \A t \in Subscribers : t # s => wire'[t] = wire[t]
    BY <1>4, <2>1, <2>2
  <2>4. /\ Whole(r) /\ Len(r) % 2 = Len(wire[s]) % 2
        /\ Len(wire[s]) % 2 = 1 => r[Len(r)] = wire[s][Len(wire[s])]
    BY <1>1, <1>4, <2>1, <2>2, WholeRest
  <2>5. Ok(s)
    <3>1. Old(s)
      BY <1>1
    <3>2. G(lock[s]) = F(lock[s]) /\ open'[s] /\ lock'[s] = lock[s] /\ wire'[s] = r
      BY <2>1, <2>3
    <3> HIDE DEF F, G
    <3> QED
      BY <2>1, <2>4, <3>1, <3>2
  <2>6. \A t \in Subscribers : t # s => Ok(t)
    <3> HIDE DEF Ok
    <3> QED
      BY <1>5, <2>1, <2>3
  <2> HIDE DEF Ok
  <2> QED
    BY <1>2, <2>5, <2>6
<1>12. ASSUME NEW c \in Conns, Close(c) PROVE WireInv'
  <2>1. /\ lock' = lock /\ taken' = taken
        /\ \A s \in Subscribers : s # c => wire'[s] = wire[s] /\ open'[s] = open[s]
        /\ c \in Subscribers => wire'[c] = <<>> /\ ~open'[c]
    BY <1>4, <1>12 DEF Close, broker, loop
  <2>2. \A s \in Subscribers : s # c => Ok(s)
    <3> HIDE DEF Ok
    <3> QED
      BY <1>5, <2>1
  <2>3. c \in Subscribers => Ok(c)
    BY <1>3, <2>1
  <2> HIDE DEF Ok
  <2> QED
    BY <1>2, <2>2, <2>3
<1>13. ASSUME \/ \E p \in Publishers : Publish(p) \/ ReadAck(p) \/ Timeout(p)
              \/ \E s \in Subscribers : Start(s) \/ Stall(s)
       PROVE  WireInv'
  <2>1. wire' = wire /\ open' = open /\ lock' = lock /\ taken' = taken
    BY <1>13 DEF Publish, ReadAck, Timeout, Start, Stall, broker, loop
  <2> QED
    BY <1>9, <2>1
<1> QED
  BY <1>6, <1>7, <1>8, <1>10, <1>11, <1>12, <1>13 DEF Next, Serve

\* Whoever writes to s, s has joined.
LEMMA TargetJoined ==
  ASSUME TypeOK, LoopInv, NEW c \in Conns, NEW s \in Subscribers, Sends(c, s)
  PROVE  Joined(s)
<1>1. CASE c = s /\ thread[s] = "ack"
  BY <1>1 DEF Joined
<1>2. CASE c \in Publishers /\ targets[c] # <<>> /\ Head(targets[c]) = s
  <2>1. targets[c] \in Seq(Subscribers)
    BY <1>2 DEF TypeOK
  <2>2. Contains(targets[c], s)
    BY <1>2, <2>1, TailIs
  <2> QED
    BY <1>2, <2>2 DEF LoopInv
<1> QED
  BY <1>1, <1>2 DEF Sends

LEMMA JoinedStep ==
  ASSUME TypeOK, CountInv, ListInv, LoopInv, JoinedInv, Next
  PROVE  JoinedInv'
<1> USE Conn
<1> DEFINE Touched(s) == \/ ready[s] \/ wire[s] # <<>> \/ received[s] # <<>>
                         \/ \E e \in Events : s \in promised[e]
           Touches(s) == \/ ready'[s] \/ wire'[s] # <<>> \/ received'[s] # <<>>
                         \/ \E e \in Events : s \in promised'[e]
<1>1. \A s \in Subscribers : (Touched(s) => Joined(s)) /\ (Joined(s) => Joined(s)')
  BY LoopStep DEF JoinedInv
<1>2. ASSUME \A s \in Subscribers : Touches(s) => Touched(s) \/ Joined(s) PROVE JoinedInv'
  <2>1. \A s \in Subscribers : Touches(s) => Joined(s)'
    <3> HIDE DEF Touches, Touched
    <3> QED
      BY <1>1, <1>2
  <2> QED
    BY <2>1 DEF JoinedInv
<1>3. /\ wire \in [Subscribers -> Seq(Halves)] /\ ready \in [Subscribers -> BOOLEAN]
      /\ received \in [Subscribers -> Seq(Events)] /\ promised \in [Events -> SUBSET Subscribers]
  BY DEF TypeOK
<1>4. ASSUME wire' = wire, ready' = ready, received' = received, promised' = promised
      PROVE  JoinedInv'
  BY <1>2, <1>4
<1>5. ASSUME NEW c \in Conns, Serve(c) PROVE JoinedInv'
  <2>1. ASSUME NEW s \in Subscribers, Put(c, s) PROVE JoinedInv'
    <3>1. ready' = ready /\ received' = received /\ promised' = promised
      BY <2>1 DEF Put, subscriber, publisher
    <3>2. Joined(s) /\ \A t \in Subscribers : t # s => wire'[t] = wire[t]
      BY <1>3, <2>1, TargetJoined DEF Put
    <3> QED
      BY <1>2, <3>1, <3>2
  <2>2. ASSUME \/ \E s \in Subscribers : Broken(c, s)
               \/ c \in Subscribers /\ Subscribe(c)
               \/ Notice(c)
               \/ c \in Publishers /\ (TakePublish(c) \/ EndPublish(c))
        PROVE  JoinedInv'
    BY <1>4, <2>2 DEF Broken, Subscribe, Notice, TakePublish, EndPublish, subscriber, publisher
  <2> QED
    BY <1>5, <2>1, <2>2 DEF Serve
<1>6. ASSUME NEW p \in Publishers, Publish(p) PROVE JoinedInv'
  <2>1. ready' = ready /\ received' = received /\ wire' = wire
    BY <1>6 DEF Publish, subscriber
  <2>2. ASSUME NEW s \in Subscribers, NEW e \in Events, s \in promised'[e]
        PROVE  s \in promised[e] \/ ready[s]
    BY <1>3, <1>6, <2>2 DEF Publish
  <2> QED
    BY <1>2, <2>1, <2>2
<1>7. ASSUME NEW s \in Subscribers, Receive(s) PROVE JoinedInv'
  <2>1. promised' = promised /\ wire[s] # <<>>
    <3>1. Len(wire[s]) >= 2 /\ promised' = promised /\ Len(<<>>) = 0
      BY <1>7 DEF Receive, publisher
    <3> QED
      BY <3>1
  <2>2. \A t \in Subscribers : t # s =>
          wire'[t] = wire[t] /\ ready'[t] = ready[t] /\ received'[t] = received[t]
    <3>1. wire' = [wire EXCEPT ![s] = Tail(Tail(@))]
      BY <1>7 DEF Receive
    <3>2. \A t \in Subscribers : t # s => wire'[t] = wire[t]
      BY <1>3, <3>1
    <3>3. \E x : ready' = [ready EXCEPT ![s] = x] \/ ready' = ready
      BY <1>7 DEF Receive
    <3>4. \E x : received' = [received EXCEPT ![s] = x] \/ received' = received
      BY <1>7 DEF Receive
    <3> QED
      BY <1>3, <3>2, <3>3, <3>4
  <2> QED
    BY <1>2, <2>1, <2>2
<1>8. ASSUME NEW c \in Conns, Close(c) PROVE JoinedInv'
  <2>1. /\ ready' = ready /\ received' = received /\ promised' = promised
        /\ \A s \in Subscribers : wire'[s] \in {wire[s], <<>>}
    BY <1>3, <1>8 DEF Close, subscriber
  <2> QED
    BY <1>2, <2>1
<1>9. ASSUME \/ \E p \in Publishers : ReadAck(p) \/ Timeout(p)
             \/ \E s \in Subscribers : Start(s) \/ Stall(s)
      PROVE  JoinedInv'
  BY <1>4, <1>9 DEF ReadAck, Timeout, Start, Stall, subscriber, publisher
<1> QED
  BY <1>5, <1>6, <1>7, <1>8, <1>9 DEF Next

-----------------------------------------------------------------------------
(* Streams: what one step does to the frames that reach a subscriber.        *)

\* Stream, of what was read and what the connection carries.
Flow(r, q) == r \o [i \in 1..(Len(q) \div 2) |-> q[2 * i][1]]

LEMMA FlowIs ==
  ASSUME NEW r \in Seq(Events), NEW q \in Seq(Halves)
  PROVE  /\ Flow(r, q) \in Seq(Frames) /\ Len(Flow(r, q)) = Len(r) + Len(q) \div 2
         /\ DOMAIN Flow(r, q) = 1 .. (Len(r) + Len(q) \div 2)
         /\ Len(r) \in Nat /\ Len(q) \in Nat /\ Len(q) \div 2 \in Nat
         /\ \A i \in 1 .. Len(r) : Flow(r, q)[i] = r[i]
         /\ \A i \in 1 .. (Len(q) \div 2) : Flow(r, q)[Len(r) + i] = q[2 * i][1]
<1> DEFINE m == Len(q) \div 2
           w == [i \in 1 .. m |-> q[2 * i][1]]
<1>1. Len(r) \in Nat /\ Len(q) \in Nat /\ m \in Nat /\ \A i \in 1 .. m : 2 * i \in 1 .. Len(q)
  OBVIOUS
<1>2. \A i \in 1 .. m : q[2 * i][1] \in Frames
  <2>1. \A i \in 1 .. m : q[2 * i] \in Halves
    BY <1>1
  <2> QED
    BY <2>1 DEF Halves
<1> HIDE DEF m
<1>3. w \in Seq(Frames) /\ Len(w) = m
  BY <1>1, <1>2
<1>4. r \in Seq(Frames)
  BY DEF Frames
<1> HIDE DEF w
<1>5. /\ r \o w \in Seq(Frames) /\ Len(r \o w) = Len(r) + m
      /\ DOMAIN (r \o w) = 1 .. (Len(r) + m)
      /\ \A i \in 1 .. Len(r) : (r \o w)[i] = r[i]
      /\ \A i \in 1 .. m : (r \o w)[Len(r) + i] = w[i]
  <2>1. \A i \in 1 .. (Len(r) + m) : (r \o w)[i] = IF i <= Len(r) THEN r[i] ELSE w[i - Len(r)]
    BY <1>3, <1>4
  <2>2. \A i \in 1 .. m : Len(r) + i \in 1 .. (Len(r) + m) /\ ~(Len(r) + i <= Len(r))
                          /\ (Len(r) + i) - Len(r) = i
    BY <1>1
  <2>3. \A i \in 1 .. Len(r) : i \in 1 .. (Len(r) + m) /\ i <= Len(r)
    BY <1>1
  <2>4. /\ r \o w \in Seq(Frames) /\ Len(r \o w) = Len(r) + m
        /\ DOMAIN (r \o w) = 1 .. (Len(r) + m)
    BY <1>1, <1>3, <1>4
  <2> QED
    BY <2>1, <2>2, <2>3, <2>4
<1>6. \A i \in 1 .. m : w[i] = q[2 * i][1]
  BY DEF w
<1>7. Flow(r, q) = r \o w
  BY DEF Flow, w, m
<1> QED
  BY <1>1, <1>5, <1>6, <1>7 DEF m

LEMMA Stays ==
  ASSUME NEW S, NEW a \in Seq(S), NEW b \in Seq(S), Len(a) = Len(b),
         \A i \in 1 .. Len(a) : b[i] = a[i]
  PROVE  b = a
OBVIOUS

\* The first half of a frame is nothing yet.
LEMMA FlowStart ==
  ASSUME NEW r \in Seq(Events), NEW q \in Seq(Halves), NEW h \in Halves, Len(q) % 2 = 0
  PROVE  Flow(r, Append(q, h)) = Flow(r, q)
<1>t. PICK t : t = Append(q, h)
  OBVIOUS
<1>1. /\ t \in Seq(Halves) /\ Len(t) = Len(q) + 1 /\ Len(q) \in Nat
      /\ \A i \in 1 .. Len(q) : t[i] = q[i]
  BY <1>t
<1>2. Len(t) \div 2 = Len(q) \div 2 /\ \A i \in 1 .. (Len(q) \div 2) : 2 * i \in 1 .. Len(q)
  BY <1>1
<1>m. PICK m : m = Len(q) \div 2
  OBVIOUS
<1>3. \A i \in 1 .. m : t[2 * i][1] = q[2 * i][1]
  BY <1>1, <1>2, <1>m
<1>4. [i \in 1..m |-> t[2 * i][1]] = [i \in 1..m |-> q[2 * i][1]]
  BY <1>3
<1> QED
  BY <1>2, <1>4, <1>t, <1>m DEF Flow

\* The second half brings the frame.
LEMMA FlowEnd ==
  ASSUME NEW r \in Seq(Events), NEW q \in Seq(Halves), NEW f \in Frames, Len(q) % 2 = 1
  PROVE  Flow(r, Append(q, <<f, 2>>)) = Append(Flow(r, q), f)
<1>t. PICK t : t = Append(q, <<f, 2>>)
  OBVIOUS
<1>1. /\ t \in Seq(Halves) /\ Len(t) = Len(q) + 1 /\ Len(q) \in Nat
      /\ \A i \in 1 .. Len(q) : t[i] = q[i]
      /\ t[Len(q) + 1] = <<f, 2>>
  BY <1>t DEF Halves
<1>m. PICK m : m = Len(q) \div 2
  OBVIOUS
<1>n. PICK n : n = Len(r)
  OBVIOUS
<1>2. /\ m \in Nat /\ Len(t) \div 2 = m + 1 /\ 2 * (m + 1) = Len(q) + 1 /\ n \in Nat
      /\ \A i \in 1 .. m : 2 * i \in 1 .. Len(q)
  <2>1. m \in Nat /\ Len(q) = 2 * m + 1 /\ n \in Nat
    BY <1>1, <1>m, <1>n
  <2>2. Len(t) \div 2 = m + 1
    BY <1>1, <2>1
  <2> QED
    BY <2>1, <2>2
<1>a. PICK a : a = Flow(r, q)
  OBVIOUS
<1>b. PICK b : b = Flow(r, t)
  OBVIOUS
<1>3. /\ a \in Seq(Frames) /\ Len(a) = n + m
      /\ \A i \in 1 .. n : a[i] = r[i]
      /\ \A i \in 1 .. m : a[n + i] = q[2 * i][1]
  BY <1>a, <1>n, <1>m, FlowIs
<1>4. /\ b \in Seq(Frames) /\ Len(b) = n + (m + 1)
      /\ \A i \in 1 .. n : b[i] = r[i]
      /\ \A i \in 1 .. (m + 1) : b[n + i] = t[2 * i][1]
  BY <1>1, <1>2, <1>b, <1>n, FlowIs
<1>5. b[n + (m + 1)] = f
  <2>1. m + 1 \in 1 .. (m + 1)
    BY <1>2
  <2>2. b[n + (m + 1)] = t[2 * (m + 1)][1]
    BY <1>4, <2>1
  <2>3. t[2 * (m + 1)] = <<f, 2>>
    BY <1>1, <1>2
  <2> QED
    BY <2>2, <2>3
<1>6. ASSUME NEW i \in 1 .. (n + m) PROVE b[i] = a[i]
  <2>1. CASE i \in 1 .. n
    BY <1>3, <1>4, <2>1
  <2>2. CASE i \notin 1 .. n
    <3>1. PICK j \in 1 .. m : i = n + j
      <4>1. i - n \in 1 .. m /\ i = n + (i - n)
        BY <1>2, <2>2
      <4> QED
        BY <4>1
    <3>2. j \in 1 .. (m + 1) /\ t[2 * j] = q[2 * j]
      BY <1>1, <1>2
    <3> QED
      BY <1>3, <1>4, <3>1, <3>2
  <2> QED
    BY <2>1, <2>2
<1>u. PICK u : u = Append(a, f)
  OBVIOUS
<1>7. /\ u \in Seq(Frames) /\ Len(u) = (n + m) + 1
      /\ \A i \in 1 .. (n + m) : u[i] = a[i]
      /\ u[(n + m) + 1] = f
  <2>1. (n + m) \in Nat /\ Len(a) = n + m /\ a \in Seq(Frames)
    BY <1>2, <1>3
  <2> QED
    BY <1>u, <2>1
<1>8. (n + m) + 1 = n + (m + 1) /\ \A i \in 1 .. (n + m) + 1 : i \in 1 .. (n + m) \/ i = (n + m) + 1
  BY <1>2
<1>9. u = b
  <2>1. Len(b) = Len(u)
    BY <1>4, <1>7, <1>8
  <2>2. \A i \in 1 .. Len(b) : u[i] = b[i]
    BY <1>4, <1>5, <1>6, <1>7, <1>8
  <2> QED
    BY <1>4, <1>7, <2>1, <2>2, Stays
<1> QED
  BY <1>9, <1>t, <1>a, <1>b, <1>u

\* The frames left when the first has been read.
LEMMA FlowRest ==
  ASSUME NEW r \in Seq(Events), NEW q \in Seq(Halves), Len(q) >= 2, Whole(q)
  PROVE  LET a == Flow(r, q)
             b == Flow(r, Tail(Tail(q)))
             n == Len(r)
         IN  /\ b \in Seq(Frames) /\ Len(b) = Len(a) - 1
             /\ n + 1 \in 1 .. Len(a) /\ a[n + 1] = Head(q)[1]
             /\ \A i \in 1 .. n : b[i] = a[i] /\ b[i] = r[i]
             /\ \A i \in (n + 1) .. (Len(a) - 1) : b[i] = a[i + 1]
<1>t. PICK t : t = Tail(Tail(q))
  OBVIOUS
<1>1. /\ t \in Seq(Halves) /\ Len(t) = Len(q) - 2 /\ Head(q) = q[1] /\ Len(q) \in Nat
      /\ \A i \in 1 .. (Len(q) - 2) : t[i] = q[i + 2]
      /\ DOMAIN q = 1 .. Len(q)
  BY <1>t, TwoOff
<1>m. PICK m : m = Len(t) \div 2
  OBVIOUS
<1>n. PICK n : n = Len(r)
  OBVIOUS
<1>2. m \in Nat /\ Len(q) \div 2 = m + 1 /\ n \in Nat /\ 2 * m <= Len(q) - 2
  BY <1>1, <1>m, <1>n
<1>a. PICK a : a = Flow(r, q)
  OBVIOUS
<1>b. PICK b : b = Flow(r, t)
  OBVIOUS
<1>3. /\ a \in Seq(Frames) /\ Len(a) = n + (m + 1)
      /\ \A i \in 1 .. n : a[i] = r[i]
      /\ \A i \in 1 .. (m + 1) : a[n + i] = q[2 * i][1]
  BY <1>2, <1>a, <1>n, FlowIs
<1>4. /\ b \in Seq(Frames) /\ Len(b) = n + m
      /\ \A i \in 1 .. n : b[i] = r[i]
      /\ \A i \in 1 .. m : b[n + i] = t[2 * i][1]
  BY <1>1, <1>b, <1>n, <1>m, FlowIs
<1>5. a[n + 1] = Head(q)[1]
  <2>1. 2 \in DOMAIN q /\ 2 % 2 # 1 /\ 2 - 1 = 1 /\ 1 \in 1 .. (m + 1) /\ 2 * 1 = 2
    BY <1>1, <1>2
  <2>2. q[2] = <<q[1][1], 2>>
    BY <2>1 DEF Whole
  <2>3. a[n + 1] = q[2][1]
    BY <1>3, <2>1
  <2> QED
    BY <1>1, <2>2, <2>3
<1>6. ASSUME NEW i \in (n + 1) .. (n + m) PROVE b[i] = a[i + 1]
  <2>1. PICK j \in 1 .. m : i = n + j
    <3>1. i - n \in 1 .. m /\ i = n + (i - n)
      BY <1>2
    <3> QED
      BY <3>1
  <2>2. j + 1 \in 1 .. (m + 1) /\ i + 1 = n + (j + 1) /\ 2 * j \in 1 .. (Len(q) - 2)
        /\ 2 * j + 2 = 2 * (j + 1)
    BY <1>1, <1>2, <2>1
  <2>3. t[2 * j] = q[2 * (j + 1)]
    BY <1>1, <2>2
  <2> QED
    BY <1>3, <1>4, <2>1, <2>2, <2>3
<1>7. Len(b) = Len(a) - 1 /\ n + 1 \in 1 .. Len(a) /\ Len(a) - 1 = n + m
  BY <1>2, <1>3, <1>4
<1> QED
  BY <1>3, <1>4, <1>5, <1>6, <1>7, <1>t, <1>n, <1>a, <1>b

\* An event that is read changes nothing.
LEMMA FlowRead ==
  ASSUME NEW r \in Seq(Events), NEW q \in Seq(Halves), Len(q) >= 2, Whole(q), Head(q)[1] \in Events
  PROVE  Flow(Append(r, Head(q)[1]), Tail(Tail(q))) = Flow(r, q)
<1>t. PICK t : t = Tail(Tail(q))
  OBVIOUS
<1>f. PICK f \in Events : f = Head(q)[1]
  OBVIOUS
<1>u. PICK u : u = Append(r, f)
  OBVIOUS
<1>a. PICK a : a = Flow(r, q)
  OBVIOUS
<1>b. PICK b : b = Flow(r, t)
  OBVIOUS
<1>c. PICK c : c = Flow(u, t)
  OBVIOUS
<1>n. PICK n : n = Len(r)
  OBVIOUS
<1>m. PICK m : m = Len(t) \div 2
  OBVIOUS
<1>1. /\ t \in Seq(Halves) /\ u \in Seq(Events) /\ Len(u) = n + 1 /\ n \in Nat
      /\ \A i \in 1 .. n : u[i] = r[i]
      /\ u[n + 1] = f
  BY <1>t, <1>u, <1>n, TwoOff
<1>2. /\ a \in Seq(Frames) /\ b \in Seq(Frames) /\ Len(b) = Len(a) - 1
      /\ a[n + 1] = f /\ n + 1 \in 1 .. Len(a)
      /\ \A i \in 1 .. n : b[i] = a[i] /\ b[i] = r[i]
      /\ \A i \in (n + 1) .. (Len(a) - 1) : b[i] = a[i + 1]
  BY <1>a, <1>b, <1>n, <1>t, <1>f, FlowIs, FlowRest
<1>3. /\ m \in Nat /\ Len(b) = n + m
      /\ \A i \in 1 .. m : b[n + i] = t[2 * i][1]
  BY <1>1, <1>b, <1>m, <1>n, FlowIs
<1>4. /\ c \in Seq(Frames) /\ Len(c) = (n + 1) + m
      /\ \A i \in 1 .. (n + 1) : c[i] = u[i]
      /\ \A i \in 1 .. m : c[(n + 1) + i] = t[2 * i][1]
  <2>1. /\ c \in Seq(Frames) /\ Len(c) = Len(u) + m
        /\ \A i \in 1 .. Len(u) : c[i] = u[i]
        /\ \A i \in 1 .. m : c[Len(u) + i] = t[2 * i][1]
    BY <1>1, <1>c, <1>m, FlowIs
  <2> QED
    BY <1>1, <2>1
<1>5. Len(a) \in Nat /\ Len(a) = (n + 1) + m
  BY <1>1, <1>2, <1>3, <1>4
<1>6. ASSUME NEW i \in 1 .. Len(a) PROVE c[i] = a[i]
  <2>1. CASE i \in 1 .. n
    BY <1>1, <1>2, <1>4, <2>1
  <2>2. CASE i = n + 1
    BY <1>1, <1>2, <1>4, <2>2
  <2>3. CASE i \notin 1 .. (n + 1)
    <3>1. PICK j \in 1 .. m : i = (n + 1) + j
      <4>1. i - (n + 1) \in 1 .. m /\ i = (n + 1) + (i - (n + 1))
        BY <1>1, <1>3, <1>5, <2>3
      <4> QED
        BY <4>1
    <3>2. n + j \in (n + 1) .. (Len(a) - 1) /\ (n + j) + 1 = i
      BY <1>1, <1>3, <1>5, <3>1
    <3> QED
      BY ZenonT(40), <1>2, <1>3, <1>4, <3>1, <3>2
  <2> QED
    BY <1>1, <2>1, <2>2, <2>3
<1>7. c = a
  BY <1>2, <1>4, <1>5, <1>6, Stays
<1> QED
  BY <1>7, <1>a, <1>c, <1>u, <1>t, <1>f

LEMMA FlowCut ==
  ASSUME NEW r \in Seq(Events), NEW q \in Seq(Halves)
  PROVE  /\ Flow(r, <<>>) = r
         /\ Len(r) <= Len(Flow(r, q)) /\ \A i \in 1 .. Len(r) : r[i] = Flow(r, q)[i]
<1>1. <<>> \in Seq(Halves) /\ Len(<<>>) \div 2 = 0 /\ r \in Seq(Frames) /\ Len(r) \in Nat
  BY DEF Frames
<1>b. PICK b : b = Flow(r, <<>>)
  OBVIOUS
<1>2. b \in Seq(Frames) /\ Len(b) = Len(r) /\ \A i \in 1 .. Len(r) : b[i] = r[i]
  <2>1. \A q0 \in Seq(Halves) : b = Flow(r, q0) =>
          b \in Seq(Frames) /\ Len(b) = Len(r) + Len(q0) \div 2 /\ \A i \in 1 .. Len(r) : b[i] = r[i]
    BY FlowIs
  <2>2. b \in Seq(Frames) /\ Len(b) = Len(r) + Len(<<>>) \div 2 /\ \A i \in 1 .. Len(r) : b[i] = r[i]
    BY <1>1, <1>b, <2>1
  <2> QED
    BY <1>1, <2>2
<1>3. b = r
  BY <1>1, <1>2, Stays
<1>4. Len(r) <= Len(Flow(r, q)) /\ \A i \in 1 .. Len(r) : r[i] = Flow(r, q)[i]
  BY FlowIs
<1> QED
  BY <1>3, <1>4, <1>b

LEMMA FrameParts ==
  ASSUME NEW a \in Seq(Frames)
  PROVE  /\ Len(a) \in Nat /\ DOMAIN a = 1 .. Len(a)
         /\ \A i \in 1 .. Len(a) : a[i][1] \in Conns /\ a[i][2] \in Nat /\ a[i] = <<a[i][1], a[i][2]>>
<1>1. \A f \in Frames : f[1] \in Conns /\ f[2] \in Nat /\ f = <<f[1], f[2]>>
  <2>1. MaxEvents \in Nat
    BY Conn
  <2>2. \A f \in Events : f[1] \in Conns /\ f[2] \in Nat /\ f = <<f[1], f[2]>>
    BY <2>1 DEF Events, Conns
  <2>3. \A f \in Subscribers \X {0} : f[1] \in Conns /\ f[2] \in Nat /\ f = <<f[1], f[2]>>
    BY DEF Conns
  <2> QED
    BY <2>2, <2>3 DEF Frames
<1> QED
  BY <1>1

LEMMA AddedHas ==
  ASSUME NEW a \in Seq(Frames), NEW f \in Frames
  PROVE  /\ Append(a, f) \in Seq(Frames)
         /\ Len(Append(a, f)) = Len(a) + 1 /\ DOMAIN Append(a, f) = 1 .. (Len(a) + 1)
         /\ \A i \in 1 .. Len(a) : Append(a, f)[i] = a[i]
         /\ Append(a, f)[Len(a) + 1] = f
         /\ \A x : Contains(Append(a, f), x) <=> Contains(a, x) \/ x = f
<1>1. PICK b : b = Append(a, f)
  OBVIOUS
<1>2. /\ b \in Seq(Frames) /\ Len(b) = Len(a) + 1 /\ DOMAIN b = 1 .. (Len(a) + 1)
      /\ Len(a) \in Nat /\ DOMAIN a = 1 .. Len(a)
      /\ \A i \in 1 .. Len(a) : b[i] = a[i]
      /\ b[Len(a) + 1] = f
  BY <1>1
<1>3. \A i \in 1 .. (Len(a) + 1) : i \in 1 .. Len(a) \/ i = Len(a) + 1
  BY <1>2
<1>4. (\A i \in 1 .. Len(a) : i \in 1 .. (Len(a) + 1)) /\ Len(a) + 1 \in 1 .. (Len(a) + 1)
  BY <1>2
<1>5. \A x : Contains(b, x) <=> Contains(a, x) \/ x = f
  BY <1>2, <1>3, <1>4 DEF Contains
<1> QED
  BY <1>1, <1>2, <1>5

\* A frame that is not of p is added.
LEMMA AddedOther ==
  ASSUME NEW a \in Seq(Frames), NEW f \in Frames, NEW p \in Publishers, f[1] # p, NEW d \in Nat
  PROVE  /\ InOrder(a, p) => InOrder(Append(a, f), p)
         /\ Upto(a, p, d) => Upto(Append(a, f), p, d)
<1>1. PICK b : b = Append(a, f)
  OBVIOUS
<1>2. /\ b \in Seq(Frames) /\ DOMAIN b = 1 .. (Len(a) + 1)
      /\ \A i \in 1 .. Len(a) : b[i] = a[i]
      /\ b[Len(a) + 1] = f
      /\ \A x : Contains(a, x) => Contains(b, x)
  BY <1>1, AddedHas
<1>3. Len(a) \in Nat /\ DOMAIN a = 1 .. Len(a)
  BY FrameParts
<1>4. \A i \in DOMAIN b : b[i][1] = p => i \in 1 .. Len(a) /\ b[i] = a[i]
  <2>1. \A i \in 1 .. (Len(a) + 1) : i \in 1 .. Len(a) \/ i = Len(a) + 1
    BY <1>3
  <2> QED
    BY <1>2, <2>1
<1>5. Upto(a, p, d) => Upto(b, p, d)
  BY <1>2, <1>3, <1>4 DEF Upto
<1>6. InOrder(a, p) => InOrder(b, p)
  BY <1>2, <1>3, <1>4 DEF InOrder
<1> QED
  BY <1>1, <1>5, <1>6

\* The next event of p is added.
LEMMA AddedNext ==
  ASSUME NEW a \in Seq(Frames), NEW p \in Publishers, NEW d \in Nat, <<p, d + 1>> \in Frames,
         InOrder(a, p), Upto(a, p, d)
  PROVE  /\ InOrder(Append(a, <<p, d + 1>>), p)
         /\ Upto(Append(a, <<p, d + 1>>), p, d + 1)
<1>1. PICK b : b = Append(a, <<p, d + 1>>)
  OBVIOUS
<1>2. /\ b \in Seq(Frames) /\ DOMAIN b = 1 .. (Len(a) + 1)
      /\ \A i \in 1 .. Len(a) : b[i] = a[i]
      /\ b[Len(a) + 1] = <<p, d + 1>>
      /\ \A x : Contains(b, x) <=> Contains(a, x) \/ x = <<p, d + 1>>
  <2>1. PICK f \in Frames : f = <<p, d + 1>>
    OBVIOUS
  <2>2. b = Append(a, f)
    BY <1>1, <2>1
  <2>3. /\ b \in Seq(Frames) /\ DOMAIN b = 1 .. (Len(a) + 1)
        /\ \A i \in 1 .. Len(a) : b[i] = a[i]
        /\ b[Len(a) + 1] = f
        /\ \A x : Contains(b, x) <=> Contains(a, x) \/ x = f
    BY <2>2, AddedHas
  <2> QED
    BY <2>1, <2>3
<1>3. /\ Len(a) \in Nat /\ DOMAIN a = 1 .. Len(a)
      /\ \A i \in 1 .. Len(a) : a[i][2] \in Nat /\ a[i] = <<a[i][1], a[i][2]>>
  BY FrameParts
<1>4. \A i \in DOMAIN b : i \in 1 .. Len(a) \/ i = Len(a) + 1
  BY <1>2, <1>3
<1>5. ASSUME NEW i \in 1 .. Len(a), a[i][1] = p
      PROVE  a[i][2] <= d /\ \A n \in a[i][2] .. d : Contains(a, <<p, n>>)
  <2>1. a[i][2] <= d /\ Contains(a, <<p, d>>)
    BY <1>3, <1>5 DEF Upto
  <2>2. PICK k \in 1 .. Len(a) : a[k] = <<p, d>>
    BY <1>3, <2>1 DEF Contains
  <2>3. a[k][1] = p /\ a[k][2] = d
    BY <2>2
  <2>4. CASE i < k
    BY <1>3, <1>5, <2>1, <2>3, <2>4 DEF InOrder
  <2>5. CASE k < i
    <3>1. d < a[i][2]
      BY <1>3, <1>5, <2>3, <2>5 DEF InOrder
    <3> QED
      BY <1>3, <2>1, <3>1
  <2>6. CASE k = i
    <3>1. \A n \in a[i][2] .. d : n = d
      BY <2>3, <2>6
    <3> QED
      BY <2>1, <3>1
  <2> QED
    BY <1>3, <2>4, <2>5, <2>6
<1>6. ASSUME NEW i \in DOMAIN b, b[i][1] = p
      PROVE  b[i][2] <= d + 1 /\ Contains(b, <<p, d + 1>>)
  BY <1>2, <1>3, <1>4, <1>5, <1>6
<1>7. ASSUME NEW i \in DOMAIN b, NEW j \in DOMAIN b, i < j, b[i][1] = p, b[j][1] = p
      PROVE  b[i][2] < b[j][2] /\ \A n \in b[i][2] .. b[j][2] : Contains(b, <<p, n>>)
  <2>1. i \in 1 .. Len(a) /\ b[i] = a[i]
    BY <1>2, <1>3, <1>7
  <2>2. CASE j \in 1 .. Len(a)
    <3>1. b[j] = a[j]
      BY <1>2, <2>2
    <3>2. a[i][2] < a[j][2] /\ \A n \in a[i][2] .. a[j][2] : Contains(a, <<p, n>>)
      BY <1>3, <1>7, <2>1, <2>2, <3>1 DEF InOrder
    <3> QED
      BY <1>2, <2>1, <3>1, <3>2
  <2>3. CASE j = Len(a) + 1
    <3>1. b[j][2] = d + 1
      BY <1>2, <2>3
    <3>2. a[i][2] <= d /\ a[i][2] \in Nat /\ \A n \in a[i][2] .. d : Contains(a, <<p, n>>)
      BY <1>3, <1>5, <1>7, <2>1
    <3>3. \A n \in a[i][2] .. (d + 1) : n \in a[i][2] .. d \/ n = d + 1
      BY <3>2
    <3> QED
      BY <1>2, <2>1, <3>1, <3>2, <3>3
  <2> QED
    BY <1>4, <2>2, <2>3
<1>8. InOrder(b, p) /\ Upto(b, p, d + 1)
  BY <1>6, <1>7 DEF InOrder, Upto
<1> QED
  BY <1>1, <1>8

\* A frame that is not of p is taken out.
LEMMA Removed ==
  ASSUME NEW a \in Seq(Frames), NEW b \in Seq(Frames), NEW p \in Publishers, NEW d \in Nat,
         NEW k \in 1 .. Len(a), a[k][1] # p, Len(b) = Len(a) - 1,
         \A i \in 1 .. (k - 1) : b[i] = a[i],
         \A i \in k .. (Len(a) - 1) : b[i] = a[i + 1]
  PROVE  /\ \A n : Contains(a, <<p, n>>) => Contains(b, <<p, n>>)
         /\ InOrder(a, p) => InOrder(b, p)
         /\ Upto(a, p, d) => Upto(b, p, d)
<1>1. /\ Len(a) \in Nat /\ DOMAIN a = 1 .. Len(a) /\ DOMAIN b = 1 .. (Len(a) - 1)
      /\ k \in Nat
  BY FrameParts
<1>2. ASSUME NEW i \in 1 .. (Len(a) - 1)
      PROVE  b[i] = a[IF i < k THEN i ELSE i + 1] /\ (IF i < k THEN i ELSE i + 1) \in 1 .. Len(a)
  <2>1. CASE i < k
    <3>1. i \in 1 .. (k - 1) /\ i \in 1 .. Len(a)
      BY <1>1, <2>1
    <3> QED
      BY <2>1, <3>1
  <2>2. CASE ~(i < k)
    <3>1. i \in k .. (Len(a) - 1) /\ i + 1 \in 1 .. Len(a)
      BY <1>1, <2>2
    <3> QED
      BY <2>2, <3>1
  <2> QED
    BY <2>1, <2>2
<1>3. ASSUME NEW n, Contains(a, <<p, n>>) PROVE Contains(b, <<p, n>>)
  <2>1. PICK i \in 1 .. Len(a) : a[i] = <<p, n>>
    BY <1>1, <1>3 DEF Contains
  <2>2. i # k
    BY <2>1
  <2>3. CASE i < k
    <3>1. i \in 1 .. (k - 1) /\ i \in 1 .. (Len(a) - 1)
      BY <1>1, <2>3
    <3> QED
      BY <1>1, <2>1, <3>1 DEF Contains
  <2>4. CASE k < i
    <3>1. i - 1 \in k .. (Len(a) - 1) /\ i - 1 \in 1 .. (Len(a) - 1) /\ (i - 1) + 1 = i
      BY <1>1, <2>4
    <3>2. b[i - 1] = <<p, n>>
      BY <2>1, <3>1
    <3> QED
      BY <1>1, <3>1, <3>2 DEF Contains
  <2> QED
    BY <1>1, <2>2, <2>3, <2>4
<1>4. ASSUME InOrder(a, p), NEW i \in 1 .. (Len(a) - 1), NEW j \in 1 .. (Len(a) - 1), i < j,
             b[i][1] = p, b[j][1] = p
      PROVE  b[i][2] < b[j][2] /\ \A n \in b[i][2] .. b[j][2] : Contains(b, <<p, n>>)
  <2>1. PICK x \in 1 .. Len(a), y \in 1 .. Len(a) : b[i] = a[x] /\ b[j] = a[y] /\ x < y
    <3>1. (IF i < k THEN i ELSE i + 1) < (IF j < k THEN j ELSE j + 1)
      BY <1>1, <1>4
    <3> QED
      BY <1>2, <3>1
  <2>2. a[x][2] < a[y][2] /\ \A n \in a[x][2] .. a[y][2] : Contains(a, <<p, n>>)
    BY <1>1, <1>4, <2>1 DEF InOrder
  <2> QED
    BY <1>3, <2>1, <2>2
<1>5. InOrder(a, p) => InOrder(b, p)
  BY <1>1, <1>4 DEF InOrder
<1>6. Upto(a, p, d) => Upto(b, p, d)
  BY <1>1, <1>2, <1>3 DEF Upto
<1> QED
  BY <1>3, <1>5, <1>6

\* What was not read is lost.
LEMMA Cut ==
  ASSUME NEW a \in Seq(Frames), NEW b \in Seq(Frames), NEW p \in Publishers, Len(b) <= Len(a),
         \A i \in 1 .. Len(b) : b[i] = a[i], InOrder(a, p)
  PROVE  InOrder(b, p)
<1>1. /\ Len(a) \in Nat /\ DOMAIN a = 1 .. Len(a) /\ Len(b) \in Nat /\ DOMAIN b = 1 .. Len(b)
      /\ \A i \in 1 .. Len(a) : a[i][2] \in Nat /\ a[i] = <<a[i][1], a[i][2]>>
      /\ \A i \in 1 .. Len(b) : i \in 1 .. Len(a)
  BY FrameParts
<1>2. ASSUME NEW i \in 1 .. Len(b), NEW j \in 1 .. Len(b), i < j, a[i][1] = p, a[j][1] = p,
             NEW n \in a[i][2] .. a[j][2]
      PROVE  Contains(b, <<p, n>>)
  <2>1. Contains(a, <<p, n>>)
    BY <1>1, <1>2 DEF InOrder
  <2>2. PICK m \in 1 .. Len(a) : a[m] = <<p, n>>
    BY <1>1, <2>1 DEF Contains
  <2>3. a[m][1] = p /\ a[m][2] = n
    BY <2>2
  <2>4. ~(j < m)
    <3>1. j < m => a[j][2] < n
      BY <1>1, <1>2, <2>3 DEF InOrder
    <3>2. a[i][2] \in Nat /\ a[j][2] \in Nat /\ n <= a[j][2] /\ n \in Int
      BY <1>1
    <3> QED
      BY <3>1, <3>2
  <2>5. m \in 1 .. Len(b) /\ b[m] = <<p, n>>
    BY <1>1, <2>2, <2>4
  <2> QED
    BY <1>1, <2>5 DEF Contains
<1>3. ASSUME NEW i \in 1 .. Len(b), NEW j \in 1 .. Len(b), i < j, a[i][1] = p, a[j][1] = p
      PROVE  a[i][2] < a[j][2]
  BY <1>1, <1>3 DEF InOrder
<1> QED
  BY <1>1, <1>2, <1>3 DEF InOrder

-----------------------------------------------------------------------------
(* The order of a publisher's events, and that none is left out.             *)

LEMMA SentStep ==
  ASSUME Base, PublisherOrder, SentInv, Next
  PROVE  PublisherOrder' /\ SentInv'
<1> USE Conn
<1> DEFINE A(s) == Flow(received[s], wire[s])
           B(s) == Flow(received'[s], wire'[s])
           D(p, s) == IF Contains(targets[p], s) THEN taken[p] - 1 ELSE taken[p]
           E(p, s) == IF Contains(targets'[p], s) THEN taken'[p] - 1 ELSE taken'[p]
           Had(p, s) == \A n \in 1 .. D(p, s) : s \in promised[<<p, n>>] => Contains(A(s), <<p, n>>)
           Has(p, s) == \A n \in 1 .. E(p, s) : s \in promised'[<<p, n>>] => Contains(B(s), <<p, n>>)
           Ok(s) == \A p \in Publishers :
                      /\ InOrder(B(s), p)
                      /\ open'[s] => Upto(B(s), p, E(p, s)) /\ Has(p, s)
<1>1. \A s \in Subscribers, p \in Publishers :
        /\ InOrder(A(s), p)
        /\ open[s] => Upto(A(s), p, D(p, s)) /\ Had(p, s)
  <2> SUFFICES ASSUME NEW s \in Subscribers, NEW p \in Publishers
               PROVE  /\ InOrder(A(s), p)
                      /\ open[s] => Upto(A(s), p, D(p, s)) /\ Had(p, s)
    OBVIOUS
  <2>1. Stream(s) = A(s) /\ Done(p, s) = D(p, s)
    BY DEF Stream, Flow, Done
  <2> HIDE DEF A, D
  <2>2. InOrder(A(s), p)
    BY <2>1 DEF PublisherOrder, InOrder
  <2>3. open[s] => Upto(A(s), p, D(p, s)) /\ Had(p, s)
    BY <2>1 DEF SentInv
  <2> QED
    BY <2>2, <2>3
<1>2. ASSUME \A s \in Subscribers : Ok(s) PROVE PublisherOrder' /\ SentInv'
  <2>1. \A s \in Subscribers : Stream(s)' = B(s) /\ \A p \in Publishers : Done(p, s)' = E(p, s)
    BY DEF Stream, Flow, Done, Contains
  <2>2. \A s \in Subscribers, p \in Publishers :
          /\ InOrder(B(s), p)
          /\ open'[s] => Upto(B(s), p, E(p, s)) /\ Has(p, s)
    BY <1>2
  <2> HIDE DEF B, E
  <2>3. PublisherOrder'
    <3>1. ASSUME NEW s \in Subscribers, NEW p \in Publishers
          PROVE  (\A i, j \in DOMAIN Stream(s) :
                    i < j /\ Stream(s)[i][1] = p /\ Stream(s)[j][1] = p =>
                      /\ Stream(s)[i][2] < Stream(s)[j][2]
                      /\ \A n \in Stream(s)[i][2]..Stream(s)[j][2] : Contains(Stream(s), <<p, n>>))'
      <4>1. PICK b : b = B(s) /\ InOrder(b, p)
        BY <2>2
      <4>2. Stream(s)' = b
        BY <2>1, <4>1
      <4> QED
        BY <4>1, <4>2 DEF InOrder, Contains
    <3> QED
      BY <3>1 DEF PublisherOrder
  <2>4. SentInv'
    <3>1. ASSUME NEW s \in Subscribers, NEW p \in Publishers, open'[s]
          PROVE  /\ Upto(Stream(s), p, Done(p, s))'
                 /\ \A n \in 1..Done(p, s)' : s \in promised'[<<p, n>>] => Contains(Stream(s), <<p, n>>)'
      <4>1. PICK b : b = B(s) /\ Upto(b, p, E(p, s)) /\ Has(p, s)
        BY <2>2, <3>1
      <4>2. Stream(s)' = b /\ Done(p, s)' = E(p, s)
        BY <2>1, <4>1
      <4>3. Upto(Stream(s), p, Done(p, s))'
        BY <4>1, <4>2 DEF Upto, Contains
      <4> QED
        BY <4>1, <4>2, <4>3 DEF Contains
    <3> QED
      BY <3>1 DEF SentInv
  <2> QED
    BY <2>3, <2>4
<1>3. /\ TypeOK /\ CountInv /\ LockInv /\ WireInv /\ ListInv /\ LoopInv /\ JoinedInv
      /\ \A s \in Subscribers :
           /\ s \in Conns /\ s \notin Publishers
           /\ wire[s] \in Seq(Halves) /\ received[s] \in Seq(Events) /\ Whole(wire[s])
      /\ \A p \in Publishers : p \in Conns /\ targets[p] \in Seq(Subscribers) /\ taken[p] \in Nat
      /\ targets \in [Publishers -> Seq(Subscribers)]
      /\ wire \in [Subscribers -> Seq(Halves)] /\ open \in [Conns -> BOOLEAN]
      /\ received \in [Subscribers -> Seq(Events)]
  BY DEF Base, TypeOK, WireInv, FramesWhole, Whole
<1>4. \A s \in Subscribers : A(s) \in Seq(Frames)
  BY <1>3, FlowIs
<1>5. \A p \in Publishers, s \in Subscribers : D(p, s) \in Nat
  <2> SUFFICES ASSUME NEW p \in Publishers, NEW s \in Subscribers, Contains(targets[p], s)
               PROVE  taken[p] - 1 \in Nat
    BY <1>3
  <2>1. targets[p] # <<>>
    <3>1. DOMAIN <<>> = {}
      OBVIOUS
    <3> QED
      BY <3>1 DEF Contains
  <2>2. acked[p] < taken[p] /\ acked[p] \in Nat
    BY <1>3, <2>1 DEF CountInv, TypeOK
  <2> QED
    BY <1>3, <2>2
<1> HIDE DEF A, B
<1>6. ASSUME NEW s \in Subscribers, B(s) = A(s), open'[s] => open[s], promised' = promised,
             \A p \in Publishers : open'[s] => E(p, s) = D(p, s)
      PROVE  Ok(s)
  <2> SUFFICES ASSUME NEW p \in Publishers
               PROVE  /\ InOrder(B(s), p)
                      /\ open'[s] => Upto(B(s), p, E(p, s)) /\ Has(p, s)
    OBVIOUS
  <2>1. InOrder(B(s), p)
    BY <1>1, <1>6
  <2>2. ASSUME open'[s] PROVE Upto(B(s), p, E(p, s)) /\ Has(p, s)
    <3>1. E(p, s) = D(p, s) /\ Upto(A(s), p, D(p, s)) /\ Had(p, s)
      BY <1>1, <1>6, <2>2
    <3> HIDE DEF D, E
    <3> QED
      BY <1>6, <3>1
  <2> QED
    BY <2>1, <2>2
<1>7. \A s \in Subscribers : received'[s] = received[s] /\ wire'[s] = wire[s] => B(s) = A(s)
  BY DEF A, B
<1>8. \A p \in Publishers, s \in Subscribers :
        targets'[p] = targets[p] /\ taken'[p] = taken[p] => E(p, s) = D(p, s)
  OBVIOUS
<1> HIDE DEF Ok, D, E
<1>9. ASSUME received' = received, wire' = wire, promised' = promised,
             \A s \in Subscribers : open'[s] => open[s],
             \A p \in Publishers, s \in Subscribers : open'[s] => E(p, s) = D(p, s)
      PROVE  PublisherOrder' /\ SentInv'
  <2>1. \A s \in Subscribers : B(s) = A(s)
    BY <1>7, <1>9
  <2>2. \A s \in Subscribers : Ok(s)
    BY <1>6, <1>9, <2>1
  <2> QED
    BY <1>2, <2>2
\* A send that is through, or given up: the loop of c is through with s.
<1>10. ASSUME NEW c \in Publishers, NEW s \in Subscribers, Sends(c, s), taken' = taken,
              targets' = [targets EXCEPT ![c] = Tail(@)]
       PROVE  /\ \A p \in Publishers, t \in Subscribers : p # c \/ t # s => E(p, t) = D(p, t)
              /\ E(c, s) = D(c, s) + 1 /\ E(c, s) = taken[c]
  <2>1. targets[c] # <<>> /\ Head(targets[c]) = s
    BY <1>3, <1>10 DEF Sends
  <2>2. PICK q \in Seq(Subscribers) : q = targets[c]
    BY <1>3
  <2>3. PICK r : r = Tail(q)
    OBVIOUS
  <2>4. targets'[c] = r /\ \A p \in Publishers : p # c => targets'[p] = targets[p]
    BY <1>3, <1>10, <2>2, <2>3
  <2>5. /\ Contains(q, s) /\ ~Contains(r, s)
        /\ \A x \in Subscribers : x # s => (Contains(r, x) <=> Contains(q, x))
    BY <1>3, <2>1, <2>2, <2>3, TailIs DEF LoopInv
  <2>6. \A p \in Publishers, t \in Subscribers : p # c => E(p, t) = D(p, t)
    BY <1>8, <1>10, <2>4
  <2>7. \A t \in Subscribers : t # s => E(c, t) = D(c, t)
    <3> SUFFICES ASSUME NEW t \in Subscribers, t # s PROVE E(c, t) = D(c, t)
      OBVIOUS
    <3>1. Contains(targets'[c], t) <=> Contains(targets[c], t)
      BY <2>2, <2>4, <2>5
    <3> QED
      BY <1>10, <3>1 DEF D, E
  <2>8. D(c, s) = taken[c] - 1 /\ E(c, s) = taken[c] /\ taken[c] \in Int
    <3>1. Contains(targets[c], s) /\ ~Contains(targets'[c], s) /\ taken[c] \in Nat
      BY <1>3, <2>2, <2>4, <2>5
    <3> QED
      BY <1>10, <3>1 DEF D, E
  <2> QED
    BY <2>6, <2>7, <2>8
<1>11. ASSUME NEW c \in Conns, NEW s \in Subscribers, Put(c, s) PROVE PublisherOrder' /\ SentInv'
  <2>1. /\ Sends(c, s) /\ Locks(c, s) /\ taken' = taken /\ open' = open /\ promised' = promised
        /\ received' = received /\ part[c] \in {0, 1}
        /\ \A t \in Subscribers : t # s => wire'[t] = wire[t]
    BY <1>3, <1>11 DEF Put, publisher, subscriber, TypeOK
  <2>2. PICK f \in Frames : f = Frame(c)
    BY <1>3, <2>1, FrameIs
  <2>3. wire'[s] = IF open[s] THEN Append(wire[s], <<f, part[c] + 1>>) ELSE wire[s]
    BY <1>3, <1>11, <2>2 DEF Put
  <2>4. \A t \in Subscribers : t # s => B(t) = A(t)
    BY <1>7, <2>1
  <2>5. lock[s] = IF part[c] = 0 THEN NoThread ELSE c
    BY <1>3, <2>1, Holder
  <2>6. c # NoThread
    OBVIOUS
  <2>7. /\ open[s] /\ part[c] = 0 => Len(wire[s]) % 2 = 0
        /\ open[s] /\ part[c] = 1 => Len(wire[s]) % 2 = 1
    <3>1. open[s] => IF lock[s] = NoThread THEN Len(wire[s]) % 2 = 0 ELSE Len(wire[s]) % 2 = 1
      BY <1>3 DEF WireInv
    <3>2. part[c] = 0 => lock[s] = NoThread
      BY <2>5
    <3>3. part[c] = 1 => lock[s] # NoThread
      BY <2>5, <2>6
    <3> QED
      BY <3>1, <3>2, <3>3
  <2>8. \/ targets' = targets
        \/ c \in Publishers /\ part[c] = 1 /\ targets' = [targets EXCEPT ![c] = Tail(@)]
    BY <1>11, <2>1 DEF Put, Proceed
  <2>9. \A p \in Publishers, t \in Subscribers : t # s => E(p, t) = D(p, t)
    <3>1. CASE targets' = targets
      BY <1>8, <2>1, <3>1
    <3>2. CASE c \in Publishers /\ targets' = [targets EXCEPT ![c] = Tail(@)]
      BY <1>10, <2>1, <3>2
    <3> QED
      BY <2>8, <3>1, <3>2
  <2>10. \A t \in Subscribers : t # s => Ok(t)
    BY <1>6, <2>1, <2>4, <2>9
  <2>11. CASE ~open[s]
    <3>1. B(s) = A(s) /\ ~open'[s]
      BY <1>7, <2>1, <2>3, <2>11
    <3>2. Ok(s)
      BY <1>6, <2>1, <2>11, <3>1
    <3> QED
      BY <1>2, <2>10, <3>2
  <2>12. CASE open[s] /\ part[c] = 0
    <3>1. PICK h \in Halves : h = <<f, part[c] + 1>>
      BY <1>3, <2>1, <2>2, FrameIs
    <3>2. wire'[s] = Append(wire[s], h)
      BY <2>3, <2>12, <3>1
    <3>3. B(s) = A(s)
      BY <1>3, <2>1, <2>7, <2>12, <3>2, FlowStart DEF A, B
    <3>4. \A p \in Publishers : E(p, s) = D(p, s)
      <4>1. targets' = targets
        BY <2>8, <2>12
      <4> QED
        BY <1>8, <2>1, <4>1
    <3>5. Ok(s)
      BY <1>6, <2>1, <3>3, <3>4
    <3> QED
      BY <1>2, <2>10, <3>5
  <2>13. CASE open[s] /\ part[c] = 1
    <3>1. wire'[s] = Append(wire[s], <<f, 2>>)
      BY <2>3, <2>13
    <3>2. B(s) = Append(A(s), f)
      BY <1>3, <2>1, <2>7, <2>13, <3>1, FlowEnd DEF A, B
    <3>3. \A x : Contains(B(s), x) <=> Contains(A(s), x) \/ x = f
      BY <1>4, <3>2, AddedHas
    <3>4. ASSUME NEW p \in Publishers
          PROVE  InOrder(B(s), p) /\ Upto(B(s), p, E(p, s)) /\ Has(p, s)
      <4>1. InOrder(A(s), p) /\ Upto(A(s), p, D(p, s)) /\ Had(p, s) /\ D(p, s) \in Nat
        BY <1>1, <1>5, <2>13
      <4>2. CASE c = p
        <5>1. targets' = [targets EXCEPT ![c] = Tail(@)]
          BY <1>11, <2>13, <4>2 DEF Put, Proceed
        <5>2. E(p, s) = D(p, s) + 1 /\ E(p, s) = taken[p]
          BY <1>10, <2>1, <4>2, <5>1
        <5>3. f = <<p, D(p, s) + 1>>
          BY <2>2, <4>2, <5>2 DEF Frame
        <5>4. InOrder(B(s), p) /\ Upto(B(s), p, E(p, s))
          BY <1>4, <3>2, <4>1, <5>2, <5>3, AddedNext
        <5>5. \A n \in 1 .. E(p, s) : n \in 1 .. D(p, s) \/ n = E(p, s)
          BY <4>1, <5>2
        <5>6. Has(p, s)
          BY <2>1, <3>3, <4>1, <5>2, <5>3, <5>5
        <5> QED
          BY <5>4, <5>6
      <4>3. CASE c # p
        <5>1. E(p, s) = D(p, s)
          <6>1. CASE targets' = targets
            BY <1>8, <2>1, <6>1
          <6>2. CASE c \in Publishers /\ targets' = [targets EXCEPT ![c] = Tail(@)]
            BY <1>10, <2>1, <4>3, <6>2
          <6> QED
            BY <2>8, <6>1, <6>2
        <5>2. f[1] # p
          BY <2>2, <4>3 DEF Frame
        <5>3. InOrder(B(s), p) /\ Upto(B(s), p, E(p, s))
          BY <1>4, <3>2, <4>1, <5>1, <5>2, AddedOther
        <5>4. Has(p, s)
          BY <2>1, <3>3, <4>1, <5>1
        <5> QED
          BY <5>3, <5>4
      <4> QED
        BY <4>2, <4>3
    <3>5. Ok(s)
      BY <3>4 DEF Ok
    <3> QED
      BY <1>2, <2>10, <3>5
  <2> QED
    BY <2>1, <2>11, <2>12, <2>13
<1>12. ASSUME NEW c \in Conns, NEW s \in Subscribers, Broken(c, s)
       PROVE  PublisherOrder' /\ SentInv'
  <2>1. /\ Sends(c, s) /\ ~open[s] /\ taken' = taken /\ open' = open /\ promised' = promised
        /\ received' = received /\ wire' = wire
    BY <1>12 DEF Broken, publisher, subscriber
  <2>2. ASSUME NEW p \in Publishers, NEW t \in Subscribers, open'[t] PROVE E(p, t) = D(p, t)
    <3>1. t # s
      BY <2>1, <2>2
    <3>2. CASE targets' = targets
      BY <1>8, <2>1, <3>2
    <3>3. CASE c \in Publishers /\ targets' = [targets EXCEPT ![c] = Tail(@)]
      <4>1. \A q \in Publishers, u \in Subscribers : q # c \/ u # s => E(q, u) = D(q, u)
        BY <1>10, <2>1, <3>3
      <4> QED
        BY <3>1, <4>1
    <3> QED
      BY <1>12, <3>2, <3>3 DEF Broken
  <2> QED
    BY <1>9, <2>1, <2>2
\* A loop begins: it has to go to everybody who joined, with the next event.
<1>13. ASSUME NEW c \in Publishers, TakePublish(c) PROVE PublisherOrder' /\ SentInv'
  <2>1. /\ open' = open /\ promised' = promised /\ received' = received /\ wire' = wire
        /\ thread[c] = "serving" /\ taken[c] < sent[c]
        /\ taken' = [taken EXCEPT ![c] = @ + 1] /\ targets' = [targets EXCEPT ![c] = subs]
    BY <1>13 DEF TakePublish, publisher, subscriber
  <2>2. /\ taken'[c] = taken[c] + 1 /\ targets'[c] = subs /\ targets[c] = <<>>
        /\ \A p \in Publishers : p # c => targets'[p] = targets[p] /\ taken'[p] = taken[p]
    BY <1>3, <2>1 DEF TypeOK, CountInv
  <2>3. ASSUME NEW s \in Subscribers, open[s], Joined(s), NEW p \in Publishers
        PROVE  E(p, s) = D(p, s)
    <3>1. CASE p # c
      BY <1>8, <2>2, <3>1
    <3>2. CASE p = c
      <4>1. Contains(subs, s)
        BY <1>3, <2>3 DEF ListInv
      <4>2. ~Contains(<<>>, s)
        BY DEF Contains
      <4>3. E(c, s) = taken[c] + 1 - 1 /\ D(c, s) = taken[c] /\ taken[c] \in Int
        BY <1>3, <2>2, <4>1, <4>2 DEF D, E
      <4> QED
        BY <3>2, <4>3
    <3> QED
      BY <3>1, <3>2
  <2>4. \A s \in Subscribers : B(s) = A(s)
    BY <1>7, <2>1
  <2>5. ASSUME NEW s \in Subscribers PROVE Ok(s)
    <3>1. CASE ~open[s]
      BY <1>6, <2>1, <2>4, <3>1
    <3>2. CASE open[s] /\ Joined(s)
      BY <1>6, <2>1, <2>3, <2>4, <3>2
    <3>3. CASE ~Joined(s)
      <4>1. /\ wire[s] = <<>> /\ received[s] = <<>> /\ \A e \in Events : s \notin promised[e]
        BY <1>3, <3>3 DEF JoinedInv
      <4>2. A(s) = <<>>
        BY <1>3, <4>1, FlowCut DEF A
      <4>3. ASSUME NEW p \in Publishers
            PROVE  InOrder(B(s), p) /\ Upto(B(s), p, E(p, s)) /\ Has(p, s)
        <5>1. DOMAIN B(s) = {}
          BY <2>4, <4>2
        <5>2. E(p, s) <= MaxEvents /\ E(p, s) \in Int
          <6>1. taken'[p] \in Nat /\ taken'[p] <= MaxEvents
            BY <1>3, <2>1, <2>2 DEF TypeOK
          <6> QED
            BY <6>1 DEF E
        <5>3. \A n \in 1 .. E(p, s) : <<p, n>> \in Events
          BY <5>2 DEF Events
        <5> QED
          BY <2>1, <4>1, <5>1, <5>3 DEF InOrder, Upto
      <4> QED
        BY <4>3 DEF Ok
    <3> QED
      BY <3>1, <3>2, <3>3
  <2> QED
    BY <1>2, <2>5
<1>14. ASSUME NEW c \in Publishers, Publish(c) PROVE PublisherOrder' /\ SentInv'
  <2>1. /\ open' = open /\ received' = received /\ wire' = wire /\ taken' = taken
        /\ targets' = targets
        /\ promised' = [promised EXCEPT ![<<c, sent[c] + 1>>] =
                          {s \in Subscribers : ready[s] /\ open[s]}]
    BY <1>14 DEF Publish, broker, loop, subscriber
  <2>2. ASSUME NEW s \in Subscribers, NEW p \in Publishers
        PROVE  /\ InOrder(B(s), p)
               /\ open'[s] => Upto(B(s), p, E(p, s)) /\ Has(p, s)
    <3>1. B(s) = A(s) /\ E(p, s) = D(p, s)
      BY <1>7, <1>8, <2>1
    <3>2. ASSUME NEW n \in 1 .. D(p, s) PROVE promised'[<<p, n>>] = promised[<<p, n>>]
      <4>1. n <= taken[p] /\ taken[p] <= sent[p] /\ n \in Int /\ sent[p] \in Nat /\ n >= 1 /\ taken[p] \in Nat
            /\ sent[p] <= MaxEvents
        <5>1. D(p, s) <= taken[p] /\ taken[p] <= sent[p] /\ taken[p] \in Nat /\ sent[p] \in Nat
              /\ sent[p] <= MaxEvents
          <6>1. /\ taken[p] <= sent[p] /\ taken[p] \in Nat /\ sent[p] \in Nat
                /\ sent[p] <= MaxEvents
            BY <1>3 DEF TypeOK
          <6>2. D(p, s) <= taken[p]
            BY <6>1 DEF D
          <6> QED
            BY <6>1, <6>2
        <5>2. PICK d \in Nat : d = D(p, s)
          BY <1>5
        <5>3. n \in 1 .. d /\ d <= taken[p]
          BY <5>1, <5>2
        <5> QED
          BY <5>1, <5>3
      <4>2. <<p, n>> \in Events /\ <<p, n>> # <<c, sent[c] + 1>>
        <5>1. n \in 1 .. MaxEvents
          BY <4>1
        <5>2. p = c => n # sent[c] + 1
          BY <4>1
        <5> QED
          BY <5>1, <5>2 DEF Events
      <4> QED
        BY <1>3, <2>1, <4>2 DEF TypeOK
    <3> QED
      BY <1>1, <2>1, <3>1, <3>2
  <2> QED
    BY <1>2, <2>2 DEF Ok
<1>15. ASSUME NEW s \in Subscribers, Receive(s) PROVE PublisherOrder' /\ SentInv'
  <2>1. /\ Len(wire[s]) >= 2 /\ open' = open /\ promised' = promised /\ taken' = taken
        /\ targets' = targets /\ open[s]
        /\ wire' = [wire EXCEPT ![s] = Tail(Tail(@))]
    BY <1>15 DEF Receive, broker, loop, publisher
  <2>2. PICK f : f = Head(wire[s])[1]
    OBVIOUS
  <2>3. /\ wire'[s] = Tail(Tail(wire[s]))
        /\ \A t \in Subscribers : t # s => wire'[t] = wire[t]
    BY <1>3, <2>1
  <2>4. received' = IF f \in Events THEN [received EXCEPT ![s] = Append(@, f)] ELSE received
    BY <1>15, <2>2 DEF Receive
  <2>5. \A t \in Subscribers : t # s => received'[t] = received[t]
    BY <1>3, <2>4
  <2>6. \A p \in Publishers, t \in Subscribers : E(p, t) = D(p, t)
    BY <1>8, <2>1
  <2>7. \A t \in Subscribers : t # s => Ok(t)
    BY <1>6, <1>7, <2>1, <2>3, <2>5, <2>6
  <2>8. CASE f \in Events
    <3>1. received'[s] = Append(received[s], f)
      BY <1>3, <2>4, <2>8
    <3>2. B(s) = A(s)
      <4>1. Flow(Append(received[s], f), Tail(Tail(wire[s]))) = Flow(received[s], wire[s])
        BY <1>3, <2>1, <2>2, <2>8, FlowRead
      <4> QED
        BY <2>3, <3>1, <4>1 DEF A, B
    <3>3. Ok(s)
      BY <1>6, <2>1, <2>6, <3>2
    <3> QED
      BY <1>2, <2>7, <3>3
  <2>9. CASE f \notin Events
    <3>1. received'[s] = received[s]
      BY <2>4, <2>9
    <3>2. PICK k : k = Len(received[s]) + 1
      OBVIOUS
    <3>3. /\ B(s) \in Seq(Frames) /\ Len(B(s)) = Len(A(s)) - 1
          /\ k \in 1 .. Len(A(s)) /\ A(s)[k] = f
          /\ \A i \in 1 .. Len(received[s]) : B(s)[i] = A(s)[i]
          /\ \A i \in k .. (Len(A(s)) - 1) : B(s)[i] = A(s)[i + 1]
      BY <1>3, <2>1, <2>2, <2>3, <3>1, <3>2, FlowRest DEF A, B
    <3>4. k - 1 = Len(received[s])
      <4>1. Len(received[s]) \in Nat
        BY <1>3
      <4> QED
        BY <3>2, <4>1
    <3>5. ASSUME NEW p \in Publishers
          PROVE  InOrder(B(s), p) /\ Upto(B(s), p, E(p, s)) /\ Has(p, s)
      <4>1. InOrder(A(s), p) /\ Upto(A(s), p, D(p, s)) /\ Had(p, s) /\ D(p, s) \in Nat
        BY <1>1, <1>5, <2>1
      <4>2. f[1] # p
        <5>1. f \in Frames
          BY <1>4, <3>3
        <5>2. f \in Subscribers \X {0}
          BY <2>9, <5>1 DEF Frames
        <5> QED
          BY <5>2
      <4>3. \A i \in 1 .. (k - 1) : B(s)[i] = A(s)[i]
        BY <3>3, <3>4
      <4>4. /\ \A n : Contains(A(s), <<p, n>>) => Contains(B(s), <<p, n>>)
            /\ InOrder(B(s), p) /\ Upto(B(s), p, D(p, s))
        BY <1>4, <3>3, <4>1, <4>2, <4>3, Removed
      <4> QED
        BY <2>1, <2>6, <4>1, <4>4
    <3>6. Ok(s)
      BY <3>5 DEF Ok
    <3> QED
      BY <1>2, <2>7, <3>6
  <2> QED
    BY <2>8, <2>9
<1>16. ASSUME NEW c \in Conns, Close(c) PROVE PublisherOrder' /\ SentInv'
  <2>1. /\ received' = received /\ promised' = promised /\ taken' = taken /\ targets' = targets
        /\ \A s \in Subscribers : s # c => open'[s] = open[s] /\ wire'[s] = wire[s]
        /\ c \in Subscribers => ~open'[c] /\ wire'[c] = <<>>
    BY <1>3, <1>16 DEF Close, broker, loop, subscriber
  <2>2. \A s \in Subscribers : s # c => Ok(s)
    BY <1>6, <1>7, <1>8, <2>1
  <2>3. c \in Subscribers => Ok(c)
    <3> SUFFICES ASSUME c \in Subscribers, NEW p \in Publishers PROVE InOrder(B(c), p)
      BY <2>1 DEF Ok
    <3>1. /\ B(c) = received[c] /\ Len(received[c]) <= Len(A(c))
          /\ \A i \in 1 .. Len(received[c]) : received[c][i] = A(c)[i]
      BY <1>3, <2>1, FlowCut DEF A, B
    <3>2. received[c] \in Seq(Frames)
      <4>1. received[c] \in Seq(Events)
        BY <1>3
      <4> QED
        BY <4>1 DEF Frames
    <3> QED
      BY <1>1, <1>4, <3>1, <3>2, Cut
  <2> QED
    BY <1>2, <2>2, <2>3
<1>17. ASSUME \/ \E c \in Subscribers : Subscribe(c) \/ Start(c) \/ Stall(c)
              \/ \E c \in Conns : Notice(c)
              \/ \E c \in Publishers : EndPublish(c) \/ ReadAck(c) \/ Timeout(c)
       PROVE  PublisherOrder' /\ SentInv'
  <2>1. /\ received' = received /\ wire' = wire /\ promised' = promised /\ taken' = taken
        /\ targets' = targets /\ open' = open
    BY <1>17 DEF Subscribe, Start, Stall, Notice, EndPublish, ReadAck, Timeout, broker, loop,
                 publisher, subscriber
  <2> QED
    BY <1>8, <1>9, <2>1
<1> QED
  BY <1>11, <1>12, <1>13, <1>14, <1>15, <1>16, <1>17 DEF Next, Serve

-----------------------------------------------------------------------------
(* The theorems.                                                             *)

LEMMA InitInv ==
  ASSUME Init
  PROVE  Inv
<1> USE Conn
<1>1. /\ \A s \in Subscribers : /\ thread[s] = "off" /\ lock[s] = NoThread /\ wire[s] = <<>>
                                /\ ready[s] = FALSE /\ received[s] = <<>>
      /\ \A p \in Publishers : /\ thread[p] = "serving" /\ targets[p] = <<>> /\ taken[p] = 0
                               /\ sent[p] = 0 /\ acked[p] = 0 /\ read[p] = 0
      /\ \A c \in Conns : part[c] = 0 /\ open[c] = TRUE
      /\ \A e \in Events : promised[e] = {}
      /\ subs = <<>> /\ events = 0
  BY DEF Init
<1>2. DOMAIN <<>> = {} /\ Len(<<>>) = 0 /\ \A x : ~Contains(<<>>, x)
  BY DEF Contains
<1>3. TypeOK
  <2>1. /\ subs \in Seq(Subscribers)
        /\ thread \in [Conns -> {"off", "asked", "ack", "serving", "fanout", "gone"}]
        /\ targets \in [Publishers -> Seq(Subscribers)]
        /\ lock \in [Subscribers -> Conns \cup {NoThread}]
        /\ part \in [Conns -> {0, 1}]
    BY DEF Init
  <2>2. /\ taken \in [Publishers -> 0..MaxEvents] /\ acked \in [Publishers -> 0..MaxEvents]
        /\ sent \in [Publishers -> 0..MaxEvents]  /\ read \in [Publishers -> 0..MaxEvents]
    BY DEF Init
  <2>3. \A p \in Publishers : read[p] <= acked[p] /\ acked[p] <= taken[p] /\ taken[p] <= sent[p]
    BY <1>1
  <2>4. /\ wire \in [Subscribers -> Seq(Halves)]
        /\ \A s \in Subscribers : Len(wire[s]) <= Buffer
    BY <1>1, <1>2 DEF Init
  <2>5. /\ open \in [Conns -> BOOLEAN] /\ waiting \in [Publishers -> BOOLEAN]
        /\ reading \in [Subscribers -> BOOLEAN] /\ ready \in [Subscribers -> BOOLEAN]
        /\ received \in [Subscribers -> Seq(Events)]
        /\ promised \in [Events -> SUBSET Subscribers]
        /\ events \in 0..MaxEvents /\ faults \in 0..MaxFaults
    BY DEF Init
  <2> QED
    BY <2>1, <2>2, <2>3, <2>4, <2>5 DEF TypeOK
<1>4. CountInv
  BY <1>1 DEF CountInv
<1>5. LockInv
  BY <1>1 DEF LockInv
<1>6. WireInv
  <2>1. FramesWhole
    BY <1>1, <1>2 DEF FramesWhole
  <2>2. 0 % 2 = 0
    OBVIOUS
  <2> QED
    BY <1>1, <1>2, <2>1, <2>2 DEF WireInv
<1>7. ListInv /\ LoopInv
  BY <1>1, <1>2 DEF ListInv, LoopInv, Once, Joined
<1>8. JoinedInv
  BY <1>1 DEF JoinedInv
<1>9. ASSUME NEW s \in Subscribers PROVE Stream(s) = <<>>
  <2>1. <<>> \in Seq(Halves) /\ <<>> \in Seq(Events)
    OBVIOUS
  <2>2. Flow(<<>>, <<>>) = <<>>
    BY <2>1, FlowCut
  <2> QED
    BY <1>1, <1>9, <2>2 DEF Stream, Flow
<1>10. PublisherOrder
  BY <1>2, <1>9 DEF PublisherOrder
<1>11. SentInv
  <2>1. \A p \in Publishers, s \in Subscribers : Done(p, s) = 0
    BY <1>1, <1>2 DEF Done
  <2> QED
    BY <1>2, <1>9, <2>1 DEF SentInv, Upto
<1> QED
  BY <1>3, <1>4, <1>5, <1>6, <1>7, <1>8, <1>10, <1>11 DEF Inv, Base

LEMMA StutterInv ==
  ASSUME Inv, UNCHANGED vars
  PROVE  Inv'
<1>1. /\ UNCHANGED <<subs, thread, targets, lock, part, taken, wire, acked, open, sent, waiting>>
      /\ UNCHANGED <<read, promised, reading, ready, received, events, faults>>
  BY DEF vars, loop, publisher, subscriber, bounds
<1>2. TypeOK'
  BY <1>1 DEF Inv, Base, TypeOK
<1>3. CountInv'
  BY <1>1 DEF Inv, Base, CountInv
<1>4. ListInv' /\ LoopInv'
  BY <1>1 DEF Inv, Base, ListInv, LoopInv, Joined, Once, Contains
<1>5. JoinedInv'
  BY <1>1 DEF Inv, Base, JoinedInv, Joined
<1>6. LockInv'
  BY <1>1 DEF Inv, Base, LockInv, Sends
<1>7. WireInv'
  BY <1>1 DEF Inv, Base, WireInv, FramesWhole, Frame
<1>8. \A s \in Subscribers : Stream(s)' = Stream(s) /\ \A p \in Publishers : Done(p, s)' = Done(p, s)
  <2>1. ASSUME NEW s \in Subscribers PROVE Stream(s)' = Stream(s)
    BY <1>1 DEF Stream
  <2>2. ASSUME NEW s \in Subscribers, NEW p \in Publishers PROVE Done(p, s)' = Done(p, s)
    BY <1>1 DEF Done, Contains
  <2> QED
    BY <2>1, <2>2
<1>9. PublisherOrder'
  <2>1. ASSUME NEW s \in Subscribers, NEW p \in Publishers
        PROVE  (\A i, j \in DOMAIN Stream(s) :
                  i < j /\ Stream(s)[i][1] = p /\ Stream(s)[j][1] = p =>
                    /\ Stream(s)[i][2] < Stream(s)[j][2]
                    /\ \A n \in Stream(s)[i][2]..Stream(s)[j][2] : Contains(Stream(s), <<p, n>>))'
    <3>1. PICK b : b = Stream(s) /\ Stream(s)' = b
      BY <1>8
    <3>2. InOrder(b, p)
      BY <3>1 DEF Inv, PublisherOrder, InOrder
    <3> QED
      BY <3>1, <3>2 DEF InOrder, Contains
  <2> QED
    BY <2>1 DEF PublisherOrder
<1>10. SentInv'
  <2>1. ASSUME NEW s \in Subscribers, NEW p \in Publishers, open'[s]
        PROVE  /\ Upto(Stream(s), p, Done(p, s))'
               /\ \A n \in 1..Done(p, s)' : s \in promised'[<<p, n>>] => Contains(Stream(s), <<p, n>>)'
    <3>1. PICK b : b = Stream(s) /\ Stream(s)' = b
      BY <1>8
    <3>2. PICK d : d = Done(p, s) /\ Done(p, s)' = d
      BY <1>8
    <3>3. Upto(b, p, d) /\ \A n \in 1..d : s \in promised[<<p, n>>] => Contains(b, <<p, n>>)
      BY <1>1, <2>1, <3>1, <3>2 DEF Inv, SentInv
    <3>4. Upto(Stream(s), p, Done(p, s))'
      BY <3>1, <3>2, <3>3 DEF Upto, Contains
    <3> QED
      BY <1>1, <3>1, <3>2, <3>3, <3>4 DEF Contains
  <2> QED
    BY <2>1 DEF SentInv
<1> QED
  BY <1>2, <1>3, <1>4, <1>5, <1>6, <1>7, <1>9, <1>10 DEF Inv, Base

\* The inductive invariant: its parts are named and explained at the top.
THEOREM BrokerInvariant == Spec => []Inv
<1>1. Init => Inv
  BY InitInv
<1>2. Inv /\ [Next]_vars => Inv'
  <2>1. ASSUME Inv, Next PROVE Inv'
    <3>1. /\ TypeOK /\ CountInv /\ LockInv /\ WireInv /\ ListInv /\ LoopInv /\ JoinedInv
          /\ PublisherOrder /\ SentInv /\ Base
      BY <2>1 DEF Inv, Base
    <3>2. TypeOK'
      <4>1. CASE \E c \in Conns : Serve(c)
        BY <3>1, <4>1, TypeServe
      <4>2. CASE ~\E c \in Conns : Serve(c)
        BY <2>1, <3>1, <4>2, TypeClients DEF Next
      <4> QED
        BY <4>1, <4>2
    <3>3. CountInv' /\ LockInv' /\ WireInv'
      BY <2>1, <3>1, CountStep, LockStep, WireStep
    <3>4. ListInv' /\ LoopInv' /\ JoinedInv'
      BY <2>1, <3>1, ListStep, LoopStep, JoinedStep
    <3>5. PublisherOrder' /\ SentInv'
      BY <2>1, <3>1, SentStep
    <3> QED
      BY <3>2, <3>3, <3>4, <3>5 DEF Inv, Base
  <2> QED
    BY <2>1, StutterInv
<1> QED
  BY <1>1, <1>2, PTL DEF Spec

\* Every variable keeps its type, and the counters of a publisher keep their order:
\* no ack is read that was not sent, none is sent for a request that was not taken up.
THEOREM TypeCorrect == Spec => []TypeOK
<1>1. Inv => TypeOK
  BY DEF Inv, Base
<1> QED
  BY <1>1, BrokerInvariant, PTL

\* However many threads send to one subscriber, what its connection carries parses as
\* whole frames (_send_locks).
THEOREM FramesStayWhole == Spec => []FramesWhole
<1>1. Inv => FramesWhole
  BY DEF Inv, Base, WireInv
<1> QED
  BY <1>1, BrokerInvariant, PTL

\* A subscriber gets one publisher's events in order, each once, without a gap after the
\* first.
THEOREM OrderKept == Spec => []PublisherOrder
<1>1. Inv => PublisherOrder
  BY DEF Inv
<1> QED
  BY <1>1, BrokerInvariant, PTL

\* An acknowledged event is with everyone who was ready when it was published and is
\* still there: the loop that acknowledges is through with its list.
THEOREM NothingMissed == Spec => []NotMissed
<1>1. Inv => NotMissed
  <2> SUFFICES ASSUME Inv, NEW e \in Events, e[2] <= acked[e[1]],
                      NEW s \in promised[e], open[s]
               PROVE  Contains(Stream(s), e)
    BY DEF NotMissed
  <2>1. PICK p \in Publishers, n \in 1 .. MaxEvents : e = <<p, n>>
    BY DEF Events
  <2>2. s \in Subscribers
    BY DEF Inv, Base, TypeOK
  <2>3. n <= acked[p] /\ acked[p] <= taken[p] /\ acked[p] \in Nat /\ taken[p] \in Nat
    BY <2>1 DEF Inv, Base, TypeOK
  <2>4. Contains(targets[p], s) => acked[p] < taken[p]
    <3>1. DOMAIN <<>> = {}
      OBVIOUS
    <3>2. Contains(targets[p], s) => targets[p] # <<>>
      BY <3>1 DEF Contains
    <3> QED
      BY <3>2 DEF Inv, Base, CountInv
  <2>5. n \in 1 .. Done(p, s)
    BY <2>3, <2>4 DEF Done
  <2> QED
    BY <2>1, <2>2, <2>5 DEF Inv, SentInv
<1> QED
  BY <1>1, BrokerInvariant, PTL
=============================================================================
