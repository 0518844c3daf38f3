------------------------------- MODULE Broker -------------------------------
(***************************************************************************)
(* Publish-subscribe, src/communication/broker.py: the broker keeps who      *)
(* subscribed, and copies every published event to each of them, one after   *)
(* the other, on the thread of the publisher's connection.  One topic is     *)
(* modelled, as in the program (BOOKING_TOPIC).                              *)
(*                                                                          *)
(* A Publisher or Subscriber object is one connection for life, and gives    *)
(* its name to the connection and to the broker's thread that serves it.     *)
(* sendall is not atomic: it writes a frame in two halves, and waits while   *)
(* the socket's buffer is full.                                              *)
(***************************************************************************)
EXTENDS Naturals, SequencesExt, Sublists

CONSTANTS
  Publishers, Subscribers,
  NoThread,       \* the holder of a free lock
  Buffer,         \* halves of frames that a connection holds unread
  MaxEvents,      \* bound: publish calls of all publishers
  MaxFaults       \* bound: publish calls that give up waiting, connections that
                  \* their client closes, subscribers that stop reading

ASSUME BrokerAssumption ==
  /\ Publishers \cap Subscribers = {}
  /\ NoThread \notin Publishers \cup Subscribers
  /\ Buffer \in Nat \ {0, 1}
  /\ MaxEvents \in Nat /\ MaxFaults \in Nat

Conns  == Publishers \cup Subscribers
Events == Publishers \X (1..MaxEvents)      \* an event is its publisher's n-th
Frames == Events \cup (Subscribers \X {0})  \* <<s, 0>>: the subscribe.ack of s
Halves == Frames \X {1, 2}

VARIABLES
  \* broker
  subs,      \* self._subs[topic]
  thread,    \* where the thread of each connection stands
  targets,   \* what is left of "targets" in the publish loop
  lock,      \* _send_locks: who holds the lock of a subscriber's connection
  part,      \* halves that a thread has written of its frame
  taken,     \* publish requests of each publisher that the broker took up
  \* the wire
  wire,      \* to each subscriber: halves sent and not read
  acked,     \* publish.acks sent to each publisher
  \* clients
  open,      \* the client has the connection open
  sent,      \* publish calls made
  waiting,   \* a publish call waits for its ack
  read,      \* publish.acks read
  reading,   \* the thread of _run runs
  ready,     \* self.ready
  received,  \* self.received
  \* history: the subscribers that were ready when an event was published
  promised,
  \* bounds
  events, faults

loop       == <<targets, lock, part>>
publisher  == <<sent, waiting, read, promised>>
subscriber == <<reading, ready, received>>
bounds     == <<events, faults>>
vars == <<subs, thread, loop, taken, wire, acked, open, publisher, subscriber, bounds>>

\* Types, the one type invariant of the module.
TypeOK ==
  /\ subs \in Seq(Subscribers)
  /\ thread \in [Conns -> {"off", "asked", "ack", "serving", "fanout", "gone"}]
  /\ targets \in [Publishers -> Seq(Subscribers)]
  /\ lock \in [Subscribers -> Conns \cup {NoThread}]
  /\ part \in [Conns -> {0, 1}]
  /\ taken \in [Publishers -> 0..MaxEvents] /\ acked \in [Publishers -> 0..MaxEvents]
  /\ sent \in [Publishers -> 0..MaxEvents]  /\ read \in [Publishers -> 0..MaxEvents]
  /\ \A p \in Publishers : read[p] <= acked[p] /\ acked[p] <= taken[p] /\ taken[p] <= sent[p]
  /\ wire \in [Subscribers -> Seq(Halves)]
  /\ \A s \in Subscribers : Len(wire[s]) <= Buffer
  /\ open \in [Conns -> BOOLEAN] /\ waiting \in [Publishers -> BOOLEAN]
  /\ reading \in [Subscribers -> BOOLEAN] /\ ready \in [Subscribers -> BOOLEAN]
  /\ received \in [Subscribers -> Seq(Events)]
  /\ promised \in [Events -> SUBSET Subscribers]
  /\ events \in 0..MaxEvents /\ faults \in 0..MaxFaults

Init ==
  /\ subs = <<>>
  /\ thread = [c \in Conns |-> IF c \in Publishers THEN "serving" ELSE "off"]
  /\ targets = [p \in Publishers |-> <<>>]
  /\ lock = [s \in Subscribers |-> NoThread]
  /\ part = [c \in Conns |-> 0]
  /\ taken = [p \in Publishers |-> 0] /\ acked = taken /\ sent = taken /\ read = taken
  /\ wire = [s \in Subscribers |-> <<>>]
  /\ open = [c \in Conns |-> TRUE]
  /\ waiting = [p \in Publishers |-> FALSE]
  /\ reading = [s \in Subscribers |-> TRUE]
  /\ ready = [s \in Subscribers |-> FALSE]
  /\ received = [s \in Subscribers |-> <<>>]
  /\ promised = [e \in Events |-> {}]
  /\ events = 0 /\ faults = 0

(***************************************************************************)
(* The broker.                                                             *)
(***************************************************************************)
\* Seeded fault: the lists are emptied, not filtered.
Without_All(s) == IF Contains(subs, s) THEN <<>> ELSE subs

\* self._subs without the connection s: what on_disconnect leaves.
Without(s) == Picked(subs, {i \in DOMAIN subs : subs[i] # s})

\* Seeded fault: entered before and after the acknowledgement is made.
With_Twice(s) == subs \o <<s, s>>

\* The list once s subscribed.
With(s) == Append(subs, s)

\* A subscribe request: the entry is made before the acknowledgement is sent.
Subscribe(s) ==
  /\ thread[s] = "asked"
  /\ subs' = With(s)
  /\ thread' = [thread EXCEPT ![s] = "ack"]
  /\ UNCHANGED <<loop, taken, wire, acked, open, publisher, subscriber, bounds>>

\* A publish request: the loop goes over a copy of the list.
TakePublish(p) ==
  /\ thread[p] = "serving"
  /\ taken[p] < sent[p]
  /\ taken' = [taken EXCEPT ![p] = @ + 1]
  /\ targets' = [targets EXCEPT ![p] = subs]
  /\ thread' = [thread EXCEPT ![p] = "fanout"]
  /\ UNCHANGED <<subs, lock, part, wire, acked, open, publisher, subscriber, bounds>>

\* Thread c is in, or before, the send of Frame(c) to s.
Sends(c, s) ==
  \/ c = s /\ thread[s] = "ack"
  \/ c \in Publishers /\ thread[c] = "fanout" /\ targets[c] # <<>> /\ Head(targets[c]) = s

\* Seeded fault: events are numbered from 0, which a subscriber takes for the ack.
Frame_FromZero(c) == IF c \in Publishers THEN <<c, taken[c] - 1>> ELSE <<c, 0>>

Frame(c) == IF c \in Publishers THEN <<c, taken[c]>> ELSE <<c, 0>>

\* Seeded fault: no lock around send_message.
Locks_Ignored(c, s) == TRUE

\* Thread c has the lock of s or gets it now.
Locks(c, s) == lock[s] \in {c, NoThread}

\* Thread c leaves the lock of s and goes on with its loop, or back to recv.
Proceed(c, s) ==
  /\ lock' = [lock EXCEPT ![s] = NoThread]
  /\ part' = [part EXCEPT ![c] = 0]
  /\ IF c \in Publishers
     THEN targets' = [targets EXCEPT ![c] = Tail(@)] /\ UNCHANGED thread
     ELSE thread' = [thread EXCEPT ![c] = "serving"] /\ UNCHANGED targets

\* sendall writes the next half; the kernel takes it also for a client that is gone.
Put(c, s) ==
  /\ Sends(c, s) /\ Locks(c, s)
  /\ thread[s] # "gone"
  /\ IF open[s]
     THEN /\ Len(wire[s]) < Buffer
          /\ wire' = [wire EXCEPT ![s] = Append(@, <<Frame(c), part[c] + 1>>)]
     ELSE UNCHANGED wire
  /\ IF part[c] = 0
     THEN /\ lock' = [lock EXCEPT ![s] = c]
          /\ part' = [part EXCEPT ![c] = 1]
          /\ UNCHANGED <<thread, targets>>
     ELSE Proceed(c, s)
  /\ UNCHANGED <<subs, taken, acked, open, publisher, subscriber, bounds>>

\* Seeded fault: acquire and release without "with": an exception keeps the lock.
Released_OnlyOnReturn(s) == lock

\* The lock on the way out of a send that raised.
Released(s) == [lock EXCEPT ![s] = NoThread]

\* sendall raises OSError, also when the client goes while it waits for room.  The
\* publish loop drops the subscriber and goes on; a thread that was acknowledging
\* its own subscriber ends, which drops it as well.
Broken(c, s) ==
  /\ Sends(c, s) /\ Locks(c, s)
  /\ ~open[s]
  /\ lock' = Released(s)
  /\ part' = [part EXCEPT ![c] = 0]
  /\ subs' = Without(s)
  /\ IF c \in Publishers
     THEN targets' = [targets EXCEPT ![c] = Tail(@)] /\ UNCHANGED thread
     ELSE thread' = [thread EXCEPT ![c] = "gone"] /\ UNCHANGED targets
  /\ UNCHANGED <<taken, wire, acked, open, publisher, subscriber, bounds>>

\* The end of the loop: publish.ack.  To a publisher that is gone it may raise.
EndPublish(p) ==
  /\ thread[p] = "fanout" /\ targets[p] = <<>>
  /\ \/ /\ acked' = [acked EXCEPT ![p] = taken[p]]
        /\ thread' = [thread EXCEPT ![p] = "serving"]
     \/ /\ ~open[p]
        /\ thread' = [thread EXCEPT ![p] = "gone"]
        /\ UNCHANGED acked
  /\ UNCHANGED <<subs, loop, taken, wire, open, publisher, subscriber, bounds>>

\* What _serve_conn does on its way out.
Disconnected(s) == Without(s)

\* recv_message meets the end of the connection; what was unread may be lost with it.
Notice(c) ==
  /\ thread[c] \in {"asked", "serving"} /\ ~open[c]
  /\ thread' = [thread EXCEPT ![c] = "gone"]
  /\ subs' = Disconnected(c)
  /\ UNCHANGED <<loop, taken, wire, acked, open, publisher, subscriber, bounds>>

\* One step of the thread that serves connection c.
Serve(c) ==
  \/ c \in Subscribers /\ Subscribe(c)
  \/ c \in Publishers /\ (TakePublish(c) \/ EndPublish(c))
  \/ \E s \in Subscribers : Put(c, s) \/ Broken(c, s)
  \/ Notice(c)

(***************************************************************************)
(* Publishers and subscribers.                                             *)
(***************************************************************************)
broker == <<subs, thread, loop, taken, acked>>

Start(s) ==
  /\ thread[s] = "off"
  /\ thread' = [thread EXCEPT ![s] = "asked"]
  /\ UNCHANGED <<subs, loop, taken, wire, acked, open, publisher, subscriber, bounds>>

Publish(p) ==
  /\ open[p] /\ ~waiting[p] /\ events < MaxEvents
  /\ events' = events + 1
  /\ sent' = [sent EXCEPT ![p] = @ + 1]
  /\ waiting' = [waiting EXCEPT ![p] = TRUE]
  /\ promised' = [promised EXCEPT ![<<p, sent[p] + 1>>] =
                    {s \in Subscribers : ready[s] /\ open[s]}]
  /\ UNCHANGED <<broker, wire, open, read, subscriber, faults>>

\* publish returns the next publish.ack, whichever event it is about.
ReadAck(p) ==
  /\ waiting[p] /\ read[p] < acked[p]
  /\ read' = [read EXCEPT ![p] = @ + 1]
  /\ waiting' = [waiting EXCEPT ![p] = FALSE]
  /\ UNCHANGED <<broker, wire, open, sent, promised, subscriber, bounds>>

\* The socket's time-out; the connection is kept.
Timeout(p) ==
  /\ waiting[p] /\ faults < MaxFaults
  /\ faults' = faults + 1
  /\ waiting' = [waiting EXCEPT ![p] = FALSE]
  /\ UNCHANGED <<broker, wire, open, sent, read, promised, subscriber, events>>

\* _run reads one frame.
Receive(s) ==
  /\ open[s] /\ reading[s] /\ Len(wire[s]) >= 2
  /\ LET frame == Head(wire[s])[1] IN
     IF frame \in Events
     THEN received' = [received EXCEPT ![s] = Append(@, frame)] /\ UNCHANGED ready
     ELSE ready' = [ready EXCEPT ![s] = TRUE] /\ UNCHANGED received
  /\ wire' = [wire EXCEPT ![s] = Tail(Tail(@))]
  /\ UNCHANGED <<broker, open, publisher, reading, bounds>>

\* The handler raises, which ends _run and leaves the socket open, or hangs.
Stall(s) ==
  /\ reading[s] /\ thread[s] # "off" /\ faults < MaxFaults
  /\ faults' = faults + 1
  /\ reading' = [reading EXCEPT ![s] = FALSE]
  /\ UNCHANGED <<broker, wire, open, publisher, ready, received, events>>

\* close, or the end of the client's process.
Close(c) ==
  /\ open[c] /\ thread[c] # "off" /\ faults < MaxFaults
  /\ faults' = faults + 1
  /\ open' = [open EXCEPT ![c] = FALSE]
  /\ IF c \in Publishers
     THEN waiting' = [waiting EXCEPT ![c] = FALSE] /\ UNCHANGED wire
     ELSE wire' = [wire EXCEPT ![c] = <<>>] /\ UNCHANGED waiting
  /\ UNCHANGED <<broker, sent, read, promised, subscriber, events>>

Next ==
  \/ \E c \in Conns : Serve(c) \/ Close(c)
  \/ \E p \in Publishers : Publish(p) \/ ReadAck(p) \/ Timeout(p)
  \/ \E s \in Subscribers : Start(s) \/ Receive(s) \/ Stall(s)

Spec == Init /\ [][Next]_vars

\* The broker's threads run, and a subscriber whose thread lives reads.  Clients owe
\* nothing else.
FairSpec ==
  /\ Spec
  /\ \A c \in Conns : WF_vars(Serve(c))
  /\ \A s \in Subscribers : WF_vars(Receive(s))

(***************************************************************************)
(* Properties.                                                             *)
(***************************************************************************)
\* What a connection carries parses as frames: two threads that send to the same
\* subscriber never mix the halves of their frames (_send_locks).
FramesWhole ==
  \A s \in Subscribers : \A i \in DOMAIN wire[s] :
    IF i % 2 = 1 THEN wire[s][i][2] = 1
                 ELSE wire[s][i] = <<wire[s][i - 1][1], 2>>

\* The frames that reach s, in order: events it has read, or what is whole on its
\* connection.
Stream(s) == received[s] \o [i \in 1..(Len(wire[s]) \div 2) |-> wire[s][2 * i][1]]

\* A subscriber gets the events of one publisher in the order they were published,
\* each once and none left out after the first, although publish may time out and be
\* called again while the loop for the one before still runs.
PublisherOrder ==
  \A s \in Subscribers, p \in Publishers : \A i, j \in DOMAIN Stream(s) :
    i < j /\ Stream(s)[i][1] = p /\ Stream(s)[j][1] = p =>
      /\ Stream(s)[i][2] < Stream(s)[j][2]
      /\ \A n \in Stream(s)[i][2]..Stream(s)[j][2] : Contains(Stream(s), <<p, n>>)

\* When the broker has acknowledged a publish, the event is with every subscriber that
\* was ready when it was published and still has its connection open, whoever came,
\* went or failed in the same loop.
NotMissed ==
  \A e \in Events : e[2] <= acked[e[1]] =>
    \A s \in promised[e] : open[s] => Contains(Stream(s), e)

\* Every publish loop ends, also when subscribers close or vanish while it sends to
\* them, unless it comes to one that keeps its connection open and reads no more.
PublishEnds ==
  \A p \in Publishers :
    thread[p] = "fanout" ~> \/ thread[p] # "fanout"
                            \/ \E s \in Subscribers : Sends(p, s) /\ open[s] /\ ~reading[s]

\* Not kept by the code: two subscribers get the events of two publishers in the same
\* order.  Each publisher has a thread of its own; "seq" tells the order, nobody uses it.
SameOrder ==
  \A s1, s2 \in Subscribers :
    \A i, j \in DOMAIN Stream(s1) : i < j =>
      ~\E k, l \in DOMAIN Stream(s2) :
          k < l /\ Stream(s2)[k] = Stream(s1)[j] /\ Stream(s2)[l] = Stream(s1)[i]

\* Not kept by the code once a publish timed out: publish returns the acknowledgement
\* of its own event.  Publisher.publish does not look at correlation_id.
OwnAck == [][\A p \in Publishers : read'[p] # read[p] => read'[p] = sent[p]]_vars
=============================================================================
