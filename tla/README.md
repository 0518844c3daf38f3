# A verification project for the Distributed Lodging system

TLA+ modules for the Python simulation of a distributed lodging service
(`src/communication`), model-checked with TLC, with theorems checked by TLAPS.
Line numbers below are those of the repository at the modelled commit. Paths such
as `ring.py` mean `src/communication/ring.py` in the repository.

Contents: [the system](#1-the-system), [the modules](#2-the-modules),
[the runs](#3-the-runs), [fairness, deadlock and bounds](#4-fairness-deadlock-and-bounds),
[what the code does not keep](#5-what-the-code-does-not-keep),
[the proofs](#6-the-proofs), [what is left out](#7-what-is-not-modelled),
[the plan](#8-plan).

## 1. The system

Every node is a process with a `FramedServer` (`server.py`): one thread accepts
connections, one thread per connection reads frames and calls `handle`. Nodes talk
over TCP with length-prefixed JSON or XML envelopes (`transport.py`, `codec.py`).
All state is in memory; nothing is persisted.

| Component | State | Operations | Talks to |
|---|---|---|---|
| **PropertyNode** `services.py` | `_props` (availability of each property) | `check`, `set_available`, `get`, `list` | called by ReservationNode and any client |
| **ReservationNode** `services.py` | `reservations`, `_book_lock`, one kept `RPCClient` and `Publisher` | `book`, `get`, `list` | PropertyNode (JSON-RPC), Broker (publish), GroupCoordinator (multicast) |
| **RPCClient / RPCServer** `rpc.py` | one socket, its lock; table of methods | `call`, `handle` | |
| **GroupCoordinator** `group.py` | `groups`, `_seq`, `_view`, announcer threads | `join`, `leave`, `members`, `multicast`; `_fanout`, `_announce_view` | GroupMembers, one connection per delivery |
| **GroupMember**, `replica_handler` | `view`, `view_id`, `delivered`, `state` | `handle` of `group.deliver`, `group.view` | GroupCoordinator |
| **Broker, Publisher, Subscriber** `broker.py` | `_subs`, `_seq`, `_send_locks`; `received` | `subscribe`, `publish`, `on_disconnect` | ReservationNode publishes; notification, analytics, audit subscribe |
| **RingNode** `ring.py` | `pred`, `succs`, `data`, `replicas` | `join`, `leave`, `stabilize`, `put`, `get` and the handlers behind them | other RingNodes; handlers call further peers and wait |
| **Key mapping** `keymap.py`, `between` in `ring.py` | none | `responsible_id`, `is_responsible` | used by LookupNode |
| **LookupNode** `lookup.py` | that of RingNode | `lookup`, `next_hop`, `put_routed` | other LookupNodes, hop by hop |
| **CatalogPeer, p2p client** `p2p_catalog.py`, `p2p_client.py` | that of LookupNode | `start_and_publish`, heartbeat loop; `discover_listing` | the ring |
| **Transport, server loop** `transport.py`, `server.py` | the bytes of a connection | `send_message`, `recv_message`, `_serve_conn` | everybody |
| **Codec, message log** `codec.py`, `msglog.py` | log file | marshal, unmarshal, log | everybody |
| **Milestone 1** `property-service`, `reservation-service`, `payment-service`, `client` | `PAYMENTS`; the connections that wait for the one thread | `handle_client`, `dispatch`, `process_payment` | each other, chained; JSON without frames |

What is hard in it, and what makes each part correct:

* **Booking.** `book()` checks and then sets availability in two remote calls; what
  makes the pair atomic is `_book_lock` together with the assertion that a reply
  belongs to its request. Replies may come after the socket time-out and stay on the
  shared connection; either node may die between two steps; after the reservation is
  recorded, publishing may fail; before that, computing the amount may. Correct: no opening of a room is given twice, the
  guest is told the truth, no room is held but for a booking or for a guest who was told of
  an error, nobody waits for ever.
* **Group.** A thread per request, only the dictionary accesses locked: fan-outs
  overlap, views overtake each other, a member may die, leave or join again while a
  fan-out works on an older snapshot, and a delivery the coordinator gave up on may
  still be applied. Correct: when all is quiet the members have the current list, the view
  with the latest number is that list even before, `delivered_to` is true, every fan-out ends.
* **Broker.** Publish loops run on a thread each, over copies of the list, and write to
  the same connections; a frame goes out in pieces, a socket may be full, a client may
  vanish in the middle. Correct: frames stay whole, each subscriber gets each event of
  a publisher once and in order, whoever was ready misses nothing, loops end.
* **Ring.** An operation is a chain of nested calls over several peers, none of it
  atomic as a whole. A key's only second copy is at the owner's successor and must
  be current whenever the owner dies. Correct: no acknowledged value is lost, the
  second copy is there, a crash never cuts a peer off, heartbeats repair every
  pointer, every operation ends.
* **Lookup.** Ring arithmetic wraps; each peer decides alone whether it owns a key.
  Correct: exactly one peer owns each key, it is the one that answers, in a bounded
  number of hops.
* **Transport.** TCP delivers pieces; a sender may die in the middle of a frame; two
  formats must give the receiver the same types. Correct: what is handed to `handle` is
  what was sent, in order, and nothing that came whole is missing.
* **Milestone 1.** Each service has one thread, waits for the service below without a
  time-out, and ends at the first exception. Correct: answers and receipts belong to the
  request, a bad request does no damage to services it was not sent to or that do not
  depend on one it ended, and the chain never waits in a circle.

PROJECT.json lists the hazards one by one, at their lines, with the properties
that would catch each.

## 2. The modules

| Module | Models | Checked by |
|---|---|---|
| `Booking` | `book()` with its RPC calls, PropertyNode, the connection, crashes of both nodes | `MCBooking`; `BookingProofs` |
| `Group` | GroupCoordinator, GroupMember, replica_handler | `MCGroup`; `GroupProofs` |
| `Broker` | Broker, Publisher, Subscriber | `MCBroker`; `BrokerProofs` |
| `KeyRing` | `between`, `responsible_id`, `is_responsible`, `next_hop`, settled neighbours | through `Lookup` and `Ring`; `OperatorProofs`, `LookupProofs` |
| `Lookup` | a LOOKUP on any settled ring | `MCLookup`; `LookupProofs` |
| `Ring` | RingNode: operations, handlers, heartbeats, crashes and restarts; the lookups and stores of LookupNode, CatalogPeer and the client on it | `MCRing`; `RingProofs` |
| `Sublists` | what a list comprehension or a loop keeps of a list | through `Broker` and `Ring`; `OperatorProofs` |
| `Rooms` | nothing of the code: what the booking path promises, a booking being one step | through `BookingRooms` |
| `BookingRooms` | the refinement mapping from `Booking` to `Rooms` | `MCBooking`; `BookingProofs` |
| `Codec` | JSON and XML marshalling of values | through `Transport` |
| `Frames` | one direction of a connection byte by byte, and the loop that reads it | through `Transport`; `FramesProofs` |
| `Transport` | what becomes of the values that `Frames` carries | `MCTransport` |
| `Prototype` | the Milestone 1 services and their clients | `MCPrototype`; `PrototypeProofs` |

### Booking

Each `reservation.book` call is a thread with a program counter `pc[c]`:
`new -> lock -> check -> checkSent -> set -> setSent -> publish -> multicast -> done`.
An action is what the thread does between two points at which another may run:
`Acquire` (`services.py:110`), `Send`/`SendFails` (`rpc.py:81`), `Receive`, `Timeout`,
`LinkLost` (`rpc.py:82`, the four outcomes of `recv_message`), `Notify` (publish, then
multicast; each returns or raises). An exception leaves the `with` block, so `Finish`
also frees the lock. One such exception comes late: when the `set` has been answered,
`services.py:122` multiplies by what the client gave for `nights`, and raises if that is not a
number, which `rpc.py:54` makes an error reply. So the last step of `Receive` either
records or ends in `"error"` with the room set. The connection is a FIFO of requests and a FIFO of replies;
`link` is what `self._property` is: `None`, a working client, or one whose
connection broke and that is kept all the same. `requests` that were sent by a
ReservationNode which died since are `orphans`: PropertyNode still serves them.
PropertyNode's steps are `ServeRequest`, `ServeOrphan` and `HostSet` (a call of
`property.set_available` by somebody else, which any client may make).

`opening`, `granted` and the `stamp` of replies and reservations are history: they
say during which opening of a room a booking took it, so that a host who opens a
room again does not count as a double booking.

`Rooms` is the specification a guest would write: a call is *decided* at one moment,
`Refuse` if the room is closed then, `Take` if nobody else has had it since it was
opened; `Grant` makes a taken room a booking, `Tell` answers what follows from the
decision, `Fail` may break off any calls, `Change` opens and closes rooms. `BookingRooms`
says where that moment is in the code: when PropertyNode serves the check that finds
the room closed, or the `set_available`. From then on the reply on its way *is* the
decision, provided that its call still waits for it. `ActsAtOnce` says that every step
of `Booking` is a step of `Rooms` or leaves it unchanged: every refused guest met a
closed room between request and answer, every granted one was the only taker of the
opening, told answers and grants are final.

### Group

Each request to the coordinator, and each announcement it starts, is a thread
(`Tasks`) that goes through `_fanout`: take the snapshot under the lock, then for
each target in sorted order connect and send (`SendTo`), wait for the
acknowledgement (`AckRead`, `ConnectionLost`, `Timeout`), and at the end remove
those that failed (`EndFanout`) and announce again. The thread that serves a join or
leave becomes the announcer once the reply is sent; `ReplyFails` is the exception
that prevents it. `wire` holds deliveries not yet handled, also those given up on.
A member has an incarnation `inc`, so that a process that died and its successor can
be told apart; with `FixedPorts` (as `run.py` starts replicas) the new process
listens where the old one did, without it (port 0) elsewhere. `AtomicInstall` says
whether the check and the assignment of `view_id` (`group.py:149`, no lock) can be
interleaved: CPython with the GIL does not switch threads between that comparison
and the assignments in practice, the free-threaded build may.

### Broker

A Publisher or Subscriber object is one connection for life; its name also stands for
the connection and for the broker's thread that serves it. `thread[c]` says where that
thread is: a subscriber's goes `off -> asked -> ack -> serving -> gone`, a publisher's
between `serving` and `fanout`. `Subscribe` enters the list, then the thread sends the
acknowledgement; `TakePublish` copies the list to `targets`, and the loop sends to the
head of it. A send is two steps of `Put`, each half of a frame, the first of which takes
the send lock; it waits while `wire` is full. Waiting for the lock and waiting for room
before the first half are one: in both the thread has written nothing. `Broken` is the
`OSError`, with `on_disconnect`; a send to a client that is gone may also succeed for a
while. `Notice` is the thread that meets the end of its connection; closing the socket
and `on_disconnect` (`server.py:31`, `server.py:42`) are one step, since a loop that
came between would find the socket closed and remove the entry itself. `Timeout` is a
publish that gives up and leaves its acknowledgement on the connection. `Stall` is a
subscriber whose handler raised, which ends `_run` and leaves the socket open, or hangs.
An event is the n-th of its publisher; `seq`, which nobody reads, is left out.
`promised` is history: who was ready when an event was published.

### KeyRing and Lookup

`KeyRing` holds the arithmetic as operators, `Lookup` is a state machine of one
request: `Answer`, `Forward`, `GiveUp` in the order of `_h_lookup`. The ring, key and
start are chosen in `Init`, so one run covers every ring of the bounded size. SHA-1
is not modelled: positions are what `ring_id` returns, any value.

### Ring

`todo[t]` is the list of what is left of operation `t`, innermost call first. A call
replaces itself at the head by what its handler does, so that nested calls of handlers
(`join_at -> set_successor -> replicate`) need no recursion. An instruction carries
who executes it (`at`) and who called (`by`). Each step is one locked section or one
unlocked read with the request that leads to it; between any two of them others may
run and peers may die. In particular `_replicate` reads the successor in `PushStep`,
takes its snapshot in `SnapStep`, and it arrives in `ReplicateStep`. Where the code calls with `_try` a failure is
skipped (`Tried`), where it uses `_call` the operation raises (`Fail`, `Raise`).

| Code | Instructions |
|---|---|
| `_find`, `_h_find_successor` | `find` (once per hop) |
| `join`, `_h_join_at` | `find`, `joinAt`, `settle` |
| `leave` and the `stop` after it | `leave`, `reset`, `stop` |
| `stabilize` | `beat` (the ping), then `refresh` and `trim`, or `repair` and `beat` again |
| `put`, `get` | `find`, `store` and `ack`, or `fetch` |
| `publish_listings` | for each listing `lookup` (once per hop), `store` and `ack` |
| `discover_listing`, `lookup_via` | `lookup` |
| `_h_set_predecessor`, `_h_set_successor`, `_h_take_data` | `setPred`, `setSucc`, `takeData` |
| `_replicate`, `_h_replicate` | `push`, `snap`, `replicate` |

Values are version numbers: `put` stores the next one, so that "older" has a meaning.
`acked`, `member`, `staleRead` are history.

Choices to know about:

* `leave` is followed by `stop`, as in every caller; a peer whose `join` raises ends,
  as `p2p_catalog.py` does; the last peer never leaves. `Restart` is the process of a
  peer that crashed or left started again under its name, empty, to join again.
* Nothing checks that the peer which answered a lookup still owns the key when
  `ring.store` reaches it (`lookup.py:82`); neither does `StoreStep`.
* Only the heartbeat's ping can time out at a live peer (`MaxSuspicions`); a call to a
  dead peer always fails.
* The pings of the tail of the successor list are one step (`TrimStep`).
* A peer joins, heartbeats and leaves on one thread (`p2p_catalog.py:47-67`): `Busy`.
* `Calm` restricts who starts what when. Joins, leaves and puts begin one at a time, on
  a ring whose links are right, and a peer is stopped only once the successor lists
  have settled (`stabilize_all`, `ring_demo.py:27`); heartbeats and reads overlap
  anything. That is how the demos and tests drive the ring, and nothing in `ring.py`
  enforces it. With `Calm = FALSE` anything may start any time. With one slot in `Tasks`
  even heartbeats wait for what is under way.

### Codec, Frames and Transport

A value is its type and its content, so that `True` and `1` differ; `ToXml`, `FromXml`,
`ToJson`, `FromJson` are recursive as the code is. `Frames` puts
messages of some format and size on a stream of bytes, each of which knows what part of which
frame it is; `Recv` takes any number of those that have arrived, `Cut` ends the stream
anywhere, `ReadHeader`, `ReadFormat` and `ReadBody` are the lines of `recv_message`. Bytes that are
not exactly one part of one frame mean nothing (`Whose`): as a length they are too large, as a format
unknown. `Transport` makes the messages, whose bodies are marshalled envelopes; its `Intact`
compares what is unmarshalled with `AsReceived` of what was sent: the same, but for tuples
that become lists and keys that become strings, which both formats do.

### Prototype

A connection waits in the `backlog` of a service until `Accept`; `serving` is the caller
whose connection is handled, a client or the service above; `asked` and `reply` are the
handler's call to the service below. Nothing catches what a handler raises, so `Die`
closes every connection of the process: of the caller it serves and of all that wait.
A caller meets that as the end of the stream, and if it is a service, dies of it
(`AnsweredByNothing`). A client may die before or after it sent its request.
`client.py:16` prints that it is connected to the Property Service; port 5002 is the
Reservation Service.

## 3. The runs

Passing runs, with the instance and the number of distinct states:

| Run | Instance | Shows |
|---|---|---|
| `MCBooking` | 3 calls, 2 rooms and an unknown one, 2 late answers, 1 crash of PropertyNode, 1 restart of ReservationNode, 1 host call; 401 000 states up to symmetry | `NoDoubleBooking`, `AnswerTruth`, `ActsAtOnce` (the refinement); in the behaviours without a host call `HeldHasReason`; in those without a crash of PropertyNode either `ReservedIsUnavailable` |
| `MCBookingLive` | 2 calls, one of each failure; 9 700 states | `EveryCallAnswered` |
| `MCGroup` | 2 members with fixed ports, 3 threads, 1 multicast, 1 fault (a late acknowledgement, or a crash after which the member may start again); 1.9 million states up to symmetry | `QuietAgreement`, `LatestIsCurrent`, `DeliveredApplied` |
| `MCGroupLive` | 2 members, 2 threads, 2 faults and a lost reply, views installed in two steps; 650 000 states | `FanoutEnds` |
| `MCBroker` | 2 publishers, 2 subscribers, 2 events, sockets that hold a frame and a half, 1 fault (a time-out, a close or a stall); 823 000 states | `FramesWhole`, `PublisherOrder`, `NotMissed`, `PublishEnds` |
| `MCLookup` | every ring on 7 positions, every key, every start; 14 000 states | `OneOwner`, `AnsweredByOwner`, `HopsBounded`, `ComesCloser`, `LookupEnds` |
| `MCRing` | 4 peers, 2 keys, 2 stores (by `put` or published), 4 joins, 1 crash, 1 restart, one task; 619 000 states | `NoLoss`, `ReplicaCovers`, `HasNextHop` |
| `MCRingLive` | 4 peers, 1 store, 1 leave, 2 crashes, one task; 183 000 states | `Heals`, `NoLoss`, `ReplicaCovers` |
| `MCRingEnds` | 3 peers, two tasks, 2 joins, one leave, crash or suspicion, after it one restart, no keys, not calm; 352 000 states | `OperationsEnd`; in the behaviours without leave, crash or suspicion `OneRing` |
| `MCTransport` | 3 messages, 138 values for the first, both formats, a header of 2 bytes, bodies of 1 to 3 and frames one byte too large; 331 000 states | `InStep`, `Intact`, `EndsClean`, `Arrives` |
| `MCPrototype` | 3 clients with 9, 5 and 3 requests, properties of four kinds; 405 000 states | `AnswersFit`, `NoCollateral`, `ClientsEnd` |

With one task an operation runs to its end before the next begins, as it does in the demos
and tests; what the interleaving of two does is in `MCRingEnds`, `MCRingBeat` and section 5.
`NoLoss` holds either with a key written twice and no leave (`MCRing`), or with a key
written once (`MCRingLive`); section 5 says what goes wrong otherwise. One key of `MCRing`
lies just after a peer, so that a lookup meets the wrap of `next_hop`.

Each property of a passing run has a mutant in PROJECT.json: an operator
`<Name>_<Fault>` next to the definition it replaces, a bug somebody could write (no
lock, a reply not matched, a replica not promoted, a wrap forgotten), under which the
same run finds the property violated.

The invariants of `MCBroker` also hold with 3 events and 2 faults (13.7 million states up
to symmetry, without `PublishEnds`), which is too long to repeat each time.

The run that finds a violation is in section 5.

## 4. Fairness, deadlock and bounds

**Fairness.** A thread that can run does: `WF` on `Thread(c)`, `Step(t)`, `Handle`,
`ServeRequest`, `Serve(c)`, `Read1`, `Handle(s)` of the Milestone 1 services, and on
`Receive(s)`, the loop of a subscriber that has not stalled. It is justified because every receive has a time-out or meets the end
of its connection; `LinkLost` and `ConnectionLost` are part of the thread's steps, a
time-out at a live peer is not (nobody owes a late answer). Clients, operators,
crashes, restarts and time-outs owe nothing, so no liveness rests on them. In the
ring every peer calls `stabilize` for ever on a thread of its own
(`p2p_catalog.py:62-64`). The slots of `Tasks` are a limit of the model and not of the
code, and a slot taken by another peer must not count as an excuse, hence `SF` on
`Stabilize(p)` for each peer. In `Prototype` nothing has a time-out: there a client that
connected is assumed to send its request, or to die. A client that does neither stops the
one thread of the service, and all who wait for it (`payment_service.py:108`).

In `PublishEnds` the subscriber that reads no more is an exception and not a fairness
assumption: the broker has no time-out on its sends (`server.py:55`).

**Deadlock.** `Booking`, `Group`, `Broker`, `Lookup`, `Frames` and `Prototype` come to rest
once their calls, threads, hops, messages or clients are used up, so `CHECK_DEADLOCK FALSE`.
`MCRing` and `MCRingLive` check deadlock: somebody can always heartbeat. In `MCRingEnds`
a peer may leave while the last other one crashes, and then nobody is left.

**Bounds.** A constant `Max...` bounds each kind of failure or request. Two members or
three calls are enough for two to race and a third to suffer; three peers are the
smallest ring in which predecessor and successor differ and four the smallest in which
a peer is neither; two events let one overtake another or follow a time-out, and a socket
that holds a frame and a half can be full in the middle of one; `SuccLen = 2` on four peers leaves, as `SUCC_LIST = 3` does on a
larger ring, a peer outside the list; two failures are one more than the code claims
to survive at a time. Positions on the ring are few, because only their order matters:
each instance has a key between two peers and one past the last. What `Frames` does
with a byte depends only on whether it is the last one wanted, so that two bytes of
header and one to three of body have every case; two levels of values have each type inside
each container.

## 5. What the code does not keep

One run checks a property stated by a comment of the repository, and TLC finds it
violated. PROJECT.json quotes the sentence.

| Run | Property | What happens |
|---|---|---|
| `MCRingBeat` | `SomebodysSuccessor` | a heartbeat pings its successor; before it goes on, a peer joins between the two and becomes the successor; the heartbeat writes the old one back (`ring.py:197`). The joiner is nobody's successor, later heartbeats do not change that, and nobody would detect its crash |

No failure is needed: joins are one at a time, and each peer's heartbeats are on a thread
of its own anyway. The same steps with real `RingNode`s leave the joiner outside after
five more rounds of heartbeats.

More properties that one may expect, and the hypotheses of the passing runs. With these
changes of a run TLC refutes the property:

| Run | Change | Refuted | Why |
|---|---|---|---|
| `MCBooking` | `INVARIANT NoMismatch` | `NoMismatch` | a late reply stays on the connection and fails the next call's assertion (`rpc.py:83`); every call after it is one reply behind |
| `MCBooking` | `INVARIANT BookedOnce` | `BookedOnce` | PropertyNode dies and starts again with the availability of its file (`services.py:47`), and a room that has a reservation is booked again, though no host opened it; `NoDoubleBooking` and `ReservedIsUnavailable` take that restart for an opening |
| `MCBooking` | `HeldHasReason` without `GaveUpOn`, no failure and no host call | `HeldHasReason` | `nights` is not a number: `services.py:122` raises between the set and the record, nobody holds a reservation and nobody sets the room back |
| `MCBroker` | `PROPERTY OwnAck` | `OwnAck` | after a time-out each publish returns the acknowledgement of the one before (`broker.py:98`) |
| `MCBroker` | `INVARIANT SameOrder` | `SameOrder` | two loops reach two subscribers in opposite orders (`broker.py:56`) |
| `MCGroup` | `Tasks <- MCTasks4`, `FixedPorts = FALSE`, `MaxMulticasts = 2`, `MaxFaults = 0`, `INVARIANT ReplicasAgree` | `ReplicasAgree` | two multicasts reach two replicas in opposite orders and leave them different, although numbered (`group.py:97`, `services.py:129` "keep every property replica consistent") |
| `MCGroup` | `FixedPorts = FALSE`, `MaxLostReplies = 1` | `QuietAgreement` | an exception while replying to a join or leave ends the thread before it announces (`group.py:104`) |
| `MCGroup` | `INVARIANT RejoinedStays` | `RejoinedStays` | a fan-out fails at a member that died; the member starts again and joins; the fan-out ends and removes it by its name (`group.py:68`). The member goes on believing that it has joined |
| `MCGroup` | `AtomicInstall = FALSE`, `PROPERTY ViewMonotonic` | `ViewMonotonic` | an older view is installed between the check and the assignment of a newer one (`group.py:149`) |
| `MCLookup` | `PROPERTY NeverPasses` | `NeverPasses` | at a peer just before the key the two ends of the arc are equal, `between` takes that for the whole ring, and `next_hop` picks the last entry of its list: the hop passes the key and its owner (`lookup.py:47`; `lookup.py:42` has "the farthest known successor that does not pass it") |
| `MCRing` | `Tasks <- MCTasks2`, 3 peers | `ReplicaCovers`, and so `NoLoss` | a snapshot that was delayed arrives after a newer one, or at a peer that has a new predecessor; then the owner may die (`ring.py:131`) |
| `MCRing` | `Tasks <- MCTasks2`, 3 peers, `INVARIANT ReadsSeeAcked` | `ReadsSeeAcked` | a read reaches a joiner that was linked before it received its keys (`ring.py:150`) |
| `MCRing` | `Tasks <- MCTasks2`, 3 peers, 1 put, 2 joins, no crash or restart, `Calm = FALSE` | `NoLoss` | a store reaches a joiner that is already linked but still believes that it is alone, and so answers for every key (`lookup.py:61`, `ring.py:121`) |
| `MCRing` | 3 peers, `MaxCrashes = 2`, one task | `NoLoss` | a key moves to a joiner, and an old copy stays in the replica of the peer behind; the first crash promotes it there, the `_replicate` that follows takes it round to the owner's replica, and the second crash promotes it over the newer value (`ring.py:247`); serial operations only |
| `MCRingLive` | `MaxPuts = 2` | `NoLoss` | `join_at` moves keys away but a copy stays in the replica at the next peer; promoted by a crash, it replaces a newer value when its holder leaves (`ring.py:247`); serial operations only, and real `RingNode`s do the same |
| `MCRing` | `Calm = FALSE` | `HasNextHop` | until its first heartbeat a new peer knows one successor (`ring.py:150`) |
| `MCRingEnds` | `PROPERTY Heals` | `Heals` | two joins at once overwrite each other's links, and a heartbeat corrects only what lies ahead of a peer (`ring.py:150`) |
| `MCRingLive` | `MaxSuspicions = 1` | `Heals` | a live peer that answers one ping too late is cut out, and nothing brings it back (`ring.py:182`) |
| `MCTransport` | a payload `<<"str", "\r">>` | `Intact` | XML parsers read a carriage return as a line feed, so the XML mapping is not lossless as `codec.py:17` has it |
| `MCPrototype` | `INVARIANT PaidOnce` | `PaidOnce` | the reservation service marks nothing, so two clients pay for one property (`payment_service.py:36`); its README has it "checking for conflicting bookings" |
| `MCPrototype` | no `WF` on `SendRequest` | `ClientsEnd` | see section 4 |

`HopsBounded` excludes a peer on the position just before the key for the reason of
`NeverPasses`; `ComesCloser` excludes only the hops from such a peer.

## 6. The proofs

All theorems are for every value of the constants that satisfies the assumption named in
the component's module, so for any number of calls, members, peers, clients, events and
faults. What a theorem needs beyond that is in its statement and below.

| Module | Theorems | Property |
|---|---|---|
| `BookingProofs` | `InductiveInvariant`, `TypeCorrect`, `BookingIsExclusive`, `GuestInvariant`, `AnswersAreTrue`, `ReservedStaysClosed`, `NothingHeldInVain`, `BookingImplementsRooms` | `TypeOK`, `NoDoubleBooking`, `AnswerTruth`, `ReservedIsUnavailable`, `HeldHasReason`, `ActsAtOnce` |
| `GroupProofs` | `TypeCorrect`, `ReportsAreTrue`, `LatestViewIsCurrent`, `MembersAgree` | `TypeOK`, `DeliveredApplied`, `LatestIsCurrent`, `QuietAgreement` |
| `BrokerProofs` | `BrokerInvariant`, `TypeCorrect`, `FramesStayWhole`, `OrderKept`, `NothingMissed` | `TypeOK`, `FramesWhole`, `PublisherOrder`, `NotMissed` |
| `OperatorProofs` | `ResponsibleIffOwner` | used by `LookupProofs` and `RingProofs` |
| `LookupProofs` | `OwnerUnique`, `TypeCorrect`, `OnlyTheOwnerAnswers`, `FewHops`, `HopsComeCloser` | `OneOwner`, `TypeOK`, `AnsweredByOwner`, `HopsBounded`, `ComesCloser` |
| `RingProofs` | `TypeCorrect`, `NextHopAlways`, `OneCrashLosesNothing`, `NothingAcknowledgedIsLost`, `SecondCopyIsThere` | `TypeOK`, `HasNextHop`, `NoLoss`, `ReplicaCovers` |
| `FramesProofs` | `FramesInvariant`, `FramesInStep`, `LoopEndsClean` | `InStep`, `EndsClean` |
| `PrototypeProofs` | `ChainHolds`, `AnswersAreOwn`, `EndsExplained` | `AnswersFit`, `NoCollateral` |

Each of them is laid out alike: an inductive invariant, one lemma per conjunct (or group of
conjuncts) with one step per action, and a theorem that combines them.

**`BookingProofs`.** `NoDoubleBooking` is not inductive: it says nothing of bookings under
way. The invariant `IInv` adds

* `LockInv`: a thread between its check and its record holds `_book_lock`;
* `UnsentInv`: nothing of a call is on the wire before it sends it, so a reply that
  matches cannot be an older one;
* `ClosedInv`: a room whose `set` was applied stays unavailable until it is opened
  again (its `stamp` is a past opening);
* `FreshInv`: from the "yes" to its check until it records the reservation, a call
  is the only one that can be granted the room in its current opening.

`FreshInv` is the argument: when a call reads the "yes" of its own check, no booking
of this opening exists; another one can only come from a thread in the lock, and
there is one. If a host or a restart opens the room in between, the opening is a new
one. Late replies change nothing because they do not match.

For what a guest relies on, `GuestInv` adds to it what each place of a call says about what
it was granted (`AnswerInv`), that a request is sent, served and answered once (`OnceInv`),
what a reply can say to which request (`ReplyInv`), for behaviours without a crash or host
call that what was taken stays closed (`UndisturbedInv`). `HeldHasReason` needs the way a set
takes: each set on the wire, or left by a ReservationNode that died, is that of a call that
waits for it or whose guest met an error (`SourceInv`), and as long as a room is held for a call
that will book it, the reply the call waits for is of the present opening (`HeldInv`).

The refinement is proved step by step. The mapping calls a booking decided
as soon as PropertyNode has served the request that decides it, so most steps are to be
shown not to change the set `Decided`: a reply that nobody waits for any more decides
nothing (`OnceInv`, `UnsentInv`), and one that somebody waits for stays until its call reads
it, or until its call is ended by a time-out, a broken connection or a crash (`Fail`). The two steps of
`ServeRequest` are `Refuse` and `Take`, and that `Take` is allowed is `FreshInv` again.

**`GroupProofs`.** `ReportsAreTrue` rests on: whoever is recorded as having acknowledged a
payload, or whose acknowledgement is on its way, has it in `delivered` or has been started
anew since (`Reported`). `LatestViewIsCurrent` and `MembersAgree` assume
`AtomicInstall`, without which older views are installed over newer ones, and `MaxLostReplies = 0`,
without which a change may never be announced (section 5). Their argument: a change of the list always leaves a thread that will announce; the list in the
payload of the highest view number is the list of the moment, unless a thread is still
to announce (`AllLatest`); and a registered member that has not installed that view is
either still owed it by the thread that announces it, or among those a thread gave up, which
it will remove, and that change will be announced again (`AllOwed`). When nothing is under
way, only "installed" is left. No view carries a number that was not given out (`NumberInv`),
so that one announced later is newer than all there are.

**`BrokerProofs`.** A thread that has written half a frame holds the lock of that connection
(`LockInv`), and a connection ends in half a frame exactly if somebody is in that position
(`WireInv`). `ListInv` ties the list to the threads: an open subscriber whose request was taken up
is on it, one that is gone is not, nobody twice; each loop's copy has nobody twice and only
subscribers whose request was taken up (`LoopInv`). `SentInv` is the argument for order and
completeness: while it is open, a subscriber has of each publisher nothing beyond the `taken`-th
event, or the one before while the loop still has to come to it (`Done`), has that one if it has
any, and has all it was promised up to there. A step appends to what a subscriber gets, takes
its acknowledgement off the front, or ends it. `PublisherOrder` and `NotMissed` follow.

**`OperatorProofs`.** What the components' operators return, once for all of them. A loop that
keeps entries of a list returns exactly those, in order (`PickedIs`, by counting the positions). For
rings of any size: a peer with its true predecessor finds itself
responsible for a position exactly when the successor rule names it (`ResponsibleIffOwner`).
The argument is by where the peer sits: the first one owns from the last one round to itself,
any other from the one before it. Least and greatest elements of sets of positions are proved
to exist from `FiniteSetTheorems` and well-foundedness of the naturals. A settled successor
list is the nearest peers in the order of their distance (`SuccessorListIs`); a peer that goes
or comes changes only the predecessor of the one after it (`PredWithout`) and the owner of the keys
between its predecessor and itself (`OwnerWithout`, `JoinedBetween`).

**`LookupProofs`.** The way to the owner:
every hop comes closer to the key or reaches the owner (`HopsComeCloser`), so the peers that
are nearer than the present one get fewer with each hop, and their number bounds the hops that are
left (`HopsInv`). `FewHops` has the hypothesis `Cardinality(peers) <= MaxHops + 1`: on a larger ring the
limit may really be met (`lookup.py:71`).

**`RingProofs`, types.** With any positions, peers, tasks and faults, and without `Calm`: `TypeOK` says
what `_set_succs` is there for, that a successor list has nobody twice, not its own peer beside
others, and at most `SUCC_LIST` entries (`SuccLists`); and that no version of a value turns up that
was not stored, neither at a peer nor in a call under way. It is inductive because it
types what is left of every operation (`Instructions`): the handlers' arguments are
where a version or a peer comes from.

**`RingProofs`, next hops and keys.** In general `HasNextHop`, `NoLoss` and
`ReplicaCovers` are false (section 5). The theorems are about the situation of `MCRing`, which
is how the demos and tests drive the ring, for any numbers of peers, keys, stores, joins
and restarts. `Serial` states it: one task, `Calm`, no leave, no live peer taken for dead,
and a successor list of at least two (`SUCC_LIST` is 3). Operations still fall into their steps, a
peer may crash between the steps of a put, a publication or a read, and whatever was under way goes on.
`NextHopAlways` is for any number of crashes; the others have `MaxCrashes <= 1`, the "one crash" of
`ring.py:7`, and two are really too many (section 5).

`Geometry` is the invariant of the pointers. `Base` holds at all times: `Around` is the live peers and at
most one more that is linked in, and every live peer's predecessor is the one before it on that
ring. `Phase` says how far the operation under way is, one disjunct for each place of a join (`JoinSearch`,
`JoinLink`, `JoinCopy`, `JoinSettle`, `JoinPush`), of a search with a store or a read, and of a heartbeat
with its repair (`Repair`, `RepairLink`, `RepairCopy`, `RepairPush`): which call is at the head,
what its arguments are, whose next pointer is not yet right. The ring is `Sound` or `Torn`; in the second case a dead peer is
still linked in, and the peer before it has its whole list from before the crash, the second entry of which, if any, is live: this is
where `SuccLen >= 2` is needed, and why the crash has to find the lists settled. There is one lemma per operation and per handler
(`...Keeps`): each leads from the phases it can meet to the phase that follows.

`DataInv` is the invariant of the keys. The owner has the newest acknowledged value (`NewestKept`), what a
joiner is given is current (`Given`), and the next peer has a copy of the owner's keys unless a `_replicate` is yet to
come (`Copied`). `_h_set_predecessor` promotes all of a replica over what the peer has, so until that
has happened (`Pristine`) more must hold: replicas are not older than what is acknowledged (`Covered`), and
nobody has, as its own, a key of others (`OwnOnly`), nor a replica of a key of its own (`OthersOnly`). The
last two are what a repair does not restore, and the counterexample with two crashes
starts there. Old values may turn up after the promotion, but only at peers where no lookup for their key ends.

TLC checked the inductive invariants before they were proved: `Geometry` and `DataInv` on the instance of
`MCRing`, `Geometry` also with 3 crashes and 2 restarts (508 000 states).

**`FramesProofs`.** For any messages, whatever their sizes, and any pieces. Each byte of the
stream determines the next one (`After`), also across frames, and whatever is left of the stream
begins with the byte the reader is due to get (`Due`). A run of bytes that stays within what is
wanted is therefore one part of the frame whose turn it is: by the least position that
would be wrong, which takes the place of an induction over the piece. If nothing was lost, the
stream ends with the end of the last frame, so a reader that finds it empty is between two
frames (`ReaderInv`), and that is `EndsClean`.

**`PrototypeProofs`.** What the chain knows of one request is spread over three
processes. `PlaceInv` and `OnceInv` say that a connection is in one queue or in one
service's hands, the one its client chose; `AskedInv` that a service waits for an answer only
while it serves the caller it asks for; `ReplyInv` that this answer is about that
caller's property; `ReceiptInv` that nobody has an answer or a receipt before it was served. `NoCollateral` is by the cause of each end: an unreadable request of
its own, or the end of the service below.

**Only model-checked.**

* Every liveness property: liveness under fairness and `ENABLED` are out of the prover's reach.
* `Ring` with leaves or with two crashes (`MCRingLive`, where each key is written once): `NoLoss` and
  `ReplicaCovers` there, since the theorems have neither. `SomebodysSuccessor` is refuted (section 5).
* `Codec`, and so `Intact`: `Codec` is recursive over values, so neither it nor `Transport`,
  which extends it, can have theorems; that unmarshalling undoes marshalling for every value
  would be an induction over data.

## 7. What is not modelled

* `Booking` takes `publish` and `multicast` as calls that return or raise; `Broker` and
  `Group` show what happens behind them.
* A crash of the broker or the coordinator: they keep everything in memory, nobody
  reconnects, and the system starts anew. More than one topic, more than one group.
* Ring calls other than the heartbeat's ping that time out at a live peer: an operation
  that raises although it took effect.
* Hashing, quoting and escaping of texts, and the fields of an envelope but two; except in
  `Transport` a message is a record. A peer or key is its position.
* Logging: nothing reads it. `get`, `list`, `state`, `members`, `topics`: they only read.
* A Milestone 1 request or answer that TCP delivers in pieces, or that is longer than the
  one `recv` that reads it; a service that is started again (its `PAYMENTS` begin anew).
* `handle` that returns False to end a connection (`server.py:39`): one more way to end it.
* The demos and `run.py`: scripts. They are the source of `Calm` and of `FixedPorts`.

## 8. Plan

1. **Proofs**: `Ring` with leaves and several crashes, where a value is written once (`MCRingLive`); two
   tasks that do not disturb each other, a read during a heartbeat to begin with.
2. **`Ring`**: late answers to `_call`; a map from keys to values that `Ring` implements
   in the instances where `NoLoss` holds.
3. **Abstract membership** that `Group` implements; `Booking` with `Broker` and `Group` behind
   its `Notify`.
