------------------------------- MODULE Booking -------------------------------
(***************************************************************************)
(* The booking path of src/communication/services.py: every                *)
(* reservation.book call is a thread of ReservationNode that, under         *)
(* _book_lock, asks PropertyNode whether the property is available, marks   *)
(* it unavailable and records the reservation; then, with the lock          *)
(* released, it publishes the booking and multicasts it to the replicas.    *)
(*                                                                          *)
(* The two nodes talk over ONE persistent connection (rpc.py RPCClient,     *)
(* kept in self._property and never replaced): a FIFO of requests and a     *)
(* FIFO of replies.  A call that times out leaves its reply behind, for the *)
(* next call to read.                                                       *)
(***************************************************************************)
EXTENDS Naturals, Sequences

CONSTANTS
  Calls,         \* the reservation.book calls, one server thread each
  Properties,    \* the ids in data/properties.json
  Listed,        \* those whose "available" is true in that file
  Unknown,       \* an id that is not in the file
  NoCall,        \* "nobody": the value of a free _book_lock
  MaxTimeouts,   \* bound: replies that come later than the socket timeout
  MaxCrashes,    \* bound: crashes of PropertyNode
  MaxRestarts,   \* bound: crash-restarts of ReservationNode
  MaxHostCalls   \* bound: property.set_available calls made by other clients

ASSUME BookingAssumption ==
  /\ Listed \subseteq Properties
  /\ Unknown \notin Properties
  /\ NoCall \notin Calls
  /\ MaxTimeouts \in Nat /\ MaxCrashes \in Nat
  /\ MaxRestarts \in Nat /\ MaxHostCalls \in Nat

VARIABLES
  \* ReservationNode
  pc,            \* where each call's thread stands
  want,          \* the property_id each call asked for
  answer,        \* what its client was told
  bookLock,      \* the call that holds _book_lock
  reservations,  \* self.reservations
  link,          \* self._property: "none" (None), "up", "broken"
  \* the connection between the two nodes
  requests,      \* sent, not yet served by PropertyNode
  replies,       \* sent back, not yet read by RPCClient.call
  orphans,       \* requests of connections whose client is gone (a set: only
                 \* their effect on "available" is left, and it commutes)
  \* PropertyNode
  up,            \* the process runs
  available,     \* _props[p]["available"]
  \* history: these two are not in the code
  opening,       \* how often p turned from unavailable to available
  granted,       \* every reservation ever recorded
  \* bounds
  timeouts, crashes, restarts, hostCalls

callVars == <<pc, want, answer>>
nodeVars == <<bookLock, reservations, granted>>
linkVars == <<link, requests, replies, orphans>>
propVars == <<up, available, opening>>
bounds   == <<timeouts, crashes, restarts, hostCalls>>
vars     == <<callVars, nodeVars, linkVars, propVars, bounds>>

Ids      == Properties \cup {Unknown}
Methods  == {"check", "set"}
Waiting  == {"checkSent", "setSent"}
Locked   == {"check", "set"} \cup Waiting
Steps    == {"new", "lock", "publish", "multicast", "done"} \cup Locked
Failures == {"notfound", "timeout", "disconnected", "mismatch", "error", "notify_failed"}
Answers  == {"none", "accepted", "rejected"} \cup Failures

\* An rpc.request envelope, identified by the call and the method it is for.
Request == [call : Calls, method : Methods, prop : Ids]
\* Its rpc.reply; the request is its correlation_id.  stamp is history: the
\* opening of the property during which a "set" was applied.
Reply   == [to : Request, result : {"yes", "no", "notfound"}, stamp : Nat]
\* A record of self.reservations, with the same stamp.
Reservation == [call : Calls, prop : Properties, stamp : Nat]

Init ==
  /\ pc = [c \in Calls |-> "new"]
  /\ want = [c \in Calls |-> Unknown]
  /\ answer = [c \in Calls |-> "none"]
  /\ bookLock = NoCall
  /\ reservations = {} /\ granted = {}
  /\ link = "none"
  /\ requests = <<>> /\ replies = <<>> /\ orphans = {}
  /\ up = TRUE
  /\ available = [p \in Properties |-> p \in Listed]
  /\ opening = [p \in Properties |-> 0]
  /\ timeouts = 0 /\ crashes = 0 /\ restarts = 0 /\ hostCalls = 0

-----------------------------------------------------------------------------
(* The thread of a reservation.book call                                    *)

\* A client sends reservation.book for some id; a server thread picks it up.
Book(c, p) ==
  /\ pc[c] = "new"
  /\ pc' = [pc EXCEPT ![c] = "lock"]
  /\ want' = [want EXCEPT ![c] = p]
  /\ UNCHANGED <<answer, nodeVars, linkVars, propVars, bounds>>

LockFree == bookLock = NoCall

\* with self._book_lock
Acquire(c) ==
  /\ pc[c] = "lock"
  /\ LockFree
  /\ bookLock' = c
  /\ pc' = [pc EXCEPT ![c] = "check"]
  /\ UNCHANGED <<want, answer, reservations, granted, linkVars, propVars, bounds>>

\* Seeded fault: an error leaves _book_lock held.
Unlocked_OnlyOnReturn(c) ==
  IF bookLock = c /\ pc[c] # "setSent" THEN NoCall ELSE bookLock

\* _book_lock after the thread of c has left the with block.
Unlocked(c) == IF bookLock = c THEN NoCall ELSE bookLock

\* The thread replies to its client with a; leaves the with block if inside.
Finish(c, a) ==
  /\ pc' = [pc EXCEPT ![c] = "done"]
  /\ answer' = [answer EXCEPT ![c] = a]
  /\ bookLock' = Unlocked(c)

RequestOf(c) ==
  [call |-> c, method |-> IF pc[c] \in {"check", "checkSent"} THEN "check" ELSE "set",
   prop |-> want[c]]

\* RPCClient.call up to send_message.  _prop() connects on first use; a
\* connection that broke is kept, and what is sent into it is lost.
Send(c) ==
  /\ pc[c] \in {"check", "set"}
  /\ link # "none" \/ up
  /\ link' = IF link = "none" THEN "up" ELSE link
  /\ requests' = IF link' = "up" THEN Append(requests, RequestOf(c)) ELSE requests
  /\ pc' = [pc EXCEPT ![c] = IF pc[c] = "check" THEN "checkSent" ELSE "setSent"]
  /\ UNCHANGED <<want, answer, nodeVars, replies, orphans, propVars, bounds>>

\* connect or send_message raises: nobody listens, or the connection is reset.
SendFails(c) ==
  /\ pc[c] \in {"check", "set"}
  /\ \/ link = "none" /\ ~up
     \/ link = "broken"
  /\ Finish(c, "disconnected")
  /\ UNCHANGED <<want, reservations, granted, linkVars, propVars, bounds>>

\* Seeded fault: the assertion is stripped (python -O).
ReplyMatches_Unasserted(c, r) == TRUE

\* assert reply["correlation_id"] == req["id"]
ReplyMatches(c, r) == r.to = RequestOf(c)

\* Seeded fault: the record is not stored.
Record_Dropped(c, r) == reservations

\* self.reservations[...] = res
Record(c, r) == reservations \cup {[call |-> c, prop |-> want[c], stamp |-> r.stamp]}

\* if not avail["available"]
Refuses(r) == r.result = "no"

\* recv_message returns the oldest reply of the connection, whoever asked.  In
\* the end book() computes the record, which raises if the client's nights is not
\* a number: the property has been set by then.
Receive(c) ==
  /\ pc[c] \in Waiting
  /\ replies # <<>>
  /\ replies' = Tail(replies)
  /\ LET r == Head(replies) IN
     \/ /\ ~ReplyMatches(c, r)
        /\ Finish(c, "mismatch")
        /\ UNCHANGED <<reservations, granted>>
     \/ /\ ReplyMatches(c, r) /\ r.result = "notfound"
        /\ Finish(c, "notfound")
        /\ UNCHANGED <<reservations, granted>>
     \/ /\ ReplyMatches(c, r) /\ pc[c] = "checkSent" /\ Refuses(r)
        /\ Finish(c, "rejected")
        /\ UNCHANGED <<reservations, granted>>
     \/ /\ ReplyMatches(c, r) /\ pc[c] = "checkSent"
        /\ r.result # "notfound" /\ ~Refuses(r)
        /\ pc' = [pc EXCEPT ![c] = "set"]
        /\ UNCHANGED <<answer, nodeVars>>
     \/ /\ ReplyMatches(c, r) /\ pc[c] = "setSent" /\ r.result # "notfound"
        /\ reservations' = Record(c, r)
        /\ granted' = granted \cup reservations'
        /\ pc' = [pc EXCEPT ![c] = "publish"]
        /\ bookLock' = Unlocked(c)
        /\ UNCHANGED answer
     \/ /\ ReplyMatches(c, r) /\ pc[c] = "setSent" /\ r.result # "notfound"
        /\ Finish(c, "error")
        /\ UNCHANGED <<reservations, granted>>
  /\ UNCHANGED <<want, link, requests, orphans, propVars, bounds>>

\* recv raises socket.timeout: the answer, if any, will come later.
Timeout(c) ==
  /\ pc[c] \in Waiting
  /\ link = "up" /\ replies = <<>>
  /\ timeouts < MaxTimeouts
  /\ timeouts' = timeouts + 1
  /\ Finish(c, "timeout")
  /\ UNCHANGED <<want, reservations, granted, linkVars, propVars, crashes, restarts, hostCalls>>

\* recv meets the end of the stream of a PropertyNode that died.
LinkLost(c) ==
  /\ pc[c] \in Waiting
  /\ link = "broken" /\ replies = <<>>
  /\ Finish(c, "disconnected")
  /\ UNCHANGED <<want, reservations, granted, linkVars, propVars, bounds>>

\* Publisher.publish, then group.multicast: each returns an ack or raises.
\* _book_lock is free by now and the reservation stays in either case.
Notify(c) ==
  /\ pc[c] \in {"publish", "multicast"}
  /\ \/ /\ pc' = [pc EXCEPT ![c] = IF pc[c] = "publish" THEN "multicast" ELSE "done"]
        /\ answer' = [answer EXCEPT ![c] = IF pc[c] = "publish" THEN @ ELSE "accepted"]
        /\ UNCHANGED bookLock
     \/ Finish(c, "notify_failed")
  /\ UNCHANGED <<want, reservations, granted, linkVars, propVars, bounds>>

-----------------------------------------------------------------------------
(* PropertyNode                                                             *)

\* Seeded fault: set_available answers from a copy and stores nothing.
SetAvailable_OnCopy(p, v) == available

\* p["available"] = bool(available); an unknown id changes nothing (404).
SetAvailable(p, v) ==
  IF p \in Properties THEN [available EXCEPT ![p] = v] ELSE available

\* An opening begins when p turns from unavailable to available.
Openings(avail) ==
  [p \in Properties |-> opening[p] + IF avail[p] /\ ~available[p] THEN 1 ELSE 0]

\* Seeded fault: the dictionary lookup of an unknown id is not checked.
ResultFor_NeverMissing(q) ==
  IF q.prop \in Properties /\ q.method = "check" /\ ~available[q.prop] THEN "no" ELSE "yes"

ResultFor(q) ==
  IF q.prop \notin Properties THEN "notfound"
  ELSE IF q.method = "check" /\ ~available[q.prop] THEN "no" ELSE "yes"

\* RPCServer.handle: check reads, set_available writes, under PropertyNode._lock.
Serve(q) ==
  /\ up
  /\ available' = IF q.method = "set" THEN SetAvailable(q.prop, FALSE) ELSE available
  /\ opening' = Openings(available')
  /\ UNCHANGED <<callVars, nodeVars, up, bounds>>

\* The thread of the connection to ReservationNode serves its next request.
ServeRequest ==
  /\ requests # <<>>
  /\ LET q == Head(requests) IN
     /\ Serve(q)
     /\ replies' = Append(replies, [to |-> q, result |-> ResultFor(q),
                       stamp |-> IF q.prop \in Properties THEN opening[q.prop] ELSE 0])
  /\ requests' = Tail(requests)
  /\ UNCHANGED <<link, orphans>>

\* So does the thread of a connection whose client is gone; nobody reads the reply.
ServeOrphan ==
  \E q \in orphans :
    /\ Serve(q)
    /\ orphans' = orphans \ {q}
    /\ UNCHANGED <<link, requests, replies>>

\* Another client of PropertyNode (a host) calls property.set_available.
HostSet(p, v) ==
  /\ up
  /\ hostCalls < MaxHostCalls
  /\ hostCalls' = hostCalls + 1
  /\ available' = SetAvailable(p, v)
  /\ opening' = Openings(available')
  /\ UNCHANGED <<callVars, nodeVars, linkVars, up, timeouts, crashes, restarts>>

-----------------------------------------------------------------------------
(* Crashes: both nodes keep everything in memory                            *)

\* What PropertyNode had not served is lost; what it had sent may still arrive.
PropertyCrash ==
  /\ up
  /\ crashes < MaxCrashes
  /\ crashes' = crashes + 1
  /\ up' = FALSE
  /\ link' = IF link = "up" THEN "broken" ELSE link
  /\ requests' = <<>> /\ orphans' = {}
  /\ replies' \in {replies, <<>>}
  /\ UNCHANGED <<callVars, nodeVars, available, opening, timeouts, restarts, hostCalls>>

\* load_properties: the file says what is available, not the last process.
PropertyRestart ==
  /\ ~up
  /\ up' = TRUE
  /\ available' = [p \in Properties |-> p \in Listed]
  /\ opening' = Openings(available')
  /\ UNCHANGED <<callVars, nodeVars, linkVars, bounds>>

\* ReservationNode dies and starts again, empty; its callers lose their
\* connection; PropertyNode still serves what was sent to it.
ReservationRestart ==
  /\ restarts < MaxRestarts
  /\ restarts' = restarts + 1
  /\ LET begun == {c \in Calls : pc[c] \notin {"new", "done"}} IN
     /\ pc' = [c \in Calls |-> IF c \in begun THEN "done" ELSE pc[c]]
     /\ answer' = [c \in Calls |-> IF c \in begun THEN "disconnected" ELSE answer[c]]
  /\ bookLock' = NoCall
  /\ reservations' = {}
  /\ link' = "none"
  /\ orphans' = orphans \cup {requests[i] : i \in 1 .. Len(requests)}
  /\ requests' = <<>> /\ replies' = <<>>
  /\ UNCHANGED <<want, granted, propVars, timeouts, crashes, hostCalls>>

-----------------------------------------------------------------------------
\* One step of the thread of call c that needs nobody else's failure.
Thread(c) == Acquire(c) \/ Send(c) \/ SendFails(c) \/ Receive(c) \/ LinkLost(c) \/ Notify(c)

Next ==
  \/ \E c \in Calls : Thread(c) \/ Timeout(c) \/ (\E p \in Ids : Book(c, p))
  \/ ServeRequest \/ ServeOrphan
  \/ \E p \in Properties, v \in BOOLEAN : HostSet(p, v)
  \/ PropertyCrash \/ PropertyRestart \/ ReservationRestart

Spec == Init /\ [][Next]_vars

\* Threads run; PropertyNode serves while it is up.  Clients, timeouts,
\* crashes and restarts owe nothing.
Fairness ==
  /\ \A c \in Calls : WF_vars(Thread(c))
  /\ WF_vars(ServeRequest)

FairSpec == Spec /\ Fairness

-----------------------------------------------------------------------------
(* Properties                                                               *)

\* The variables hold what the code can put in them.
TypeOK ==
  /\ pc \in [Calls -> Steps]
  /\ want \in [Calls -> Ids]
  /\ answer \in [Calls -> Answers]
  /\ bookLock \in Calls \cup {NoCall}
  /\ reservations \subseteq Reservation
  /\ granted \subseteq Reservation
  /\ link \in {"none", "up", "broken"}
  /\ requests \in Seq(Request)
  /\ replies \in Seq(Reply)
  /\ orphans \subseteq Request
  /\ up \in BOOLEAN
  /\ available \in [Properties -> BOOLEAN]
  /\ opening \in [Properties -> Nat]
  /\ timeouts \in Nat /\ crashes \in Nat /\ restarts \in Nat /\ hostCalls \in Nat

\* Between two moments at which a property becomes available, at most one
\* booking of it is recorded: the check and the set of book(), two separate
\* calls on PropertyNode, are made atomic by _book_lock and by the assertion on
\* correlation_id, whatever is late, lost or restarted.
NoDoubleBooking ==
  \A r1, r2 \in granted :
    r1.prop = r2.prop /\ r1.stamp = r2.stamp => r1 = r2

\* What the guest is told is true: "accepted" means the reservation was
\* recorded, and so does an error of the calls that come after the record; a
\* refusal, and any other error, means it was not.  Only a guest whose connection
\* breaks cannot know.
AnswerTruth ==
  \A c \in Calls :
    /\ answer[c] \in {"accepted", "notify_failed"} =>
         \E r \in granted : r.call = c /\ r.prop = want[c]
    /\ answer[c] \in {"rejected", "notfound", "timeout", "mismatch", "error"} =>
         \A r \in granted : r.call # c

\* While PropertyNode keeps its memory and no host interferes, a property with
\* a reservation is not offered: set_available was applied before the record,
\* however late the answers and though ReservationNode restarts.
ReservedIsUnavailable ==
  crashes = 0 /\ hostCalls = 0 => \A r \in reservations : ~available[r.prop]

\* A call that may have left a property unavailable without a booking of it: it
\* was inside book() when it failed, and its guest was told of an error.
GaveUpOn(c, p) ==
  want[c] = p /\ answer[c] \in {"timeout", "disconnected", "mismatch", "error"}

\* No room is held for nobody's sake, whatever is late, lost or restarted: a
\* listed property that became unavailable was booked in its present opening, or a
\* call is about to book it, or one whose guest met an error set it.  It never is a
\* call that was refused, nor a set of a former opening that comes late unnoticed.
HeldHasReason ==
  hostCalls = 0 =>
    \A p \in Listed :
      \/ available[p]
      \/ \E r \in granted : r.prop = p /\ r.stamp = opening[p]
      \/ \E c \in Calls : (pc[c] = "setSent" /\ want[c] = p) \/ GaveUpOn(c, p)

\* Every booking ends with an answer: no thread waits for _book_lock or for
\* PropertyNode for ever, though calls time out and nodes crash.
EveryCallAnswered ==
  \A c \in Calls : pc[c] = "lock" ~> pc[c] = "done"

\* rpc.py asserts that the reply it reads is that of its request.
NoMismatch ==
  \A c \in Calls : answer[c] # "mismatch"

\* "double booking is rejected" (README.md:90), if no host ever opens a room again:
\* refuted, since PropertyNode starts again with the availability of its file.
BookedOnce ==
  hostCalls = 0 => \A r1, r2 \in granted : r1.prop = r2.prop => r1 = r2
=============================================================================
