---------------------------- MODULE BookingProofs ----------------------------
(***************************************************************************)
(* Theorems about Booking, for any number of calls, rooms, time-outs,       *)
(* crashes, restarts and hosts: it keeps its types and never gives one      *)
(* opening of a room to two bookings; a guest gets true answers, a booked   *)
(* room is not offered again, and a room that is held is booked, about to   *)
(* be, or was set by a call whose guest met an error; and it implements     *)
(* Rooms, where a booking happens at one moment.                            *)
(***************************************************************************)
EXTENDS BookingRooms, TLAPS

-----------------------------------------------------------------------------
(* The inductive invariant                                                  *)

\* s is the stamp of a set that was applied: if p was not opened since, it is
\* not available.
Closed(p, s) == s <= opening[p] /\ (s = opening[p] => ~available[p])

\* The same after the step.
ClosedNext(p, s) == s <= opening'[p] /\ (s = opening'[p] => ~available'[p])

\* Nobody has booked p since it was last opened.
Fresh(p) == \A r \in granted : r.prop = p => r.stamp # opening[p]

FreshNext(p) == \A r \in granted' : r.prop = p => r.stamp # opening'[p]

\* A thread inside the with block is the one that holds _book_lock.
LockInv == \A c \in Calls : pc[c] \in Locked => bookLock = c

\* A call's requests are not on the wire before it sends them.
UnsentInv ==
  \A c \in Calls :
    /\ pc[c] \in {"new", "lock", "check"} =>
         /\ \A i \in 1 .. Len(requests) : requests[i].call # c
         /\ \A i \in 1 .. Len(replies) : replies[i].to.call # c
    /\ pc[c] \in {"checkSent", "set"} =>
         /\ \A i \in 1 .. Len(requests) :
              requests[i].call = c => requests[i].method = "check"
         /\ \A i \in 1 .. Len(replies) :
              replies[i].to.call = c => replies[i].to.method = "check"

\* What was granted, or is about to be, was closed by its set_available.
ClosedInv ==
  /\ \A r \in granted : Closed(r.prop, r.stamp)
  /\ \A i \in 1 .. Len(replies) :
       replies[i].to.method = "set" /\ replies[i].to.prop \in Properties
         => Closed(replies[i].to.prop, replies[i].stamp)

\* From the "yes" to its check until it leaves the lock, a call is the only one
\* that can be granted the property.
FreshInv ==
  \A c \in Calls :
    /\ pc[c] \in {"set", "setSent"} => Fresh(want[c])
    /\ \A i \in 1 .. Len(replies) :
         /\ pc[c] = "checkSent" /\ replies[i].to = RequestOf(c) /\ replies[i].result = "yes"
              => Fresh(want[c])
         /\ pc[c] = "setSent" /\ replies[i].to = RequestOf(c)
              => \A r \in granted : r.prop = want[c] => r.stamp # replies[i].stamp

\* Only an id that is not in the file is answered with a 404.
ResultInv ==
  \A i \in 1 .. Len(replies) :
    replies[i].result # "notfound" => replies[i].to.prop \in Properties

TypeInv == TypeOK /\ ResultInv

IInv ==
  /\ TypeInv
  /\ reservations \subseteq granted
  /\ LockInv /\ UnsentInv /\ ClosedInv /\ FreshInv
  /\ NoDoubleBooking

-----------------------------------------------------------------------------
(* Types                                                                    *)

\* A request names its call, its method and the property the call wants.
LEMMA RequestTyped ==
  ASSUME TypeOK, NEW c \in Calls
  PROVE  /\ RequestOf(c) \in Request
         /\ RequestOf(c).call = c /\ RequestOf(c).prop = want[c]
         /\ RequestOf(c).method = IF pc[c] \in {"check", "checkSent"} THEN "check" ELSE "set"
  BY DEF TypeOK, RequestOf, Request, Methods, Ids

\* A call that ends leaves its variables, and the lock, in their types.
LEMMA FinishTyped ==
  ASSUME TypeOK, NEW c \in Calls, NEW a \in Answers, Finish(c, a)
  PROVE  /\ pc' \in [Calls -> Steps] /\ answer' \in [Calls -> Answers]
         /\ bookLock' \in Calls \cup {NoCall}
  BY DEF TypeOK, Finish, Unlocked, Steps

\* The number of openings only grows.
LEMMA OpeningsTyped ==
  ASSUME TypeOK, available' \in [Properties -> BOOLEAN], opening' = Openings(available')
  PROVE  /\ opening' \in [Properties -> Nat]
         /\ \A p \in Properties : opening'[p] >= opening[p]
         /\ \A p \in Properties : opening'[p] = opening[p] /\ ~available[p] => ~available'[p]
  BY DEF TypeOK, Openings

\* set_available keeps one flag per property.
LEMMA SetAvailableTyped ==
  ASSUME TypeOK, NEW p \in Ids, NEW v \in BOOLEAN
  PROVE  SetAvailable(p, v) \in [Properties -> BOOLEAN]
  BY DEF TypeOK, SetAvailable, Ids

LEMMA ServeTyped ==
  ASSUME TypeOK, NEW q \in Request, Serve(q)
  PROVE  available' \in [Properties -> BOOLEAN] /\ opening' \in [Properties -> Nat]
<1>1. available' \in [Properties -> BOOLEAN]
  BY SetAvailableTyped DEF Serve, TypeOK, Request
<1>2. opening' = Openings(available')
  BY DEF Serve
<1> QED  BY <1>1, <1>2, OpeningsTyped

\* Every step keeps the types, and a reply other than a 404 is about a property.
LEMMA TypeStep == TypeInv /\ [Next]_vars => TypeInv'
<1> SUFFICES ASSUME TypeInv, [Next]_vars PROVE TypeInv'
  OBVIOUS
<1> USE DEF TypeInv
<1>1. ASSUME NEW c \in Calls, NEW p \in Ids, Book(c, p) PROVE TypeInv'
  BY <1>1 DEF TypeOK, ResultInv, Book, Steps, nodeVars, linkVars, propVars, bounds
<1>2. ASSUME NEW c \in Calls, Acquire(c) PROVE TypeInv'
  BY <1>2 DEF TypeOK, ResultInv, Acquire, Steps, Locked, linkVars, propVars, bounds
<1>3. ASSUME NEW c \in Calls, Send(c) PROVE TypeInv'
  <2>1. requests' \in Seq(Request)
    BY <1>3, RequestTyped DEF Send, TypeOK
  <2> QED  BY <1>3, <2>1 DEF TypeOK, ResultInv, Send, Steps, Locked, Waiting, nodeVars, propVars, bounds
<1>4. ASSUME NEW c \in Calls, SendFails(c) \/ LinkLost(c) PROVE TypeInv'
  <2>1. Finish(c, "disconnected")
    BY <1>4 DEF SendFails, LinkLost
  <2>2. "disconnected" \in Answers
    BY DEF Answers, Failures
  <2> QED  BY <1>4, <2>1, <2>2, FinishTyped
           DEF TypeOK, ResultInv, SendFails, LinkLost, linkVars, propVars, bounds
<1>5. ASSUME NEW c \in Calls, Receive(c) PROVE TypeInv'
  <2> DEFINE r == Head(replies)
  <2>1. /\ r \in Reply /\ replies' \in Seq(Reply)
        /\ r = replies[1] /\ 1 \in 1 .. Len(replies)
        /\ Len(replies') = Len(replies) - 1
        /\ \A i \in 1 .. Len(replies') : replies'[i] = replies[i + 1] /\ i + 1 \in 1 .. Len(replies)
    BY <1>5 DEF TypeOK, Receive
  <2>2. ResultInv'
    BY <2>1 DEF ResultInv
  <2>3. {"mismatch", "notfound", "rejected", "error"} \subseteq Answers
    BY DEF Answers, Failures
  <2>4. /\ pc' \in [Calls -> Steps] /\ answer' \in [Calls -> Answers]
        /\ bookLock' \in Calls \cup {NoCall}
    BY <1>5, <2>3, FinishTyped DEF TypeOK, Receive, nodeVars, Unlocked, Steps, Locked
  <2>5. reservations' \subseteq Reservation /\ granted' \subseteq Reservation
    <3>1. CASE ReplyMatches(c, r) /\ r.result # "notfound" /\ reservations' = Record(c, r)
                 /\ granted' = granted \cup reservations'
      <4>1. want[c] \in Properties
        BY <3>1, <2>1, RequestTyped DEF ResultInv, ReplyMatches
      <4> QED  BY <3>1, <4>1, <2>1 DEF Record, Reservation, Reply, TypeOK
    <3>2. CASE reservations' = reservations /\ granted' = granted
      BY <3>2 DEF TypeOK
    <3> QED  BY <1>5, <3>1, <3>2 DEF Receive, nodeVars
  <2> QED  BY <1>5, <2>1, <2>2, <2>4, <2>5 DEF TypeOK, Receive, propVars, bounds
<1>6. ASSUME NEW c \in Calls, Timeout(c) PROVE TypeInv'
  <2>1. Finish(c, "timeout") /\ "timeout" \in Answers
    BY <1>6 DEF Timeout, Answers, Failures
  <2> QED  BY <1>6, <2>1, FinishTyped DEF TypeOK, ResultInv, Timeout, linkVars, propVars
<1>7. ASSUME NEW c \in Calls, Notify(c) PROVE TypeInv'
  <2>1. {"accepted", "notify_failed"} \subseteq Answers
    BY DEF Answers, Failures
  <2>2. /\ pc' \in [Calls -> Steps] /\ answer' \in [Calls -> Answers]
        /\ bookLock' \in Calls \cup {NoCall}
    BY <1>7, <2>1, FinishTyped DEF TypeOK, Notify, Steps
  <2> QED  BY <1>7, <2>2 DEF TypeOK, ResultInv, Notify, linkVars, propVars, bounds
<1>8. CASE ServeRequest
  <2> DEFINE q == Head(requests)
             s == IF q.prop \in Properties THEN opening[q.prop] ELSE 0
             a == [to |-> q, result |-> ResultFor(q), stamp |-> s]
  <2>1. q \in Request /\ requests' \in Seq(Request) /\ Serve(q) /\ replies' = Append(replies, a)
    BY <1>8 DEF ServeRequest, TypeOK
  <2>2. a \in Reply /\ (a.result # "notfound" => a.to.prop \in Properties)
    BY <2>1 DEF Reply, TypeOK, ResultFor
  <2>3. /\ replies' \in Seq(Reply)
        /\ \A i \in 1 .. Len(replies') :
             replies'[i] = a \/ (i \in 1 .. Len(replies) /\ replies'[i] = replies[i])
    BY <2>1, <2>2 DEF TypeOK
  <2>4. ResultInv'
    BY <2>2, <2>3 DEF ResultInv
  <2>5. available' \in [Properties -> BOOLEAN] /\ opening' \in [Properties -> Nat]
    BY <2>1, ServeTyped
  <2>6. UNCHANGED <<callVars, nodeVars, up, bounds, link, orphans>>
    BY <1>8, <2>1 DEF ServeRequest, Serve
  <2> QED  BY <2>1, <2>3, <2>4, <2>5, <2>6 DEF TypeOK, callVars, nodeVars, bounds
<1>9. CASE ServeOrphan
  BY <1>9, ServeTyped DEF ServeOrphan, Serve, TypeOK, ResultInv, callVars, nodeVars, bounds
<1>10. ASSUME NEW p \in Properties, NEW v \in BOOLEAN, HostSet(p, v) PROVE TypeInv'
  <2>1. available' \in [Properties -> BOOLEAN]
    BY <1>10, SetAvailableTyped DEF HostSet, Ids
  <2> QED  BY <1>10, <2>1, OpeningsTyped
           DEF HostSet, TypeOK, ResultInv, callVars, nodeVars, linkVars
<1>11. CASE PropertyCrash
  <2>1. replies' = replies \/ replies' = <<>>
    BY <1>11 DEF PropertyCrash
  <2>2. replies' \in Seq(Reply) /\ requests' \in Seq(Request)
    <3>1. requests' = <<>> /\ <<>> \in Seq(Request) /\ <<>> \in Seq(Reply)
      BY <1>11 DEF PropertyCrash
    <3> QED  BY <2>1, <3>1 DEF TypeOK
  <2>3. ResultInv'
    BY <2>1 DEF ResultInv
  <2>4. /\ up' = FALSE /\ link' \in {"none", "up", "broken"} /\ orphans' = {} /\ crashes' \in Nat
        /\ UNCHANGED <<callVars, nodeVars, available, opening, timeouts, restarts, hostCalls>>
    BY <1>11 DEF PropertyCrash, TypeOK
  <2> QED  BY <2>2, <2>3, <2>4 DEF TypeOK, callVars, nodeVars
<1>12. CASE PropertyRestart
  <2>1. available' \in [Properties -> BOOLEAN]
    BY <1>12 DEF PropertyRestart
  <2> QED  BY <1>12, <2>1, OpeningsTyped
           DEF PropertyRestart, TypeOK, ResultInv, callVars, nodeVars, linkVars, bounds
<1>13. CASE ReservationRestart
  <2>1. {requests[i] : i \in 1 .. Len(requests)} \subseteq Request
    BY DEF TypeOK
  <2> QED  BY <1>13, <2>1 DEF ReservationRestart, TypeOK, ResultInv, Steps, Answers, Failures, propVars
<1>14. CASE UNCHANGED vars
  BY <1>14 DEF TypeOK, ResultInv, vars, callVars, nodeVars, linkVars, propVars, bounds
<1> QED  BY <1>1, <1>2, <1>3, <1>4, <1>5, <1>6, <1>7, <1>8, <1>9, <1>10, <1>11, <1>12,
            <1>13, <1>14 DEF Next, Thread

-----------------------------------------------------------------------------
(* What a step can do, one aspect at a time                                 *)

\* A thread moves along book(); only Send puts its request on the wire, only a
\* "yes" takes it past the check.
LEMMA ThreadStep ==
  ASSUME TypeInv, [Next]_vars, NEW c \in Calls
  PROVE  /\ \/ pc'[c] = pc[c]
            \/ pc[c] = "new" /\ pc'[c] = "lock"
            \/ pc[c] = "lock" /\ pc'[c] = "check" /\ Acquire(c)
            \/ pc[c] = "check" /\ pc'[c] = "checkSent" /\ Send(c)
            \/ pc[c] = "set" /\ pc'[c] = "setSent" /\ Send(c)
            \/ /\ pc[c] = "checkSent" /\ pc'[c] = "set" /\ Receive(c)
               /\ replies # <<>> /\ Head(replies).to = RequestOf(c)
               /\ Head(replies).result = "yes"
            \/ pc'[c] \in {"publish", "multicast", "done"}
         /\ pc[c] # "new" => want'[c] = want[c]
<1> USE DEF TypeInv, TypeOK
<1>1. ASSUME NEW d \in Calls, NEW p \in Ids, Book(d, p)
      PROVE  \/ c # d /\ pc'[c] = pc[c] /\ want'[c] = want[c]
             \/ c = d /\ pc[c] = "new" /\ pc'[c] = "lock"
  BY <1>1 DEF Book
<1>2. ASSUME NEW d \in Calls, Acquire(d)
      PROVE  /\ want' = want
             /\ \/ c # d /\ pc'[c] = pc[c]
                \/ c = d /\ pc[c] = "lock" /\ pc'[c] = "check"
  BY <1>2 DEF Acquire
<1>3. ASSUME NEW d \in Calls, Send(d)
      PROVE  /\ want' = want
             /\ \/ c # d /\ pc'[c] = pc[c]
                \/ c = d /\ pc[c] = "check" /\ pc'[c] = "checkSent"
                \/ c = d /\ pc[c] = "set" /\ pc'[c] = "setSent"
  BY <1>3 DEF Send
<1>4. ASSUME NEW d \in Calls, SendFails(d) \/ LinkLost(d) \/ Timeout(d) \/ Notify(d)
      PROVE  want' = want /\ (pc'[c] = pc[c] \/ pc'[c] \in {"multicast", "done"})
  BY <1>4 DEF SendFails, LinkLost, Timeout, Notify, Finish
<1>5. ASSUME NEW d \in Calls, Receive(d)
      PROVE  /\ want' = want
             /\ \/ pc'[c] = pc[c] \/ pc'[c] \in {"publish", "done"}
                \/ /\ c = d /\ pc[c] = "checkSent" /\ pc'[c] = "set"
                   /\ replies # <<>> /\ Head(replies).to = RequestOf(c)
                   /\ Head(replies).result = "yes"
  <2>1. Head(replies).result \in {"yes", "no", "notfound"}
    <3>1. Head(replies) \in Reply
      BY <1>5 DEF Receive
    <3> QED  BY <3>1 DEF Reply
  <2>2. CASE pc' = [pc EXCEPT ![d] = "done"] \/ pc' = [pc EXCEPT ![d] = "publish"]
    BY <1>5, <2>2 DEF Receive
  <2>3. CASE /\ ReplyMatches(d, Head(replies)) /\ pc[d] = "checkSent"
             /\ Head(replies).result \notin {"notfound", "no"}
             /\ pc' = [pc EXCEPT ![d] = "set"]
    BY <1>5, <2>1, <2>3 DEF Receive, ReplyMatches
  <2> QED  BY <1>5, <2>2, <2>3 DEF Receive, Refuses, Finish
<1>6. ASSUME ServeRequest \/ ServeOrphan PROVE pc' = pc /\ want' = want
  BY <1>6 DEF ServeRequest, ServeOrphan, Serve, callVars
<1>7. ASSUME NEW p \in Properties, NEW v \in BOOLEAN, HostSet(p, v) PROVE pc' = pc /\ want' = want
  BY <1>7 DEF HostSet, callVars
<1>8. ASSUME PropertyCrash \/ PropertyRestart PROVE pc' = pc /\ want' = want
  BY <1>8 DEF PropertyCrash, PropertyRestart, callVars
<1>9. ASSUME ReservationRestart PROVE want' = want /\ (pc'[c] = pc[c] \/ pc'[c] = "done")
  BY <1>9 DEF ReservationRestart
<1>10. ASSUME UNCHANGED vars PROVE pc' = pc /\ want' = want
  BY <1>10 DEF vars, callVars
<1> QED  BY <1>1, <1>2, <1>3, <1>4, <1>5, <1>6, <1>7, <1>8, <1>9, <1>10 DEF Next, Thread

\* _book_lock changes hands only through a release by its holder, who is then
\* outside the with block, or a restart that ends every call.
LEMMA HolderStep ==
  ASSUME TypeInv, [Next]_vars
  PROVE  \/ bookLock' = bookLock
         \/ bookLock = NoCall
         \/ \E d \in Calls : bookLock = d /\ pc'[d] \in {"publish", "multicast", "done"}
         \/ \A d \in Calls : pc'[d] \in {"new", "done"}
<1> USE DEF TypeInv, TypeOK
<1>1. ASSUME NEW d \in Calls, Thread(d) \/ Timeout(d)
      PROVE  bookLock' = bookLock \/ bookLock = NoCall
               \/ (bookLock = d /\ pc'[d] \in {"publish", "multicast", "done"})
  BY <1>1 DEF Thread, Timeout, Acquire, LockFree, Send, SendFails, Receive, LinkLost, Notify,
              Finish, Unlocked, nodeVars
<1>2. ASSUME ReservationRestart PROVE \A d \in Calls : pc'[d] \in {"new", "done"}
  BY <1>2 DEF ReservationRestart
<1>3. ASSUME \/ \E d \in Calls, p \in Ids : Book(d, p)
             \/ ServeRequest \/ ServeOrphan
             \/ \E p \in Properties, v \in BOOLEAN : HostSet(p, v)
             \/ PropertyCrash \/ PropertyRestart \/ UNCHANGED vars
      PROVE  bookLock' = bookLock
  BY <1>3 DEF Book, ServeRequest, ServeOrphan, Serve, HostSet, PropertyCrash, PropertyRestart,
              vars, nodeVars
<1> QED  BY <1>1, <1>2, <1>3 DEF Next

\* A reservation is granted only by the holder of a set reply, at its head.
LEMMA GrantStep ==
  ASSUME TypeInv, [Next]_vars, reservations \subseteq granted
  PROVE  /\ reservations' \subseteq granted'
         /\ \/ granted' = granted
            \/ \E c \in Calls :
                 /\ pc[c] = "setSent" /\ pc'[c] = "publish" /\ Receive(c)
                 /\ replies # <<>> /\ Head(replies).to = RequestOf(c)
                 /\ granted' = granted \cup {[call |-> c, prop |-> want[c],
                                              stamp |-> Head(replies).stamp]}
<1> USE DEF TypeInv, TypeOK
<1>1. ASSUME NEW c \in Calls, Receive(c)
      PROVE  /\ reservations' \subseteq granted'
             /\ \/ granted' = granted
                \/ /\ pc[c] = "setSent" /\ pc'[c] = "publish"
                   /\ replies # <<>> /\ Head(replies).to = RequestOf(c)
                   /\ granted' = granted \cup {[call |-> c, prop |-> want[c],
                                                stamp |-> Head(replies).stamp]}
  BY <1>1 DEF Receive, Record, ReplyMatches, nodeVars
<1>2. ASSUME \/ \E c \in Calls : \/ Acquire(c) \/ Send(c) \/ SendFails(c) \/ LinkLost(c)
                                 \/ Notify(c) \/ Timeout(c) \/ \E p \in Ids : Book(c, p)
             \/ ServeRequest \/ ServeOrphan
             \/ \E p \in Properties, v \in BOOLEAN : HostSet(p, v)
             \/ PropertyCrash \/ PropertyRestart \/ UNCHANGED vars
      PROVE  reservations' = reservations /\ granted' = granted
  BY <1>2 DEF Book, Acquire, Send, SendFails, LinkLost, Notify, Timeout, ServeRequest, ServeOrphan,
              Serve, HostSet, PropertyCrash, PropertyRestart, vars, nodeVars
<1>3. ASSUME ReservationRestart PROVE reservations' = {} /\ granted' = granted
  BY <1>3 DEF ReservationRestart
<1> QED  BY <1>1, <1>2, <1>3 DEF Next, Thread

\* Openings are counted: a property that was not opened stays closed.
LEMMA OpeningStep ==
  ASSUME TypeInv, [Next]_vars, NEW p \in Properties
  PROVE  /\ opening'[p] >= opening[p]
         /\ opening'[p] = opening[p] /\ ~available[p] => ~available'[p]
<1> USE DEF TypeInv, TypeOK
<1>1. ASSUME available' \in [Properties -> BOOLEAN], opening' = Openings(available')
      PROVE  /\ opening'[p] >= opening[p]
             /\ opening'[p] = opening[p] /\ ~available[p] => ~available'[p]
  BY <1>1, OpeningsTyped
<1>2. ASSUME \/ ServeRequest \/ ServeOrphan \/ PropertyRestart
             \/ \E q \in Properties, v \in BOOLEAN : HostSet(q, v)
      PROVE  opening' = Openings(available')
  BY <1>2 DEF ServeRequest, ServeOrphan, Serve, PropertyRestart, HostSet
<1>3. ASSUME \/ \E c \in Calls : Thread(c) \/ Timeout(c) \/ \E q \in Ids : Book(c, q)
             \/ PropertyCrash \/ ReservationRestart \/ UNCHANGED vars
      PROVE  opening' = opening /\ available' = available
  BY <1>3 DEF Thread, Book, Acquire, Send, SendFails, Receive, LinkLost, Notify, Timeout,
              PropertyCrash, ReservationRestart, vars, propVars
<1>4. available' \in [Properties -> BOOLEAN]
  BY TypeStep
<1> QED  BY <1>1, <1>2, <1>3, <1>4 DEF Next

\* What is on the wire after a step was there, or has just been sent by a
\* thread, or answers the request PropertyNode has just served.
LEMMA WireStep ==
  ASSUME TypeInv, [Next]_vars
  PROVE  /\ \A i \in 1 .. Len(requests') :
              \/ \E j \in 1 .. Len(requests) : requests'[i] = requests[j]
              \/ \E c \in Calls : Send(c) /\ requests'[i] = RequestOf(c)
         /\ \A i \in 1 .. Len(replies') :
              \/ \E j \in 1 .. Len(replies) : replies'[i] = replies[j]
              \/ /\ ServeRequest
                 /\ 1 \in 1 .. Len(requests) /\ replies'[i].to = requests[1]
                 /\ replies'[i].result = ResultFor(requests[1])
                 /\ requests[1].prop \in Properties =>
                      replies'[i].stamp = opening[requests[1].prop]
<1> USE DEF TypeInv, TypeOK
<1>1. ASSUME NEW c \in Calls, Send(c)
      PROVE  /\ replies' = replies
             /\ \A i \in 1 .. Len(requests') :
                  \/ \E j \in 1 .. Len(requests) : requests'[i] = requests[j]
                  \/ requests'[i] = RequestOf(c)
  BY <1>1, RequestTyped DEF Send
<1>2. ASSUME NEW c \in Calls, Receive(c)
      PROVE  /\ requests' = requests
             /\ \A i \in 1 .. Len(replies') : \E j \in 1 .. Len(replies) : replies'[i] = replies[j]
  <2>1. replies' = Tail(replies) /\ replies # <<>> /\ replies \in Seq(Reply) /\ requests' = requests
    BY <1>2 DEF Receive
  <2>2. \A i \in 1 .. Len(replies') : i + 1 \in 1 .. Len(replies) /\ replies'[i] = replies[i + 1]
    BY <2>1
  <2> QED  BY <2>1, <2>2
<1>3. ASSUME ServeRequest
      PROVE  /\ \A i \in 1 .. Len(requests') : \E j \in 1 .. Len(requests) : requests'[i] = requests[j]
             /\ \A i \in 1 .. Len(replies') :
                  \/ \E j \in 1 .. Len(replies) : replies'[i] = replies[j]
                  \/ /\ 1 \in 1 .. Len(requests) /\ replies'[i].to = requests[1]
                     /\ replies'[i].result = ResultFor(requests[1])
                     /\ requests[1].prop \in Properties =>
                          replies'[i].stamp = opening[requests[1].prop]
  <2> DEFINE q == Head(requests)
             a == [to |-> q, result |-> ResultFor(q),
                   stamp |-> IF q.prop \in Properties THEN opening[q.prop] ELSE 0]
  <2>1. /\ requests # <<>> /\ requests' = Tail(requests) /\ requests \in Seq(Request)
        /\ replies' = Append(replies, a) /\ replies \in Seq(Reply)
    BY <1>3 DEF ServeRequest
  <2>2. /\ q = requests[1] /\ 1 \in 1 .. Len(requests)
        /\ \A i \in 1 .. Len(requests') : i + 1 \in 1 .. Len(requests) /\ requests'[i] = requests[i + 1]
    BY <2>1
  <2>3. /\ a.to = q /\ a.result = ResultFor(q)
        /\ q.prop \in Properties => a.stamp = opening[q.prop]
    OBVIOUS
  <2> HIDE DEF a
  <2>4. \A i \in 1 .. Len(replies') :
          (i \in 1 .. Len(replies) /\ replies'[i] = replies[i]) \/ replies'[i] = a
    BY <2>1
  <2> QED  BY <2>2, <2>3, <2>4
<1>4. ASSUME \/ \E c \in Calls : \/ Acquire(c) \/ SendFails(c) \/ LinkLost(c)
                                 \/ Notify(c) \/ Timeout(c) \/ \E p \in Ids : Book(c, p)
             \/ ServeOrphan \/ PropertyRestart \/ UNCHANGED vars
             \/ \E p \in Properties, v \in BOOLEAN : HostSet(p, v)
      PROVE  requests' = requests /\ replies' = replies
  BY <1>4 DEF Book, Acquire, SendFails, LinkLost, Notify, Timeout, ServeOrphan, HostSet,
              PropertyRestart, vars, linkVars
<1>5. ASSUME PropertyCrash \/ ReservationRestart
      PROVE  requests' = <<>> /\ (replies' = replies \/ replies' = <<>>)
  BY <1>5 DEF PropertyCrash, ReservationRestart
<1>6. Len(<<>>) = 0
  OBVIOUS
<1> QED  BY <1>1, <1>2, <1>3, <1>4, <1>5, <1>6 DEF Next, Thread

-----------------------------------------------------------------------------
(* Every step preserves the invariant                                       *)

LEMMA LockPreserved ==
  ASSUME TypeInv, LockInv, [Next]_vars PROVE LockInv'
<1> SUFFICES ASSUME NEW c \in Calls, pc'[c] \in Locked PROVE bookLock' = c
  BY DEF LockInv
<1>1. CASE Acquire(c)
  BY <1>1 DEF Acquire
<1>2. CASE ~Acquire(c)
  <2>1. pc[c] \in Locked
    BY <1>2, ThreadStep DEF Locked, Waiting
  <2>2. bookLock = c /\ bookLock # NoCall
    BY <2>1, BookingAssumption DEF LockInv
  <2> QED  BY <2>2, HolderStep DEF Locked, Waiting
<1> QED  BY <1>1, <1>2

LEMMA UnsentPreserved ==
  ASSUME TypeInv, UnsentInv, [Next]_vars PROVE UnsentInv'
<1> SUFFICES ASSUME NEW c \in Calls
             PROVE  /\ pc'[c] \in {"new", "lock", "check"} =>
                         /\ \A i \in 1 .. Len(requests') : requests'[i].call # c
                         /\ \A i \in 1 .. Len(replies') : replies'[i].to.call # c
                    /\ pc'[c] \in {"checkSent", "set"} =>
                         /\ \A i \in 1 .. Len(requests') :
                              requests'[i].call = c => requests'[i].method = "check"
                         /\ \A i \in 1 .. Len(replies') :
                              replies'[i].to.call = c => replies'[i].to.method = "check"
  BY DEF UnsentInv
<1>1. \A d \in Calls : Send(d) => /\ RequestOf(d).call = d
                                  /\ pc[d] = "check" \/ pc[d] = "set"
                                  /\ pc[d] = "check" => /\ RequestOf(d).method = "check"
                                                        /\ pc'[d] = "checkSent"
                                  /\ pc[d] = "set" => pc'[d] = "setSent"
  BY RequestTyped DEF Send, TypeInv, TypeOK
<1>2. CASE pc'[c] \in {"new", "lock", "check"}
  <2>1. pc[c] \in {"new", "lock", "check"}
    BY <1>2, ThreadStep
  <2> QED  BY <1>1, <1>2, <2>1, WireStep DEF UnsentInv
<1>3. CASE pc'[c] \in {"checkSent", "set"}
  <2>1. pc[c] \in {"check", "checkSent", "set"}
    BY <1>3, ThreadStep
  <2>2. /\ \A i \in 1 .. Len(requests) : requests[i].call = c => requests[i].method = "check"
        /\ \A i \in 1 .. Len(replies) : replies[i].to.call = c => replies[i].to.method = "check"
    BY <2>1 DEF UnsentInv
  <2>3. Send(c) => RequestOf(c).method = "check"
    BY <1>1, <1>3
  <2>4. ASSUME NEW i \in 1 .. Len(requests'), requests'[i].call = c
        PROVE  requests'[i].method = "check"
    BY <1>1, <2>2, <2>3, <2>4, WireStep
  <2>5. ASSUME NEW i \in 1 .. Len(replies'), replies'[i].to.call = c
        PROVE  replies'[i].to.method = "check"
    BY <2>2, <2>5, WireStep
  <2> QED  BY <1>3, <2>4, <2>5
<1>4. CASE pc'[c] \notin {"new", "lock", "check", "checkSent", "set"}
  BY <1>4
<1> QED  BY <1>2, <1>3, <1>4

\* A closed stamp stays closed.
LEMMA ClosedStable ==
  ASSUME TypeInv, [Next]_vars, NEW p \in Properties, NEW s \in Nat, Closed(p, s)
  PROVE  ClosedNext(p, s)
<1>1. opening[p] \in Nat /\ opening'[p] \in Nat /\ opening'[p] >= opening[p]
  BY TypeStep, OpeningStep DEF TypeInv, TypeOK
<1> QED  BY <1>1, OpeningStep DEF Closed, ClosedNext

\* What is granted, or answered to a set, is well typed.
LEMMA StampTyped ==
  ASSUME TypeInv
  PROVE  /\ \A r \in granted : r.prop \in Properties /\ r.stamp \in Nat
         /\ \A i \in 1 .. Len(replies) : replies[i].stamp \in Nat /\ replies[i].to \in Request
<1>1. \A r \in granted : r \in Reservation
  BY DEF TypeInv, TypeOK
<1>2. \A i \in 1 .. Len(replies) : replies[i] \in Reply
  BY DEF TypeInv, TypeOK
<1> QED  BY <1>1, <1>2 DEF Reservation, Reply

\* The reply that grants a reservation is a set reply about a known property.
LEMMA GrantedReply ==
  ASSUME TypeInv, NEW c \in Calls, Receive(c), pc[c] = "setSent", pc'[c] = "publish"
  PROVE  /\ 1 \in 1 .. Len(replies) /\ Head(replies) = replies[1]
         /\ replies[1].to.method = "set" /\ replies[1].to.prop = want[c]
         /\ want[c] \in Properties /\ replies[1].to = RequestOf(c)
<1>1. replies # <<>> /\ replies \in Seq(Reply)
  BY DEF Receive, TypeInv, TypeOK
<1>2. 1 \in 1 .. Len(replies) /\ Head(replies) = replies[1]
  BY <1>1
<1>3. Head(replies).to = RequestOf(c) /\ Head(replies).result # "notfound"
  BY DEF Receive, ReplyMatches, Finish, TypeInv, TypeOK
<1> QED  BY <1>2, <1>3, RequestTyped DEF TypeInv, ResultInv

LEMMA ClosedPreserved ==
  ASSUME TypeInv, reservations \subseteq granted, ClosedInv, [Next]_vars PROVE ClosedInv'
<1>1. ASSUME NEW r \in granted' PROVE ClosedNext(r.prop, r.stamp)
  <2>1. CASE r \in granted
    BY <2>1, StampTyped, ClosedStable DEF ClosedInv
  <2>2. CASE r \notin granted
    <3>1. PICK c \in Calls : /\ pc[c] = "setSent" /\ pc'[c] = "publish" /\ Receive(c)
                             /\ r = [call |-> c, prop |-> want[c], stamp |-> Head(replies).stamp]
      BY <1>1, <2>2, GrantStep
    <3>2. Closed(want[c], replies[1].stamp) /\ r.prop = want[c] /\ r.stamp = replies[1].stamp
      BY <3>1, GrantedReply DEF ClosedInv
    <3> QED  BY <3>1, <3>2, GrantedReply, StampTyped, ClosedStable
  <2> QED  BY <2>1, <2>2
<1>2. ASSUME NEW i \in 1 .. Len(replies'), replies'[i].to.method = "set",
             replies'[i].to.prop \in Properties
      PROVE  ClosedNext(replies'[i].to.prop, replies'[i].stamp)
  <2>1. CASE \E j \in 1 .. Len(replies) : replies'[i] = replies[j]
    BY <1>2, <2>1, StampTyped, ClosedStable DEF ClosedInv
  <2>2. CASE ~ \E j \in 1 .. Len(replies) : replies'[i] = replies[j]
    <3> DEFINE q == requests[1]
    <3>1. /\ ServeRequest /\ 1 \in 1 .. Len(requests) /\ replies'[i].to = q
          /\ replies'[i].stamp = opening[q.prop]
      BY <1>2, <2>2, WireStep
    <3>2. q = Head(requests) /\ q.prop \in Properties /\ q.method = "set"
      BY <1>2, <3>1 DEF TypeInv, TypeOK
    <3>3. available' = [available EXCEPT ![q.prop] = FALSE] /\ opening' = Openings(available')
      BY <3>1, <3>2 DEF ServeRequest, Serve, SetAvailable
    <3>4. available'[q.prop] = FALSE /\ opening'[q.prop] = opening[q.prop] /\ opening[q.prop] \in Nat
      BY <3>2, <3>3 DEF Openings, TypeInv, TypeOK
    <3> QED  BY <3>1, <3>4 DEF ClosedNext
  <2> QED  BY <2>1, <2>2
<1> QED  BY <1>1, <1>2 DEF ClosedInv, Closed, ClosedNext

\* Only the holder of _book_lock can spoil the freshness of a property.
LEMMA FreshStable ==
  ASSUME TypeInv, reservations \subseteq granted, LockInv, ClosedInv, [Next]_vars,
         NEW c \in Calls, pc[c] \in Locked, pc'[c] \in Locked
  PROVE  /\ granted' = granted
         /\ Fresh(want[c]) => FreshNext(want[c])
         /\ want'[c] = want[c]
<1>1. granted' = granted
  <2>1. ASSUME NEW d \in Calls, pc[d] = "setSent", pc'[d] = "publish" PROVE FALSE
    BY <2>1, BookingAssumption DEF LockInv, Locked, Waiting
  <2> QED  BY <2>1, GrantStep
<1>2. ASSUME Fresh(want[c]), NEW r \in granted, r.prop = want[c] PROVE r.stamp # opening'[want[c]]
  <2>1. /\ want[c] \in Properties /\ r.stamp \in Nat /\ r.stamp <= opening[want[c]]
        /\ r.stamp # opening[want[c]]
    BY <1>2, StampTyped DEF Fresh, ClosedInv, Closed
  <2>2. opening[want[c]] \in Nat /\ opening'[want[c]] \in Nat /\ opening'[want[c]] >= opening[want[c]]
    BY <2>1, OpeningStep, TypeStep DEF TypeInv, TypeOK
  <2> QED  BY <2>1, <2>2
<1>3. want'[c] = want[c]
  BY ThreadStep DEF Locked, Waiting
<1> QED  BY <1>1, <1>2, <1>3 DEF FreshNext

\* While it waits, a thread's request does not change.
LEMMA RequestStable ==
  ASSUME TypeInv, [Next]_vars, NEW c \in Calls, pc[c] = pc'[c], pc[c] \in Waiting
  PROVE  (RequestOf(c))' = RequestOf(c) /\ want'[c] = want[c]
<1>1. want'[c] = want[c]
  BY ThreadStep DEF Waiting
<1> QED  BY <1>1 DEF RequestOf

LEMMA FreshPreserved ==
  ASSUME TypeInv, reservations \subseteq granted, LockInv, UnsentInv, ClosedInv, FreshInv,
         [Next]_vars
  PROVE  FreshInv'
<1> SUFFICES ASSUME NEW c \in Calls
             PROVE  /\ pc'[c] \in {"set", "setSent"} => FreshNext(want'[c])
                    /\ \A i \in 1 .. Len(replies') :
                         /\ /\ pc'[c] = "checkSent" /\ replies'[i].to = RequestOf(c)'
                            /\ replies'[i].result = "yes"
                            => FreshNext(want'[c])
                         /\ pc'[c] = "setSent" /\ replies'[i].to = RequestOf(c)' =>
                              \A r \in granted' : r.prop = want'[c] => r.stamp # replies'[i].stamp
  BY DEF FreshInv, Fresh, FreshNext
<1>1. ASSUME pc'[c] \in {"set", "setSent"} PROVE FreshNext(want'[c])
  <2>1. CASE pc[c] \in {"set", "setSent"}
    BY <1>1, <2>1, FreshStable DEF FreshInv, Locked, Waiting
  <2>2. CASE pc[c] \notin {"set", "setSent"}
    <3>1. /\ pc[c] = "checkSent" /\ replies # <<>> /\ Head(replies).to = RequestOf(c)
          /\ Head(replies).result = "yes"
      BY <1>1, <2>2, ThreadStep
    <3>2. 1 \in 1 .. Len(replies) /\ Head(replies) = replies[1]
      BY <3>1 DEF TypeInv, TypeOK
    <3>3. Fresh(want[c])
      BY <3>1, <3>2 DEF FreshInv
    <3> QED  BY <1>1, <3>1, <3>3, FreshStable DEF Locked, Waiting
  <2> QED  BY <2>1, <2>2
<1>2. ASSUME NEW i \in 1 .. Len(replies'), pc'[c] = "checkSent", replies'[i].to = RequestOf(c)',
             replies'[i].result = "yes"
      PROVE  FreshNext(want'[c])
  <2>1. RequestOf(c)'.call = c
    BY DEF RequestOf
  <2>2. CASE pc[c] = "check"
    <3>1. replies' = replies
      BY <1>2, <2>2, ThreadStep DEF Send
    <3> QED  BY <1>2, <2>1, <2>2, <3>1 DEF UnsentInv
  <2>3. CASE pc[c] = "checkSent"
    <3>1. RequestOf(c)' = RequestOf(c) /\ want'[c] = want[c]
      BY <1>2, <2>3, RequestStable DEF Waiting
    <3>2. CASE \E j \in 1 .. Len(replies) : replies'[i] = replies[j]
      BY <1>2, <2>3, <3>1, <3>2, FreshStable DEF FreshInv, Locked, Waiting
    <3>3. CASE ~ \E j \in 1 .. Len(replies) : replies'[i] = replies[j]
      <4>1. /\ requests[1] = RequestOf(c) /\ ResultFor(requests[1]) = "yes"
        BY <1>2, <3>1, <3>3, WireStep
      <4>2. want[c] \in Properties /\ available[want[c]]
        BY <2>3, <4>1, RequestTyped DEF ResultFor, TypeInv
      <4>3. Fresh(want[c])
        BY <4>2 DEF Fresh, ClosedInv, Closed
      <4> QED  BY <1>2, <2>3, <4>3, FreshStable DEF Locked, Waiting
    <3> QED  BY <3>2, <3>3
  <2> QED  BY <1>2, <2>2, <2>3, ThreadStep
<1>3. ASSUME NEW i \in 1 .. Len(replies'), pc'[c] = "setSent", replies'[i].to = RequestOf(c)',
             NEW r \in granted', r.prop = want'[c]
      PROVE  r.stamp # replies'[i].stamp
  <2>1. RequestOf(c)'.call = c /\ RequestOf(c)'.method = "set"
    BY <1>3 DEF RequestOf
  <2>2. CASE pc[c] = "set"
    <3>1. Send(c) /\ replies' = replies
      BY <1>3, <2>2, ThreadStep DEF Send
    <3> QED  BY <1>3, <2>1, <2>2, <3>1 DEF UnsentInv
  <2>3. CASE pc[c] = "setSent"
    <3>1. RequestOf(c)' = RequestOf(c) /\ want'[c] = want[c] /\ granted' = granted
      BY <1>3, <2>3, RequestStable, FreshStable DEF Locked, Waiting
    <3>2. CASE \E j \in 1 .. Len(replies) : replies'[i] = replies[j]
      BY <1>3, <2>3, <3>1, <3>2 DEF FreshInv
    <3>3. CASE ~ \E j \in 1 .. Len(replies) : replies'[i] = replies[j]
      <4>1. requests[1] = RequestOf(c) /\ (requests[1].prop \in Properties =>
                                             replies'[i].stamp = opening[requests[1].prop])
        BY <1>3, <3>1, <3>3, WireStep
      <4>2. want[c] \in Properties /\ requests[1].prop = want[c]
        BY <1>3, <3>1, <4>1, StampTyped, RequestTyped DEF TypeInv
      <4> QED  BY <1>3, <2>3, <3>1, <4>1, <4>2 DEF FreshInv, Fresh
    <3> QED  BY <3>2, <3>3
  <2> QED  BY <1>3, <2>2, <2>3, ThreadStep
<1> QED  BY <1>1, <1>2, <1>3

LEMMA DoublePreserved ==
  ASSUME TypeInv, reservations \subseteq granted, FreshInv, NoDoubleBooking, [Next]_vars
  PROVE  NoDoubleBooking'
<1>1. CASE granted' = granted
  BY <1>1 DEF NoDoubleBooking
<1>2. CASE granted' # granted
  <2>1. PICK c \in Calls :
          /\ pc[c] = "setSent" /\ pc'[c] = "publish" /\ Receive(c)
          /\ granted' = granted \cup {[call |-> c, prop |-> want[c], stamp |-> Head(replies).stamp]}
    BY <1>2, GrantStep
  <2>2. \A r \in granted : r.prop = want[c] => r.stamp # Head(replies).stamp
    BY <2>1, GrantedReply DEF FreshInv
  <2> QED  BY <2>1, <2>2 DEF NoDoubleBooking
<1> QED  BY <1>1, <1>2

-----------------------------------------------------------------------------
(* Theorems                                                                 *)

\* The inductive invariant holds at the start, and every step preserves it.
LEMMA IInvInit == Init => IInv
<1> SUFFICES ASSUME Init PROVE IInv
  OBVIOUS
<1>1. TypeOK
  BY BookingAssumption DEF Init, TypeOK, Steps, Ids, Answers
<1>2. replies = <<>> /\ requests = <<>> /\ Len(<<>>) = 0
  BY DEF Init
<1> QED  BY <1>1, <1>2 DEF Init, IInv, TypeInv, ResultInv, LockInv, UnsentInv, ClosedInv,
            FreshInv, NoDoubleBooking, Locked, Waiting

LEMMA IInvStep == IInv /\ [Next]_vars => IInv'
  BY TypeStep, GrantStep, LockPreserved, UnsentPreserved, ClosedPreserved, FreshPreserved,
     DoublePreserved DEF IInv

\* The inductive invariant holds of every reachable state.
THEOREM InductiveInvariant == Spec => []IInv
  BY IInvInit, IInvStep, PTL DEF Spec

\* The variables of the two nodes and of the wire keep their types.
THEOREM TypeCorrect == Spec => []TypeOK
<1>1. IInv => TypeOK
  BY DEF IInv, TypeInv
<1> QED  BY <1>1, InductiveInvariant, PTL

\* _book_lock and the assertion on correlation_id make the check and the set of
\* book() atomic: one opening of a property is granted at most once, whatever
\* times out, crashes, restarts or is reopened by a host.
THEOREM BookingIsExclusive == Spec => []NoDoubleBooking
<1>1. IInv => NoDoubleBooking
  BY DEF IInv
<1> QED  BY <1>1, InductiveInvariant, PTL

-----------------------------------------------------------------------------
(* More about the reachable states                                          *)

\* Nothing is granted to a call before it is past the lock, and it is granted
\* something from then on; until it ends it is not answered.
AnswerInv ==
  \A c \in Calls :
    /\ pc[c] # "done" => answer[c] = "none"
    /\ pc[c] \in {"new", "lock"} \cup Locked => \A r \in granted : r.call # c
    /\ pc[c] \in {"publish", "multicast"} =>
         \E r \in granted : r.call = c /\ r.prop = want[c]

\* A request is sent once, served once and answered once.
OnceInv ==
  /\ \A i, j \in 1 .. Len(requests) : requests[i] = requests[j] => i = j
  /\ \A i, j \in 1 .. Len(replies) : replies[i].to = replies[j].to => i = j
  /\ \A i \in 1 .. Len(requests), j \in 1 .. Len(replies) : requests[i] # replies[j].to

\* What a reply can say to which request.
ReplyInv ==
  \A i \in 1 .. Len(replies) :
    /\ replies[i].result = "notfound" <=> replies[i].to.prop \notin Properties
    /\ replies[i].result = "no" => replies[i].to.method = "check"

\* As long as nobody opens rooms, what was taken stays closed.
UndisturbedInv ==
  crashes = 0 /\ hostCalls = 0 =>
    /\ up
    /\ \A r \in granted : ~available[r.prop]
    /\ \A i \in 1 .. Len(replies) :
         replies[i].to.method = "set" /\ replies[i].to.prop \in Properties
           => ~available[replies[i].to.prop]

\* Request q is the one its call waits to be answered.
Expects(q) == pc[q.call] \in Waiting /\ q = RequestOf(q.call)

\* A set on its way is that of a call which waits for its reply, or which gave up.
Sourced(q) ==
  q.method = "set" =>
    (pc[q.call] = "setSent" /\ want[q.call] = q.prop) \/ GaveUpOn(q.call, q.prop)

SourceInv ==
  /\ \A i \in 1 .. Len(requests) : Sourced(requests[i])
  /\ \A q \in orphans : q.method = "set" => GaveUpOn(q.call, q.prop)

\* The reply call c waits for, if it is there, was sent in the present opening.
Current(c) ==
  \A i \in 1 .. Len(replies) :
    replies[i].to = RequestOf(c) => replies[i].stamp = opening[want[c]]

\* HeldHasReason, with calls that will book the present opening.
Reason(p) ==
  \/ available[p]
  \/ \E r \in granted : r.prop = p /\ r.stamp = opening[p]
  \/ \E c \in Calls : (pc[c] = "setSent" /\ want[c] = p /\ Current(c)) \/ GaveUpOn(c, p)

HeldInv == hostCalls = 0 => \A p \in Listed : Reason(p)

GuestInv ==
  /\ IInv /\ AnswerInv /\ AnswerTruth /\ OnceInv /\ ReplyInv
  /\ UndisturbedInv /\ SourceInv /\ HeldInv

-----------------------------------------------------------------------------
(* Answers                                                                  *)

\* What Finish does to the call that ends and to the others.
LEMMA FinishStep ==
  ASSUME TypeOK, NEW c \in Calls, NEW a, Finish(c, a)
  PROVE  /\ pc'[c] = "done" /\ answer'[c] = a
         /\ \A d \in Calls : d # c => pc'[d] = pc[d] /\ answer'[d] = answer[d]
  BY DEF Finish, TypeOK

\* A step of Receive: a wrong or unwelcome reply ends the call, the others
\* take it on.
LEMMA ReceiveStep ==
  ASSUME TypeInv, ReplyInv, NEW c \in Calls, Receive(c)
  PROVE  LET r == replies[1] IN
         /\ 1 \in 1 .. Len(replies) /\ replies' = Tail(replies)
         /\ pc[c] \in Waiting /\ UNCHANGED <<want, link, requests, orphans, propVars, bounds>>
         /\ \/ /\ r.to # RequestOf(c) /\ Finish(c, "mismatch")
               /\ UNCHANGED <<reservations, granted>>
            \/ /\ r.to = RequestOf(c) /\ r.result = "notfound" /\ Finish(c, "notfound")
               /\ UNCHANGED <<reservations, granted>>
            \/ /\ r.to = RequestOf(c) /\ r.result = "no" /\ pc[c] = "checkSent"
               /\ Finish(c, "rejected") /\ UNCHANGED <<reservations, granted>>
            \/ /\ r.to = RequestOf(c) /\ r.result = "yes" /\ pc[c] = "checkSent"
               /\ pc' = [pc EXCEPT ![c] = "set"] /\ UNCHANGED <<answer, nodeVars>>
            \/ /\ r.to = RequestOf(c) /\ r.result = "yes" /\ pc[c] = "setSent"
               /\ reservations' = reservations \cup
                    {[call |-> c, prop |-> want[c], stamp |-> r.stamp]}
               /\ granted' = granted \cup reservations'
               /\ pc' = [pc EXCEPT ![c] = "publish"]
               /\ bookLock' = Unlocked(c) /\ UNCHANGED answer
            \/ /\ r.to = RequestOf(c) /\ r.result = "yes" /\ pc[c] = "setSent"
               /\ Finish(c, "error") /\ UNCHANGED <<reservations, granted>>
<1>1. replies # <<>> /\ replies \in Seq(Reply)
  BY DEF Receive, TypeInv, TypeOK
<1>2. 1 \in 1 .. Len(replies) /\ Head(replies) = replies[1]
  BY <1>1
<1>3. replies[1] \in Reply
  BY <1>1, <1>2
<1>4. /\ replies[1].result \in {"yes", "no", "notfound"}
      /\ replies[1].result = "no" => replies[1].to.method = "check"
  BY <1>2, <1>3 DEF ReplyInv, Reply
<1>5. pc[c] = "setSent" => RequestOf(c).method = "set"
  BY DEF RequestOf
<1> QED  BY <1>2, <1>4, <1>5 DEF Receive, ReplyMatches, Refuses, Record, Waiting

LEMMA AnswerPreserved ==
  ASSUME IInv, AnswerInv, AnswerTruth, ReplyInv, [Next]_vars
  PROVE  AnswerInv' /\ AnswerTruth'
<1> DEFINE Good(c) ==
      /\ pc'[c] # "done" => answer'[c] = "none"
      /\ pc'[c] \in {"new", "lock"} \cup Locked => \A r \in granted' : r.call # c
      /\ pc'[c] \in {"publish", "multicast"} =>
           \E r \in granted' : r.call = c /\ r.prop = want'[c]
      /\ answer'[c] \in {"accepted", "notify_failed"} => \E r \in granted' : r.call = c /\ r.prop = want'[c]
      /\ answer'[c] \in {"rejected", "notfound", "timeout", "mismatch", "error"} =>
           \A r \in granted' : r.call # c
<1> SUFFICES ASSUME NEW c \in Calls PROVE Good(c)
  BY DEF AnswerInv, AnswerTruth
<1>0. /\ TypeInv /\ TypeOK
      /\ pc[c] # "done" => answer[c] = "none"
      /\ pc[c] \in {"new", "lock"} \cup Locked => \A r \in granted : r.call # c
      /\ pc[c] \in {"publish", "multicast"} =>
           \E r \in granted : r.call = c /\ r.prop = want[c]
      /\ answer[c] \in {"accepted", "notify_failed"} => \E r \in granted : r.call = c /\ r.prop = want[c]
      /\ answer[c] \in {"rejected", "notfound", "timeout", "mismatch", "error"} =>
           \A r \in granted : r.call # c
  BY DEF IInv, TypeInv, AnswerInv, AnswerTruth
<1> USE DEF Locked, Waiting
<1>1. ASSUME NEW d \in Calls, NEW p \in Ids, Book(d, p) PROVE Good(c)
  <2>1. granted' = granted /\ answer' = answer /\ pc[d] = "new" /\ pc' = [pc EXCEPT ![d] = "lock"]
        /\ want' = [want EXCEPT ![d] = p]
    BY <1>1 DEF Book, nodeVars
  <2> QED  BY <1>0, <2>1 DEF TypeOK
<1>2. ASSUME NEW d \in Calls, Acquire(d) \/ Send(d) PROVE Good(c)
  <2>1. /\ granted' = granted /\ answer' = answer /\ want' = want
        /\ pc[d] \in {"lock", "check", "set"}
        /\ \E s \in Locked : pc' = [pc EXCEPT ![d] = s]
    BY <1>2 DEF Acquire, Send, nodeVars
  <2> QED  BY <1>0, <2>1 DEF TypeOK
<1>3. ASSUME NEW d \in Calls, SendFails(d) \/ LinkLost(d) \/ Timeout(d) PROVE Good(c)
  <2>1. /\ granted' = granted /\ want' = want /\ pc[d] \in Locked
        /\ Finish(d, "disconnected") \/ Finish(d, "timeout")
    BY <1>3 DEF SendFails, LinkLost, Timeout
  <2> QED  BY <1>0, <2>1, FinishStep
<1>4. ASSUME NEW d \in Calls, Receive(d) PROVE Good(c)
  <2>1. pc[d] \in Waiting /\ want' = want
    BY <1>0, <1>4, ReceiveStep
  <2>2. CASE \E a \in {"mismatch", "notfound", "rejected", "error"} : Finish(d, a) /\ granted' = granted
    BY <1>0, <2>1, <2>2, FinishStep
  <2>3. CASE pc' = [pc EXCEPT ![d] = "set"] /\ granted' = granted /\ answer' = answer
    BY <1>0, <2>1, <2>3 DEF TypeOK
  <2>4. CASE /\ reservations' = reservations \cup
                   {[call |-> d, prop |-> want[d], stamp |-> replies[1].stamp]}
             /\ granted' = granted \cup reservations'
             /\ pc' = [pc EXCEPT ![d] = "publish"] /\ answer' = answer
    <3>1. granted' = granted \cup {[call |-> d, prop |-> want[d], stamp |-> replies[1].stamp]}
      BY <2>4 DEF IInv
    <3> HIDE DEF Good
    <3>2. CASE c = d
      <4> DEFINE g == [call |-> d, prop |-> want[d], stamp |-> replies[1].stamp]
      <4>1. g \in granted' /\ g.call = c /\ g.prop = want'[c]
        BY <2>1, <3>1, <3>2
      <4>2. pc'[c] = "publish" /\ answer'[c] = "none"
        BY <1>0, <2>1, <2>4, <3>2 DEF TypeOK
      <4> QED  BY <4>1, <4>2 DEF Good
    <3>3. CASE c # d
      BY <1>0, <2>1, <2>4, <3>1, <3>3 DEF TypeOK, Good
    <3> QED  BY <3>2, <3>3
  <2> QED  BY <1>0, <1>4, <2>2, <2>3, <2>4, ReceiveStep DEF nodeVars
<1>5. ASSUME NEW d \in Calls, Notify(d) PROVE Good(c)
  <2>1. granted' = granted /\ want' = want /\ pc[d] \in {"publish", "multicast"}
    BY <1>5 DEF Notify
  <2>2. CASE Finish(d, "notify_failed")
    BY <1>0, <2>1, <2>2, FinishStep
  <2>3. CASE /\ pc' = [pc EXCEPT ![d] = IF pc[d] = "publish" THEN "multicast" ELSE "done"]
             /\ answer' = [answer EXCEPT ![d] = IF pc[d] = "publish" THEN @ ELSE "accepted"]
    BY <1>0, <2>1, <2>3 DEF TypeOK
  <2> QED  BY <1>5, <2>2, <2>3 DEF Notify
<1>6. CASE \/ ServeRequest \/ ServeOrphan \/ PropertyCrash \/ PropertyRestart \/ UNCHANGED vars
           \/ \E p \in Properties, v \in BOOLEAN : HostSet(p, v)
  <2>1. UNCHANGED <<pc, want, answer, granted>>
    BY <1>6 DEF ServeRequest, ServeOrphan, Serve, PropertyCrash, PropertyRestart, HostSet, vars,
                callVars, nodeVars
  <2> QED  BY <1>0, <2>1
<1>7. CASE ReservationRestart
  BY <1>0, <1>7 DEF ReservationRestart
<1> QED  BY <1>1, <1>2, <1>3, <1>4, <1>5, <1>6, <1>7 DEF Next, Thread

-----------------------------------------------------------------------------
(* The wire                                                                 *)

\* The entries of a sequence after its first is taken, and after one is added.
LEMMA TailEntries ==
  ASSUME NEW S, NEW s \in Seq(S), s # <<>>
  PROVE  /\ Tail(s) \in Seq(S) /\ Len(Tail(s)) = Len(s) - 1 /\ 1 \in 1 .. Len(s) /\ Head(s) = s[1]
         /\ \A i \in 1 .. Len(Tail(s)) : i + 1 \in 2 .. Len(s) /\ Tail(s)[i] = s[i + 1]
  OBVIOUS

LEMMA AppendEntries ==
  ASSUME NEW S, NEW s \in Seq(S), NEW e \in S
  PROVE  /\ Append(s, e) \in Seq(S) /\ Len(Append(s, e)) = Len(s) + 1
         /\ \A i \in 1 .. Len(Append(s, e)) :
              \/ i \in 1 .. Len(s) /\ Append(s, e)[i] = s[i]
              \/ i = Len(s) + 1 /\ Append(s, e)[i] = e
  OBVIOUS

\* PropertyNode takes the oldest request and its reply is the last.
LEMMA ServeStep ==
  ASSUME TypeInv, ServeRequest
  PROVE  LET q == requests[1] IN
         /\ 1 \in 1 .. Len(requests) /\ requests # <<>> /\ q \in Request
         /\ requests' = Tail(requests) /\ Serve(q) /\ UNCHANGED <<link, orphans>>
         /\ \E a \in Reply :
              /\ a.to = q /\ a.result = ResultFor(q)
              /\ q.prop \in Properties => a.stamp = opening[q.prop]
              /\ replies' = Append(replies, a)
<1> DEFINE q == Head(requests)
           s == IF q.prop \in Properties THEN opening[q.prop] ELSE 0
           a == [to |-> q, result |-> ResultFor(q), stamp |-> s]
<1>1. requests # <<>> /\ requests \in Seq(Request)
  BY DEF ServeRequest, TypeInv, TypeOK
<1>2. q = requests[1] /\ 1 \in 1 .. Len(requests) /\ q \in Request
  BY <1>1
<1>3. s \in Nat /\ ResultFor(q) \in {"yes", "no", "notfound"}
  BY DEF TypeInv, TypeOK, ResultFor
<1>4. a \in Reply
  BY <1>2, <1>3 DEF Reply
<1>5. /\ Serve(q) /\ replies' = Append(replies, a) /\ requests' = Tail(requests)
      /\ UNCHANGED <<link, orphans>>
  BY DEF ServeRequest
<1>6. a.to = q /\ a.result = ResultFor(q) /\ (q.prop \in Properties => a.stamp = opening[q.prop])
  OBVIOUS
<1> HIDE DEF a, q, s
<1> QED  BY <1>1, <1>2, <1>4, <1>5, <1>6

\* The ways in which a step changes the wire.
LEMMA WireShape ==
  ASSUME TypeInv, [Next]_vars
  PROVE  \/ requests' = requests /\ replies' = replies
         \/ \E c \in Calls : Send(c)
         \/ \E c \in Calls : Receive(c)
         \/ ServeRequest
         \/ requests' = <<>> /\ replies' \in {replies, <<>>}
<1>1. ASSUME \/ \E c \in Calls : \/ Acquire(c) \/ SendFails(c) \/ LinkLost(c)
                                 \/ Notify(c) \/ Timeout(c) \/ \E p \in Ids : Book(c, p)
             \/ ServeOrphan \/ PropertyRestart \/ UNCHANGED vars
             \/ \E p \in Properties, v \in BOOLEAN : HostSet(p, v)
      PROVE  requests' = requests /\ replies' = replies
  BY <1>1 DEF Book, Acquire, SendFails, LinkLost, Notify, Timeout, ServeOrphan, HostSet,
              PropertyRestart, vars, linkVars
<1>2. ASSUME PropertyCrash \/ ReservationRestart
      PROVE  requests' = <<>> /\ replies' \in {replies, <<>>}
  BY <1>2 DEF PropertyCrash, ReservationRestart
<1> QED  BY <1>1, <1>2 DEF Next, Thread

\* A thread about to send has nothing like it on the wire.
LEMMA SendNew ==
  ASSUME TypeInv, UnsentInv, NEW c \in Calls, Send(c)
  PROVE  /\ pc[c] \in {"check", "set"} /\ replies' = replies
         /\ requests' = requests \/ requests' = Append(requests, RequestOf(c))
         /\ \A i \in 1 .. Len(requests) : requests[i] # RequestOf(c)
         /\ \A i \in 1 .. Len(replies) : replies[i].to # RequestOf(c)
  BY RequestTyped DEF Send, UnsentInv, TypeInv

LEMMA OncePreserved ==
  ASSUME TypeInv, UnsentInv, OnceInv, [Next]_vars
  PROVE  OnceInv'
<1> USE DEF OnceInv
<1>0. requests \in Seq(Request) /\ replies \in Seq(Reply)
  BY DEF TypeInv, TypeOK
<1>1. CASE requests' = requests /\ replies' = replies
  BY <1>1
<1>2. ASSUME NEW c \in Calls, Send(c) PROVE OnceInv'
  <2>1. RequestOf(c) \in Request
    BY RequestTyped DEF TypeInv
  <2>2. CASE requests' = requests
    BY <1>2, <2>2, SendNew
  <2>3. CASE requests' = Append(requests, RequestOf(c))
    <3>1. \A i \in 1 .. Len(requests') : \/ i \in 1 .. Len(requests) /\ requests'[i] = requests[i]
                                         \/ i = Len(requests) + 1 /\ requests'[i] = RequestOf(c)
      BY <1>0, <2>1, <2>3, AppendEntries
    <3> QED  BY <1>2, <3>1, SendNew
  <2> QED  BY <1>2, <2>2, <2>3, SendNew
<1>3. ASSUME NEW c \in Calls, Receive(c) PROVE OnceInv'
  <2>1. replies # <<>> /\ replies' = Tail(replies) /\ requests' = requests
    BY <1>3 DEF Receive
  <2>2. \A i \in 1 .. Len(replies') : i + 1 \in 1 .. Len(replies) /\ replies'[i] = replies[i + 1]
    BY <1>0, <2>1, TailEntries
  <2> QED  BY <2>1, <2>2
<1>4. CASE ServeRequest
  <2> DEFINE q == requests[1]
  <2>1. /\ 1 \in 1 .. Len(requests) /\ requests # <<>> /\ requests' = Tail(requests)
        /\ \E a \in Reply : a.to = q /\ replies' = Append(replies, a)
    BY <1>4, ServeStep
  <2>2. \A i \in 1 .. Len(requests') : i + 1 \in 2 .. Len(requests) /\ requests'[i] = requests[i + 1]
    BY <1>0, <2>1, TailEntries
  <2>3. \A i \in 1 .. Len(replies') : \/ i \in 1 .. Len(replies) /\ replies'[i] = replies[i]
                                      \/ i = Len(replies) + 1 /\ replies'[i].to = q
    BY <1>0, <2>1, AppendEntries
  <2>4. \A i \in 1 .. Len(requests') : requests'[i] # q
    BY <2>1, <2>2
  <2> HIDE DEF q
  <2>5. \A i, j \in 1 .. Len(requests') : requests'[i] = requests'[j] => i = j
    BY <2>2
  <2>6. \A i, j \in 1 .. Len(replies') : replies'[i].to = replies'[j].to => i = j
    BY <2>1, <2>3 DEF q
  <2>7. \A i \in 1 .. Len(requests'), j \in 1 .. Len(replies') : requests'[i] # replies'[j].to
    BY <2>2, <2>3, <2>4
  <2> QED  BY <2>5, <2>6, <2>7
<1>5. CASE requests' = <<>> /\ replies' \in {replies, <<>>}
  BY <1>5
<1> QED  BY <1>1, <1>2, <1>3, <1>4, <1>5, WireShape

LEMMA ReplyPreserved ==
  ASSUME TypeInv, ReplyInv, [Next]_vars
  PROVE  ReplyInv'
<1> SUFFICES ASSUME NEW i \in 1 .. Len(replies')
             PROVE  /\ replies'[i].result = "notfound" <=> replies'[i].to.prop \notin Properties
                    /\ replies'[i].result = "no" => replies'[i].to.method = "check"
  BY DEF ReplyInv
<1>1. CASE \E j \in 1 .. Len(replies) : replies'[i] = replies[j]
  BY <1>1 DEF ReplyInv
<1>2. CASE /\ replies'[i].to = requests[1]
           /\ replies'[i].result = ResultFor(requests[1])
  BY <1>2 DEF ResultFor
<1> QED  BY <1>1, <1>2, WireStep

-----------------------------------------------------------------------------
(* Rooms stay closed while nobody opens them                                *)

\* Only a host, or the file read by a new PropertyNode, makes a room available.
LEMMA StaysClosed ==
  ASSUME TypeInv, [Next]_vars, up, crashes' = 0, hostCalls' = 0, NEW p \in Properties
  PROVE  ~available[p] => ~available'[p]
<1> USE DEF TypeInv, TypeOK
<1>1. CASE ServeRequest \/ ServeOrphan
  <2>1. \E q \in Request : Serve(q)
    BY <1>1, ServeStep DEF ServeOrphan
  <2> QED  BY <2>1 DEF Serve, SetAvailable
<1>2. CASE \E q \in Properties, v \in BOOLEAN : HostSet(q, v)
  <2>1. hostCalls' = hostCalls + 1
    BY <1>2 DEF HostSet
  <2> QED  BY <2>1
<1>3. CASE PropertyRestart
  BY <1>3 DEF PropertyRestart
<1>4. CASE \/ \E c \in Calls : Thread(c) \/ Timeout(c) \/ \E q \in Ids : Book(c, q)
           \/ PropertyCrash \/ ReservationRestart \/ UNCHANGED vars
  BY <1>4 DEF Thread, Book, Acquire, Send, SendFails, Receive, LinkLost, Notify, Timeout,
              PropertyCrash, ReservationRestart, vars, propVars
<1> QED  BY <1>1, <1>2, <1>3, <1>4 DEF Next

\* The bounds count: none of them goes down, and PropertyNode dies only by a crash.
LEMMA BoundsStep ==
  ASSUME TypeInv, [Next]_vars
  PROVE  /\ crashes' = 0 => crashes = 0 /\ (up => up')
         /\ hostCalls' = 0 => hostCalls = 0
<1> USE DEF TypeInv, TypeOK
<1>1. ASSUME NEW c \in Calls, Timeout(c)
      PROVE  timeouts' # 0 /\ UNCHANGED <<crashes, restarts, hostCalls, up>>
  BY <1>1 DEF Timeout, propVars
<1>2. ASSUME \E p \in Properties, v \in BOOLEAN : HostSet(p, v)
      PROVE  hostCalls' # 0 /\ UNCHANGED <<timeouts, crashes, restarts, up>>
  BY <1>2 DEF HostSet
<1>3. ASSUME PropertyCrash
      PROVE  crashes' # 0 /\ UNCHANGED <<timeouts, restarts, hostCalls>>
  BY <1>3 DEF PropertyCrash
<1>4. ASSUME ReservationRestart
      PROVE  restarts' # 0 /\ UNCHANGED <<timeouts, crashes, hostCalls, up>>
  BY <1>4 DEF ReservationRestart, propVars
<1>5. ASSUME \/ \E c \in Calls : Thread(c) \/ \E p \in Ids : Book(c, p)
             \/ ServeRequest \/ ServeOrphan \/ PropertyRestart \/ UNCHANGED vars
      PROVE  UNCHANGED bounds /\ (up => up')
  BY <1>5 DEF Thread, Book, Acquire, Send, SendFails, Receive, LinkLost, Notify, ServeRequest,
              ServeOrphan, Serve, PropertyRestart, vars, propVars
<1> QED  BY <1>1, <1>2, <1>3, <1>4, <1>5 DEF Next, bounds

LEMMA UndisturbedPreserved ==
  ASSUME IInv, UndisturbedInv, [Next]_vars
  PROVE  UndisturbedInv'
<1> SUFFICES ASSUME crashes' = 0, hostCalls' = 0
             PROVE  /\ up'
                    /\ \A r \in granted' : ~available'[r.prop]
                    /\ \A i \in 1 .. Len(replies') :
                         replies'[i].to.method = "set" /\ replies'[i].to.prop \in Properties
                           => ~available'[replies'[i].to.prop]
  BY DEF UndisturbedInv
<1>0. TypeInv /\ reservations \subseteq granted
  BY DEF IInv
<1>1. /\ up /\ up' /\ \A r \in granted : ~available[r.prop]
      /\ \A i \in 1 .. Len(replies) :
           replies[i].to.method = "set" /\ replies[i].to.prop \in Properties
             => ~available[replies[i].to.prop]
  BY <1>0, BoundsStep DEF UndisturbedInv
<1>2. \A p \in Properties : ~available[p] => ~available'[p]
  BY <1>0, <1>1, StaysClosed
<1>3. ASSUME NEW r \in granted' PROVE ~available'[r.prop]
  <2>1. CASE r \in granted
    BY <1>0, <1>1, <1>2, <2>1, StampTyped
  <2>2. CASE r \notin granted
    <3>1. PICK c \in Calls : /\ pc[c] = "setSent" /\ pc'[c] = "publish" /\ Receive(c)
                             /\ r = [call |-> c, prop |-> want[c], stamp |-> Head(replies).stamp]
      BY <1>0, <1>3, <2>2, GrantStep
    <3>2. /\ 1 \in 1 .. Len(replies) /\ replies[1].to.method = "set"
          /\ replies[1].to.prop = want[c] /\ want[c] \in Properties
      BY <1>0, <3>1, GrantedReply
    <3> QED  BY <1>1, <1>2, <3>1, <3>2
  <2> QED  BY <2>1, <2>2
<1>4. ASSUME NEW i \in 1 .. Len(replies'), replies'[i].to.method = "set",
             replies'[i].to.prop \in Properties
      PROVE  ~available'[replies'[i].to.prop]
  <2>1. CASE \E j \in 1 .. Len(replies) : replies'[i] = replies[j]
    BY <1>1, <1>2, <1>4, <2>1
  <2>2. CASE ServeRequest /\ replies'[i].to = requests[1]
    <3>1. Serve(requests[1])
      BY <1>0, <2>2, ServeStep
    <3> QED  BY <1>0, <1>4, <2>2, <3>1 DEF Serve, SetAvailable, TypeInv, TypeOK
  <2> QED  BY <1>0, <2>1, <2>2, WireStep
<1> QED  BY <1>1, <1>3, <1>4

-----------------------------------------------------------------------------
(* Rooms that are held                                                      *)

\* Only the holder of _book_lock waits for an answer.
LEMMA WaitingAlone ==
  ASSUME LockInv, NEW c \in Calls, NEW d \in Calls, pc[c] \in Locked, pc[d] \in Locked
  PROVE  c = d
  BY DEF LockInv

\* Expects after the step.
ExpectsNext(q) ==
  /\ pc'[q.call] \in Waiting
  /\ q = [call |-> q.call, prop |-> want'[q.call],
          method |-> IF pc'[q.call] \in {"check", "checkSent"} THEN "check" ELSE "set"]

\* GaveUpOn after the step.
GaveUpNext(c, p) ==
  want'[c] = p /\ answer'[c] \in {"timeout", "disconnected", "mismatch", "error"}

\* A call leaves the place where its set is on its way with its guest told of an
\* error, or because it has read the reply.
LEMMA SetEnds ==
  ASSUME TypeInv, ReplyInv, [Next]_vars, NEW c \in Calls, pc[c] = "setSent"
  PROVE  /\ want'[c] = want[c]
         /\ \/ pc'[c] = "setSent"
            \/ GaveUpNext(c, want[c])
            \/ /\ 1 \in 1 .. Len(replies) /\ replies[1].to = RequestOf(c)
               /\ \/ want[c] \notin Properties
                  \/ granted' = granted \cup reservations'
                     /\ [call |-> c, prop |-> want[c], stamp |-> replies[1].stamp] \in reservations'
<1>0. TypeOK
  BY DEF TypeInv
<1>1. want'[c] = want[c]
  BY ThreadStep
<1>2. ASSUME NEW d \in Calls, Receive(d)
      PROVE  \/ pc'[c] = "setSent" \/ answer'[c] \in {"mismatch", "error"}
             \/ /\ 1 \in 1 .. Len(replies) /\ replies[1].to = RequestOf(c)
                /\ \/ want[c] \notin Properties
                   \/ granted' = granted \cup reservations'
                      /\ [call |-> c, prop |-> want[c], stamp |-> replies[1].stamp] \in reservations'
  <2>1. CASE \E a \in {"mismatch", "error", "rejected", "notfound"} : Finish(d, a) /\ d # c
    BY <1>0, <2>1, FinishStep
  <2>2. CASE \E a \in {"mismatch", "error"} : Finish(c, a)
    BY <1>0, <2>2, FinishStep
  <2>3. CASE d # c /\ \E s \in {"set", "publish"} : pc' = [pc EXCEPT ![d] = s]
    BY <1>0, <2>3 DEF TypeOK
  <2>4. CASE c = d /\ replies[1].to = RequestOf(c) /\ replies[1].result = "notfound"
    <3>1. RequestOf(c).prop = want[c]
      BY DEF RequestOf
    <3>2. 1 \in 1 .. Len(replies)
      BY <1>2, ReceiveStep
    <3> QED  BY <2>4, <3>1, <3>2 DEF ReplyInv
  <2>5. CASE /\ c = d /\ replies[1].to = RequestOf(c) /\ granted' = granted \cup reservations'
             /\ reservations' = reservations \cup
                    {[call |-> c, prop |-> want[c], stamp |-> replies[1].stamp]}
    BY <1>2, <2>5, ReceiveStep
  <2> QED  BY <1>2, <2>1, <2>2, <2>3, <2>4, <2>5, ReceiveStep
<1>3. ASSUME NEW d \in Calls, SendFails(d) \/ LinkLost(d) \/ Timeout(d)
      PROVE  pc'[c] = "setSent" \/ answer'[c] \in {"timeout", "disconnected"}
  BY <1>0, <1>3, FinishStep DEF SendFails, LinkLost, Timeout
<1>4. ASSUME NEW d \in Calls,
             (\E p \in Ids : Book(d, p)) \/ Acquire(d) \/ Send(d) \/ Notify(d)
      PROVE  pc'[c] = "setSent"
  BY <1>0, <1>4 DEF Book, Acquire, Send, Notify, Finish, TypeOK
<1>5. CASE ReservationRestart
  <2>1. answer'[c] = "disconnected"
    BY <1>5 DEF ReservationRestart
  <2> QED  BY <1>1, <2>1 DEF GaveUpOn, GaveUpNext
<1>6. CASE \/ ServeRequest \/ ServeOrphan \/ PropertyCrash \/ PropertyRestart \/ UNCHANGED vars
           \/ \E p \in Properties, v \in BOOLEAN : HostSet(p, v)
  BY <1>1, <1>6 DEF ServeRequest, ServeOrphan, Serve, PropertyCrash, PropertyRestart, HostSet, vars,
                    callVars
<1> QED  BY <1>1, <1>2, <1>3, <1>4, <1>5, <1>6 DEF Next, Thread, GaveUpNext

\* What a guest was told stays.
LEMMA GaveUpStays ==
  ASSUME TypeInv, AnswerInv, [Next]_vars, NEW c \in Calls, NEW p, GaveUpOn(c, p)
  PROVE  GaveUpNext(c, p)
<1>0. TypeOK /\ pc[c] = "done"
  BY DEF TypeInv, AnswerInv, GaveUpOn
<1>1. want'[c] = want[c]
  BY <1>0, ThreadStep
<1>2. ASSUME NEW d \in Calls, d # c, Thread(d) \/ Timeout(d) \/ \E q \in Ids : Book(d, q)
      PROVE  answer'[c] = answer[c]
  BY <1>0, <1>2 DEF Thread, Book, Acquire, Send, SendFails, Receive, LinkLost, Notify, Timeout,
                    Finish, TypeOK
<1>3. ~Thread(c) /\ ~Timeout(c) /\ ~ \E q \in Ids : Book(c, q)
  BY <1>0 DEF Thread, Book, Acquire, Send, SendFails, Receive, LinkLost, Notify, Timeout, Waiting
<1>4. ASSUME ReservationRestart PROVE answer'[c] = answer[c]
  BY <1>0, <1>4 DEF ReservationRestart
<1>5. ASSUME \/ ServeRequest \/ ServeOrphan \/ PropertyCrash \/ PropertyRestart \/ UNCHANGED vars
             \/ \E q \in Properties, v \in BOOLEAN : HostSet(q, v)
      PROVE  answer'[c] = answer[c]
  BY <1>5 DEF ServeRequest, ServeOrphan, Serve, PropertyCrash, PropertyRestart, HostSet, vars,
              callVars
<1>6. answer'[c] = answer[c]
  BY <1>2, <1>3, <1>4, <1>5 DEF Next
<1> QED  BY <1>1, <1>6 DEF GaveUpOn, GaveUpNext

\* Orphans are left by a restart, which every waiting call's guest is told of.
LEMMA OrphansStep ==
  ASSUME TypeInv, [Next]_vars
  PROVE  \/ orphans' \subseteq orphans
         \/ /\ ReservationRestart
            /\ orphans' = orphans \cup {requests[i] : i \in 1 .. Len(requests)}
<1>1. ASSUME NEW c \in Calls, Thread(c) \/ Timeout(c) \/ \E q \in Ids : Book(c, q)
      PROVE  orphans' = orphans
  BY <1>1 DEF Thread, Book, Acquire, Send, SendFails, Receive, LinkLost, Notify, Timeout, linkVars
<1>2. CASE \/ ServeRequest \/ ServeOrphan \/ PropertyCrash \/ PropertyRestart \/ UNCHANGED vars
           \/ \E q \in Properties, v \in BOOLEAN : HostSet(q, v)
  BY <1>2 DEF ServeRequest, ServeOrphan, PropertyCrash, PropertyRestart, HostSet, vars, linkVars
<1>3. CASE ReservationRestart
  BY <1>3 DEF ReservationRestart
<1> QED  BY <1>1, <1>2, <1>3 DEF Next

LEMMA SourcePreserved ==
  ASSUME TypeInv, AnswerInv, OnceInv, ReplyInv, SourceInv, [Next]_vars
  PROVE  SourceInv'
<1>0. /\ TypeOK /\ \A i \in 1 .. Len(requests) : requests[i] \in Request
      /\ \A q \in Request : q.call \in Calls
  <2>1. TypeOK /\ requests \in Seq(Request)
    BY DEF TypeInv, TypeOK
  <2>2. \A i \in 1 .. Len(requests) : requests[i] \in Request
    BY <2>1
  <2>3. \A q \in Request : q.call \in Calls
    BY DEF Request
  <2> QED  BY <2>1, <2>2, <2>3
<1>1. ASSUME NEW j \in 1 .. Len(requests), requests[j].method = "set"
      PROVE  \/ pc'[requests[j].call] = "setSent" /\ want'[requests[j].call] = requests[j].prop
             \/ GaveUpNext(requests[j].call, requests[j].prop)
             \/ requests[j] = replies[1].to /\ 1 \in 1 .. Len(replies)
  <2> DEFINE q == requests[j]
             c == q.call
  <2>1. c \in Calls /\ q \in Request
    BY <1>0
  <2>2. CASE GaveUpOn(c, q.prop)
    BY <2>1, <2>2, GaveUpStays DEF GaveUpOn, GaveUpNext
  <2>3. CASE pc[c] = "setSent" /\ want[c] = q.prop
    <3>1. q = RequestOf(c)
      BY <1>1, <2>1, <2>3 DEF Request, RequestOf
    <3>2. \/ want'[c] = q.prop /\ (pc'[c] = "setSent" \/ GaveUpNext(c, want[c]))
          \/ q = replies[1].to /\ 1 \in 1 .. Len(replies)
      BY <2>1, <2>3, <3>1, SetEnds
    <3> QED  BY <2>3, <3>2 DEF GaveUpOn, GaveUpNext
  <2> QED  BY <1>1, <2>2, <2>3 DEF SourceInv, Sourced
<1>2. ASSUME NEW i \in 1 .. Len(requests'), requests'[i].method = "set"
      PROVE  \/ pc'[requests'[i].call] = "setSent" /\ want'[requests'[i].call] = requests'[i].prop
             \/ /\ want'[requests'[i].call] = requests'[i].prop
                /\ answer'[requests'[i].call] \in {"timeout", "disconnected", "mismatch", "error"}
  <2>1. CASE \E j \in 1 .. Len(requests) : requests'[i] = requests[j]
    <3>1. PICK j \in 1 .. Len(requests) : requests'[i] = requests[j]
      BY <2>1
    <3>2. ~(requests[j] = replies[1].to /\ 1 \in 1 .. Len(replies))
      BY DEF OnceInv
    <3> QED  BY <1>1, <1>2, <3>1, <3>2 DEF GaveUpOn, GaveUpNext
  <2>2. CASE \E c \in Calls : Send(c) /\ requests'[i] = RequestOf(c)
    <3>1. PICK c \in Calls : Send(c) /\ requests'[i] = RequestOf(c)
      BY <2>2
    <3>2. /\ requests'[i].call = c /\ requests'[i].prop = want[c]
          /\ requests'[i].method = IF pc[c] = "check" THEN "check" ELSE "set"
      BY <1>0, <3>1, RequestTyped DEF Send
    <3>3. pc'[c] = "setSent" /\ want'[c] = want[c]
      BY <1>0, <1>2, <3>1, <3>2 DEF Send, TypeOK
    <3> QED  BY <3>2, <3>3
  <2> QED  BY <2>1, <2>2, WireStep
<1>3. ASSUME NEW q \in orphans', q.method = "set" PROVE GaveUpNext(q.call, q.prop)
  <2>1. CASE q \in orphans
    <3>1. q.call \in Calls /\ GaveUpOn(q.call, q.prop)
      BY <1>0, <1>3, <2>1 DEF SourceInv, TypeOK
    <3> QED  BY <3>1, GaveUpStays
  <2>2. CASE q \notin orphans
    <3>1. ReservationRestart /\ \E j \in 1 .. Len(requests) : q = requests[j]
      BY <1>3, <2>2, OrphansStep
    <3>2. q.call \in Calls /\ Sourced(q)
      BY <1>0, <3>1 DEF SourceInv
    <3>3. CASE GaveUpOn(q.call, q.prop)
      BY <3>2, <3>3, GaveUpStays
    <3>4. CASE pc[q.call] = "setSent" /\ want[q.call] = q.prop
      BY <3>1, <3>2, <3>4 DEF ReservationRestart, GaveUpNext
    <3> QED  BY <1>3, <3>2, <3>3, <3>4 DEF Sourced
  <2> QED  BY <2>1, <2>2
<1> QED  BY <1>2, <1>3 DEF SourceInv, Sourced, GaveUpOn, GaveUpNext

\* Only a set that is served, or a host, makes a room unavailable.
LEMMA WhoCloses ==
  ASSUME TypeInv, [Next]_vars, hostCalls' = 0, NEW p \in Listed, available[p], ~available'[p]
  PROVE  \/ ServeRequest /\ requests[1].method = "set" /\ requests[1].prop = p
         \/ \E q \in orphans : q.method = "set" /\ q.prop = p
<1>0. TypeOK /\ p \in Properties
  BY BookingAssumption DEF TypeInv
<1>1. ASSUME NEW q \in Request, Serve(q) PROVE q.method = "set" /\ q.prop = p
  BY <1>0, <1>1 DEF Serve, SetAvailable, TypeOK
<1>2. CASE ServeRequest
  BY <1>1, <1>2, ServeStep
<1>3. CASE ServeOrphan
  BY <1>0, <1>1, <1>3 DEF ServeOrphan, TypeOK
<1>4. CASE \E q \in Properties, v \in BOOLEAN : HostSet(q, v)
  <2>1. hostCalls' = hostCalls + 1 /\ hostCalls \in Nat
    BY <1>0, <1>4 DEF HostSet, TypeOK
  <2> QED  BY <2>1
<1>5. CASE PropertyRestart
  BY <1>0, <1>5 DEF PropertyRestart
<1>6. CASE \/ \E c \in Calls : Thread(c) \/ Timeout(c) \/ \E q \in Ids : Book(c, q)
           \/ PropertyCrash \/ ReservationRestart \/ UNCHANGED vars
  BY <1>6 DEF Thread, Book, Acquire, Send, SendFails, Receive, LinkLost, Notify, Timeout,
              PropertyCrash, ReservationRestart, vars, propVars
<1> QED  BY <1>2, <1>3, <1>4, <1>5, <1>6 DEF Next

\* A room that is opened is available then.
LEMMA OpenedIsAvailable ==
  ASSUME TypeInv, [Next]_vars, NEW p \in Properties, ~available'[p]
  PROVE  opening'[p] = opening[p]
<1>1. CASE \/ ServeRequest \/ ServeOrphan \/ PropertyRestart
           \/ \E q \in Properties, v \in BOOLEAN : HostSet(q, v)
  <2>1. opening' = Openings(available') /\ opening[p] \in Nat
    BY <1>1 DEF ServeRequest, ServeOrphan, Serve, PropertyRestart, HostSet, TypeInv, TypeOK
  <2>2. opening'[p] = opening[p] + 0
    BY <2>1 DEF Openings
  <2> QED  BY <2>1, <2>2
<1>2. CASE \/ \E c \in Calls : Thread(c) \/ Timeout(c) \/ \E q \in Ids : Book(c, q)
           \/ PropertyCrash \/ ReservationRestart \/ UNCHANGED vars
  BY <1>2 DEF Thread, Book, Acquire, Send, SendFails, Receive, LinkLost, Notify, Timeout,
              PropertyCrash, ReservationRestart, vars, propVars
<1> QED  BY <1>1, <1>2 DEF Next

\* While its call waits, the reply to a set is of the present opening if the room
\* has stayed unavailable.
LEMMA CurrentStays ==
  ASSUME TypeInv, [Next]_vars, NEW c \in Calls, pc[c] = "setSent", pc'[c] = "setSent",
         Current(c), opening'[want[c]] = opening[want[c]], want[c] \in Properties
  PROVE  (Current(c))'
<1>1. RequestOf(c)' = RequestOf(c) /\ want'[c] = want[c] /\ RequestOf(c).prop = want[c]
  BY RequestStable DEF Waiting, RequestOf
<1>2. ASSUME NEW i \in 1 .. Len(replies'), replies'[i].to = RequestOf(c)
      PROVE  replies'[i].stamp = opening'[want[c]]
  <2>1. CASE \E j \in 1 .. Len(replies) : replies'[i] = replies[j]
    BY <1>2, <2>1 DEF Current
  <2>2. CASE ~ \E j \in 1 .. Len(replies) : replies'[i] = replies[j]
    BY <1>1, <1>2, <2>2, WireStep
  <2> QED  BY <2>1, <2>2
<1> QED  BY <1>1, <1>2 DEF Current

\* A room that was closed keeps a reason to be; one that is closed now has one.
LEMMA HeldPreserved ==
  ASSUME IInv, AnswerInv, OnceInv, ReplyInv, SourceInv, HeldInv, [Next]_vars
  PROVE  HeldInv'
<1> SUFFICES ASSUME hostCalls' = 0, NEW p \in Listed, ~available'[p] PROVE (Reason(p))'
  BY DEF HeldInv, Reason
<1>0. TypeInv /\ TypeOK /\ p \in Properties /\ reservations \subseteq granted
  BY BookingAssumption DEF IInv, TypeInv
<1>1. opening'[p] = opening[p] /\ opening[p] \in Nat /\ Reason(p)
  BY <1>0, OpenedIsAvailable, BoundsStep DEF HeldInv, TypeOK
<1>2. ASSUME NEW c \in Calls, GaveUpOn(c, p) PROVE (Reason(p))'
  BY <1>0, <1>2, GaveUpStays DEF Reason, GaveUpOn, GaveUpNext
<1>3. ASSUME NEW c \in Calls, pc'[c] = "setSent", want'[c] = p, (Current(c))' PROVE (Reason(p))'
  BY <1>3 DEF Reason
<1>4. CASE available[p]
  <2>1. CASE \E q \in orphans : q.method = "set" /\ q.prop = p
    <3>1. PICK q \in orphans : q.method = "set" /\ q.prop = p
      BY <2>1
    <3>2. q.call \in Calls /\ GaveUpOn(q.call, p)
      BY <1>0, <3>1 DEF SourceInv, TypeOK, Request
    <3> QED  BY <1>2, <3>2
  <2>2. CASE ServeRequest /\ requests[1].method = "set" /\ requests[1].prop = p
    <3> DEFINE q == requests[1]
               c == q.call
    <3>1. 1 \in 1 .. Len(requests) /\ q \in Request /\ Serve(q) /\ c \in Calls
      BY <1>0, <2>2, ServeStep DEF Request
    <3>2. CASE GaveUpOn(c, p)
      BY <1>2, <3>1, <3>2
    <3>3. CASE pc[c] = "setSent" /\ want[c] = p
      <4>1. q = RequestOf(c)
        BY <2>2, <3>1, <3>3 DEF Request, RequestOf
      <4>2. \A i \in 1 .. Len(replies) : replies[i].to # RequestOf(c)
        BY <3>1, <4>1 DEF OnceInv
      <4>3. Current(c)
        BY <4>2 DEF Current
      <4>4. pc'[c] = "setSent" /\ want'[c] = p
        BY <3>1, <3>3 DEF Serve, callVars
      <4> HIDE DEF c
      <4> QED  BY <1>0, <1>1, <1>3, <3>1, <3>3, <4>3, <4>4, CurrentStays
    <3> QED  BY <2>2, <3>1, <3>2, <3>3 DEF SourceInv, Sourced
  <2> QED  BY <1>0, <1>4, <2>1, <2>2, WhoCloses
<1>5. ASSUME NEW r \in granted, r.prop = p, r.stamp = opening[p] PROVE (Reason(p))'
  <2>1. r \in granted'
    BY <1>0, GrantStep
  <2> QED  BY <1>1, <1>5, <2>1 DEF Reason
<1>6. ASSUME NEW c \in Calls, pc[c] = "setSent", want[c] = p, Current(c) PROVE (Reason(p))'
  <2>1. CASE pc'[c] = "setSent"
    BY <1>0, <1>1, <1>3, <1>6, <2>1, CurrentStays, SetEnds
  <2>2. CASE GaveUpNext(c, p)
    BY <2>2 DEF Reason, GaveUpOn, GaveUpNext
  <2>3. CASE /\ 1 \in 1 .. Len(replies) /\ replies[1].to = RequestOf(c)
             /\ granted' = granted \cup reservations'
             /\ [call |-> c, prop |-> p, stamp |-> replies[1].stamp] \in reservations'
    <3> DEFINE g == [call |-> c, prop |-> p, stamp |-> replies[1].stamp]
    <3>1. replies[1].stamp = opening[p]
      BY <1>6, <2>3 DEF Current
    <3>2. g \in granted' /\ g.prop = p /\ g.stamp = opening'[p]
      BY <1>1, <2>3, <3>1
    <3> HIDE DEF g
    <3> QED  BY <3>2 DEF Reason
  <2> QED  BY <1>0, <1>6, <2>1, <2>2, <2>3, SetEnds
<1> QED  BY <1>1, <1>2, <1>4, <1>5, <1>6 DEF Reason

-----------------------------------------------------------------------------
(* Theorems about the states                                                *)

\* What a guest may rely on is inductive together with IInv.
THEOREM GuestInvariant == Spec => []GuestInv
<1>1. Init => GuestInv
  <2> SUFFICES ASSUME Init PROVE GuestInv
    OBVIOUS
  <2>1. IInv
    BY IInvInit
  <2>2. replies = <<>> /\ requests = <<>> /\ Len(<<>>) = 0 /\ granted = {}
    BY DEF Init
  <2>3. /\ \A c \in Calls : pc[c] = "new" /\ answer[c] = "none"
        /\ \A p \in Listed : available[p]
    BY BookingAssumption DEF Init
  <2>4. up /\ orphans = {}
    BY DEF Init
  <2> QED  BY <2>1, <2>2, <2>3, <2>4 DEF GuestInv, AnswerInv, AnswerTruth, OnceInv, ReplyInv,
              UndisturbedInv, SourceInv, HeldInv, Reason
<1>2. GuestInv /\ [Next]_vars => GuestInv'
  BY IInvStep, AnswerPreserved, OncePreserved, ReplyPreserved, UndisturbedPreserved,
     SourcePreserved, HeldPreserved DEF GuestInv, IInv
<1> QED  BY <1>1, <1>2, PTL DEF Spec

\* A guest who is told "accepted" has a reservation for the room he asked for,
\* one who is refused, or whose booking failed before, has none: whatever
\* replies are late, lost or mistaken for another's.
THEOREM AnswersAreTrue == Spec => []AnswerTruth
<1>1. GuestInv => AnswerTruth
  BY DEF GuestInv
<1> QED  BY <1>1, GuestInvariant, PTL

\* Without a crash of PropertyNode or a host who opens it, a reserved room is
\* never offered again, though ReservationNode may restart and calls time out.
THEOREM ReservedStaysClosed == Spec => []ReservedIsUnavailable
<1>1. GuestInv => ReservedIsUnavailable
  BY DEF GuestInv, IInv, UndisturbedInv, ReservedIsUnavailable
<1> QED  BY <1>1, GuestInvariant, PTL

\* While no host interferes, a listed room that is unavailable was booked in its
\* present opening, or is about to be, or a call whose guest met an error set it:
\* whatever is late, lost or restarted, and also if the record cannot be computed.
THEOREM NothingHeldInVain == Spec => []HeldHasReason
<1>1. GuestInv => HeldHasReason
  BY DEF GuestInv, HeldInv, Reason, HeldHasReason
<1> QED  BY <1>1, GuestInvariant, PTL

-----------------------------------------------------------------------------
(* The decisions on the wire                                                *)

\* The decision that reply r is.
Verdict(r) ==
  [call |-> r.to.call, prop |-> r.to.prop, taken |-> r.to.method = "set", stamp |-> r.stamp]

\* What is decided, before and after a step.
LEMMA DecidedIs ==
  \A d : d \in Decided <=>
    \E i \in 1 .. Len(replies) :
      Expects(replies[i].to) /\ Decides(replies[i]) /\ d = Verdict(replies[i])
  BY DEF Decided, Awaited, Expects, Verdict

LEMMA DecidedNextIs ==
  \A d : d \in Decided' <=>
    \E i \in 1 .. Len(replies') :
      ExpectsNext(replies'[i].to) /\ Decides(replies'[i]) /\ d = Verdict(replies'[i])
  BY DEF Decided, Awaited, ExpectsNext, RequestOf, Decides, Verdict

\* A decision is that of the call in the lock, which waits for it.
LEMMA DecisionWaits ==
  ASSUME GuestInv, NEW d \in Decided
  PROVE  /\ d.call \in Calls /\ pc[d.call] \in Waiting
         /\ \A c \in Calls : pc[c] \in Locked => c = d.call
<1>1. PICK i \in 1 .. Len(replies) : Expects(replies[i].to) /\ d = Verdict(replies[i])
  BY DecidedIs
<1>2. replies[i].to \in Request /\ d.call = replies[i].to.call
  BY <1>1, StampTyped DEF GuestInv, IInv, Verdict
<1>3. d.call \in Calls /\ pc[d.call] \in Waiting
  BY <1>1, <1>2 DEF Expects, Request
<1> QED  BY <1>3, WaitingAlone DEF GuestInv, IInv, Locked

\* A call is decided at most once.
LEMMA DecidedOnce ==
  ASSUME GuestInv, NEW i \in 1 .. Len(replies), NEW j \in 1 .. Len(replies),
         Expects(replies[i].to), Expects(replies[j].to)
  PROVE  i = j
<1>1. /\ replies[i].to \in Request /\ replies[j].to \in Request
      /\ pc[replies[i].to.call] \in Waiting /\ pc[replies[j].to.call] \in Waiting
      /\ replies[i].to = RequestOf(replies[i].to.call)
      /\ replies[j].to = RequestOf(replies[j].to.call)
  BY StampTyped DEF GuestInv, IInv, Expects
<1>2. replies[i].to.call = replies[j].to.call
  BY <1>1, WaitingAlone DEF GuestInv, IInv, Locked, Request
<1> QED  BY <1>1, <1>2 DEF GuestInv, OnceInv

\* A step that keeps the replies and what calls wait for decides nothing.
LEMMA DecidedSame ==
  ASSUME GuestInv, replies' = replies,
         \A c \in Calls : pc[c] \in Waiting \/ pc'[c] \in Waiting =>
                            pc'[c] = pc[c] /\ want'[c] = want[c]
  PROVE  Decided' = Decided
<1>1. \A i \in 1 .. Len(replies) : replies[i].to \in Request
  BY StampTyped DEF GuestInv, IInv
<1>2. \A q \in Request : Expects(q) <=> ExpectsNext(q)
  BY DEF Expects, ExpectsNext, RequestOf, Request
<1>3. \A d : d \in Decided <=> d \in Decided'
  BY <1>1, <1>2, DecidedIs, DecidedNextIs
<1> QED  BY <1>3

\* When the call in the lock ends, or goes on, nothing is decided any more.
LEMMA DecidedNone ==
  ASSUME GuestInv, NEW c \in Calls, pc[c] \in Locked, pc'[c] \notin Waiting,
         \A d \in Calls : d # c => pc'[d] = pc[d],
         \A i \in 1 .. Len(replies') : \E j \in 1 .. Len(replies) : replies'[i] = replies[j]
  PROVE  Decided' = {} /\ \A d \in Decided : d.call = c
<1>1. \A d \in Calls : pc'[d] \notin Waiting
  BY WaitingAlone DEF GuestInv, IInv, Locked
<1>2. \A i \in 1 .. Len(replies') : replies'[i].to.call \in Calls
  BY StampTyped DEF GuestInv, IInv, Request
<1>3. \A i \in 1 .. Len(replies') : ~ExpectsNext(replies'[i].to)
  BY <1>1, <1>2 DEF ExpectsNext
<1>4. \A d : d \notin Decided'
  BY <1>3, DecidedNextIs
<1> QED  BY <1>4, DecisionWaits DEF GuestInv

-----------------------------------------------------------------------------
(* Calls that end                                                           *)

\* A guest is told nothing before the call ends.
LEMMA NotTold ==
  ASSUME GuestInv, NEW c \in Calls, pc[c] \notin {"new", "done"}
  PROVE  c \in Asked /\ Told[c] = "none"
  BY DEF GuestInv, AnswerInv, Asked, Told, Failures

\* A call that ends is told something, and takes its decision with it.
LEMMA EndTells ==
  ASSUME GuestInv, NEW c \in Calls, pc[c] \notin {"new", "done"}, NEW a \in Answers \ {"none"},
         Finish(c, a), UNCHANGED <<want, granted, available, opening>>,
         R!Truthful(c, IF a \in Failures \ {"notfound"} THEN "failed" ELSE a),
         Decided' = {d \in Decided : d.call # c}
  PROVE  R!Next
<1> DEFINE b == IF a \in Failures \ {"notfound"} THEN "failed" ELSE a
<1>1. /\ pc'[c] = "done" /\ answer'[c] = a
      /\ \A d \in Calls : d # c => pc'[d] = pc[d] /\ answer'[d] = answer[d]
  BY FinishStep DEF GuestInv, IInv, TypeInv
<1>2. Asked' = Asked
  BY <1>1 DEF Asked
<1>3. Told' = [Told EXCEPT ![c] = b]
  BY <1>1 DEF Told
<1>4. b \in {"accepted", "rejected", "notfound", "failed"}
  BY DEF Answers, Failures
<1>5. R!Tell(c, b)
  BY <1>2, <1>3, NotTold DEF R!Tell
<1> QED  BY <1>4, <1>5 DEF R!Next

\* A call that fails is told so.
LEMMA FailureTells ==
  ASSUME GuestInv, NEW c \in Calls, pc[c] \notin {"new", "done"},
         NEW a \in Failures \ {"notfound"}, Finish(c, a),
         UNCHANGED <<want, granted, available, opening>>,
         \A i \in 1 .. Len(replies') : \E j \in 1 .. Len(replies) : replies'[i] = replies[j],
         pc[c] \in Locked \/ replies' = replies
  PROVE  R!Next
<1>1. /\ pc'[c] = "done" /\ \A d \in Calls : d # c => pc'[d] = pc[d]
  BY FinishStep DEF GuestInv, IInv, TypeInv
<1>2. Decided' = {d \in Decided : d.call # c}
  <2>1. CASE pc[c] \in Locked
    BY <1>1, <2>1, DecidedNone DEF Waiting
  <2>2. CASE pc[c] \notin Locked
    <3>1. Decided' = Decided
      BY <1>1, <2>2, DecidedSame DEF Waiting, Locked
    <3> QED  BY <2>2, <3>1, DecisionWaits DEF Locked
  <2> QED  BY <2>1, <2>2
<1>3. a \in Answers \ {"none"}
  BY DEF Answers, Failures
<1>4. R!Truthful(c, "failed")
  BY DEF R!Truthful
<1> QED  BY <1>2, <1>3, <1>4, EndTells

-----------------------------------------------------------------------------
(* The actions                                                              *)

LEMMA BookAsks ==
  ASSUME GuestInv, NEW c \in Calls, NEW p \in Ids, Book(c, p)
  PROVE  R!Next
<1>1. /\ pc[c] = "new" /\ pc' = [pc EXCEPT ![c] = "lock"] /\ want' = [want EXCEPT ![c] = p]
      /\ UNCHANGED <<answer, granted, replies, available, opening>>
  BY DEF Book, nodeVars, linkVars, propVars
<1>2. pc'[c] = "lock" /\ \A d \in Calls : d # c => pc'[d] = pc[d] /\ want'[d] = want[d]
  BY <1>1 DEF GuestInv, IInv, TypeInv, TypeOK
<1>3. Decided' = Decided
  BY <1>1, <1>2, DecidedSame DEF Waiting
<1>4. c \notin Asked /\ Asked' = Asked \cup {c} /\ Told' = Told
  BY <1>1, <1>2 DEF Asked, Told
<1> QED  BY <1>1, <1>3, <1>4 DEF R!Next, R!Ask, Ids

LEMMA AcquireStutters ==
  ASSUME GuestInv, NEW c \in Calls, Acquire(c)
  PROVE  UNCHANGED R!vars
<1>1. /\ pc[c] = "lock" /\ pc' = [pc EXCEPT ![c] = "check"]
      /\ UNCHANGED <<want, answer, granted, replies, available, opening>>
  BY DEF Acquire, linkVars, propVars
<1>2. pc'[c] = "check" /\ \A d \in Calls : d # c => pc'[d] = pc[d]
  BY <1>1 DEF GuestInv, IInv, TypeInv, TypeOK
<1>3. Decided' = Decided
  BY <1>1, <1>2, DecidedSame DEF Waiting
<1>4. Asked' = Asked /\ Told' = Told
  BY <1>1, <1>2 DEF Asked, Told
<1> QED  BY <1>1, <1>3, <1>4 DEF R!vars, R!guests

LEMMA SendStutters ==
  ASSUME GuestInv, NEW c \in Calls, Send(c)
  PROVE  UNCHANGED R!vars
<1>0. TypeInv /\ TypeOK /\ UnsentInv
  BY DEF GuestInv, IInv, TypeInv
<1>1. /\ pc[c] \in {"check", "set"}
      /\ pc' = [pc EXCEPT ![c] = IF pc[c] = "check" THEN "checkSent" ELSE "setSent"]
      /\ UNCHANGED <<want, answer, granted, replies, available, opening>>
  BY DEF Send, nodeVars, propVars
<1>2. /\ pc'[c] = IF pc[c] = "check" THEN "checkSent" ELSE "setSent"
      /\ \A d \in Calls : d # c => pc'[d] = pc[d]
  BY <1>0, <1>1 DEF TypeOK
<1>3. \A i \in 1 .. Len(replies) : replies[i].to # RequestOf(c) /\ replies[i].to \in Request
  BY <1>0, SendNew, StampTyped
<1>4. \A q \in Request : ExpectsNext(q) /\ q # RequestOf(c) => Expects(q)
  BY <1>1, <1>2 DEF ExpectsNext, Expects, RequestOf, Waiting, Request
<1>5. \A d : d \notin Decided'
  <2>1. \A q \in Request : ~Expects(q)
    BY <1>1, WaitingAlone DEF Expects, Request, Locked, Waiting, GuestInv, IInv
  <2> QED  BY <1>1, <1>3, <1>4, <2>1, DecidedNextIs
<1>6. \A d : d \notin Decided
  BY <1>1, DecisionWaits DEF Locked, Waiting
<1>7. Decided' = Decided
  BY <1>5, <1>6
<1>8. Asked' = Asked /\ Told' = Told
  BY <1>1, <1>2 DEF Asked, Told
<1> QED  BY <1>1, <1>7, <1>8 DEF R!vars, R!guests

LEMMA ReceiveRefines ==
  ASSUME GuestInv, NEW c \in Calls, Receive(c)
  PROVE  R!Next \/ UNCHANGED R!vars
<1> DEFINE r == replies[1]
<1>0. TypeInv /\ TypeOK /\ ReplyInv /\ reservations \subseteq granted
  BY DEF GuestInv, IInv, TypeInv
<1>1. /\ 1 \in 1 .. Len(replies) /\ r \in Reply /\ r.to \in Request
      /\ pc[c] \in Waiting /\ UNCHANGED <<want, available, opening>>
  BY <1>0, ReceiveStep, StampTyped DEF propVars, TypeOK
<1>2. \A i \in 1 .. Len(replies') : \E j \in 1 .. Len(replies) : replies'[i] = replies[j]
  <2>1. replies # <<>> /\ replies' = Tail(replies) /\ replies \in Seq(Reply)
    BY <1>0 DEF Receive, TypeOK
  <2> QED  BY <2>1, TailEntries
<1>3. pc[c] \in Locked /\ pc[c] \notin {"new", "done"}
  BY <1>1 DEF Locked, Waiting
<1>4. r.to = RequestOf(c) => /\ Expects(r.to) /\ r.to.prop = want[c] /\ r.to.call = c
                             /\ r.to.method = IF pc[c] = "checkSent" THEN "check" ELSE "set"
  BY <1>0, <1>1, RequestTyped DEF Expects, Waiting
<1>5. CASE Finish(c, "mismatch") /\ UNCHANGED granted
  <2>1. "mismatch" \in Failures \ {"notfound"}
    BY DEF Failures
  <2> QED  BY <1>1, <1>2, <1>3, <1>5, <2>1, FailureTells
<1>6. ASSUME NEW a \in {"notfound", "rejected"}, Finish(c, a), UNCHANGED granted,
             R!Truthful(c, a)
      PROVE  R!Next
  <2>1. /\ pc'[c] = "done" /\ \A d \in Calls : d # c => pc'[d] = pc[d]
    BY <1>0, <1>6, FinishStep
  <2>2. Decided' = {d \in Decided : d.call # c}
    BY <1>2, <1>3, <2>1, DecidedNone DEF Waiting
  <2>3. a \in Answers \ {"none"} /\ (a \in Failures \ {"notfound"} => FALSE)
    BY DEF Answers, Failures
  <2> QED  BY <1>1, <1>3, <1>6, <2>2, <2>3, EndTells
<1>7. CASE r.to = RequestOf(c) /\ r.result = "notfound" /\ Finish(c, "notfound") /\ UNCHANGED granted
  <2>1. want[c] = Unknown
    BY <1>0, <1>1, <1>4, <1>7 DEF ReplyInv, TypeOK, Ids
  <2> QED  BY <1>6, <1>7, <2>1 DEF R!Truthful
<1>8. CASE /\ r.to = RequestOf(c) /\ r.result = "no" /\ pc[c] = "checkSent"
           /\ Finish(c, "rejected") /\ UNCHANGED granted
  <2>1. Verdict(r) \in Decided /\ Verdict(r).call = c /\ Verdict(r).taken = FALSE
    <3>1. Expects(r.to) /\ Decides(r) /\ r.to.call = c /\ r.to.method = "check"
      BY <1>4, <1>8 DEF Decides
    <3> QED  BY <1>1, <3>1, DecidedIs DEF Verdict
  <2> QED  BY <1>6, <1>8, <2>1 DEF R!Truthful
<1>9. CASE /\ r.to = RequestOf(c) /\ r.result = "yes" /\ pc[c] = "checkSent"
           /\ pc' = [pc EXCEPT ![c] = "set"] /\ UNCHANGED <<answer, nodeVars>>
  <2>1. pc'[c] = "set" /\ \A d \in Calls : d # c => pc'[d] = pc[d]
    BY <1>0, <1>9 DEF TypeOK
  <2>2. Decided' = {}
    BY <1>2, <1>3, <2>1, DecidedNone DEF Waiting
  <2>3. Decided = {}
    <3>1. ~Decides(r) /\ Expects(r.to)
      BY <1>4, <1>9 DEF Decides
    <3>2. ASSUME NEW i \in 1 .. Len(replies), Expects(replies[i].to) PROVE ~Decides(replies[i])
      BY <1>1, <3>1, <3>2, DecidedOnce
    <3>3. \A d : d \notin Decided
      BY <3>2, DecidedIs
    <3> QED  BY <3>3
  <2>4. Asked' = Asked /\ Told' = Told
    BY <1>3, <1>9, <2>1 DEF Asked, Told
  <2> QED  BY <1>1, <1>9, <2>2, <2>3, <2>4 DEF R!vars, R!guests, nodeVars
<1>10. CASE /\ r.to = RequestOf(c) /\ r.result = "yes" /\ pc[c] = "setSent"
            /\ reservations' = reservations \cup {[call |-> c, prop |-> want[c], stamp |-> r.stamp]}
            /\ granted' = granted \cup reservations'
            /\ pc' = [pc EXCEPT ![c] = "publish"] /\ UNCHANGED answer
  <2>1. pc'[c] = "publish" /\ \A d \in Calls : d # c => pc'[d] = pc[d]
    BY <1>0, <1>10 DEF TypeOK
  <2>2. Decided' = {}
    BY <1>2, <1>3, <2>1, DecidedNone DEF Waiting
  <2> DEFINE v == Verdict(r)
  <2>3. Expects(r.to) /\ Decides(r) /\ r.to.call = c /\ r.to.method = "set" /\ r.to.prop = want[c]
    BY <1>4, <1>10 DEF Decides
  <2>4. v \in Decided /\ v.call = c /\ v.taken = TRUE /\ v.prop = want[c] /\ v.stamp = r.stamp
    <3>1. v \in Decided
      BY <1>1, <2>3, DecidedIs
    <3>2. v.taken = (r.to.method = "set")
      BY DEF Verdict
    <3> QED  BY <2>3, <3>1, <3>2 DEF Verdict
  <2>5. Decided = {v}
    <3>1. ASSUME NEW i \in 1 .. Len(replies), Expects(replies[i].to) PROVE replies[i] = r
      BY <1>1, <2>3, <3>1, DecidedOnce
    <3>2. \A d : d \in Decided => d = v
      BY <3>1, DecidedIs
    <3> QED  BY <2>4, <3>2
  <2>6. Asked' = Asked /\ Told' = Told
    BY <1>3, <1>10, <2>1 DEF Asked, Told
  <2>7. granted' = granted \cup {[call |-> c, prop |-> v.prop, stamp |-> v.stamp]}
    BY <1>0, <1>10, <2>4
  <2> HIDE DEF v, r
  <2>8. R!Grant(c)
    BY <1>1, <2>2, <2>4, <2>5, <2>6, <2>7 DEF R!Grant, R!guests
  <2> QED  BY <2>8 DEF R!Next
<1>11. CASE Finish(c, "error") /\ UNCHANGED granted
  <2>1. "error" \in Failures \ {"notfound"}
    BY DEF Failures
  <2> QED  BY <1>1, <1>2, <1>3, <1>11, <2>1, FailureTells
<1> QED  BY <1>0, <1>5, <1>7, <1>8, <1>9, <1>10, <1>11, ReceiveStep

LEMMA NotifyRefines ==
  ASSUME GuestInv, NEW c \in Calls, Notify(c)
  PROVE  R!Next \/ UNCHANGED R!vars
<1>0. TypeInv /\ TypeOK
  BY DEF GuestInv, IInv, TypeInv
<1>1. /\ pc[c] \in {"publish", "multicast"}
      /\ UNCHANGED <<want, granted, replies, available, opening>>
  BY DEF Notify, linkVars, propVars
<1>2. Decided' = Decided /\ \A d \in Decided : d.call # c
  <2>1. pc'[c] \notin Waiting /\ \A d \in Calls : d # c => pc'[d] = pc[d]
    BY <1>0, <1>1 DEF Notify, Finish, TypeOK, Waiting
  <2>2. Decided' = Decided
    BY <1>1, <2>1, DecidedSame DEF Waiting
  <2> QED  BY <1>1, <2>2, DecisionWaits DEF Waiting
<1>3. CASE Finish(c, "notify_failed")
  <2>1. "notify_failed" \in Failures \ {"notfound"}
    BY DEF Failures
  <2> QED  BY <1>1, <1>3, <2>1, FailureTells
<1>4. CASE pc[c] = "publish" /\ pc' = [pc EXCEPT ![c] = "multicast"] /\ answer' = answer
  <2>1. Asked' = Asked /\ Told' = Told
    BY <1>0, <1>4 DEF Asked, Told, TypeOK
  <2> QED  BY <1>1, <1>2, <2>1 DEF R!vars, R!guests
<1>5. CASE /\ pc[c] = "multicast" /\ pc' = [pc EXCEPT ![c] = "done"]
           /\ answer' = [answer EXCEPT ![c] = "accepted"]
  <2>1. Asked' = Asked
    BY <1>0, <1>5 DEF Asked, TypeOK
  <2>2. Told' = [Told EXCEPT ![c] = "accepted"]
    BY <1>0, <1>5 DEF Told, TypeOK, Failures
  <2>3. \E g \in granted : g.call = c /\ g.prop = want[c]
    BY <1>5 DEF GuestInv, AnswerInv
  <2>4. R!Tell(c, "accepted")
    BY <1>1, <1>2, <1>5, <2>1, <2>2, <2>3, NotTold DEF R!Tell, R!Truthful
  <2> QED  BY <2>4 DEF R!Next
<1>6. answer' = [answer EXCEPT ![c] = answer[c]] => answer' = answer
  BY <1>0 DEF TypeOK
<1> QED  BY <1>3, <1>4, <1>5, <1>6 DEF Notify

\* Rooms are opened and closed; no guest notices.
LEMMA ChangeRefines ==
  ASSUME GuestInv, available' \in [Properties -> BOOLEAN], opening' = Openings(available'),
         UNCHANGED <<pc, want, answer, granted>>, Decided' = Decided
  PROVE  R!Next
<1>1. Asked' = Asked /\ Told' = Told
  BY DEF Asked, Told
<1>2. R!Change
  BY <1>1 DEF R!Change, R!guests, Openings
<1> QED  BY <1>2 DEF R!Next

\* Where no room is opened, no opening begins.
LEMMA SameOpening ==
  ASSUME TypeOK, opening' = Openings(available'), \A p \in Properties : available'[p] => available[p]
  PROVE  opening' = opening
<1>1. \A p \in Properties : opening[p] \in Nat /\ Openings(available')[p] = opening[p] + 0
  BY DEF Openings, TypeOK
<1>2. \A p \in Properties : Openings(available')[p] = opening[p]
  BY <1>1
<1>3. opening' = [p \in Properties |-> opening[p]]
  BY <1>2 DEF Openings
<1> QED  BY <1>3 DEF TypeOK

\* A new reply decides what its call waits for, or nothing.
LEMMA ServeRefines ==
  ASSUME GuestInv, ServeRequest
  PROVE  R!Next \/ UNCHANGED R!vars
<1> DEFINE q == requests[1]
<1>0. TypeInv /\ TypeOK
  BY DEF GuestInv, IInv, TypeInv
<1>1. /\ 1 \in 1 .. Len(requests) /\ q \in Request /\ Serve(q)
      /\ \E a \in Reply :
           /\ a.to = q /\ a.result = ResultFor(q)
           /\ q.prop \in Properties => a.stamp = opening[q.prop]
           /\ replies' = Append(replies, a)
  BY <1>0, ServeStep
<1>2. /\ UNCHANGED <<pc, want, answer, granted>> /\ opening' = Openings(available')
      /\ available' = IF q.method = "set" THEN SetAvailable(q.prop, FALSE) ELSE available
  BY <1>1 DEF Serve, callVars, nodeVars
<1>3. available' \in [Properties -> BOOLEAN]
  BY <1>0, <1>1, ServeTyped
<1>4. Asked' = Asked /\ Told' = Told
  BY <1>2 DEF Asked, Told
<1>5. PICK a \in Reply : /\ a.to = q /\ a.result = ResultFor(q)
                         /\ q.prop \in Properties => a.stamp = opening[q.prop]
                         /\ replies' = Append(replies, a)
  BY <1>1
<1>6. \A d : d \in Decided' <=> d \in Decided \/ (Expects(q) /\ Decides(a) /\ d = Verdict(a))
  <2>1. /\ Len(replies') = Len(replies) + 1 /\ Len(replies) \in Nat
        /\ \A i \in 1 .. Len(replies) : replies'[i] = replies[i]
        /\ replies'[Len(replies) + 1] = a
    BY <1>0, <1>5 DEF TypeOK
  <2>2. \A x : Expects(x) <=> ExpectsNext(x)
    BY <1>2 DEF Expects, ExpectsNext, RequestOf
  <2>3. \A i : i \in 1 .. Len(replies') <=> i \in 1 .. Len(replies) \/ i = Len(replies) + 1
    BY <2>1
  <2> HIDE DEF q
  <2> QED  BY <1>5, <2>1, <2>2, <2>3, DecidedIs, DecidedNextIs
<1>7. CASE ~(Expects(q) /\ Decides(a))
  <2>1. Decided' = Decided
    BY <1>6, <1>7
  <2> QED  BY <1>2, <1>3, <2>1, ChangeRefines
<1>8. CASE Expects(q) /\ Decides(a)
  <2> DEFINE c == q.call
  <2>1. c \in Calls /\ pc[c] \in Waiting /\ q = RequestOf(c) /\ q.prop = want[c]
    BY <1>0, <1>1, <1>8, RequestTyped DEF Expects, Request
  <2>2. want[c] \in Properties
    BY <1>5, <1>8, <2>1 DEF Decides, ResultFor
  <2>3. Decided = {}
    <3>1. ASSUME NEW i \in 1 .. Len(replies), Expects(replies[i].to) PROVE FALSE
      <4>1. replies[i].to \in Request /\ pc[replies[i].to.call] \in Waiting
            /\ replies[i].to = RequestOf(replies[i].to.call)
        BY <1>0, <3>1, StampTyped DEF Expects
      <4>2. replies[i].to.call = c
        BY <2>1, <4>1, WaitingAlone DEF GuestInv, IInv, Locked, Request
      <4> QED  BY <1>1, <2>1, <4>1, <4>2 DEF GuestInv, OnceInv
    <3>2. \A d : d \notin Decided
      BY <3>1, DecidedIs
    <3> QED  BY <3>2
  <2>4. R!Undecided(c)
    <3>1. c \in Asked /\ Told[c] = "none"
      BY <2>1, NotTold DEF Waiting
    <3>2. \A g \in granted : g.call # c
      BY <2>1 DEF GuestInv, AnswerInv, Locked
    <3> QED  BY <2>2, <2>3, <3>1, <3>2 DEF R!Undecided
  <2>5. Decided' = {Verdict(a)}
    BY <1>6, <1>8, <2>3
  <2>6. /\ Verdict(a).call = c /\ Verdict(a).prop = want[c] /\ Verdict(a).stamp = opening[want[c]]
        /\ Verdict(a) = [call |-> c, prop |-> want[c], taken |-> q.method = "set",
                         stamp |-> opening[want[c]]]
    BY <1>5, <2>1, <2>2 DEF Verdict
  <2>7. CASE q.method = "check"
    <3>0. ~available[want[c]]
      <4>1. a.result = "no" /\ a.result = ResultFor(q)
        BY <1>5, <1>8, <2>7 DEF Decides
      <4> QED  BY <2>1, <2>2, <4>1 DEF ResultFor
    <3>1. ~available[want[c]] /\ available' = available
      BY <1>2, <2>7, <3>0
    <3> HIDE DEF c, q
    <3>2. opening' = opening
      BY <1>0, <1>2, <3>1, SameOpening
    <3>3. Decided' = Decided \cup {R!Decision(c, FALSE)}
      BY <2>3, <2>5, <2>6, <2>7 DEF R!Decision
    <3> HIDE DEF c, q
    <3>4. R!Refuse(c)
      BY <1>2, <1>4, <2>4, <3>1, <3>2, <3>3 DEF R!Refuse, R!guests
    <3> QED  BY <2>1, <3>4 DEF R!Next
  <2>8. CASE q.method = "set"
    <3>1. available' = [available EXCEPT ![want[c]] = FALSE]
      BY <1>2, <2>1, <2>2, <2>8 DEF SetAvailable
    <3>2. opening' = opening
      <4> HIDE DEF c, q
      <4>1. \A p \in Properties : available'[p] => available[p]
        BY <1>0, <2>2, <3>1 DEF TypeOK
      <4> QED  BY <1>0, <1>2, <4>1, SameOpening
    <3>3. Decided' = Decided \cup {R!Decision(c, TRUE)}
      BY <2>3, <2>5, <2>6, <2>8 DEF R!Decision
    <3>4. \A g \in granted : g.prop # want[c] \/ g.stamp # opening[want[c]]
      <4>1. pc[c] = "setSent"
        BY <2>1, <2>8 DEF RequestOf, Waiting
      <4>2. Fresh(want[c])
        BY <2>1, <4>1 DEF GuestInv, IInv, FreshInv
      <4> QED  BY <4>2 DEF Fresh
    <3> HIDE DEF c, q
    <3>5. R!Take(c)
      BY <1>2, <1>4, <2>3, <2>4, <3>1, <3>2, <3>3, <3>4 DEF R!Take, R!guests
    <3> QED  BY <2>1, <3>5 DEF R!Next
  <2> QED  BY <1>1, <2>7, <2>8 DEF Request, Methods
<1> QED  BY <1>7, <1>8

LEMMA OthersRefine ==
  ASSUME GuestInv,
         ServeOrphan \/ PropertyRestart \/ \E p \in Properties, v \in BOOLEAN : HostSet(p, v)
  PROVE  R!Next
<1>0. TypeOK
  BY DEF GuestInv, IInv, TypeInv
<1>1. opening' = Openings(available')
  BY DEF ServeOrphan, Serve, PropertyRestart, HostSet
<1>2. UNCHANGED <<pc, want, answer, granted, replies>>
  BY DEF ServeOrphan, Serve, PropertyRestart, HostSet, callVars, nodeVars, linkVars
<1>3. available' \in [Properties -> BOOLEAN]
  <2>1. ASSUME NEW q \in orphans, Serve(q) PROVE available' \in [Properties -> BOOLEAN]
    BY <1>0, <2>1, ServeTyped DEF TypeOK
  <2>2. ASSUME NEW p \in Properties, NEW v \in BOOLEAN, HostSet(p, v)
        PROVE  available' \in [Properties -> BOOLEAN]
    BY <1>0, <2>2, SetAvailableTyped DEF HostSet, Ids
  <2>3. CASE PropertyRestart
    BY <2>3 DEF PropertyRestart
  <2> QED  BY <2>1, <2>2, <2>3 DEF ServeOrphan
<1>4. Decided' = Decided
  BY <1>2, DecidedSame
<1> QED  BY <1>1, <1>2, <1>3, <1>4, ChangeRefines

\* A crash may take replies with it, and with them what was decided.
LEMMA CrashFails ==
  ASSUME GuestInv, PropertyCrash
  PROVE  R!Next
<1>1. /\ UNCHANGED <<pc, want, answer, granted, available, opening>>
      /\ replies' = replies \/ replies' = <<>>
  BY DEF PropertyCrash, callVars, nodeVars
<1>2. Asked' = Asked /\ Told' = Told
  BY <1>1 DEF Asked, Told
<1>3. Decided' \subseteq Decided
  <2>1. CASE replies' = replies
    BY <1>1, <2>1, DecidedSame
  <2>2. CASE replies' = <<>>
    BY <2>2, DecidedNextIs
  <2> QED  BY <1>1, <2>1, <2>2
<1>4. \A d \in Decided : Told[d.call] = "none"
  BY DecisionWaits, NotTold DEF Waiting
<1>5. R!Fail
  BY <1>1, <1>2, <1>3, <1>4 DEF R!Fail
<1> QED  BY <1>5 DEF R!Next

\* When ReservationNode dies, the guests it was serving learn that it failed.
LEMMA RestartFails ==
  ASSUME GuestInv, ReservationRestart
  PROVE  R!Next
<1>1. /\ UNCHANGED <<want, granted, available, opening>> /\ replies' = <<>>
  BY DEF ReservationRestart, propVars
<1>2. /\ pc' = [c \in Calls |-> IF pc[c] \notin {"new", "done"} THEN "done" ELSE pc[c]]
      /\ answer' = [c \in Calls |-> IF pc[c] \notin {"new", "done"} THEN "disconnected" ELSE answer[c]]
  BY DEF ReservationRestart
<1>3. Asked' = Asked
  BY <1>2 DEF Asked
<1>4. \A c \in Calls : \/ Told'[c] = Told[c]
                       \/ c \in Asked /\ Told[c] = "none" /\ Told'[c] = "failed"
  <2> SUFFICES ASSUME NEW c \in Calls
               PROVE  \/ Told'[c] = Told[c]
                      \/ c \in Asked /\ Told[c] = "none" /\ Told'[c] = "failed"
    OBVIOUS
  <2>1. CASE pc[c] \in {"new", "done"}
    BY <1>2, <2>1 DEF Told
  <2>2. CASE pc[c] \notin {"new", "done"}
    BY <1>2, <2>2, NotTold DEF Told, Failures
  <2> QED  BY <2>1, <2>2
<1>5. Decided' = {}
  <2>1. \A d : d \notin Decided'
    BY <1>1, DecidedNextIs
  <2> QED  BY <2>1
<1>6. R!Fail
  BY <1>1, <1>3, <1>4, <1>5 DEF R!Fail
<1> QED  BY <1>6 DEF R!Next

-----------------------------------------------------------------------------
(* The refinement                                                           *)

\* Every step of Booking is a step of Rooms under the mapping, or none.
LEMMA StepRefines == GuestInv /\ [Next]_vars => [R!Next]_(R!vars)
<1> SUFFICES ASSUME GuestInv, [Next]_vars PROVE R!Next \/ UNCHANGED R!vars
  OBVIOUS
<1>1. ASSUME NEW c \in Calls, SendFails(c) \/ LinkLost(c) \/ Timeout(c) PROVE R!Next
  <2>1. /\ pc[c] \in Locked /\ pc[c] \notin {"new", "done"}
        /\ UNCHANGED <<want, granted, available, opening, replies>>
        /\ Finish(c, "disconnected") \/ Finish(c, "timeout")
    BY <1>1 DEF SendFails, LinkLost, Timeout, Locked, Waiting, linkVars, propVars
  <2>2. {"disconnected", "timeout"} \subseteq Failures \ {"notfound"}
    BY DEF Failures
  <2> QED  BY <2>1, <2>2, FailureTells
<1>2. CASE UNCHANGED vars
  <2>1. Decided' = Decided
    BY <1>2, DecidedSame DEF vars, callVars, linkVars
  <2> QED  BY <1>2, <2>1 DEF vars, callVars, nodeVars, propVars, R!vars, R!guests, Asked, Told
<1> QED  BY <1>1, <1>2, BookAsks, AcquireStutters, SendStutters, ReceiveRefines, NotifyRefines,
            ServeRefines, OthersRefine, CrashFails, RestartFails DEF Next, Thread

LEMMA InitRefines == Init => R!Init
<1> SUFFICES ASSUME Init PROVE R!Init
  OBVIOUS
<1>1. \A d : d \notin Decided
  BY DecidedIs DEF Init
<1>2. Asked = {} /\ Told = [c \in Calls |-> "none"]
  BY DEF Init, Asked, Told, Failures
<1> QED  BY <1>1, <1>2 DEF Init, R!Init

\* What the guests see is what Rooms allows: each booking is decided at one
\* moment between request and answer by the state the room is in then, and one
\* opening of a room is taken once, whatever is late, lost or restarted.
THEOREM BookingImplementsRooms == Spec => ActsAtOnce
  BY InitRefines, StepRefines, GuestInvariant, PTL DEF Spec, ActsAtOnce, R!Spec
=============================================================================
