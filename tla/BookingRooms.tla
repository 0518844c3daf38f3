---------------------------- MODULE BookingRooms -----------------------------
(***************************************************************************)
(* Booking implements Rooms.  A call is decided when PropertyNode serves    *)
(* its check and finds the room closed, or serves its set_available: from   *)
(* then on the reply, if its call still waits for it, is the decision.      *)
(***************************************************************************)
EXTENDS Booking

Asked == {c \in Calls : pc[c] # "new"}

Told == [c \in Calls |-> IF answer[c] \in Failures \ {"notfound"} THEN "failed" ELSE answer[c]]

Awaited(r) == pc[r.to.call] \in Waiting /\ r.to = RequestOf(r.to.call)

Decides(r) == (r.to.method = "set" /\ r.result = "yes") \/ r.result = "no"

Decided ==
  {[call |-> r.to.call, prop |-> r.to.prop, taken |-> r.to.method = "set", stamp |-> r.stamp] :
     r \in {replies[i] : i \in {j \in 1 .. Len(replies) : Awaited(replies[j]) /\ Decides(replies[j])}}}

R == INSTANCE Rooms WITH asked <- Asked, told <- Told, decided <- Decided

\* Whatever is late, lost, restarted or changed by a host, the guests see
\* bookings that happen at one moment each: a guest is refused only if the room
\* was closed at a moment between request and answer, a booking is granted only
\* to the one call that took the room in its opening, and nothing is taken back.
ActsAtOnce == R!Spec
=============================================================================
