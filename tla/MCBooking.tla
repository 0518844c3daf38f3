---- MODULE MCBooking ----
(***************************************************************************)
(* Instances of Booking for TLC.                                           *)
(***************************************************************************)
EXTENDS BookingRooms, TLC

CONSTANTS c1, c2, c3, p1, p2

MCCalls2      == {c1, c2}
MCCalls3      == {c1, c2, c3}
MCProperties  == {p1, p2}
MCListed      == {p1}

\* The calls are interchangeable; used in the runs without liveness.
CallSymmetry  == Permutations(Calls)
====
