-------------------------------- MODULE Rooms --------------------------------
(***************************************************************************)
(* What the booking path promises its guests, without servers, messages or  *)
(* locks: a booking is decided at one moment, between the request and the   *)
(* answer, by the state the room is in at that moment; what is granted is   *)
(* never taken back, and what a guest is told follows from the decision.    *)
(***************************************************************************)
EXTENDS Naturals

CONSTANTS Calls, Properties, Listed, Unknown

VARIABLES
  want,       \* what each call asks for, once it has been made
  asked,      \* the calls that have been made
  told,       \* "none" until the guest is answered
  available, opening,
  decided,    \* [call, prop, taken, stamp]: decided, neither granted nor told
  granted     \* [call, prop, stamp]: the bookings

guests == <<want, asked, told>>
vars == <<guests, available, opening, decided, granted>>

Init ==
  /\ want = [c \in Calls |-> Unknown] /\ asked = {}
  /\ told = [c \in Calls |-> "none"]
  /\ available = [p \in Properties |-> p \in Listed]
  /\ opening = [p \in Properties |-> 0]
  /\ decided = {} /\ granted = {}

Ask(c, p) ==
  /\ c \notin asked
  /\ asked' = asked \cup {c}
  /\ want' = [want EXCEPT ![c] = p]
  /\ UNCHANGED <<told, available, opening, decided, granted>>

Undecided(c) ==
  /\ c \in asked /\ told[c] = "none"
  /\ want[c] \in Properties
  /\ \A d \in decided : d.call # c
  /\ \A g \in granted : g.call # c

Decision(c, t) == [call |-> c, prop |-> want[c], taken |-> t, stamp |-> opening[want[c]]]

\* The room is not available now.
Refuse(c) ==
  /\ Undecided(c) /\ ~available[want[c]]
  /\ decided' = decided \cup {Decision(c, FALSE)}
  /\ UNCHANGED <<guests, available, opening, granted>>

\* Nobody else has had the room since it was opened last: it is this call's.
Take(c) ==
  /\ Undecided(c)
  /\ \A d \in decided : d.taken => d.prop # want[c] \/ d.stamp # opening[want[c]]
  /\ \A g \in granted : g.prop # want[c] \/ g.stamp # opening[want[c]]
  /\ available' = [available EXCEPT ![want[c]] = FALSE]
  /\ decided' = decided \cup {Decision(c, TRUE)}
  /\ UNCHANGED <<guests, opening, granted>>

Grant(c) ==
  \E d \in decided :
    /\ d.call = c /\ d.taken
    /\ granted' = granted \cup {[call |-> c, prop |-> d.prop, stamp |-> d.stamp]}
    /\ decided' = decided \ {d}
    /\ UNCHANGED <<guests, available, opening>>

Truthful(c, a) ==
  \/ a = "accepted" /\ \E g \in granted : g.call = c /\ g.prop = want[c]
  \/ a = "rejected" /\ \E d \in decided : d.call = c /\ ~d.taken
  \/ a = "notfound" /\ want[c] = Unknown
  \/ a = "failed"

Tell(c, a) ==
  /\ c \in asked /\ told[c] = "none" /\ Truthful(c, a)
  /\ told' = [told EXCEPT ![c] = a]
  /\ decided' = {d \in decided : d.call # c}
  /\ UNCHANGED <<want, asked, available, opening, granted>>

\* A failure: some guests are told so, and decisions not yet granted are lost.
Fail ==
  /\ \A c \in Calls :
       \/ told'[c] = told[c]
       \/ c \in asked /\ told[c] = "none" /\ told'[c] = "failed"
  /\ decided' \subseteq decided
  /\ \A d \in decided' : told'[d.call] = "none"
  /\ UNCHANGED <<want, asked, available, opening, granted>>

\* Rooms are opened and closed by others.
Change ==
  /\ available' \in [Properties -> BOOLEAN]
  /\ opening' = [p \in Properties |-> opening[p] + IF available'[p] /\ ~available[p] THEN 1 ELSE 0]
  /\ UNCHANGED <<guests, decided, granted>>

Next ==
  \/ \E c \in Calls :
       \/ \E p \in Properties \cup {Unknown} : Ask(c, p)
       \/ Refuse(c) \/ Take(c) \/ Grant(c)
       \/ \E a \in {"accepted", "rejected", "notfound", "failed"} : Tell(c, a)
  \/ Fail \/ Change

Spec == Init /\ [][Next]_vars
=============================================================================
