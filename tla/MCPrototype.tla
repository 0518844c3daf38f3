---------------------------- MODULE MCPrototype ------------------------------
(***************************************************************************)
(* Three clients, requests of every kind to the three services, and a       *)
(* property of each kind: available, not available, no price, unknown.      *)
(***************************************************************************)
EXTENDS Prototype, TLC, Integers

MCStock == (101 :> [available |-> TRUE, priced |-> TRUE])
        @@ (102 :> [available |-> FALSE, priced |-> TRUE])
        @@ (103 :> [available |-> TRUE, priced |-> FALSE])

Call(s, p, d) == [to |-> s, kind |-> "ok", prop |-> p, card |-> d]
Odd(s, k)  == [to |-> s, kind |-> k, prop |-> 104, card |-> "good"]

CONSTANTS c1, c2, c3

MCRequests ==
  c1 :> ({Call("payment", p, "good") : p \in 101 .. 104} \cup {Call("payment", 101, "0000")}
         \cup {Odd("payment", k) : k \in {"garbage", "partial", "list", "unreadable"}})
  @@ c2 :> ({Call("reservation", p, "good") : p \in {101, 102, 104}}
            \cup {Odd("reservation", "partial"), Call("payment", 101, "good")})
  @@ c3 :> {Call("payment", 101, "good"), Call("property", 101, "good"), Odd("property", "garbage")}
=============================================================================
