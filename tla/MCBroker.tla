------------------------------ MODULE MCBroker ------------------------------
(***************************************************************************)
(* Instances of Broker for TLC.                                            *)
(***************************************************************************)
EXTENDS Broker

CONSTANTS p1, p2, s1, s2

MCPublishers  == {p1, p2}
MCSubscribers == {s1, s2}
=============================================================================
