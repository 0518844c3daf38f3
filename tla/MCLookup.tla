------------------------------ MODULE MCLookup -------------------------------
(***************************************************************************)
(* Lookup on every ring of at most RingSize peers, for TLC.                 *)
(***************************************************************************)
EXTENDS Lookup

=============================================================================
