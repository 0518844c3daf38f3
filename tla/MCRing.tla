------------------------------- MODULE MCRing --------------------------------
(***************************************************************************)
(* Three or four peers and one or two keys on a ring of eight positions:    *)
(* key 0 lies past the last peer, so that its owner is found going round;   *)
(* key 2 lies just after a peer, the case next_hop() has trouble with.      *)
(***************************************************************************)
EXTENDS Ring

CONSTANTS t1, t2

MCPeers == {1, 3, 6}
MCPeers4 == {1, 3, 4, 6}
MCKeys  == {0, 2}
MCKey   == {2}
MCNoKeys == {}
MCTasks1 == {t1}
MCTasks2 == {t1, t2}
=============================================================================
