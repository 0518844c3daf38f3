------------------------------- MODULE MCGroup -------------------------------
(***************************************************************************)
(* Instances of Group for TLC.                                             *)
(***************************************************************************)
EXTENDS Group, TLC

CONSTANTS t1, t2, t3, t4

MCMembers2 == {11, 12}   \* apart from the ports, which count from 1
MCTasks2   == {t1, t2}
MCTasks3   == {t1, t2, t3}
MCTasks4   == {t1, t2, t3, t4}
MCValues   == {"free", "taken"}

\* The threads are interchangeable; used in the runs without liveness.
TaskSymmetry == Permutations(Tasks)
=============================================================================
