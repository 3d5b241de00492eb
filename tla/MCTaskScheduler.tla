-------------------------- MODULE MCTaskScheduler --------------------------
(* Instances of TaskScheduler for TLC.                                     *)
EXTENDS TaskScheduler, TLC

CONSTANTS j1, j2, s1, s2, c1

TaskSymmetry == Permutations(Jobs) \cup Permutations(Schedulers)
=============================================================================
