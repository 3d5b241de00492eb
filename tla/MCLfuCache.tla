----------------------------- MODULE MCLfuCache -----------------------------
(* Instances of LfuCache for TLC.                                          *)
EXTENDS LfuCache, TLC

CONSTANTS k1, k2, k3, k4, r1, r2

KeySymmetry == Permutations(Keys) \cup Permutations(Readers)
=============================================================================
