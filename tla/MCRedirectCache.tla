--------------------------- MODULE MCRedirectCache ---------------------------
(* Instances of RedirectCache for TLC.                                     *)
EXTENDS RedirectCache, TLC

CONSTANTS u1, u2, h1, h2, w1, w2

RedirectSymmetry ==
  Permutations(Urls) \cup Permutations(Readers) \cup Permutations(Writers)
=============================================================================
