----------------------------- MODULE MCLruNode -----------------------------
(* Instances of LruNode for TLC: three keys.  One is stored with two values, *)
(* with a TTL and without, so that a SET takes the TTL away under a GET.     *)
EXTENDS LruNode, TLC

CONSTANTS k1, k2, k3, v1, v2, t1, t2

SomeWrites == {<<k1, v1, FALSE>>, <<k2, v1, TRUE>>, <<k2, v2, FALSE>>, <<k3, v1, FALSE>>}

LruSymmetry == Permutations(Threads)
=============================================================================
