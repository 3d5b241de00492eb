--------------------------- MODULE MCRouterWrites ---------------------------
(* Instances of RouterWrites for TLC.                                      *)
EXTENDS RouterWrites, TLC

CONSTANTS n1, n2, w0, w1, d1, r1

TwoNodes == <<n1, n2>>

\* Every mode with one of the strategies: the mode rules the copies, the strategy the
\* local cache, and neither reads the other.
InitOneStrategyEach == Init /\ (strategy = "periodic" <=> mode = "none")

SpecOneStrategyEach == InitOneStrategyEach /\ [][Next]_vars
=============================================================================
