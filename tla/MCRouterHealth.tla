--------------------------- MODULE MCRouterHealth ---------------------------
(* Instances of RouterHealth for TLC: a circle of twelve positions with    *)
(* two virtual nodes per node, and keys before, between and on them.       *)
EXTENDS RouterHealth, TLC

CONSTANTS n1, n2, n3, k1, k2, k3, c1, c2, g1, g2, g3

AllPoints == n1 :> {1, 2} @@ n2 :> {3, 8} @@ n3 :> {4, 11}
SomePoints == [n \in Nodes |-> AllPoints[n]]
SomeHashes == [k \in Keys |-> (k1 :> 0 @@ k2 :> 3 @@ k3 :> 11)[k]]
AllScores == n1 :> 5 @@ n2 :> 7 @@ n3 :> 6
SomeScores == [k \in Keys |-> [n \in Nodes |->
                 (AllScores[n] * (IF k = k1 THEN 2 ELSE 5)) % 11]]

\* The checks of n1 overlap, those of n2 do not: CallsEnd without the steps of c2 at n2.
NextOverlapAtN1 ==
  \/ \E c \in Checks : CheckStep(n1, c)
  \/ CheckStep(n2, c1)
  \/ \E g \in Callers : CallStep(g)
  \/ \E g \in Callers, k \in Keys : Lookup(g, k)
  \/ \E n \in Nodes : OpenTimeout(n) \/ Flip(n)

CallsEndOverlapAtN1 ==
  Init /\ [][NextOverlapAtN1]_vars /\ \A g \in Callers : WF_vars(CallStep(g))
=============================================================================
