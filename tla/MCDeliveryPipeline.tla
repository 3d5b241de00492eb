------------------------- MODULE MCDeliveryPipeline -------------------------
(* Instances of DeliveryPipeline for TLC.                                  *)
EXTENDS DeliveryPipeline, TLC

CONSTANTS c1, c2, k1, k2, w1, w2

\* c1 and c2 concern the same user, topic and message.
SameKey == [c \in Calls |-> {k1}]

\* One fan-out to two users.
OneFanout == (c1 :> {k1, k2})

WorkerSymmetry == Permutations(Workers)
=============================================================================
