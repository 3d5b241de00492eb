-------------------------- MODULE DeliveryContract --------------------------
(***************************************************************************)
(* What the notification pipeline promises about one notification, without *)
(* its streams, consumer groups and workers.  A notification is stored,    *)
(* then submitted for delivery; from then on it is queued, delivered, or   *)
(* dead-lettered, and a dead-lettered one may be submitted again.  Nothing *)
(* leads out of "queued" but a delivery or the dead-letter queue, and      *)
(* nothing out of "dead" but a delivery or a retry.                        *)
(***************************************************************************)
CONSTANT Nids
VARIABLE life

Init == life = [n \in Nids |-> "absent"]

Becomes(S, from, to) ==
  /\ S # {}
  /\ \A n \in S : life[n] \in from
  /\ life' = [n \in Nids |-> IF n \in S THEN to ELSE life[n]]

Next ==
  \/ \E S \in SUBSET Nids : Becomes(S, {"absent"}, "stored")
  \/ \E S \in SUBSET Nids : Becomes(S, {"stored"}, "queued")
  \/ \E n \in Nids : Becomes({n}, {"queued", "dead"}, "delivered")
  \/ \E n \in Nids : Becomes({n}, {"queued"}, "dead")
  \/ \E n \in Nids : Becomes({n}, {"dead"}, "queued")

Spec == Init /\ [][Next]_life
=============================================================================
