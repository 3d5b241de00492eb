------------------------- MODULE MCChannelDelivery -------------------------
(* Instances of ChannelDelivery for TLC: two notifications for the same    *)
(* channel, or for two.                                                    *)
EXTENDS ChannelDelivery

CONSTANTS d1, d2, email, sms

OneOrTwo == {[d \in Deliveries |-> email], [d \in Deliveries |-> IF d = d1 THEN email ELSE sms]}
=============================================================================
