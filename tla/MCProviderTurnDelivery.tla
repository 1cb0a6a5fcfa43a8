------------------------ MODULE MCProviderTurnDelivery ------------------------
(* Small instances of ProviderTurnDelivery: starts a1, a2 and a steer s1 of one *)
(* thread; a2 is stamped later than the others, whenever it is requested.       *)
EXTENDS ProviderTurnDelivery

CONSTANTS a1, a2, s1, t1

Home == [d \in Delivery |-> t1]
Stamp == [d \in Delivery |-> IF d = a2 THEN 2 ELSE 1]
=============================================================================
