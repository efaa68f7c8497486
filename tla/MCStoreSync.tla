---------------------------- MODULE MCStoreSync ----------------------------
(***************************************************************************)
(* A sale and a purchase of one product, a retry of the sale's sync and    *)
(* one of a delivery, and a web order the shop reports twice. With one     *)
(* unit at first the stock may go below zero.                              *)
(***************************************************************************)
EXTENDS StoreSync, TLC

CONSTANTS s1, s2, r1, r2, d1, d2, o1

DeltaOf == [s \in Changes |-> IF s = s1 THEN 0 - 1 ELSE 1]
WebOrderOf == [d \in Deliveries |-> o1]

\* r1 repeats the sync of the sale, r2 the first delivery.
RetriedBy == [r \in Retries |-> IF r = r1 THEN s1 ELSE d1]
=============================================================================
