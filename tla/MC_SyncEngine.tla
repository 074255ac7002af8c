--------------------------- MODULE MC_SyncEngine ---------------------------
(* Small instances of SyncEngine.                                          *)
EXTENDS SyncEngine

CONSTANTS a, b   \* the two devices

(* Budgets: how many rows, restores or faults devices a and b get.         *)
ATwo   == [d \in Devices |-> IF d = a THEN 2 ELSE 0]
AOne   == [d \in Devices |-> IF d = a THEN 1 ELSE 0]
BOne   == [d \in Devices |-> IF d = a THEN 0 ELSE 1]
EachOne == [d \in Devices |-> 1]
=============================================================================
