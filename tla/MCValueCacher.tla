----------------------------- MODULE MCValueCacher -----------------------------
(* Instances of ValueCacher for TLC: the caches of the coordinator, with   *)
(* one tick for the hours and minutes of their limits.                     *)
EXTENDS ValueCacher

DeviceList == [refresh |-> 1, discard |-> NoLimit, held |-> TRUE]
Properties == [refresh |-> 0, discard |-> 1, held |-> FALSE]
Records == [refresh |-> NoLimit, discard |-> 1, held |-> TRUE]

(* The records cache while the account refuses nothing, and that of a      *)
(* feeder, which is read again after an hour.                              *)
RecordsUnrefused == [Records EXCEPT !.held = FALSE]
FeederRecords == [Records EXCEPT !.refresh = 1]

AllCaches == {DeviceList, Properties, Records, RecordsUnrefused, FeederRecords}
=============================================================================
