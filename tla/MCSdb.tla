------------------------------- MODULE MCSdb -------------------------------
(* Small instances of SdbStore: two keys and two values of one line.       *)
EXTENDS SdbStore

OneLine == [v \in Vals |-> v]
=============================================================================
