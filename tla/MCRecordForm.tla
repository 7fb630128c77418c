---------------------------- MODULE MCRecordForm ----------------------------
(* The record form alone, for TLC: two tokens, of which one sees two zones. *)
EXTENDS RecordForm

MCZonesOf == [t \in {"a", "b"} |-> IF t = "a" THEN {1, 2} ELSE {3}]
=============================================================================
