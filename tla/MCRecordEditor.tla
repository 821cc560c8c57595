--------------------------- MODULE MCRecordEditor ---------------------------
(* Two records, one of them not there at first.                            *)
EXTENDS RecordEditor
CONSTANTS r1, r2
=============================================================================
