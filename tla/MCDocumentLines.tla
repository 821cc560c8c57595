--------------------------- MODULE MCDocumentLines ---------------------------
(* Two records and one that is created.                                    *)
EXTENDS DocumentLines
CONSTANTS r1, r2, r3
=============================================================================
