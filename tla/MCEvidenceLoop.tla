--------------------------- MODULE MCEvidenceLoop ---------------------------
(* One read, one search that may ask for the changed symbol, and the        *)
(* sweep's search for that symbol.                                          *)
EXTENDS EvidenceLoop

CONSTANTS r1, s1, w1

Asked == [w \in {w1} |-> {s1}]
=============================================================================
