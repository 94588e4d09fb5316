--------------------------- MODULE MCNodeCollector ---------------------------
(* Model values for checking NodeCollector. *)
EXTENDS NodeCollector

CONSTANTS c1, c2, m1

MCConns == {c1, c2}
OneMessage == {m1}
=============================================================================
