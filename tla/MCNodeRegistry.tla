--------------------------- MODULE MCNodeRegistry ---------------------------
(* Instances of NodeRegistry: one node from the environment, one that is   *)
(* posted, two requests at a time.                                         *)
EXTENDS NodeRegistry, TLC

CONSTANTS n1, e1, here, there, r1, r2

Node(h, cr, en) == [host |-> h, creds |-> cr, enabled |-> en]
Change(h, cr, en) == [host |-> h, creds |-> cr, enabled |-> en]

MCEnv     == e1 :> Node(there, {"key"}, TRUE)
MCInputs  == {Node(here, {"key"}, TRUE)}
MCPatches == {Change(there, {}, Keep), Change(Keep, {}, FALSE), Change(Keep, {}, TRUE)}
MCSymmetry == Permutations({r1, r2})
=============================================================================
