------------------------------ MODULE MCRunStore ------------------------------
(* Start-up at 2; one unit is the run gap, or the time between two prunes. *)
EXTENDS RunStore, TLC

CONSTANTS e1, e2, m1, m2

NoSkew == {0}
ClockJumps == {0, 2}
MCSymmetry == Permutations({m1, m2})
===============================================================================
