-------------------------------- MODULE MCPolls --------------------------------
(* Two ports, two engines, a container and two processes; two spans of a window. *)
EXTENDS Polls, TLC

CONSTANTS p1, p2, e1, e2

\* Ports and engines are interchangeable.
MCSymmetry == Permutations({p1, p2}) \cup Permutations({e1, e2})
================================================================================
