------------------------------- MODULE MCGraph -------------------------------
(* Two pids, so that one can be parent, child and successor of the other.  *)
EXTENDS Graph, TLC

CONSTANTS p1, p2

MCPids == {p1, p2}
MCSymmetry == Permutations(MCPids)
MCTimes == 0 .. 1
=============================================================================
