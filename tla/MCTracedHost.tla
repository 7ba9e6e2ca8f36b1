---------------------------- MODULE MCTracedHost ----------------------------
(* Two numbers beside Init: a root and its child, a process and its thread, *)
(* or two processes that have the same number one after the other.          *)
EXTENDS TracedHost, TLC

CONSTANTS p0, p1, p2

MCPids == {p0, p1, p2}
MCSymmetry == Permutations({p1, p2})
MCTimes == 0 .. 2
=============================================================================
