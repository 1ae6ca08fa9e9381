---------------------------- MODULE MCSingboxManager ----------------------------
(* Two processes, so that one can be in the way of the other. *)
EXTENDS SingboxManager

CONSTANTS p1, p2

MCPids == {p1, p2}
===============================================================================
