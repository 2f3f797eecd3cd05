---------------------------- MODULE MCConnections ----------------------------
(* Connections with two paths that name one directory.                     *)
EXTENDS Connections, TLC

CONSTANTS p1, p2, d1

MCPaths == {p1, p2}
MCDirs == {d1}
MCResolved == (p1 :> d1) @@ (p2 :> d1)
Symmetry == Permutations(Requests)
=============================================================================
