--------------------------- MODULE MCPluginServer ---------------------------
(* Instances of PluginServer for TLC. *)
EXTENDS PluginServer, TLC

CONSTANTS c1, c2, c3

TwoConns   == {c1, c2}
ThreeConns == {c1, c2, c3}
Symmetry   == Permutations(Conns)
=============================================================================
