---------------------------- MODULE MCPluginSvr ----------------------------
(* Instances of PluginSvr for TLC. *)
EXTENDS PluginSvr

CONSTANTS c1, c2

TwoConns == {c1, c2}
=============================================================================
