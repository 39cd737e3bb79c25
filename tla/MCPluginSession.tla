-------------------------- MODULE MCPluginSession --------------------------
(* Instances of PluginSession for TLC. *)
EXTENDS PluginSession, TLC

CONSTANTS c1, c2

OneClient   == {c1}
TwoClients  == {c1, c2}
VersionOnly == {"current", "stale"}
Mixed       == Kinds \ {"current"}
=============================================================================
