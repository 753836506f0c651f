---------------------------- MODULE MCPluginStore ----------------------------
(* Two overlapping requests; v1 comes in two builds, v2 from the registry.  *)
EXTENDS PluginStore, TLC

CONSTANTS v1, v2, c1, c2

TwoBuilds == {<<v1, c1>>, <<v1, c2>>, <<v2, Protected>>}
=============================================================================
