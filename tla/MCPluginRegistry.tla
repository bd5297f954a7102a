-------------------------- MODULE MCPluginRegistry --------------------------
(* Two concurrent transactions on two or three versions of one plugin.       *)
EXTENDS PluginRegistry, TLC

CONSTANTS v1, v2, v3, t1, t2, t3
=============================================================================
