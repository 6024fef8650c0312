-------------------------- MODULE MCPluginWorker --------------------------
(* Small instances of PluginWorker for TLC.                                *)
EXTENDS PluginWorker, TLC

CONSTANTS c1, c2, h1, h2, p1, p2, p3
=============================================================================
