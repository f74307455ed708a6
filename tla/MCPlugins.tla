------------------------------- MODULE MCPlugins -------------------------------
(***************************************************************************)
(* A protocol with statistics and up to three random trips at once.          *)
(***************************************************************************)
EXTENDS PluginChains

CONSTANTS t1, t2, t3

=============================================================================
