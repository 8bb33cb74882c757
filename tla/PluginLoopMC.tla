---------------------------- MODULE PluginLoopMC -----------------------------
(* Small instances of the plugin loop for TLC. *)
EXTENDS PluginLoop, TLC

CONSTANTS ra, rb

=============================================================================
