-------------------------- MODULE MCPluginLifecycle --------------------------
(* An instance of PluginLifecycle for TLC: the bounds are in its configurations. *)
EXTENDS PluginLifecycle

=============================================================================
