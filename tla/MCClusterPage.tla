---------------------------- MODULE MCClusterPage ----------------------------
(* An instance of ClusterPage for TLC: the bounds are in its configuration. *)
EXTENDS ClusterPage

=============================================================================
