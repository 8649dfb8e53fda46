-------------------------- MODULE MCClusterSession --------------------------
(* Instances of ClusterSession for TLC. *)
EXTENDS ClusterSession, TLC

CONSTANTS a, b, f, g

\* Context a has a saved default filter of its own.
MCRestored == (a :> f) @@ (b :> g)

=============================================================================
