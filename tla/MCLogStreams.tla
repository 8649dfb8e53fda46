---------------------------- MODULE MCLogStreams ----------------------------
(* An instance of LogStreams for TLC: the bounds are in its configuration. *)
EXTENDS LogStreams

=============================================================================
