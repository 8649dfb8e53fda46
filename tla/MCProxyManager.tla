--------------------------- MODULE MCProxyManager ---------------------------
(* An instance of ProxyManager for TLC: the bounds are in its configuration. *)
EXTENDS ProxyManager

=============================================================================
