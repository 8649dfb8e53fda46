----------------------------- MODULE MCLiveViews -----------------------------
(* An instance of LiveViews for TLC: the bounds are in its configurations. *)
EXTENDS LiveViews

=============================================================================
