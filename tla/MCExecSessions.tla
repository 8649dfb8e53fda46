--------------------------- MODULE MCExecSessions ---------------------------
(* An instance of ExecSessions for TLC: the bounds are in its configurations. *)
EXTENDS ExecSessions

=============================================================================
