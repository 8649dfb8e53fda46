-------------------------- MODULE SessionContract --------------------------
(***************************************************************************)
(* What App.Connect promises to everything that reads activeContext: the   *)
(* switches that take effect do so in the order the user asked for them,   *)
(* an older one never undoes a newer one, and the session is otherwise     *)
(* only ever lost, by a context that has a setup command.                  *)
(***************************************************************************)
EXTENDS Naturals

CONSTANTS
  Ctx, NoCtx,
  Proxied,   \* the contexts that have a setup command
  Seq        \* the numbers the frontend gives its switches

VARIABLES
  active,   \* the active context, NoCtx when there is none
  applied   \* the switches that took effect so far

Init == active = NoCtx /\ applied = {}

Switch(s, c) ==
  /\ \A t \in applied : t < s
  /\ applied' = applied \union {s}
  /\ active' = c

Lose == active \in Proxied /\ active' = NoCtx /\ UNCHANGED applied

Next == Lose \/ \E s \in Seq, c \in Ctx : Switch(s, c)

Spec == Init /\ [][Next]_<<active, applied>>

=============================================================================
