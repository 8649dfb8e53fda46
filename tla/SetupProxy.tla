----------------------------- MODULE SetupProxy -----------------------------
(***************************************************************************)
(* What a context's setup-command proxy promises to the session that       *)
(* connects through it: the phases it goes through, and one report of a    *)
(* loss for each launch at most.  ClusterSession uses the proxy of each    *)
(* context through these phases; ProxyManager implements them.             *)
(***************************************************************************)
CONSTANT Launch   \* the launches of the setup command

VARIABLES
  phase,   \* "stopping" is on its way to "off"; "stuck" never leaves
  lostBy   \* the launches whose loss was reported

Init == phase = "off" /\ lostBy = {}

Move(from, to) == phase = from /\ phase' = to

Report == \E l \in Launch \ lostBy : lostBy' = lostBy \union {l}

Begin == Move("off", "starting") /\ UNCHANGED lostBy
ComeUp == Move("starting", "ready") /\ UNCHANGED lostBy
Lose == (Move("starting", "off") \/ Move("ready", "off")) /\ Report

\* A stop is immediate unless the launch is still on its way.
Stop == (Move("starting", "stopping") \/ Move("ready", "off")) /\ UNCHANGED lostBy

\* The stopped launch ends, reports a loss all the same, or is never seen to have ended.
EndStop ==
  \/ Move("stopping", "off") /\ (Report \/ UNCHANGED lostBy)
  \/ Move("stopping", "stuck") /\ UNCHANGED lostBy

Next == Begin \/ ComeUp \/ Lose \/ Stop \/ EndStop

Spec == Init /\ [][Next]_<<phase, lostBy>>

=============================================================================
