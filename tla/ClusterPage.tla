----------------------------- MODULE ClusterPage -----------------------------
(***************************************************************************)
(* The page above the cluster session: appReducer of App.tsx, what         *)
(* AppContent mounts for its state, and the effect that evicts the queries *)
(* of clusters that were left.  The host is what SessionContract promises  *)
(* (ClusterSession implements it): switches take effect in the order of    *)
(* their numbers.  Answers of Connect and "cluster:connectionLost" events  *)
(* reach the page in any order.                                            *)
(***************************************************************************)
EXTENDS Naturals

CONSTANTS
  Ctx, NoCtx,
  Setup,        \* the contexts with a setup command, whose connection can be lost
  MaxAttempts,  \* bound: Connect calls
  MaxReloads    \* bound: reloads of the page

ASSUME PageAssumption ==
  NoCtx \notin Ctx /\ Setup \subseteq Ctx /\ MaxAttempts \in Nat /\ MaxReloads \in Nat

Attempt == 1..MaxAttempts

VARIABLES
  \* the host
  active, applied,
  target,       \* the context of each call
  call,         \* the stage of each call
  lost,         \* per context, the events on their way
  \* appReducer's state
  shown,        \* activeContext
  connected, connecting, failed,
  attempt,      \* connectAttempt, as the number of the call; 0 for none
  overlay,      \* settings or the marketplace is open
  \* the query cache
  visit,        \* counts the changes of shown
  cached,       \* the visit in which the queries of a context were cached, or 0
  reloads

hostVars == <<active, applied, target, call, lost>>
screenVars == <<shown, connected, connecting, failed, attempt, overlay>>
vars == <<hostVars, screenVars, visit, cached, reloads>>

Session == INSTANCE SessionContract WITH Proxied <- Setup, Seq <- Attempt

Issued == {n \in Attempt : call[n] # "none"}

\* AppContent mounts the layout of a cluster unless something else is to be shown.
Layout(over, conn, fail, c) ==
  IF over \/ conn # NoCtx \/ fail # NoCtx THEN NoCtx ELSE c

Mounted == Layout(overlay, connecting, failed, shown)

-----------------------------------------------------------------------------
(* Rendering *)

\* Mutant: nothing excludes the cluster that is switched into.
Evicted_IncludingActive(c, now, known) ==
  shown \notin {NoCtx, now} /\ c \in known

\* The contexts whose queries the effect removes, by the previous and the current shown context.
Evicted(c, now, known) ==
  shown \notin {NoCtx, now} /\ c # now /\ c \in known

\* The commit of a render: a layout that is mounted fetches what is not cached, and then the
\* effect of App runs.
Render(layout, now, known) ==
  LET v == IF now = shown THEN visit ELSE visit + 1 IN
  /\ visit' = v
  /\ cached' = [c \in Ctx |->
       IF Evicted(c, now, known) THEN 0
       ELSE IF c = layout /\ cached[c] = 0 THEN v
       ELSE cached[c]]

Init ==
  /\ Session!Init
  /\ target = [n \in Attempt |-> NoCtx] /\ call = [n \in Attempt |-> "none"]
  /\ lost = [c \in Ctx |-> 0]
  /\ shown = NoCtx /\ connected = {} /\ connecting = NoCtx /\ failed = NoCtx
  /\ attempt = 0 /\ overlay = FALSE
  /\ visit = 0 /\ cached = [c \in Ctx |-> 0] /\ reloads = 0

-----------------------------------------------------------------------------
(* The host *)

\* Mutant: a call is committed whatever has been committed since it was issued.
Commit_Unordered(n) ==
  /\ call[n] = "running"
  /\ active' = target[n] /\ applied' = applied \union {n}
  /\ call' = [call EXCEPT ![n] = "committed"]
  /\ UNCHANGED <<target, lost, screenVars, visit, cached, reloads>>

\* The switch takes effect; the call goes on to wire the informers.
Commit(n) ==
  /\ call[n] = "running" /\ Session!Switch(n, target[n])
  /\ call' = [call EXCEPT ![n] = "committed"]
  /\ UNCHANGED <<target, lost, screenVars, visit, cached, reloads>>

\* A call answers without an error once it has committed, or when it finds a newer one.
Succeed(n) ==
  /\ call[n] = "committed" \/ (call[n] = "running" /\ \E m \in Issued : m > n)
  /\ call' = [call EXCEPT ![n] = "ok"]
  /\ UNCHANGED <<active, applied, target, lost, screenVars, visit, cached, reloads>>

Fail(n) ==
  /\ call[n] = "running"
  /\ call' = [call EXCEPT ![n] = "error"]
  /\ UNCHANGED <<active, applied, target, lost, screenVars, visit, cached, reloads>>

\* handleProxyLost.
LoseProxy ==
  /\ Session!Lose
  /\ lost' = [lost EXCEPT ![active] = @ + 1]
  /\ UNCHANGED <<target, call, screenVars, visit, cached, reloads>>

-----------------------------------------------------------------------------
(* The page *)

\* connectTo; the layout of the shown cluster is unmounted before the host sees the call.
ConnectTo(c) ==
  \E n \in Attempt :
    /\ n \notin Issued /\ \A m \in Attempt : m < n => m \in Issued
    /\ target' = [target EXCEPT ![n] = c] /\ call' = [call EXCEPT ![n] = "running"]
    /\ connecting' = c /\ failed' = NoCtx /\ attempt' = n

\* handleSelectCluster closes what is open, and a click on the shown cluster does no more.
SelectCluster(c) ==
  /\ overlay' = FALSE
  /\ IF c = shown /\ failed = NoCtx
     THEN /\ UNCHANGED <<target, call, connecting, failed, attempt>>
          /\ Render(Layout(FALSE, connecting, failed, shown), shown, connected)
     ELSE ConnectTo(c) /\ Render(NoCtx, shown, connected)
  /\ UNCHANGED <<active, applied, lost, shown, connected, reloads>>

\* The button of the failed screen.
Reconnect ==
  /\ failed # NoCtx /\ connecting = NoCtx /\ ~overlay
  /\ ConnectTo(failed) /\ Render(NoCtx, shown, connected)
  /\ UNCHANGED <<active, applied, lost, shown, connected, overlay, reloads>>

\* Settings or the marketplace; only a click on a cluster closes them.
OpenOverlay ==
  /\ overlay' = TRUE
  /\ Render(NoCtx, shown, connected)
  /\ UNCHANGED <<hostVars, shown, connected, connecting, failed, attempt, reloads>>

\* Mutant: the context is not recorded as connected.
ConnectSuccess_Unrecorded(n) ==
  /\ call[n] = "ok" /\ call' = [call EXCEPT ![n] = "heard"]
  /\ IF n = attempt
     THEN /\ shown' = target[n] /\ connected' = connected
          /\ connecting' = NoCtx /\ failed' = NoCtx
          /\ Render(Layout(overlay, NoCtx, NoCtx, target[n]), target[n], connected')
     ELSE UNCHANGED <<shown, connected, connecting, failed, visit, cached>>
  /\ UNCHANGED <<active, applied, target, lost, attempt, overlay, reloads>>

\* CONNECT_SUCCESS; the answer of any other than the latest attempt is ignored.
ConnectSuccess(n) ==
  /\ call[n] = "ok" /\ call' = [call EXCEPT ![n] = "heard"]
  /\ IF n = attempt
     THEN /\ shown' = target[n] /\ connected' = connected \union {target[n]}
          /\ connecting' = NoCtx /\ failed' = NoCtx
          /\ Render(Layout(overlay, NoCtx, NoCtx, target[n]), target[n], connected')
     ELSE UNCHANGED <<shown, connected, connecting, failed, visit, cached>>
  /\ UNCHANGED <<active, applied, target, lost, attempt, overlay, reloads>>

\* Mutant: the context stays the one that is being connected to.
ConnectFail_Connecting(n) ==
  /\ call[n] = "error" /\ call' = [call EXCEPT ![n] = "heard"]
  /\ failed' = IF n = attempt THEN target[n] ELSE failed
  /\ UNCHANGED <<active, applied, target, lost, shown, connected, connecting, attempt, overlay,
                 visit, cached, reloads>>

\* CONNECT_FAIL.
ConnectFail(n) ==
  /\ call[n] = "error" /\ call' = [call EXCEPT ![n] = "heard"]
  /\ IF n = attempt THEN connecting' = NoCtx /\ failed' = target[n]
     ELSE UNCHANGED <<connecting, failed>>
  /\ UNCHANGED <<active, applied, target, lost, shown, connected, attempt, overlay,
                 visit, cached, reloads>>

\* CONNECTION_LOST; ignored unless it is about the shown context.
ConnectionLost(c) ==
  /\ lost[c] > 0 /\ lost' = [lost EXCEPT ![c] = @ - 1]
  /\ IF shown = c
     THEN /\ connected' = connected \ {c} /\ shown' = NoCtx /\ failed' = c
          /\ Render(NoCtx, NoCtx, connected')
     ELSE UNCHANGED <<connected, shown, failed, visit, cached>>
  /\ UNCHANGED <<active, applied, target, call, connecting, attempt, overlay, reloads>>

\* The webview reloads: the page starts anew, and nothing that was on its way reaches it.  The
\* host goes on.
Reload ==
  /\ reloads < MaxReloads /\ reloads' = reloads + 1
  /\ shown' = NoCtx /\ connected' = {} /\ connecting' = NoCtx /\ failed' = NoCtx
  /\ attempt' = 0 /\ overlay' = FALSE
  /\ visit' = visit + 1 /\ cached' = [c \in Ctx |-> 0]
  /\ lost' = [c \in Ctx |-> 0]
  /\ UNCHANGED <<active, applied, target, call>>

-----------------------------------------------------------------------------
Return(n) == Commit(n) \/ Succeed(n) \/ Fail(n)
Deliver(n) == ConnectSuccess(n) \/ ConnectFail(n)

Next ==
  \/ \E n \in Attempt : Return(n) \/ Deliver(n)
  \/ LoseProxy
  \/ \E c \in Ctx : SelectCluster(c) \/ ConnectionLost(c)
  \/ Reconnect \/ OpenOverlay \/ Reload

Spec == Init /\ [][Next]_vars

\* Every Connect returns (ClusterSession!EveryConnectReturns) and its answer is delivered.
Fairness == \A n \in Attempt : WF_vars(Return(n)) /\ WF_vars(Deliver(n))

FairSpec == Spec /\ Fairness

-----------------------------------------------------------------------------
(* Properties *)

\* Type invariant of the page and of what is on its way to it.
TypeOK ==
  /\ active \in Ctx \union {NoCtx} /\ applied \subseteq Attempt
  /\ target \in [Attempt -> Ctx \union {NoCtx}]
  /\ call \in [Attempt -> {"none", "running", "committed", "ok", "error", "heard"}]
  /\ lost \in [Ctx -> Nat]
  /\ {shown, connecting, failed} \subseteq Ctx \union {NoCtx}
  /\ \A n \in Issued : target[n] \in Ctx
  /\ connected \subseteq Ctx
  /\ attempt \in 0..MaxAttempts /\ overlay \in BOOLEAN
  /\ visit \in Nat /\ cached \in [Ctx -> Nat]

\* While the layout of a cluster is mounted, the host serves that cluster and no other to the
\* queries it makes; only a cluster with a setup command may not be served, when it was lost.
\* "... leave the backend's activeContext stuck" is what useConnect.ts is written against.
PageShowsSession ==
  Mounted # NoCtx => active = Mounted \/ (Mounted \in Setup /\ active = NoCtx)

\* However answers and losses are ordered, the connecting screen goes away or is that of a newer
\* attempt.
ConnectingEnds ==
  \A n \in Attempt :
    (connecting # NoCtx /\ attempt = n) ~> (connecting = NoCtx \/ attempt # n)

\* The eviction never takes the queries the mounted layout has just made, which nothing would
\* make again.
VisitKeepsItsQueries == Mounted # NoCtx => cached[Mounted] # 0

\* "... so a cluster revisited later starts fresh": the mounted layout shows nothing cached on an
\* earlier visit, for clusters whose connection cannot be lost.
VisitStartsFresh == Mounted \in Ctx \ Setup => cached[Mounted] = visit

=============================================================================
