--------------------------- MODULE ClusterSession ---------------------------
(***************************************************************************)
(* The host's cluster session: App.Connect, App.handleProxyLost,           *)
(* App.SetActiveNamespaces and App.SaveClusterProxy over the maps guarded  *)
(* by App.mu (internal/app).                                               *)
(*                                                                         *)
(* Every Connect call runs in a goroutine of its own and holds App.mu only *)
(* in short sections, so a call is a sequence of steps (a program counter  *)
(* per call) and the steps of several calls interleave.  A Connect call is *)
(* named by its seq; the informer factory handle it creates has the same   *)
(* name, because a call creates at most one.  One informer stands for the  *)
(* 24 namespace-scoped ones and one plugin backend for all of them.        *)
(***************************************************************************)
EXTENDS Naturals, FiniteSets

CONSTANTS
  Ctx,            \* kubeconfig contexts
  NoCtx,          \* the empty context name: no active connection
  Filter,         \* namespace filters a user can select
  NoFilter,       \* a filter nobody has set: an unscoped informer, a cleared plugin
  Restored,       \* settings.ClusterDefaultNamespaces: context -> filter
  ProxyCtx,       \* the contexts that have a setup command
  MaxCalls,       \* bound: Connect calls the frontend issues
  MaxInFlight,    \* bound: Connect calls running at the same time
  MaxSelections,  \* bound: SetActiveNamespaces calls the frontend issues
  MaxSaves,       \* bound: SaveClusterProxy calls per context
  MaxReloads      \* bound: reloads of the page

Call == 1..MaxCalls
Selection == 1..MaxSelections
Version == 1..(MaxSaves + 1)   \* versions of a context's proxy settings

ASSUME SessionAssumption ==
  /\ MaxCalls \in Nat /\ MaxInFlight \in Nat /\ MaxSelections \in Nat
  /\ MaxSaves \in Nat /\ MaxReloads \in Nat
  /\ NoCtx \notin Ctx
  /\ NoFilter \notin Filter
  /\ Restored \in [Ctx -> Filter]
  /\ ProxyCtx \subseteq Ctx

VARIABLES
  \* App fields guarded by App.mu
  activeContext, activeContextSeq, activeNamespaces, activeNamespacesSeq,
  clients,        \* context -> version of the settings its client was built with, 0: none
  restConfigs, metricsClients,
  factories,      \* context -> handle, 0: none
  proxyVersion,   \* settings.ClusterProxies: context -> current version
  \* informer factory handles
  handle,         \* "none", "live", "stopped"
  scope,          \* the filter the handle's scoped informers were last built for
  stopping,       \* handles handleProxyLost took out of the map and has yet to stop
  \* setup-command proxies
  proxy,          \* state of the ProxyManager, see ProxyState
  manager,        \* context -> version its ProxyManager was created with, 0: none
  lost,           \* context -> handleProxyLost goroutines that have not run yet
  \* a plugin backend's cached labels
  pluginContext, pluginNamespaces,
  \* Connect calls: where each one is, its arguments and its locals
  pc, ctx,
  cached,         \* version of the cached client when the call looked, 0: none
  settings,       \* version of the proxy settings when the call looked
  previous,       \* previousContext
  \* SetActiveNamespaces calls
  selPc, selSeq, selFilter, selHandle,
  pageSeq,        \* the page's callSeq in useSetActiveNamespaces.tsx
  page            \* reloads so far

appVars == <<activeContext, activeContextSeq, activeNamespaces, activeNamespacesSeq,
             clients, restConfigs, metricsClients, factories, proxyVersion>>
handleVars == <<handle, scope, stopping>>
proxyVars == <<proxy, manager, lost>>
pluginVars == <<pluginContext, pluginNamespaces>>
callLocals == <<ctx, cached, settings, previous>>
selVars == <<selPc, selSeq, selFilter, selHandle, pageSeq, page>>
vars == <<appVars, handleVars, proxyVars, pluginVars, pc, callLocals, selVars>>

Returned == {"done", "dropped", "failed", "superseded"}
CallPc == {"idle", "sent", "clearContext", "clearNamespaces", "read", "stopPrevious",
           "ensureProxy", "waitProxy", "probe", "commit",
           "pushContext", "pushNamespaces", "wire"} \union Returned
\* ProxyManager's states as its callers see them: "off" is Idle or Degraded, "stopping"
\* is Stopping with its launch still at work, "stuck" is Stopping after the launch ended.
ProxyState == {"off", "starting", "ready", "stopping", "stuck"}
SelPc == {"idle", "sent", "rescope", "push", "done", "dropped"}

\* The calls that published their handle and made their context the active one.
Committed == {s \in Call : pc[s] \in {"pushContext", "pushNamespaces", "wire", "done"}}
InFlight == {s \in Call : pc[s] \notin {"idle"} \union Returned}
Accepted == {n \in Selection : selPc[n] \in {"rescope", "push", "done"}}

Goto(s, from, to) == pc[s] = from /\ pc' = [pc EXCEPT ![s] = to]

-----------------------------------------------------------------------------
Init ==
  /\ activeContext = NoCtx /\ activeContextSeq = 0
  /\ activeNamespaces = NoFilter /\ activeNamespacesSeq = 0
  /\ clients = [c \in Ctx |-> 0]
  /\ restConfigs = {} /\ metricsClients = {}
  /\ factories = [c \in Ctx |-> 0]
  /\ proxyVersion = [c \in Ctx |-> 1]
  /\ handle = [s \in Call |-> "none"]
  /\ scope = [s \in Call |-> NoFilter]
  /\ stopping = {}
  /\ proxy = [c \in Ctx |-> "off"]
  /\ manager = [c \in Ctx |-> 0]
  /\ lost = [c \in Ctx |-> 0]
  /\ pluginContext = NoCtx /\ pluginNamespaces = NoFilter
  /\ pc = [s \in Call |-> "idle"]
  /\ ctx = [s \in Call |-> NoCtx]
  /\ cached = [s \in Call |-> 0]
  /\ settings = [s \in Call |-> 0]
  /\ previous = [s \in Call |-> NoCtx]
  /\ selPc = [n \in Selection |-> "idle"]
  /\ selSeq = [n \in Selection |-> 0]
  /\ selFilter = [n \in Selection |-> NoFilter]
  /\ selHandle = [n \in Selection |-> 0]
  /\ pageSeq = 0 /\ page = 0

-----------------------------------------------------------------------------
(* Connect *)

\* The frontend calls Connect(c, s): it increments callSeq before the dispatch.
IssueConnect(s, c) ==
  /\ \A t \in Call : t < s => pc[t] # "idle"
  /\ Cardinality(InFlight) < MaxInFlight
  /\ Goto(s, "idle", "sent")
  /\ ctx' = [ctx EXCEPT ![s] = c]
  /\ UNCHANGED <<appVars, handleVars, proxyVars, pluginVars, cached, settings,
                 previous, selVars>>

\* Mutant: a late call claims too, and takes the sequence number back.
Claim_AnyOrder(s) ==
  /\ Goto(s, "sent", "clearContext")
  /\ activeContextSeq' = s
  /\ UNCHANGED <<activeContext, activeNamespaces, activeNamespacesSeq, clients,
                 restConfigs, metricsClients, factories, proxyVersion,
                 handleVars, proxyVars, pluginVars, callLocals, selVars>>

\* tryClaimConnectSeq: calls may arrive in any order, a stale one returns at once.
Claim(s) ==
  /\ \/ /\ s > activeContextSeq
        /\ activeContextSeq' = s
        /\ Goto(s, "sent", "clearContext")
     \/ /\ s <= activeContextSeq
        /\ Goto(s, "sent", "dropped")
        /\ UNCHANGED activeContextSeq
  /\ UNCHANGED <<activeContext, activeNamespaces, activeNamespacesSeq, clients,
                 restConfigs, metricsClients, factories, proxyVersion,
                 handleVars, proxyVars, pluginVars, callLocals, selVars>>

\* Mutant: the plugins keep the old label until the push.
ClearPluginContext_Kept(s) ==
  /\ Goto(s, "clearContext", "clearNamespaces")
  /\ UNCHANGED <<appVars, handleVars, proxyVars, pluginVars, callLocals, selVars>>

\* clearPluginClusterState publishes on two topics, one after the other.
ClearPluginContext(s) ==
  /\ Goto(s, "clearContext", "clearNamespaces")
  /\ pluginContext' = NoCtx
  /\ UNCHANGED <<appVars, handleVars, proxyVars, pluginNamespaces, callLocals, selVars>>

ClearPluginNamespaces(s) ==
  /\ Goto(s, "clearNamespaces", "read")
  /\ pluginNamespaces' = NoFilter
  /\ UNCHANGED <<appVars, handleVars, proxyVars, pluginContext, callLocals, selVars>>

\* The read-locked section: the cached client, the proxy settings, previousContext.
ReadState(s) ==
  /\ Goto(s, "read", "stopPrevious")
  /\ cached' = [cached EXCEPT ![s] = clients[ctx[s]]]
  /\ settings' = [settings EXCEPT ![s] = proxyVersion[ctx[s]]]
  /\ previous' = [previous EXCEPT ![s] = activeContext]
  /\ UNCHANGED <<appVars, handleVars, proxyVars, pluginVars, ctx, selVars>>

\* ProxyManager.Stop of context c.
StopProxy(c) ==
  proxy' = [proxy EXCEPT ![c] = IF @ = "ready" THEN "off"
                                ELSE IF @ = "starting" THEN "stopping" ELSE @]

\* stopProxyManager(previousContext), unless the context stays the same.
StopPrevious(s) ==
  /\ Goto(s, "stopPrevious", "ensureProxy")
  /\ IF previous[s] \notin {NoCtx, ctx[s]}
     THEN StopProxy(previous[s])
     ELSE UNCHANGED proxy
  /\ UNCHANGED <<appVars, handleVars, manager, lost, pluginVars, callLocals, selVars>>

\* ensureProxyManager and mgr.Connect(): a manager of other settings is stopped, which
\* its launch may report as Degraded, and replaced.  Connect() starts a launch when the
\* manager is off and does nothing otherwise.
EnsureProxy(s) ==
  LET c == ctx[s]
      replaced == manager[c] # settings[s]
  IN
  /\ pc[s] = "ensureProxy"
  /\ pc' = [pc EXCEPT ![s] = IF c \in ProxyCtx THEN "waitProxy" ELSE "probe"]
  /\ IF c \in ProxyCtx /\ (replaced \/ proxy[c] = "off")
     THEN /\ proxy' = [proxy EXCEPT ![c] = "starting"]
          /\ manager' = [manager EXCEPT ![c] = settings[s]]
          /\ \/ UNCHANGED lost
             \/ proxy[c] \in {"starting", "stopping"} /\ lost' = [lost EXCEPT ![c] = @ + 1]
     ELSE UNCHANGED proxyVars
  /\ UNCHANGED <<appVars, handleVars, pluginVars, callLocals, selVars>>

\* Mutant: only a proxy that came up lets the call go on.
WaitProxy_ReadyOnly(s) ==
  /\ Goto(s, "waitProxy", "probe")
  /\ proxy[ctx[s]] = "ready"
  /\ UNCHANGED <<appVars, handleVars, proxyVars, pluginVars, callLocals, selVars>>

\* <-mgr.Wait() returns when the launch has settled, well or badly, and when the
\* manager the call waits for has been replaced.
WaitProxy(s) ==
  /\ Goto(s, "waitProxy", "probe")
  /\ proxy[ctx[s]] \notin {"starting", "stopping"} \/ manager[ctx[s]] # settings[s]
  /\ UNCHANGED <<appVars, handleVars, proxyVars, pluginVars, callLocals, selVars>>

\* NewClientset (when no client was cached) and Ping; either may fail.
Probe(s) ==
  /\ \/ Goto(s, "probe", "commit")
     \/ Goto(s, "probe", "failed")
  /\ UNCHANGED <<appVars, handleVars, proxyVars, pluginVars, callLocals, selVars>>

\* The clients and rest configs a call leaves behind, stale or not.
CacheClient(s) ==
  /\ clients' = [clients EXCEPT
       ![ctx[s]] = IF @ # 0 THEN @ ELSE IF cached[s] # 0 THEN cached[s] ELSE settings[s]]
  /\ restConfigs' = IF cached[s] # 0 THEN restConfigs ELSE restConfigs \union {ctx[s]}

\* Mutants: the old factory is left running; the new one is stopped in its place.
ReplaceHandle_KeepOld(s, st) == handle' = [handle EXCEPT ![s] = st]
ReplaceHandle_StopNew(s, st) == handle' = [handle EXCEPT ![s] = "stopped"]

\* old.Stop() of the context's factory, then the new handle of call s in state st.
ReplaceHandle(s, st) ==
  handle' = [h \in Call |-> IF h = s THEN st
                            ELSE IF h = factories[ctx[s]] THEN "stopped"
                            ELSE handle[h]]

\* Mutant: the commit does not look whether a newer call has claimed.
Commit_NoStaleCheck(s) ==
  /\ Goto(s, "commit", "pushContext")
  /\ CacheClient(s)
  /\ ReplaceHandle(s, "live")
  /\ factories' = [factories EXCEPT ![ctx[s]] = s]
  /\ activeContext' = ctx[s]
  /\ activeNamespaces' = Restored[ctx[s]]
  /\ activeNamespacesSeq' = 0
  /\ UNCHANGED <<activeContextSeq, metricsClients, proxyVersion, scope, stopping,
                 proxyVars, pluginVars, callLocals, selVars>>

\* The write-locked section up to the publication, for a call that is not stale.
Commit(s) ==
  /\ Goto(s, "commit", "pushContext")
  /\ s >= activeContextSeq
  /\ CacheClient(s)
  /\ ReplaceHandle(s, "live")
  /\ factories' = [factories EXCEPT ![ctx[s]] = s]
  /\ activeContext' = ctx[s]
  /\ activeNamespaces' = Restored[ctx[s]]
  /\ activeNamespacesSeq' = 0
  /\ UNCHANGED <<activeContextSeq, metricsClients, proxyVersion, scope, stopping,
                 proxyVars, pluginVars, callLocals, selVars>>

\* The same section when a newer call has claimed: its own handle is stopped, but the
\* client is cached and the factory of its context is stopped all the same.
Supersede(s) ==
  /\ Goto(s, "commit", "superseded")
  /\ s < activeContextSeq
  /\ CacheClient(s)
  /\ ReplaceHandle(s, "stopped")
  /\ UNCHANGED <<activeContext, activeContextSeq, activeNamespaces, activeNamespacesSeq,
                 metricsClients, factories, proxyVersion, scope, stopping,
                 proxyVars, pluginVars, callLocals, selVars>>

\* emitActiveContextToPlugins and emitActiveNamespacesToPlugins, without the lock.
PushContext(s) ==
  /\ Goto(s, "pushContext", "pushNamespaces")
  /\ pluginContext' = ctx[s]
  /\ UNCHANGED <<appVars, handleVars, proxyVars, pluginNamespaces, callLocals, selVars>>

PushNamespaces(s) ==
  /\ Goto(s, "pushNamespaces", "wire")
  /\ pluginNamespaces' = Restored[ctx[s]]
  /\ UNCHANGED <<appVars, handleVars, proxyVars, pluginContext, callLocals, selVars>>

\* The second write-locked section: event handlers, RescopeX(restoredNamespaces), metrics.
Wire(s) ==
  /\ Goto(s, "wire", "done")
  /\ scope' = [scope EXCEPT ![s] = Restored[ctx[s]]]
  /\ metricsClients' = metricsClients \union {ctx[s]}
  /\ UNCHANGED <<activeContext, activeContextSeq, activeNamespaces, activeNamespacesSeq,
                 clients, restConfigs, factories, proxyVersion, handle, stopping,
                 proxyVars, pluginVars, callLocals, selVars>>

ConnectStep(s) ==
  \/ Claim(s) \/ ClearPluginContext(s) \/ ClearPluginNamespaces(s) \/ ReadState(s)
  \/ StopPrevious(s) \/ EnsureProxy(s) \/ WaitProxy(s) \/ Probe(s)
  \/ Commit(s) \/ Supersede(s) \/ PushContext(s) \/ PushNamespaces(s) \/ Wire(s)

-----------------------------------------------------------------------------
(* The setup-command proxy and handleProxyLost *)

\* The launch settles.  One that was stopped on its way may end in Idle, report
\* Degraded all the same, or find itself ready too late and leave Stopping for good.
ProxySettles(c) ==
  /\ \/ /\ proxy[c] \in {"starting", "stopping"}
        /\ proxy' = [proxy EXCEPT ![c] = "off"]
        /\ lost' = [lost EXCEPT ![c] = @ + 1]
     \/ /\ proxy[c] = "starting"
        /\ proxy' = [proxy EXCEPT ![c] = "ready"]
        /\ UNCHANGED lost
     \/ /\ proxy[c] = "stopping"
        /\ \E st \in {"off", "stuck"} : proxy' = [proxy EXCEPT ![c] = st]
        /\ UNCHANGED lost
  /\ UNCHANGED <<appVars, handleVars, manager, pluginVars, pc, callLocals, selVars>>

\* The process dies or fails its health check after it was Ready.
ProxyDies(c) ==
  /\ proxy[c] = "ready"
  /\ proxy' = [proxy EXCEPT ![c] = "off"]
  /\ lost' = [lost EXCEPT ![c] = @ + 1]
  /\ UNCHANGED <<appVars, handleVars, manager, pluginVars, pc, callLocals, selVars>>

\* Mutant: neither the active context nor a missing factory is looked at.
HandleProxyLost_Unchecked(c) ==
  /\ lost[c] > 0
  /\ lost' = [lost EXCEPT ![c] = @ - 1]
  /\ stopping' = stopping \union {factories[c]}
  /\ factories' = [factories EXCEPT ![c] = 0]
  /\ clients' = [clients EXCEPT ![c] = 0]
  /\ restConfigs' = restConfigs \ {c}
  /\ metricsClients' = metricsClients \ {c}
  /\ activeContext' = NoCtx
  /\ UNCHANGED <<activeContextSeq, activeNamespaces, activeNamespacesSeq, proxyVersion,
                 handle, scope, proxy, manager, pluginVars, pc, callLocals, selVars>>

\* handleProxyLost: nothing unless c is active; the factory is stopped after the unlock.
HandleProxyLost(c) ==
  /\ lost[c] > 0
  /\ lost' = [lost EXCEPT ![c] = @ - 1]
  /\ \/ /\ activeContext = c
        /\ stopping' = stopping \union ({factories[c]} \ {0})
        /\ factories' = [factories EXCEPT ![c] = 0]
        /\ clients' = [clients EXCEPT ![c] = 0]
        /\ restConfigs' = restConfigs \ {c}
        /\ metricsClients' = metricsClients \ {c}
        /\ activeContext' = NoCtx
     \/ /\ activeContext # c
        /\ UNCHANGED <<stopping, factories, clients, restConfigs, metricsClients,
                       activeContext>>
  /\ UNCHANGED <<activeContextSeq, activeNamespaces, activeNamespacesSeq, proxyVersion,
                 handle, scope, proxy, manager, pluginVars, pc, callLocals, selVars>>

StopLostFactory(h) ==
  /\ h \in stopping
  /\ stopping' = stopping \ {h}
  /\ handle' = [handle EXCEPT ![h] = "stopped"]
  /\ UNCHANGED <<appVars, scope, proxyVars, pluginVars, pc, callLocals, selVars>>

\* SaveClusterProxy: new settings, and the cached client is evicted.
SaveClusterProxy(c) ==
  /\ proxyVersion[c] <= MaxSaves
  /\ proxyVersion' = [proxyVersion EXCEPT ![c] = @ + 1]
  /\ clients' = [clients EXCEPT ![c] = 0]
  /\ UNCHANGED <<activeContext, activeContextSeq, activeNamespaces, activeNamespacesSeq,
                 restConfigs, metricsClients, factories, handleVars, proxyVars,
                 pluginVars, pc, callLocals, selVars>>

-----------------------------------------------------------------------------
(* SetActiveNamespaces *)

\* The page calls SetActiveNamespaces(f, ++callSeq).
IssueSelection(n, f) ==
  /\ \A m \in Selection : m < n => selPc[m] # "idle"
  /\ selPc[n] = "idle"
  /\ selPc' = [selPc EXCEPT ![n] = "sent"]
  /\ pageSeq' = pageSeq + 1
  /\ selSeq' = [selSeq EXCEPT ![n] = pageSeq + 1]
  /\ selFilter' = [selFilter EXCEPT ![n] = f]
  /\ UNCHANGED <<appVars, handleVars, proxyVars, pluginVars, pc, callLocals,
                 selHandle, page>>

\* A reload of the page restarts its callSeq; the host process and its state live on.
Reload ==
  /\ page < MaxReloads
  /\ page' = page + 1
  /\ pageSeq' = 0
  /\ UNCHANGED <<appVars, handleVars, proxyVars, pluginVars, pc, callLocals,
                 selPc, selSeq, selFilter, selHandle>>

\* Mutant: a late selection is applied too.
ApplySelection_AnyOrder(n) ==
  /\ selPc[n] = "sent"
  /\ activeNamespacesSeq' = selSeq[n]
  /\ activeNamespaces' = selFilter[n]
  /\ selHandle' = [selHandle EXCEPT
       ![n] = IF activeContext = NoCtx THEN 0 ELSE factories[activeContext]]
  /\ selPc' = [selPc EXCEPT ![n] = "rescope"]
  /\ UNCHANGED <<activeContext, activeContextSeq, clients, restConfigs, metricsClients,
                 factories, proxyVersion, handleVars, proxyVars, pluginVars, pc,
                 callLocals, selSeq, selFilter, pageSeq, page>>

\* The locked section: drop a stale selection, else record it and take the handle.
ApplySelection(n) ==
  /\ selPc[n] = "sent"
  /\ selSeq[n] > activeNamespacesSeq
  /\ activeNamespacesSeq' = selSeq[n]
  /\ activeNamespaces' = selFilter[n]
  /\ selHandle' = [selHandle EXCEPT
       ![n] = IF activeContext = NoCtx THEN 0 ELSE factories[activeContext]]
  /\ selPc' = [selPc EXCEPT ![n] = "rescope"]
  /\ UNCHANGED <<activeContext, activeContextSeq, clients, restConfigs, metricsClients,
                 factories, proxyVersion, handleVars, proxyVars, pluginVars, pc,
                 callLocals, selSeq, selFilter, pageSeq, page>>

DropSelection(n) ==
  /\ selPc[n] = "sent"
  /\ selSeq[n] <= activeNamespacesSeq
  /\ selPc' = [selPc EXCEPT ![n] = "dropped"]
  /\ UNCHANGED <<appVars, handleVars, proxyVars, pluginVars, pc, callLocals,
                 selSeq, selFilter, selHandle, pageSeq, page>>

\* h.RescopeX(namespaces) on the handle taken under the lock, after the unlock.
RescopeSelection(n) ==
  /\ selPc[n] = "rescope"
  /\ selPc' = [selPc EXCEPT ![n] = "push"]
  /\ scope' = IF selHandle[n] = 0 THEN scope
              ELSE [scope EXCEPT ![selHandle[n]] = selFilter[n]]
  /\ UNCHANGED <<appVars, handle, stopping, proxyVars, pluginVars, pc, callLocals,
                 selSeq, selFilter, selHandle, pageSeq, page>>

PushSelection(n) ==
  /\ selPc[n] = "push"
  /\ selPc' = [selPc EXCEPT ![n] = "done"]
  /\ pluginNamespaces' = selFilter[n]
  /\ UNCHANGED <<appVars, handleVars, proxyVars, pluginContext, pc, callLocals,
                 selSeq, selFilter, selHandle, pageSeq, page>>

SelectionStep(n) ==
  ApplySelection(n) \/ DropSelection(n) \/ RescopeSelection(n) \/ PushSelection(n)

-----------------------------------------------------------------------------
Next ==
  \/ \E s \in Call : (\E c \in Ctx : IssueConnect(s, c)) \/ ConnectStep(s)
  \/ \E c \in Ctx : ProxySettles(c) \/ ProxyDies(c) \/ HandleProxyLost(c)
                    \/ SaveClusterProxy(c)
  \/ \E h \in Call : StopLostFactory(h)
  \/ \E n \in Selection : (\E f \in Filter : IssueSelection(n, f)) \/ SelectionStep(n)
  \/ Reload

Spec == Init /\ [][Next]_vars

\* Every goroutine that has started runs on: the probe and the acks have timeouts and
\* the launch of a setup command settles.  Nothing obliges a user to call anything.
Fairness ==
  /\ \A s \in Call : WF_vars(ConnectStep(s))
  /\ \A c \in Ctx : WF_vars(ProxySettles(c)) /\ WF_vars(HandleProxyLost(c))
  /\ \A h \in Call : WF_vars(StopLostFactory(h))
  /\ \A n \in Selection : WF_vars(SelectionStep(n))

FairSpec == Spec /\ Fairness

-----------------------------------------------------------------------------
(* Properties *)

\* Type invariant of the session's state.
TypeOK ==
  /\ activeContext \in Ctx \union {NoCtx} /\ activeContextSeq \in {0} \union Call
  /\ activeNamespaces \in Filter \union {NoFilter} /\ activeNamespacesSeq \in Nat
  /\ clients \in [Ctx -> {0} \union Version]
  /\ restConfigs \subseteq Ctx /\ metricsClients \subseteq Ctx
  /\ factories \in [Ctx -> {0} \union Call]
  /\ proxyVersion \in [Ctx -> Version]
  /\ handle \in [Call -> {"none", "live", "stopped"}]
  /\ scope \in [Call -> Filter \union {NoFilter}]
  /\ stopping \subseteq Call
  /\ proxy \in [Ctx -> ProxyState]
  /\ manager \in [Ctx -> {0} \union Version]
  /\ lost \in [Ctx -> Nat]
  /\ pluginContext \in Ctx \union {NoCtx}
  /\ pluginNamespaces \in Filter \union {NoFilter}
  /\ pc \in [Call -> CallPc]
  /\ ctx \in [Call -> Ctx \union {NoCtx}]
  /\ \A s \in Call : pc[s] # "idle" => ctx[s] \in Ctx
  /\ cached \in [Call -> {0} \union Version]
  /\ settings \in [Call -> {0} \union Version]
  /\ previous \in [Call -> Ctx \union {NoCtx}]
  /\ \A s \in Call : pc[s] \in {"stopPrevious", "ensureProxy", "waitProxy", "probe", "commit"}
                       => settings[s] # 0
  /\ selPc \in [Selection -> SelPc]
  /\ selSeq \in [Selection -> Nat]
  /\ selFilter \in [Selection -> Filter \union {NoFilter}]
  /\ \A n \in Selection : selPc[n] # "idle" => selFilter[n] \in Filter
  /\ selHandle \in [Selection -> {0} \union Call]
  /\ pageSeq \in Nat /\ page \in Nat

\* Connect, app.go:408-421: whatever the order in which overlapping calls reach the
\* commit, the active context and its registered factory are those of the newest call
\* that committed, and no call newer than that has been passed over in its favour.
NewestCommitIsActive ==
  activeContext # NoCtx =>
    LET s == factories[activeContext] IN
    /\ s \in Committed
    /\ ctx[s] = activeContext
    /\ \A t \in Committed : t <= s

\* A factory handle whose informers run is registered under its context, where the next
\* Connect or handleProxyLost finds it, or handleProxyLost is about to stop it
\* (app.go:283-291, 392-394, 411-420): none is ever left running out of reach.
NoOrphanHandle ==
  \A h \in Call : handle[h] = "live" => factories[ctx[h]] = h \/ h \in stopping

\* activeNamespaces is the context's restored default until a selection is applied, and
\* from then on the applied selection with the highest seq, although selections arrive
\* out of order and every Connect resets the counter (namespace.go:205-212, app.go:432-445).
FilterIsNewestSelection ==
  activeContext # NoCtx =>
    LET h == factories[activeContext]
        applied == {n \in Accepted : selHandle[n] = h}
    IN
    \/ /\ applied = {}
       /\ activeNamespaces = Restored[activeContext] /\ activeNamespacesSeq = 0
    \/ \E n \in applied : /\ activeNamespaces = selFilter[n]
                          /\ activeNamespacesSeq = selSeq[n]
                          /\ \A m \in applied : selSeq[m] <= selSeq[n]

\* emitActiveContextToPlugins and clearPluginClusterState, plugin.go:45-89: a plugin that
\* serves a cluster serves the active one; between a switch and its push it serves none.
\* It holds when the frontend waits for a switch to end before it starts the next.
PluginServesActiveOrNone ==
  pluginContext # NoCtx /\ activeContext # NoCtx => pluginContext = activeContext

\* Every Connect call returns, also when it waits for the setup command of a context
\* whose proxy a concurrent switch stops or replaces (app.go:348-358).
EveryConnectReturns ==
  \A s \in Call : pc[s] = "sent" ~> pc[s] \in Returned

\* What the switches amount to for everyone else: see SessionContract.
Contract == INSTANCE SessionContract
            WITH Proxied <- ProxyCtx, Seq <- Call, active <- activeContext, applied <- Committed

\* The session implements its contract (tryClaimConnectSeq and app.go:411-421).
ImplementsContract == Contract!Spec

(* What comments in the source say, and overlapping calls break. *)

\* app.go:408-410, "don't let a stale call clobber it": the active context's informers run.
\* Two overlapping Connect calls break it; one switch at a time keeps it.
ActiveFactoryRuns ==
  activeContext # NoCtx => \E h \in Call : factories[activeContext] = h /\ handle[h] = "live"

=============================================================================
