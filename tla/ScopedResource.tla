--------------------------- MODULE ScopedResource ---------------------------
(***************************************************************************)
(* One nsscope.ScopedResource (internal/kube/nsscope) inside its           *)
(* FactoryHandle: the informers of one resource type, rebuilt by Rescope   *)
(* whenever the namespace filter changes, while informers list, sync, are  *)
(* denied by RBAC or are stopped.                                          *)
(*                                                                         *)
(* Rescope calls overlap (Connect and SetActiveNamespaces both make them), *)
(* and so does FactoryHandle.Stop.  A group has the name of the Rescope    *)
(* call that built it; group 0 is the cluster-wide one New starts with.    *)
(***************************************************************************)
EXTENDS Naturals, FiniteSets

CONSTANTS
  Ns,             \* namespaces
  Everywhere,     \* the forbidden key "": the cluster-wide informer was denied
  MaxNamespaces,  \* Config.MaxNamespaces
  MaxCalls,       \* bound: Rescope calls
  HasGlobalStop,  \* Config.GlobalStop # nil
  MayStop,        \* bound: whether the handle is ever stopped
  NoGroup

Call == 1..MaxCalls
Group == {0} \union Call

ASSUME ScopeAssumption ==
  /\ IsFiniteSet(Ns)
  /\ MaxNamespaces \in Nat /\ MaxCalls \in Nat
  /\ Everywhere \notin Ns /\ NoGroup \notin Group
  /\ HasGlobalStop \in BOOLEAN /\ MayStop \in BOOLEAN

VARIABLES
  \* ScopedResource
  group,        \* r.group, and with it the lister
  scopeOf,      \* namespaces of each group, {}: cluster-wide
  stop,         \* groups whose stop channel is closed
  nsStop,       \* <<group, namespace>> whose own stop channel is closed
  synced,       \* groups whose synced channel is closed
  clusterStop,  \* the group whose stop channel ends the cluster-wide informer, NoGroup: GlobalStop
  \* informers: "none", "listing", "synced", "denied" (and its cache evicted)
  informer, cluster,
  \* FactoryHandle
  forbidden,    \* the resource's keys in h.forbidden
  globalStop,   \* h.globalStop is closed
  \* Rescope calls
  pc, want, old,
  \* watch error handlers under way
  denial,       \* of a namespace's informer: "none", "check", "record", "done"
  clusterDenial,\* the group the cluster-wide informer's handler found, NoGroup: none
  \* FactoryHandle.Stop
  stopPc, stopGroup

resourceVars == <<group, scopeOf, stop, nsStop, synced, clusterStop>>
handleVars == <<forbidden, globalStop>>
callVars == <<pc, want, old>>
denialVars == <<denial, clusterDenial>>
stopVars == <<stopPc, stopGroup>>
vars == <<resourceVars, informer, cluster, handleVars, callVars, denialVars, stopVars>>

Built == {0} \union {r \in Call : pc[r] \in {"swap", "stopOld", "done"}}
CallPc == {"idle", "clear", "build", "swap", "stopOld", "done", "noop"}
InformerState == {"none", "listing", "synced", "denied"}

\* A namespace's informer runs until either of its channels is closed (orDone).
Running(g, n) == informer[g][n] # "none" /\ g \notin stop /\ <<g, n>> \notin nsStop
ClusterRunning ==
  cluster # "none" /\ IF clusterStop = NoGroup THEN ~globalStop ELSE clusterStop \notin stop

Goto(r, from, to) == pc[r] = from /\ pc' = [pc EXCEPT ![r] = to]

-----------------------------------------------------------------------------
\* New has built the cluster-wide group and started its informer.
Init ==
  /\ group = 0
  /\ scopeOf = [g \in Group |-> {}]
  /\ stop = {} /\ nsStop = {} /\ synced = {}
  /\ clusterStop = IF HasGlobalStop THEN NoGroup ELSE 0
  /\ informer = [g \in Group |-> [n \in Ns |-> "none"]]
  /\ cluster = "listing"
  /\ forbidden = {} /\ globalStop = FALSE
  /\ pc = [r \in Call |-> "idle"]
  /\ want = [r \in Call |-> {}]
  /\ old = [r \in Call |-> NoGroup]
  /\ denial = [g \in Group |-> [n \in Ns |-> "none"]]
  /\ clusterDenial = NoGroup
  /\ stopPc = "idle" /\ stopGroup = NoGroup

-----------------------------------------------------------------------------
(* Rescope *)

\* Mutant: the limit is not looked at.
Normalize_NoLimit(N) == N

\* normalize: no namespace, or too many of them, is cluster-wide.
Normalize(N) == IF Cardinality(N) > MaxNamespaces THEN {} ELSE N

\* The read-locked look at the current group: nothing to do, or a rebuild.
Rescope(r, N) ==
  /\ \A q \in Call : q < r => pc[q] # "idle"
  /\ want' = [want EXCEPT ![r] = Normalize(N)]
  /\ Goto(r, "idle", IF scopeOf[group] = Normalize(N) THEN "noop" ELSE "clear")
  /\ UNCHANGED <<resourceVars, informer, cluster, handleVars, old, denialVars, stopVars>>

\* cfg.ClearForbidden
ClearForbidden(r) ==
  /\ Goto(r, "clear", "build")
  /\ forbidden' = {}
  /\ UNCHANGED <<resourceVars, informer, cluster, globalStop, want, old, denialVars,
                 stopVars>>

\* Mutant: the cluster-wide informer is run on the stop channel of the group that uses it.
BuildGroup_OwnStop(r) ==
  /\ Goto(r, "build", "swap")
  /\ scopeOf' = [scopeOf EXCEPT ![r] = want[r]]
  /\ informer' = [informer EXCEPT
       ![r] = [n \in Ns |-> IF n \in want[r] THEN "listing" ELSE "none"]]
  /\ clusterStop' = IF want[r] = {} THEN r ELSE clusterStop
  /\ UNCHANGED <<group, stop, nsStop, synced, cluster, handleVars, want, old, denialVars,
                 stopVars>>

\* buildGroup: an informer for each namespace is started; the cluster-wide one is reused.
BuildGroup(r) ==
  /\ Goto(r, "build", "swap")
  /\ scopeOf' = [scopeOf EXCEPT ![r] = want[r]]
  /\ informer' = [informer EXCEPT
       ![r] = [n \in Ns |-> IF n \in want[r] THEN "listing" ELSE "none"]]
  /\ UNCHANGED <<group, stop, nsStop, synced, clusterStop, cluster, handleVars, want, old,
                 denialVars, stopVars>>

\* Mutant: the old group is the one this call saw when it started.
Swap_StaleOld(r) ==
  /\ Goto(r, "swap", "stopOld")
  /\ old' = [old EXCEPT ![r] = 0]
  /\ group' = r
  /\ UNCHANGED <<scopeOf, stop, nsStop, synced, clusterStop, informer, cluster, handleVars,
                 want, denialVars, stopVars>>

\* The write-locked section.
Swap(r) ==
  /\ Goto(r, "swap", "stopOld")
  /\ old' = [old EXCEPT ![r] = group]
  /\ group' = r
  /\ UNCHANGED <<scopeOf, stop, nsStop, synced, clusterStop, informer, cluster, handleVars,
                 want, denialVars, stopVars>>

StopOld(r) ==
  /\ Goto(r, "stopOld", "done")
  /\ stop' = stop \union {old[r]}
  /\ UNCHANGED <<group, scopeOf, nsStop, synced, clusterStop, informer, cluster, handleVars,
                 want, old, denialVars, stopVars>>

RescopeStep(r) == ClearForbidden(r) \/ BuildGroup(r) \/ Swap(r) \/ StopOld(r)

-----------------------------------------------------------------------------
(* Informers and their watch error handlers *)

\* An initial LIST succeeds.
List(g, n) ==
  /\ Running(g, n) /\ informer[g][n] = "listing"
  /\ informer' = [informer EXCEPT ![g][n] = "synced"]
  /\ UNCHANGED <<resourceVars, cluster, handleVars, callVars, denialVars, stopVars>>

ListCluster ==
  /\ ClusterRunning /\ cluster \in {"listing", "denied"}
  /\ cluster' = "synced"
  /\ UNCHANGED <<resourceVars, informer, handleVars, callVars, denialVars, stopVars>>

\* Mutant: a denied namespace closes the stop channel of its whole group.
Deny_StopGroup(g, n) ==
  /\ Running(g, n)
  /\ informer' = [informer EXCEPT ![g][n] = "denied"]
  /\ stop' = stop \union {g}
  /\ nsStop' = nsStop \union {<<g, n>>}
  /\ denial' = [denial EXCEPT ![g][n] = "check"]
  /\ UNCHANGED <<group, scopeOf, synced, clusterStop, cluster, handleVars, callVars,
                 clusterDenial, stopVars>>

\* "is forbidden": the cache is evicted and this one informer is stopped ...
Deny(g, n) ==
  /\ Running(g, n)
  /\ informer' = [informer EXCEPT ![g][n] = "denied"]
  /\ nsStop' = nsStop \union {<<g, n>>}
  /\ denial' = [denial EXCEPT ![g][n] = "check"]
  /\ UNCHANGED <<group, scopeOf, stop, synced, clusterStop, cluster, handleVars, callVars,
                 clusterDenial, stopVars>>

\* ... then markForbidden looks whether its group is the current one ...
CheckDenial(g, n) ==
  /\ denial[g][n] = "check"
  /\ denial' = [denial EXCEPT ![g][n] = IF group = g THEN "record" ELSE "done"]
  /\ UNCHANGED <<resourceVars, informer, cluster, handleVars, callVars, clusterDenial,
                 stopVars>>

\* ... and calls OnForbidden after the unlock.
RecordDenial(g, n) ==
  /\ denial[g][n] = "record"
  /\ denial' = [denial EXCEPT ![g][n] = "done"]
  /\ forbidden' = forbidden \union {n}
  /\ UNCHANGED <<resourceVars, informer, cluster, globalStop, callVars, clusterDenial,
                 stopVars>>

\* The cluster-wide informer is denied; it goes on retrying.  markForbiddenShared takes
\* the current group if it uses that informer.
DenyCluster ==
  /\ ClusterRunning /\ clusterDenial = NoGroup
  /\ cluster' = "denied"
  /\ clusterDenial' = IF scopeOf[group] = {} THEN group ELSE NoGroup
  /\ UNCHANGED <<resourceVars, informer, handleVars, callVars, denial, stopVars>>

RecordClusterDenial ==
  /\ clusterDenial # NoGroup
  /\ clusterDenial' = NoGroup
  /\ stop' = stop \union {clusterDenial}
  /\ forbidden' = forbidden \union {Everywhere}
  /\ UNCHANGED <<group, scopeOf, nsStop, synced, clusterStop, informer, cluster, globalStop,
                 callVars, denial, stopVars>>

DenialStep ==
  \/ \E g \in Group, n \in Ns : CheckDenial(g, n) \/ RecordDenial(g, n)
  \/ RecordClusterDenial

\* Mutant: a stopped informer is waited for.
Resolved_SyncedOnly(g, n) == informer[g][n] = "synced"

\* The sync functions of a group: a stopped informer is not waited for.
Resolved(g, n) == informer[g][n] = "synced" \/ <<g, n>> \in nsStop

\* WaitForCacheSync returns; the timeout may end it at any time.
CloseSynced(g) ==
  /\ g \in Built \ synced
  /\ synced' = synced \union {g}
  /\ UNCHANGED <<group, scopeOf, stop, nsStop, clusterStop, informer, cluster, handleVars,
                 callVars, denialVars, stopVars>>

SyncGroup(g) ==
  /\ CloseSynced(g)
  /\ \/ g \in stop
     \/ scopeOf[g] = {} /\ cluster = "synced"
     \/ scopeOf[g] # {} /\ \A n \in scopeOf[g] : Resolved(g, n)

SyncTimeout(g) == CloseSynced(g)

-----------------------------------------------------------------------------
(* FactoryHandle.Stop *)

\* globalStop is closed, then ScopedResource.Stop reads the current group ...
StopBegin ==
  /\ MayStop /\ stopPc = "idle"
  /\ stopPc' = "stop"
  /\ globalStop' = TRUE
  /\ stopGroup' = group
  /\ UNCHANGED <<resourceVars, informer, cluster, forbidden, callVars, denialVars>>

\* ... and closes its stop channel after the unlock.
StopGroup ==
  /\ stopPc = "stop"
  /\ stopPc' = "done"
  /\ stop' = stop \union {stopGroup}
  /\ UNCHANGED <<group, scopeOf, nsStop, synced, clusterStop, informer, cluster, handleVars,
                 callVars, denialVars, stopGroup>>

-----------------------------------------------------------------------------
Next ==
  \/ \E r \in Call : (\E N \in SUBSET Ns : Rescope(r, N)) \/ RescopeStep(r)
  \/ \E g \in Group, n \in Ns : List(g, n) \/ Deny(g, n)
  \/ ListCluster \/ DenyCluster \/ DenialStep
  \/ \E g \in Group : SyncGroup(g) \/ SyncTimeout(g)
  \/ StopBegin \/ StopGroup

Spec == Init /\ [][Next]_vars

\* Goroutines run on, and a LIST that is under way is answered one way or the other.  The
\* sync timeout is not counted on.
Fairness ==
  /\ \A r \in Call : WF_vars(RescopeStep(r))
  /\ \A g \in Group, n \in Ns :
       WF_vars(List(g, n) \/ (informer[g][n] = "listing" /\ Deny(g, n)))
  /\ WF_vars(ListCluster) /\ WF_vars(RecordClusterDenial) /\ WF_vars(StopGroup)
  /\ \A g \in Group : WF_vars(SyncGroup(g))

FairSpec == Spec /\ Fairness

-----------------------------------------------------------------------------
(* Properties *)

\* Type invariant of the resource.
TypeOK ==
  /\ group \in Group /\ scopeOf \in [Group -> SUBSET Ns]
  /\ \A g \in Group : scopeOf[g] = {} \/ Cardinality(scopeOf[g]) <= MaxNamespaces
  /\ stop \subseteq Group /\ nsStop \subseteq Group \X Ns /\ synced \subseteq Group
  /\ clusterStop \in Group \union {NoGroup}
  /\ informer \in [Group -> [Ns -> InformerState]]
  /\ cluster \in InformerState
  /\ forbidden \subseteq Ns \union {Everywhere} /\ globalStop \in BOOLEAN
  /\ pc \in [Call -> CallPc] /\ want \in [Call -> SUBSET Ns]
  /\ old \in [Call -> Group \union {NoGroup}]
  /\ denial \in [Group -> [Ns -> {"none", "check", "record", "done"}]]
  /\ clusterDenial \in Group \union {NoGroup}
  /\ stopPc \in {"idle", "stop", "done"} /\ stopGroup \in Group \union {NoGroup}

\* Rescope, scoped_resource.go:192-202: however calls overlap, the only group that keeps
\* informers running is the current one, or one that a call is about to publish or to stop.
OnlyCurrentGroupRuns ==
  \A g \in Group : (\E n \in Ns : Running(g, n)) =>
    \/ g = group
    \/ g # 0 /\ pc[g] = "swap"
    \/ \E r \in Call : pc[r] = "stopOld" /\ old[r] = g

\* markForbidden, scoped_resource.go:408-436: a namespace that is denied takes no sibling
\* down with it: until the handle is stopped every informer of the current group runs, or
\* was denied itself.
DenialIsContained ==
  stopPc = "idle" => \A n \in scopeOf[group] : Running(group, n) \/ denial[group][n] # "none"

\* Config.GlobalStop, scoped_resource.go:114-131: the cluster-wide informer survives every
\* change of scope, so that whenever it backs the resource again it is still running.
ClusterViewLives ==
  scopeOf[group] = {} /\ ~globalStop => ClusterRunning

\* buildGroup, scoped_resource.go:324-342: the synced channel of every group closes once its
\* namespaces are synced or given up on, without waiting for the sync timeout, unless the
\* handle is stopped first (a cluster-wide informer it ended never syncs).
SyncNeedsNoTimeout ==
  \A g \in Group : g \in Built ~> g \in synced \/ stopPc # "idle"

=============================================================================
