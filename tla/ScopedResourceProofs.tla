------------------------- MODULE ScopedResourceProofs -------------------------
(***************************************************************************)
(* Proofs about ScopedResource, for every finite set of namespaces and     *)
(* every number of Rescope calls: type correctness, OnlyCurrentGroupRuns,  *)
(* DenialIsContained and, where Config.GlobalStop is set, ClusterViewLives.*)
(***************************************************************************)
EXTENDS ScopedResource, FiniteSetTheorems, TLAPS

-----------------------------------------------------------------------------
(* The inductive invariant *)

\* The groups that are, or were, the current one.
Published(g) == g \in Group /\ (g # 0 => pc[g] \in {"stopOld", "done"})

\* A call keeps its namespaces within the limit.
WantFits == \A r \in Call : want[r] = {} \/ Cardinality(want[r]) <= MaxNamespaces

\* Who refers to a group to stop it found it published, and a call that stops the group it
\* replaced does not stop the current one.
Referred ==
  /\ Published(group)
  /\ \A g \in stop : Published(g)
  /\ \A r \in Call : pc[r] = "stopOld" => Published(old[r]) /\ old[r] # group
  /\ clusterDenial # NoGroup => Published(clusterDenial) /\ scopeOf[clusterDenial] = {}
  /\ stopPc = "stop" => Published(stopGroup)

\* A group has informers for its namespaces, and only once it is built.
InformersOfScope ==
  \A g \in Group, n \in Ns : informer[g][n] # "none" <=> g \in Built /\ n \in scopeOf[g]

\* The group of New is cluster-wide.
FirstIsClusterWide == scopeOf[0] = {}

\* A group that was replaced is stopped, or about to be by the call that replaced it.
Retired ==
  \A g \in Group : Published(g) =>
    g = group \/ g \in stop \/ \E r \in Call : pc[r] = "stopOld" /\ old[r] = g

\* The current group is stopped by FactoryHandle.Stop, or as a denied cluster-wide one.
CurrentLives == group \in stop => stopPc # "idle" \/ scopeOf[group] = {}

\* An informer is stopped by the handler of its denial.
StoppedWasDenied == \A g \in Group, n \in Ns : <<g, n>> \in nsStop => denial[g][n] # "none"

ScopeInv ==
  /\ TypeOK /\ WantFits /\ Referred /\ InformersOfScope /\ FirstIsClusterWide
  /\ Retired /\ CurrentLives /\ StoppedWasDenied

-----------------------------------------------------------------------------
(* Type correctness *)

\* New leaves a resource with the types TypeOK states.
LEMMA InitType == Init => TypeOK
<1> SUFFICES ASSUME Init PROVE TypeOK
  OBVIOUS
<1>1. 0 \in Group /\ Call \subseteq Group
  BY DEF Group
<1>2. /\ informer \in [Group -> [Ns -> InformerState]]
      /\ denial \in [Group -> [Ns -> {"none", "check", "record", "done"}]]
  BY DEF Init, InformerState
<1>3. clusterStop \in Group \union {NoGroup} /\ cluster \in InformerState
  BY <1>1 DEF Init, InformerState
<1>4. QED
  BY <1>1, <1>2, <1>3, ScopeAssumption DEF Init, TypeOK, CallPc

\* normalize returns namespaces within the limit, or none.
LEMMA NormalizeFits ==
  ASSUME NEW N \in SUBSET Ns
  PROVE  /\ Normalize(N) \in SUBSET Ns
         /\ Normalize(N) = {} \/ Cardinality(Normalize(N)) <= MaxNamespaces
<1>1. Cardinality(N) \in Nat
  BY ScopeAssumption, FS_Subset, FS_CardinalityType
<1>2. QED
  BY <1>1, ScopeAssumption DEF Normalize

\* Every step of a Rescope keeps the types and the limit.
LEMMA RescopeType ==
  ASSUME TypeOK, WantFits, Referred, NEW r \in Call,
         (\E N \in SUBSET Ns : Rescope(r, N)) \/ RescopeStep(r)
  PROVE  TypeOK' /\ WantFits'
<1> USE DEF TypeOK, WantFits, Goto, handleVars, denialVars, stopVars
<1> Call \subseteq Group
  BY DEF Group
<1>1. ASSUME NEW N \in SUBSET Ns, Rescope(r, N)
      PROVE  TypeOK' /\ WantFits'
  BY <1>1, NormalizeFits DEF Rescope, resourceVars, CallPc
<1>2. CASE ClearForbidden(r)
  BY <1>2 DEF ClearForbidden, resourceVars, CallPc
<1>3. CASE BuildGroup(r)
  <2>1. \A g \in Group : scopeOf'[g] = {} \/ Cardinality(scopeOf'[g]) <= MaxNamespaces
    BY <1>3 DEF BuildGroup
  <2>2. QED
    BY <1>3, <2>1 DEF BuildGroup, CallPc, InformerState
<1>4. CASE Swap(r)
  BY <1>4 DEF Swap, CallPc
<1>5. CASE StopOld(r)
  <2>1. old[r] \in Group
    BY <1>5 DEF StopOld, Referred, Published
  <2>2. QED
    BY <1>5, <2>1 DEF StopOld, CallPc
<1>6. QED
  BY <1>1, <1>2, <1>3, <1>4, <1>5 DEF RescopeStep

\* Every step of an informer or of a watch error handler keeps the types.
LEMMA InformerType ==
  ASSUME TypeOK, NEW g \in Group, NEW n \in Ns,
         List(g, n) \/ Deny(g, n) \/ CheckDenial(g, n) \/ RecordDenial(g, n)
  PROVE  TypeOK'
<1> USE DEF TypeOK, InformerState, resourceVars, handleVars, callVars, denialVars, stopVars
<1>1. CASE List(g, n)
  BY <1>1 DEF List
<1>2. CASE Deny(g, n)
  BY <1>2 DEF Deny
<1>3. CASE CheckDenial(g, n)
  BY <1>3 DEF CheckDenial
<1>4. CASE RecordDenial(g, n)
  BY <1>4 DEF RecordDenial
<1>5. QED
  BY <1>1, <1>2, <1>3, <1>4

\* Every step of the cluster-wide informer, of a sync wait or of FactoryHandle.Stop keeps
\* the types.
LEMMA HandleType ==
  ASSUME TypeOK, Referred,
         \/ ListCluster \/ DenyCluster \/ RecordClusterDenial \/ StopBegin \/ StopGroup
         \/ \E g \in Group : SyncGroup(g) \/ SyncTimeout(g)
  PROVE  TypeOK'
<1> USE DEF TypeOK, InformerState, resourceVars, handleVars, callVars, denialVars, stopVars
<1>1. CASE ListCluster
  BY <1>1 DEF ListCluster
<1>2. CASE DenyCluster
  BY <1>2 DEF DenyCluster
<1>3. CASE RecordClusterDenial
  BY <1>3 DEF RecordClusterDenial
<1>4. CASE StopBegin
  BY <1>4 DEF StopBegin
<1>5. CASE StopGroup
  <2>1. stopGroup \in Group
    BY <1>5 DEF StopGroup, Referred, Published
  <2>2. QED
    BY <1>5, <2>1 DEF StopGroup
<1>6. ASSUME NEW g \in Group, SyncGroup(g) \/ SyncTimeout(g)
      PROVE  TypeOK'
  BY <1>6 DEF SyncGroup, SyncTimeout, CloseSynced
<1>7. QED
  BY <1>1, <1>2, <1>3, <1>4, <1>5, <1>6

\* Every step of the resource keeps the types and the limit.
LEMMA NextType == ScopeInv /\ [Next]_vars => TypeOK' /\ WantFits'
<1> SUFFICES ASSUME TypeOK, WantFits, Referred, [Next]_vars
             PROVE  TypeOK' /\ WantFits'
  BY DEF ScopeInv
<1>1. CASE UNCHANGED vars
  BY <1>1 DEF vars, resourceVars, handleVars, callVars, denialVars, stopVars, TypeOK, WantFits
<1>2. ASSUME UNCHANGED want
      PROVE  WantFits'
  BY <1>2 DEF WantFits
<1>3. ASSUME NEW g \in Group, NEW n \in Ns,
             List(g, n) \/ Deny(g, n) \/ CheckDenial(g, n) \/ RecordDenial(g, n)
      PROVE  TypeOK' /\ WantFits'
  BY <1>2, <1>3, InformerType DEF List, Deny, CheckDenial, RecordDenial, callVars
<1>4. ASSUME \/ ListCluster \/ DenyCluster \/ RecordClusterDenial \/ StopBegin \/ StopGroup
             \/ \E g \in Group : SyncGroup(g) \/ SyncTimeout(g)
      PROVE  TypeOK' /\ WantFits'
  BY <1>2, <1>4, HandleType DEF ListCluster, DenyCluster, RecordClusterDenial, StopBegin,
     StopGroup, SyncGroup, SyncTimeout, CloseSynced, callVars
<1>5. QED
  BY <1>1, <1>3, <1>4, RescopeType DEF Next, DenialStep

-----------------------------------------------------------------------------
(* Every step keeps the invariant *)

\* ScopeInv without types speaks of these variables only.
LEMMA ScopeFrame ==
  ASSUME ScopeInv, TypeOK', WantFits',
         UNCHANGED <<group, scopeOf, stop, nsStop, informer, pc, old, denialVars, stopVars>>
  PROVE  ScopeInv'
BY DEF ScopeInv, Referred, Published, InformersOfScope, Built, FirstIsClusterWide, Retired,
       CurrentLives, StoppedWasDenied, denialVars, stopVars

\* An informer lists or is denied, and the handler of its denial goes on.
LEMMA InformerInv ==
  ASSUME ScopeInv, TypeOK', WantFits', NEW g \in Group, NEW n \in Ns,
         List(g, n) \/ Deny(g, n) \/ CheckDenial(g, n) \/ RecordDenial(g, n)
  PROVE  ScopeInv'
<1> USE DEF resourceVars, callVars, stopVars
<1>0. /\ informer \in [Group -> [Ns -> InformerState]]
      /\ denial \in [Group -> [Ns -> {"none", "check", "record", "done"}]]
  BY DEF ScopeInv, TypeOK
<1>1. UNCHANGED <<group, scopeOf, stop, pc, old, clusterDenial, stopPc, stopGroup>>
  BY DEF List, Deny, CheckDenial, RecordDenial, denialVars
<1>2. \A h \in Group, m \in Ns : informer'[h][m] # "none" <=> informer[h][m] # "none"
  BY <1>0 DEF List, Deny, CheckDenial, RecordDenial, Running
<1>3. /\ \A h \in Group, m \in Ns : denial[h][m] # "none" => denial'[h][m] # "none"
      /\ \A h \in Group, m \in Ns :
           <<h, m>> \in nsStop' => <<h, m>> \in nsStop \/ denial'[h][m] # "none"
  BY <1>0 DEF List, Deny, CheckDenial, RecordDenial, denialVars
<1>4. InformersOfScope'
  BY <1>1, <1>2 DEF ScopeInv, InformersOfScope, Built
<1>5. StoppedWasDenied'
  BY <1>3 DEF ScopeInv, StoppedWasDenied
<1>6. QED
  BY <1>1, <1>4, <1>5 DEF ScopeInv, Referred, Published, FirstIsClusterWide, Retired,
                          CurrentLives

\* The cluster-wide informer is denied, and FactoryHandle.Stop goes on.
LEMMA HandleInv ==
  ASSUME ScopeInv, TypeOK', WantFits',
         DenyCluster \/ RecordClusterDenial \/ StopBegin \/ StopGroup
  PROVE  ScopeInv'
<1> USE DEF resourceVars, callVars, stopVars
<1>1. UNCHANGED <<group, scopeOf, nsStop, informer, pc, old, denial>>
  BY DEF DenyCluster, RecordClusterDenial, StopBegin, StopGroup, denialVars
<1>2. InformersOfScope' /\ FirstIsClusterWide' /\ StoppedWasDenied'
  BY <1>1 DEF ScopeInv, InformersOfScope, Built, FirstIsClusterWide, StoppedWasDenied
<1>3. CASE DenyCluster
  BY <1>1, <1>2, <1>3 DEF DenyCluster, ScopeInv, Referred, Published, Retired, CurrentLives
<1>4. CASE RecordClusterDenial
  BY <1>1, <1>2, <1>4 DEF RecordClusterDenial, ScopeInv, Referred, Published, Retired,
                          CurrentLives
<1>5. CASE StopBegin
  BY <1>1, <1>2, <1>5 DEF StopBegin, ScopeInv, Referred, Published, Retired, CurrentLives,
                          denialVars
<1>6. CASE StopGroup
  BY <1>1, <1>2, <1>6 DEF StopGroup, ScopeInv, Referred, Published, Retired, CurrentLives,
                          denialVars
<1>7. QED
  BY <1>3, <1>4, <1>5, <1>6

\* Every step of a Rescope keeps the invariant.
LEMMA RescopeInv ==
  ASSUME ScopeInv, TypeOK', WantFits', NEW r \in Call,
         (\E N \in SUBSET Ns : Rescope(r, N)) \/ RescopeStep(r)
  PROVE  ScopeInv'
<1> USE DEF handleVars, denialVars, stopVars, Goto
<1>0. /\ pc \in [Call -> CallPc] /\ old \in [Call -> Group \union {NoGroup}]
      /\ scopeOf \in [Group -> SUBSET Ns] /\ informer \in [Group -> [Ns -> InformerState]]
      /\ Group = {0} \union Call /\ r # 0 /\ 0 \notin Call
  BY ScopeAssumption DEF ScopeInv, TypeOK, Group, Call
<1>1. ASSUME UNCHANGED <<group, scopeOf, stop, nsStop, informer, old, denialVars, stopVars>>,
             NEW to \in {"noop", "clear", "build"}, pc' = [pc EXCEPT ![r] = to],
             pc[r] \in {"idle", "clear"}
      PROVE  ScopeInv'
  <2>1. \A g : Published(g)' <=> Published(g)
    BY <1>0, <1>1 DEF Published
  <2>2. Built' = Built
    BY <1>0, <1>1 DEF Built
  <2>3. \A q \in Call : pc'[q] = "stopOld" <=> pc[q] = "stopOld"
    BY <1>0, <1>1
  <2>4. Referred' /\ Retired'
    BY <1>1, <2>1, <2>3 DEF ScopeInv, Referred, Retired
  <2>5. QED
    BY <1>1, <2>2, <2>4 DEF ScopeInv, InformersOfScope, FirstIsClusterWide, CurrentLives,
                            StoppedWasDenied
<1>2. ASSUME NEW N \in SUBSET Ns, Rescope(r, N)
      PROVE  ScopeInv'
  BY <1>1, <1>2 DEF Rescope, resourceVars
<1>3. CASE ClearForbidden(r)
  BY <1>1, <1>3 DEF ClearForbidden, resourceVars
<1>4. CASE BuildGroup(r)
  <2>1. UNCHANGED <<group, stop, nsStop, old, clusterDenial, denial, stopPc, stopGroup>>
    BY <1>4 DEF BuildGroup
  <2>2. pc[r] = "build" /\ pc' = [pc EXCEPT ![r] = "swap"]
    BY <1>4 DEF BuildGroup
  <2>3. /\ scopeOf' = [scopeOf EXCEPT ![r] = want[r]]
        /\ informer' = [informer EXCEPT
             ![r] = [n \in Ns |-> IF n \in want[r] THEN "listing" ELSE "none"]]
    BY <1>4 DEF BuildGroup
  <2>4. (\A g : Published(g)' <=> Published(g)) /\ ~Published(r)
    BY <1>0, <2>2 DEF Published
  <2>5. r \notin Built /\ Built' = Built \union {r}
    BY <1>0, <2>2 DEF Built
  <2>6. \A q \in Call : pc'[q] = "stopOld" <=> pc[q] = "stopOld"
    BY <1>0, <2>2
  <2>7. \A g \in Group : g # r => scopeOf'[g] = scopeOf[g] /\ informer'[g] = informer[g]
    BY <1>0, <2>3
  <2>8. scopeOf'[r] = want[r] /\ \A n \in Ns : informer'[r][n] # "none" <=> n \in want[r]
    BY <1>0, <2>3
  <2>9. InformersOfScope'
    BY <2>5, <2>7, <2>8 DEF ScopeInv, InformersOfScope
  <2>10. Referred' /\ Retired'
    <3>1. \A g : Published(g) => g \in Group /\ g # r
      BY <2>4 DEF Published
    <3>2. QED
      BY <2>1, <2>4, <2>6, <2>7, <3>1 DEF ScopeInv, Referred, Retired
  <2>11. FirstIsClusterWide' /\ CurrentLives' /\ StoppedWasDenied'
    <3>1. group \in Group /\ group # r
      BY <2>4 DEF ScopeInv, Referred, Published
    <3>2. QED
      BY <1>0, <2>1, <2>7, <3>1 DEF ScopeInv, FirstIsClusterWide, CurrentLives, StoppedWasDenied
  <2>12. QED
    BY <2>9, <2>10, <2>11 DEF ScopeInv
<1>5. CASE Swap(r)
  <2>1. UNCHANGED <<scopeOf, stop, nsStop, informer, clusterDenial, denial, stopPc, stopGroup>>
    BY <1>5 DEF Swap
  <2>2. pc[r] = "swap" /\ pc' = [pc EXCEPT ![r] = "stopOld"]
    BY <1>5 DEF Swap
  <2>3. group' = r /\ old' = [old EXCEPT ![r] = group]
    BY <1>5 DEF Swap
  <2>4. ~Published(r) /\ \A g : Published(g)' <=> Published(g) \/ g = r
    BY <1>0, <2>2 DEF Published
  <2>5. Built' = Built
    BY <1>0, <2>2 DEF Built
  <2>6. /\ pc'[r] = "stopOld" /\ old'[r] = group
        /\ \A q \in Call : q # r => pc'[q] = pc[q] /\ old'[q] = old[q]
    BY <1>0, <2>2, <2>3
  <2>7. Referred'
    BY <2>1, <2>3, <2>4, <2>6 DEF ScopeInv, Referred
  <2>8. Retired'
    BY <2>1, <2>2, <2>3, <2>4, <2>6 DEF ScopeInv, Retired
  <2>9. r \notin stop
    BY <2>4 DEF ScopeInv, Referred
  <2>10. QED
    BY <2>1, <2>3, <2>5, <2>7, <2>8, <2>9 DEF ScopeInv, InformersOfScope, FirstIsClusterWide,
                                          CurrentLives, StoppedWasDenied
<1>6. CASE StopOld(r)
  <2>1. UNCHANGED <<group, scopeOf, nsStop, informer, old, clusterDenial, denial, stopPc,
                    stopGroup>>
    BY <1>6 DEF StopOld
  <2>2. pc[r] = "stopOld" /\ pc' = [pc EXCEPT ![r] = "done"] /\ stop' = stop \union {old[r]}
    BY <1>6 DEF StopOld
  <2>3. \A g : Published(g)' <=> Published(g)
    BY <1>0, <2>2 DEF Published
  <2>4. Built' = Built
    BY <1>0, <2>2 DEF Built
  <2>5. \A q \in Call : q # r => pc'[q] = pc[q]
    BY <1>0, <2>2
  <2>6. pc'[r] = "done" /\ Published(old[r]) /\ old[r] # group
    BY <1>0, <2>2 DEF ScopeInv, Referred
  <2>7. Referred'
    BY <2>1, <2>2, <2>3, <2>5, <2>6 DEF ScopeInv, Referred
  <2>8. Retired'
    BY <2>1, <2>2, <2>3, <2>5, <2>6 DEF ScopeInv, Retired
  <2>9. QED
    BY <2>1, <2>2, <2>4, <2>6, <2>7, <2>8 DEF ScopeInv, InformersOfScope, FirstIsClusterWide,
                                          CurrentLives, StoppedWasDenied
<1>7. QED
  BY <1>2, <1>3, <1>4, <1>5, <1>6 DEF RescopeStep

\* Every step of the resource keeps the invariant.
LEMMA NextScope == ScopeInv /\ [Next]_vars => ScopeInv'
<1> SUFFICES ASSUME ScopeInv, [Next]_vars
             PROVE  ScopeInv'
  OBVIOUS
<1>0. TypeOK' /\ WantFits'
  BY NextType
<1>1. CASE UNCHANGED vars
  BY <1>0, <1>1, ScopeFrame DEF vars, resourceVars, callVars
<1>2. CASE ListCluster
  BY <1>0, <1>2, ScopeFrame DEF ListCluster, resourceVars, callVars
<1>3. ASSUME NEW g \in Group, SyncGroup(g) \/ SyncTimeout(g)
      PROVE  ScopeInv'
  BY <1>0, <1>3, ScopeFrame DEF SyncGroup, SyncTimeout, CloseSynced, callVars
<1>4. QED
  BY <1>0, <1>1, <1>2, <1>3, InformerInv, HandleInv, RescopeInv DEF Next, DenialStep

\* New's resource satisfies the invariant.
LEMMA InitScope == Init => ScopeInv
<1> SUFFICES ASSUME Init PROVE ScopeInv
  OBVIOUS
<1>1. 0 \in Group
  BY DEF Group
<1>2. WantFits /\ FirstIsClusterWide /\ CurrentLives /\ StoppedWasDenied
  BY <1>1 DEF Init, WantFits, FirstIsClusterWide, CurrentLives, StoppedWasDenied
<1>3. \A g : Published(g) <=> g = 0
  BY DEF Init, Published, Group
<1>4. Referred /\ Retired
  BY <1>3 DEF Init, Referred, Retired
<1>5. InformersOfScope
  BY <1>1 DEF Init, InformersOfScope, Built
<1>6. QED
  BY <1>2, <1>4, <1>5, InitType DEF ScopeInv

\* The groups of a resource are as ScopeInv says in every state.
THEOREM ScopeInvariant == Spec => []ScopeInv
BY InitScope, NextScope, PTL DEF Spec

\* The state of a resource always has its types (scoped_resource.go:91-112).
THEOREM TypeCorrect == Spec => []TypeOK
<1>1. ScopeInv => TypeOK
  BY DEF ScopeInv
<1>2. QED
  BY <1>1, ScopeInvariant, PTL

\* The swap of Rescope (scoped_resource.go:192-202) loses no group: however many calls
\* overlap, the only group that keeps informers running is the current one, or one that a
\* call is about to publish or to stop.
THEOREM OnlyCurrent == Spec => []OnlyCurrentGroupRuns
<1>1. ScopeInv => OnlyCurrentGroupRuns
  <2> SUFFICES ASSUME ScopeInv, NEW g \in Group, NEW n \in Ns, Running(g, n)
               PROVE  \/ g = group
                      \/ g # 0 /\ pc[g] = "swap"
                      \/ \E r \in Call : pc[r] = "stopOld" /\ old[r] = g
    BY DEF OnlyCurrentGroupRuns
  <2>1. g \in Built /\ g \notin stop
    BY DEF ScopeInv, InformersOfScope, Running
  <2>2. CASE Published(g)
    BY <2>1, <2>2 DEF ScopeInv, Retired
  <2>3. CASE ~Published(g)
    BY <2>1, <2>3 DEF Published, Built
  <2>4. QED
    BY <2>2, <2>3
<1>2. QED
  BY <1>1, ScopeInvariant, PTL

\* A denial closes the channel of one informer only (scoped_resource.go:408-436): until the
\* handle is stopped every informer of the current group runs, or was denied itself.
THEOREM DenialContained == Spec => []DenialIsContained
<1>1. ScopeInv => DenialIsContained
  <2> SUFFICES ASSUME ScopeInv, stopPc = "idle", NEW n \in scopeOf[group]
               PROVE  Running(group, n) \/ denial[group][n] # "none"
    BY DEF DenialIsContained
  <2>1. group \in Built /\ group \in Group /\ n \in Ns
    BY DEF ScopeInv, TypeOK, Referred, Published, Built, Group
  <2>2. group \notin stop
    BY DEF ScopeInv, CurrentLives
  <2>3. QED
    BY <2>1, <2>2 DEF ScopeInv, InformersOfScope, StoppedWasDenied, Running
<1>2. QED
  BY <1>1, ScopeInvariant, PTL

-----------------------------------------------------------------------------
(* The cluster-wide informer *)

\* The cluster-wide informer was started, and runs until the handle is stopped.
ClusterInv == cluster # "none" /\ clusterStop = NoGroup

\* With Config.GlobalStop (scoped_resource.go:114-131) no Rescope, however calls and denials
\* overlap, ends the informer that a later cluster-wide group will depend on.
THEOREM ClusterView ==
  ASSUME HasGlobalStop
  PROVE  Spec => []ClusterViewLives
<1>1. Init => ClusterInv
  BY DEF Init, ClusterInv
<1>2. ClusterInv /\ [Next]_vars => ClusterInv'
  BY DEF Next, Rescope, RescopeStep, ClearForbidden, BuildGroup, Swap, StopOld, List, ListCluster,
         Deny, DenyCluster, DenialStep, CheckDenial, RecordDenial, RecordClusterDenial,
         SyncGroup, SyncTimeout, CloseSynced, StopBegin, StopGroup, ClusterInv, vars,
         resourceVars
<1>3. ClusterInv => ClusterViewLives
  BY DEF ClusterInv, ClusterViewLives, ClusterRunning
<1>4. QED
  BY <1>1, <1>2, <1>3, PTL DEF Spec

=============================================================================
