------------------------- MODULE ClusterSessionProofs -------------------------
(***************************************************************************)
(* Proofs about ClusterSession, for every number of calls, selections and  *)
(* contexts: type correctness, NewestCommitIsActive, NoOrphanHandle, the   *)
(* implementation of SessionContract and FilterIsNewestSelection; and, for *)
(* a frontend that waits for each switch to end (MaxInFlight = 1),         *)
(* PluginServesActiveOrNone and ActiveFactoryRuns.                         *)
(***************************************************************************)
EXTENDS ClusterSession, FiniteSetTheorems, TLAPS

-----------------------------------------------------------------------------
(* Type correctness *)

\* The first state of the host has the types TypeOK states.
LEMMA InitType == Init => TypeOK
BY SessionAssumption DEF Init, TypeOK, Call, Selection, Version, CallPc, SelPc, ProxyState

\* Every step of a Connect call keeps the types.
LEMMA ConnectType ==
  ASSUME TypeOK, NEW s \in Call, ConnectStep(s)
  PROVE  TypeOK'
<1> USE SessionAssumption DEF TypeOK, Goto, appVars, handleVars, proxyVars, pluginVars,
                              callLocals, selVars
<1> Call \subseteq Nat
  BY DEF Call
<1>1. CASE Claim(s)
  BY <1>1 DEF Claim, CallPc, Returned
<1>2. CASE ClearPluginContext(s)
  BY <1>2 DEF ClearPluginContext, CallPc
<1>3. CASE ClearPluginNamespaces(s)
  BY <1>3 DEF ClearPluginNamespaces, CallPc
<1>4. CASE ReadState(s)
  BY <1>4 DEF ReadState, CallPc, Version
<1>5. CASE StopPrevious(s)
  BY <1>5 DEF StopPrevious, StopProxy, CallPc, ProxyState
<1>6. CASE EnsureProxy(s)
  BY <1>6 DEF EnsureProxy, CallPc, ProxyState
<1>7. CASE WaitProxy(s)
  BY <1>7 DEF WaitProxy, CallPc
<1>8. CASE Probe(s)
  BY <1>8 DEF Probe, CallPc, Returned
<1>9. CASE Commit(s)
  BY <1>9 DEF Commit, CacheClient, ReplaceHandle, CallPc
<1>10. CASE Supersede(s)
  BY <1>10 DEF Supersede, CacheClient, ReplaceHandle, CallPc, Returned
<1>11. CASE PushContext(s)
  BY <1>11 DEF PushContext, CallPc
<1>12. CASE PushNamespaces(s)
  BY <1>12 DEF PushNamespaces, CallPc
<1>13. CASE Wire(s)
  BY <1>13 DEF Wire, CallPc, Returned
<1>14. QED
  BY <1>1, <1>2, <1>3, <1>4, <1>5, <1>6, <1>7, <1>8, <1>9, <1>10, <1>11, <1>12, <1>13
  DEF ConnectStep

\* Every step of a SetActiveNamespaces call keeps the types.
LEMMA SelectionType ==
  ASSUME TypeOK, NEW n \in Selection, SelectionStep(n)
  PROVE  TypeOK'
<1> USE SessionAssumption DEF TypeOK, appVars, handleVars, proxyVars, pluginVars,
                              callLocals, SelPc
<1>1. CASE ApplySelection(n)
  BY <1>1 DEF ApplySelection
<1>2. CASE DropSelection(n)
  BY <1>2 DEF DropSelection
<1>3. CASE RescopeSelection(n)
  BY <1>3 DEF RescopeSelection
<1>4. CASE PushSelection(n)
  BY <1>4 DEF PushSelection
<1>5. QED
  BY <1>1, <1>2, <1>3, <1>4 DEF SelectionStep

\* Every step of the host keeps the types.
LEMMA NextType == TypeOK /\ [Next]_vars => TypeOK'
<1> SUFFICES ASSUME TypeOK, [Next]_vars
             PROVE  TypeOK'
  OBVIOUS
<1> USE SessionAssumption DEF appVars, handleVars, proxyVars, pluginVars, callLocals
<1>1. ASSUME NEW s \in Call, NEW c \in Ctx, IssueConnect(s, c)
      PROVE  TypeOK'
  BY <1>1 DEF IssueConnect, Goto, TypeOK, selVars, CallPc
<1>2. ASSUME NEW c \in Ctx, ProxySettles(c)
      PROVE  TypeOK'
  BY <1>2 DEF ProxySettles, TypeOK, selVars, ProxyState
<1>3. ASSUME NEW c \in Ctx, ProxyDies(c)
      PROVE  TypeOK'
  BY <1>3 DEF ProxyDies, TypeOK, selVars, ProxyState
<1>4. ASSUME NEW c \in Ctx, HandleProxyLost(c)
      PROVE  TypeOK'
  BY <1>4 DEF HandleProxyLost, TypeOK, selVars
<1>5. ASSUME NEW c \in Ctx, SaveClusterProxy(c)
      PROVE  TypeOK'
  BY <1>5 DEF SaveClusterProxy, TypeOK, selVars, Version
<1>6. ASSUME NEW h \in Call, StopLostFactory(h)
      PROVE  TypeOK'
  BY <1>6 DEF StopLostFactory, TypeOK, selVars
<1>7. ASSUME NEW n \in Selection, NEW f \in Filter, IssueSelection(n, f)
      PROVE  TypeOK'
  BY <1>7 DEF IssueSelection, TypeOK, SelPc
<1>8. CASE Reload
  BY <1>8 DEF Reload, TypeOK
<1>9. CASE UNCHANGED vars
  BY <1>9 DEF vars, selVars, TypeOK
<1>10. QED
  BY <1>1, <1>2, <1>3, <1>4, <1>5, <1>6, <1>7, <1>8, <1>9, ConnectType, SelectionType DEF Next

\* The session's state always has its types (App's fields, app.go:45-60).
THEOREM TypeCorrect == Spec => []TypeOK
BY InitType, NextType, PTL DEF Spec

-----------------------------------------------------------------------------
(* The inductive invariant *)

\* A call that got past tryClaimConnectSeq has a seq no higher than the claimed one.
ClaimedSeq ==
  \A s \in Call : pc[s] \notin {"idle", "sent", "dropped"} => s <= activeContextSeq

\* A registered factory belongs to a call for that context that has committed.
FactoryOwner ==
  \A c \in Ctx : factories[c] # 0 =>
    factories[c] \in Committed /\ ctx[factories[c]] = c

\* A call that has not reached the end of its commit section has no handle.
HandleLate ==
  \A s \in Call : s \notin Committed /\ pc[s] # "superseded" => handle[s] = "none"

\* handleProxyLost stops only factories that were registered once.
StoppingOwned == stopping \subseteq Committed

SessionInv ==
  /\ TypeOK /\ ClaimedSeq /\ FactoryOwner /\ HandleLate /\ StoppingOwned
  /\ NewestCommitIsActive /\ NoOrphanHandle

\* The first state satisfies the inductive invariant.
LEMMA InitSession == Init => SessionInv
<1> SUFFICES ASSUME Init PROVE SessionInv
  OBVIOUS
<1>1. TypeOK
  BY InitType
<1>2. ClaimedSeq /\ FactoryOwner /\ HandleLate /\ StoppingOwned
  BY DEF Init, ClaimedSeq, FactoryOwner, HandleLate, StoppingOwned
<1>3. NewestCommitIsActive /\ NoOrphanHandle
  BY DEF Init, NewestCommitIsActive, NoOrphanHandle
<1>4. QED
  BY <1>1, <1>2, <1>3 DEF SessionInv

\* A step that touches neither the calls nor their handles and maps keeps the invariant.
LEMMA SessionFrame ==
  ASSUME SessionInv, TypeOK',
         UNCHANGED <<activeContext, activeContextSeq, factories, handle, stopping, pc, ctx>>
  PROVE  SessionInv'
BY DEF SessionInv, ClaimedSeq, FactoryOwner, HandleLate, StoppingOwned,
       NewestCommitIsActive, NoOrphanHandle, Committed

\* So does a step of one call between its claim and its commit, or after its commit.
LEMMA SessionAdvance ==
  ASSUME SessionInv, TypeOK', NEW s \in Call, NEW to \in CallPc,
         UNCHANGED <<activeContext, activeContextSeq, factories, handle, stopping, ctx>>,
         pc' = [pc EXCEPT ![s] = to],
         \/ pc[s] \in {"pushContext", "pushNamespaces", "wire"}
            /\ to \in {"pushNamespaces", "wire", "done"}
         \/ /\ pc[s] \in {"sent", "clearContext", "clearNamespaces", "read",
                          "stopPrevious", "ensureProxy", "waitProxy", "probe"}
            /\ to \in {"clearNamespaces", "read", "stopPrevious", "ensureProxy",
                       "waitProxy", "probe", "commit", "dropped", "failed"}
            /\ pc[s] = "sent" => to = "dropped"
  PROVE  SessionInv'
<1>1. Committed' = Committed
  BY DEF Committed, SessionInv, TypeOK
<1>2. ClaimedSeq'
  BY DEF SessionInv, ClaimedSeq, TypeOK, Committed
<1>3. HandleLate'
  BY <1>1 DEF SessionInv, HandleLate, TypeOK
<1>4. FactoryOwner' /\ StoppingOwned' /\ NewestCommitIsActive' /\ NoOrphanHandle'
  BY <1>1 DEF SessionInv, FactoryOwner, StoppingOwned, NewestCommitIsActive, NoOrphanHandle
<1>5. QED
  BY <1>2, <1>3, <1>4 DEF SessionInv

\* A call is issued, or claims its seq.
LEMMA IssueInv ==
  ASSUME SessionInv, TypeOK', NEW s \in Call, NEW c \in Ctx, IssueConnect(s, c)
  PROVE  SessionInv'
<1> USE DEF IssueConnect, Goto, appVars, handleVars, SessionInv, TypeOK
<1>1. Committed' = Committed /\ s \notin Committed
  BY DEF Committed
<1>2. ClaimedSeq' /\ HandleLate'
  BY <1>1 DEF ClaimedSeq, HandleLate
<1>3. FactoryOwner' /\ StoppingOwned' /\ NewestCommitIsActive'
  BY <1>1 DEF FactoryOwner, StoppingOwned, NewestCommitIsActive
<1>4. NoOrphanHandle'
  BY <1>1 DEF HandleLate, NoOrphanHandle
<1>5. QED
  BY <1>2, <1>3, <1>4

\* tryClaimConnectSeq raises the claimed seq; nothing else moves.
LEMMA ClaimInv ==
  ASSUME SessionInv, TypeOK', NEW s \in Call, Claim(s)
  PROVE  SessionInv'
<1> USE DEF Claim, Goto, handleVars, callLocals, SessionInv, TypeOK
<1>1. Committed' = Committed
  BY DEF Committed
<1>2. ClaimedSeq'
  <2> Call \subseteq Nat
    BY SessionAssumption DEF Call
  <2> QED
    BY DEF ClaimedSeq
<1>3. HandleLate'
  BY <1>1 DEF HandleLate
<1>4. FactoryOwner' /\ StoppingOwned' /\ NewestCommitIsActive' /\ NoOrphanHandle'
  BY <1>1 DEF FactoryOwner, StoppingOwned, NewestCommitIsActive, NoOrphanHandle
<1> HIDE DEF Claim, TypeOK, Goto
<1>5. QED
  BY <1>2, <1>3, <1>4

\* The commit of a call that has not been superseded: it holds the claimed seq, so it is
\* newer than every call that committed before it.
LEMMA CommitNewest ==
  ASSUME SessionInv, NEW s \in Call, Commit(s)
  PROVE  /\ s \notin Committed /\ Committed' = Committed \union {s}
         /\ \A t \in Committed : t < s
<1> Call \subseteq Nat
  BY SessionAssumption DEF Call
<1>1. s \notin Committed /\ Committed' = Committed \union {s}
  BY DEF Commit, Goto, Committed, SessionInv, TypeOK
<1>2. s = activeContextSeq
  BY DEF Commit, Goto, SessionInv, ClaimedSeq, TypeOK
<1>3. \A t \in Committed : t <= activeContextSeq
  BY DEF Committed, SessionInv, ClaimedSeq
<1>4. \A t \in Committed : t \in Nat /\ s \in Nat
  BY DEF Committed
<1>5. ASSUME NEW t \in Committed
      PROVE  t < s
  <2>1. t \in Nat /\ s \in Nat /\ t # s /\ t <= s
    BY <1>1, <1>2, <1>3, <1>4
  <2>2. QED
    BY <2>1
<1>6. QED
  BY <1>1, <1>5

\* A commit registers its handle and stops the one it replaces, so the invariant carries over.
LEMMA CommitInv ==
  ASSUME SessionInv, TypeOK', NEW s \in Call, Commit(s)
  PROVE  SessionInv'
<1> USE DEF Commit, Goto, callLocals, SessionInv, TypeOK
<1> Call \subseteq Nat /\ 0 \notin Call
  BY SessionAssumption DEF Call
<1>0. ctx[s] \in Ctx /\ ctx[s] # NoCtx
  BY SessionAssumption
<1>1. /\ s \notin Committed /\ Committed' = Committed \union {s}
      /\ \A t \in Committed : t < s
  BY CommitNewest
<1>2. ClaimedSeq'
  BY DEF ClaimedSeq
<1>3. HandleLate'
  <2>1. \A h \in Call : h # s /\ handle[h] = "none" /\ h \notin Committed
                        => handle'[h] = "none"
    BY <1>0 DEF ReplaceHandle, FactoryOwner
  <2>2. QED
    BY <1>1, <2>1 DEF HandleLate
<1>4. FactoryOwner' /\ StoppingOwned'
  BY <1>0, <1>1 DEF FactoryOwner, StoppingOwned
<1>5. NewestCommitIsActive'
  <2>1. factories'[activeContext'] = s
    BY <1>0
  <2>2. \A t \in Committed' : t <= s
    BY <1>1 DEF Committed
  <2>3. QED
    BY <1>1, <2>1, <2>2 DEF NewestCommitIsActive
<1>6. NoOrphanHandle'
  BY <1>0, <1>1 DEF NoOrphanHandle, ReplaceHandle
<1>7. QED
  BY <1>2, <1>3, <1>4, <1>5, <1>6

\* A superseded call stops its own handle and the one registered for its context.
LEMMA SupersedeInv ==
  ASSUME SessionInv, TypeOK', NEW s \in Call, Supersede(s)
  PROVE  SessionInv'
<1> USE DEF Supersede, Goto, callLocals, SessionInv, TypeOK
<1>0. ctx[s] \in Ctx
  OBVIOUS
<1>1. Committed' = Committed /\ s \notin Committed
  BY DEF Committed
<1>2. ClaimedSeq'
  BY DEF ClaimedSeq
<1>3. HandleLate'
  <2>1. 0 \notin Call
    BY DEF Call
  <2>2. \A h \in Call : h # s /\ handle[h] = "none" /\ h \notin Committed
                        => handle'[h] = "none"
    BY <1>0, <2>1 DEF ReplaceHandle, FactoryOwner
  <2>3. QED
    BY <1>1, <2>2 DEF HandleLate
<1>4. FactoryOwner' /\ StoppingOwned' /\ NewestCommitIsActive'
  BY <1>1 DEF FactoryOwner, StoppingOwned, NewestCommitIsActive
<1>5. NoOrphanHandle'
  BY <1>0 DEF NoOrphanHandle, ReplaceHandle
<1>6. QED
  BY <1>2, <1>3, <1>4, <1>5

\* handleProxyLost takes a factory out of the map and keeps it in view until it stops it.
LEMMA LostInv ==
  ASSUME SessionInv, TypeOK', NEW c \in Ctx, HandleProxyLost(c)
  PROVE  SessionInv'
<1> USE DEF HandleProxyLost, callLocals, SessionInv, TypeOK
<1>1. Committed' = Committed
  BY DEF Committed
<1>2. ClaimedSeq' /\ HandleLate'
  BY <1>1 DEF ClaimedSeq, HandleLate
<1>3. FactoryOwner' /\ StoppingOwned' /\ NewestCommitIsActive'
  BY <1>1, SessionAssumption DEF FactoryOwner, StoppingOwned, NewestCommitIsActive
<1>4. NoOrphanHandle'
  <2>1. 0 \notin Call
    BY DEF Call
  <2>2. \A h \in Call : handle[h] = "live" => ctx[h] \in Ctx
    BY DEF HandleLate, Committed
  <2>3. QED
    BY <2>1, <2>2 DEF NoOrphanHandle
<1>5. QED
  BY <1>2, <1>3, <1>4

\* handleProxyLost stops a factory that it took out of the map.
LEMMA StopLostInv ==
  ASSUME SessionInv, TypeOK', NEW h \in Call, StopLostFactory(h)
  PROVE  SessionInv'
<1> USE DEF StopLostFactory, appVars, callLocals, SessionInv, TypeOK
<1>1. Committed' = Committed
  BY DEF Committed
<1>2. ClaimedSeq' /\ FactoryOwner' /\ StoppingOwned' /\ NewestCommitIsActive'
  BY <1>1 DEF ClaimedSeq, FactoryOwner, StoppingOwned, NewestCommitIsActive
<1>3. NoOrphanHandle'
  BY DEF NoOrphanHandle
<1>4. HandleLate'
  BY <1>1 DEF HandleLate, StoppingOwned
<1>5. QED
  BY <1>2, <1>3, <1>4

\* A step of a Connect call keeps the invariant.
LEMMA ConnectInv ==
  ASSUME SessionInv, TypeOK', NEW s \in Call, ConnectStep(s)
  PROVE  SessionInv'
<1> USE DEF Goto, appVars, handleVars, callLocals
<1>1. CASE ClearPluginContext(s)
  BY <1>1, SessionAdvance DEF ClearPluginContext, CallPc
<1>2. CASE ClearPluginNamespaces(s)
  BY <1>2, SessionAdvance DEF ClearPluginNamespaces, CallPc
<1>3. CASE ReadState(s)
  BY <1>3, SessionAdvance DEF ReadState, CallPc
<1>4. CASE StopPrevious(s)
  BY <1>4, SessionAdvance DEF StopPrevious, CallPc
<1>5. CASE EnsureProxy(s)
  <2> DEFINE to == IF ctx[s] \in ProxyCtx THEN "waitProxy" ELSE "probe"
  <2>1. pc[s] = "ensureProxy" /\ pc' = [pc EXCEPT ![s] = to]
    BY <1>5 DEF EnsureProxy
  <2>2. to \in {"waitProxy", "probe"} /\ to \in CallPc
    BY DEF CallPc
  <2>3. UNCHANGED <<activeContext, activeContextSeq, factories, handle, stopping, ctx>>
    BY <1>5 DEF EnsureProxy
  <2>4. QED
    BY <2>1, <2>2, <2>3, SessionAdvance
<1>6. CASE WaitProxy(s)
  BY <1>6, SessionAdvance DEF WaitProxy, CallPc
<1>7. CASE Probe(s)
  BY <1>7, SessionAdvance DEF Probe, CallPc, Returned
<1>8. CASE PushContext(s)
  BY <1>8, SessionAdvance DEF PushContext, CallPc
<1>9. CASE PushNamespaces(s)
  BY <1>9, SessionAdvance DEF PushNamespaces, CallPc
<1>10. CASE Wire(s)
  BY <1>10, SessionAdvance DEF Wire, CallPc, Returned
<1>11. QED
  BY <1>1, <1>2, <1>3, <1>4, <1>5, <1>6, <1>7, <1>8, <1>9, <1>10,
     ClaimInv, CommitInv, SupersedeInv DEF ConnectStep

\* A step of a SetActiveNamespaces call leaves the calls and their handles alone.
LEMMA SelectionInv ==
  ASSUME SessionInv, TypeOK', NEW n \in Selection, SelectionStep(n)
  PROVE  SessionInv'
<1> USE DEF appVars, handleVars, callLocals
<1>1. UNCHANGED <<activeContext, activeContextSeq, factories, handle, stopping, pc, ctx>>
  BY DEF SelectionStep, ApplySelection, DropSelection, RescopeSelection, PushSelection
<1>2. QED
  BY <1>1, SessionFrame

\* Every step of the host keeps the invariant.
LEMMA NextSession == SessionInv /\ [Next]_vars => SessionInv'
<1> SUFFICES ASSUME SessionInv, [Next]_vars
             PROVE  SessionInv'
  OBVIOUS
<1> USE DEF appVars, handleVars, callLocals
<1>0. TypeOK'
  BY NextType DEF SessionInv
<1>1. ASSUME NEW s \in Call, NEW c \in Ctx, IssueConnect(s, c)
      PROVE  SessionInv'
  BY <1>0, <1>1, IssueInv
<1>2. ASSUME NEW s \in Call, ConnectStep(s)
      PROVE  SessionInv'
  BY <1>0, <1>2, ConnectInv
<1>3. ASSUME NEW c \in Ctx, ProxySettles(c) \/ ProxyDies(c) \/ SaveClusterProxy(c)
      PROVE  SessionInv'
  BY <1>0, <1>3, SessionFrame DEF ProxySettles, ProxyDies, SaveClusterProxy
<1>4. ASSUME NEW c \in Ctx, HandleProxyLost(c)
      PROVE  SessionInv'
  BY <1>0, <1>4, LostInv
<1>5. ASSUME NEW h \in Call, StopLostFactory(h)
      PROVE  SessionInv'
  BY <1>0, <1>5, StopLostInv
<1>6. ASSUME NEW n \in Selection, NEW f \in Filter, IssueSelection(n, f)
      PROVE  SessionInv'
  BY <1>0, <1>6, SessionFrame DEF IssueSelection
<1>7. ASSUME NEW n \in Selection, SelectionStep(n)
      PROVE  SessionInv'
  BY <1>0, <1>7, SelectionInv
<1>8. CASE Reload \/ UNCHANGED vars
  BY <1>0, <1>8, SessionFrame DEF Reload, vars
<1>9. QED
  BY <1>1, <1>2, <1>3, <1>4, <1>5, <1>6, <1>7, <1>8 DEF Next

\* The inductive invariant holds in every state the host reaches.
THEOREM SessionInvariant == Spec => []SessionInv
BY InitSession, NextSession, PTL DEF Spec

\* The stale check under App.mu (app.go:408-421) is enough for any number of overlapping
\* Connect calls: the active context is always that of the newest call that committed.
THEOREM NewestCommit == Spec => []NewestCommitIsActive
<1>1. SessionInv => NewestCommitIsActive
  BY DEF SessionInv
<1>2. QED
  BY <1>1, SessionInvariant, PTL

\* No informer factory is ever left running where neither a later Connect nor
\* handleProxyLost can find it, whatever the calls' interleaving (app.go:392-420).
THEOREM NoOrphan == Spec => []NoOrphanHandle
<1>1. SessionInv => NoOrphanHandle
  BY DEF SessionInv
<1>2. QED
  BY <1>1, SessionInvariant, PTL

-----------------------------------------------------------------------------
(* The session implements its contract *)

\* A proxy runs, is stopped or is lost only for a context that has a setup command.
LostIsProxied == \A c \in Ctx : proxy[c] # "off" \/ lost[c] > 0 => c \in ProxyCtx

LEMMA LostStep == TypeOK /\ LostIsProxied /\ [Next]_vars => LostIsProxied'
<1> SUFFICES ASSUME TypeOK, LostIsProxied, [Next]_vars PROVE LostIsProxied'
  OBVIOUS
<1>1. CASE UNCHANGED proxyVars
  BY <1>1 DEF proxyVars, LostIsProxied
<1>2. ASSUME NEW s \in Call, EnsureProxy(s) PROVE LostIsProxied'
  BY <1>1, <1>2 DEF EnsureProxy, TypeOK, LostIsProxied
<1>3. ASSUME NEW s \in Call, StopPrevious(s) PROVE LostIsProxied'
  <2>1. UNCHANGED lost /\ (UNCHANGED proxy \/ StopProxy(previous[s]))
    BY <1>3 DEF StopPrevious
  <2> QED
    BY <2>1 DEF StopProxy, TypeOK, LostIsProxied
<1>4. ASSUME NEW c \in Ctx, ProxySettles(c) \/ ProxyDies(c) \/ HandleProxyLost(c)
      PROVE  LostIsProxied'
  BY <1>4 DEF ProxySettles, ProxyDies, HandleProxyLost, TypeOK, LostIsProxied
<1>5. ASSUME NEW s \in Call, ConnectStep(s), ~EnsureProxy(s), ~StopPrevious(s)
      PROVE  UNCHANGED proxyVars
  BY <1>5 DEF ConnectStep, Claim, ClearPluginContext, ClearPluginNamespaces, ReadState,
              WaitProxy, Probe, Commit, Supersede, PushContext, PushNamespaces, Wire
<1>6. ASSUME NEW n \in Selection, (\E f \in Filter : IssueSelection(n, f)) \/ SelectionStep(n)
      PROVE  UNCHANGED proxyVars
  BY <1>6 DEF IssueSelection, SelectionStep, ApplySelection, DropSelection, RescopeSelection,
              PushSelection
<1>7. ASSUME NEW c \in Ctx, SaveClusterProxy(c) PROVE UNCHANGED proxyVars
  BY <1>7 DEF SaveClusterProxy
<1>8. ASSUME NEW s \in Call, NEW c \in Ctx, IssueConnect(s, c) PROVE UNCHANGED proxyVars
  BY <1>8 DEF IssueConnect
<1>9. ASSUME NEW h \in Call, StopLostFactory(h) PROVE UNCHANGED proxyVars
  BY <1>9 DEF StopLostFactory
<1>10. CASE Reload \/ UNCHANGED vars
  BY <1>1, <1>10 DEF Reload, vars
<1>11. ASSUME NEW s \in Call, ConnectStep(s) PROVE LostIsProxied'
  BY <1>1, <1>2, <1>3, <1>5, <1>11
<1>12. ASSUME NEW c \in Ctx,
              ProxySettles(c) \/ ProxyDies(c) \/ HandleProxyLost(c) \/ SaveClusterProxy(c)
       PROVE  LostIsProxied'
  BY <1>1, <1>4, <1>7, <1>12
<1>13. ASSUME NEW n \in Selection, (\E f \in Filter : IssueSelection(n, f)) \/ SelectionStep(n)
       PROVE  LostIsProxied'
  BY <1>1, <1>6, <1>13
<1> QED
  BY <1>1, <1>8, <1>9, <1>10, <1>11, <1>12, <1>13 DEF Next

\* Only a context with a setup command has a proxy to lose.
LEMMA OnlyProxiedIsLost == Spec => []LostIsProxied
<1>1. Init => LostIsProxied
  BY DEF Init, LostIsProxied
<1> QED
  BY <1>1, LostStep, TypeCorrect, PTL DEF Spec

\* Every step of the host is a Switch, a Lose or a stutter of the contract.
LEMMA ContractStep ==
  SessionInv /\ LostIsProxied /\ [Next]_vars
    => [Contract!Next]_<<activeContext, Committed>>
<1> SUFFICES ASSUME SessionInv, LostIsProxied, [Next]_vars
             PROVE  Contract!Next \/ UNCHANGED <<activeContext, Committed>>
  OBVIOUS
<1> USE DEF appVars, callLocals
<1>1. ASSUME NEW s \in Call, Commit(s)
      PROVE  Contract!Next
  <2>1. ctx[s] \in Ctx /\ activeContext' = ctx[s]
    BY <1>1 DEF Commit, Goto, SessionInv, TypeOK
  <2>2. Contract!Switch(s, ctx[s])
    BY <1>1, <2>1, CommitNewest DEF Contract!Switch
  <2>3. QED
    BY <2>1, <2>2 DEF Contract!Next
<1>2. ASSUME NEW s \in Call, ConnectStep(s), ~Commit(s)
      PROVE  UNCHANGED <<activeContext, Committed>>
  <2>1. UNCHANGED activeContext
    BY <1>2 DEF ConnectStep, Claim, ClearPluginContext, ClearPluginNamespaces, ReadState,
                StopPrevious, EnsureProxy, WaitProxy, Probe, Supersede, PushContext,
                PushNamespaces, Wire
  <2>2. \E to \in CallPc :
          /\ pc' = [pc EXCEPT ![s] = to]
          /\ pc[s] \in {"pushContext", "pushNamespaces", "wire", "done"}
             <=> to \in {"pushContext", "pushNamespaces", "wire", "done"}
    BY <1>2 DEF ConnectStep, Claim, ClearPluginContext, ClearPluginNamespaces, ReadState,
                StopPrevious, EnsureProxy, WaitProxy, Probe, Supersede, PushContext,
                PushNamespaces, Wire, Goto, CallPc, Returned
  <2>3. UNCHANGED Committed
    BY <2>2 DEF Committed, SessionInv, TypeOK
  <2>4. QED
    BY <2>1, <2>3
<1>3. ASSUME NEW s \in Call, NEW c \in Ctx, IssueConnect(s, c)
      PROVE  UNCHANGED <<activeContext, Committed>>
  BY <1>3 DEF IssueConnect, Goto, Committed, SessionInv, TypeOK
<1>4. ASSUME NEW c \in Ctx, HandleProxyLost(c)
      PROVE  Contract!Next \/ UNCHANGED <<activeContext, Committed>>
  BY <1>4 DEF HandleProxyLost, LostIsProxied, Committed, Contract!Next, Contract!Lose
<1>5. ASSUME UNCHANGED <<activeContext, pc>>
      PROVE  UNCHANGED <<activeContext, Committed>>
  BY <1>5 DEF Committed
<1>6. ASSUME NEW c \in Ctx, ProxySettles(c) \/ ProxyDies(c) \/ SaveClusterProxy(c)
      PROVE  UNCHANGED <<activeContext, Committed>>
  BY <1>5, <1>6 DEF ProxySettles, ProxyDies, SaveClusterProxy
<1>7. ASSUME NEW h \in Call, StopLostFactory(h)
      PROVE  UNCHANGED <<activeContext, Committed>>
  BY <1>5, <1>7 DEF StopLostFactory
<1>8. ASSUME NEW n \in Selection, NEW f \in Filter, IssueSelection(n, f)
      PROVE  UNCHANGED <<activeContext, Committed>>
  BY <1>5, <1>8 DEF IssueSelection
<1>9. ASSUME NEW n \in Selection, SelectionStep(n)
      PROVE  UNCHANGED <<activeContext, Committed>>
  BY <1>5, <1>9 DEF SelectionStep, ApplySelection, DropSelection, RescopeSelection,
                    PushSelection
<1>10. CASE Reload \/ UNCHANGED vars
  BY <1>5, <1>10 DEF Reload, vars
<1>11. QED
  BY <1>1, <1>2, <1>3, <1>4, <1>6, <1>7, <1>8, <1>9, <1>10 DEF Next

\* App.Connect implements SessionContract for any number of overlapping calls, proxy
\* losses and selections: switches take effect in the order the user asked for them, and only a
\* context with a setup command is lost.
THEOREM Contracted == Spec => ImplementsContract
<1>1. Init => Contract!Init
  BY DEF Init, Contract!Init, Committed
<1>2. QED
  BY <1>1, ContractStep, SessionInvariant, OnlyProxiedIsLost, PTL
  DEF Spec, ImplementsContract, Contract!Spec

-----------------------------------------------------------------------------
(* Selections *)

\* A selection took the handle of a call that had committed, or none.
SelectedIsCommitted ==
  \A n \in Accepted : selHandle[n] = 0 \/ selHandle[n] \in Committed

FilterInv == SelectedIsCommitted /\ FilterIsNewestSelection

\* Steps that touch neither the active filter nor a selection that was accepted.
LEMMA FilterFrame ==
  ASSUME FilterInv, Accepted' = Accepted, Committed \subseteq Committed',
         UNCHANGED <<activeContext, activeNamespaces, activeNamespacesSeq, factories, selHandle>>,
         \A n \in Accepted : selSeq'[n] = selSeq[n] /\ selFilter'[n] = selFilter[n]
  PROVE  FilterInv'
<1>1. SelectedIsCommitted'
  BY DEF FilterInv, SelectedIsCommitted
<1>2. FilterIsNewestSelection'
  BY DEF FilterInv, FilterIsNewestSelection
<1> QED
  BY <1>1, <1>2 DEF FilterInv

\* The handle a commit registers is new: no selection can have taken it.
LEMMA FilterCommit ==
  ASSUME SessionInv, FilterInv, NEW s \in Call, Commit(s)
  PROVE  FilterInv'
<1>1. /\ s # 0 /\ ctx[s] \in Ctx
      /\ factories'[activeContext'] = s /\ UNCHANGED <<selPc, selHandle>>
      /\ activeNamespaces' = Restored[activeContext'] /\ activeNamespacesSeq' = 0
  BY DEF Commit, Goto, SessionInv, TypeOK, selVars, Call
<1>2. s \notin Committed /\ Committed' = Committed \union {s}
  BY CommitNewest
<1>3. SelectedIsCommitted'
  BY <1>1, <1>2 DEF FilterInv, SelectedIsCommitted, Accepted
<1>4. {n \in Accepted' : selHandle'[n] = s} = {}
  BY <1>1, <1>2 DEF FilterInv, SelectedIsCommitted, Accepted
<1>5. FilterIsNewestSelection'
  BY <1>1, <1>4 DEF FilterIsNewestSelection
<1> QED
  BY <1>3, <1>5 DEF FilterInv

\* The selection that is applied is newer than every one applied to the same handle.
LEMMA FilterApply ==
  ASSUME SessionInv, FilterInv, NEW n \in Selection, ApplySelection(n)
  PROVE  FilterInv'
<1> DEFINE h == IF activeContext = NoCtx THEN 0 ELSE factories[activeContext]
<1>1. /\ n \notin Accepted /\ Accepted' = Accepted \union {n}
      /\ selHandle' = [selHandle EXCEPT ![n] = h] /\ selHandle'[n] = h
      /\ \A m \in Accepted : selHandle'[m] = selHandle[m]
      /\ activeNamespacesSeq' = selSeq[n] /\ activeNamespaces' = selFilter[n]
      /\ selSeq[n] > activeNamespacesSeq
      /\ UNCHANGED <<activeContext, factories, pc, selSeq, selFilter>>
  BY DEF ApplySelection, Accepted, SessionInv, TypeOK
<1>2. Committed' = Committed
  BY <1>1 DEF Committed
<1>3. h = 0 \/ h \in Committed
  BY DEF SessionInv, NewestCommitIsActive
<1>4. SelectedIsCommitted'
  BY <1>1, <1>2, <1>3 DEF FilterInv, SelectedIsCommitted
<1>5. FilterIsNewestSelection'
  <2> SUFFICES ASSUME activeContext # NoCtx
               PROVE  \A m \in Accepted' : selHandle'[m] = h => selSeq[m] <= selSeq[n]
    BY <1>1 DEF FilterIsNewestSelection
  <2> SUFFICES ASSUME NEW m \in Accepted, selHandle[m] = h
               PROVE  selSeq[m] <= selSeq[n]
    BY <1>1, SessionAssumption DEF SessionInv, TypeOK
  <2>1. selSeq[m] <= activeNamespacesSeq
    BY DEF FilterInv, FilterIsNewestSelection
  <2>2. selSeq[m] \in Nat /\ selSeq[n] \in Nat /\ activeNamespacesSeq \in Nat
    BY DEF Accepted, SessionInv, TypeOK
  <2> QED
    BY <1>1, <2>1, <2>2
<1> QED
  BY <1>4, <1>5 DEF FilterInv

\* The calls that have committed stay so.
LEMMA CommittedGrows ==
  ASSUME SessionInv, NEW s \in Call,
         ConnectStep(s) \/ \E c \in Ctx : IssueConnect(s, c)
  PROVE  Committed \subseteq Committed'
<1>1. PICK to \in CallPc :
        /\ pc' = [pc EXCEPT ![s] = to]
        /\ s \in Committed => to \in {"pushContext", "pushNamespaces", "wire", "done"}
  BY DEF ConnectStep, Claim, ClearPluginContext, ClearPluginNamespaces, ReadState,
         StopPrevious, EnsureProxy, WaitProxy, Probe, Commit, Supersede, PushContext,
         PushNamespaces, Wire, IssueConnect, Goto, CallPc, Returned, Committed
<1> QED
  BY <1>1 DEF Committed, SessionInv, TypeOK

LEMMA FilterStep == SessionInv /\ FilterInv /\ [Next]_vars => FilterInv'
<1> SUFFICES ASSUME SessionInv, FilterInv, [Next]_vars PROVE FilterInv'
  OBVIOUS
<1> USE DEF appVars, callLocals
<1>1. ASSUME NEW s \in Call, Commit(s)
      PROVE  FilterInv'
  BY <1>1, FilterCommit
<1>2. ASSUME NEW s \in Call, ConnectStep(s), ~Commit(s)
      PROVE  FilterInv'
  <2>1. UNCHANGED <<activeContext, activeNamespaces, activeNamespacesSeq, factories, selVars>>
    BY <1>2 DEF ConnectStep, Claim, ClearPluginContext, ClearPluginNamespaces, ReadState,
                StopPrevious, EnsureProxy, WaitProxy, Probe, Supersede, PushContext,
                PushNamespaces, Wire
  <2> QED
    BY <1>2, <2>1, CommittedGrows, FilterFrame DEF selVars, Accepted
<1>3. ASSUME NEW s \in Call, NEW c \in Ctx, IssueConnect(s, c)
      PROVE  FilterInv'
  <2>1. UNCHANGED <<activeContext, activeNamespaces, activeNamespacesSeq, factories, selVars>>
    BY <1>3 DEF IssueConnect
  <2> QED
    BY <1>3, <2>1, CommittedGrows, FilterFrame DEF selVars, Accepted
<1>4. ASSUME NEW c \in Ctx, HandleProxyLost(c)
      PROVE  FilterInv'
  <2>1. UNCHANGED <<pc, selVars, activeNamespaces, activeNamespacesSeq>>
    BY <1>4 DEF HandleProxyLost
  <2>2. CASE activeContext' = NoCtx
    BY <2>1, <2>2 DEF FilterInv, SelectedIsCommitted, FilterIsNewestSelection, Accepted,
                      Committed, selVars
  <2>3. CASE UNCHANGED <<activeContext, factories>>
    BY <2>1, <2>3, FilterFrame DEF Accepted, Committed, selVars
  <2> QED
    BY <1>4, <2>2, <2>3 DEF HandleProxyLost
<1>5. ASSUME NEW c \in Ctx, ProxySettles(c) \/ ProxyDies(c) \/ SaveClusterProxy(c)
      PROVE  FilterInv'
  BY <1>5, FilterFrame DEF ProxySettles, ProxyDies, SaveClusterProxy, selVars, Accepted, Committed
<1>6. ASSUME NEW h \in Call, StopLostFactory(h)
      PROVE  FilterInv'
  BY <1>6, FilterFrame DEF StopLostFactory, selVars, Accepted, Committed
<1>7. ASSUME NEW n \in Selection, NEW f \in Filter, IssueSelection(n, f)
      PROVE  FilterInv'
  <2>1. n \notin Accepted /\ Accepted' = Accepted
    BY <1>7 DEF IssueSelection, Accepted, SessionInv, TypeOK
  <2> QED
    BY <1>7, <2>1, FilterFrame DEF IssueSelection, Committed, SessionInv, TypeOK, Accepted
<1>8. ASSUME NEW n \in Selection, ApplySelection(n)
      PROVE  FilterInv'
  BY <1>8, FilterApply
<1>9. ASSUME NEW n \in Selection, DropSelection(n) \/ RescopeSelection(n) \/ PushSelection(n)
      PROVE  FilterInv'
  <2>1. Accepted' = Accepted
    BY <1>9 DEF DropSelection, RescopeSelection, PushSelection, Accepted, SessionInv, TypeOK
  <2> QED
    BY <1>9, <2>1, FilterFrame DEF DropSelection, RescopeSelection, PushSelection, Committed
<1>10. CASE Reload \/ UNCHANGED vars
  BY <1>10, FilterFrame DEF Reload, vars, selVars, Accepted, Committed
<1> QED
  BY <1>1, <1>2, <1>3, <1>4, <1>5, <1>6, <1>7, <1>8, <1>9, <1>10 DEF Next, SelectionStep

\* Selections that arrive out of order, and Connect calls that overlap them and reset their
\* counter, leave the newest selection in force (namespace.go:205-212, app.go:432-445).
THEOREM FilterNewest == Spec => []FilterIsNewestSelection
<1>1. Init => FilterInv
  BY DEF Init, FilterInv, SelectedIsCommitted, FilterIsNewestSelection, Accepted
<1>2. FilterInv => FilterIsNewestSelection
  BY DEF FilterInv
<1>3. QED
  BY <1>1, <1>2, FilterStep, SessionInvariant, PTL DEF Spec

-----------------------------------------------------------------------------
(* One switch at a time *)

Alone == \A s, t \in InFlight : s = t

\* The call that runs has the claimed seq, so its commit cannot find itself superseded.
ClaimIsMine == \A s \in InFlight : pc[s] # "sent" => s = activeContextSeq

\* From the clear to the push the plugins serve no cluster.
PluginIsCleared ==
  \A s \in Call :
    pc[s] \in {"clearNamespaces", "read", "stopPrevious", "ensureProxy", "waitProxy", "probe",
               "commit", "pushContext"} => pluginContext = NoCtx

PushIsOfActive == \A s \in Call : pc[s] = "pushContext" => activeContext \in {NoCtx, ctx[s]}

\* handleProxyLost stops no factory that can be found.
StoppingIsUnregistered == \A h \in stopping : \A c \in Ctx : factories[c] # h

\* The inductive invariant, over SessionInv, while the frontend waits for each switch.
AloneInv ==
  /\ Alone /\ ClaimIsMine /\ PluginIsCleared /\ PushIsOfActive /\ StoppingIsUnregistered
  /\ PluginServesActiveOrNone /\ ActiveFactoryRuns

\* A frontend that waits issues a call only when none is left.
LEMMA IssuedAlone ==
  ASSUME MaxInFlight = 1, SessionInv, NEW s \in Call, NEW c \in Ctx, IssueConnect(s, c)
  PROVE  InFlight = {} /\ InFlight' = {s}
<1>1. IsFiniteSet(InFlight)
  <2>1. IsFiniteSet(Call)
    BY FS_Interval, SessionAssumption DEF Call
  <2> QED
    BY <2>1, FS_Subset DEF InFlight
<1>2. Cardinality(InFlight) \in Nat /\ Cardinality(InFlight) < 1
  BY <1>1, FS_CardinalityType DEF IssueConnect
<1>3. Cardinality(InFlight) = 0
  BY <1>2
<1>4. InFlight = {}
  BY <1>1, <1>3, FS_EmptySet
<1>5. pc' = [pc EXCEPT ![s] = "sent"]
  BY DEF IssueConnect, Goto
<1> QED
  BY <1>4, <1>5 DEF InFlight, Returned, SessionInv, TypeOK

\* What a step of the only call that runs leaves of the others.
LEMMA OnlyMine ==
  ASSUME SessionInv, Alone, NEW s \in Call, ConnectStep(s)
  PROVE  /\ s \in InFlight /\ InFlight' \subseteq {s} /\ Alone'
         /\ \A t \in Call : pc'[t] \notin {"idle"} \union Returned => t = s
<1>1. PICK to \in CallPc : pc' = [pc EXCEPT ![s] = to] /\ pc[s] \notin {"idle"} \union Returned
  BY DEF ConnectStep, Claim, ClearPluginContext, ClearPluginNamespaces, ReadState,
         StopPrevious, EnsureProxy, WaitProxy, Probe, Commit, Supersede, PushContext,
         PushNamespaces, Wire, Goto, CallPc, Returned
<1>2. s \in InFlight
  BY <1>1 DEF InFlight
<1>3. \A t \in Call : pc'[t] \notin {"idle"} \union Returned => t = s
  BY <1>1, <1>2 DEF Alone, InFlight, SessionInv, TypeOK
<1>4. InFlight' \subseteq {s}
  BY <1>3 DEF InFlight
<1> QED
  BY <1>2, <1>3, <1>4 DEF Alone

\* Steps of the call that touch neither the plugins, nor a factory, nor the active context.
LEMMA AloneAdvance ==
  ASSUME SessionInv, AloneInv, NEW s \in Call, ConnectStep(s),
         UNCHANGED <<activeContext, activeContextSeq, factories, handle, stopping, ctx,
                     pluginContext>>,
         \/ pc'[s] \in Returned
         \/ pc[s] = "pushNamespaces" /\ pc'[s] = "wire"
         \/ pc[s] \notin {"sent", "clearContext", "pushContext", "pushNamespaces", "wire"}
            /\ pc'[s] # "pushContext"
  PROVE  AloneInv'
<1> USE DEF AloneInv
<1>1. /\ s \in InFlight /\ InFlight' \subseteq {s} /\ Alone'
      /\ \A t \in Call : pc'[t] \notin {"idle"} \union Returned => t = s
  BY OnlyMine
<1>2. ClaimIsMine'
  BY <1>1 DEF ClaimIsMine, InFlight
<1>3. PluginIsCleared'
  BY <1>1 DEF PluginIsCleared, InFlight, Returned, CallPc, SessionInv, TypeOK
<1>4. PushIsOfActive'
  BY <1>1 DEF PushIsOfActive, Returned
<1>5. StoppingIsUnregistered' /\ PluginServesActiveOrNone' /\ ActiveFactoryRuns'
  BY DEF StoppingIsUnregistered, PluginServesActiveOrNone, ActiveFactoryRuns
<1> QED
  BY <1>1, <1>2, <1>3, <1>4, <1>5

\* The commit of the only call: the plugins are cleared, and its factory runs.
LEMMA AloneCommit ==
  ASSUME SessionInv, AloneInv, NEW s \in Call, Commit(s)
  PROVE  AloneInv'
<1> USE DEF AloneInv
<1>1. /\ s \in InFlight /\ InFlight' \subseteq {s} /\ Alone'
      /\ \A t \in Call : pc'[t] \notin {"idle"} \union Returned => t = s
  BY OnlyMine DEF ConnectStep
<1>2. /\ pc[s] = "commit" /\ pc'[s] = "pushContext" /\ ctx[s] \in Ctx /\ activeContext' = ctx[s]
      /\ factories' = [factories EXCEPT ![ctx[s]] = s] /\ handle'[s] = "live"
      /\ UNCHANGED <<activeContextSeq, stopping, pluginContext, ctx>>
  BY DEF Commit, Goto, ReplaceHandle, SessionInv, TypeOK, pluginVars, callLocals
<1>3. pluginContext = NoCtx
  BY <1>2 DEF PluginIsCleared
<1>4. ClaimIsMine'
  BY <1>1, <1>2 DEF ClaimIsMine
<1>5. PluginIsCleared' /\ PushIsOfActive'
  BY <1>1, <1>2, <1>3 DEF PluginIsCleared, PushIsOfActive, Returned
<1>6. StoppingIsUnregistered'
  <2>1. s \notin stopping
    BY CommitNewest DEF SessionInv, StoppingOwned
  <2> QED
    BY <1>2, <2>1 DEF StoppingIsUnregistered, SessionInv, TypeOK
<1>7. PluginServesActiveOrNone' /\ ActiveFactoryRuns'
  BY <1>2, <1>3 DEF PluginServesActiveOrNone, ActiveFactoryRuns, SessionInv, TypeOK
<1> QED
  BY <1>1, <1>4, <1>5, <1>6, <1>7

\* The other steps of the only call.
LEMMA AloneConnect ==
  ASSUME SessionInv, AloneInv, NEW s \in Call, ConnectStep(s)
  PROVE  AloneInv'
<1> USE DEF Goto, appVars, handleVars, callLocals, SessionInv, TypeOK
<1>1. /\ s \in InFlight /\ InFlight' \subseteq {s} /\ Alone'
      /\ \A t \in Call : pc'[t] \notin {"idle"} \union Returned => t = s
  BY OnlyMine DEF AloneInv
<1>2. CASE Claim(s)
  <2>1. CASE pc'[s] \in Returned
    <3>1. UNCHANGED activeContextSeq
      BY <1>2, <2>1 DEF Claim, Returned
    <3> QED
      BY <1>2, <2>1, <3>1, AloneAdvance DEF Claim, pluginVars
  <2>2. CASE pc'[s] \notin Returned
    <3>1. /\ pc'[s] = "clearContext" /\ activeContextSeq' = s
          /\ UNCHANGED <<activeContext, factories, handle, stopping, ctx, pluginContext>>
      BY <1>2, <2>2 DEF Claim, pluginVars, Returned
    <3>2. ClaimIsMine'
      BY <1>1, <3>1 DEF ClaimIsMine
    <3>3. PluginIsCleared' /\ PushIsOfActive'
      BY <1>1, <3>1 DEF PluginIsCleared, PushIsOfActive, Returned
    <3> QED
      BY <1>1, <3>1, <3>2, <3>3 DEF AloneInv, StoppingIsUnregistered, PluginServesActiveOrNone,
                                    ActiveFactoryRuns
  <2> QED
    BY <2>1, <2>2
<1>3. CASE ClearPluginContext(s)
  <2>1. /\ pluginContext' = NoCtx /\ pc'[s] = "clearNamespaces" /\ pc[s] = "clearContext"
        /\ UNCHANGED <<activeContext, activeContextSeq, factories, handle, stopping, ctx>>
    BY <1>3 DEF ClearPluginContext
  <2>2. ClaimIsMine' /\ PluginIsCleared' /\ PushIsOfActive'
    BY <1>1, <2>1 DEF AloneInv, ClaimIsMine, PluginIsCleared, PushIsOfActive, Returned
  <2> QED
    BY <1>1, <2>1, <2>2 DEF AloneInv, StoppingIsUnregistered, PluginServesActiveOrNone,
                            ActiveFactoryRuns
<1>4. CASE ClearPluginNamespaces(s)
  BY <1>4, AloneAdvance DEF ClearPluginNamespaces
<1>5. CASE ReadState(s)
  BY <1>5, AloneAdvance DEF ReadState, pluginVars
<1>6. CASE StopPrevious(s)
  BY <1>6, AloneAdvance DEF StopPrevious, pluginVars
<1>7. CASE EnsureProxy(s)
  BY <1>7, AloneAdvance DEF EnsureProxy, pluginVars
<1>8. CASE WaitProxy(s)
  BY <1>8, AloneAdvance DEF WaitProxy, pluginVars
<1>9. CASE Probe(s)
  BY <1>9, AloneAdvance DEF Probe, pluginVars
<1>10. CASE Commit(s)
  BY <1>10, AloneCommit
<1>11. CASE Supersede(s)
  <2>1. s = activeContextSeq /\ s < activeContextSeq /\ s \in Nat
    BY <1>1, <1>11, SessionAssumption DEF Supersede, AloneInv, ClaimIsMine, Call
  <2> QED
    BY <2>1
<1>12. CASE PushContext(s)
  <2>1. /\ pluginContext' = ctx[s] /\ pc'[s] = "pushNamespaces" /\ pc[s] = "pushContext"
        /\ UNCHANGED <<activeContext, activeContextSeq, factories, handle, stopping, ctx>>
    BY <1>12 DEF PushContext
  <2>2. ClaimIsMine' /\ PluginIsCleared' /\ PushIsOfActive'
    BY <1>1, <2>1 DEF AloneInv, ClaimIsMine, PluginIsCleared, PushIsOfActive, Returned
  <2>3. PluginServesActiveOrNone'
    BY <2>1 DEF AloneInv, PushIsOfActive, PluginServesActiveOrNone
  <2> QED
    BY <1>1, <2>1, <2>2, <2>3 DEF AloneInv, StoppingIsUnregistered, ActiveFactoryRuns
<1>13. CASE PushNamespaces(s)
  BY <1>13, AloneAdvance DEF PushNamespaces
<1>14. CASE Wire(s)
  BY <1>14, AloneAdvance DEF Wire, pluginVars, Returned
<1> QED
  BY <1>2, <1>3, <1>4, <1>5, <1>6, <1>7, <1>8, <1>9, <1>10, <1>11, <1>12, <1>13, <1>14
  DEF ConnectStep

\* Steps of nobody's call that leave the plugins' context and the factories alone.
LEMMA AloneFrame ==
  ASSUME AloneInv,
         UNCHANGED <<activeContext, activeContextSeq, factories, handle, stopping, pc, ctx,
                     pluginContext>>
  PROVE  AloneInv'
BY DEF AloneInv, Alone, ClaimIsMine, InFlight, PluginIsCleared, PushIsOfActive,
       StoppingIsUnregistered, PluginServesActiveOrNone, ActiveFactoryRuns

\* A lost proxy takes the active context away, and its factory out of the map.
LEMMA AloneLost ==
  ASSUME SessionInv, AloneInv, NEW c \in Ctx, HandleProxyLost(c)
  PROVE  AloneInv'
<1> USE DEF AloneInv
<1>1. UNCHANGED <<activeContextSeq, handle, pc, ctx, pluginContext>>
  BY DEF HandleProxyLost, pluginVars, callLocals
<1>2. Alone' /\ ClaimIsMine' /\ PluginIsCleared'
  BY <1>1 DEF Alone, ClaimIsMine, PluginIsCleared, InFlight
<1>3. CASE UNCHANGED <<activeContext, factories, stopping>>
  BY <1>1, <1>3, AloneFrame
<1>4. CASE /\ activeContext = c /\ activeContext' = NoCtx
           /\ stopping' = stopping \union ({factories[c]} \ {0})
           /\ factories' = [factories EXCEPT ![c] = 0]
  <2>1. StoppingIsUnregistered'
    <3> SUFFICES ASSUME NEW h \in stopping', NEW d \in Ctx, factories'[d] = h
                 PROVE  FALSE
      BY DEF StoppingIsUnregistered
    <3>1. d # c /\ factories[d] = h
      BY <1>4 DEF SessionInv, TypeOK, StoppingOwned, Committed, Call
    <3>2. h \notin stopping
      BY <3>1 DEF StoppingIsUnregistered
    <3>3. h = factories[c] /\ h # 0
      BY <1>4, <3>2
    <3> QED
      BY <3>1, <3>3 DEF SessionInv, FactoryOwner
  <2> QED
    BY <1>1, <1>2, <1>4, <2>1 DEF PushIsOfActive, PluginServesActiveOrNone, ActiveFactoryRuns
<1> QED
  BY <1>3, <1>4 DEF HandleProxyLost

LEMMA AloneStep ==
  ASSUME MaxInFlight = 1, SessionInv, AloneInv, [Next]_vars
  PROVE  AloneInv'
<1> USE DEF appVars, handleVars, pluginVars, callLocals
<1>1. ASSUME NEW s \in Call, NEW c \in Ctx, IssueConnect(s, c)
      PROVE  AloneInv'
  <2>1. InFlight' = {s} /\ InFlight = {}
    BY <1>1, IssuedAlone
  <2>2. /\ pc' = [pc EXCEPT ![s] = "sent"]
        /\ UNCHANGED <<activeContext, activeContextSeq, factories, handle, stopping,
                       pluginContext>>
    BY <1>1 DEF IssueConnect, Goto
  <2>3. \A t \in Call : pc'[t] = "sent" \/ pc'[t] \in {"idle"} \union Returned
    BY <2>1, <2>2 DEF InFlight, SessionInv, TypeOK
  <2>4. Alone' /\ ClaimIsMine' /\ PluginIsCleared' /\ PushIsOfActive'
    BY <2>1, <2>2, <2>3 DEF Alone, ClaimIsMine, PluginIsCleared, PushIsOfActive, Returned,
                            SessionInv, TypeOK
  <2> QED
    BY <2>2, <2>4 DEF AloneInv, StoppingIsUnregistered, PluginServesActiveOrNone,
                      ActiveFactoryRuns
<1>2. ASSUME NEW s \in Call, ConnectStep(s)
      PROVE  AloneInv'
  BY <1>2, AloneConnect
<1>3. ASSUME NEW c \in Ctx, ProxySettles(c) \/ ProxyDies(c) \/ SaveClusterProxy(c)
      PROVE  AloneInv'
  BY <1>3, AloneFrame DEF ProxySettles, ProxyDies, SaveClusterProxy
<1>4. ASSUME NEW c \in Ctx, HandleProxyLost(c)
      PROVE  AloneInv'
  BY <1>4, AloneLost
<1>5. ASSUME NEW h \in Call, StopLostFactory(h)
      PROVE  AloneInv'
  <2>1. /\ h \in stopping /\ stopping' \subseteq stopping
        /\ handle' = [handle EXCEPT ![h] = "stopped"]
        /\ UNCHANGED <<activeContext, activeContextSeq, factories, pc, ctx, pluginContext>>
    BY <1>5 DEF StopLostFactory
  <2>2. ActiveFactoryRuns'
    BY <2>1 DEF AloneInv, ActiveFactoryRuns, StoppingIsUnregistered, SessionInv, TypeOK
  <2> QED
    BY <2>1, <2>2 DEF AloneInv, Alone, ClaimIsMine, InFlight, PluginIsCleared, PushIsOfActive,
                      StoppingIsUnregistered, PluginServesActiveOrNone
<1>6. ASSUME NEW n \in Selection,
             SelectionStep(n) \/ \E f \in Filter : IssueSelection(n, f)
      PROVE  AloneInv'
  BY <1>6, AloneFrame DEF IssueSelection, SelectionStep, ApplySelection, DropSelection,
                          RescopeSelection, PushSelection
<1>7. CASE Reload \/ UNCHANGED vars
  BY <1>7, AloneFrame DEF Reload, vars
<1> QED
  BY <1>1, <1>2, <1>3, <1>4, <1>5, <1>6, <1>7 DEF Next

\* AloneInv holds in every state that a frontend reaches which waits for each switch to end.
THEOREM AloneInvariant ==
  ASSUME MaxInFlight = 1
  PROVE  Spec => []AloneInv
<1>1. Init => AloneInv
  BY DEF Init, AloneInv, Alone, ClaimIsMine, InFlight, PluginIsCleared, PushIsOfActive,
         StoppingIsUnregistered, PluginServesActiveOrNone, ActiveFactoryRuns
<1>2. SessionInv /\ AloneInv /\ [Next]_vars => AloneInv'
  BY AloneStep
<1> QED
  BY <1>1, <1>2, SessionInvariant, PTL DEF Spec

\* With one switch at a time a plugin that serves a cluster serves the active one, whatever
\* proxies are lost and settings saved meanwhile (plugin.go:45-89).
THEOREM PluginServes ==
  ASSUME MaxInFlight = 1
  PROVE  Spec => []PluginServesActiveOrNone
<1>1. AloneInv => PluginServesActiveOrNone
  BY DEF AloneInv
<1> QED
  BY <1>1, AloneInvariant, PTL

\* With one switch at a time the active context's informers run: no Connect and no lost proxy
\* stops them (app.go:283-291, 392-421).
THEOREM FactoryRuns ==
  ASSUME MaxInFlight = 1
  PROVE  Spec => []ActiveFactoryRuns
<1>1. AloneInv => ActiveFactoryRuns
  BY DEF AloneInv
<1> QED
  BY <1>1, AloneInvariant, PTL

=============================================================================
