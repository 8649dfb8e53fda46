--------------------------- MODULE ClusterPageProofs ---------------------------
(***************************************************************************)
(* What holds of the page for any contexts and any number of calls.        *)
(*                                                                         *)
(* The attempt whose answer the page takes is the newest call there is     *)
(* (AttemptIsNewest), so its answer without an error means that it was     *)
(* committed, and no older call can commit after it (AnswerIsCommitted,    *)
(* ScreenIsCommitted).  That the queries are those of this visit rests on  *)
(* every cluster without a setup command that is left being known as       *)
(* connected when it is (QueriesOfVisit).                                  *)
(***************************************************************************)
EXTENDS ClusterPage, TLAPS

\* The host serves c, unless c was lost.
Served(c) == active = c \/ (c \in Setup /\ active = NoCtx)

IssuedInOrder == \A m \in Issued : \A k \in Attempt : k < m => k \in Issued

AttemptIsNewest == attempt # 0 => attempt \in Issued /\ \A m \in Issued : m <= attempt

AppliedWereIssued == applied \subseteq Issued

AnswerIsCommitted ==
  attempt # 0 /\ call[attempt] \in {"committed", "ok"} =>
    attempt \in applied /\ Served(target[attempt])

\* No call is under way and none has failed.
Settled == shown # NoCtx /\ connecting = NoCtx /\ failed = NoCtx

ScreenIsCommitted ==
  Settled => /\ attempt # 0 /\ call[attempt] = "heard" /\ attempt \in applied
             /\ shown = target[attempt] /\ Served(shown)

\* The inductive invariant of what is shown.
IInv ==
  /\ TypeOK /\ IssuedInOrder /\ AttemptIsNewest /\ AppliedWereIssued
  /\ AnswerIsCommitted /\ ScreenIsCommitted

-----------------------------------------------------------------------------
LEMMA InitEstablishes == Init => IInv
<1> SUFFICES ASSUME Init PROVE IInv
  OBVIOUS
<1>1. TypeOK
  <2>1. 0 \in 0..MaxAttempts /\ Issued = {}
    BY PageAssumption DEF Init, Issued
  <2> QED
    BY <2>1 DEF Init, TypeOK, Session!Init
<1> QED
  BY <1>1 DEF IInv, Init, Session!Init, Issued, Settled, IssuedInOrder, AttemptIsNewest,
     AppliedWereIssued, AnswerIsCommitted, ScreenIsCommitted

LEMMA AttemptIsNat == Attempt \subseteq Nat \ {0}
BY PageAssumption DEF Attempt

\* What a commit of a render does to the queries.
LEMMA RenderType ==
  ASSUME TypeOK, NEW layout, NEW now, NEW known, Render(layout, now, known)
  PROVE  visit' \in Nat /\ cached' \in [Ctx -> Nat]
BY DEF Render, TypeOK

\* The steps of the host.
LEMMA ReturnKeeps ==
  ASSUME IInv, NEW n \in Attempt, Return(n)
  PROVE  IInv'
<1> USE AttemptIsNat DEF IInv
<1>1. CASE Commit(n)
  <2>1. n \in Issued /\ active' = target[n] /\ applied' = applied \union {n}
        /\ \A m \in applied : m < n
    BY <1>1 DEF Commit, Session!Switch, Issued
  <2>2. call' = [call EXCEPT ![n] = "committed"] /\ Issued' = Issued
        /\ UNCHANGED <<target, lost, screenVars, visit, cached, reloads>>
    BY <1>1 DEF Commit, Issued, TypeOK
  <2>3. TypeOK'
    BY <2>1, <2>2 DEF TypeOK, screenVars
  <2>4. IssuedInOrder' /\ AttemptIsNewest' /\ AppliedWereIssued'
    BY <2>1, <2>2 DEF IssuedInOrder, AttemptIsNewest, AppliedWereIssued, screenVars
  <2>5. ASSUME attempt \in applied PROVE FALSE
    BY <2>1, <2>5 DEF AttemptIsNewest, AppliedWereIssued, Issued
  <2>6. AnswerIsCommitted'
    <3>1. CASE attempt = n
      BY <3>1, <2>1, <2>2 DEF AnswerIsCommitted, Served, screenVars, TypeOK
    <3>2. CASE attempt # n
      BY <3>2, <2>2, <2>5 DEF AnswerIsCommitted, screenVars, TypeOK, AttemptIsNewest, Issued
    <3> QED
      BY <3>1, <3>2
  <2>7. ScreenIsCommitted'
    BY <2>2, <2>5 DEF ScreenIsCommitted, Settled, screenVars
  <2> QED
    BY <2>3, <2>4, <2>6, <2>7
<1>2. CASE Succeed(n)
  <2>1. n \in Issued /\ call' = [call EXCEPT ![n] = "ok"] /\ Issued' = Issued
        /\ UNCHANGED <<active, applied, target, lost, screenVars, visit, cached, reloads>>
    BY <1>2 DEF Succeed, Issued, TypeOK
  <2>2. TypeOK'
    BY <2>1 DEF TypeOK, screenVars
  <2>3. attempt = n => call[n] = "committed"
    BY <1>2, <2>1 DEF Succeed, AttemptIsNewest, Issued
  <2>4. IssuedInOrder' /\ AttemptIsNewest' /\ AppliedWereIssued'
    BY <2>1 DEF IssuedInOrder, AttemptIsNewest, AppliedWereIssued, screenVars
  <2>5. AnswerIsCommitted'
    BY <2>1, <2>3 DEF AnswerIsCommitted, Served, screenVars, TypeOK, AttemptIsNewest, Issued
  <2>6. ScreenIsCommitted'
    BY <2>1, <1>2 DEF ScreenIsCommitted, Settled, Served, screenVars, TypeOK, Succeed,
       AttemptIsNewest, Issued
  <2> QED
    BY <2>2, <2>4, <2>5, <2>6
<1>3. CASE Fail(n)
  <2>1. n \in Issued /\ call[n] = "running" /\ call' = [call EXCEPT ![n] = "error"]
        /\ Issued' = Issued
        /\ UNCHANGED <<active, applied, target, lost, screenVars, visit, cached, reloads>>
    BY <1>3 DEF Fail, Issued, TypeOK
  <2>2. TypeOK'
    BY <2>1 DEF TypeOK, screenVars
  <2>3. IssuedInOrder' /\ AttemptIsNewest' /\ AppliedWereIssued'
    BY <2>1 DEF IssuedInOrder, AttemptIsNewest, AppliedWereIssued, screenVars
  <2>4. AnswerIsCommitted' /\ ScreenIsCommitted'
    BY <2>1 DEF AnswerIsCommitted, ScreenIsCommitted, Settled, Served, screenVars, TypeOK,
       AttemptIsNewest, Issued
  <2> QED
    BY <2>2, <2>3, <2>4
<1> QED
  BY <1>1, <1>2, <1>3 DEF Return

LEMMA LoseKeeps ==
  ASSUME IInv, LoseProxy
  PROVE  IInv'
<1> USE AttemptIsNat, PageAssumption DEF IInv
<1>1. active \in Setup /\ active' = NoCtx
      /\ UNCHANGED <<applied, target, call, screenVars, visit, cached, reloads>> /\ Issued' = Issued
  BY DEF LoseProxy, Session!Lose, Issued
<1>2. TypeOK'
  BY <1>1 DEF TypeOK, LoseProxy, screenVars
<1>3. IssuedInOrder' /\ AttemptIsNewest' /\ AppliedWereIssued'
  BY <1>1 DEF IssuedInOrder, AttemptIsNewest, AppliedWereIssued, screenVars
<1>4. AnswerIsCommitted' /\ ScreenIsCommitted'
  BY <1>1 DEF AnswerIsCommitted, ScreenIsCommitted, Settled, Served, screenVars, TypeOK
<1> QED
  BY <1>2, <1>3, <1>4

\* A new call: it is the newest, and nothing is settled until it is answered.
LEMMA ConnectToKeeps ==
  ASSUME IInv, NEW c \in Ctx, ConnectTo(c),
         UNCHANGED <<active, applied, lost, shown, connected>>,
         overlay' \in BOOLEAN, visit' \in Nat, cached' \in [Ctx -> Nat]
  PROVE  IInv'
<1> USE AttemptIsNat, PageAssumption DEF IInv
<1>1. PICK n \in Attempt :
        /\ n \notin Issued /\ \A m \in Attempt : m < n => m \in Issued
        /\ target' = [target EXCEPT ![n] = c] /\ call' = [call EXCEPT ![n] = "running"]
        /\ connecting' = c /\ failed' = NoCtx /\ attempt' = n
  BY DEF ConnectTo
<1>2. Issued' = Issued \union {n}
  BY <1>1 DEF Issued, TypeOK
<1>3. TypeOK'
  <2>1. \A m \in Issued' : target'[m] \in Ctx
    BY <1>1, <1>2 DEF TypeOK, Issued
  <2>2. attempt' \in 0..MaxAttempts
    BY <1>1 DEF Attempt
  <2> QED
    BY <1>1, <2>1, <2>2 DEF TypeOK
<1>4. AnswerIsCommitted' /\ ScreenIsCommitted' /\ AppliedWereIssued'
  BY <1>1, <1>2 DEF AnswerIsCommitted, ScreenIsCommitted, Settled, AppliedWereIssued, TypeOK
<1>5. Issued \subseteq Attempt /\ \A m \in Issued : m < n
  BY <1>1 DEF IssuedInOrder, Issued
<1>6. IssuedInOrder' /\ AttemptIsNewest'
  <2>1. attempt' = n /\ n \in Issued' /\ \A m \in Issued' : m <= n
    BY <1>1, <1>2, <1>5
  <2> QED
    BY <1>1, <1>2, <1>5, <2>1 DEF IssuedInOrder, AttemptIsNewest
<1> QED
  BY <1>3, <1>4, <1>6

\* The page hears of a call.
LEMMA DeliverKeeps ==
  ASSUME IInv, NEW n \in Attempt, Deliver(n)
  PROVE  IInv'
<1> USE AttemptIsNat, PageAssumption DEF IInv
<1>1. n \in Issued /\ call' = [call EXCEPT ![n] = "heard"] /\ Issued' = Issued
      /\ UNCHANGED <<active, applied, target, lost, attempt, overlay, reloads>>
  BY DEF Deliver, ConnectSuccess, ConnectFail, Issued, TypeOK
<1>2. IssuedInOrder' /\ AttemptIsNewest' /\ AppliedWereIssued'
  BY <1>1 DEF IssuedInOrder, AttemptIsNewest, AppliedWereIssued
<1>3. AnswerIsCommitted'
  BY <1>1 DEF AnswerIsCommitted, Served, TypeOK, AttemptIsNewest, Issued
<1>4. CASE ConnectSuccess(n) /\ n = attempt
  <2>1. call[n] = "ok" /\ shown' = target[n] /\ connected' = connected \union {target[n]}
        /\ connecting' = NoCtx /\ failed' = NoCtx /\ target[n] \in Ctx
        /\ visit' \in Nat /\ cached' \in [Ctx -> Nat]
    BY <1>1, <1>4, RenderType DEF ConnectSuccess, TypeOK
  <2>2. TypeOK'
    BY <1>1, <2>1 DEF TypeOK
  <2>3. ScreenIsCommitted'
    BY <1>1, <1>4, <2>1 DEF ScreenIsCommitted, Settled, Served, AnswerIsCommitted, TypeOK
  <2> QED
    BY <1>2, <1>3, <2>2, <2>3
<1>5. CASE ConnectFail(n) /\ n = attempt
  <2>1. failed' = target[n] /\ connecting' = NoCtx /\ target[n] \in Ctx
        /\ UNCHANGED <<shown, connected, visit, cached>>
    BY <1>1, <1>5 DEF ConnectFail, TypeOK
  <2>2. TypeOK'
    BY <1>1, <2>1 DEF TypeOK
  <2>3. ScreenIsCommitted'
    BY <2>1 DEF ScreenIsCommitted, Settled
  <2> QED
    BY <1>2, <1>3, <2>2, <2>3
<1>6. CASE n # attempt
  <2>1. UNCHANGED <<shown, connected, connecting, failed, visit, cached>>
    BY <1>6 DEF Deliver, ConnectSuccess, ConnectFail
  <2>2. TypeOK'
    BY <1>1, <2>1 DEF TypeOK
  <2>3. ScreenIsCommitted'
    BY <1>1, <1>6, <2>1 DEF ScreenIsCommitted, Settled, Served, AttemptIsNewest, Issued, TypeOK
  <2> QED
    BY <1>2, <1>3, <2>2, <2>3
<1> QED
  BY <1>4, <1>5, <1>6 DEF Deliver

\* The steps of the user, lost connections and reloads.
LEMMA PageKeeps ==
  ASSUME IInv, Reconnect \/ OpenOverlay \/ Reload
               \/ \E c \in Ctx : SelectCluster(c) \/ ConnectionLost(c)
  PROVE  IInv'
<1> USE PageAssumption DEF IInv
<1>1. CASE Reconnect
  <2>1. failed \in Ctx
    BY <1>1 DEF Reconnect, TypeOK
  <2>2. visit' \in Nat /\ cached' \in [Ctx -> Nat]
    BY <1>1, RenderType DEF Reconnect
  <2> QED
    BY <1>1, <2>1, <2>2, ConnectToKeeps DEF Reconnect, TypeOK
<1>2. CASE OpenOverlay
  <2>1. visit' \in Nat /\ cached' \in [Ctx -> Nat]
    BY <1>2, RenderType DEF OpenOverlay
  <2>2. UNCHANGED <<hostVars, shown, connected, connecting, failed, attempt>> /\ overlay' = TRUE
        /\ Issued' = Issued
    BY <1>2 DEF OpenOverlay, hostVars, Issued
  <2>3. TypeOK'
    BY <2>1, <2>2 DEF TypeOK, hostVars
  <2> QED
    BY <2>2, <2>3 DEF IssuedInOrder, AttemptIsNewest, AppliedWereIssued, AnswerIsCommitted,
       ScreenIsCommitted, Settled, Served, hostVars
<1>3. CASE Reload
  <2>1. UNCHANGED <<active, applied, target, call>> /\ Issued' = Issued
        /\ shown' = NoCtx /\ attempt' = 0
    BY <1>3 DEF Reload, Issued
  <2>2. TypeOK'
    <3>1. 0 \in 0..MaxAttempts /\ visit' \in Nat
      BY <1>3 DEF Reload, TypeOK
    <3> QED
      BY <1>3, <2>1, <3>1 DEF Reload, TypeOK
  <2> QED
    BY <2>1, <2>2 DEF IssuedInOrder, AttemptIsNewest, AppliedWereIssued, AnswerIsCommitted,
       ScreenIsCommitted, Settled
<1>4. ASSUME NEW c \in Ctx, SelectCluster(c) PROVE IInv'
  <2>1. overlay' = FALSE /\ UNCHANGED <<active, applied, lost, shown, connected, reloads>>
        /\ visit' \in Nat /\ cached' \in [Ctx -> Nat]
    BY <1>4, RenderType DEF SelectCluster
  <2>2. CASE c = shown /\ failed = NoCtx
    <3>1. UNCHANGED <<target, call, connecting, failed, attempt>> /\ Issued' = Issued
      BY <1>4, <2>2 DEF SelectCluster, Issued
    <3>2. TypeOK'
      BY <2>1, <3>1 DEF TypeOK
    <3> QED
      BY <2>1, <3>1, <3>2 DEF IssuedInOrder, AttemptIsNewest, AppliedWereIssued,
         AnswerIsCommitted, ScreenIsCommitted, Settled, Served
  <2>3. CASE ~(c = shown /\ failed = NoCtx)
    BY <1>4, <2>1, <2>3, ConnectToKeeps DEF SelectCluster
  <2> QED
    BY <2>2, <2>3
<1>5. ASSUME NEW c \in Ctx, ConnectionLost(c) PROVE IInv'
  <2>1. UNCHANGED <<active, applied, target, call, connecting, attempt, overlay, reloads>>
        /\ Issued' = Issued /\ lost' \in [Ctx -> Nat] /\ lost'[c] < lost[c]
    BY <1>5 DEF ConnectionLost, Issued, TypeOK
  <2>2. CASE shown = c
    <3>1. shown' = NoCtx /\ failed' = c /\ connected' = connected \ {c}
          /\ visit' \in Nat /\ cached' \in [Ctx -> Nat]
      BY <1>5, <2>2, RenderType DEF ConnectionLost
    <3>2. TypeOK'
      BY <2>1, <3>1 DEF TypeOK
    <3> QED
      BY <2>1, <3>1, <3>2 DEF IssuedInOrder, AttemptIsNewest, AppliedWereIssued,
         AnswerIsCommitted, ScreenIsCommitted, Settled, Served
  <2>3. CASE shown # c
    <3>1. UNCHANGED <<shown, failed, connected, visit, cached>>
      BY <1>5, <2>3 DEF ConnectionLost
    <3>2. TypeOK'
      BY <2>1, <3>1 DEF TypeOK
    <3> QED
      BY <2>1, <3>1, <3>2 DEF IssuedInOrder, AttemptIsNewest, AppliedWereIssued,
         AnswerIsCommitted, ScreenIsCommitted, Settled, Served
  <2> QED
    BY <2>2, <2>3
<1> QED
  BY <1>1, <1>2, <1>3, <1>4, <1>5

\* The inductive invariant: what the page takes for connected, the host has committed.
THEOREM PageInvariant == Spec => []IInv
<1>1. ASSUME IInv, UNCHANGED vars PROVE IInv'
  BY <1>1 DEF IInv, TypeOK, IssuedInOrder, AttemptIsNewest, AppliedWereIssued, AnswerIsCommitted,
     ScreenIsCommitted, Settled, Served, Issued, vars, hostVars, screenVars
<1>2. IInv /\ [Next]_vars => IInv'
  BY <1>1, ReturnKeeps, DeliverKeeps, LoseKeeps, PageKeeps DEF Next
<1> QED
  BY <1>2, InitEstablishes, PTL DEF Spec

\* Type correctness for any contexts and any number of calls.
THEOREM TypeCorrect == Spec => []TypeOK
BY PageInvariant, PTL DEF IInv

\* The mounted layout is that of the cluster the host serves, unless that one was lost.
THEOREM ShowsSession == Spec => []PageShowsSession
<1>1. IInv => PageShowsSession
  BY PageAssumption DEF IInv, TypeOK, ScreenIsCommitted, Settled, Served, PageShowsSession, Mounted,
     Layout
<1> QED
  BY <1>1, PageInvariant, PTL

-----------------------------------------------------------------------------
(* The queries *)

ShownIsConnected == shown # NoCtx => visit > 0 /\ shown \in connected

OnlySetupIsLost == \A c \in Ctx : lost[c] > 0 => c \in Setup

\* What is cached of a cluster that cannot be lost is of this visit, and of the shown cluster.
QueriesOfVisit ==
  \A c \in Ctx \ Setup : cached[c] \in {0, visit} /\ (cached[c] # 0 => c = shown)

QInv == ShownIsConnected /\ OnlySetupIsLost /\ QueriesOfVisit /\ VisitKeepsItsQueries

LEMMA RenderKeepsQueries ==
  ASSUME TypeOK, QInv, NEW layout, NEW now \in Ctx \union {NoCtx}, NEW known,
         Render(layout, now, known), layout \in {NoCtx, now}, shown' = now,
         shown \in {NoCtx, now} \/ shown \in Setup \/ shown \in known,
         now # NoCtx => now \in connected',
         Mounted' \in {NoCtx, layout}, OnlySetupIsLost'
  PROVE  QInv'
<1> USE PageAssumption
<1> DEFINE v == IF now = shown THEN visit ELSE visit + 1
<1>1. visit' = v /\ visit \in Nat /\ v \in Nat /\ (now # NoCtx => v > 0)
  BY DEF Render, TypeOK, QInv, ShownIsConnected
<1>2. cached' = [c \in Ctx |->
         IF Evicted(c, now, known) THEN 0
         ELSE IF c = layout /\ cached[c] = 0 THEN v ELSE cached[c]]
  BY DEF Render
<1> HIDE DEF v
<1>3. ShownIsConnected'
  BY <1>1 DEF ShownIsConnected
<1>4. QueriesOfVisit'
  <2> SUFFICES ASSUME NEW c \in Ctx \ Setup
               PROVE  cached'[c] \in {0, visit'} /\ (cached'[c] # 0 => c = shown')
    BY DEF QueriesOfVisit
  <2>1. cached[c] \in {0, visit} /\ (cached[c] # 0 => c = shown)
    BY DEF QInv, QueriesOfVisit
  <2>2. CASE c = now
    <3>1. cached[c] # 0 => visit = v
      BY <2>1, <2>2 DEF v
    <3> QED
      BY <1>1, <1>2, <2>1, <2>2, <3>1
  <2>3. CASE c # now
    <3>1. cached[c] # 0 => Evicted(c, now, known)
      BY <2>1, <2>3 DEF Evicted
    <3> QED
      BY <1>2, <2>3, <3>1
  <2> QED
    BY <2>2, <2>3
<1>5. VisitKeepsItsQueries'
  <2> SUFFICES ASSUME Mounted' # NoCtx PROVE cached'[Mounted'] # 0
    BY DEF VisitKeepsItsQueries
  <2>1. Mounted' = now /\ layout = now /\ now \in Ctx /\ ~Evicted(now, now, known) /\ v # 0
    BY <1>1 DEF Evicted
  <2> QED
    BY <1>2, <2>1
<1> QED
  BY <1>3, <1>4, <1>5 DEF QInv

\* Steps that leave the page and its queries alone, or leave nothing mounted.
LEMMA QueriesUntouched ==
  ASSUME QInv, UNCHANGED <<shown, connected, visit, cached>>, OnlySetupIsLost',
         Mounted' \in {NoCtx, Mounted}
  PROVE  QInv'
BY DEF QInv, ShownIsConnected, QueriesOfVisit, VisitKeepsItsQueries

LEMMA NextKeepsQueries ==
  ASSUME IInv, QInv, [Next]_vars
  PROVE  QInv'
<1> USE PageAssumption DEF IInv
<1>1. CASE \E n \in Attempt : Return(n)
  BY <1>1, QueriesUntouched DEF Return, Commit, Succeed, Fail, screenVars, QInv, OnlySetupIsLost,
     Mounted
<1>2. CASE LoseProxy
  <2>1. OnlySetupIsLost'
    BY <1>2 DEF LoseProxy, Session!Lose, QInv, OnlySetupIsLost, TypeOK
  <2> QED
    BY <1>2, <2>1, QueriesUntouched DEF LoseProxy, screenVars, Mounted
<1>3. ASSUME NEW n \in Attempt, Deliver(n) PROVE QInv'
  <2>1. OnlySetupIsLost'
    BY <1>3 DEF Deliver, ConnectSuccess, ConnectFail, QInv, OnlySetupIsLost
  <2>2. CASE ConnectSuccess(n) /\ n = attempt
    <3>1. target[n] \in Ctx
      BY <2>2 DEF ConnectSuccess, TypeOK, Issued
    <3> QED
      BY <2>1, <2>2, <3>1, RenderKeepsQueries
         DEF ConnectSuccess, Layout, Mounted, QInv, ShownIsConnected
  <2>3. CASE ConnectFail(n) /\ n = attempt
    <3>1. target[n] \in Ctx
      BY <2>3 DEF ConnectFail, TypeOK, Issued
    <3> QED
      BY <2>1, <2>3, <3>1, QueriesUntouched DEF ConnectFail, Mounted, Layout
  <2>4. CASE n # attempt
    BY <1>3, <2>1, <2>4, QueriesUntouched DEF Deliver, ConnectSuccess, ConnectFail, Mounted
  <2> QED
    BY <1>3, <2>2, <2>3, <2>4 DEF Deliver
<1>4. CASE Reload
  BY <1>4 DEF Reload, QInv, ShownIsConnected, OnlySetupIsLost, QueriesOfVisit,
     VisitKeepsItsQueries, Mounted, Layout
<1>5. CASE OpenOverlay
  BY <1>5, RenderKeepsQueries DEF OpenOverlay, hostVars, Layout, Mounted, QInv, ShownIsConnected,
     OnlySetupIsLost, TypeOK
<1>6. CASE Reconnect
  <2>1. connecting' = failed /\ failed # NoCtx /\ shown \in Ctx \union {NoCtx}
    BY <1>6 DEF Reconnect, ConnectTo, TypeOK
  <2> QED
    BY <1>6, <2>1, RenderKeepsQueries DEF Reconnect, Layout, Mounted, QInv, ShownIsConnected,
       OnlySetupIsLost
<1>7. ASSUME NEW c \in Ctx, SelectCluster(c) PROVE QInv'
  <2>1. UNCHANGED <<lost, shown, connected>> /\ overlay' = FALSE
        /\ shown \in Ctx \union {NoCtx} /\ OnlySetupIsLost'
    BY <1>7 DEF SelectCluster, QInv, OnlySetupIsLost, TypeOK
  <2>2. CASE c = shown /\ failed = NoCtx
    <3> DEFINE l == Layout(FALSE, connecting, failed, shown)
    <3>1. Render(l, shown, connected) /\ UNCHANGED <<connecting, failed>>
      BY <1>7, <2>2 DEF SelectCluster
    <3>2. l \in {NoCtx, shown} /\ Mounted' = l
      BY <2>1, <3>1 DEF Layout, Mounted
    <3> HIDE DEF l
    <3> QED
      BY <2>1, <3>1, <3>2, RenderKeepsQueries DEF QInv, ShownIsConnected
  <2>3. CASE ~(c = shown /\ failed = NoCtx)
    <3>1. Render(NoCtx, shown, connected) /\ connecting' = c
      BY <1>7, <2>3 DEF SelectCluster, ConnectTo
    <3>2. Mounted' = NoCtx
      BY <3>1 DEF Layout, Mounted
    <3> QED
      BY <2>1, <3>1, <3>2, RenderKeepsQueries DEF QInv, ShownIsConnected
  <2> QED
    BY <2>2, <2>3
<1>8. ASSUME NEW c \in Ctx, ConnectionLost(c) PROVE QInv'
  <2>1. OnlySetupIsLost' /\ c \in Setup
    BY <1>8 DEF ConnectionLost, QInv, OnlySetupIsLost, TypeOK
  <2>2. CASE shown = c
    <3>1. Render(NoCtx, NoCtx, connected') /\ shown' = NoCtx /\ Mounted' = NoCtx
      BY <1>8, <2>2 DEF ConnectionLost, Mounted, Layout
    <3> QED
      BY <2>1, <2>2, <3>1, RenderKeepsQueries
  <2>3. CASE shown # c
    BY <1>8, <2>1, <2>3, QueriesUntouched DEF ConnectionLost, Mounted
  <2> QED
    BY <2>2, <2>3
<1>9. CASE UNCHANGED vars
  BY <1>9, QueriesUntouched DEF vars, hostVars, screenVars, Mounted, QInv, OnlySetupIsLost
<1> QED
  BY <1>1, <1>2, <1>3, <1>4, <1>5, <1>6, <1>7, <1>8, <1>9 DEF Next

\* What is cached belongs to the visit.
THEOREM QueriesInvariant == Spec => []QInv
<1>1. Init => QInv
  BY PageAssumption DEF Init, QInv, ShownIsConnected, OnlySetupIsLost, QueriesOfVisit,
     VisitKeepsItsQueries, Mounted, Layout
<1>2. IInv /\ QInv /\ [Next]_vars => QInv'
  BY NextKeepsQueries
<1> QED
  BY <1>1, <1>2, PageInvariant, PTL DEF Spec

\* The eviction leaves the mounted layout its queries.
THEOREM KeepsQueries == Spec => []VisitKeepsItsQueries
BY QueriesInvariant, PTL DEF QInv

\* A cluster that was left and is visited again shows nothing of the earlier visit.
THEOREM StartsFresh == Spec => []VisitStartsFresh
<1>1. QInv => VisitStartsFresh
  BY PageAssumption DEF QInv, QueriesOfVisit, VisitKeepsItsQueries, VisitStartsFresh
<1> QED
  BY <1>1, QueriesInvariant, PTL

=============================================================================
