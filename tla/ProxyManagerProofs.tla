-------------------------- MODULE ProxyManagerProofs --------------------------
(***************************************************************************)
(* Proofs about ProxyManager, for every number of launches and of callers  *)
(* of Stop: type correctness, InFlightIsCurrent, OldShellIsDoomed,         *)
(* DemotedByOwnWatcher and the implementation of SetupProxy.               *)
(***************************************************************************)
EXTENDS ProxyManager, TLAPS

-----------------------------------------------------------------------------
(* The inductive invariant: the control of launches *)

\* Only a launch that began is cancelled, never the one under way in Starting.
Withdrawn(l) == l \in Launch /\ l <= launchSeq /\ (state = "starting" => l # launchSeq)
CancelIsLate ==
  /\ \A l \in cancelled : Withdrawn(l)
  /\ \A p \in Stopper : stopPc[p] = "cancel" => Withdrawn(stopOf[p])

\* Starting belongs to a doLaunch that has not settled.
StartingHasLaunch == state = "starting" => launchSeq \in Launch /\ lpc[launchSeq] \in InFlightPc

\* doLaunch selects after it has stored its process.
StoredCmd == \A l \in Launch : lpc[l] = "select" => cmd = l

\* Ready belongs to the last process stored.
ReadyIsStored == state = "ready" => cmd = launchSeq

\* No loss is reported of a launch to come, under way or ready.
Unreported ==
  \A l \in Launch :
    l > launchSeq \/ lpc[l] \in InFlightPc \/ (state = "ready" /\ l = launchSeq) => l \notin lostBy

LaunchInv ==
  /\ TypeOK /\ InFlightIsCurrent
  /\ CancelIsLate /\ StartingHasLaunch /\ StoredCmd /\ ReadyIsStored /\ Unreported

-----------------------------------------------------------------------------
(* Type correctness *)

\* A new manager has the types TypeOK states.
LEMMA InitType == Init => TypeOK
BY ProxyAssumption DEF Init, TypeOK, Launch, State, LaunchPc, Group

\* Every step of doLaunch keeps the types.
LEMMA LaunchType ==
  ASSUME TypeOK, NEW l \in Launch, LaunchStep(l)
  PROVE  TypeOK'
<1> USE DEF TypeOK, State, LaunchPc, Group, GotoLaunch, TransitionTo, osVars, stopVars
<1>1. CASE StartFails(l)
  BY <1>1 DEF StartFails
<1>2. CASE StartShell(l)
  BY <1>2 DEF StartShell
<1>3. CASE StoreProcess(l)
  BY <1>3 DEF StoreProcess
<1>4. CASE SelectCancelled(l)
  BY <1>4 DEF SelectCancelled, KillGroup
<1>5. CASE SelectReady(l)
  BY <1>5 DEF SelectReady
<1>6. CASE SelectReadyTooLate(l)
  BY <1>6 DEF SelectReadyTooLate
<1>7. CASE SelectExit(l)
  BY <1>7 DEF SelectExit
<1>8. CASE SelectTimeout(l)
  BY <1>8 DEF SelectTimeout, KillGroup
<1>9. QED
  BY <1>1, <1>2, <1>3, <1>4, <1>5, <1>6, <1>7, <1>8 DEF LaunchStep

\* Every step of the watchers keeps the types.
LEMMA WatchType ==
  ASSUME TypeOK, NEW l \in Launch, WatchStep(l)
  PROVE  TypeOK'
<1> USE DEF TypeOK, State, Group, GotoHealth, StillIn, launchVars, osVars, stopVars
<1>1. CASE WatchProcessDeath(l)
  BY <1>1 DEF WatchProcessDeath
<1>2. CASE HealthTick(l)
  BY <1>2 DEF HealthTick
<1>3. CASE HealthDial(l)
  BY <1>3 DEF HealthDial
<1>4. CASE HealthDemote(l)
  BY <1>4 DEF HealthDemote
<1>5. CASE HealthKill(l)
  BY <1>5 DEF HealthKill, KillGroup
<1>6. QED
  BY <1>1, <1>2, <1>3, <1>4, <1>5 DEF WatchStep

\* Every step of Stop keeps the types.
LEMMA StopType ==
  ASSUME TypeOK, CancelIsLate, NEW p \in Stopper, StopBegin(p) \/ StopStep(p)
  PROVE  TypeOK'
<1> USE DEF TypeOK, State, Group, launchVars, osVars
<1>1. CASE StopBegin(p)
  BY <1>1 DEF StopBegin
<1>2. CASE StopCancel(p)
  BY <1>2 DEF StopCancel, CancelIsLate, Withdrawn
<1>3. CASE StopKill(p)
  BY <1>3 DEF StopKill, KillGroup
<1>4. CASE StopWait(p)
  BY <1>4 DEF StopWait
<1>5. QED
  BY <1>1, <1>2, <1>3, <1>4 DEF StopStep

\* What the processes do keeps the types.
LEMMA ProcessType ==
  ASSUME TypeOK, NEW l \in Launch, PollPort(l) \/ ContextKill(l) \/ Reap(l) \/ Environment(l)
  PROVE  TypeOK'
<1> USE DEF TypeOK, Group, launchVars, osVars, stopVars
<1>1. CASE PollPort(l)
  BY <1>1 DEF PollPort
<1>2. CASE ContextKill(l)
  BY <1>2 DEF ContextKill
<1>3. CASE Reap(l)
  BY <1>3 DEF Reap
<1>4. CASE ShellExits(l)
  BY <1>4 DEF ShellExits
<1>5. CASE TunnelOpens(l)
  BY <1>5 DEF TunnelOpens
<1>6. CASE TunnelBreaks(l)
  BY <1>6 DEF TunnelBreaks
<1>7. CASE PrintMarker(l)
  BY <1>7 DEF PrintMarker
<1>8. QED
  BY <1>1, <1>2, <1>3, <1>4, <1>5, <1>6, <1>7 DEF Environment

\* Every step of the manager keeps the types.
LEMMA NextType == LaunchInv /\ [Next]_vars => TypeOK'
<1> SUFFICES ASSUME TypeOK, CancelIsLate, [Next]_vars
             PROVE  TypeOK'
  BY DEF LaunchInv
<1>1. CASE Connect
  BY <1>1, ProxyAssumption DEF Connect, TypeOK, State, LaunchPc, Launch, osVars, stopVars
<1>2. CASE UNCHANGED vars
  BY <1>2 DEF vars, launchVars, osVars, stopVars, TypeOK
<1>3. QED
  BY <1>1, <1>2, LaunchType, WatchType, StopType, ProcessType DEF Next

-----------------------------------------------------------------------------
(* The control of launches *)

\* LaunchInv speaks of these variables only.
LEMMA LaunchFrame ==
  ASSUME LaunchInv, TypeOK',
         UNCHANGED <<state, launchSeq, cmd, lpc, cancelled, lostBy, stopPc, stopOf>>
  PROVE  LaunchInv'
BY DEF LaunchInv, InFlightIsCurrent, CancelIsLate, Withdrawn, StartingHasLaunch, StoredCmd,
       ReadyIsStored, Unreported

\* The end of a launch, which leaves Starting or Stopping behind.
LEMMA SettleInv ==
  ASSUME LaunchInv, TypeOK', NEW l \in Launch, lpc[l] \in InFlightPc,
         lpc' = [lpc EXCEPT ![l] = "settled"],
         state' \in {"idle", "ready", "degraded", "stopping"},
         state' = "ready" => cmd = l /\ l \notin lostBy',
         lostBy \subseteq lostBy', lostBy' \subseteq lostBy \union {l},
         UNCHANGED <<launchSeq, cmd, cancelled, stopPc, stopOf>>
  PROVE  LaunchInv'
<1>1. l = launchSeq /\ \A k \in Launch \ {l} : lpc[k] \notin InFlightPc
  BY DEF LaunchInv, InFlightIsCurrent
<1>2. lpc \in [Launch -> LaunchPc] /\ "settled" \notin InFlightPc
  BY DEF LaunchInv, TypeOK, InFlightPc
<1>3. \A k \in Launch : lpc'[k] \notin InFlightPc
  BY <1>1, <1>2
<1>4. Unreported'
  <2>1. SUFFICES ASSUME NEW k \in Launch,
                        k > launchSeq \/ (state' = "ready" /\ k = launchSeq)
                 PROVE  k \notin lostBy'
    BY <1>3 DEF Unreported
  <2>2. ~(launchSeq > launchSeq)
    BY <1>1, ProxyAssumption DEF Launch
  <2>3. QED
    BY <1>1, <2>1, <2>2 DEF LaunchInv, Unreported
<1>5. QED
  BY <1>1, <1>3, <1>4 DEF LaunchInv, InFlightIsCurrent, CancelIsLate, Withdrawn,
                          StartingHasLaunch, StoredCmd, ReadyIsStored, InFlightPc

\* Every step of doLaunch keeps LaunchInv: it moves the launch on, or settles it.
LEMMA LaunchStepInv ==
  ASSUME LaunchInv, TypeOK', NEW l \in Launch, LaunchStep(l)
  PROVE  LaunchInv'
<1> USE DEF osVars, stopVars, GotoLaunch
<1>0. /\ lpc \in [Launch -> LaunchPc]
      /\ lpc[l] \in InFlightPc => /\ l = launchSeq /\ state \in {"starting", "stopping"}
                                  /\ l \notin lostBy
  BY DEF LaunchInv, TypeOK, InFlightIsCurrent, Unreported
<1>1. ASSUME NEW to \in {"store", "select"},
             lpc[l] \in InFlightPc, lpc' = [lpc EXCEPT ![l] = to],
             to = "select" => cmd' = l, to = "store" => UNCHANGED cmd,
             UNCHANGED <<state, launchSeq, cancelled, lostBy, stopPc, stopOf>>
      PROVE  LaunchInv'
  <2>1. \A k \in Launch : lpc'[k] \in InFlightPc <=> lpc[k] \in InFlightPc
    BY <1>0, <1>1 DEF InFlightPc
  <2>2. StoredCmd'
    BY <1>0, <1>1 DEF StoredCmd, LaunchInv, InFlightIsCurrent, InFlightPc
  <2>3. QED
    BY <1>0, <1>1, <2>1, <2>2 DEF LaunchInv, InFlightIsCurrent, CancelIsLate, Withdrawn,
                                  StartingHasLaunch, ReadyIsStored, Unreported
<1>2. CASE StartFails(l)
  BY <1>0, <1>2, SettleInv DEF StartFails, TransitionTo, InFlightPc
<1>3. CASE StartShell(l)
  BY <1>1, <1>3 DEF StartShell, InFlightPc
<1>4. CASE StoreProcess(l)
  BY <1>1, <1>4 DEF StoreProcess, InFlightPc
<1>5. CASE SelectCancelled(l)
  BY <1>0, <1>5, SettleInv DEF SelectCancelled, TransitionTo, InFlightPc
<1>6. CASE SelectReady(l)
  <2>1. cmd = l
    BY <1>6 DEF SelectReady, LaunchInv, StoredCmd
  <2>2. QED
    BY <1>0, <1>6, <2>1, SettleInv DEF SelectReady, InFlightPc
<1>7. CASE SelectReadyTooLate(l)
  BY <1>0, <1>7, SettleInv DEF SelectReadyTooLate, StillIn, InFlightPc
<1>8. CASE SelectExit(l)
  <2>1. CASE exit[l] = "err"
    BY <1>0, <1>8, <2>1, SettleInv DEF SelectExit, TransitionTo, InFlightPc
  <2>2. CASE exit[l] # "err"
    BY <1>8, <2>2, LaunchFrame DEF SelectExit
  <2>3. QED
    BY <2>1, <2>2
<1>9. CASE SelectTimeout(l)
  BY <1>0, <1>9, SettleInv DEF SelectTimeout, TransitionTo, InFlightPc
<1>10. QED
  BY <1>2, <1>3, <1>4, <1>5, <1>6, <1>7, <1>8, <1>9 DEF LaunchStep

\* A watcher gives up a Ready launch, or changes nothing LaunchInv speaks of.
LEMMA WatchStepInv ==
  ASSUME LaunchInv, TypeOK', NEW l \in Launch, WatchStep(l)
  PROVE  LaunchInv'
<1> USE DEF launchVars, osVars, stopVars
<1>1. ASSUME StillIn(l, "ready"), state' = "degraded", lostBy' = lostBy \union {l},
             UNCHANGED <<launchSeq, cmd, lpc, cancelled, stopPc, stopOf>>
      PROVE  LaunchInv'
  <2>1. \A k \in Launch : lpc[k] \notin InFlightPc
    BY <1>1 DEF LaunchInv, InFlightIsCurrent, StillIn
  <2>2. ~(l > l)
    BY ProxyAssumption DEF Launch
  <2>3. Unreported'
    BY <1>1, <2>1, <2>2 DEF LaunchInv, Unreported, StillIn
  <2>4. QED
    BY <1>1, <2>1, <2>3 DEF LaunchInv, InFlightIsCurrent, CancelIsLate, Withdrawn,
                            StartingHasLaunch, StoredCmd, ReadyIsStored
<1>2. CASE WatchProcessDeath(l)
  BY <1>1, <1>2, LaunchFrame DEF WatchProcessDeath
<1>3. CASE HealthTick(l) \/ HealthDial(l)
  BY <1>3, LaunchFrame DEF HealthTick, HealthDial
<1>4. CASE HealthDemote(l)
  BY <1>1, <1>4, LaunchFrame DEF HealthDemote
<1>5. CASE HealthKill(l)
  BY <1>5, LaunchFrame DEF HealthKill
<1>6. QED
  BY <1>2, <1>3, <1>4, <1>5 DEF WatchStep

\* Stop moves a manager from Starting to Stopping, or to Idle when no launch is under way.
LEMMA StopStepInv ==
  ASSUME LaunchInv, TypeOK', NEW p \in Stopper, StopBegin(p) \/ StopStep(p)
  PROVE  LaunchInv'
<1> USE DEF launchVars, osVars
<1>0. stopPc \in [Stopper -> {"idle", "cancel", "kill", "wait", "done"}]
      /\ stopOf \in [Stopper -> {0} \union Launch]
  BY DEF LaunchInv, TypeOK
<1>1. CASE StopBegin(p)
  <2>1. CancelIsLate'
    <3>1. launchSeq <= launchSeq
      BY ProxyAssumption DEF LaunchInv, TypeOK, Launch
    <3>2. QED
      BY <1>0, <1>1, <3>1 DEF StopBegin, LaunchInv, CancelIsLate, Withdrawn, StartingHasLaunch
  <2>2. InFlightIsCurrent'
    BY <1>1 DEF StopBegin, LaunchInv, InFlightIsCurrent
  <2>3. (StartingHasLaunch /\ StoredCmd /\ ReadyIsStored /\ Unreported)'
    BY <1>1 DEF StopBegin, LaunchInv, StartingHasLaunch, StoredCmd, ReadyIsStored, Unreported
  <2>4. QED
    BY <2>1, <2>2, <2>3 DEF LaunchInv
<1>2. CASE StopStep(p)
  <2>1. UNCHANGED <<state, launchSeq, cmd, lpc, lostBy>>
    BY <1>2 DEF StopStep, StopCancel, StopKill, StopWait
  <2>2. CancelIsLate'
    BY <1>0, <1>2 DEF StopStep, StopCancel, StopKill, StopWait, LaunchInv, CancelIsLate, Withdrawn
  <2>3. QED
    BY <2>1, <2>2 DEF LaunchInv, InFlightIsCurrent, StartingHasLaunch, StoredCmd,
                      ReadyIsStored, Unreported
<1>3. QED
  BY <1>1, <1>2

\* Connect begins a launch when none is under way.
LEMMA ConnectInv ==
  ASSUME LaunchInv, TypeOK', Connect
  PROVE  LaunchInv'
<1> USE DEF osVars, stopVars
<1>1. \A k \in Launch : lpc[k] \notin InFlightPc
  BY DEF Connect, LaunchInv, InFlightIsCurrent
<1>2. /\ launchSeq \in Nat /\ launchSeq + 1 \in Launch
      /\ lpc \in [Launch -> LaunchPc]
  BY ProxyAssumption DEF Connect, LaunchInv, TypeOK, Launch
<1>3. /\ lpc'[launchSeq + 1] = "start"
      /\ \A k \in Launch : lpc'[k] \in InFlightPc => k = launchSeq + 1
  BY <1>1, <1>2 DEF Connect
<1>4. /\ \A k \in Launch : k >= launchSeq + 1 => k > launchSeq
      /\ \A k \in Launch : k > launchSeq' \/ k = launchSeq + 1 => k > launchSeq
  BY <1>2, ProxyAssumption DEF Connect, Launch
<1>5. Unreported'
  BY <1>3, <1>4 DEF Connect, LaunchInv, Unreported
<1>6. (InFlightIsCurrent /\ StartingHasLaunch /\ StoredCmd /\ ReadyIsStored)'
  BY <1>1, <1>2, <1>3 DEF Connect, InFlightIsCurrent, StartingHasLaunch, StoredCmd,
                          ReadyIsStored, InFlightPc
<1>7. CancelIsLate'
  <2>1. \A l : Withdrawn(l) => Withdrawn(l)'
    BY <1>2, ProxyAssumption DEF Connect, Withdrawn, Launch
  <2>2. QED
    BY <2>1 DEF Connect, LaunchInv, CancelIsLate
<1>8. QED
  BY <1>5, <1>6, <1>7 DEF LaunchInv

\* The processes and the poll change nothing LaunchInv speaks of.
LEMMA ProcessFrame ==
  ASSUME NEW l \in Launch, PollPort(l) \/ ContextKill(l) \/ Reap(l) \/ Environment(l)
  PROVE  UNCHANGED <<state, launchSeq, cmd, lpc, cancelled, lostBy, health, stopPc, stopOf>>
BY DEF PollPort, ContextKill, Reap, Environment, ShellExits, TunnelOpens, TunnelBreaks,
       PrintMarker, launchVars, stopVars, osVars

\* Every step of the manager keeps LaunchInv.
LEMMA NextLaunch == LaunchInv /\ [Next]_vars => LaunchInv'
<1> SUFFICES ASSUME LaunchInv, [Next]_vars
             PROVE  LaunchInv'
  OBVIOUS
<1>0. TypeOK'
  BY NextType
<1>1. ASSUME NEW l \in Launch, PollPort(l) \/ ContextKill(l) \/ Reap(l) \/ Environment(l)
      PROVE  LaunchInv'
  BY <1>0, <1>1, ProcessFrame, LaunchFrame
<1>2. CASE UNCHANGED vars
  BY <1>0, <1>2, LaunchFrame DEF vars, launchVars, stopVars
<1>3. QED
  BY <1>0, <1>1, <1>2, LaunchStepInv, WatchStepInv, StopStepInv, ConnectInv DEF Next

\* A new manager has no launch.
LEMMA InitLaunch == Init => LaunchInv
BY InitType DEF Init, LaunchInv, InFlightIsCurrent, CancelIsLate, StartingHasLaunch,
                StoredCmd, ReadyIsStored, Unreported, InFlightPc

\* The control of launches is as LaunchInv says in every state.
THEOREM LaunchInvariant == Spec => []LaunchInv
BY InitLaunch, NextLaunch, PTL DEF Spec

\* The state of a manager always has its types (manager.go:59-74).
THEOREM TypeCorrect == Spec => []TypeOK
<1>1. LaunchInv => TypeOK
  BY DEF LaunchInv
<1>2. QED
  BY <1>1, LaunchInvariant, PTL

\* The guard of Connect (manager.go:138-149) is enough: however many Stops, watchers and
\* Connects meet, one launch at most is under way, and it is the current one.
THEOREM OneLaunch == Spec => []InFlightIsCurrent
<1>1. LaunchInv => InFlightIsCurrent
  BY DEF LaunchInv
<1>2. QED
  BY <1>1, LaunchInvariant, PTL

-----------------------------------------------------------------------------
(* A Ready proxy is given up by its own watchers *)

\* A step from Ready to Degraded is one of the watchers of the current launch.
LEMMA DemotingStep ==
  ASSUME LaunchInv, [Next]_vars, state = "ready", state' = "degraded"
  PROVE  launchSeq \in reaped \/ health[launchSeq] = "demote"
<1>1. ASSUME NEW l \in Launch, LaunchStep(l)
      PROVE  FALSE
  <2>1. lpc[l] \in InFlightPc \/ UNCHANGED state
    BY <1>1 DEF LaunchStep, StartFails, StartShell, StoreProcess, SelectCancelled, SelectReady,
                SelectReadyTooLate, SelectExit, SelectTimeout, GotoLaunch, InFlightPc
  <2>2. QED
    BY <2>1 DEF LaunchInv, InFlightIsCurrent
<1>2. ASSUME NEW l \in Launch, WatchStep(l)
      PROVE  launchSeq \in reaped \/ health[launchSeq] = "demote"
  BY <1>2 DEF WatchStep, WatchProcessDeath, HealthTick, HealthDial, HealthDemote, HealthKill,
              GotoHealth, StillIn
<1>3. ASSUME NEW p \in Stopper, StopBegin(p) \/ StopStep(p)
      PROVE  FALSE
  BY <1>3 DEF StopBegin, StopStep, StopCancel, StopKill, StopWait
<1>4. ~Connect /\ ~(UNCHANGED vars)
  BY DEF Connect, vars
<1>5. QED
  BY <1>1, <1>2, <1>3, <1>4, ProcessFrame DEF Next

\* Whatever watchers of earlier launches are still about (manager.go:316-363), a Ready
\* proxy is given up only for its own dead shell or its own failed health check.
THEOREM OwnWatcher == Spec => DemotedByOwnWatcher
<1>1. LaunchInv /\ [Next]_vars
        => [state = "ready" /\ state' = "degraded"
              => launchSeq \in reaped \/ health[launchSeq] = "demote"]_vars
  BY DemotingStep
<1>2. QED
  BY <1>1, LaunchInvariant, PTL DEF Spec, DemotedByOwnWatcher

-----------------------------------------------------------------------------
(* The manager implements SetupProxy *)

\* A launch under way leaves Starting as Lose or ComeUp, and Stopping as EndStop.
LEMMA PhaseFacts ==
  ASSUME LaunchInv
  PROVE  /\ state \in {"idle", "degraded"} => Phase = "off"
         /\ state \in {"starting", "ready"} => Phase = state
         /\ \A l \in Launch : lpc[l] \in InFlightPc => Phase = state /\ l \notin lostBy
         /\ state = "starting" => lpc[launchSeq] # "settled"
BY DEF Phase, LaunchInv, TypeOK, State, InFlightIsCurrent, StartingHasLaunch, Unreported,
       InFlightPc

\* Every step of doLaunch is a step of the contract or a stutter.
LEMMA LaunchRefines ==
  ASSUME LaunchInv, LaunchInv', NEW l \in Launch, LaunchStep(l)
  PROVE  Contract!Next \/ UNCHANGED <<Phase, lostBy>>
<1> USE PhaseFacts DEF Contract!Next, Contract!Move, GotoLaunch, InFlightPc
<1>0. /\ lpc \in [Launch -> LaunchPc]
      /\ lpc[l] \in InFlightPc => /\ l = launchSeq /\ state \in {"starting", "stopping"}
                                  /\ l \notin lostBy
  BY DEF LaunchInv, TypeOK, InFlightIsCurrent, Unreported
<1>1. ASSUME lpc[l] \in InFlightPc, state' \in {"idle", "degraded"},
             lostBy' = lostBy \/ lostBy' = lostBy \union {l},
             state = "starting" => lostBy' = lostBy \union {l}
      PROVE  Contract!Next
  <2>1. Phase = state /\ Phase' = "off"
    BY <1>1 DEF Phase
  <2>2. QED
    BY <1>0, <1>1, <2>1 DEF Contract!Lose, Contract!EndStop, Contract!Report
<1>2. ASSUME lpc[l] \in InFlightPc, UNCHANGED <<state, launchSeq, lostBy>>,
             NEW to \in {"store", "select"}, lpc' = [lpc EXCEPT ![l] = to]
      PROVE  UNCHANGED <<Phase, lostBy>>
  BY <1>0, <1>2 DEF Phase
<1>3. CASE StartFails(l)
  BY <1>0, <1>1, <1>3 DEF StartFails, TransitionTo
<1>4. CASE StartShell(l)
  BY <1>2, <1>4 DEF StartShell
<1>5. CASE StoreProcess(l)
  BY <1>2, <1>5 DEF StoreProcess
<1>6. CASE SelectCancelled(l)
  <2>1. state # "starting"
    BY <1>0, <1>6 DEF SelectCancelled, LaunchInv, CancelIsLate, Withdrawn
  <2>2. QED
    BY <1>0, <1>1, <1>6, <2>1 DEF SelectCancelled, TransitionTo
<1>7. CASE SelectReady(l)
  BY <1>0, <1>7 DEF SelectReady, StillIn, Contract!ComeUp, Phase
<1>8. CASE SelectReadyTooLate(l)
  BY <1>0, <1>8 DEF SelectReadyTooLate, StillIn, Contract!EndStop, Phase
<1>9. CASE SelectExit(l)
  BY <1>0, <1>1, <1>9 DEF SelectExit, TransitionTo, Phase
<1>10. CASE SelectTimeout(l)
  BY <1>0, <1>1, <1>10 DEF SelectTimeout, TransitionTo
<1>11. QED
  BY <1>3, <1>4, <1>5, <1>6, <1>7, <1>8, <1>9, <1>10 DEF LaunchStep

\* Every step of the manager is a step of the contract or a stutter.
LEMMA ContractStep ==
  LaunchInv /\ LaunchInv' /\ [Next]_vars => [Contract!Next]_<<Phase, lostBy>>
<1> SUFFICES ASSUME LaunchInv, LaunchInv', [Next]_vars
             PROVE  Contract!Next \/ UNCHANGED <<Phase, lostBy>>
  OBVIOUS
<1> USE PhaseFacts DEF Contract!Next, Contract!Move
<1>1. CASE Connect
  BY <1>1 DEF Connect, Contract!Begin, Phase
<1>2. ASSUME UNCHANGED <<state, launchSeq, lpc, lostBy>>
      PROVE  UNCHANGED <<Phase, lostBy>>
  BY <1>2 DEF Phase
<1>3. ASSUME NEW l \in Launch, WatchStep(l)
      PROVE  Contract!Next \/ UNCHANGED <<Phase, lostBy>>
  <2>1. ASSUME StillIn(l, "ready"), state' = "degraded", lostBy' = lostBy \union {l}
        PROVE  Contract!Next
    <3>1. Phase = "ready" /\ Phase' = "off" /\ l \notin lostBy
      BY <2>1 DEF StillIn, Phase, LaunchInv, Unreported
    <3>2. QED
      BY <2>1, <3>1 DEF Contract!Lose, Contract!Report
  <2>2. QED
    BY <1>2, <1>3, <2>1 DEF WatchStep, WatchProcessDeath, HealthTick, HealthDial,
                            HealthDemote, HealthKill, launchVars
<1>4. ASSUME NEW p \in Stopper, StopBegin(p)
      PROVE  Contract!Next \/ UNCHANGED <<Phase, lostBy>>
  <2>1. UNCHANGED <<launchSeq, lpc, lostBy>>
    BY <1>4 DEF StopBegin, launchVars
  <2>2. CASE state = "starting"
    BY <1>4, <2>1, <2>2 DEF StopBegin, Contract!Stop, Phase
  <2>3. CASE state = "ready"
    BY <1>4, <2>1, <2>3 DEF StopBegin, Contract!Stop, Phase
  <2>4. CASE state \in {"degraded", "stopping"}
    BY <1>4, <2>1, <2>4 DEF StopBegin, Phase
  <2>5. QED
    BY <1>4, <2>2, <2>3, <2>4 DEF StopBegin
<1>5. ASSUME NEW p \in Stopper, StopStep(p)
      PROVE  UNCHANGED <<Phase, lostBy>>
  BY <1>2, <1>5 DEF StopStep, StopCancel, StopKill, StopWait, launchVars
<1>6. CASE UNCHANGED vars
  BY <1>2, <1>6 DEF vars, launchVars
<1>7. ASSUME NEW l \in Launch, PollPort(l) \/ ContextKill(l) \/ Reap(l) \/ Environment(l)
      PROVE  UNCHANGED <<Phase, lostBy>>
  BY <1>2, <1>7, ProcessFrame
<1>8. QED
  BY <1>1, <1>3, <1>4, <1>5, <1>6, <1>7, LaunchRefines DEF Next

\* The manager (manager.go:137-290, 376-439) is the proxy its callers rely on, whatever its
\* watchers, Stops and launches do together: it goes through the phases in their order and
\* reports the loss of a launch once at most.
THEOREM SetupProxyImplemented == Spec => ImplementsSetupProxy
<1>1. Init => Contract!Init
  BY DEF Init, Contract!Init, Phase
<1>2. QED
  BY <1>1, ContractStep, LaunchInvariant, PTL
  DEF Spec, ImplementsSetupProxy, Contract!Spec

-----------------------------------------------------------------------------
(* The shells of earlier launches *)

\* Somebody is about to kill the group of launch l.
Doomed(l) == health[l] = "kill" \/ \E p \in Stopper : stopPc[p] = "kill" /\ stopOf[p] = l

\* A launch to come or not yet started has no process.
NoProcessYet ==
  \A l \in Launch : l > launchSeq \/ lpc[l] = "start" => proc[l] = "none" /\ exit[l] = "none"

\* A shell that has an exit status, or was waited for, does not run.
ExitedIsDead ==
  \A l \in Launch : /\ exit[l] # "none" => proc[l] \notin Shell
                    /\ l \in reaped => exit[l] # "none"

\* A shell runs without a kill on its way for the current launch only, and not while the
\* manager could begin another.
LooseIsCurrent ==
  \A l \in Launch :
    proc[l] \in Shell /\ (l < launchSeq \/ state \in {"idle", "degraded"}) => Doomed(l)

ProcessInv == NoProcessYet /\ ExitedIsDead /\ LooseIsCurrent

\* A step that starts no process, calls off no kill and goes neither to Idle nor to Degraded.
LEMMA ProcessKept ==
  ASSUME LaunchInv, ProcessInv, launchSeq' = launchSeq,
         state' = state \/ state' \notin {"idle", "degraded"},
         \A l \in Launch : lpc'[l] = "start" => lpc[l] = "start",
         \A l \in Launch : Doomed(l) => Doomed(l)' \/ proc'[l] \notin Shell,
         \A l \in Launch : /\ proc[l] \notin Shell => proc'[l] \notin Shell
                           /\ proc[l] = "none" => proc'[l] = "none" /\ exit'[l] = exit[l]
                           /\ exit'[l] # "none" => exit[l] # "none" \/ proc'[l] \notin Shell
                           /\ exit[l] # "none" => exit'[l] # "none"
                           /\ l \in reaped' => l \in reaped \/ exit[l] # "none"
  PROVE  ProcessInv'
<1>1. NoProcessYet'
  BY DEF ProcessInv, NoProcessYet
<1>2. ExitedIsDead'
  BY DEF ProcessInv, ExitedIsDead
<1>3. LooseIsCurrent'
  BY DEF ProcessInv, LooseIsCurrent
<1>4. QED
  BY <1>1, <1>2, <1>3 DEF ProcessInv

\* The system takes nothing back: what its steps do to one process, killed or not.
Ages(l) ==
  /\ proc[l] \notin Shell => proc'[l] \notin Shell
  /\ proc[l] = "none" => proc'[l] = "none" /\ exit'[l] = exit[l]
  /\ exit'[l] # "none" => exit[l] # "none" \/ proc'[l] \notin Shell
  /\ exit[l] # "none" => exit'[l] # "none"

\* KillGroup ends the shell of its launch and leaves the others alone.
LEMMA KillAges ==
  ASSUME TypeOK, NEW l \in Launch, KillGroup(l)
  PROVE  proc'[l] \notin Shell /\ \A k \in Launch : Ages(k)
BY DEF KillGroup, TypeOK, Ages, Shell

\* Every step of doLaunch keeps ProcessInv.
LEMMA LaunchProcess ==
  ASSUME LaunchInv, LaunchInv', ProcessInv, NEW l \in Launch, LaunchStep(l)
  PROVE  ProcessInv'
<1> USE DEF osVars, stopVars, GotoLaunch
<1>0. /\ TypeOK /\ lpc \in [Launch -> LaunchPc]
      /\ lpc[l] \in InFlightPc => l = launchSeq
  BY DEF LaunchInv, TypeOK, InFlightIsCurrent
<1>1. \A to \in LaunchPc \ {"start"} : lpc' = [lpc EXCEPT ![l] = to]
        => \A k \in Launch : lpc'[k] = "start" => lpc[k] = "start"
  BY <1>0
<1>2. ASSUME UNCHANGED <<proc, exit>>
      PROVE  \A k \in Launch : Ages(k)
  BY <1>2 DEF Ages
<1>3. ASSUME lpc[l] \in InFlightPc, proc'[l] \notin Shell, lpc' = [lpc EXCEPT ![l] = "settled"],
             \A k \in Launch : Ages(k), UNCHANGED <<launchSeq, health, stopVars, reaped>>
      PROVE  ProcessInv'
  <2>1. NoProcessYet'
    BY <1>1, <1>3 DEF ProcessInv, NoProcessYet, Ages, LaunchPc
  <2>2. ExitedIsDead'
    BY <1>3 DEF ProcessInv, ExitedIsDead, Ages
  <2>3. \A k \in Launch : proc'[k] \in Shell => k < launchSeq
    <3>1. \A k \in Launch : k < l \/ k = l \/ k > l
      BY ProxyAssumption DEF Launch
    <3>2. \A k \in Launch : k > launchSeq => proc'[k] \notin Shell
      BY <1>3, <2>1 DEF NoProcessYet, Shell
    <3>3. QED
      BY <1>0, <1>3, <3>1, <3>2
  <2>4. LooseIsCurrent'
    BY <1>3, <2>3 DEF ProcessInv, LooseIsCurrent, Ages, Doomed
  <2>5. QED
    BY <2>1, <2>2, <2>4 DEF ProcessInv
<1>4. CASE StartFails(l)
  <2>1. proc[l] = "none"
    BY <1>4 DEF StartFails, ProcessInv, NoProcessYet
  <2>2. QED
    BY <1>2, <1>3, <1>4, <2>1 DEF StartFails, InFlightPc, Shell
<1>5. CASE StartShell(l)
  <2>1. proc[l] = "none" /\ exit[l] = "none" /\ l \notin reaped
    BY <1>5 DEF StartShell, ProcessInv, NoProcessYet, ExitedIsDead
  <2>2. /\ proc' = [proc EXCEPT ![l] = "shell"] /\ proc \in [Launch -> Group]
        /\ UNCHANGED <<state, launchSeq, exit, reaped, health, stopVars>>
    BY <1>0, <1>5 DEF StartShell, TypeOK
  <2>3. state \in {"starting", "stopping"} /\ l = launchSeq /\ ~(l < launchSeq) /\ ~(l > launchSeq)
    BY <1>5, ProxyAssumption DEF StartShell, LaunchInv, InFlightIsCurrent, InFlightPc, Launch
  <2>4. NoProcessYet'
    BY <1>0, <1>5, <2>2, <2>3 DEF StartShell, ProcessInv, NoProcessYet, LaunchPc
  <2>5. ExitedIsDead'
    BY <2>1, <2>2 DEF ProcessInv, ExitedIsDead
  <2>6. LooseIsCurrent'
    BY <2>2, <2>3 DEF ProcessInv, LooseIsCurrent, Doomed
  <2>7. QED
    BY <2>4, <2>5, <2>6 DEF ProcessInv
<1>6. CASE StoreProcess(l)
  BY <1>1, <1>2, <1>6, ProcessKept DEF StoreProcess, LaunchPc, Ages, Doomed
<1>7. CASE SelectCancelled(l)
  BY <1>0, <1>3, <1>7, KillAges DEF SelectCancelled, InFlightPc
<1>8. CASE SelectReady(l)
  <2>1. UNCHANGED <<launchSeq, proc, exit, reaped, stopVars>>
    BY <1>8 DEF SelectReady
  <2>2. NoProcessYet' /\ ExitedIsDead'
    BY <1>1, <1>8, <2>1 DEF SelectReady, LaunchPc, ProcessInv, NoProcessYet, ExitedIsDead
  <2>3. state' = "ready" /\ \A k \in Launch : k < launchSeq => k # l /\ health'[k] = health[k]
    <3>1. ~(launchSeq < launchSeq)
      BY ProxyAssumption DEF LaunchInv, TypeOK, Launch
    <3>2. l = launchSeq /\ health \in [Launch -> {"none", "tick", "dial", "demote", "kill"}]
      BY <1>0, <1>8 DEF SelectReady, InFlightPc, TypeOK
    <3>3. QED
      BY <1>8, <3>1, <3>2 DEF SelectReady
  <2>4. LooseIsCurrent'
    BY <2>1, <2>3 DEF ProcessInv, LooseIsCurrent, Doomed
  <2>5. QED
    BY <2>2, <2>4 DEF ProcessInv
<1>9. CASE SelectReadyTooLate(l)
  BY <1>1, <1>2, <1>9, ProcessKept DEF SelectReadyTooLate, LaunchPc, Ages, Doomed
<1>10. CASE SelectExit(l)
  <2>1. CASE exit[l] = "err"
    BY <1>2, <1>3, <1>10, <2>1 DEF SelectExit, InFlightPc, ProcessInv, ExitedIsDead
  <2>2. CASE exit[l] # "err"
    BY <1>2, <1>10, <2>2, ProcessKept DEF SelectExit, Ages, Doomed
  <2>3. QED
    BY <2>1, <2>2
<1>11. CASE SelectTimeout(l)
  BY <1>0, <1>3, <1>11, KillAges DEF SelectTimeout, InFlightPc
<1>12. QED
  BY <1>4, <1>5, <1>6, <1>7, <1>8, <1>9, <1>10, <1>11 DEF LaunchStep

\* Every step of a watcher keeps ProcessInv.
LEMMA WatchProcess ==
  ASSUME LaunchInv, ProcessInv, NEW l \in Launch, WatchStep(l)
  PROVE  ProcessInv'
<1> USE DEF launchVars, osVars, stopVars, GotoHealth
<1>0. TypeOK /\ health \in [Launch -> {"none", "tick", "dial", "demote", "kill"}]
  BY DEF LaunchInv, TypeOK
<1>1. ASSUME UNCHANGED <<launchSeq, lpc, osVars, stopVars>>, state' = "degraded",
             StillIn(l, "ready"), \A k \in Launch : health[k] = "kill" => health'[k] = "kill",
             proc[l] \in Shell => health'[l] = "kill"
      PROVE  ProcessInv'
  <2>1. NoProcessYet' /\ ExitedIsDead'
    BY <1>1 DEF ProcessInv, NoProcessYet, ExitedIsDead
  <2>2. \A k \in Launch : proc[k] \in Shell => k < launchSeq \/ k = l
    BY <1>1, ProxyAssumption DEF ProcessInv, NoProcessYet, StillIn, Shell, Launch
  <2>3. LooseIsCurrent'
    BY <1>1, <2>2 DEF ProcessInv, LooseIsCurrent, Doomed
  <2>4. QED
    BY <2>1, <2>3 DEF ProcessInv
<1>2. ASSUME UNCHANGED <<state, launchSeq, lpc, osVars, stopVars>>,
             \A k \in Launch : health[k] = "kill" => health'[k] = "kill"
      PROVE  ProcessInv'
  BY <1>2, ProcessKept DEF Doomed
<1>3. CASE WatchProcessDeath(l)
  <2>1. proc[l] \notin Shell
    BY <1>3 DEF WatchProcessDeath, ProcessInv, ExitedIsDead
  <2>2. QED
    BY <1>1, <1>2, <1>3, <2>1 DEF WatchProcessDeath
<1>4. CASE HealthTick(l) \/ HealthDial(l)
  BY <1>0, <1>2, <1>4 DEF HealthTick, HealthDial
<1>5. CASE HealthDemote(l)
  BY <1>0, <1>1, <1>2, <1>5 DEF HealthDemote
<1>6. CASE HealthKill(l)
  <2>1. proc'[l] \notin Shell /\ \A k \in Launch : Ages(k)
    BY <1>0, <1>6, KillAges DEF HealthKill
  <2>2. \A k \in Launch : Doomed(k) => Doomed(k)' \/ proc'[k] \notin Shell
    BY <1>0, <1>6, <2>1 DEF HealthKill, Doomed
  <2>3. QED
    BY <1>6, <2>1, <2>2, ProcessKept DEF HealthKill, Ages
<1>7. QED
  BY <1>3, <1>4, <1>5, <1>6 DEF WatchStep

\* Every step of Stop keeps ProcessInv.
LEMMA StopProcess ==
  ASSUME LaunchInv, ProcessInv, NEW p \in Stopper, StopBegin(p) \/ StopStep(p)
  PROVE  ProcessInv'
<1> USE DEF launchVars, osVars
<1>0. /\ TypeOK
      /\ stopPc \in [Stopper -> {"idle", "cancel", "kill", "wait", "done"}]
      /\ stopOf \in [Stopper -> {0} \union Launch]
  BY DEF LaunchInv, TypeOK
<1>1. CASE StopBegin(p)
  <2>1. UNCHANGED <<launchSeq, lpc, health, proc, exit, reaped>>
    BY <1>1 DEF StopBegin
  <2>2. \A k \in Launch : Doomed(k) => Doomed(k)'
    BY <1>0, <1>1 DEF StopBegin, Doomed
  <2>3. CASE state = "ready"
    <3>1. cmd = launchSeq
      BY <2>3 DEF LaunchInv, ReadyIsStored
    <3>2. stopPc'[p] = "kill" /\ stopOf'[p] = launchSeq
      BY <1>0, <1>1, <2>3, <3>1 DEF StopBegin
    <3>3. \A k \in Launch : proc[k] \in Shell => k < launchSeq \/ k = launchSeq
      BY <1>0, ProxyAssumption DEF ProcessInv, NoProcessYet, Shell, Launch, TypeOK
    <3>4. LooseIsCurrent'
      BY <2>1, <2>2, <3>2, <3>3 DEF ProcessInv, LooseIsCurrent, Doomed
    <3>5. QED
      BY <2>1, <3>4 DEF ProcessInv, NoProcessYet, ExitedIsDead
  <2>4. CASE state # "ready"
    <3>1. state' \in {"idle", "degraded"} => state \in {"idle", "degraded"}
      BY <1>1, <2>4 DEF StopBegin
    <3>2. LooseIsCurrent'
      BY <2>1, <2>2, <3>1 DEF ProcessInv, LooseIsCurrent
    <3>3. QED
      BY <2>1, <3>2 DEF ProcessInv, NoProcessYet, ExitedIsDead
  <2>5. QED
    BY <2>3, <2>4
<1>2. CASE StopCancel(p) \/ StopWait(p)
  BY <1>0, <1>2, ProcessKept DEF StopCancel, StopWait, Doomed
<1>3. CASE StopKill(p)
  <2>1. /\ \A k \in Launch : Ages(k)
        /\ stopOf[p] \in Launch => proc'[stopOf[p]] \notin Shell
    <3>1. CASE stopOf[p] = 0
      BY <1>3, <3>1, ProxyAssumption DEF StopKill, Ages, Launch
    <3>2. CASE stopOf[p] # 0
      BY <1>0, <1>3, <3>2, KillAges DEF StopKill
    <3>3. QED
      BY <3>1, <3>2
  <2>2. \A k \in Launch : Doomed(k) => Doomed(k)' \/ proc'[k] \notin Shell
    BY <1>0, <1>3, <2>1 DEF StopKill, Doomed
  <2>3. QED
    BY <1>3, <2>1, <2>2, ProcessKept DEF StopKill, Ages
<1>4. QED
  BY <1>1, <1>2, <1>3 DEF StopStep

\* Connect begins another launch only when every shell about is doomed.
LEMMA ConnectProcess ==
  ASSUME LaunchInv, ProcessInv, Connect
  PROVE  ProcessInv'
<1> USE DEF osVars, stopVars
<1>1. launchSeq \in Nat /\ lpc \in [Launch -> LaunchPc]
  BY ProxyAssumption DEF LaunchInv, TypeOK, Launch
<1>2. \A k \in Launch : k > launchSeq' \/ lpc'[k] = "start" => k > launchSeq \/ lpc[k] = "start"
  BY <1>1, ProxyAssumption DEF Connect, Launch
<1>3. NoProcessYet' /\ ExitedIsDead'
  BY <1>2 DEF Connect, ProcessInv, NoProcessYet, ExitedIsDead
<1>4. LooseIsCurrent'
  BY DEF Connect, ProcessInv, LooseIsCurrent, Doomed
<1>5. QED
  BY <1>3, <1>4 DEF ProcessInv

\* What processes do by themselves keeps ProcessInv.
LEMMA EnvironmentProcess ==
  ASSUME LaunchInv, ProcessInv,
         NEW l \in Launch, PollPort(l) \/ ContextKill(l) \/ Reap(l) \/ Environment(l)
  PROVE  ProcessInv'
<1> USE DEF launchVars, osVars, stopVars
<1>0. proc \in [Launch -> Group] /\ exit \in [Launch -> {"none", "ok", "err"}]
  BY DEF LaunchInv, TypeOK
<1>1. /\ \A k \in Launch : Ages(k)
      /\ \A k \in Launch : k \in reaped' => k \in reaped \/ exit[k] # "none"
  <2>1. CASE PollPort(l) \/ PrintMarker(l)
    BY <2>1 DEF PollPort, PrintMarker, Ages
  <2>2. CASE Reap(l)
    BY <2>2 DEF Reap, Ages
  <2>3. CASE ContextKill(l)
    BY <1>0, <2>3 DEF ContextKill, Ages, Shell
  <2>4. CASE ShellExits(l)
    BY <1>0, <2>4 DEF ShellExits, Ages, Shell
  <2>5. CASE TunnelOpens(l)
    BY <1>0, <2>5 DEF TunnelOpens, Ages, Shell
  <2>6. CASE TunnelBreaks(l)
    BY <1>0, <2>6 DEF TunnelBreaks, Ages, Shell, Listening
  <2>7. QED
    BY <2>1, <2>2, <2>3, <2>4, <2>5, <2>6 DEF Environment
<1>2. \A k \in Launch : Doomed(k) => Doomed(k)'
  BY ProcessFrame DEF Doomed
<1>3. QED
  BY <1>1, <1>2, ProcessFrame, ProcessKept DEF Ages

\* Every step of the manager keeps ProcessInv.
LEMMA NextProcess == LaunchInv /\ LaunchInv' /\ ProcessInv /\ [Next]_vars => ProcessInv'
<1> SUFFICES ASSUME LaunchInv, LaunchInv', ProcessInv, [Next]_vars
             PROVE  ProcessInv'
  OBVIOUS
<1>1. CASE UNCHANGED vars
  BY <1>1 DEF vars, launchVars, osVars, stopVars, ProcessInv, NoProcessYet, ExitedIsDead,
              LooseIsCurrent, Doomed
<1>2. QED
  BY <1>1, LaunchProcess, WatchProcess, StopProcess, ConnectProcess, EnvironmentProcess
  DEF Next

\* The processes of a manager are as ProcessInv says in every state.
THEOREM ProcessInvariant == Spec => []ProcessInv
<1>1. Init => ProcessInv
  BY DEF Init, ProcessInv, NoProcessYet, ExitedIsDead, LooseIsCurrent, Shell
<1>2. QED
  BY <1>1, NextProcess, LaunchInvariant, PTL DEF Spec

\* The kills of manager.go:238, 278, 357 and 397 are enough for shells: one of an earlier
\* launch runs beside a later one only while the call that kills it is about to.
THEOREM OldShells == Spec => []OldShellIsDoomed
<1>1. ProcessInv => OldShellIsDoomed
  BY DEF ProcessInv, LooseIsCurrent, OldShellIsDoomed, Doomed
<1>2. QED
  BY <1>1, ProcessInvariant, PTL

=============================================================================
