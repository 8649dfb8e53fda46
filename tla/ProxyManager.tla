---------------------------- MODULE ProxyManager ----------------------------
(***************************************************************************)
(* One proxy.Manager (internal/proxy/manager.go): the setup command of a   *)
(* kubeconfig context, its launches, and the goroutines that watch it.     *)
(*                                                                         *)
(* Every launch has a goroutine (doLaunch), a shell with its process       *)
(* group, and after Ready up to two watchers.  Stop is called by the       *)
(* goroutines of Connect, SaveClusterProxy's manager replacement and the   *)
(* shutdown, so that several calls of it may overlap.  Manager.mu is held  *)
(* in short sections: each is one step here.                               *)
(***************************************************************************)
EXTENDS Naturals

CONSTANTS
  MaxLaunches,  \* bound: launches of the setup command
  Stopper,      \* the callers of Stop, each calls it once
  HasAddr       \* proxyAddr # "": the proxy port is polled and checked

Launch == 1..MaxLaunches

ASSUME ProxyAssumption == MaxLaunches \in Nat /\ HasAddr \in BOOLEAN

VARIABLES
  \* Manager fields guarded by mu
  state, launchSeq,
  cmd,          \* the launch whose cmd and procDone are stored, 0: none
  \* doLaunch
  lpc,          \* "none", "start", "store", "select", "settled"
  cancelled,    \* launches whose context was cancelled
  cleanSeen,    \* launches whose select has dropped the procDone case
  marker,       \* launches whose ready marker was read
  portSeen,     \* launches whose poll found the proxy port reachable
  lostBy,       \* launches that emitted Degraded or Crashed
  \* the watchers
  deathWatch,   \* launches with a watchProcessDeath that can still fire
  health,       \* watchProxyHealth: "none", "tick", "dial", "demote", "kill"
  \* the operating system
  proc,         \* a launch's process group, see Group
  exit,         \* its shell's exit status: "none", "ok", "err"
  reaped,       \* launches whose cmd.Wait returned: procDone is closed
  \* Stop
  stopPc, stopOf, stopProc

launchVars == <<lpc, cancelled, cleanSeen, marker, portSeen>>
osVars == <<proc, exit, reaped>>
stopVars == <<stopPc, stopOf, stopProc>>
vars == <<state, launchSeq, cmd, launchVars, lostBy, deathWatch, health, osVars, stopVars>>

State == {"idle", "starting", "ready", "degraded", "stopping"}
LaunchPc == {"none", "start", "store", "select", "settled"}
InFlightPc == {"start", "store", "select"}

\* A group without a shell is a background tunnel that outlived it ("daemon").
Group == {"none", "shell", "tunnel", "daemon", "gone"}
Shell == {"shell", "tunnel"}       \* groups with a running shell
Listening == {"tunnel", "daemon"}  \* groups that listen on the proxy port
Reachable == \E l \in Launch : proc[l] \in Listening

GotoLaunch(l, from, to) == lpc[l] = from /\ lpc' = [lpc EXCEPT ![l] = to]

-----------------------------------------------------------------------------
Init ==
  /\ state = "idle" /\ launchSeq = 0 /\ cmd = 0
  /\ lpc = [l \in Launch |-> "none"]
  /\ cancelled = {} /\ cleanSeen = {} /\ marker = {} /\ portSeen = {} /\ lostBy = {}
  /\ deathWatch = {}
  /\ health = [l \in Launch |-> "none"]
  /\ proc = [l \in Launch |-> "none"]
  /\ exit = [l \in Launch |-> "none"]
  /\ reaped = {}
  /\ stopPc = [p \in Stopper |-> "idle"]
  /\ stopOf = [p \in Stopper |-> 0]
  /\ stopProc = [p \in Stopper |-> 0]

-----------------------------------------------------------------------------
(* Connect and doLaunch *)

\* Connect: from Idle or Degraded only, otherwise it returns at once.
Connect ==
  /\ state \in {"idle", "degraded"}
  /\ launchSeq < MaxLaunches
  /\ state' = "starting"
  /\ launchSeq' = launchSeq + 1
  /\ lpc' = [lpc EXCEPT ![launchSeq + 1] = "start"]
  /\ UNCHANGED <<cmd, cancelled, cleanSeen, marker, portSeen, lostBy, deathWatch, health,
                 osVars, stopVars>>

\* transitionTo and transitionIfStillStarting / IfStillInState.
TransitionTo(l, new) == state' = IF launchSeq = l THEN new ELSE state
StillIn(l, from) == launchSeq = l /\ state = from

\* SIGKILL to the process group.
KillGroup(l) ==
  /\ proc' = [proc EXCEPT ![l] = IF @ = "none" THEN @ ELSE "gone"]
  /\ exit' = [exit EXCEPT ![l] = IF proc[l] \in Shell THEN "err" ELSE @]

\* cmd.Start fails, which it always does once the context is cancelled.
StartFails(l) ==
  /\ GotoLaunch(l, "start", "settled")
  /\ TransitionTo(l, "degraded")
  /\ lostBy' = lostBy \union {l}
  /\ UNCHANGED <<launchSeq, cmd, cancelled, cleanSeen, marker, portSeen, deathWatch,
                 health, osVars, stopVars>>

StartShell(l) ==
  /\ l \notin cancelled
  /\ GotoLaunch(l, "start", "store")
  /\ proc' = [proc EXCEPT ![l] = "shell"]
  /\ UNCHANGED <<state, launchSeq, cmd, cancelled, cleanSeen, marker, portSeen, lostBy,
                 deathWatch, health, exit, reaped, stopVars>>

StoreProcess(l) ==
  /\ GotoLaunch(l, "store", "select")
  /\ cmd' = l
  /\ UNCHANGED <<state, launchSeq, cancelled, cleanSeen, marker, portSeen, lostBy,
                 deathWatch, health, osVars, stopVars>>

\* case <-ctx.Done()
SelectCancelled(l) ==
  /\ GotoLaunch(l, "select", "settled")
  /\ l \in cancelled
  /\ KillGroup(l)
  /\ TransitionTo(l, "idle")
  /\ UNCHANGED <<launchSeq, cmd, cancelled, cleanSeen, marker, portSeen, lostBy,
                 deathWatch, health, reaped, stopVars>>

\* case <-readyMarkerChan and case <-portReadyChan.  After a clean exit procDone is nil
\* and watchProcessDeath waits for ever.
SelectReady(l) ==
  /\ GotoLaunch(l, "select", "settled")
  /\ l \in marker \union portSeen
  /\ StillIn(l, "starting")
  /\ state' = "ready"
  /\ deathWatch' = IF l \in cleanSeen THEN deathWatch ELSE deathWatch \union {l}
  /\ health' = IF HasAddr THEN [health EXCEPT ![l] = "tick"] ELSE health
  /\ UNCHANGED <<launchSeq, cmd, cancelled, cleanSeen, marker, portSeen, lostBy, osVars,
                 stopVars>>

\* The same cases once the state is Stopping: doLaunch returns and leaves it there.
SelectReadyTooLate(l) ==
  /\ GotoLaunch(l, "select", "settled")
  /\ l \in marker \union portSeen
  /\ ~StillIn(l, "starting")
  /\ UNCHANGED <<state, launchSeq, cmd, cancelled, cleanSeen, marker, portSeen, lostBy,
                 deathWatch, health, osVars, stopVars>>

\* Mutant: the exit status is read before procDone is closed.
SelectExit_NotReaped(l) ==
  /\ lpc[l] = "select"
  /\ l \notin cleanSeen
  /\ IF exit[l] = "err"
     THEN /\ GotoLaunch(l, "select", "settled")
          /\ TransitionTo(l, "degraded")
          /\ lostBy' = lostBy \union {l}
          /\ UNCHANGED cleanSeen
     ELSE /\ cleanSeen' = cleanSeen \union {l}
          /\ UNCHANGED <<lpc, state, lostBy>>
  /\ UNCHANGED <<launchSeq, cmd, cancelled, marker, portSeen, deathWatch, health, osVars,
                 stopVars>>

\* case <-procDone: an error is fatal, a clean exit disables the case.
SelectExit(l) ==
  /\ lpc[l] = "select"
  /\ l \in reaped \ cleanSeen
  /\ IF exit[l] = "err"
     THEN /\ GotoLaunch(l, "select", "settled")
          /\ TransitionTo(l, "degraded")
          /\ lostBy' = lostBy \union {l}
          /\ UNCHANGED cleanSeen
     ELSE /\ cleanSeen' = cleanSeen \union {l}
          /\ UNCHANGED <<lpc, state, lostBy>>
  /\ UNCHANGED <<launchSeq, cmd, cancelled, marker, portSeen, deathWatch, health, osVars,
                 stopVars>>

\* Mutants: the timeout kills nothing; it is given up with the procDone case.
SelectTimeout_NoKill(l) ==
  /\ GotoLaunch(l, "select", "settled")
  /\ TransitionTo(l, "degraded")
  /\ lostBy' = lostBy \union {l}
  /\ UNCHANGED <<launchSeq, cmd, cancelled, cleanSeen, marker, portSeen, deathWatch,
                 health, osVars, stopVars>>

SelectTimeout_Disabled(l) ==
  /\ l \notin cleanSeen
  /\ GotoLaunch(l, "select", "settled")
  /\ KillGroup(l)
  /\ TransitionTo(l, "degraded")
  /\ lostBy' = lostBy \union {l}
  /\ UNCHANGED <<launchSeq, cmd, cancelled, cleanSeen, marker, portSeen, deathWatch,
                 health, reaped, stopVars>>

\* case <-timeoutChan
SelectTimeout(l) ==
  /\ GotoLaunch(l, "select", "settled")
  /\ KillGroup(l)
  /\ TransitionTo(l, "degraded")
  /\ lostBy' = lostBy \union {l}
  /\ UNCHANGED <<launchSeq, cmd, cancelled, cleanSeen, marker, portSeen, deathWatch,
                 health, reaped, stopVars>>

LaunchStep(l) ==
  \/ StartFails(l) \/ StartShell(l) \/ StoreProcess(l) \/ SelectCancelled(l)
  \/ SelectReady(l) \/ SelectReadyTooLate(l) \/ SelectExit(l) \/ SelectTimeout(l)

\* One signal of readiness is as good as two.
Waiting(l) == lpc[l] = "select" /\ l \notin marker \union portSeen

\* pollTCPReady dials the port, whoever listens on it.
PollPort(l) ==
  /\ HasAddr /\ Waiting(l)
  /\ Reachable
  /\ portSeen' = portSeen \union {l}
  /\ UNCHANGED <<state, launchSeq, cmd, lpc, cancelled, cleanSeen, marker, lostBy,
                 deathWatch, health, osVars, stopVars>>

-----------------------------------------------------------------------------
(* The watchers of a launch that became Ready *)

\* Mutant: the launch is not compared.
WatchProcessDeath_AnyLaunch(l) ==
  /\ l \in deathWatch \intersect reaped
  /\ deathWatch' = deathWatch \ {l}
  /\ IF state = "ready"
     THEN state' = "degraded" /\ lostBy' = lostBy \union {l}
     ELSE UNCHANGED <<state, lostBy>>
  /\ UNCHANGED <<launchSeq, cmd, launchVars, health, osVars, stopVars>>

WatchProcessDeath(l) ==
  /\ l \in deathWatch \intersect reaped
  /\ deathWatch' = deathWatch \ {l}
  /\ IF StillIn(l, "ready")
     THEN state' = "degraded" /\ lostBy' = lostBy \union {l}
     ELSE UNCHANGED <<state, lostBy>>
  /\ UNCHANGED <<launchSeq, cmd, launchVars, health, osVars, stopVars>>

GotoHealth(l, from, to) == health[l] = from /\ health' = [health EXCEPT ![l] = to]

\* watchProxyHealth: a tick looks at the state, dials without the lock, demotes, kills.
HealthTick(l) ==
  /\ GotoHealth(l, "tick", IF StillIn(l, "ready") THEN "dial" ELSE "none")
  /\ UNCHANGED <<state, launchSeq, cmd, launchVars, lostBy, deathWatch, osVars, stopVars>>

HealthDial(l) ==
  /\ GotoHealth(l, "dial", IF Reachable THEN "tick" ELSE "demote")
  /\ UNCHANGED <<state, launchSeq, cmd, launchVars, lostBy, deathWatch, osVars, stopVars>>

\* Mutant: the state is not looked at again after the dial.
HealthDemote_Unchecked(l) ==
  /\ GotoHealth(l, "demote", "kill")
  /\ state' = "degraded" /\ lostBy' = lostBy \union {l}
  /\ UNCHANGED <<launchSeq, cmd, launchVars, deathWatch, osVars, stopVars>>

HealthDemote(l) ==
  /\ GotoHealth(l, "demote", IF StillIn(l, "ready") THEN "kill" ELSE "none")
  /\ IF StillIn(l, "ready")
     THEN state' = "degraded" /\ lostBy' = lostBy \union {l}
     ELSE UNCHANGED <<state, lostBy>>
  /\ UNCHANGED <<launchSeq, cmd, launchVars, deathWatch, osVars, stopVars>>

HealthKill(l) ==
  /\ GotoHealth(l, "kill", "none")
  /\ KillGroup(l)
  /\ UNCHANGED <<state, launchSeq, cmd, launchVars, lostBy, deathWatch, reaped, stopVars>>

WatchStep(l) ==
  WatchProcessDeath(l) \/ HealthTick(l) \/ HealthDial(l) \/ HealthDemote(l) \/ HealthKill(l)

-----------------------------------------------------------------------------
(* Stop *)

\* Mutant: Stop leaves Starting for Idle at once.
StopBegin_ToIdle(p) ==
  /\ stopPc[p] = "idle"
  /\ state # "idle"
  /\ state' = IF state = "stopping" THEN state ELSE "idle"
  /\ stopPc' = [stopPc EXCEPT ![p] = CASE state = "starting" -> "cancel"
                                       [] state \in {"ready", "degraded"} -> "kill"
                                       [] OTHER -> "done"]
  /\ stopOf' = [stopOf EXCEPT ![p] = IF state = "starting" THEN launchSeq ELSE cmd]
  /\ stopProc' = [stopProc EXCEPT ![p] = cmd]
  /\ UNCHANGED <<launchSeq, cmd, launchVars, lostBy, deathWatch, health, osVars>>

\* The locked section.  Stop of an idle manager returns and changes nothing.
StopBegin(p) ==
  /\ stopPc[p] = "idle"
  /\ \/ /\ state = "starting"
        /\ state' = "stopping"
        /\ stopPc' = [stopPc EXCEPT ![p] = "cancel"]
        /\ stopOf' = [stopOf EXCEPT ![p] = launchSeq]
        /\ stopProc' = [stopProc EXCEPT ![p] = cmd]
     \/ /\ state \in {"ready", "degraded"}
        /\ state' = "idle"
        /\ stopPc' = [stopPc EXCEPT ![p] = "kill"]
        /\ stopOf' = [stopOf EXCEPT ![p] = cmd]
        /\ stopProc' = [stopProc EXCEPT ![p] = cmd]
     \/ /\ state = "stopping"
        /\ stopPc' = [stopPc EXCEPT ![p] = "done"]
        /\ UNCHANGED <<state, stopOf, stopProc>>
  /\ UNCHANGED <<launchSeq, cmd, launchVars, lostBy, deathWatch, health, osVars>>

StopCancel(p) ==
  /\ stopPc[p] = "cancel"
  /\ cancelled' = cancelled \union {stopOf[p]}
  /\ stopPc' = [stopPc EXCEPT ![p] = "wait"]
  /\ UNCHANGED <<state, launchSeq, cmd, lpc, cleanSeen, marker, portSeen, lostBy,
                 deathWatch, health, osVars, stopOf, stopProc>>

\* Mutant: only the wait.
StopKill_Missing(p) ==
  /\ stopPc[p] = "kill"
  /\ stopPc' = [stopPc EXCEPT ![p] = "wait"]
  /\ UNCHANGED <<state, launchSeq, cmd, launchVars, lostBy, deathWatch, health, osVars,
                 stopOf, stopProc>>

\* killProcessGroup(cmd), where cmd is nil when the first start failed.
StopKill(p) ==
  /\ stopPc[p] = "kill"
  /\ stopPc' = [stopPc EXCEPT ![p] = "wait"]
  /\ IF stopOf[p] = 0 THEN UNCHANGED <<proc, exit>> ELSE KillGroup(stopOf[p])
  /\ UNCHANGED <<state, launchSeq, cmd, launchVars, lostBy, deathWatch, health, reaped,
                 stopOf, stopProc>>

\* <-procDone, unless it is nil.
StopWait(p) ==
  /\ stopPc[p] = "wait"
  /\ stopProc[p] \in {0} \union reaped
  /\ stopPc' = [stopPc EXCEPT ![p] = "done"]
  /\ UNCHANGED <<state, launchSeq, cmd, launchVars, lostBy, deathWatch, health, osVars,
                 stopOf, stopProc>>

StopStep(p) == StopCancel(p) \/ StopKill(p) \/ StopWait(p)

-----------------------------------------------------------------------------
(* The processes of a launch *)

\* exec.CommandContext kills the shell, and the shell only, of a cancelled context.
ContextKill(l) ==
  /\ l \in cancelled /\ proc[l] \in Shell
  /\ \E g \in {"gone"} \union (IF proc[l] = "tunnel" THEN {"daemon"} ELSE {}) :
       proc' = [proc EXCEPT ![l] = g]
  /\ exit' = [exit EXCEPT ![l] = "err"]
  /\ UNCHANGED <<state, launchSeq, cmd, launchVars, lostBy, deathWatch, health, reaped,
                 stopVars>>

\* The shell exits, with its tunnel or leaving it in the background.
ShellExits(l) ==
  /\ proc[l] \in Shell
  /\ \E g \in {"gone"} \union (IF proc[l] = "tunnel" THEN {"daemon"} ELSE {}) :
       proc' = [proc EXCEPT ![l] = g]
  /\ \E e \in {"ok", "err"} : exit' = [exit EXCEPT ![l] = e]
  /\ UNCHANGED <<state, launchSeq, cmd, launchVars, lostBy, deathWatch, health, reaped,
                 stopVars>>

\* cmd.Wait returns and procDone is closed.
Reap(l) ==
  /\ exit[l] # "none" /\ l \notin reaped
  /\ lpc[l] \notin {"start", "store"}
  /\ reaped' = reaped \union {l}
  /\ UNCHANGED <<state, launchSeq, cmd, launchVars, lostBy, deathWatch, health, proc, exit,
                 stopVars>>

TunnelOpens(l) ==
  /\ proc[l] = "shell"
  /\ proc' = [proc EXCEPT ![l] = "tunnel"]
  /\ UNCHANGED <<state, launchSeq, cmd, launchVars, lostBy, deathWatch, health, exit,
                 reaped, stopVars>>

\* The tunnel breaks under a shell that runs on, or after it.
TunnelBreaks(l) ==
  /\ proc[l] \in Listening
  /\ proc' = [proc EXCEPT ![l] = IF @ = "tunnel" THEN "shell" ELSE "gone"]
  /\ UNCHANGED <<state, launchSeq, cmd, launchVars, lostBy, deathWatch, health, exit,
                 reaped, stopVars>>

\* scanExactLine reads GALACIUS_SETUP_READY.
PrintMarker(l) ==
  /\ Waiting(l) /\ proc[l] \in Shell
  /\ marker' = marker \union {l}
  /\ UNCHANGED <<state, launchSeq, cmd, lpc, cancelled, cleanSeen, portSeen, lostBy,
                 deathWatch, health, osVars, stopVars>>

Environment(l) == ShellExits(l) \/ TunnelOpens(l) \/ TunnelBreaks(l) \/ PrintMarker(l)

-----------------------------------------------------------------------------
Next ==
  \/ Connect
  \/ \E l \in Launch : LaunchStep(l) \/ PollPort(l) \/ WatchStep(l)
                       \/ ContextKill(l) \/ Reap(l) \/ Environment(l)
  \/ \E p \in Stopper : StopBegin(p) \/ StopStep(p)

Spec == Init /\ [][Next]_vars

\* Goroutines run on, the setup timeout fires, and a killed process is reaped.  A user
\* need not connect, a setup command need not exit, print or listen.
Fairness ==
  /\ \A l \in Launch : WF_vars(LaunchStep(l)) /\ WF_vars(WatchStep(l))
                       /\ WF_vars(ContextKill(l)) /\ WF_vars(Reap(l))
  /\ \A p \in Stopper : WF_vars(StopStep(p))

FairSpec == Spec /\ Fairness

-----------------------------------------------------------------------------
(* Properties *)

\* Type invariant of the manager.
TypeOK ==
  /\ state \in State /\ launchSeq \in {0} \union Launch /\ cmd \in {0} \union Launch
  /\ lpc \in [Launch -> LaunchPc]
  /\ cancelled \subseteq Launch /\ cleanSeen \subseteq reaped
  /\ marker \subseteq Launch /\ portSeen \subseteq Launch
  /\ lostBy \subseteq Launch /\ deathWatch \subseteq Launch
  /\ health \in [Launch -> {"none", "tick", "dial", "demote", "kill"}]
  /\ proc \in [Launch -> Group] /\ exit \in [Launch -> {"none", "ok", "err"}]
  /\ reaped \subseteq Launch
  /\ stopPc \in [Stopper -> {"idle", "cancel", "kill", "wait", "done"}]
  /\ stopOf \in [Stopper -> {0} \union Launch]
  /\ stopProc \in [Stopper -> {0} \union Launch]

\* Connect, manager.go:138-149: a doLaunch that has not settled is the current launch, and
\* the state is Starting or Stopping, so that no two launches are ever under way together.
InFlightIsCurrent ==
  \A l \in Launch : lpc[l] \in InFlightPc => l = launchSeq /\ state \in {"starting", "stopping"}

\* watchProcessDeath and watchProxyHealth, manager.go:316-363: a Ready proxy is given up
\* only when its own shell is dead or its own health check has failed, whatever watchers of
\* earlier launches are still about.
DemotedByOwnWatcher ==
  [][state = "ready" /\ state' = "degraded"
       => launchSeq \in reaped \/ health[launchSeq] = "demote"]_vars

\* A shell of an earlier launch runs beside a later one only while the call that kills it
\* is about to: manager.go:238, 278, 357 and 397 leave no other way to a second launch.
OldShellIsDoomed ==
  \A l \in Launch : l < launchSeq /\ proc[l] \in Shell
    => health[l] = "kill" \/ \E p \in Stopper : stopPc[p] = "kill" /\ stopOf[p] = l

\* The channel of Wait closes (manager.go:124-135, 226-285): every launch settles.
LaunchSettles == \A l \in Launch : lpc[l] = "start" ~> lpc[l] = "settled"

\* Every Stop returns (manager.go:376-406): what it waits for is killed by somebody.
StopReturns == \A p \in Stopper : stopPc[p] # "idle" ~> stopPc[p] = "done"

\* The phases the session sees, and a report for each launch at most: see SetupProxy.
Phase ==
  IF state \in {"idle", "degraded"} THEN "off"
  ELSE IF state = "stopping" /\ lpc[launchSeq] = "settled" THEN "stuck"
  ELSE state

Contract == INSTANCE SetupProxy WITH phase <- Phase

\* The manager implements the proxy its callers rely on (manager.go:137-290, 376-439).
ImplementsSetupProxy == Contract!Spec

=============================================================================
