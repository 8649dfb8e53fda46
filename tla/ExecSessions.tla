---------------------------- MODULE ExecSessions ----------------------------
(***************************************************************************)
(* The shells of one container: ExecInPod, StopExec and ResizeExecTerminal *)
(* (internal/app/exec.go) and the tray that shows them (usePodExec.ts).    *)
(*                                                                         *)
(* Calls, cleanups and events go by the container's key, as in LogStreams, *)
(* but two maps are kept under it and no sequence number: a cleanup frees  *)
(* the cancel function it finds, and the resize channel only if it is its  *)
(* own.  A session has the number of the effect that asked for it.         *)
(***************************************************************************)
EXTENDS Naturals, Sequences

CONSTANTS
  MaxSessions,  \* bound: runs of the tray's effect
  MaxEvents     \* bound: events that wait when output is emitted

ASSUME ExecAssumption == MaxSessions \in Nat /\ MaxEvents \in Nat

Session == 1..MaxSessions
NoSession == 0

VARIABLES
  \* App.streamMu
  execCancels,      \* the session whose cancel function is under the key, or NoSession
  execResizeChans,  \* the session whose channel is under the key, or NoSession
  newest,           \* history: the session that took the key last
  \* ExecInPod
  pc, cancelled,
  listening,        \* sessions that listen to the keystrokes of the key
  closedChans,      \* sessions whose resize channel is closed
  \* StopExec and ResizeExecTerminal
  stopping,         \* effects whose cleanup called StopExec
  resizing,         \* channels that calls hold, between their unlock and their send
  panicked,         \* a size was sent on a closed channel
  isActive,         \* the context of the sessions is the active one
  \* the tray
  effects, mounted, component, status,
  \* on their way to the page
  events, rejected

mapVars == <<execCancels, execResizeChans, newest>>
sessionVars == <<pc, cancelled, listening, closedChans>>
callVars == <<stopping, resizing, panicked, isActive>>
trayVars == <<effects, mounted, component, status>>
vars == <<mapVars, sessionVars, callVars, trayVars, events, rejected>>

Running == {"opening", "starting", "running"}
SessionPc == {"idle", "called", "closing", "cleanup", "closeChan", "ended", "failed"} \union Running
Status == {"connecting", "active", "closed", "error"}

Goto(s, from, to) == pc[s] = from /\ pc' = [pc EXCEPT ![s] = to]

-----------------------------------------------------------------------------
Init ==
  /\ execCancels = NoSession /\ execResizeChans = NoSession /\ newest = NoSession
  /\ pc = [s \in Session |-> "idle"] /\ cancelled = {} /\ listening = {} /\ closedChans = {}
  /\ stopping = {} /\ resizing = {} /\ panicked = FALSE /\ isActive = TRUE
  /\ effects = 0 /\ mounted = NoSession /\ component = 1 /\ status = "connecting"
  /\ events = <<>> /\ rejected = {}

-----------------------------------------------------------------------------
(* The tray *)

RunEffect(s) ==
  /\ s \in Session /\ effects' = s /\ mounted' = s
  /\ status' = "connecting"
  /\ pc' = [pc EXCEPT ![s] = "called"]
  /\ UNCHANGED <<mapVars, cancelled, listening, closedChans, resizing, panicked, isActive, events,
                 rejected>>

OpenTray ==
  /\ mounted = NoSession
  /\ RunEffect(effects + 1)
  /\ component' = effects + 1
  /\ UNCHANGED stopping

\* The reconnect button: cleanup and effect in one commit.
Reconnect ==
  /\ mounted # NoSession
  /\ RunEffect(effects + 1)
  /\ stopping' = stopping \union {mounted}
  /\ UNCHANGED component

CloseTray ==
  /\ mounted # NoSession
  /\ mounted' = NoSession
  /\ stopping' = stopping \union {mounted}
  /\ UNCHANGED <<mapVars, sessionVars, resizing, panicked, isActive, effects, component, status,
                 events, rejected>>

\* The generation that the listeners compare is that of the effect that made them, which its
\* cleanup has removed already: it does not tell whose event it is.
Deliver ==
  /\ events # <<>>
  /\ events' = Tail(events)
  /\ status' = IF mounted = NoSession THEN status
               ELSE IF Head(events) = "stdout" THEN "active" ELSE "closed"
  /\ UNCHANGED <<mapVars, sessionVars, callVars, effects, mounted, component, rejected>>

Reject(s) ==
  /\ s \in rejected
  /\ rejected' = rejected \ {s}
  /\ status' = IF mounted # NoSession /\ s >= component THEN "error" ELSE status
  /\ UNCHANGED <<mapVars, sessionVars, callVars, effects, mounted, component, events>>

-----------------------------------------------------------------------------
(* ExecInPod *)

\* The first locked section.
Register(s) ==
  /\ Goto(s, "called", "opening")
  /\ cancelled' = cancelled \union ({execCancels} \ {NoSession})
  /\ execCancels' = s /\ execResizeChans' = s /\ newest' = s
  /\ UNCHANGED <<listening, closedChans, callVars, trayVars, events, rejected>>

\* No client, or no executor for it: both maps keep the entries.
OpenFails(s) ==
  /\ Goto(s, "opening", "failed")
  /\ cancelled' = cancelled \union {s}
  /\ rejected' = rejected \union {s}
  /\ UNCHANGED <<mapVars, listening, closedChans, callVars, trayVars, events>>

\* The session listens to keystrokes and its goroutine starts.
Open(s) ==
  /\ Goto(s, "opening", "starting")
  /\ listening' = listening \union {s}
  /\ UNCHANGED <<mapVars, cancelled, closedChans, callVars, trayVars, events, rejected>>

\* The goroutine runs the shell only for the active context.
Start(s) ==
  /\ Goto(s, "starting", IF isActive THEN "running" ELSE "closing")
  /\ UNCHANGED <<mapVars, cancelled, listening, closedChans, callVars, trayVars, events, rejected>>

\* The shell writes.
Stdout(s) ==
  /\ pc[s] = "running" /\ Len(events) < MaxEvents
  /\ events' = Append(events, "stdout")
  /\ UNCHANGED <<mapVars, sessionVars, callVars, trayVars, rejected>>

\* Mutant: the shell is run with the application's context.
ShellEnds_Uncancelled(s) ==
  /\ s \notin cancelled
  /\ Goto(s, "running", "closing")
  /\ UNCHANGED <<mapVars, cancelled, listening, closedChans, callVars, trayVars, events, rejected>>

\* The shell exits, the connection breaks or the session is cancelled.
ShellEnds(s) ==
  /\ Goto(s, "running", "closing")
  /\ UNCHANGED <<mapVars, cancelled, listening, closedChans, callVars, trayVars, events, rejected>>

\* Mutant: only the end of a shell is announced, not its cancellation.
EmitClosed_Silent(s) ==
  /\ Goto(s, "closing", "cleanup")
  /\ listening' = listening \ {s}
  /\ events' = IF s \in cancelled THEN events ELSE Append(events, "closed")
  /\ UNCHANGED <<mapVars, cancelled, closedChans, callVars, trayVars, rejected>>

\* The deferred function up to the lock.
EmitClosed(s) ==
  /\ Goto(s, "closing", "cleanup")
  /\ listening' = listening \ {s}
  /\ events' = Append(events, "closed")
  /\ UNCHANGED <<mapVars, cancelled, closedChans, callVars, trayVars, rejected>>

\* Mutant: the channel under the key is removed whosever it is.
Cleanup_AnyChannel(s) ==
  /\ Goto(s, "cleanup", "closeChan")
  /\ execCancels' = NoSession /\ execResizeChans' = NoSession
  /\ UNCHANGED <<newest, cancelled, listening, closedChans, callVars, trayVars, events, rejected>>

\* Its locked section.
Cleanup(s) ==
  /\ Goto(s, "cleanup", "closeChan")
  /\ execCancels' = NoSession
  /\ execResizeChans' = IF execResizeChans = s THEN NoSession ELSE execResizeChans
  /\ UNCHANGED <<newest, cancelled, listening, closedChans, callVars, trayVars, events, rejected>>

\* Mutant: the channel is closed before the locked section.
CloseChan_Early(s) ==
  /\ pc[s] = "cleanup" /\ s \notin closedChans
  /\ closedChans' = closedChans \union {s}
  /\ UNCHANGED <<mapVars, pc, cancelled, listening, callVars, trayVars, events, rejected>>

CloseChan(s) ==
  /\ Goto(s, "closeChan", "ended")
  /\ closedChans' = closedChans \union {s}
  /\ UNCHANGED <<mapVars, cancelled, listening, callVars, trayVars, events, rejected>>

-----------------------------------------------------------------------------
\* StopExec, called by the cleanup of effect s.
StopExec(s) ==
  /\ s \in stopping /\ stopping' = stopping \ {s}
  /\ cancelled' = cancelled \union ({execCancels} \ {NoSession})
  /\ execCancels' = NoSession
  /\ UNCHANGED <<execResizeChans, newest, pc, listening, closedChans, resizing, panicked, isActive,
                 trayVars, events, rejected>>

\* ResizeExecTerminal finds a channel under the lock ...
TakeChannel ==
  /\ mounted # NoSession /\ execResizeChans # NoSession
  /\ resizing' = resizing \union {execResizeChans}
  /\ UNCHANGED <<mapVars, sessionVars, stopping, panicked, isActive, trayVars, events, rejected>>

\* ... and sends to it after the unlock; a full channel drops the size, a closed one panics.
SendSize(s) ==
  /\ s \in resizing /\ resizing' = resizing \ {s}
  /\ panicked' = (panicked \/ s \in closedChans)
  /\ UNCHANGED <<mapVars, sessionVars, stopping, isActive, trayVars, events, rejected>>

\* Another context becomes active, or the proxy of this one is lost.
Deactivate ==
  /\ isActive /\ isActive' = FALSE
  /\ UNCHANGED <<mapVars, sessionVars, stopping, resizing, panicked, trayVars, events, rejected>>

-----------------------------------------------------------------------------
Next ==
  \/ OpenTray \/ Reconnect \/ CloseTray \/ Deliver \/ TakeChannel \/ Deactivate
  \/ \E s \in Session :
       \/ Reject(s) \/ StopExec(s) \/ SendSize(s)
       \/ Register(s) \/ OpenFails(s) \/ Open(s) \/ Start(s)
       \/ Stdout(s) \/ ShellEnds(s) \/ EmitClosed(s) \/ Cleanup(s) \/ CloseChan(s)

Spec == Init /\ [][Next]_vars

\* A goroutine goes on, and a shell whose context was cancelled ends; one that was not may run
\* for ever.
Fairness ==
  \A s \in Session :
    /\ WF_vars(Register(s) \/ OpenFails(s) \/ Open(s) \/ Start(s))
    /\ WF_vars(EmitClosed(s) \/ Cleanup(s) \/ CloseChan(s))
    /\ WF_vars(s \in cancelled /\ ShellEnds(s))

FairSpec == Spec /\ Fairness

-----------------------------------------------------------------------------
(* Properties *)

\* Type invariant of the sessions and their tray.
TypeOK ==
  /\ {execCancels, execResizeChans, newest, mounted} \subseteq {NoSession} \union Session
  /\ pc \in [Session -> SessionPc]
  /\ cancelled \subseteq Session /\ listening \subseteq Session /\ closedChans \subseteq Session
  /\ stopping \subseteq Session /\ resizing \subseteq Session
  /\ panicked \in BOOLEAN /\ isActive \in BOOLEAN
  /\ effects \in Nat /\ component \in Nat /\ status \in Status
  /\ events \in Seq({"stdout", "closed"}) /\ rejected \subseteq Session

\* "A new session may have already replaced it; in that case leave the map alone": however the
\* cleanups of older sessions fall, the newest session is resized through its own channel.
NewestIsResized ==
  newest # NoSession /\ pc[newest] \in Running \union {"closing", "cleanup"} =>
    execResizeChans = newest

\* A channel that can be found is open, so a call that sends to a closed one took it before the
\* cleanup of its session.
OfferedIsOpen == execResizeChans \notin closedChans

\* The tray never shows a terminal as live when no call, shell, closed event or error is left.
ShownLiveIsLive ==
  mounted # NoSession /\ status \in {"connecting", "active"} =>
    \/ \E s \in Session : pc[s] \in Running \union {"called", "closing"}
    \/ \E i \in DOMAIN events : events[i] = "closed"
    \/ rejected # {}

\* A session that was cancelled stops taking keystrokes and closes its channel, so that the
\* executor's wait for a size returns; if it failed to open it never had either.
CancelledUnwinds ==
  \A s \in Session :
    s \in cancelled ~> s \notin listening /\ (pc[s] = "failed" \/ s \in closedChans)

=============================================================================
