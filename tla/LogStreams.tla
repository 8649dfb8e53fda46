----------------------------- MODULE LogStreams -----------------------------
(***************************************************************************)
(* The log streams of one container: StreamLogs and StopLogs               *)
(* (internal/app/logs.go) and the tray that shows them (usePodLogs.ts).    *)
(*                                                                         *)
(* Each run of the tray's effect starts one stream and its cleanup stops   *)
(* it.  Neither call waits for the other, each runs in a goroutine of its  *)
(* own, and all of them, and the events of every stream, go by the         *)
(* container's key: nothing tells a call or an event of an old effect from *)
(* one of the new.  A stream has the number of the effect that asked for   *)
(* it.                                                                     *)
(***************************************************************************)
EXTENDS Naturals, Sequences

CONSTANTS
  MaxEffects,  \* bound: runs of the tray's effect
  MaxEvents    \* bound: lines that wait to be delivered

ASSUME LogAssumption == MaxEffects \in Nat /\ MaxEvents \in Nat

Effect == 1..MaxEffects
NoEffect == 0

VARIABLES
  \* App.streamMu
  logCancels,  \* the stream whose cancel function is under the key, or NoEffect
  logSeqs,     \* how often the key was taken
  \* StreamLogs
  pc, seq, cancelled,
  \* StopLogs
  stopPc,
  isActive,    \* the context of the stream is the active one
  \* the tray
  effects,     \* effects run so far
  mounted,     \* the effect that listens, or NoEffect
  component,   \* the first effect of the component that is shown
  status,
  \* on their way to the page
  events,      \* "line" and "closed", in the order they were emitted
  rejected     \* calls whose error was returned and not yet seen

hostVars == <<logCancels, logSeqs, pc, seq, cancelled, stopPc, isActive>>
trayVars == <<effects, mounted, component, status>>
vars == <<hostVars, trayVars, events, rejected>>

StreamPc == {"idle", "called", "opening", "reading", "closing", "cleanup", "ended", "failed"}
Status == {"connecting", "streaming", "closed", "error"}

Goto(e, from, to) == pc[e] = from /\ pc' = [pc EXCEPT ![e] = to]

-----------------------------------------------------------------------------
Init ==
  /\ logCancels = NoEffect /\ logSeqs = 0
  /\ pc = [e \in Effect |-> "idle"] /\ seq = [e \in Effect |-> 0] /\ cancelled = {}
  /\ stopPc = [e \in Effect |-> "idle"]
  /\ isActive = TRUE
  /\ effects = 0 /\ mounted = NoEffect /\ component = 1 /\ status = "connecting"
  /\ events = <<>> /\ rejected = {}

-----------------------------------------------------------------------------
(* The tray *)

\* The effect listens under the key and calls StreamLogs.
RunEffect(e) ==
  /\ e \in Effect /\ effects' = e /\ mounted' = e
  /\ status' = "connecting"
  /\ pc' = [pc EXCEPT ![e] = "called"]

\* The tray is opened.
OpenTray ==
  /\ mounted = NoEffect
  /\ RunEffect(effects + 1)
  /\ component' = effects + 1
  /\ UNCHANGED <<logCancels, logSeqs, seq, cancelled, stopPc, isActive, events, rejected>>

\* Timestamps or the previous instance are toggled: cleanup and effect in one commit.
ToggleOption ==
  /\ mounted # NoEffect
  /\ stopPc' = [stopPc EXCEPT ![mounted] = "called"]
  /\ RunEffect(effects + 1)
  /\ UNCHANGED <<logCancels, logSeqs, seq, cancelled, isActive, component, events, rejected>>

\* The tray is closed or unmounted.
CloseTray ==
  /\ mounted # NoEffect
  /\ stopPc' = [stopPc EXCEPT ![mounted] = "called"]
  /\ mounted' = NoEffect
  /\ UNCHANGED <<logCancels, logSeqs, pc, seq, cancelled, isActive, effects, component, status,
                 events, rejected>>

\* An event reaches whichever effect listens under the key, or nobody.
Deliver ==
  /\ events # <<>>
  /\ events' = Tail(events)
  /\ status' = IF mounted = NoEffect THEN status
               ELSE IF Head(events) = "line" THEN "streaming" ELSE "closed"
  /\ UNCHANGED <<hostVars, effects, mounted, component, rejected>>

\* The promise of a call is rejected; its component shows the error while it exists.
Reject(e) ==
  /\ e \in rejected
  /\ rejected' = rejected \ {e}
  /\ status' = IF mounted # NoEffect /\ e >= component THEN "error" ELSE status
  /\ UNCHANGED <<hostVars, effects, mounted, component, events>>

-----------------------------------------------------------------------------
(* StreamLogs *)

\* The first locked section: the stream under the key is cancelled and replaced.
Register(e) ==
  /\ Goto(e, "called", "opening")
  /\ cancelled' = cancelled \union ({logCancels} \ {NoEffect})
  /\ logCancels' = e
  /\ logSeqs' = logSeqs + 1
  /\ seq' = [seq EXCEPT ![e] = logSeqs']
  /\ UNCHANGED <<stopPc, isActive, trayVars, events, rejected>>

\* There is no client for the context, or the request fails.
OpenFails(e) ==
  /\ Goto(e, "opening", "failed")
  /\ cancelled' = cancelled \union {e}
  /\ rejected' = rejected \union {e}
  /\ UNCHANGED <<logCancels, logSeqs, seq, stopPc, isActive, trayVars, events>>

\* The request was answered before anybody cancelled it.
Open(e) ==
  /\ e \notin cancelled
  /\ Goto(e, "opening", "reading")
  /\ UNCHANGED <<logCancels, logSeqs, seq, cancelled, stopPc, isActive, trayVars, events,
                 rejected>>

\* A line is emitted, unless the context is no longer active.
ScanLine(e) ==
  /\ pc[e] = "reading" /\ isActive
  /\ Len(events) < MaxEvents
  /\ events' = Append(events, "line")
  /\ UNCHANGED <<hostVars, trayVars, rejected>>

\* Mutant: the request was made with the application's context.
LastLine_Uncancelled(e) ==
  /\ e \notin cancelled
  /\ Goto(e, "reading", "closing")
  /\ UNCHANGED <<logCancels, logSeqs, seq, cancelled, stopPc, isActive, trayVars, events,
                 rejected>>

\* The scan ends: end of the log, an error, a cancel, or a line for an inactive context.
LastLine(e) ==
  /\ Goto(e, "reading", "closing")
  /\ UNCHANGED <<logCancels, logSeqs, seq, cancelled, stopPc, isActive, trayVars, events,
                 rejected>>

\* Mutant: a stream that was cancelled says nothing.
EmitClosed_Silent(e) ==
  /\ Goto(e, "closing", "cleanup")
  /\ events' = IF e \in cancelled THEN events ELSE Append(events, "closed")
  /\ UNCHANGED <<logCancels, logSeqs, seq, cancelled, stopPc, isActive, trayVars, rejected>>

EmitClosed(e) ==
  /\ Goto(e, "closing", "cleanup")
  /\ events' = Append(events, "closed")
  /\ UNCHANGED <<logCancels, logSeqs, seq, cancelled, stopPc, isActive, trayVars, rejected>>

\* Mutant: the key is freed whoever holds it.
Cleanup_AnySeq(e) ==
  /\ Goto(e, "cleanup", "ended")
  /\ logCancels' = NoEffect
  /\ UNCHANGED <<logSeqs, seq, cancelled, stopPc, isActive, trayVars, events, rejected>>

\* The deferred locked section.
Cleanup(e) ==
  /\ Goto(e, "cleanup", "ended")
  /\ logCancels' = IF logSeqs = seq[e] THEN NoEffect ELSE logCancels
  /\ UNCHANGED <<logSeqs, seq, cancelled, stopPc, isActive, trayVars, events, rejected>>

-----------------------------------------------------------------------------
\* StopLogs, called by the cleanup of effect e, stops the stream it finds.
StopLogs(e) ==
  /\ stopPc[e] = "called"
  /\ stopPc' = [stopPc EXCEPT ![e] = "done"]
  /\ cancelled' = cancelled \union ({logCancels} \ {NoEffect})
  /\ logCancels' = NoEffect
  /\ UNCHANGED <<logSeqs, pc, seq, isActive, trayVars, events, rejected>>

\* Another context becomes active, or the proxy of this one is lost.
Deactivate ==
  /\ isActive
  /\ isActive' = FALSE
  /\ UNCHANGED <<logCancels, logSeqs, pc, seq, cancelled, stopPc, trayVars, events, rejected>>

-----------------------------------------------------------------------------
Next ==
  \/ OpenTray \/ ToggleOption \/ CloseTray \/ Deliver \/ Deactivate
  \/ \E e \in Effect :
       \/ Reject(e) \/ StopLogs(e)
       \/ Register(e) \/ OpenFails(e) \/ Open(e)
       \/ ScanLine(e) \/ LastLine(e) \/ EmitClosed(e) \/ Cleanup(e)

Spec == Init /\ [][Next]_vars

\* A goroutine goes on, and a request or a read under a cancelled context returns; one that
\* was not cancelled may last for ever.
Fairness ==
  \A e \in Effect :
    /\ WF_vars(Register(e) \/ EmitClosed(e) \/ Cleanup(e))
    /\ WF_vars(e \in cancelled /\ (OpenFails(e) \/ LastLine(e)))

FairSpec == Spec /\ Fairness

-----------------------------------------------------------------------------
(* Properties *)

\* Type invariant of the streams and their tray.
TypeOK ==
  /\ logCancels \in {NoEffect} \union Effect /\ logSeqs \in Nat
  /\ pc \in [Effect -> StreamPc] /\ seq \in [Effect -> Nat] /\ cancelled \subseteq Effect
  /\ stopPc \in [Effect -> {"idle", "called", "done"}]
  /\ isActive \in BOOLEAN
  /\ effects \in Nat /\ mounted \in {NoEffect} \union Effect /\ component \in Nat
  /\ status \in Status
  /\ events \in Seq({"line", "closed"}) /\ rejected \subseteq Effect

\* However calls and cleanups interleave, a stream that still reads was cancelled or can be:
\* its cancel function is the one under the key (logSeqs keeps an old cleanup from dropping it).
RunningIsStoppable ==
  \A e \in Effect : pc[e] \in {"opening", "reading"} => e \in cancelled \/ logCancels = e

\* The tray never shows a stream as live when nothing is left of any: a call, a stream, its
\* closed event or an error is still to come.
ShownLiveIsLive ==
  mounted # NoEffect /\ status \in {"connecting", "streaming"} =>
    \/ \E e \in Effect : pc[e] \in {"called", "opening", "reading", "closing"}
    \/ \E i \in DOMAIN events : events[i] = "closed"
    \/ rejected # {}

\* "Any pre-existing stream with the same key is cancelled first": a stream that was overtaken
\* ends, whatever its cleanup, its errors and the calls to StopLogs do to the key.
OvertakenEnds ==
  \A e, f \in Effect :
    (0 < seq[e] /\ seq[e] < seq[f]) ~> pc[e] \in {"ended", "failed"}

=============================================================================
