------------------------- MODULE ExecSessionsProofs -------------------------
(***************************************************************************)
(* What holds of the exec sessions for any number of effects and events.   *)
(*                                                                         *)
(* The channel under the key is the newest session's (OfferedIsNewest) and *)
(* is removed before it is closed (UnwindingIsOpen, GoneBeforeClose); an   *)
(* effect that has not run yet has no channel (FutureIsFresh).             *)
(*                                                                         *)
(* The tray is not left showing a terminal that is gone, because the last  *)
(* event that waits is a closed one unless a shell still runs              *)
(* (LastIsClosed): output is never the last thing the tray hears.          *)
(***************************************************************************)
EXTENDS ExecSessions, SequenceTheorems, TLAPS

OfferedIsNewest == execResizeChans \in {NoSession, newest}

GoneBeforeClose == \A s \in Session : pc[s] = "closeChan" => execResizeChans # s

UnwindingIsOpen ==
  \A s \in closedChans :
    pc[s] \notin Running \union {"called", "closing", "cleanup", "closeChan"}

FutureIsFresh == \A s \in Session : pc[s] # "idle" \/ s \in closedChans => s <= effects

\* The inductive invariant.
IInv ==
  /\ TypeOK /\ NewestIsResized /\ OfferedIsOpen
  /\ OfferedIsNewest /\ GoneBeforeClose /\ UnwindingIsOpen /\ FutureIsFresh

-----------------------------------------------------------------------------
LEMMA SessionIsNat == Session \subseteq Nat \ {NoSession}
BY ExecAssumption DEF Session, NoSession

LEMMA InitEstablishes == Init => IInv
<1> SUFFICES ASSUME Init PROVE IInv
  OBVIOUS
<1>1. TypeOK
  <2>1. {execCancels, execResizeChans, newest, mounted} \subseteq {NoSession} \union Session
    BY DEF Init
  <2>2. pc \in [Session -> SessionPc] /\ events \in Seq({"stdout", "closed"})
    BY DEF Init, SessionPc
  <2> QED
    BY <2>1, <2>2 DEF Init, TypeOK, Status
<1> QED
  BY <1>1 DEF Init, IInv, NewestIsResized, OfferedIsOpen, OfferedIsNewest, GoneBeforeClose,
              UnwindingIsOpen, FutureIsFresh, NoSession

\* Steps of the page, of StopExec and of ResizeExecTerminal that touch neither map nor session.
LEMMA Bystanders ==
  ASSUME IInv, TypeOK', UNCHANGED <<execResizeChans, newest, pc, closedChans, effects>>
  PROVE  IInv'
BY DEF IInv, NewestIsResized, OfferedIsOpen, OfferedIsNewest, GoneBeforeClose,
       UnwindingIsOpen, FutureIsFresh

LEMMA PageKeeps ==
  ASSUME IInv, CloseTray \/ Deliver \/ TakeChannel \/ Deactivate
  PROVE  IInv'
<1> USE DEF IInv
<1>1. CASE CloseTray
  <2>1. TypeOK'
    BY <1>1 DEF CloseTray, TypeOK, mapVars, sessionVars
  <2> QED
    BY <1>1, <2>1, Bystanders DEF CloseTray, mapVars, sessionVars
<1>2. CASE Deliver
  <2>1. TypeOK'
    BY <1>2 DEF Deliver, TypeOK, Status, mapVars, sessionVars, callVars
  <2> QED
    BY <1>2, <2>1, Bystanders DEF Deliver, mapVars, sessionVars
<1>3. CASE TakeChannel
  <2>1. TypeOK'
    BY <1>3 DEF TakeChannel, TypeOK, mapVars, sessionVars, trayVars
  <2> QED
    BY <1>3, <2>1, Bystanders DEF TakeChannel, mapVars, sessionVars, trayVars
<1>4. CASE Deactivate
  <2>1. TypeOK'
    BY <1>4 DEF Deactivate, TypeOK, mapVars, sessionVars, trayVars
  <2> QED
    BY <1>4, <2>1, Bystanders DEF Deactivate, mapVars, sessionVars, trayVars
<1> QED
  BY <1>1, <1>2, <1>3, <1>4

LEMMA CallsKeep ==
  ASSUME IInv, NEW s \in Session, Reject(s) \/ StopExec(s) \/ SendSize(s) \/ Stdout(s)
  PROVE  IInv'
<1> USE DEF IInv
<1>1. CASE Reject(s)
  <2>1. TypeOK'
    BY <1>1 DEF Reject, TypeOK, Status, mapVars, sessionVars, callVars
  <2> QED
    BY <1>1, <2>1, Bystanders DEF Reject, mapVars, sessionVars
<1>2. CASE StopExec(s)
  <2>1. TypeOK'
    BY <1>2 DEF StopExec, TypeOK, trayVars
  <2> QED
    BY <1>2, <2>1, Bystanders DEF StopExec, trayVars
<1>3. CASE SendSize(s)
  <2>1. TypeOK'
    BY <1>3 DEF SendSize, TypeOK, mapVars, sessionVars, trayVars
  <2> QED
    BY <1>3, <2>1, Bystanders DEF SendSize, mapVars, sessionVars, trayVars
<1>4. CASE Stdout(s)
  <2>1. TypeOK'
    BY <1>4 DEF Stdout, TypeOK, mapVars, sessionVars, callVars, trayVars
  <2> QED
    BY <1>4, <2>1, Bystanders DEF Stdout, mapVars, sessionVars, trayVars
<1> QED
  BY <1>1, <1>2, <1>3, <1>4

\* A new effect is a session that nobody has used: its number is past every channel.
LEMMA EffectKeeps ==
  ASSUME IInv, OpenTray \/ Reconnect
  PROVE  IInv'
<1> USE SessionIsNat DEF IInv
<1> DEFINE n == effects + 1
<1>1. /\ n \in Session /\ effects' = n /\ pc' = [pc EXCEPT ![n] = "called"]
      /\ UNCHANGED <<execResizeChans, newest, closedChans>>
  BY DEF OpenTray, Reconnect, RunEffect, mapVars
<1>2. TypeOK'
  BY <1>1 DEF OpenTray, Reconnect, RunEffect, TypeOK, SessionPc, Status, mapVars
<1>3. n \notin closedChans
  BY <1>1 DEF FutureIsFresh, TypeOK
<1>4. UnwindingIsOpen'
  BY <1>1, <1>3 DEF UnwindingIsOpen, TypeOK
<1>5. FutureIsFresh'
  <2> SUFFICES ASSUME NEW s \in Session, pc'[s] # "idle" \/ s \in closedChans
               PROVE  s <= effects + 1
    BY <1>1 DEF FutureIsFresh
  <2> QED
    BY <1>1 DEF FutureIsFresh, TypeOK
<1>6. NewestIsResized' /\ OfferedIsOpen' /\ OfferedIsNewest' /\ GoneBeforeClose'
  BY <1>1 DEF NewestIsResized, OfferedIsOpen, OfferedIsNewest, GoneBeforeClose, Running, TypeOK
<1> QED
  BY <1>2, <1>4, <1>5, <1>6

LEMMA RegisterKeeps ==
  ASSUME IInv, NEW s \in Session, Register(s)
  PROVE  IInv'
<1> USE SessionIsNat DEF IInv, Running
<1>1. TypeOK'
  BY DEF Register, Goto, TypeOK, SessionPc, callVars, trayVars
<1>2. s \notin closedChans
  BY DEF Register, Goto, UnwindingIsOpen
<1>3. NewestIsResized' /\ OfferedIsOpen' /\ OfferedIsNewest' /\ GoneBeforeClose'
  BY <1>2 DEF Register, Goto, NewestIsResized, OfferedIsOpen, OfferedIsNewest, GoneBeforeClose,
              TypeOK
<1>4. UnwindingIsOpen' /\ FutureIsFresh'
  BY <1>2 DEF Register, Goto, UnwindingIsOpen, FutureIsFresh, TypeOK, trayVars
<1> QED
  BY <1>1, <1>3, <1>4

\* Steps of a session that leave both maps alone.
LEMMA SessionKeeps ==
  ASSUME IInv, NEW s \in Session,
         OpenFails(s) \/ Open(s) \/ Start(s) \/ ShellEnds(s) \/ EmitClosed(s)
  PROVE  IInv'
<1> USE DEF IInv, Running
<1>1. TypeOK'
  <2>1. pc' \in [Session -> SessionPc]
    BY DEF OpenFails, Open, Start, ShellEnds, EmitClosed, Goto, TypeOK, SessionPc
  <2> QED
    BY <2>1 DEF OpenFails, Open, Start, ShellEnds, EmitClosed, TypeOK, mapVars, callVars, trayVars
<1>2. PICK to \in {"failed", "starting", "running", "closing", "cleanup"} :
        /\ pc[s] \in Running \union {"closing"} /\ pc' = [pc EXCEPT ![s] = to]
        /\ UNCHANGED <<execResizeChans, newest, closedChans, effects>>
  BY DEF OpenFails, Open, Start, ShellEnds, EmitClosed, Goto, mapVars, trayVars
<1>3. NewestIsResized' /\ OfferedIsOpen' /\ OfferedIsNewest' /\ GoneBeforeClose'
  BY <1>2 DEF NewestIsResized, OfferedIsOpen, OfferedIsNewest, GoneBeforeClose, TypeOK
<1>4. UnwindingIsOpen' /\ FutureIsFresh'
  BY <1>2 DEF UnwindingIsOpen, FutureIsFresh, TypeOK
<1> QED
  BY <1>1, <1>3, <1>4

\* The cleanup frees a channel only if it is its own, and closes it after that.
LEMMA CleanupKeeps ==
  ASSUME IInv, NEW s \in Session, Cleanup(s) \/ CloseChan(s)
  PROVE  IInv'
<1> USE SessionIsNat DEF IInv, Running
<1>1. CASE Cleanup(s)
  <2>1. TypeOK'
    BY <1>1 DEF Cleanup, Goto, TypeOK, SessionPc, callVars, trayVars
  <2>2. NewestIsResized' /\ OfferedIsOpen' /\ OfferedIsNewest' /\ GoneBeforeClose'
    BY <1>1 DEF Cleanup, Goto, NewestIsResized, OfferedIsOpen, OfferedIsNewest, GoneBeforeClose,
                TypeOK
  <2>3. UnwindingIsOpen' /\ FutureIsFresh'
    BY <1>1 DEF Cleanup, Goto, UnwindingIsOpen, FutureIsFresh, TypeOK, trayVars
  <2> QED
    BY <2>1, <2>2, <2>3
<1>2. CASE CloseChan(s)
  <2>1. TypeOK'
    BY <1>2 DEF CloseChan, Goto, TypeOK, SessionPc, mapVars, callVars, trayVars
  <2>2. NewestIsResized' /\ OfferedIsOpen' /\ OfferedIsNewest' /\ GoneBeforeClose'
    BY <1>2 DEF CloseChan, Goto, NewestIsResized, OfferedIsOpen, OfferedIsNewest, GoneBeforeClose,
                TypeOK, mapVars
  <2>3. UnwindingIsOpen' /\ FutureIsFresh'
    BY <1>2 DEF CloseChan, Goto, UnwindingIsOpen, FutureIsFresh, TypeOK, trayVars
  <2> QED
    BY <2>1, <2>2, <2>3
<1> QED
  BY <1>1, <1>2

LEMMA StepKeeps == IInv /\ [Next]_vars => IInv'
<1> SUFFICES ASSUME IInv, [Next]_vars PROVE IInv'
  OBVIOUS
<1>1. CASE OpenTray \/ Reconnect
  BY <1>1, EffectKeeps
<1>2. CASE CloseTray \/ Deliver \/ TakeChannel \/ Deactivate
  BY <1>2, PageKeeps
<1>3. CASE \E s \in Session : Reject(s) \/ StopExec(s) \/ SendSize(s) \/ Stdout(s)
  BY <1>3, CallsKeep
<1>4. CASE \E s \in Session : Register(s) \/ Cleanup(s) \/ CloseChan(s)
  BY <1>4, RegisterKeeps, CleanupKeeps
<1>5. CASE \E s \in Session :
             OpenFails(s) \/ Open(s) \/ Start(s) \/ ShellEnds(s) \/ EmitClosed(s)
  BY <1>5, SessionKeeps
<1>6. CASE UNCHANGED vars
  <2>1. TypeOK'
    BY <1>6 DEF IInv, vars, mapVars, sessionVars, callVars, trayVars, TypeOK
  <2> QED
    BY <1>6, <2>1, Bystanders DEF vars, mapVars, sessionVars, trayVars
<1> QED
  BY <1>1, <1>2, <1>3, <1>4, <1>5, <1>6 DEF Next

\* IInv holds in every reachable state, with any number of sessions.
THEOREM SessionsInvariant == Spec => []IInv
BY InitEstablishes, StepKeeps, PTL DEF Spec

\* Type correctness of the exec sessions (exec.go, usePodExec.ts).
THEOREM TypeCorrect == Spec => []TypeOK
<1>1. IInv => TypeOK
  BY DEF IInv
<1> QED
  BY <1>1, SessionsInvariant, PTL

\* The newest session keeps its resize channel whatever older cleanups do (exec.go:126-130).
THEOREM Resized == Spec => []NewestIsResized
<1>1. IInv => NewestIsResized
  BY DEF IInv
<1> QED
  BY <1>1, SessionsInvariant, PTL

\* A channel that ResizeExecTerminal can find is open (exec.go:124-133).
THEOREM Offered == Spec => []OfferedIsOpen
<1>1. IInv => OfferedIsOpen
  BY DEF IInv
<1> QED
  BY <1>1, SessionsInvariant, PTL

-----------------------------------------------------------------------------
(* The tray *)

Runs(s) == pc[s] \in {"running", "closing"}

SomeRuns == \E s \in Session : Runs(s)

ClosedAhead == \E i \in DOMAIN events : events[i] = "closed"

MountedIsOfComponent == mounted # NoSession => component <= mounted /\ mounted <= effects

LastIsClosed == events # <<>> /\ ~SomeRuns => events[Len(events)] = "closed"

\* What a tray that shows "active", or "connecting", is about to hear from.
ActiveIsFed == mounted # NoSession /\ status = "active" => SomeRuns \/ ClosedAhead

ConnectingIsFed ==
  mounted # NoSession /\ status = "connecting" =>
    \/ pc[mounted] \in Running \union {"called", "closing"}
    \/ ClosedAhead
    \/ mounted \in rejected

\* The inductive invariant of the tray, over IInv.
TrayInv ==
  /\ MountedIsOfComponent
  /\ LastIsClosed /\ ActiveIsFed /\ ConnectingIsFed

\* Steps of calls and sessions that emit nothing and end no shell that runs.
LEMMA QuietKeeps ==
  ASSUME IInv, TrayInv, UNCHANGED <<trayVars, events>>, rejected \subseteq rejected',
         \A s \in Session : s > effects => pc'[s] = pc[s],
         \A s \in Session : Runs(s) => (Runs(s))',
         \A s \in Session : pc[s] \in Running \union {"called", "closing"} =>
           pc'[s] \in Running \union {"called", "closing"} \/ s \in rejected'
  PROVE  TrayInv'
<1> USE DEF TrayInv, trayVars
<1>1. SomeRuns => SomeRuns'
  BY DEF SomeRuns
<1>2. ClosedAhead' <=> ClosedAhead
  BY DEF ClosedAhead
<1>3. MountedIsOfComponent' /\ LastIsClosed' /\ ActiveIsFed'
  BY <1>1, <1>2 DEF MountedIsOfComponent, LastIsClosed, ActiveIsFed
<1>4. ConnectingIsFed'
  BY <1>2 DEF ConnectingIsFed, IInv, TypeOK
<1> QED
  BY <1>3, <1>4

\* The effect that is run is a new one: its call is all that changes in the host.
LEMMA RunKeeps ==
  ASSUME IInv, TrayInv, RunEffect(effects + 1),
         (component' = component /\ mounted # NoSession) \/ component' = effects + 1
  PROVE  TrayInv'
<1> USE SessionIsNat DEF TrayInv
<1> DEFINE n == effects + 1
<1>1. /\ n \in Session /\ effects' = n /\ mounted' = n /\ status' = "connecting"
      /\ pc' = [pc EXCEPT ![n] = "called"] /\ effects \in Nat /\ component \in Nat
      /\ UNCHANGED <<events, rejected>>
  BY DEF RunEffect, IInv, TypeOK
<1>2. pc[n] = "idle"
  BY <1>1 DEF IInv, FutureIsFresh
<1>3. MountedIsOfComponent'
  <2>1. mounted \in {NoSession} \union Session
    BY DEF IInv, TypeOK
  <2>2. mounted # NoSession => component <= mounted /\ mounted <= effects /\ mounted \in Nat
    BY <2>1 DEF MountedIsOfComponent
  <2>3. component' <= n
    BY <1>1, <2>2
  <2> QED
    BY <1>1, <2>3 DEF MountedIsOfComponent
<1>4. SomeRuns => SomeRuns'
  BY <1>1, <1>2 DEF SomeRuns, Runs, IInv, TypeOK
<1>5. LastIsClosed'
  BY <1>1, <1>4 DEF LastIsClosed
<1>6. ActiveIsFed' /\ ConnectingIsFed'
  BY <1>1 DEF ActiveIsFed, ConnectingIsFed, IInv, TypeOK
<1> QED
  BY <1>3, <1>5, <1>6

\* What is left after the first event ends as what there was.
LEMMA TailKeepsLast ==
  ASSUME NEW S, NEW s \in Seq(S), s # <<>>
  PROVE  /\ Tail(s) \in Seq(S)
         /\ Head(s) = s[1] /\ Len(s) \in Nat /\ Len(s) > 0
         /\ Tail(s) # <<>> => Len(s) > 1 /\ Tail(s)[Len(Tail(s))] = s[Len(s)]
         /\ Len(s) > 1 => Tail(s) # <<>> /\ Len(Tail(s)) \in DOMAIN Tail(s)
<1>1. /\ Tail(s) \in Seq(S) /\ Head(s) = s[1] /\ Len(s) \in Nat /\ Len(s) > 0
      /\ Len(Tail(s)) = Len(s) - 1 /\ DOMAIN Tail(s) = 1..(Len(s) - 1)
  OBVIOUS
<1>2. \A i \in 1..(Len(s) - 1) : Tail(s)[i] = s[i + 1]
  OBVIOUS
<1>3. Tail(s) # <<>> => Len(Tail(s)) # 0
  BY <1>1, EmptySeq
<1>4. Len(Tail(s)) # 0 => Tail(s) # <<>>
  BY EmptySeq
<1>5. Len(Tail(s)) # 0 => Len(s) > 1
  BY <1>1
<1>6. Len(s) > 1 => Len(Tail(s)) # 0
  BY <1>1
<1>7. Len(s) > 1 => /\ Len(s) - 1 \in 1..(Len(s) - 1)
                    /\ Tail(s)[Len(s) - 1] = s[(Len(s) - 1) + 1]
                    /\ (Len(s) - 1) + 1 = Len(s)
  BY <1>1, <1>2
<1> QED
  BY <1>1, <1>3, <1>4, <1>5, <1>6, <1>7

LEMMA AppendIsLast ==
  ASSUME NEW S, NEW s \in Seq(S), NEW x \in S
  PROVE  /\ Append(s, x) # <<>> /\ Len(Append(s, x)) \in DOMAIN Append(s, x)
         /\ Append(s, x)[Len(Append(s, x))] = x
         /\ \A i \in DOMAIN s : i \in DOMAIN Append(s, x) /\ Append(s, x)[i] = s[i]
OBVIOUS

\* Output that is delivered is not the last word: a shell runs or its closed event follows.
LEMMA DeliverKeeps ==
  ASSUME IInv, TrayInv, Deliver
  PROVE  TrayInv'
<1> USE DEF TrayInv
<1>1. /\ events \in Seq({"stdout", "closed"}) /\ events # <<>> /\ events' = Tail(events)
      /\ UNCHANGED <<pc, effects, mounted, component, rejected>>
      /\ mounted # NoSession => status' = IF Head(events) = "stdout" THEN "active" ELSE "closed"
  BY DEF Deliver, mapVars, sessionVars, callVars, IInv, TypeOK
<1>2. MountedIsOfComponent'
  BY <1>1 DEF MountedIsOfComponent
<1>3. SomeRuns' <=> SomeRuns
  BY <1>1 DEF SomeRuns, Runs
<1>4. LastIsClosed'
  BY <1>1, <1>3, TailKeepsLast DEF LastIsClosed
<1>5. ActiveIsFed'
  <2> SUFFICES ASSUME mounted # NoSession, Head(events) = "stdout", ~SomeRuns
               PROVE  ClosedAhead'
    BY <1>1, <1>3 DEF ActiveIsFed
  <2>1. events[Len(events)] = "closed" /\ events[1] = "stdout" /\ Len(events) > 0
    BY <1>1, TailKeepsLast DEF LastIsClosed
  <2>2. Len(events) \in Nat
    BY <1>1
  <2>3. Len(events) > 1
    BY <2>1, <2>2
  <2> QED
    BY <1>1, <2>1, <2>3, TailKeepsLast DEF ClosedAhead
<1>6. ConnectingIsFed'
  BY <1>1 DEF ConnectingIsFed
<1> QED
  BY <1>2, <1>4, <1>5, <1>6

\* A session that emits runs, or ends with the closed event it emits.
LEMMA EmitKeeps ==
  ASSUME IInv, TrayInv, NEW s \in Session, Stdout(s) \/ EmitClosed(s)
  PROVE  TrayInv'
<1> USE DEF TrayInv
<1> PICK x \in {"stdout", "closed"} :
      /\ events' = Append(events, x) /\ UNCHANGED <<trayVars, rejected>>
      /\ \/ x = "stdout" /\ pc' = pc /\ pc[s] = "running"
         \/ x = "closed" /\ pc' = [pc EXCEPT ![s] = "cleanup"] /\ pc[s] = "closing"
  BY DEF Stdout, EmitClosed, Goto, sessionVars
<1>1. events \in Seq({"stdout", "closed"})
  BY DEF IInv, TypeOK
<1>2. x = "stdout" => SomeRuns'
  BY DEF SomeRuns, Runs
<1>3. ClosedAhead => ClosedAhead'
  BY <1>1, AppendIsLast DEF ClosedAhead
<1>4. x = "closed" => ClosedAhead'
  BY <1>1, AppendIsLast DEF ClosedAhead
<1>5. LastIsClosed'
  BY <1>1, <1>2, AppendIsLast DEF LastIsClosed
<1>6. ActiveIsFed'
  BY <1>2, <1>4 DEF ActiveIsFed
<1>7. MountedIsOfComponent'
  BY DEF MountedIsOfComponent, trayVars, TypeOK
<1>8. ConnectingIsFed'
  BY <1>3, <1>4 DEF ConnectingIsFed, trayVars
<1> QED
  BY <1>5, <1>6, <1>7, <1>8

\* The error of the effect that is mounted is shown: it is no older than its component.
LEMMA RejectKeeps ==
  ASSUME IInv, TrayInv, NEW s \in Session, Reject(s)
  PROVE  TrayInv'
<1> USE DEF TrayInv
<1>1. /\ UNCHANGED <<pc, effects, mounted, component, events>>
      /\ rejected' = rejected \ {s}
      /\ status' = IF mounted # NoSession /\ s >= component THEN "error" ELSE status
  BY DEF Reject, mapVars, sessionVars, callVars
<1>2. SomeRuns' <=> SomeRuns
  BY <1>1 DEF SomeRuns, Runs
<1>3. ClosedAhead' <=> ClosedAhead
  BY <1>1 DEF ClosedAhead
<1>4. MountedIsOfComponent' /\ LastIsClosed' /\ ActiveIsFed'
  BY <1>1, <1>2, <1>3 DEF MountedIsOfComponent, LastIsClosed, ActiveIsFed
<1>5. mounted # NoSession /\ status' = "connecting" => s # mounted
  BY <1>1, SessionIsNat DEF MountedIsOfComponent, IInv, TypeOK
<1>6. ConnectingIsFed'
  BY <1>1, <1>3, <1>5 DEF ConnectingIsFed
<1> QED
  BY <1>4, <1>6

\* The steps of calls and sessions that emit nothing.
LEMMA CallKeeps ==
  ASSUME IInv, TrayInv, NEW s \in Session,
         \/ Register(s) \/ OpenFails(s) \/ Open(s) \/ Start(s) \/ ShellEnds(s)
         \/ Cleanup(s) \/ CloseChan(s) \/ StopExec(s) \/ SendSize(s)
  PROVE  TrayInv'
<1> USE DEF Running, Runs
<1>1. pc[s] # "idle" => s <= effects /\ ~(s > effects)
  BY SessionIsNat DEF IInv, FutureIsFresh, TypeOK
<1>2. pc \in [Session -> SessionPc]
  BY DEF IInv, TypeOK
<1>3. CASE StopExec(s) \/ SendSize(s)
  BY <1>3, QuietKeeps DEF StopExec, SendSize, sessionVars
<1>4. CASE Cleanup(s) \/ CloseChan(s)
  BY <1>1, <1>2, <1>4, QuietKeeps DEF Cleanup, CloseChan, Goto
<1>5. CASE OpenFails(s)
  BY <1>1, <1>2, <1>5, QuietKeeps DEF OpenFails, Goto
<1>6. CASE Register(s) \/ Open(s) \/ ShellEnds(s)
  BY <1>1, <1>2, <1>6, QuietKeeps DEF Register, Open, ShellEnds, Goto
<1>7. CASE Start(s)
  BY <1>1, <1>2, <1>7, QuietKeeps DEF Start, Goto
<1> QED
  BY <1>3, <1>4, <1>5, <1>6, <1>7

LEMMA TrayStep == IInv /\ TrayInv /\ [Next]_vars => TrayInv'
<1> SUFFICES ASSUME IInv, TrayInv, [Next]_vars PROVE TrayInv'
  OBVIOUS
<1>1. CASE OpenTray
  BY <1>1, RunKeeps DEF OpenTray
<1>2. CASE Reconnect
  BY <1>2, RunKeeps DEF Reconnect
<1>3. CASE CloseTray
  <2>1. /\ mounted' = NoSession
        /\ UNCHANGED <<pc, effects, component, status, events, rejected>>
    BY <1>3 DEF CloseTray, sessionVars
  <2> QED
    BY <2>1 DEF TrayInv, MountedIsOfComponent, LastIsClosed, ActiveIsFed,
                ConnectingIsFed, SomeRuns, Runs
<1>4. CASE Deliver
  BY <1>4, DeliverKeeps
<1>5. CASE TakeChannel \/ Deactivate \/ UNCHANGED vars
  BY <1>5, QuietKeeps DEF TakeChannel, Deactivate, vars, mapVars, sessionVars, callVars, Runs
<1>6. CASE \E s \in Session : Reject(s)
  BY <1>6, RejectKeeps
<1>7. CASE \E s \in Session : Stdout(s) \/ EmitClosed(s)
  BY <1>7, EmitKeeps
<1>8. CASE \E s \in Session :
             \/ Register(s) \/ OpenFails(s) \/ Open(s) \/ Start(s) \/ ShellEnds(s)
             \/ Cleanup(s) \/ CloseChan(s) \/ StopExec(s) \/ SendSize(s)
  BY <1>8, CallKeeps
<1> QED
  BY <1>1, <1>2, <1>3, <1>4, <1>5, <1>6, <1>7, <1>8 DEF Next

\* TrayInv holds in every reachable state, with any number of sessions and events.
THEOREM TrayInvariant == Spec => []TrayInv
<1>1. Init => TrayInv
  BY DEF Init, TrayInv, MountedIsOfComponent, LastIsClosed, ActiveIsFed,
         ConnectingIsFed, NoSession
<1> QED
  BY <1>1, TrayStep, SessionsInvariant, PTL DEF Spec

\* The tray never shows a terminal as live when nothing of any session is left
\* (usePodExec.ts:93-125, exec.go).
THEOREM TrayIsLive == Spec => []ShownLiveIsLive
<1>1. IInv /\ TrayInv => ShownLiveIsLive
  <2> SUFFICES ASSUME IInv, TrayInv, mounted # NoSession,
                      status \in {"connecting", "active"}
               PROVE  \/ \E s \in Session : pc[s] \in Running \union {"called", "closing"}
                      \/ ClosedAhead
                      \/ rejected # {}
    BY DEF ShownLiveIsLive, ClosedAhead
  <2>1. mounted \in Session
    <3>1. mounted \in {NoSession} \union Session
      BY DEF IInv, TypeOK
    <3> QED
      BY <3>1
  <2>2. SomeRuns => \E s \in Session : pc[s] \in Running \union {"called", "closing"}
    BY DEF SomeRuns, Runs, Running
  <2> QED
    BY <2>1, <2>2 DEF TrayInv, ActiveIsFed, ConnectingIsFed
<1> QED
  BY <1>1, SessionsInvariant, TrayInvariant, PTL

=============================================================================
