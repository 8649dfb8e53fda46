-------------------------- MODULE LogStreamsProofs --------------------------
(***************************************************************************)
(* What holds of the log streams for any number of effects and events.     *)
(*                                                                         *)
(* A stream is found under the key only while its number is the newest     *)
(* (KeyHasNewestSeq) and no two streams have one number (SeqsDiffer), so   *)
(* the cleanup of a stream that was overtaken leaves the key alone.        *)
(*                                                                         *)
(* The tray cannot be left showing a stream that is gone because the last  *)
(* event that waits is a closed one unless a stream still runs             *)
(* (LastIsClosed): a line is never the last thing the tray hears.          *)
(***************************************************************************)
EXTENDS LogStreams, SequenceTheorems, TLAPS

Registered(e) == pc[e] \in {"opening", "reading", "closing", "cleanup"}

SeqsBounded == \A e \in Effect : seq[e] <= logSeqs /\ (Registered(e) => seq[e] > 0)

SeqsDiffer == \A e, f \in Effect : e # f /\ seq[e] > 0 => seq[e] # seq[f]

KeyHasNewestSeq == logCancels # NoEffect => seq[logCancels] = logSeqs /\ logSeqs > 0

\* The inductive invariant.
IInv == TypeOK /\ SeqsBounded /\ SeqsDiffer /\ KeyHasNewestSeq /\ RunningIsStoppable

-----------------------------------------------------------------------------
LEMMA EffectIsNat == Effect \subseteq Nat \ {NoEffect}
BY LogAssumption DEF Effect, NoEffect

LEMMA InitEstablishes == Init => IInv
<1> SUFFICES ASSUME Init PROVE IInv
  OBVIOUS
<1>1. TypeOK
  BY LogAssumption DEF Init, TypeOK, StreamPc, Status, Effect, NoEffect
<1>2. SeqsBounded /\ SeqsDiffer /\ KeyHasNewestSeq /\ RunningIsStoppable
  BY DEF Init, SeqsBounded, SeqsDiffer, KeyHasNewestSeq, RunningIsStoppable, Registered
<1> QED
  BY <1>1, <1>2 DEF IInv

\* Steps that leave the key, the numbers and the cancelled streams alone, and that start no read.
LEMMA KeyUntouched ==
  ASSUME IInv, TypeOK', UNCHANGED <<logCancels, logSeqs, seq, cancelled>>,
         \A e \in Effect : (Registered(e))' => Registered(e),
         \A e \in Effect : pc'[e] \in {"opening", "reading"} => pc[e] \in {"opening", "reading"}
  PROVE  IInv'
BY DEF IInv, SeqsBounded, SeqsDiffer, KeyHasNewestSeq, RunningIsStoppable

LEMMA TrayKeeps ==
  ASSUME IInv, OpenTray \/ ToggleOption \/ CloseTray \/ Deliver
  PROVE  IInv'
<1> USE EffectIsNat DEF IInv
<1>1. CASE OpenTray
  <2>1. TypeOK'
    BY <1>1 DEF OpenTray, RunEffect, TypeOK, StreamPc, Status
  <2> QED
    BY <1>1, <2>1, KeyUntouched DEF OpenTray, RunEffect, Registered, TypeOK
<1>2. CASE ToggleOption
  <2>1. TypeOK'
    BY <1>2 DEF ToggleOption, RunEffect, TypeOK, StreamPc, Status
  <2> QED
    BY <1>2, <2>1, KeyUntouched DEF ToggleOption, RunEffect, Registered, TypeOK
<1>3. CASE CloseTray
  <2>1. TypeOK'
    BY <1>3 DEF CloseTray, TypeOK
  <2> QED
    BY <1>3, <2>1, KeyUntouched DEF CloseTray, Registered, TypeOK
<1>4. CASE Deliver
  <2>1. TypeOK'
    BY <1>4 DEF Deliver, hostVars, TypeOK, Status
  <2> QED
    BY <1>4, <2>1, KeyUntouched DEF Deliver, hostVars, Registered, TypeOK
<1> QED
  BY <1>1, <1>2, <1>3, <1>4

\* Steps of a stream that leave the key alone.
LEMMA ReadKeeps ==
  ASSUME IInv, NEW e \in Effect,
         Open(e) \/ ScanLine(e) \/ LastLine(e) \/ EmitClosed(e) \/ Reject(e)
  PROVE  IInv'
<1> USE DEF IInv, Registered
<1>1. CASE Open(e)
  <2>1. TypeOK'
    BY <1>1 DEF Open, Goto, TypeOK, StreamPc, trayVars
  <2> QED
    BY <1>1, <2>1, KeyUntouched DEF Open, Goto, TypeOK
<1>2. CASE ScanLine(e)
  <2>1. TypeOK'
    BY <1>2 DEF ScanLine, TypeOK, hostVars, trayVars
  <2> QED
    BY <1>2, <2>1, KeyUntouched DEF ScanLine, hostVars, TypeOK
<1>3. CASE LastLine(e)
  <2>1. TypeOK'
    BY <1>3 DEF LastLine, Goto, TypeOK, StreamPc, trayVars
  <2> QED
    BY <1>3, <2>1, KeyUntouched DEF LastLine, Goto, TypeOK
<1>4. CASE EmitClosed(e)
  <2>1. TypeOK'
    BY <1>4 DEF EmitClosed, Goto, TypeOK, StreamPc, trayVars
  <2> QED
    BY <1>4, <2>1, KeyUntouched DEF EmitClosed, Goto, TypeOK
<1>5. CASE Reject(e)
  <2>1. TypeOK'
    BY <1>5 DEF Reject, TypeOK, Status, hostVars
  <2> QED
    BY <1>5, <2>1, KeyUntouched DEF Reject, hostVars, TypeOK
<1> QED
  BY <1>1, <1>2, <1>3, <1>4, <1>5

\* The stream that takes the key gets a number of its own and cancels the one it replaces.
LEMMA RegisterKeeps ==
  ASSUME IInv, NEW e \in Effect, Register(e)
  PROVE  IInv'
<1> USE EffectIsNat DEF IInv
<1>1. TypeOK'
  BY DEF Register, Goto, TypeOK, StreamPc, trayVars, NoEffect
<1>2. /\ seq' = [seq EXCEPT ![e] = logSeqs + 1] /\ logSeqs' = logSeqs + 1 /\ logCancels' = e
      /\ pc' = [pc EXCEPT ![e] = "opening"]
  BY DEF Register, Goto
<1>3. SeqsBounded' /\ SeqsDiffer'
  BY <1>2 DEF SeqsBounded, SeqsDiffer, Registered, TypeOK
<1>4. KeyHasNewestSeq'
  BY <1>2 DEF KeyHasNewestSeq, TypeOK
<1>5. RunningIsStoppable'
  <2> SUFFICES ASSUME NEW f \in Effect, pc'[f] \in {"opening", "reading"}, f # e
               PROVE  f \in cancelled'
    BY <1>2 DEF RunningIsStoppable
  <2>1. f \in cancelled \/ logCancels = f
    BY <1>2 DEF RunningIsStoppable, TypeOK
  <2> QED
    BY <2>1 DEF Register
<1> QED
  BY <1>1, <1>3, <1>4, <1>5

\* A stream that leaves the key of another one alone, and one that is stopped.
LEMMA EndKeeps ==
  ASSUME IInv, NEW e \in Effect, OpenFails(e) \/ Cleanup(e) \/ StopLogs(e)
  PROVE  IInv'
<1> USE EffectIsNat DEF IInv, Registered
<1>1. CASE OpenFails(e)
  <2>1. TypeOK'
    BY <1>1 DEF OpenFails, Goto, TypeOK, StreamPc, trayVars
  <2> QED
    BY <1>1, <2>1 DEF OpenFails, Goto, TypeOK, SeqsBounded, SeqsDiffer, KeyHasNewestSeq,
                      RunningIsStoppable
<1>2. CASE Cleanup(e)
  <2>1. TypeOK'
    BY <1>2 DEF Cleanup, Goto, TypeOK, StreamPc, trayVars
  <2>2. SeqsBounded' /\ SeqsDiffer' /\ KeyHasNewestSeq'
    BY <1>2 DEF Cleanup, Goto, TypeOK, SeqsBounded, SeqsDiffer, KeyHasNewestSeq
  <2>3. RunningIsStoppable'
    <3> SUFFICES ASSUME NEW f \in Effect, pc'[f] \in {"opening", "reading"}, f \notin cancelled
                 PROVE  logCancels' = f
      BY <1>2 DEF Cleanup, RunningIsStoppable
    <3>1. pc[e] = "cleanup" /\ f # e /\ pc[f] \in {"opening", "reading"}
      BY <1>2 DEF Cleanup, Goto, TypeOK
    <3>2. logCancels = f
      BY <3>1 DEF RunningIsStoppable
    <3>3. seq[f] = logSeqs /\ seq[e] > 0
      BY <3>1, <3>2 DEF KeyHasNewestSeq, SeqsBounded
    <3>4. seq[e] # logSeqs
      BY <3>1, <3>3 DEF SeqsDiffer
    <3> QED
      BY <1>2, <3>2, <3>4 DEF Cleanup
  <2> QED
    BY <2>1, <2>2, <2>3
<1>3. CASE StopLogs(e)
  <2>1. TypeOK'
    BY <1>3 DEF StopLogs, TypeOK, trayVars, NoEffect
  <2> QED
    BY <1>3, <2>1 DEF StopLogs, TypeOK, SeqsBounded, SeqsDiffer, KeyHasNewestSeq,
                      RunningIsStoppable
<1> QED
  BY <1>1, <1>2, <1>3

LEMMA StepKeeps == IInv /\ [Next]_vars => IInv'
<1> SUFFICES ASSUME IInv, [Next]_vars PROVE IInv'
  OBVIOUS
<1>1. CASE OpenTray \/ ToggleOption \/ CloseTray \/ Deliver
  BY <1>1, TrayKeeps
<1>2. CASE \E e \in Effect : Open(e) \/ ScanLine(e) \/ LastLine(e) \/ EmitClosed(e) \/ Reject(e)
  BY <1>2, ReadKeeps
<1>3. CASE Deactivate
  <2>1. TypeOK'
    BY <1>3 DEF IInv, Deactivate, TypeOK, trayVars
  <2> QED
    BY <1>3, <2>1, KeyUntouched DEF Deactivate, Registered
<1>4. CASE \E e \in Effect : Register(e) \/ OpenFails(e) \/ Cleanup(e) \/ StopLogs(e)
  BY <1>4, RegisterKeeps, EndKeeps
<1>5. CASE UNCHANGED vars
  BY <1>5 DEF vars, hostVars, trayVars, IInv, TypeOK, SeqsBounded, SeqsDiffer, KeyHasNewestSeq,
              RunningIsStoppable, Registered
<1> QED
  BY <1>1, <1>2, <1>3, <1>4, <1>5 DEF Next

\* IInv holds in every reachable state, with any number of effects.
THEOREM StreamInvariant == Spec => []IInv
BY InitEstablishes, StepKeeps, PTL DEF Spec

\* Type correctness of the streams (logs.go, usePodLogs.ts).
THEOREM TypeCorrect == Spec => []TypeOK
<1>1. IInv => TypeOK
  BY DEF IInv
<1> QED
  BY <1>1, StreamInvariant, PTL

\* A stream that reads was cancelled or is the one under the key (logs.go:57-68).
THEOREM Stoppable == Spec => []RunningIsStoppable
<1>1. IInv => RunningIsStoppable
  BY DEF IInv
<1> QED
  BY <1>1, StreamInvariant, PTL

-----------------------------------------------------------------------------
(* The tray *)

Runs(e) == pc[e] \in {"reading", "closing"}

SomeRuns == \E e \in Effect : Runs(e)

ClosedAhead == \E i \in DOMAIN events : events[i] = "closed"

FutureIsIdle == \A e \in Effect : e > effects => pc[e] = "idle"

MountedIsOfComponent == mounted # NoEffect => component <= mounted /\ mounted <= effects

LastIsClosed == events # <<>> /\ ~SomeRuns => events[Len(events)] = "closed"

\* What a tray that shows "streaming", or "connecting", is about to hear from.
StreamingIsFed == mounted # NoEffect /\ status = "streaming" => SomeRuns \/ ClosedAhead

ConnectingIsFed ==
  mounted # NoEffect /\ status = "connecting" =>
    \/ pc[mounted] \in {"called", "opening", "reading", "closing"}
    \/ ClosedAhead
    \/ mounted \in rejected

\* The inductive invariant of the tray, over TypeOK.
TrayInv ==
  /\ FutureIsIdle /\ MountedIsOfComponent
  /\ LastIsClosed /\ StreamingIsFed /\ ConnectingIsFed

\* Steps of calls and streams that emit nothing and end no stream that runs.
LEMMA QuietKeeps ==
  ASSUME TypeOK, TrayInv, UNCHANGED <<trayVars, events>>, rejected \subseteq rejected',
         \A e \in Effect : e > effects => pc'[e] = pc[e],
         \A e \in Effect : Runs(e) => (Runs(e))',
         \A e \in Effect : pc[e] \in {"called", "opening", "reading", "closing"} =>
           pc'[e] \in {"called", "opening", "reading", "closing"} \/ e \in rejected'
  PROVE  TrayInv'
<1> USE DEF TrayInv, trayVars
<1>1. SomeRuns => SomeRuns'
  BY DEF SomeRuns
<1>2. ClosedAhead' <=> ClosedAhead
  BY DEF ClosedAhead
<1>3. FutureIsIdle' /\ MountedIsOfComponent' /\ LastIsClosed' /\ StreamingIsFed'
  BY <1>1, <1>2 DEF FutureIsIdle, MountedIsOfComponent, LastIsClosed, StreamingIsFed
<1>4. ConnectingIsFed'
  BY <1>2 DEF ConnectingIsFed, TypeOK
<1> QED
  BY <1>3, <1>4

\* The effect that is run is a new one: its call is all that changes in the host.
LEMMA RunKeeps ==
  ASSUME TypeOK, TrayInv, RunEffect(effects + 1), UNCHANGED <<events, rejected>>,
         (component' = component /\ mounted # NoEffect) \/ component' = effects + 1
  PROVE  TrayInv'
<1> USE EffectIsNat DEF TrayInv
<1> DEFINE n == effects + 1
<1>1. /\ n \in Effect /\ effects' = n /\ mounted' = n /\ status' = "connecting"
      /\ pc' = [pc EXCEPT ![n] = "called"] /\ effects \in Nat /\ component \in Nat
      /\ mounted \in Nat
  BY DEF RunEffect, TypeOK, NoEffect
<1>2. pc[n] = "idle"
  BY <1>1 DEF FutureIsIdle
<1>3. FutureIsIdle'
  BY <1>1 DEF FutureIsIdle, TypeOK
<1>4. MountedIsOfComponent'
  BY <1>1 DEF MountedIsOfComponent
<1>5. SomeRuns => SomeRuns'
  BY <1>1, <1>2 DEF SomeRuns, Runs, TypeOK
<1>6. LastIsClosed'
  BY <1>5 DEF LastIsClosed
<1>7. StreamingIsFed' /\ ConnectingIsFed'
  BY <1>1 DEF StreamingIsFed, ConnectingIsFed, TypeOK
<1> QED
  BY <1>3, <1>4, <1>6, <1>7

\* What is left after the first event ends as what there was.
LEMMA TailKeepsLast ==
  ASSUME NEW S, NEW s \in Seq(S), s # <<>>
  PROVE  /\ Tail(s) \in Seq(S)
         /\ Head(s) = s[1] /\ Len(s) \in Nat /\ Len(s) > 0
         /\ Tail(s) # <<>> => Len(s) > 1 /\ Tail(s)[Len(Tail(s))] = s[Len(s)]
         /\ Len(s) > 1 => Tail(s) # <<>> /\ Len(Tail(s)) \in DOMAIN Tail(s)
<1>1. /\ Tail(s) \in Seq(S) /\ Head(s) = s[1] /\ Len(s) \in Nat /\ Len(s) > 0
      /\ Len(Tail(s)) = Len(s) - 1 /\ DOMAIN Tail(s) = 1..(Len(s) - 1)
  OBVIOUS
<1>2. \A i \in 1..(Len(s) - 1) : Tail(s)[i] = s[i + 1]
  OBVIOUS
<1>3. Tail(s) # <<>> => Len(Tail(s)) # 0
  BY <1>1, EmptySeq
<1>4. Len(Tail(s)) # 0 => Tail(s) # <<>>
  BY EmptySeq
<1>5. Len(Tail(s)) # 0 => Len(s) > 1
  BY <1>1
<1>6. Len(s) > 1 => Len(Tail(s)) # 0
  BY <1>1
<1>7. Len(s) > 1 => /\ Len(s) - 1 \in 1..(Len(s) - 1)
                    /\ Tail(s)[Len(s) - 1] = s[(Len(s) - 1) + 1]
                    /\ (Len(s) - 1) + 1 = Len(s)
  BY <1>1, <1>2
<1> QED
  BY <1>1, <1>3, <1>4, <1>5, <1>6, <1>7

LEMMA AppendIsLast ==
  ASSUME NEW S, NEW s \in Seq(S), NEW x \in S
  PROVE  /\ Append(s, x) # <<>> /\ Len(Append(s, x)) \in DOMAIN Append(s, x)
         /\ Append(s, x)[Len(Append(s, x))] = x
         /\ \A i \in DOMAIN s : i \in DOMAIN Append(s, x) /\ Append(s, x)[i] = s[i]
OBVIOUS

\* A line that is delivered is not the last word: a stream runs or its closed event follows.
LEMMA DeliverKeeps ==
  ASSUME TypeOK, TrayInv, Deliver
  PROVE  TrayInv'
<1> USE DEF TrayInv
<1>1. /\ events \in Seq({"line", "closed"}) /\ events # <<>> /\ events' = Tail(events)
      /\ UNCHANGED <<pc, effects, mounted, component, rejected>>
      /\ mounted # NoEffect => status' = IF Head(events) = "line" THEN "streaming" ELSE "closed"
  BY DEF Deliver, hostVars, TypeOK
<1>2. FutureIsIdle' /\ MountedIsOfComponent'
  BY <1>1 DEF FutureIsIdle, MountedIsOfComponent
<1>3. SomeRuns' <=> SomeRuns
  BY <1>1 DEF SomeRuns, Runs
<1>4. LastIsClosed'
  BY <1>1, <1>3, TailKeepsLast DEF LastIsClosed
<1>5. StreamingIsFed'
  <2> SUFFICES ASSUME mounted # NoEffect, Head(events) = "line", ~SomeRuns
               PROVE  ClosedAhead'
    BY <1>1, <1>3 DEF StreamingIsFed
  <2>1. events[Len(events)] = "closed" /\ events[1] = "line" /\ Len(events) > 0
    BY <1>1, TailKeepsLast DEF LastIsClosed
  <2>2. Len(events) \in Nat
    BY <1>1
  <2>3. Len(events) > 1
    BY <2>1, <2>2
  <2> QED
    BY <1>1, <2>1, <2>3, TailKeepsLast DEF ClosedAhead
<1>6. ConnectingIsFed'
  BY <1>1 DEF ConnectingIsFed
<1> QED
  BY <1>2, <1>4, <1>5, <1>6

\* A stream that emits runs, or ends with the closed event it emits.
LEMMA EmitKeeps ==
  ASSUME TypeOK, TrayInv, NEW e \in Effect, ScanLine(e) \/ EmitClosed(e)
  PROVE  TrayInv'
<1> USE DEF TrayInv
<1> PICK x \in {"line", "closed"} :
      /\ events' = Append(events, x) /\ UNCHANGED <<trayVars, rejected>>
      /\ \/ x = "line" /\ pc' = pc /\ pc[e] = "reading"
         \/ x = "closed" /\ pc' = [pc EXCEPT ![e] = "cleanup"] /\ pc[e] = "closing"
  BY DEF ScanLine, EmitClosed, Goto, hostVars
<1>1. events \in Seq({"line", "closed"})
  BY DEF TypeOK
<1>2. x = "line" => SomeRuns'
  BY DEF SomeRuns, Runs
<1>3. ClosedAhead => ClosedAhead'
  BY <1>1, AppendIsLast DEF ClosedAhead
<1>4. x = "closed" => ClosedAhead'
  BY <1>1, AppendIsLast DEF ClosedAhead
<1>5. LastIsClosed'
  BY <1>1, <1>2, AppendIsLast DEF LastIsClosed
<1>6. StreamingIsFed'
  BY <1>2, <1>4 DEF StreamingIsFed
<1>7. FutureIsIdle' /\ MountedIsOfComponent'
  BY DEF FutureIsIdle, MountedIsOfComponent, trayVars, TypeOK
<1>8. ConnectingIsFed'
  BY <1>3, <1>4 DEF ConnectingIsFed, trayVars
<1> QED
  BY <1>5, <1>6, <1>7, <1>8

\* The error of the effect that is mounted is shown: it is no older than its component.
LEMMA RejectKeeps ==
  ASSUME TypeOK, TrayInv, NEW e \in Effect, Reject(e)
  PROVE  TrayInv'
<1> USE DEF TrayInv
<1>1. /\ UNCHANGED <<pc, effects, mounted, component, events>>
      /\ rejected' = rejected \ {e}
      /\ status' = IF mounted # NoEffect /\ e >= component THEN "error" ELSE status
  BY DEF Reject, hostVars
<1>2. SomeRuns' <=> SomeRuns
  BY <1>1 DEF SomeRuns, Runs
<1>3. ClosedAhead' <=> ClosedAhead
  BY <1>1 DEF ClosedAhead
<1>4. FutureIsIdle' /\ MountedIsOfComponent' /\ LastIsClosed' /\ StreamingIsFed'
  BY <1>1, <1>2, <1>3 DEF FutureIsIdle, MountedIsOfComponent, LastIsClosed, StreamingIsFed
<1>5. mounted # NoEffect /\ status' = "connecting" => e # mounted
  BY <1>1, EffectIsNat DEF MountedIsOfComponent, TypeOK
<1>6. ConnectingIsFed'
  BY <1>1, <1>3, <1>5 DEF ConnectingIsFed
<1> QED
  BY <1>4, <1>6

\* The steps of calls and streams that emit nothing.
LEMMA CallKeeps ==
  ASSUME TypeOK, TrayInv, NEW e \in Effect,
         Register(e) \/ OpenFails(e) \/ Open(e) \/ LastLine(e) \/ Cleanup(e) \/ StopLogs(e)
  PROVE  TrayInv'
<1>1. pc[e] # "idle" => e <= effects
  BY EffectIsNat DEF TrayInv, FutureIsIdle, TypeOK
<1>2. CASE StopLogs(e)
  BY <1>2, QuietKeeps DEF StopLogs, Runs
<1>3. CASE Cleanup(e)
  BY <1>1, <1>3, EffectIsNat, QuietKeeps DEF Cleanup, Goto, Runs, TypeOK
<1>4. CASE OpenFails(e)
  BY <1>1, <1>4, EffectIsNat, QuietKeeps DEF OpenFails, Goto, Runs, TypeOK
<1>5. CASE Register(e)
  BY <1>1, <1>5, EffectIsNat, QuietKeeps DEF Register, Goto, Runs, TypeOK
<1>6. CASE Open(e) \/ LastLine(e)
  BY <1>1, <1>6, EffectIsNat, QuietKeeps DEF Open, LastLine, Goto, Runs, TypeOK
<1> QED
  BY <1>2, <1>3, <1>4, <1>5, <1>6

LEMMA TrayStep == TypeOK /\ TrayInv /\ [Next]_vars => TrayInv'
<1> SUFFICES ASSUME TypeOK, TrayInv, [Next]_vars PROVE TrayInv'
  OBVIOUS
<1>1. CASE OpenTray
  BY <1>1, RunKeeps DEF OpenTray
<1>2. CASE ToggleOption
  BY <1>2, RunKeeps DEF ToggleOption
<1>3. CASE CloseTray
  <2>1. /\ mounted' = NoEffect
        /\ UNCHANGED <<pc, effects, component, status, events, rejected>>
    BY <1>3 DEF CloseTray
  <2> QED
    BY <2>1 DEF TrayInv, FutureIsIdle, MountedIsOfComponent, LastIsClosed, StreamingIsFed,
                ConnectingIsFed, SomeRuns, Runs
<1>4. CASE Deliver
  BY <1>4, DeliverKeeps
<1>5. CASE Deactivate \/ UNCHANGED vars
  BY <1>5, QuietKeeps DEF Deactivate, vars, hostVars, Runs
<1>6. CASE \E e \in Effect : Reject(e)
  BY <1>6, RejectKeeps
<1>7. CASE \E e \in Effect : ScanLine(e) \/ EmitClosed(e)
  BY <1>7, EmitKeeps
<1>8. CASE \E e \in Effect : Register(e) \/ OpenFails(e) \/ Open(e) \/ LastLine(e)
                             \/ Cleanup(e) \/ StopLogs(e)
  BY <1>8, CallKeeps
<1> QED
  BY <1>1, <1>2, <1>3, <1>4, <1>5, <1>6, <1>7, <1>8 DEF Next

\* TrayInv holds in every reachable state, with any number of effects and lines.
THEOREM TrayInvariant == Spec => []TrayInv
<1>1. Init => TrayInv
  BY DEF Init, TrayInv, FutureIsIdle, MountedIsOfComponent, LastIsClosed, StreamingIsFed,
         ConnectingIsFed, NoEffect
<1> QED
  BY <1>1, TrayStep, TypeCorrect, PTL DEF Spec

\* The tray never shows a stream as live when nothing is left of any (usePodLogs.ts:152-182,
\* logs.go:52-81).
THEOREM TrayIsLive == Spec => []ShownLiveIsLive
<1>1. TypeOK /\ TrayInv => ShownLiveIsLive
  <2> SUFFICES ASSUME TypeOK, TrayInv, mounted # NoEffect,
                      status \in {"connecting", "streaming"}
               PROVE  \/ \E e \in Effect : pc[e] \in {"called", "opening", "reading", "closing"}
                      \/ ClosedAhead
                      \/ rejected # {}
    BY DEF ShownLiveIsLive, ClosedAhead
  <2>1. mounted \in Effect
    BY DEF TypeOK
  <2>2. SomeRuns => \E e \in Effect : pc[e] \in {"called", "opening", "reading", "closing"}
    BY DEF SomeRuns, Runs
  <2> QED
    BY <2>1, <2>2 DEF TrayInv, StreamingIsFed, ConnectingIsFed
<1> QED
  BY <1>1, TypeCorrect, TrayInvariant, PTL

=============================================================================
