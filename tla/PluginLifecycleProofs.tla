------------------------- MODULE PluginLifecycleProofs -------------------------
(***************************************************************************)
(* What holds of a plugin for any number of operations, loaders, processes *)
(* and restarts of the host.                                               *)
(*                                                                         *)
(* ThreadInv: "handshake" is only ever the next step of a thread, and      *)
(* launchMu is held by exactly the threads that are at it.  ProcessInv: a  *)
(* process a loader knows was started, and by that loader; this is why     *)
(* neither the lock file nor a relaunch can confuse two processes.         *)
(* OrderlyInv: until a loader is used beside or after its removal, the     *)
(* registered one is the only one in use and the lock file names what it   *)
(* runs; RemovalInv and OwnInv say what a removal and a new loader meet.   *)
(* CourseInv: there is one installation at a time, and what it has left is *)
(* the rest of its plan or of its undoing.  FilesInv: which release each   *)
(* part and its backup are of, by the step the installation is at; this is *)
(* why a host that dies there restores all of one release.                 *)
(***************************************************************************)
EXTENDS PluginLifecycle, SequenceTheorems, TLAPS

StepName ==
  {"launch", "handshake", "shutdown", "installing", "save binary", "save dist", "save metadata",
   "write binary", "write dist", "write metadata", "undo binary", "undo dist", "undo metadata",
   "ready", "finish", "removeFiles", "forget", "disable", "disabled", "enable", "find", "dial"}

\* Steps none of which, or only the first of which, is a handshake.
Harmless(s) == s \in Seq(StepName) /\ \A i \in 1..Len(s) : s[i] # "handshake"
Plan(s) == s \in Seq(StepName) /\ \A i \in 2..Len(s) : s[i] # "handshake"

\* What an operation without a loader does: RemovePlugin of what is on disk.
WithoutLoader == {<<>>, <<"removeFiles", "forget">>, <<"forget">>}

ThreadTypeOK ==
  /\ todo \in [Thread -> Seq(StepName)] /\ on \in [Thread -> Loader \union {0}]
  /\ launchMu \in [Loader -> Thread \union {0}]

HandshakeHolds == \A t \in Thread : At(t, "handshake") => launchMu[on[t]] = t

ThreadInv ==
  /\ ThreadTypeOK
  /\ \A t \in Thread : Plan(todo[t])
  /\ \A t \in Thread : on[t] = 0 => todo[t] \in WithoutLoader
  /\ HandshakeHolds /\ HolderAwaitsHandshake

-----------------------------------------------------------------------------
LEMMA Numbers ==
  /\ Thread \subseteq Nat \ {0} /\ Loader \subseteq Nat \ {0} /\ Proc \subseteq Nat \ {0}
  /\ 0 \notin Thread /\ 0 \notin Loader /\ 0 \notin Proc
BY PluginAssumption DEF Thread, Loader, Proc

LEMMA TailHarmless ==
  ASSUME NEW s, Plan(s), s # <<>>
  PROVE  Harmless(Tail(s))
BY DEF Plan, Harmless

LEMMA HarmlessIsPlan ==
  ASSUME NEW s, Harmless(s)
  PROVE  Plan(s) /\ (s # <<>> => Head(s) # "handshake")
BY DEF Plan, Harmless

LEMMA HandshakePut ==
  ASSUME NEW s \in Seq(StepName)
  PROVE  \E h \in Seq(StepName) :
           /\ h = <<"handshake">> \o s /\ Len(s) \in Nat /\ Len(h) = Len(s) + 1
           /\ h[1] = "handshake" /\ \A i \in 2..Len(h) : h[i] = s[i - 1]
<1> DEFINE f == <<"handshake">>
<1> DEFINE g == f \o s
<1>1. f \in Seq(StepName) /\ Len(f) = 1 /\ f[1] = "handshake"
  <2>1. "handshake" \in StepName
    BY DEF StepName
  <2> QED
    BY <2>1
<1> HIDE DEF f
<1>2. g \in Seq(StepName) /\ Len(g) = Len(f) + Len(s)
      /\ \A i \in 1..Len(f) + Len(s) : g[i] = IF i <= Len(f) THEN f[i] ELSE s[i - Len(f)]
  BY <1>1, ConcatProperties
<1>3. Len(s) \in Nat
  OBVIOUS
<1> HIDE DEF g
<1>4. g[1] = "handshake" /\ \A i \in 2..Len(g) : g[i] = s[i - 1]
  BY <1>1, <1>2, <1>3
<1>5. g = <<"handshake">> \o s
  BY DEF g, f
<1>6. g \in Seq(StepName) /\ Len(g) = Len(s) + 1
  BY <1>1, <1>2, <1>3
<1> QED
  BY <1>3, <1>4, <1>5, <1>6, Zenon

LEMMA HandshakeFirst ==
  ASSUME NEW s, Harmless(s)
  PROVE  /\ Plan(<<"handshake">> \o s) /\ <<"handshake">> \o s # <<>>
         /\ Head(<<"handshake">> \o s) = "handshake"
<1>1. PICK h \in Seq(StepName) :
        /\ h = <<"handshake">> \o s /\ Len(s) \in Nat /\ Len(h) = Len(s) + 1
        /\ h[1] = "handshake" /\ \A i \in 2..Len(h) : h[i] = s[i - 1]
  BY HandshakePut DEF Harmless
<1>2. \A i \in 2..Len(h) : i - 1 \in 1..Len(s)
  BY <1>1
<1>3. Plan(h)
  BY <1>1, <1>2 DEF Plan, Harmless
<1>4. h # <<>> /\ Head(h) = "handshake"
  BY <1>1
<1> QED
  BY <1>1, <1>3, <1>4

LEMMA TailWithoutLoader ==
  ASSUME NEW s \in WithoutLoader, s # <<>>
  PROVE  /\ Tail(s) \in WithoutLoader
         /\ Head(s) \in {"removeFiles", "forget"}
<1>1. CASE s = <<"removeFiles", "forget">>
  <2>1. Tail(s) = <<"forget">> /\ Head(s) = "removeFiles"
    BY <1>1
  <2> QED
    BY <2>1 DEF WithoutLoader
<1>2. CASE s = <<"forget">>
  <2>1. Tail(s) = <<>> /\ Head(s) = "forget"
    BY <1>2
  <2> QED
    BY <2>1 DEF WithoutLoader
<1> QED
  BY <1>1, <1>2 DEF WithoutLoader

\* A thread at any step but the last two of RemovePlugin works with a loader.
LEMMA HasLoader ==
  ASSUME ThreadInv, NEW t \in Thread, ~Idle(t), ~At(t, "removeFiles"), ~At(t, "forget")
  PROVE  on[t] \in Loader
BY TailWithoutLoader DEF ThreadInv, ThreadTypeOK, Idle, At

\* A thread goes on without a handshake.
LEMMA GoKeeps ==
  ASSUME ThreadInv, NEW t \in Thread, ~Idle(t), ~At(t, "handshake"), UNCHANGED launchMu,
         NEW s, Harmless(s), Go(t, s), on[t] = 0 => s \in WithoutLoader
  PROVE  ThreadInv'
<1> USE Numbers, HarmlessIsPlan DEF ThreadInv
<1>1. todo' = [todo EXCEPT ![t] = s] /\ on' = (IF s = <<>> THEN [on EXCEPT ![t] = 0] ELSE on)
  BY DEF Go
<1>2. ThreadTypeOK'
  BY <1>1 DEF ThreadTypeOK, Harmless
<1>3. \A u \in Thread : Plan(todo'[u]) /\ (on'[u] = 0 => todo'[u] \in WithoutLoader)
  BY <1>1 DEF ThreadTypeOK, WithoutLoader
<1>4. HandshakeHolds'
  BY <1>1 DEF ThreadTypeOK, HandshakeHolds, At, Idle
<1>5. HolderAwaitsHandshake'
  BY <1>1 DEF ThreadTypeOK, HolderAwaitsHandshake, At, Idle
<1> QED
  BY <1>2, <1>3, <1>4, <1>5

LEMMA ContinueKeeps ==
  ASSUME ThreadInv, NEW t \in Thread, ~Idle(t), ~At(t, "handshake"), UNCHANGED launchMu,
         Continue(t)
  PROVE  ThreadInv'
<1>1. Harmless(Tail(todo[t]))
  BY TailHarmless DEF ThreadInv, Idle
<1>2. on[t] = 0 => Tail(todo[t]) \in WithoutLoader
  BY TailWithoutLoader DEF ThreadInv, Idle
<1> QED
  BY <1>1, <1>2, GoKeeps DEF Continue

LEMMA BeginKeeps ==
  ASSUME ThreadInv, NEW t \in Thread, NEW l \in Loader \union {0}, NEW s,
         Begin(t, l, s), Harmless(s), l = 0 => s \in WithoutLoader, UNCHANGED launchMu
  PROVE  ThreadInv'
<1> USE Numbers, HarmlessIsPlan DEF ThreadInv
<1>1. todo' = [todo EXCEPT ![t] = s] /\ on' = [on EXCEPT ![t] = l] /\ Idle(t)
  BY DEF Begin
<1>2. ThreadTypeOK'
  BY <1>1 DEF ThreadTypeOK, Harmless
<1>3. \A u \in Thread : Plan(todo'[u]) /\ (on'[u] = 0 => todo'[u] \in WithoutLoader)
  BY <1>1 DEF ThreadTypeOK
<1>4. HandshakeHolds'
  BY <1>1 DEF ThreadTypeOK, HandshakeHolds, At, Idle
<1>5. HolderAwaitsHandshake'
  BY <1>1 DEF ThreadTypeOK, HolderAwaitsHandshake, At, Idle
<1> QED
  BY <1>2, <1>3, <1>4, <1>5

\* The plans of the operations hold no handshake.
LEMMA PlansHarmless ==
  /\ Harmless(<<>>) /\ Harmless(<<"finish">>) /\ Harmless(Undo) /\ Harmless(<<"find", "dial">>)
  /\ Harmless(Install)
  /\ Harmless(<<"shutdown", "removeFiles", "forget">>) /\ Harmless(<<"removeFiles", "forget">>)
  /\ Harmless(<<"shutdown", "disable", "disabled">>) /\ Harmless(<<"disable", "disabled">>)
  /\ Harmless(<<"enable", "ready", "launch">>) /\ Harmless(<<"launch">>) /\ Harmless(<<"dial">>)
  /\ Harmless(<<"launch", "dial">>) /\ Harmless(<<"shutdown", "launch">>)
<1> USE DEF Harmless, StepName
<1>1. Harmless(<<>>)
  OBVIOUS
<1>2. Harmless(<<"finish">>)
  OBVIOUS
<1>3. Harmless(Undo)
  <2>1. Undo \in Seq(StepName) /\ Len(Undo) = 3
    BY DEF Undo
  <2>2. Undo[1] # "handshake" /\ Undo[2] # "handshake" /\ Undo[3] # "handshake"
    BY DEF Undo
  <2>3. \A i \in 1..3 : i = 1 \/ i = 2 \/ i = 3
    OBVIOUS
  <2>4. \A i \in 1..3 : Undo[i] # "handshake"
    BY ONLY <2>2, <2>3
  <2> QED
    BY <2>1, <2>4
<1>4. Harmless(<<"find", "dial">>)
  OBVIOUS
<1>5. Harmless(Install)
  <2>1. Install \in Seq(StepName) /\ Len(Install) = 10
    BY DEF Install
  <2>2. /\ Install[1] # "handshake" /\ Install[2] # "handshake" /\ Install[3] # "handshake"
        /\ Install[4] # "handshake" /\ Install[5] # "handshake" /\ Install[6] # "handshake"
        /\ Install[7] # "handshake" /\ Install[8] # "handshake" /\ Install[9] # "handshake"
        /\ Install[10] # "handshake"
    BY DEF Install
  <2>3. \A i \in 1..10 : i = 1 \/ i = 2 \/ i = 3 \/ i = 4 \/ i = 5 \/ i = 6 \/ i = 7
                          \/ i = 8 \/ i = 9 \/ i = 10
    OBVIOUS
  <2>4. \A i \in 1..10 : Install[i] # "handshake"
    BY ONLY <2>2, <2>3
  <2> QED
    BY <2>1, <2>4
<1>6. Harmless(<<"shutdown", "removeFiles", "forget">>)
  OBVIOUS
<1>7. Harmless(<<"removeFiles", "forget">>)
  OBVIOUS
<1>8. Harmless(<<"shutdown", "disable", "disabled">>)
  OBVIOUS
<1>9. Harmless(<<"disable", "disabled">>)
  OBVIOUS
<1>10. Harmless(<<"enable", "ready", "launch">>)
  OBVIOUS
<1>11. Harmless(<<"launch">>)
  OBVIOUS
<1>12. Harmless(<<"dial">>)
  OBVIOUS
<1>13. Harmless(<<"launch", "dial">>)
  OBVIOUS
<1>14. Harmless(<<"shutdown", "launch">>)
  OBVIOUS
<1> QED
  BY ONLY <1>1, <1>2, <1>3, <1>4, <1>5, <1>6, <1>7, <1>8, <1>9, <1>10, <1>11, <1>12, <1>13, <1>14

-----------------------------------------------------------------------------
\* Threads and launchMu.

LEMMA InitThreads == Init => ThreadInv
<1> SUFFICES ASSUME Init PROVE ThreadInv
  OBVIOUS
<1> USE Numbers, HarmlessIsPlan, PlansHarmless
<1>1. todo = [t \in Thread |-> <<>>] /\ on = [t \in Thread |-> 0]
      /\ launchMu = [l \in Loader |-> 0]
  BY DEF Init
<1>2. ThreadTypeOK
  BY <1>1 DEF ThreadTypeOK
<1>3. \A t \in Thread : Plan(todo[t]) /\ Idle(t) /\ todo[t] \in WithoutLoader
  BY <1>1 DEF Idle, WithoutLoader
<1> QED
  BY <1>1, <1>2, <1>3 DEF ThreadInv, HandshakeHolds, HolderAwaitsHandshake, At

LEMMA RestartThreads ==
  ASSUME Restart
  PROVE  ThreadInv'
<1> USE Numbers, HarmlessIsPlan, PlansHarmless
<1>1. todo' = [t \in Thread |-> <<>>] /\ on' = [t \in Thread |-> 0]
      /\ launchMu' = [l \in Loader |-> 0]
  BY DEF Restart
<1>2. ThreadTypeOK'
  BY <1>1 DEF ThreadTypeOK
<1>3. \A t \in Thread : Plan(todo'[t]) /\ Idle(t)' /\ todo'[t] \in WithoutLoader
  BY <1>1 DEF Idle, WithoutLoader
<1> QED
  BY <1>1, <1>2, <1>3 DEF ThreadInv, HandshakeHolds, HolderAwaitsHandshake, At

LEMMA SpawnThreads ==
  ASSUME ThreadInv, NEW t \in Thread, Spawn(t)
  PROVE  ThreadInv'
<1> USE Numbers DEF ThreadInv
<1> DEFINE l == on[t]
<1> DEFINE s == <<"handshake">> \o Tail(todo[t])
<1>1. l \in Loader /\ launchMu[l] = 0
  BY HasLoader DEF Spawn, At
<1>2. Plan(s) /\ s # <<>> /\ Head(s) = "handshake"
  BY TailHarmless, HandshakeFirst DEF Spawn, At, Idle
<1>3. Go(t, s) /\ launchMu' = [launchMu EXCEPT ![l] = t] /\ ~Idle(t) /\ ~At(t, "handshake")
  BY DEF Spawn, At
<1> HIDE DEF s, l
<1>4. todo' = [todo EXCEPT ![t] = s] /\ on' = on
  BY <1>2, <1>3 DEF Go
<1>5. ThreadTypeOK'
  BY <1>1, <1>2, <1>3, <1>4 DEF ThreadTypeOK, Plan
<1>6. \A u \in Thread : Plan(todo'[u]) /\ (on'[u] = 0 => todo'[u] \in WithoutLoader)
  BY <1>1, <1>2, <1>4 DEF ThreadTypeOK, l
<1>7. At(t, "handshake")'
  BY <1>2, <1>4 DEF ThreadTypeOK, At, Idle
<1>8. HandshakeHolds'
  <2> SUFFICES ASSUME NEW u \in Thread, At(u, "handshake")' PROVE launchMu'[on'[u]] = u
    BY DEF HandshakeHolds
  <2>1. CASE u = t
    BY <1>1, <1>3, <1>4, <2>1 DEF ThreadTypeOK, l
  <2>2. CASE u # t
    <3>1. At(u, "handshake")
      BY <1>4, <2>2 DEF ThreadTypeOK, At, Idle
    <3>2. launchMu[on[u]] = u /\ on[u] # l
      BY <1>1, <3>1 DEF HandshakeHolds
    <3> QED
      BY <1>3, <1>4, <3>2 DEF ThreadTypeOK
  <2> QED
    BY <2>1, <2>2
<1>9. HolderAwaitsHandshake'
  <2> SUFFICES ASSUME NEW m \in Loader, launchMu'[m] # 0
               PROVE  At(launchMu[m], "handshake")' /\ on'[launchMu'[m]] = m
    BY DEF HolderAwaitsHandshake
  <2>1. CASE m = l
    BY <1>1, <1>3, <1>4, <1>7, <2>1 DEF ThreadTypeOK, l
  <2>2. CASE m # l
    <3>1. launchMu'[m] = launchMu[m] /\ launchMu[m] \in Thread /\ At(launchMu[m], "handshake")
          /\ on[launchMu[m]] = m
      BY <1>3, <2>2 DEF ThreadTypeOK, HolderAwaitsHandshake
    <3>2. launchMu[m] # t
      BY <1>3, <3>1
    <3> QED
      BY <1>4, <3>1, <3>2 DEF ThreadTypeOK, At, Idle
  <2> QED
    BY <2>1, <2>2
<1> QED
  BY <1>5, <1>6, <1>8, <1>9

\* The handshake is over, and launchMu is released.
LEMMA HandshakeThreads ==
  ASSUME ThreadInv, NEW t \in Thread, At(t, "handshake"), NEW s, Harmless(s), Go(t, s),
         launchMu' = [launchMu EXCEPT ![on[t]] = 0]
  PROVE  ThreadInv'
<1> USE Numbers, HarmlessIsPlan DEF ThreadInv
<1>1. todo' = [todo EXCEPT ![t] = s] /\ on' = (IF s = <<>> THEN [on EXCEPT ![t] = 0] ELSE on)
  BY DEF Go
<1>2. on[t] \in Loader /\ launchMu[on[t]] = t
  BY HasLoader DEF At, HandshakeHolds
<1>3. ThreadTypeOK'
  BY <1>1, <1>2 DEF ThreadTypeOK, Harmless
<1>4. \A u \in Thread : Plan(todo'[u]) /\ (on'[u] = 0 => todo'[u] \in WithoutLoader)
  BY <1>1, <1>2 DEF ThreadTypeOK, WithoutLoader
<1>5. HandshakeHolds'
  <2> SUFFICES ASSUME NEW u \in Thread, At(u, "handshake")' PROVE launchMu'[on'[u]] = u
    BY DEF HandshakeHolds
  <2>1. u # t
    BY <1>1 DEF ThreadTypeOK, At, Idle
  <2>2. At(u, "handshake") /\ on'[u] = on[u]
    BY <1>1, <2>1 DEF ThreadTypeOK, At, Idle
  <2>3. launchMu[on[u]] = u /\ on[u] # on[t]
    BY <1>2, <2>1, <2>2 DEF HandshakeHolds
  <2> QED
    BY <2>2, <2>3, HasLoader DEF ThreadTypeOK, At
<1>6. HolderAwaitsHandshake'
  <2> SUFFICES ASSUME NEW m \in Loader, launchMu'[m] # 0
               PROVE  At(launchMu[m], "handshake")' /\ on'[launchMu'[m]] = m
    BY DEF HolderAwaitsHandshake
  <2>1. m # on[t] /\ launchMu'[m] = launchMu[m] /\ launchMu[m] \in Thread
    BY <1>2 DEF ThreadTypeOK
  <2>2. At(launchMu[m], "handshake") /\ on[launchMu[m]] = m /\ launchMu[m] # t
    BY <2>1 DEF HolderAwaitsHandshake
  <2> QED
    BY <1>1, <2>1, <2>2 DEF ThreadTypeOK, At, Idle
<1> QED
  BY <1>3, <1>4, <1>5, <1>6

LEMMA PartNames ==
  /\ Saving["binary"] = "save binary" /\ Saving["dist"] = "save dist"
  /\ Saving["metadata"] = "save metadata"
  /\ Writing["binary"] = "write binary" /\ Writing["dist"] = "write dist"
  /\ Writing["metadata"] = "write metadata"
  /\ Undoing["binary"] = "undo binary" /\ Undoing["dist"] = "undo dist"
  /\ Undoing["metadata"] = "undo metadata"
BY DEF Saving, Writing, Undoing

LEMMA PartSteps ==
  \A x \in Part : /\ Saving[x] \notin {"handshake", "shutdown", "removeFiles", "forget"}
                 /\ Writing[x] \notin {"handshake", "shutdown", "removeFiles", "forget"}
                 /\ Undoing[x] \notin {"handshake", "shutdown", "removeFiles", "forget"}
BY PartNames DEF Part

\* A thread that works with a loader takes another course.
LEMMA CourseKeeps ==
  ASSUME ThreadInv, NEW t \in Thread, NEW e, At(t, e),
         e \notin {"handshake", "removeFiles", "forget"}, UNCHANGED launchMu,
         NEW s, Harmless(s), Go(t, s)
  PROVE  ThreadInv'
<1>1. ~Idle(t) /\ ~At(t, "handshake") /\ ~At(t, "removeFiles") /\ ~At(t, "forget")
  BY DEF At
<1>2. on[t] # 0
  BY <1>1, HasLoader, Numbers
<1> QED
  BY <1>1, <1>2, GoKeeps

LEMMA StepThreads ==
  ASSUME ThreadInv, NEW t \in Thread, Step(t)
  PROVE  ThreadInv'
<1> USE PlansHarmless, PartSteps
<1>1. AfterFailure(t) \in {<<>>, <<"finish">>} /\ Harmless(AfterFailure(t))
  BY DEF AfterFailure
<1>2. CASE Reuse(t) \/ Shutdown(t)
  BY <1>2, ContinueKeeps DEF Reuse, Shutdown, At
<1>3. CASE CannotStart(t)
  BY <1>1, <1>3, CourseKeeps DEF CannotStart
<1>4. CASE Spawn(t)
  BY <1>4, SpawnThreads
<1>5. CASE Handshake(t)
  <2>1. Harmless(Tail(todo[t]))
    BY <1>5, TailHarmless DEF Handshake, At, Idle, ThreadInv
  <2> QED
    BY <1>5, <2>1, HandshakeThreads DEF Handshake, Continue
<1>6. CASE HandshakeFails(t)
  BY <1>1, <1>6, HandshakeThreads DEF HandshakeFails
<1>7. ASSUME NEW e \in {"installing", "ready", "disabled"}, NEW v, Mark(t, e, v) PROVE ThreadInv'
  BY <1>7, ContinueKeeps DEF Mark, At
<1>8. ASSUME NEW x \in Part, Save(t, x) PROVE ThreadInv'
  <2>1. At(t, Saving[x]) /\ UNCHANGED launchMu /\ (Continue(t) \/ Go(t, <<>>))
    BY <1>8 DEF Save, GiveUp
  <2> QED
    BY <2>1, ContinueKeeps, CourseKeeps DEF At
<1>9. ASSUME NEW x \in Part, Write(t, x) PROVE ThreadInv'
  <2>1. At(t, Writing[x]) /\ UNCHANGED launchMu /\ (Continue(t) \/ Go(t, Undo))
    BY <1>9 DEF Write, GiveUp
  <2> QED
    BY <2>1, ContinueKeeps, CourseKeeps DEF At
<1>10. ASSUME NEW x \in Part, PutBack(t, x) PROVE ThreadInv'
  <2>1. At(t, Undoing[x]) /\ UNCHANGED launchMu /\ (Continue(t) \/ Go(t, <<>>))
    BY <1>10 DEF PutBack, loaderVars
  <2> QED
    BY <2>1, ContinueKeeps, CourseKeeps DEF At
<1>11. CASE Finish(t) \/ RemoveFiles(t) \/ Forget(t) \/ SaveSetting(t)
  BY <1>11, ContinueKeeps DEF Finish, RemoveFiles, Forget, SaveSetting, At, loaderVars
<1>12. CASE Find(t)
  BY <1>12, CourseKeeps DEF Find, loaderVars
<1>13. CASE Dial(t)
  BY <1>13, CourseKeeps DEF Dial, loaderVars
<1> QED
  BY <1>2, <1>3, <1>4, <1>5, <1>6, <1>7, <1>8, <1>9, <1>10, <1>11, <1>12, <1>13
     DEF Step, LoaderStep, InstallStep, SettingStep

LEMMA BeginsThreads ==
  ASSUME ThreadInv, registered \in Loader \union {0}, made \in Loader \union {0},
         NEW t \in Thread, Begins(t)
  PROVE  ThreadInv'
<1> USE PlansHarmless, Numbers
<1>1. CASE BeginInstall(t)
  <2>1. registered' \in Loader
    <3>1. CASE registered # 0
      BY <1>1, <3>1 DEF BeginInstall
    <3>2. CASE registered = 0
      BY <1>1, <3>2, PluginAssumption DEF BeginInstall, Loader
    <3> QED
      BY <3>1, <3>2
  <2> QED
    BY <1>1, <2>1, BeginKeeps DEF BeginInstall, loaderVars
<1>2. CASE BeginRemove(t)
  <2> DEFINE s == IF registered # 0 THEN <<"shutdown", "removeFiles", "forget">>
                                    ELSE <<"removeFiles", "forget">>
  <2>1. Harmless(s) /\ (registered = 0 => s \in WithoutLoader)
    BY DEF WithoutLoader
  <2>2. Begin(t, registered, s) /\ UNCHANGED launchMu
    BY <1>2 DEF BeginRemove, loaderVars
  <2> HIDE DEF s
  <2> QED
    BY <2>1, <2>2, BeginKeeps
<1>3. CASE BeginDisable(t)
  <2> DEFINE s == IF IsAlive(registered) THEN <<"shutdown", "disable", "disabled">>
                                         ELSE <<"disable", "disabled">>
  <2>1. Harmless(s) /\ registered # 0 /\ Begin(t, registered, s) /\ UNCHANGED launchMu
    BY <1>3 DEF BeginDisable, loaderVars
  <2> HIDE DEF s
  <2> QED
    BY <2>1, BeginKeeps
<1>4. CASE BeginEnable(t)
  BY <1>4, BeginKeeps DEF BeginEnable, loaderVars
<1>5. CASE BeginGetAddr(t)
  BY <1>5, BeginKeeps DEF BeginGetAddr, loaderVars
<1>6. CASE BeginWarm(t)
  BY <1>6, BeginKeeps DEF BeginWarm, loaderVars
<1> QED
  BY <1>1, <1>2, <1>3, <1>4, <1>5, <1>6 DEF Begins

LEMMA NextThreads ==
  ASSUME ThreadInv, registered \in Loader \union {0}, made \in Loader \union {0}, [Next]_vars
  PROVE  ThreadInv'
<1>1. CASE (\E p \in Proc : ProcessFails(p)) \/ UNCHANGED vars
  <2>1. UNCHANGED <<todo, on, launchMu>>
    BY <1>1 DEF ProcessFails, vars, loaderVars, threadVars
  <2> QED
    BY <2>1 DEF ThreadInv, ThreadTypeOK, HandshakeHolds, HolderAwaitsHandshake, At, Idle
<1>2. CASE Crash \/ Quit
  BY <1>2, RestartThreads DEF Crash, Quit
<1> QED
  BY <1>1, <1>2, StepThreads, BeginsThreads DEF Next

-----------------------------------------------------------------------------
(* Types *)

ProcState == {"none", "starting", "up", "zombie", "gone"}

TypeInv == TypeOK /\ installs \in 0..MaxInstalls

\* What loader l, or the holder of a token, takes for its own is a process it has started.
Started(l, p) == p # 0 => owner[p] = l /\ proc[p] # "none"

ProcessInv ==
  /\ \A l \in Loader : Started(l, cmd[l]) /\ Started(l, pid[l])
  /\ \A l \in Loader : launchMu[l] # 0 => cmd[l] # 0
  /\ \A p \in tokens : owner[p] \in Loader /\ cmd[owner[p]] = p

\* No process that was started is taken for one that was not.
LEMMA KillType ==
  ASSUME TypeOK, NEW p \in Proc \union {0}
  PROVE  /\ Kill(p) \in [Proc -> ProcState]
         /\ \A q \in Proc : proc[q] # "none" => Kill(p)[q] # "none"
<1>1. Killed(p) \in {"zombie", "gone"}
  BY DEF Killed
<1> QED
  BY <1>1, Numbers DEF Kill, Running, TypeOK, ProcState

LEMMA ShutDownType ==
  ASSUME TypeOK, NEW l \in Loader
  PROVE  /\ ShutDown(l) \in [Proc -> ProcState]
         /\ \A q \in Proc : proc[q] # "none" => ShutDown(l)[q] # "none"
BY Numbers DEF ShutDown, TypeOK, ProcState

LEMMA LeftType ==
  ASSUME NEW procs \in [Proc -> ProcState]
  PROVE  Left(procs) \in [Proc -> ProcState]
BY DEF Left, ProcState

\* What is known stays known while processes only end.
LEMMA StaysStarted ==
  ASSUME TypeOK, ProcessInv, NEW P \in [Proc -> ProcState], proc' = P,
         \A q \in Proc : proc[q] # "none" => P[q] # "none",
         UNCHANGED <<cmd, pid, owner, tokens>>, launchMu' \in [Loader -> Thread \union {0}],
         \A l \in Loader : launchMu'[l] # 0 => launchMu[l] # 0
  PROVE  ProcessInv'
<1>1. ASSUME NEW l \in Loader, NEW p \in Proc \union {0}, Started(l, p) PROVE Started(l, p)'
  BY <1>1 DEF Started
<1>2. \A l \in Loader : cmd[l] \in Proc \union {0} /\ pid[l] \in Proc \union {0}
  BY DEF TypeOK
<1>3. \A l \in Loader : Started(l, cmd[l])' /\ Started(l, pid[l])'
  <2> TAKE l \in Loader
  <2>1. Started(l, cmd[l])'
    BY <1>1, <1>2 DEF ProcessInv, Started
  <2>2. Started(l, pid[l])'
    BY <1>1, <1>2 DEF ProcessInv, Started
  <2> QED
    BY <2>1, <2>2
<1> QED
  BY <1>3 DEF ProcessInv

LEMMA InitTypes == Init => TypeInv
<1> SUFFICES ASSUME Init PROVE TypeInv
  OBVIOUS
<1> USE PluginAssumption, Numbers
<1>1. 1 \in Loader /\ 0 \in Release /\ 1 \in Release /\ 0 \in 0..MaxInstalls
  BY DEF Loader, Release
<1>2. {files, backup} \subseteq [Part -> Release]
  BY <1>1 DEF Init
<1>3. {registered, made, base} \subseteq Loader \union {0}
  BY <1>1 DEF Init
<1> QED
  BY <1>1, <1>2, <1>3 DEF Init, TypeInv, TypeOK

LEMMA InitProcesses == Init => ProcessInv
BY Numbers DEF Init, ProcessInv, Started

LEMMA LoaderStepTypes ==
  ASSUME TypeInv, ProcessInv, ThreadInv, ThreadInv', NEW t \in Thread, LoaderStep(t)
  PROVE  TypeInv'
<1> USE Numbers DEF TypeInv
<1>1. on'\in [Thread -> Loader \union {0}] /\ launchMu' \in [Loader -> Thread \union {0}]
  BY DEF ThreadInv, ThreadTypeOK
<1>2. on[t] \in Loader
  BY HasLoader DEF LoaderStep, Reuse, CannotStart, Spawn, Handshake, HandshakeFails, Shutdown, At
<1>3. cmd[on[t]] \in Proc \union {0} /\ lock \in Proc \union {0}
  BY <1>2 DEF TypeOK
<1>4. Kill(lock) \in [Proc -> ProcState] /\ Kill(cmd[on[t]]) \in [Proc -> ProcState]
      /\ ShutDown(on[t]) \in [Proc -> ProcState]
  BY <1>2, <1>3, KillType, ShutDownType
<1>5. CASE Reuse(t)
  BY <1>1, <1>2, <1>5 DEF Reuse, TypeOK, diskVars, hostVars, counters, procVars
<1>6. CASE CannotStart(t)
  BY <1>1, <1>2, <1>4, <1>6 DEF CannotStart, TypeOK, hostVars, counters, ProcState
<1>7. CASE Spawn(t)
  <2>1. PICK p \in Proc :
          /\ proc' = [Kill(lock) EXCEPT ![p] = "starting"]
          /\ owner' = [owner EXCEPT ![p] = on[t]] /\ cmd' = [cmd EXCEPT ![on[t]] = p]
          /\ tokens' = NewTokens(on[t], p)
          /\ spawned' = IF "finish" \in Range(todo[t]) THEN p ELSE spawned
    BY <1>7 DEF Spawn
  <2>2. proc' \in [Proc -> ProcState] /\ owner' \in [Proc -> Loader \union {0}]
        /\ cmd' \in [Loader -> Proc \union {0}] /\ tokens' \subseteq Proc
        /\ spawned' \in Proc \union {0}
    BY <1>2, <1>4, <2>1 DEF TypeOK, NewTokens, ProcState
  <2> QED
    BY <1>1, <1>7, <2>2 DEF Spawn, TypeOK, counters, ProcState
<1>8. CASE Handshake(t)
  <2>1. launchMu[on[t]] = t
    BY <1>8 DEF Handshake, ThreadInv, HandshakeHolds
  <2>2. cmd[on[t]] \in Proc
    BY <1>2, <1>3, <2>1 DEF ProcessInv
  <2> QED
    BY <1>1, <1>2, <1>8, <2>2 DEF Handshake, TypeOK, hostVars, counters
<1>9. CASE HandshakeFails(t)
  BY <1>1, <1>2, <1>4, <1>9 DEF HandshakeFails, TypeOK, diskVars, hostVars, counters, ProcState
<1>10. CASE Shutdown(t)
  <2>1. /\ pid' \in [Loader -> Proc \union {0}] /\ cmd' \in [Loader -> Proc \union {0}]
        /\ tokens' \subseteq Proc /\ lock' = 0
    BY <1>2, <1>10 DEF Shutdown, TypeOK
  <2>2. proc' \in [Proc -> ProcState]
    BY <1>4, <1>10 DEF Shutdown
  <2>3. status' \in [Loader -> {"NOT_INSTALLED", "INSTALLING", "READY", "CRASHED", "DISABLED"}]
    BY <1>10 DEF Shutdown, TypeOK
  <2> QED
    BY <1>1, <1>10, <2>1, <2>2, <2>3 DEF Shutdown, TypeOK, counters, ProcState
<1> QED
  BY <1>5, <1>6, <1>7, <1>8, <1>9, <1>10 DEF LoaderStep

\* No other step of an operation disturbs what the loaders know.
LEMMA InstallStepTypes ==
  ASSUME TypeInv, ProcessInv, ThreadInv', NEW t \in Thread, InstallStep(t)
  PROVE  TypeInv' /\ ProcessInv'
<1> USE Numbers DEF TypeInv
<1> DEFINE Status == [Loader -> {"NOT_INSTALLED", "INSTALLING", "READY", "CRASHED", "DISABLED"}]
<1>1. on' \in [Thread -> Loader \union {0}] /\ launchMu' \in [Loader -> Thread \union {0}]
  BY DEF ThreadInv, ThreadTypeOK
<1>2. 0 \in Release /\ installs + 1 \in Release
  BY PluginAssumption DEF Release
<1>3. ASSUME UNCHANGED <<procVars, cmd, pid, launchMu, tokens>> PROVE ProcessInv'
  BY <1>3 DEF ProcessInv, Started, procVars
<1>4. ASSUME NEW e \in {"installing", "ready"}, NEW v \in {"INSTALLING", "READY"}, Mark(t, e, v)
      PROVE  TypeInv' /\ ProcessInv'
  <2>1. status' \in Status
    BY <1>4 DEF Mark, TypeOK
  <2> QED
    BY <1>1, <1>3, <1>4, <2>1 DEF Mark, TypeOK, diskVars, hostVars, counters, procVars
<1>5. ASSUME NEW x \in Part, Save(t, x) PROVE TypeInv' /\ ProcessInv'
  <2>1. files' \in [Part -> Release] /\ status' \in Status /\ had' \subseteq Part
    <3>1. status' \in Status
      BY <1>5 DEF Save, GiveUp, TypeOK
    <3>2. files' \in [Part -> Release]
      BY <1>2, <1>5 DEF Save, TypeOK
    <3>3. had' \subseteq Part
      BY <1>5 DEF Save, TypeOK
    <3> QED
      BY <3>1, <3>2, <3>3
  <2>2. backup' \in [Part -> Release]
    BY <1>2, <1>5 DEF Save, TypeOK
  <2>3. fromPart' \in BOOLEAN
    BY <1>5 DEF Save, TypeOK
  <2> QED
    <3>1. UNCHANGED <<lock, disabled, pid, cmd, launchMu, registered, removing, made, base, tokens,
                      spawned, strayed, installs, restarts, procVars>>
      BY <1>5 DEF Save
    <3> QED
      BY <1>1, <1>3, <2>1, <2>2, <2>3, <3>1 DEF TypeOK, procVars
<1>6. ASSUME NEW x \in Part, Write(t, x) PROVE TypeInv' /\ ProcessInv'
  <2>1. files' \in [Part -> Release] /\ status' \in Status
    BY <1>2, <1>6 DEF Write, GiveUp, TypeOK
  <2> QED
    BY <1>1, <1>3, <1>6, <2>1 DEF Write, TypeOK, hostVars, counters, procVars
<1>7. ASSUME NEW x \in Part, PutBack(t, x) PROVE TypeInv' /\ ProcessInv'
  <2>1. files' \in [Part -> Release] /\ backup' \in [Part -> Release] /\ had' \subseteq Part
    BY <1>2, <1>7 DEF PutBack, TypeOK
  <2> QED
    BY <1>1, <1>3, <1>7, <2>1 DEF PutBack, TypeOK, loaderVars, counters, procVars
<1>8. CASE Finish(t)
  <2>1. Kill(spawned) \in [Proc -> ProcState]
        /\ \A q \in Proc : proc[q] # "none" => Kill(spawned)[q] # "none"
    BY KillType DEF TypeOK
  <2>2. backup' \in [Part -> Release]
    BY <1>2, <1>8 DEF Finish
  <2>3. TypeInv'
    BY <1>1, <1>8, <2>1, <2>2 DEF Finish, TypeOK, loaderVars, counters, ProcState
  <2>4. ProcessInv'
    BY <1>1, <1>8, <2>1, StaysStarted DEF Finish, loaderVars
  <2> QED
    BY <2>3, <2>4
<1> QED
  BY <1>4, <1>5, <1>6, <1>7, <1>8 DEF InstallStep

LEMMA LoaderStepKeepsProcesses ==
  ASSUME TypeInv, ProcessInv, ThreadInv, ThreadInv', NEW t \in Thread, LoaderStep(t)
  PROVE  ProcessInv'
<1> USE Numbers DEF TypeInv
<1>1. PICK l \in Loader : l = on[t]
  BY HasLoader DEF LoaderStep, Reuse, CannotStart, Spawn, Handshake, HandshakeFails, Shutdown, At
<1>2. launchMu' \in [Loader -> Thread \union {0}] /\ launchMu \in [Loader -> Thread \union {0}]
  BY DEF ThreadInv, ThreadTypeOK
<1>3. cmd \in [Loader -> Proc \union {0}] /\ pid \in [Loader -> Proc \union {0}]
      /\ lock \in Proc \union {0} /\ owner \in [Proc -> Loader \union {0}]
      /\ tokens \subseteq Proc /\ proc \in [Proc -> ProcState]
  BY DEF TypeOK, ProcState
<1>4. /\ Kill(lock) \in [Proc -> ProcState]
      /\ Kill(cmd[l]) \in [Proc -> ProcState] /\ ShutDown(l) \in [Proc -> ProcState]
      /\ \A q \in Proc : proc[q] # "none" => /\ Kill(lock)[q] # "none"
                                            /\ Kill(cmd[l])[q] # "none"
                                            /\ ShutDown(l)[q] # "none"
  BY <1>1, <1>3, KillType, ShutDownType
<1>5. CASE Reuse(t)
  <2>1. cmd[l] # 0 /\ cmd[l] = lock /\ pid' = [pid EXCEPT ![l] = lock]
        /\ UNCHANGED <<cmd, launchMu, tokens, proc, owner>>
    BY <1>1, <1>5 DEF Reuse, Owned, hostVars, procVars
  <2> QED
    BY <1>1, <1>3, <2>1 DEF ProcessInv, Started
<1>6. CASE CannotStart(t)
  BY <1>1, <1>2, <1>4, <1>6, StaysStarted DEF CannotStart, hostVars
<1>7. CASE Spawn(t)
  <2>1. PICK p \in Proc :
          /\ proc[p] = "none" /\ proc' = [Kill(lock) EXCEPT ![p] = "starting"]
          /\ owner' = [owner EXCEPT ![p] = l] /\ cmd' = [cmd EXCEPT ![l] = p]
          /\ tokens' = NewTokens(l, p)
          /\ launchMu' = [launchMu EXCEPT ![l] = t] /\ UNCHANGED pid
    BY <1>1, <1>7 DEF Spawn
  <2>2. \A q \in Proc : q # p => owner'[q] = owner[q]
    BY <1>3, <2>1
  <2>3. owner'[p] = l /\ proc'[p] # "none" /\ cmd'[l] = p
    BY <1>1, <1>3, <1>4, <2>1
  <2>4. \A q \in Proc : proc[q] # "none" => q # p /\ proc'[q] # "none"
    BY <1>4, <2>1
  <2>5. \A k \in Loader : k # l => cmd'[k] = cmd[k] /\ launchMu'[k] = launchMu[k]
    BY <1>2, <1>3, <2>1
  <2>6. \A k \in Loader : Started(k, pid[k])'
    <3> TAKE k \in Loader
    <3>1. pid'[k] = pid[k] /\ pid[k] \in Proc \union {0} /\ Started(k, pid[k])
      BY <1>3, <2>1 DEF ProcessInv
    <3>2. CASE pid[k] = 0
      BY <3>1, <3>2 DEF Started
    <3>3. CASE pid[k] \in Proc
      BY <2>2, <2>4, <3>1, <3>3 DEF Started
    <3> QED
      BY <3>1, <3>2, <3>3
  <2>7. \A k \in Loader : Started(k, cmd[k])'
    <3> TAKE k \in Loader
    <3>1. CASE k = l
      BY <2>3, <3>1 DEF Started
    <3>2. CASE k # l
      <4>1. cmd'[k] = cmd[k] /\ cmd[k] \in Proc \union {0} /\ Started(k, cmd[k])
        BY <1>3, <2>5, <3>2 DEF ProcessInv
      <4>2. CASE cmd[k] = 0
        BY <4>1, <4>2 DEF Started
      <4>3. CASE cmd[k] \in Proc
        BY <2>2, <2>4, <4>1, <4>3 DEF Started
      <4> QED
        BY <4>1, <4>2, <4>3
    <3> QED
      BY <3>1, <3>2
  <2>8. \A k \in Loader : launchMu'[k] # 0 => cmd'[k] # 0
    BY <2>3, <2>5 DEF ProcessInv
  <2>9. ASSUME NEW q \in tokens' PROVE owner'[q] \in Loader /\ cmd'[owner'[q]] = q
    <3>1. CASE q = p
      BY <1>1, <2>3, <3>1
    <3>2. CASE q # p
      <4>1. q \in tokens /\ q # cmd[l] /\ q \in Proc
        BY <1>3, <2>1, <2>9, <3>2 DEF NewTokens
      <4>2. owner[q] \in Loader /\ cmd[owner[q]] = q
        BY <4>1 DEF ProcessInv
      <4> QED
        BY <2>2, <2>5, <3>2, <4>1, <4>2
    <3> QED
      BY <3>1, <3>2
  <2> QED
    BY <2>6, <2>7, <2>8, <2>9 DEF ProcessInv
<1>8. CASE Handshake(t)
  <2>1. pid' = [pid EXCEPT ![l] = cmd[l]] /\ proc' = [proc EXCEPT ![cmd[l]] = "up"]
        /\ launchMu' = [launchMu EXCEPT ![l] = 0] /\ UNCHANGED <<cmd, tokens, owner>>
    BY <1>1, <1>8 DEF Handshake, hostVars
  <2>2. \A q \in Proc : proc[q] # "none" => proc'[q] # "none"
    BY <1>3, <2>1
  <2>3. \A k \in Loader : pid'[k] = IF k = l THEN cmd[l] ELSE pid[k]
    BY <1>1, <1>3, <2>1
  <2>4. \A k \in Loader : launchMu'[k] # 0 => launchMu[k] # 0
    BY <1>1, <1>2, <2>1
  <2> QED
    BY <1>3, <2>1, <2>2, <2>3, <2>4 DEF ProcessInv, Started
<1>9. CASE HandshakeFails(t)
  <2>1. \A k \in Loader : launchMu'[k] # 0 => launchMu[k] # 0
    BY <1>1, <1>2, <1>9 DEF HandshakeFails
  <2> QED
    BY <1>1, <1>2, <1>4, <1>9, <2>1, StaysStarted DEF HandshakeFails, hostVars
<1>10. CASE Shutdown(t)
  <2>1. /\ launchMu[l] = 0 /\ proc' = ShutDown(l) /\ tokens' = tokens \ {cmd[l]}
        /\ pid' = [pid EXCEPT ![l] = 0] /\ cmd' = [cmd EXCEPT ![l] = 0]
        /\ UNCHANGED <<launchMu, owner>>
    BY <1>1, <1>10 DEF Shutdown
  <2>2. \A k \in Loader : k # l => cmd'[k] = cmd[k] /\ pid'[k] = pid[k]
    BY <1>3, <2>1
  <2>3. cmd'[l] = 0 /\ pid'[l] = 0
    BY <1>1, <1>3, <2>1
  <2>4. \A k \in Loader : Started(k, cmd[k])' /\ Started(k, pid[k])'
    <3>1. \A q \in Proc : proc[q] # "none" => proc'[q] # "none"
      BY <1>4, <2>1
    <3>2. \A k \in Loader : k # l => Started(k, cmd[k])' /\ Started(k, pid[k])'
      <4> TAKE k \in Loader
      <4> HAVE k # l
      <4>1. /\ cmd'[k] = cmd[k] /\ cmd[k] \in Proc \union {0} /\ Started(k, cmd[k])
            /\ pid'[k] = pid[k] /\ pid[k] \in Proc \union {0} /\ Started(k, pid[k])
        BY <1>3, <2>2 DEF ProcessInv
      <4>2. Started(k, cmd[k])'
        BY <2>1, <3>1, <4>1 DEF Started
      <4>3. Started(k, pid[k])'
        BY <2>1, <3>1, <4>1 DEF Started
      <4> QED
        BY <4>2, <4>3
    <3>3. Started(l, cmd[l])' /\ Started(l, pid[l])'
      BY <2>3 DEF Started
    <3> QED
      BY <3>2, <3>3
  <2>5. \A k \in Loader : launchMu'[k] # 0 => cmd'[k] # 0
    BY <2>1, <2>2 DEF ProcessInv
  <2>6. \A q \in tokens' : owner'[q] \in Loader /\ cmd'[owner'[q]] = q
    BY <2>1, <2>2 DEF ProcessInv
  <2> QED
    BY <2>4, <2>5, <2>6 DEF ProcessInv
<1> QED
  BY <1>5, <1>6, <1>7, <1>8, <1>9, <1>10 DEF LoaderStep

LEMMA SameProcesses ==
  ASSUME ProcessInv, UNCHANGED <<procVars, cmd, pid, launchMu, tokens>>
  PROVE  ProcessInv'
BY DEF ProcessInv, Started, procVars

LEMMA OtherStepTypes ==
  ASSUME TypeInv, ProcessInv, ThreadInv', NEW t \in Thread,
         SettingStep(t) \/ Find(t) \/ Dial(t)
  PROVE  TypeInv' /\ ProcessInv'
<1> USE Numbers DEF TypeInv
<1>1. on' \in [Thread -> Loader \union {0}] /\ launchMu' \in [Loader -> Thread \union {0}]
  BY DEF ThreadInv, ThreadTypeOK
<1>2. ProcessInv'
  <2>1. UNCHANGED <<procVars, cmd, pid, launchMu, tokens>>
    BY DEF SettingStep, RemoveFiles, Forget, SaveSetting, Mark, Find, Dial, loaderVars, hostVars
  <2> QED
    BY <2>1, SameProcesses
<1>3. CASE RemoveFiles(t)
  <2>1. files' \in [Part -> Release] /\ backup' \in [Part -> Release]
    BY <1>3, PluginAssumption DEF RemoveFiles, Release
  <2> QED
    BY <1>1, <1>2, <1>3, <2>1 DEF RemoveFiles, TypeOK, loaderVars, hostVars, counters, procVars
<1>4. CASE Forget(t)
  BY <1>1, <1>2, <1>4 DEF Forget, TypeOK, loaderVars, counters, procVars
<1>5. CASE SaveSetting(t)
  <2>1. disabled' \in BOOLEAN
    <3>1. At(t, "disable") \in BOOLEAN
      BY DEF At
    <3> QED
      BY <1>5, <3>1 DEF SaveSetting
  <2>2. UNCHANGED <<files, backup, lock, loaderVars, hostVars, counters, procVars>>
    BY <1>5 DEF SaveSetting
  <2> QED
    BY <1>1, <1>2, <2>1, <2>2 DEF TypeOK, loaderVars, hostVars, counters, procVars
<1>6. CASE Mark(t, "disabled", "DISABLED")
  <2>1. status' \in [Loader -> {"NOT_INSTALLED", "INSTALLING", "READY", "CRASHED", "DISABLED"}]
    BY <1>6 DEF Mark, TypeOK
  <2> QED
    BY <1>1, <1>2, <1>6, <2>1 DEF Mark, TypeOK, diskVars, hostVars, counters, procVars
<1>7. CASE Find(t) \/ Dial(t)
  <2>1. UNCHANGED <<diskVars, loaderVars, hostVars, counters, procVars>>
    BY <1>7 DEF Find, Dial
  <2> QED
    BY <1>1, <1>2, <2>1 DEF TypeOK, diskVars, loaderVars, hostVars, counters, procVars
<1> QED
  BY <1>3, <1>4, <1>5, <1>6, <1>7 DEF SettingStep

LEMMA BeginsTypes ==
  ASSUME TypeInv, ProcessInv, ThreadInv', NEW t \in Thread, Begins(t)
  PROVE  TypeInv' /\ ProcessInv'
<1> USE Numbers DEF TypeInv
<1>1. on' \in [Thread -> Loader \union {0}] /\ launchMu' \in [Loader -> Thread \union {0}]
  BY DEF ThreadInv, ThreadTypeOK
<1>2. ProcessInv'
  <2>1. UNCHANGED <<procVars, cmd, pid, launchMu, tokens>>
    BY DEF Begins, BeginInstall, BeginRemove, BeginDisable, BeginEnable, BeginGetAddr, BeginWarm,
           loaderVars, hostVars
  <2> QED
    BY <2>1, SameProcesses
<1>3. CASE BeginInstall(t)
  <2>1. installs' \in 0..MaxInstalls
    BY <1>3, PluginAssumption DEF BeginInstall
  <2>2. registered' \in Loader \union {0} /\ made' \in Loader \union {0}
    BY <1>3, PluginAssumption DEF BeginInstall, Loader, TypeOK
  <2> QED
    BY <1>1, <1>2, <1>3, <2>1, <2>2 DEF BeginInstall, TypeOK, diskVars, loaderVars, procVars
<1>4. CASE BeginRemove(t)
  <2>1. UNCHANGED <<diskVars, loaderVars, registered, made, base, tokens, had, spawned, strayed,
                    counters, procVars>> /\ removing' = TRUE
    BY <1>4 DEF BeginRemove
  <2> QED
    BY <1>1, <1>2, <2>1 DEF TypeOK, diskVars, loaderVars, counters, procVars
<1>5. CASE BeginDisable(t) \/ BeginEnable(t) \/ BeginGetAddr(t) \/ BeginWarm(t)
  <2>1. UNCHANGED <<diskVars, loaderVars, hostVars, counters, procVars>>
    BY <1>5 DEF BeginDisable, BeginEnable, BeginGetAddr, BeginWarm
  <2> QED
    BY <1>1, <1>2, <2>1 DEF TypeOK, diskVars, loaderVars, hostVars, counters, procVars
<1> QED
  BY <1>3, <1>4, <1>5 DEF Begins

LEMMA RestartTypes ==
  ASSUME TypeInv, ThreadInv', Crash \/ Quit
  PROVE  TypeInv' /\ ProcessInv'
<1> USE Numbers DEF TypeInv
<1>1. Restart
  BY DEF Crash, Quit
<1>2. ProcessInv'
  BY <1>1 DEF Restart, ProcessInv, Started
<1>3. on' \in [Thread -> Loader \union {0}] /\ launchMu' \in [Loader -> Thread \union {0}]
  BY DEF ThreadInv, ThreadTypeOK
<1>4. registered' \in Loader \union {0} /\ made' \in Loader \union {0}
  <2>1. made + 1 \in Loader
    BY <1>1, PluginAssumption DEF Restart, Loader, TypeOK
  <2> QED
    BY <1>1, <2>1 DEF Restart, TypeOK
<1>5. status' \in [Loader -> {"NOT_INSTALLED", "INSTALLING", "READY", "CRASHED", "DISABLED"}]
  BY <1>1 DEF Restart
<1>6. proc' \in [Proc -> ProcState] /\ lock' \in Proc \union {0}
  <2>1. CASE Crash
    BY <2>1, LeftType DEF Crash, TypeOK, ProcState
  <2>2. CASE Quit
    <3>1. registered # 0 => ShutDown(registered) \in [Proc -> ProcState]
      BY ShutDownType DEF TypeOK
    <3> QED
      BY <2>2, <3>1, LeftType DEF Quit, TypeOK, ProcState
  <2> QED
    BY <2>1, <2>2
<1>7. pid' \in [Loader -> Proc \union {0}] /\ cmd' \in [Loader -> Proc \union {0}]
  BY <1>1 DEF Restart
<1>8. /\ base' = made /\ removing' = FALSE /\ strayed' = FALSE /\ tokens' = {} /\ had' = {}
      /\ spawned' = 0
      /\ UNCHANGED <<files, backup, disabled, installs, fromPart, owner>>
  BY <1>1 DEF Restart
<1>9. {files', backup'} \subseteq [Part -> Release] /\ owner' \in [Proc -> Loader \union {0}]
      /\ {disabled', removing', strayed', fromPart'} \subseteq BOOLEAN
  BY <1>8 DEF TypeOK
<1> QED
  BY <1>2, <1>3, <1>4, <1>5, <1>6, <1>7, <1>8, <1>9 DEF TypeOK, ProcState

LEMMA ProcessFailsTypes ==
  ASSUME TypeInv, ProcessInv, ThreadInv', NEW p \in Proc, ProcessFails(p)
  PROVE  TypeInv' /\ ProcessInv'
<1>1. Kill(p) \in [Proc -> ProcState] /\ \A q \in Proc : proc[q] # "none" => Kill(p)[q] # "none"
  BY KillType DEF TypeInv
<1>2. launchMu' \in [Loader -> Thread \union {0}] /\ UNCHANGED launchMu
  BY DEF ThreadInv, ThreadTypeOK, ProcessFails, loaderVars
<1>3. ProcessInv'
  BY <1>1, <1>2, StaysStarted DEF ProcessFails, loaderVars, hostVars, TypeInv
<1>4. TypeInv'
  BY <1>1 DEF ProcessFails, TypeInv, TypeOK, ProcState, diskVars, loaderVars, hostVars,
              threadVars, counters
<1> QED
  BY <1>3, <1>4

-----------------------------------------------------------------------------
(* Removals *)

Removals ==
  {<<"shutdown", "removeFiles", "forget">>, <<"removeFiles", "forget">>, <<"forget">>}

Other(s) == s \in Seq(StepName) /\ \A i \in 1..Len(s) : s[i] \notin {"removeFiles", "forget"}

\* There is one removal at a time; while it lasts the loader it took stays the registered one.
RemovalInv ==
  /\ \A t \in Thread : todo[t] \in Removals \/ Other(todo[t])
  /\ \A t \in Thread : todo[t] \in Removals => removing /\ on[t] = registered
  /\ \A t, u \in Thread : todo[t] \in Removals /\ todo[u] \in Removals => t = u

\* Nothing belongs to a loader that was not made.
OwnInv ==
  /\ registered <= made
  /\ \A t \in Thread : on[t] <= made
  /\ \A p \in Proc : proc[p] # "none" => owner[p] \in Loader /\ owner[p] <= made

LEMMA RemovalSteps ==
  ASSUME NEW s \in Removals
  PROVE  /\ s # <<>> /\ ~Other(s) /\ "forget" \in Range(s)
         /\ \/ s = <<"shutdown", "removeFiles", "forget">> /\ Head(s) = "shutdown"
               /\ Tail(s) = <<"removeFiles", "forget">>
            \/ s = <<"removeFiles", "forget">> /\ Head(s) = "removeFiles"
               /\ Tail(s) = <<"forget">>
            \/ s = <<"forget">> /\ Head(s) = "forget" /\ Tail(s) = <<>>
<1>1. CASE s = <<"shutdown", "removeFiles", "forget">>
  <2>1. Len(s) = 3 /\ s[3] = "forget" /\ Head(s) = "shutdown" /\ DOMAIN s = 1..3
        /\ Tail(s) = <<"removeFiles", "forget">>
    BY <1>1
  <2>2. "forget" \in Range(s) /\ ~Other(s)
    BY <2>1 DEF Range, Other
  <2> QED
    BY <1>1, <2>1, <2>2
<1>2. CASE s = <<"removeFiles", "forget">>
  <2>1. Len(s) = 2 /\ s[2] = "forget" /\ Head(s) = "removeFiles" /\ DOMAIN s = 1..2
        /\ Tail(s) = <<"forget">>
    BY <1>2
  <2>2. "forget" \in Range(s) /\ ~Other(s)
    BY <2>1 DEF Range, Other
  <2> QED
    BY <1>2, <2>1, <2>2
<1>3. CASE s = <<"forget">>
  <2>1. Len(s) = 1 /\ s[1] = "forget" /\ Head(s) = "forget" /\ DOMAIN s = 1..1
        /\ Tail(s) = <<>>
    BY <1>3
  <2>2. "forget" \in Range(s) /\ ~Other(s)
    BY <2>1 DEF Range, Other
  <2> QED
    BY <1>3, <2>1, <2>2
<1> QED
  BY <1>1, <1>2, <1>3 DEF Removals

LEMMA OtherTail ==
  ASSUME NEW s, Other(s), s # <<>>
  PROVE  Other(Tail(s)) /\ Head(s) \notin {"removeFiles", "forget"}
BY DEF Other

LEMMA OtherPut ==
  ASSUME NEW s, Other(s)
  PROVE  Other(<<"handshake">> \o s)
<1>1. PICK h \in Seq(StepName) :
        /\ h = <<"handshake">> \o s /\ Len(s) \in Nat /\ Len(h) = Len(s) + 1
        /\ h[1] = "handshake" /\ \A i \in 2..Len(h) : h[i] = s[i - 1]
  BY HandshakePut DEF Other
<1>2. \A i \in 1..Len(h) : i = 1 \/ (i \in 2..Len(h) /\ i - 1 \in 1..Len(s))
  BY <1>1
<1>3. Other(h)
  BY <1>1, <1>2 DEF Other
<1> QED
  BY <1>1, <1>3

LEMMA PlansOther ==
  /\ Other(<<>>) /\ Other(<<"finish">>) /\ Other(Undo) /\ Other(<<"find", "dial">>)
  /\ Other(Install)
  /\ Other(<<"shutdown", "disable", "disabled">>) /\ Other(<<"disable", "disabled">>)
  /\ Other(<<"enable", "ready", "launch">>) /\ Other(<<"launch">>) /\ Other(<<"dial">>)
  /\ Other(<<"launch", "dial">>) /\ Other(<<"shutdown", "launch">>)
<1> USE DEF Other, StepName
<1> DEFINE no == {"removeFiles", "forget"}
<1>1. Other(<<>>)
  OBVIOUS
<1>2. Other(<<"finish">>)
  OBVIOUS
<1>3. Other(Undo)
  <2>1. Undo \in Seq(StepName) /\ Len(Undo) = 3
    BY DEF Undo
  <2>2. Undo[1] \notin no /\ Undo[2] \notin no /\ Undo[3] \notin no
    BY DEF Undo
  <2>3. \A i \in 1..3 : i = 1 \/ i = 2 \/ i = 3
    OBVIOUS
  <2>4. \A i \in 1..3 : Undo[i] \notin no
    BY ONLY <2>2, <2>3
  <2> QED
    BY <2>1, <2>4
<1>4. Other(<<"find", "dial">>)
  OBVIOUS
<1>5. Other(Install)
  <2>1. Install \in Seq(StepName) /\ Len(Install) = 10
    BY DEF Install
  <2>2. /\ Install[1] \notin no /\ Install[2] \notin no /\ Install[3] \notin no
        /\ Install[4] \notin no /\ Install[5] \notin no /\ Install[6] \notin no
        /\ Install[7] \notin no /\ Install[8] \notin no /\ Install[9] \notin no
        /\ Install[10] \notin no
    BY DEF Install
  <2>3. \A i \in 1..10 : i = 1 \/ i = 2 \/ i = 3 \/ i = 4 \/ i = 5 \/ i = 6 \/ i = 7
                          \/ i = 8 \/ i = 9 \/ i = 10
    OBVIOUS
  <2>4. \A i \in 1..10 : Install[i] \notin no
    BY ONLY <2>2, <2>3
  <2> QED
    BY <2>1, <2>4
<1>6. Other(<<"shutdown", "disable", "disabled">>)
  OBVIOUS
<1>7. Other(<<"disable", "disabled">>)
  OBVIOUS
<1>8. Other(<<"enable", "ready", "launch">>)
  OBVIOUS
<1>9. Other(<<"launch">>)
  OBVIOUS
<1>10. Other(<<"dial">>)
  OBVIOUS
<1>11. Other(<<"launch", "dial">>)
  OBVIOUS
<1>12. Other(<<"shutdown", "launch">>)
  OBVIOUS
<1> QED
  BY ONLY <1>1, <1>2, <1>3, <1>4, <1>5, <1>6, <1>7, <1>8, <1>9, <1>10, <1>11, <1>12

Alone(t) == \A u \in Thread \ {t} : todo'[u] = todo[u] /\ on'[u] = on[u]

LEMMA GoAlone ==
  ASSUME ThreadTypeOK, NEW t \in Thread, NEW s, Go(t, s)
  PROVE  todo'[t] = s /\ on'[t] \in {0, on[t]} /\ (s # <<>> => on'[t] = on[t]) /\ Alone(t)
BY DEF Go, ThreadTypeOK, Alone

LEMMA BeginAlone ==
  ASSUME ThreadTypeOK, NEW t \in Thread, NEW l, NEW s, Begin(t, l, s)
  PROVE  todo'[t] = s /\ on'[t] = l /\ todo[t] = <<>> /\ Alone(t)
BY DEF Begin, ThreadTypeOK, Alone, Idle

\* A thread that removes nothing goes on removing nothing.
LEMMA OtherStep ==
  ASSUME ThreadTypeOK, NEW t \in Thread, Other(todo[t]), Step(t)
  PROVE  /\ Other(todo'[t]) /\ Alone(t) /\ on'[t] \in {0, on[t]} /\ UNCHANGED removing
         /\ UNCHANGED <<registered, made>> /\ ~RemoveFiles(t) /\ ~Forget(t)
<1> USE PlansOther, GoAlone
<1>1. ASSUME Continue(t), ~Idle(t)
      PROVE  Other(todo'[t]) /\ Alone(t) /\ on'[t] \in {0, on[t]}
  BY <1>1, OtherTail DEF Continue, Idle
<1>2. ~RemoveFiles(t) /\ ~Forget(t)
  BY OtherTail DEF RemoveFiles, Forget, At, Idle
<1>3. CASE Reuse(t) \/ Shutdown(t) \/ Handshake(t)
  BY <1>1, <1>2, <1>3 DEF Reuse, Shutdown, Handshake, At, hostVars
<1>4. CASE CannotStart(t) \/ HandshakeFails(t)
  <2>1. AfterFailure(t) \in {<<>>, <<"finish">>}
    BY DEF AfterFailure
  <2>2. Other(AfterFailure(t))
    BY <2>1
  <2> QED
    BY <1>2, <1>4, <2>2 DEF CannotStart, HandshakeFails, hostVars
<1>5. CASE Spawn(t)
  <2> DEFINE s == <<"handshake">> \o Tail(todo[t])
  <2>1. Other(s)
    <3>1. Tail(todo[t]) \in Seq(StepName) /\ Other(Tail(todo[t]))
      BY <1>5, OtherTail DEF Spawn, At, Idle, Other
    <3> QED
      BY <3>1, OtherPut
  <2>2. Go(t, s) /\ UNCHANGED <<registered, made, removing>>
    BY <1>5 DEF Spawn
  <2> HIDE DEF s
  <2> QED
    BY <1>2, <2>1, <2>2
<1>6. ASSUME NEW e, NEW v, Mark(t, e, v)
      PROVE  Other(todo'[t]) /\ Alone(t) /\ on'[t] \in {0, on[t]}
             /\ UNCHANGED <<registered, made, removing>>
  BY <1>1, <1>6 DEF Mark, At, hostVars
<1>7. ASSUME NEW x \in Part, Save(t, x) \/ Write(t, x) \/ PutBack(t, x)
      PROVE  Other(todo'[t]) /\ Alone(t) /\ on'[t] \in {0, on[t]}
             /\ UNCHANGED <<registered, made, removing>>
  <2>1. ~Idle(t) /\ UNCHANGED <<registered, made, removing>>
        /\ (Continue(t) \/ Go(t, <<>>) \/ Go(t, Undo))
    BY <1>7 DEF Save, Write, PutBack, GiveUp, At, hostVars
  <2> QED
    BY <1>1, <2>1
<1>8. CASE Finish(t) \/ SaveSetting(t)
  BY <1>1, <1>2, <1>8 DEF Finish, SaveSetting, At, hostVars
<1>9. CASE Find(t) \/ Dial(t)
  BY <1>2, <1>9 DEF Find, Dial, hostVars
<1> QED
  BY <1>2, <1>3, <1>4, <1>5, <1>6, <1>7, <1>8, <1>9
     DEF Step, LoaderStep, InstallStep, SettingStep

\* A removal takes its three steps.
LEMMA RemovalCourse ==
  ASSUME NEW t \in Thread, todo[t] \in Removals, Step(t)
  PROVE  Shutdown(t) \/ RemoveFiles(t) \/ Forget(t)
<1>1. \A e : At(t, e) => e \in {"shutdown", "removeFiles", "forget"}
  BY RemovalSteps DEF At
<1>2. ~At(t, "launch") /\ ~At(t, "handshake") /\ ~At(t, "installing") /\ ~At(t, "ready")
      /\ ~At(t, "finish") /\ ~At(t, "disabled") /\ ~At(t, "disable") /\ ~At(t, "enable")
      /\ ~At(t, "find") /\ ~At(t, "dial")
  BY <1>1
<1>3. \A x \in Part : ~At(t, Saving[x]) /\ ~At(t, Writing[x]) /\ ~At(t, Undoing[x])
  BY <1>1, PartSteps
<1> QED
  BY <1>2, <1>3 DEF Step, LoaderStep, InstallStep, SettingStep, Reuse, CannotStart, Spawn,
     Handshake, HandshakeFails, Mark, Save, Write, PutBack, Finish, SaveSetting, Find, Dial

LEMMA OtherBegins ==
  ASSUME ThreadTypeOK, NEW t \in Thread, Begins(t), ~BeginRemove(t)
  PROVE  /\ Other(todo'[t]) /\ Alone(t) /\ UNCHANGED removing
         /\ on'[t] = registered'
         /\ \/ UNCHANGED <<registered, made>>
            \/ ~removing /\ registered = 0 /\ registered' = made + 1 /\ made' = made + 1
<1> USE PlansOther, BeginAlone
<1>1. CASE BeginInstall(t)
  <2>1. Begin(t, registered', Install) /\ ~removing /\ UNCHANGED removing
        /\ (UNCHANGED <<registered, made>>
            \/ (registered = 0 /\ registered' = made + 1 /\ made' = made + 1))
    BY <1>1 DEF BeginInstall
  <2> QED
    BY <2>1
<1>2. CASE BeginDisable(t)
  <2> DEFINE s == IF IsAlive(registered) THEN <<"shutdown", "disable", "disabled">>
                                         ELSE <<"disable", "disabled">>
  <2>1. Other(s) /\ Begin(t, registered, s) /\ UNCHANGED <<registered, made, removing>>
    BY <1>2 DEF BeginDisable, hostVars
  <2> HIDE DEF s
  <2> QED
    BY <2>1
<1>3. CASE BeginEnable(t) \/ BeginGetAddr(t) \/ BeginWarm(t)
  BY <1>3 DEF BeginEnable, BeginGetAddr, BeginWarm, hostVars
<1> QED
  BY <1>1, <1>2, <1>3 DEF Begins

LEMMA RemovalKept ==
  ASSUME RemovalInv, NEW t \in Thread, Alone(t), Other(todo'[t]), UNCHANGED removing,
         registered' = registered \/ \A u \in Thread : todo[u] \notin Removals
  PROVE  RemovalInv'
<1>1. \A u \in Thread : todo'[u] \in Removals => u # t /\ todo[u] \in Removals /\ on'[u] = on[u]
  BY RemovalSteps DEF Alone
<1>2. \A u \in Thread : todo'[u] \in Removals \/ Other(todo'[u])
  BY DEF RemovalInv, Alone
<1> QED
  BY <1>1, <1>2 DEF RemovalInv

LEMMA RemovalStep ==
  ASSUME ThreadTypeOK, RemovalInv, [Next]_vars
  PROVE  RemovalInv'
<1>1. ASSUME NEW t \in Thread, Step(t), todo[t] \notin Removals PROVE RemovalInv'
  BY <1>1, OtherStep, RemovalKept DEF RemovalInv
<1>2. ASSUME NEW t \in Thread, Shutdown(t) \/ RemoveFiles(t), todo[t] \in Removals
      PROVE  RemovalInv'
  <2>1. Continue(t) /\ UNCHANGED <<removing, registered>>
        /\ (At(t, "shutdown") \/ At(t, "removeFiles"))
    BY <1>2 DEF Shutdown, RemoveFiles, hostVars
  <2>2. Tail(todo[t]) \in Removals
    BY <1>2, <2>1, RemovalSteps DEF At, Removals
  <2>3. todo'[t] \in Removals /\ on'[t] = on[t] /\ Alone(t)
    BY <2>1, <2>2, GoAlone, RemovalSteps DEF Continue
  <2> QED
    BY <1>2, <2>1, <2>3 DEF RemovalInv, Alone
<1>3. ASSUME NEW t \in Thread, Forget(t), todo[t] \in Removals PROVE RemovalInv'
  <2>1. todo'[t] = <<>> /\ Alone(t)
    BY <1>3, RemovalSteps, GoAlone DEF Forget, Continue, At
  <2>2. Other(todo'[t])
    BY <2>1, PlansOther
  <2>3. \A u \in Thread : u # t => todo[u] \notin Removals
    BY <1>3 DEF RemovalInv
  <2>4. \A u \in Thread : Other(todo'[u])
    BY <2>1, <2>2, <2>3 DEF RemovalInv, Alone
  <2>5. \A u \in Thread : todo'[u] \notin Removals
    BY <2>4, RemovalSteps
  <2> QED
    BY <2>4, <2>5 DEF RemovalInv
<1>4. ASSUME NEW t \in Thread, Begins(t), ~BeginRemove(t) PROVE RemovalInv'
  BY <1>4, OtherBegins, RemovalKept DEF RemovalInv
<1>5. ASSUME NEW t \in Thread, BeginRemove(t) PROVE RemovalInv'
  <2> DEFINE s == IF registered # 0 THEN <<"shutdown", "removeFiles", "forget">>
                                    ELSE <<"removeFiles", "forget">>
  <2>1. s \in Removals
    BY DEF Removals
  <2>2. ~RemovePending /\ Begin(t, registered, s) /\ removing' = TRUE /\ UNCHANGED registered
    BY <1>5 DEF BeginRemove
  <2> HIDE DEF s
  <2>3. todo'[t] \in Removals /\ on'[t] = registered /\ Alone(t)
    BY <2>1, <2>2, BeginAlone
  <2>4. \A u \in Thread : todo[u] \notin Removals
    BY <2>2, RemovalSteps DEF RemovePending
  <2> QED
    BY <2>2, <2>3, <2>4 DEF RemovalInv, Alone
<1>6. CASE Crash \/ Quit
  <2>1. \A t \in Thread : todo'[t] = <<>>
    BY <1>6 DEF Crash, Quit, Restart
  <2>2. \A t \in Thread : Other(todo'[t])
    BY <2>1, PlansOther
  <2> QED
    BY <2>2, RemovalSteps DEF RemovalInv
<1>7. CASE (\E p \in Proc : ProcessFails(p)) \/ UNCHANGED vars
  <2>1. UNCHANGED <<todo, on, removing, registered>>
    BY <1>7 DEF ProcessFails, vars, threadVars, hostVars
  <2> QED
    BY <2>1 DEF RemovalInv
<1> QED
  BY <1>1, <1>2, <1>3, <1>4, <1>5, <1>6, <1>7, RemovalCourse DEF Next

-----------------------------------------------------------------------------
(* Owners *)

\* A step that starts no process: processes only end.
OnlyEnds ==
  \A q \in Proc : /\ proc'[q] # "none" => proc[q] # "none"
                  /\ proc'[q] \in {"starting", "up"} => proc[q] \in {"starting", "up"}

LEMMA KillEnds ==
  ASSUME TypeOK, NEW p \in Proc \union {0}, NEW q \in Proc
  PROVE  /\ Kill(p)[q] # "none" => proc[q] # "none"
         /\ Kill(p)[q] \in {"starting", "up"} => proc[q] \in {"starting", "up"} /\ q # p
<1>1. Killed(p) \in {"zombie", "gone"}
  BY DEF Killed
<1> QED
  BY <1>1, Numbers DEF Kill, Running, TypeOK

LEMMA ShutDownEnds ==
  ASSUME TypeOK, ProcessInv, NEW l \in Loader, NEW q \in Proc
  PROVE  /\ ShutDown(l)[q] # "none" => proc[q] # "none"
         /\ ShutDown(l)[q] \in {"starting", "up"} => proc[q] \in {"starting", "up"} /\ q # cmd[l]
BY Numbers DEF ShutDown, TypeOK, ProcessInv, Started

LEMMA LeftEnds ==
  ASSUME NEW P \in [Proc -> ProcState], NEW q \in Proc
  PROVE  /\ Left(P)[q] # "none" => P[q] # "none"
         /\ Left(P)[q] \in {"starting", "up"} => P[q] \in {"starting", "up"}
BY DEF Left, ProcState

LEMMA StepEnds ==
  ASSUME TypeInv, ProcessInv, ThreadInv, NEW t \in Thread, Step(t), ~Spawn(t)
  PROVE  OnlyEnds /\ UNCHANGED owner
<1> USE Numbers DEF TypeInv
<1>1. lock \in Proc \union {0} /\ spawned \in Proc \union {0}
      /\ \A l \in Loader : cmd[l] \in Proc \union {0}
  BY DEF TypeOK
<1>2. CASE UNCHANGED procVars
  BY <1>2 DEF OnlyEnds, procVars
<1>3. CASE CannotStart(t)
  BY <1>1, <1>3, KillEnds DEF CannotStart, OnlyEnds
<1>4. CASE Handshake(t)
  BY <1>4 DEF Handshake, OnlyEnds, TypeOK
<1>5. CASE HandshakeFails(t)
  <2>1. on[t] \in Loader /\ proc' = Kill(cmd[on[t]]) /\ UNCHANGED owner
    BY <1>5, HasLoader DEF HandshakeFails, At
  <2> QED
    BY <1>1, <2>1, KillEnds DEF OnlyEnds
<1>6. CASE Shutdown(t)
  <2>1. on[t] \in Loader /\ proc' = ShutDown(on[t]) /\ UNCHANGED owner
    BY <1>6, HasLoader DEF Shutdown, At
  <2> QED
    BY <2>1, ShutDownEnds DEF OnlyEnds
<1>7. CASE Finish(t)
  BY <1>1, <1>7, KillEnds DEF Finish, OnlyEnds
<1> QED
  BY <1>2, <1>3, <1>4, <1>5, <1>6, <1>7 DEF Step, LoaderStep, InstallStep, SettingStep, Reuse, Mark,
     Save, Write, PutBack, RemoveFiles, Forget, SaveSetting, Find, Dial

LEMMA LeavesEnds ==
  ASSUME TypeInv, ProcessInv, Crash \/ Quit
  PROVE  OnlyEnds
<1> USE Numbers DEF TypeInv
<1>1. proc \in [Proc -> ProcState]
  BY DEF TypeOK, ProcState
<1>2. CASE Crash
  BY <1>1, <1>2, LeftEnds DEF Crash, OnlyEnds
<1>3. CASE Quit
  <2> DEFINE P == IF registered # 0 THEN ShutDown(registered) ELSE proc
  <2>1. registered # 0 => registered \in Loader
    BY DEF TypeOK
  <2>2. P \in [Proc -> ProcState] /\ proc' = Left(P)
    BY <1>1, <1>3, <2>1, ShutDownType DEF Quit
  <2>3. \A q \in Proc : /\ P[q] # "none" => proc[q] # "none"
                        /\ P[q] \in {"starting", "up"} => proc[q] \in {"starting", "up"}
    BY <2>1, ShutDownEnds
  <2> HIDE DEF P
  <2> QED
    BY <2>2, <2>3, LeftEnds DEF OnlyEnds
<1> QED
  BY <1>2, <1>3

LEMMA StepFrame ==
  ASSUME ThreadInv, RemovalInv, NEW t \in Thread, Step(t)
  PROVE  /\ UNCHANGED made /\ registered' \in {0, registered} /\ Alone(t)
         /\ on'[t] \in {0, on[t]}
<1>1. CASE todo[t] \notin Removals
  BY <1>1, OtherStep DEF RemovalInv, ThreadInv
<1>2. CASE todo[t] \in Removals
  <2>1. Continue(t) /\ UNCHANGED made /\ registered' \in {0, registered}
    BY <1>2, RemovalCourse DEF Shutdown, RemoveFiles, Forget, hostVars
  <2> QED
    BY <2>1, GoAlone DEF Continue, ThreadInv
<1> QED
  BY <1>1, <1>2

LEMMA InitOwners == Init => OwnInv /\ RemovalInv
<1> SUFFICES ASSUME Init PROVE OwnInv /\ RemovalInv
  OBVIOUS
<1>1. registered = made /\ made \in Nat
  BY DEF Init
<1>2. OwnInv
  BY <1>1 DEF Init, OwnInv
<1>3. \A t \in Thread : todo[t] = <<>>
  BY DEF Init
<1>4. \A t \in Thread : Other(todo[t])
  BY <1>3, PlansOther
<1>5. RemovalInv
  BY <1>4, RemovalSteps DEF RemovalInv
<1> QED
  BY <1>2, <1>5

LEMMA OwnersStep ==
  ASSUME TypeInv, ProcessInv, ThreadInv, RemovalInv, OwnInv, [Next]_vars
  PROVE  OwnInv'
<1> USE Numbers
<1>1. made \in Nat /\ registered \in Nat /\ \A t \in Thread : on[t] \in Nat
  <2>1. /\ made \in Loader \union {0} /\ registered \in Loader \union {0}
        /\ \A t \in Thread : on[t] \in Loader \union {0}
    BY DEF TypeInv, TypeOK
  <2>2. \A n \in Loader \union {0} : n \in Nat
    OBVIOUS
  <2> QED
    BY <2>1, <2>2
<1>2. ASSUME NEW t \in Thread, Step(t) PROVE OwnInv'
  <2>1. registered' <= made' /\ \A u \in Thread : on'[u] <= made'
    BY <1>1, <1>2, StepFrame DEF OwnInv, Alone
  <2>2. CASE ~Spawn(t)
    BY <1>2, <2>1, <2>2, StepEnds, StepFrame DEF OwnInv, OnlyEnds
  <2>3. CASE Spawn(t)
    <3>1. PICK p \in Proc :
            proc' = [Kill(lock) EXCEPT ![p] = "starting"] /\ owner' = [owner EXCEPT ![p] = on[t]]
      BY <2>3 DEF Spawn
    <3>2. on[t] \in Loader /\ on[t] <= made /\ UNCHANGED made
      BY <2>3, HasLoader DEF Spawn, At, OwnInv
    <3>3. \A q \in Proc : Kill(lock)[q] # "none" => proc[q] # "none"
      BY KillEnds DEF TypeInv, TypeOK
    <3>4. Kill(lock) \in [Proc -> ProcState] /\ owner \in [Proc -> Loader \union {0}]
      BY KillType DEF TypeInv, TypeOK
    <3>5. \A q \in Proc : proc'[q] # "none" => owner'[q] \in Loader /\ owner'[q] <= made
      BY <3>1, <3>2, <3>3, <3>4 DEF OwnInv
    <3> QED
      BY <2>1, <3>2, <3>5 DEF OwnInv
  <2> QED
    BY <2>2, <2>3
<1>3. ASSUME NEW t \in Thread, Begins(t) PROVE OwnInv'
  <2>1. Alone(t) /\ on'[t] = registered'
        /\ (UNCHANGED <<registered, made>> \/ (registered' = made + 1 /\ made' = made + 1))
    <3>1. CASE BeginRemove(t)
      BY <3>1, BeginAlone DEF BeginRemove, ThreadInv
    <3> QED
      BY <1>3, <3>1, OtherBegins DEF ThreadInv
  <2>2. UNCHANGED procVars
    BY <1>3 DEF Begins, BeginInstall, BeginRemove, BeginDisable, BeginEnable, BeginGetAddr,
                BeginWarm
  <2>3. made <= made' /\ registered' <= made'
    BY <1>1, <2>1 DEF OwnInv
  <2>4. \A n \in Nat : n <= made => n <= made'
    BY <1>1, <2>1
  <2>5. \A u \in Thread : on'[u] <= made'
    BY <1>1, <2>1, <2>3, <2>4 DEF OwnInv, Alone
  <2>6. \A p \in Proc : proc[p] # "none" => owner[p] \in Loader /\ owner[p] <= made'
    BY <2>4 DEF OwnInv
  <2> QED
    BY <2>2, <2>3, <2>5, <2>6 DEF OwnInv, procVars
<1>4. CASE Crash \/ Quit
  <2>1. Restart
    BY <1>4 DEF Crash, Quit
  <2>2. registered' <= made' /\ made <= made' /\ UNCHANGED owner
        /\ \A u \in Thread : on'[u] <= made'
    BY <1>1, <2>1 DEF Restart
  <2>3. OnlyEnds
    BY <1>4, LeavesEnds
  <2>4. \A n \in Nat : n <= made => n <= made'
    BY <1>1, <2>1 DEF Restart
  <2>5. \A p \in Proc : proc'[p] # "none" => owner[p] \in Loader /\ owner[p] <= made'
    BY <2>3, <2>4 DEF OwnInv, OnlyEnds
  <2> QED
    BY <2>2, <2>5 DEF OwnInv
<1>5. CASE \E p \in Proc : ProcessFails(p)
  <2>1. OnlyEnds /\ UNCHANGED <<registered, made, on, owner>>
    BY <1>5, KillEnds DEF ProcessFails, OnlyEnds, TypeInv, hostVars, threadVars
  <2> QED
    BY <2>1 DEF OwnInv, OnlyEnds
<1>6. CASE UNCHANGED vars
  BY <1>6 DEF OwnInv, vars, hostVars, threadVars, procVars
<1> QED
  BY <1>2, <1>3, <1>4, <1>5, <1>6 DEF Next

-----------------------------------------------------------------------------
(* Stopping *)

PastShutdown(t) == todo[t] \in Removals /\ Head(todo[t]) # "shutdown" /\ on[t] # 0

\* The lock file names what the registered loader runs, unless it is just launching it.
Known ==
  registered # 0 /\ Running(cmd[registered]) /\ launchMu[registered] = 0
  => lock = cmd[registered]

InUse == \A l \in Loader : launchMu[l] # 0 => l = registered

Cleared ==
  \A t \in Thread : PastShutdown(t) => launchMu[registered] = 0 /\ cmd[registered] = 0

\* While nothing has used a loader that is being or was removed, the registered one is the only
\* one in use, and what it runs is known.
OrderlyInv == ~strayed => StartedIsStoppable /\ Known /\ InUse /\ Cleared

LEMMA OrderlyKept ==
  ASSUME TypeInv, OrderlyInv, UNCHANGED <<registered, cmd, owner, launchMu, strayed>>, OnlyEnds,
         ~strayed => \/ lock' = lock \/ registered = 0 \/ launchMu[registered] # 0
                     \/ ~Running(cmd[registered])',
         \A t \in Thread : PastShutdown(t)' => PastShutdown(t)
  PROVE  OrderlyInv'
<1> SUFFICES ASSUME ~strayed PROVE (StartedIsStoppable /\ Known /\ InUse /\ Cleared)'
  BY DEF OrderlyInv
<1>1. StartedIsStoppable /\ Known /\ InUse /\ Cleared
  BY DEF OrderlyInv
<1>2. StartedIsStoppable'
  BY <1>1 DEF StartedIsStoppable, OnlyEnds, Running
<1>3. Known'
  <2>1. SUFFICES ASSUME registered # 0, Running(cmd[registered])', launchMu[registered] = 0
                 PROVE  lock' = cmd[registered]
    BY DEF Known
  <2>2. registered \in Loader /\ cmd[registered] \in Proc \union {0}
    BY <2>1 DEF TypeInv, TypeOK
  <2>3. Running(cmd[registered])
    BY <2>1, <2>2 DEF OnlyEnds, Running
  <2> QED
    BY <1>1, <2>1, <2>3 DEF Known
<1>4. InUse' /\ Cleared'
  BY <1>1 DEF InUse, Cleared
<1> QED
  BY <1>2, <1>3, <1>4

LEMMA RemovalNext ==
  ASSUME ThreadInv, RemovalInv, NEW t \in Thread, Step(t), ~Shutdown(t)
  PROVE  \A u \in Thread : PastShutdown(u)' => PastShutdown(u)
<1>1. Alone(t)
  BY StepFrame
<1>2. \A u \in Thread \ {t} : PastShutdown(u)' => PastShutdown(u)
  BY <1>1 DEF Alone, PastShutdown
<1>3. CASE todo[t] \notin Removals
  <2>1. Other(todo'[t])
    BY <1>3, OtherStep DEF RemovalInv, ThreadInv
  <2> QED
    BY <1>2, <2>1, RemovalSteps DEF PastShutdown
<1>4. CASE todo[t] \in Removals
  <2>1. CASE RemoveFiles(t)
    <3>1. Head(todo[t]) = "removeFiles" /\ on'[t] \in {0, on[t]}
      BY <2>1, StepFrame DEF RemoveFiles, At
    <3> QED
      BY <1>2, <1>4, <3>1 DEF PastShutdown
  <2>2. CASE Forget(t)
    <3>1. Tail(todo[t]) = <<>>
      BY <1>4, <2>2, RemovalSteps DEF Forget, At
    <3>2. todo'[t] = <<>>
      BY <2>2, <3>1, GoAlone DEF Forget, Continue, ThreadInv
    <3> QED
      BY <1>2, <3>2, RemovalSteps DEF PastShutdown
  <2> QED
    BY <1>4, <2>1, <2>2, RemovalCourse
<1> QED
  BY <1>3, <1>4

LEMMA RemovalBegins ==
  ASSUME ThreadInv, NEW t \in Thread, Begins(t)
  PROVE  \A u \in Thread : PastShutdown(u)' => PastShutdown(u)
<1>1. CASE ~BeginRemove(t)
  <2>1. Other(todo'[t]) /\ Alone(t)
    BY <1>1, OtherBegins DEF ThreadInv
  <2> QED
    BY <2>1, RemovalSteps DEF PastShutdown, Alone
<1>2. CASE BeginRemove(t)
  <2> DEFINE s == IF registered # 0 THEN <<"shutdown", "removeFiles", "forget">>
                                    ELSE <<"removeFiles", "forget">>
  <2>1. Begin(t, registered, s)
    BY <1>2 DEF BeginRemove
  <2>2. registered # 0 => Head(s) = "shutdown"
    OBVIOUS
  <2> HIDE DEF s
  <2>3. todo'[t] = s /\ on'[t] = registered /\ Alone(t)
    BY <2>1, BeginAlone DEF ThreadInv
  <2> QED
    BY <2>2, <2>3 DEF PastShutdown, Alone
<1> QED
  BY <1>1, <1>2

\* A launch kills what the lock file names, so what the loader started before is not left.
LEMMA LaunchKills ==
  ASSUME TypeInv, OrderlyInv, ~strayed, registered # 0, launchMu[registered] = 0, NEW q \in Proc,
         Kill(lock)[q] \in {"starting", "up"}, owner[q] = registered
  PROVE  FALSE
<1>1. proc[q] \in {"starting", "up"} /\ q # lock
  BY KillEnds DEF TypeInv, TypeOK
<1>2. Running(q)
  BY <1>1, Numbers DEF Running
<1> QED
  BY <1>1, <1>2 DEF OrderlyInv, StartedIsStoppable, Known

LEMMA CannotStartOrderly ==
  ASSUME TypeInv, ProcessInv, ThreadInv, RemovalInv, OrderlyInv, NEW t \in Thread, CannotStart(t)
  PROVE  OrderlyInv'
<1>1. Step(t) /\ ~Shutdown(t) /\ OnlyEnds
  <2>1. OnlyEnds
    BY KillEnds DEF CannotStart, OnlyEnds, TypeInv, TypeOK
  <2> QED
    BY <2>1 DEF Step, LoaderStep, CannotStart, Shutdown, At
<1>2. ASSUME ~strayed, registered # 0, launchMu[registered] = 0
      PROVE  ~Running(cmd[registered])'
  <2>1. registered \in Loader /\ cmd[registered] \in Proc \union {0}
    BY <1>2 DEF TypeInv, TypeOK
  <2>2. proc' = Kill(lock) /\ UNCHANGED <<registered, cmd>>
    BY DEF CannotStart, hostVars
  <2>3. CASE cmd[registered] = 0
    BY <2>2, <2>3 DEF Running
  <2>4. CASE cmd[registered] # 0
    <3>1. owner[cmd[registered]] = registered
      BY <2>1, <2>4 DEF ProcessInv, Started
    <3>2. Kill(lock)[cmd[registered]] \notin {"starting", "up"}
      BY <1>2, <2>1, <2>4, <3>1, LaunchKills
    <3> QED
      BY <2>2, <3>2 DEF Running
  <2> QED
    BY <2>3, <2>4
<1>3. UNCHANGED <<registered, cmd, owner, launchMu, strayed>>
  BY DEF CannotStart, hostVars
<1> QED
  BY <1>1, <1>2, <1>3, OrderlyKept, RemovalNext

LEMMA SpawnOrderly ==
  ASSUME TypeInv, ProcessInv, ThreadInv, RemovalInv, OrderlyInv, NEW t \in Thread, Spawn(t)
  PROVE  OrderlyInv'
<1> USE Numbers
<1> SUFFICES ASSUME ~strayed' PROVE (StartedIsStoppable /\ Known /\ InUse /\ Cleared)'
  BY DEF OrderlyInv
<1>1. ~strayed /\ ~removing /\ on[t] = registered /\ registered' = registered
      /\ launchMu[registered] = 0 /\ launchMu' = [launchMu EXCEPT ![registered] = t]
  BY DEF Spawn
<1>2. registered \in Loader
  BY <1>1, HasLoader DEF Spawn, At
<1>3. PICK p \in Proc :
        /\ proc' = [Kill(lock) EXCEPT ![p] = "starting"]
        /\ owner' = [owner EXCEPT ![p] = registered] /\ cmd' = [cmd EXCEPT ![registered] = p]
  BY <1>1 DEF Spawn
<1>4. cmd \in [Loader -> Proc \union {0}] /\ owner \in [Proc -> Loader \union {0}]
      /\ launchMu \in [Loader -> Thread \union {0}] /\ Kill(lock) \in [Proc -> ProcState]
  BY KillType DEF TypeInv, TypeOK
<1>5. cmd'[registered] = p /\ launchMu'[registered] = t
  BY <1>1, <1>2, <1>3, <1>4
<1>6. StartedIsStoppable'
  <2>1. \A q \in Proc : q # p => proc'[q] = Kill(lock)[q] /\ owner'[q] = owner[q]
    BY <1>3, <1>4
  <2>2. \A q \in Proc : proc'[q] \in {"starting", "up"} /\ owner'[q] = registered => q = p
    BY <1>1, <1>2, <2>1, LaunchKills
  <2> QED
    BY <1>1, <1>5, <2>2 DEF StartedIsStoppable, Running
<1>7. Known'
  BY <1>1, <1>5 DEF Known
<1>8. InUse'
  <2>1. \A l \in Loader : l # registered => launchMu'[l] = launchMu[l]
    BY <1>1, <1>4
  <2> QED
    BY <1>1, <2>1 DEF OrderlyInv, InUse
<1>9. Cleared'
  <2>1. \A u \in Thread : ~PastShutdown(u)
    BY <1>1 DEF PastShutdown, RemovalInv
  <2>2. ~Shutdown(t) /\ Step(t)
    BY DEF Step, LoaderStep, Spawn, Shutdown, At
  <2> QED
    BY <2>1, <2>2, RemovalNext DEF Cleared
<1> QED
  BY <1>6, <1>7, <1>8, <1>9

\* Nothing is being removed while the registered loader waits for a handshake.
LEMMA HandshakeInUse ==
  ASSUME ThreadInv, OrderlyInv, ~strayed, NEW t \in Thread, At(t, "handshake")
  PROVE  on[t] = registered /\ registered \in Loader /\ launchMu[registered] = t
         /\ \A u \in Thread : ~PastShutdown(u)
<1>1. on[t] \in Loader /\ launchMu[on[t]] = t
  BY HasLoader DEF At, ThreadInv, HandshakeHolds
<1>2. on[t] = registered
  BY <1>1, Numbers DEF OrderlyInv, InUse
<1> QED
  BY <1>1, <1>2, Numbers DEF OrderlyInv, Cleared

LEMMA AnswerOrderly ==
  ASSUME TypeInv, ProcessInv, ThreadInv, RemovalInv, OrderlyInv, NEW t \in Thread,
         Handshake(t) \/ HandshakeFails(t)
  PROVE  OrderlyInv'
<1> USE Numbers
<1> SUFFICES ASSUME ~strayed' PROVE (StartedIsStoppable /\ Known /\ InUse /\ Cleared)'
  BY DEF OrderlyInv
<1>1. ~strayed /\ At(t, "handshake") /\ UNCHANGED <<registered, cmd, owner>>
      /\ launchMu' = [launchMu EXCEPT ![on[t]] = 0]
  BY DEF Handshake, HandshakeFails, hostVars
<1>2. on[t] = registered /\ registered \in Loader
      /\ \A u \in Thread : ~PastShutdown(u)
  BY <1>1, HandshakeInUse
<1>3. launchMu \in [Loader -> Thread \union {0}] /\ cmd[registered] \in Proc \union {0}
  BY <1>2 DEF TypeInv, TypeOK
<1>4. Step(t) /\ ~Shutdown(t) /\ ~Spawn(t)
  BY <1>1 DEF Step, LoaderStep, Shutdown, Spawn, At
<1>5. OnlyEnds
  BY <1>4, StepEnds
<1>6. StartedIsStoppable'
  BY <1>1, <1>5 DEF OrderlyInv, StartedIsStoppable, OnlyEnds, Running
<1>7. Known'
  <2>1. CASE Handshake(t)
    BY <1>1, <1>2, <2>1 DEF Handshake, Known
  <2>2. CASE HandshakeFails(t)
    <3>1. proc' = Kill(cmd[registered]) /\ UNCHANGED <<registered, cmd>>
      BY <1>1, <1>2, <2>2 DEF HandshakeFails
    <3>2. ~Running(cmd[registered])'
      BY <1>3, <3>1, KillEnds DEF Running, TypeInv
    <3> QED
      BY <3>2 DEF Known
  <2> QED
    BY <2>1, <2>2
<1>8. InUse'
  BY <1>1, <1>2, <1>3 DEF OrderlyInv, InUse
<1>9. Cleared'
  BY <1>2, <1>4, RemovalNext DEF Cleared
<1> QED
  BY <1>6, <1>7, <1>8, <1>9

LEMMA ShutdownOrderly ==
  ASSUME TypeInv, ProcessInv, ThreadInv, OrderlyInv, NEW t \in Thread, Shutdown(t)
  PROVE  OrderlyInv'
<1> USE Numbers
<1> SUFFICES ASSUME ~strayed' PROVE (StartedIsStoppable /\ Known /\ InUse /\ Cleared)'
  BY DEF OrderlyInv
<1>1. ~strayed /\ on[t] = registered /\ launchMu[registered] = 0
      /\ proc' = ShutDown(registered) /\ cmd' = [cmd EXCEPT ![registered] = 0]
      /\ UNCHANGED <<registered, launchMu, owner>>
  BY DEF Shutdown
<1>2. registered \in Loader
  BY <1>1, HasLoader DEF Shutdown, At
<1>3. cmd \in [Loader -> Proc \union {0}]
  BY DEF TypeInv, TypeOK
<1>4. cmd'[registered] = 0
  BY <1>2, <1>1, <1>3
<1>5. StartedIsStoppable'
  <2>1. \A q \in Proc : ShutDown(registered)[q] \in {"starting", "up"}
                        => Running(q) /\ q # cmd[registered]
    BY <1>2, ShutDownEnds DEF Running, TypeInv
  <2>2. \A q \in Proc : proc'[q] \in {"starting", "up"} => owner[q] # registered
    BY <1>1, <2>1 DEF OrderlyInv, StartedIsStoppable
  <2> QED
    BY <1>1, <2>2 DEF StartedIsStoppable, Running
<1>6. Known' /\ InUse' /\ Cleared'
  BY <1>1, <1>4 DEF OrderlyInv, Known, Running, InUse, Cleared
<1> QED
  BY <1>5, <1>6

LEMMA ForgetOrderly ==
  ASSUME TypeInv, ProcessInv, ThreadInv, RemovalInv, OwnInv, OrderlyInv,
         NEW t \in Thread, Forget(t)
  PROVE  OrderlyInv'
<1> USE Numbers
<1>1. Step(t) /\ ~Shutdown(t) /\ ~Spawn(t) /\ todo[t] \in Removals
  <2>1. Step(t) /\ ~Shutdown(t) /\ ~Spawn(t)
    BY DEF Step, SettingStep, Forget, Shutdown, Spawn, At
  <2>2. ~Other(todo[t])
    BY OtherStep, <2>1 DEF ThreadInv
  <2> QED
    BY <2>1, <2>2 DEF RemovalInv
<1>2. OnlyEnds /\ UNCHANGED owner /\ \A u \in Thread : PastShutdown(u)' => PastShutdown(u)
  BY <1>1, StepEnds, RemovalNext
<1>3. on[t] = registered /\ UNCHANGED <<cmd, launchMu, strayed, lock>>
  BY <1>1 DEF RemovalInv, Forget, loaderVars
<1>4. CASE registered = 0
  BY <1>2, <1>3, <1>4, OrderlyKept DEF Forget
<1>5. CASE registered # 0
  <2>1. registered' = 0 /\ PastShutdown(t)
    BY <1>1, <1>3, <1>5 DEF Forget, At, PastShutdown
  <2> SUFFICES ASSUME ~strayed PROVE (StartedIsStoppable /\ Known /\ InUse /\ Cleared)'
    BY <1>3 DEF OrderlyInv
  <2>2. StartedIsStoppable'
    BY <1>2, <2>1 DEF StartedIsStoppable, Running, OnlyEnds, OwnInv
  <2>3. \A l \in Loader : launchMu[l] = 0
    BY <2>1 DEF OrderlyInv, InUse, Cleared
  <2>4. \A u \in Thread : ~PastShutdown(u)'
    <3>1. todo'[t] = <<>>
      BY <1>1, RemovalSteps, GoAlone DEF Forget, At, Continue, ThreadInv
    <3>2. \A u \in Thread : todo[u] \in Removals => u = t
      BY <1>1 DEF RemovalInv
    <3> QED
      BY <1>2, <3>1, <3>2, RemovalSteps DEF PastShutdown
  <2> QED
    BY <1>3, <2>1, <2>2, <2>3, <2>4 DEF Known, InUse, Cleared
<1> QED
  BY <1>4, <1>5

LEMMA StepOrderly ==
  ASSUME TypeInv, ProcessInv, ThreadInv, RemovalInv, OwnInv, OrderlyInv, NEW t \in Thread, Step(t)
  PROVE  OrderlyInv'
<1>1. CASE CannotStart(t) \/ Spawn(t) \/ Handshake(t) \/ HandshakeFails(t) \/ Shutdown(t)
  BY <1>1, CannotStartOrderly, SpawnOrderly, AnswerOrderly, ShutdownOrderly
<1>2. CASE Forget(t)
  BY <1>2, ForgetOrderly
<1>3. CASE ~Shutdown(t) /\ ~Spawn(t) /\ UNCHANGED <<registered, cmd, launchMu, strayed, lock>>
  BY <1>3, StepEnds, RemovalNext, OrderlyKept
<1>4. CASE RemoveFiles(t)
  <2>1. At(t, "removeFiles") /\ UNCHANGED <<registered, cmd, launchMu, strayed>>
        /\ ~Shutdown(t) /\ ~Spawn(t)
    BY <1>4 DEF RemoveFiles, Shutdown, Spawn, At, hostVars, loaderVars
  <2>2. todo[t] \in Removals
    BY <2>1, OtherTail DEF At, Idle, RemovalInv
  <2>3. on[t] = registered /\ (registered # 0 => PastShutdown(t))
    BY <2>1, <2>2 DEF RemovalInv, PastShutdown, At
  <2>4. ASSUME ~strayed, registered # 0 PROVE ~Running(cmd[registered])'
    BY <2>1, <2>3, <2>4 DEF OrderlyInv, Cleared, Running
  <2> QED
    BY <2>1, <2>4, StepEnds, RemovalNext, OrderlyKept
<1>5. ASSUME ~Shutdown(t), ~Spawn(t), ~CannotStart(t), ~Handshake(t), ~HandshakeFails(t),
             ~Forget(t), ~RemoveFiles(t)
      PROVE  UNCHANGED <<registered, cmd, launchMu, strayed, lock>>
  BY <1>5 DEF Step, LoaderStep, InstallStep, SettingStep, Reuse, Mark, Save, Write, PutBack,
     Finish, SaveSetting, Find, Dial, diskVars, loaderVars, hostVars
<1> QED
  BY <1>1, <1>2, <1>3, <1>4, <1>5

LEMMA BeginsOrderly ==
  ASSUME TypeInv, ProcessInv, ThreadInv, RemovalInv, OwnInv, OrderlyInv, NEW t \in Thread,
         Begins(t)
  PROVE  OrderlyInv'
<1> USE Numbers
<1>1. UNCHANGED <<cmd, owner, launchMu, strayed, lock, proc>>
  BY DEF Begins, BeginInstall, BeginRemove, BeginDisable, BeginEnable, BeginGetAddr, BeginWarm,
     diskVars, loaderVars, hostVars, procVars
<1>2. \A u \in Thread : PastShutdown(u)' => PastShutdown(u)
  BY RemovalBegins
<1>3. OnlyEnds
  BY <1>1 DEF OnlyEnds
<1>4. CASE UNCHANGED registered
  BY <1>1, <1>2, <1>3, <1>4, OrderlyKept
<1>5. CASE ~UNCHANGED registered
  <2>1. ~removing /\ registered = 0 /\ registered' = made + 1
    <3>1. ~BeginRemove(t)
      BY <1>5 DEF BeginRemove
    <3> QED
      BY <1>5, <3>1, OtherBegins DEF ThreadInv
  <2>2. made \in Nat /\ registered' # 0 /\ ~(registered' <= made)
    <3>1. made \in Loader \union {0}
      BY DEF TypeInv, TypeOK
    <3>2. made \in Nat
      BY <3>1
    <3> QED
      BY <2>1, <3>2
  <2> SUFFICES ASSUME ~strayed PROVE (StartedIsStoppable /\ Known /\ InUse /\ Cleared)'
    BY <1>1 DEF OrderlyInv
  <2>3. \A p \in Proc : proc[p] # "none" => owner[p] # registered'
    BY <2>2 DEF OwnInv
  <2>4. StartedIsStoppable'
    BY <1>1, <2>3 DEF StartedIsStoppable, Running
  <2>5. Known'
    <3>1. SUFFICES ASSUME Running(cmd[registered])' PROVE FALSE
      BY DEF Known
    <3>2. registered' \in Loader
      <4>1. TypeInv'
        BY BeginsTypes, BeginsThreads DEF TypeInv, TypeOK
      <4> QED
        BY <2>2, <4>1 DEF TypeInv, TypeOK
    <3>3. cmd[registered'] \in Proc \union {0} /\ Started(registered', cmd[registered'])
      BY <3>2 DEF TypeInv, TypeOK, ProcessInv
    <3> QED
      BY <1>1, <2>3, <3>1, <3>3 DEF Started, Running
  <2>6. InUse' /\ Cleared'
    <3>1. \A u \in Thread : ~PastShutdown(u)
      BY <2>1 DEF RemovalInv, PastShutdown
    <3>2. \A l \in Loader : launchMu[l] = 0
      BY <2>1 DEF OrderlyInv, InUse
    <3> QED
      BY <1>1, <1>2, <3>1, <3>2 DEF InUse, Cleared
  <2> QED
    BY <2>4, <2>5, <2>6
<1> QED
  BY <1>4, <1>5

LEMMA RestartOrderly ==
  ASSUME TypeInv, ProcessInv, OwnInv, TypeInv', Crash \/ Quit
  PROVE  OrderlyInv'
<1> USE Numbers
<1>1. Restart
  BY DEF Crash, Quit
<1>2. OnlyEnds /\ UNCHANGED owner
  BY <1>1, LeavesEnds DEF Restart
<1>3. registered' = 0 \/ registered' = made + 1
  BY <1>1 DEF Restart
<1>4. registered' \in Loader \union {0} /\ made \in Nat
  <2>1. registered' \in Loader \union {0} /\ made \in Loader \union {0}
    BY DEF TypeInv, TypeOK
  <2> QED
    BY <2>1
<1>5. registered' = 0 \/ ~(registered' <= made)
  BY <1>3, <1>4
<1>6. StartedIsStoppable'
  BY <1>2, <1>5 DEF StartedIsStoppable, Running, OnlyEnds, OwnInv
<1>7. Known'
  BY <1>1, <1>4 DEF Restart, Known, Running
<1>8. InUse'
  BY <1>1 DEF Restart, InUse
<1>9. Cleared'
  <2>1. \A t \in Thread : todo'[t] = <<>>
    BY <1>1 DEF Restart
  <2> QED
    BY <2>1, RemovalSteps DEF Cleared, PastShutdown
<1> QED
  BY <1>6, <1>7, <1>8, <1>9 DEF OrderlyInv

LEMMA InitOrderly == Init => OrderlyInv
<1> SUFFICES ASSUME Init PROVE OrderlyInv
  OBVIOUS
<1>1. StartedIsStoppable
  BY DEF Init, StartedIsStoppable, Running
<1>2. Known
  BY Numbers, PluginAssumption DEF Init, Known, Running, Loader
<1>3. InUse
  BY DEF Init, InUse
<1>4. \A t \in Thread : todo[t] = <<>>
  BY DEF Init
<1>5. Cleared
  BY <1>4, RemovalSteps DEF Cleared, PastShutdown
<1> QED
  BY <1>1, <1>2, <1>3, <1>5 DEF OrderlyInv

LEMMA OrderlyStep ==
  ASSUME TypeInv, ProcessInv, ThreadInv, RemovalInv, OwnInv, OrderlyInv, TypeInv', [Next]_vars
  PROVE  OrderlyInv'
<1>1. CASE \E t \in Thread : Step(t) \/ Begins(t)
  BY <1>1, StepOrderly, BeginsOrderly
<1>2. CASE Crash \/ Quit
  BY <1>2, RestartOrderly
<1>3. CASE (\E p \in Proc : ProcessFails(p)) \/ UNCHANGED vars
  <2>1. UNCHANGED <<registered, cmd, owner, launchMu, strayed, lock, todo, on>>
    BY <1>3 DEF ProcessFails, vars, diskVars, loaderVars, hostVars, threadVars, procVars
  <2>2. OnlyEnds
    <3>1. CASE UNCHANGED vars
      BY <3>1 DEF OnlyEnds, vars, procVars
    <3>2. CASE \E p \in Proc : ProcessFails(p)
      BY <3>2, KillEnds DEF ProcessFails, OnlyEnds, TypeInv
    <3> QED
      BY <1>3, <3>1, <3>2
  <2> QED
    BY <2>1, <2>2, OrderlyKept DEF PastShutdown
<1> QED
  BY <1>1, <1>2, <1>3 DEF Next

-----------------------------------------------------------------------------
(* Installations *)

\* What no installation has to do.
PlainStep ==
  {"launch", "handshake", "shutdown", "ready", "removeFiles", "forget", "disable", "disabled",
   "enable", "find", "dial"}
Plain(s) == s \in Seq(PlainStep)

\* What an installation has left: the last steps of its plan or of its undoing, or the handshake
\* that its launch is waiting for and what follows.
Rest(plan, k) == SubSeq(plan, k, Len(plan))
RestOf(s, plan) == \E k \in 1..Len(plan) : s = Rest(plan, k)
Launching(s) == s = <<"handshake">> \o Rest(Install, 9)
Installing(s) == RestOf(s, Install) \/ RestOf(s, Undo) \/ Launching(s)

\* There is one installation at a time.
CourseInv ==
  /\ \A t \in Thread : Installing(todo[t]) \/ Plain(todo[t])
  /\ \A t, u \in Thread : Installing(todo[t]) /\ Installing(todo[u]) => t = u

\* What is in place and in the backup once these parts are saved, written and put back; the
\* parts that were saved are of one release unless the installation found only part of one.
BinarySaved ==
  /\ files["binary"] = 0 /\ had \subseteq {"binary"}
  /\ had # {} /\ files["metadata"] # 0 =>
       files["dist"] = files["metadata"] /\ backup["binary"] = files["metadata"]

DistSaved ==
  /\ files["binary"] = 0 /\ had \subseteq {"binary", "dist"}
  /\ {"binary", "dist"} \subseteq had /\ files["metadata"] # 0 =>
       backup["binary"] = files["metadata"] /\ backup["dist"] = files["metadata"]

Saved ==
  /\ files["metadata"] = 0 /\ had \in {{}, Part}
  /\ had = Part => backup["binary"] = backup["metadata"] /\ backup["dist"] = backup["metadata"]

BinaryWritten == files["binary"] \in {0, installs + 1}

DistWritten ==
  files["binary"] # 0 => files["binary"] = installs + 1 /\ files["dist"] = installs + 1

BinaryPutBack ==
  /\ files["metadata"] = 0 /\ had \in {{}, {"dist", "metadata"}}
  /\ had # {} => backup["dist"] = backup["metadata"] /\ files["binary"] \in {0, backup["metadata"]}

DistPutBack ==
  /\ files["metadata"] = 0 /\ had \in {{}, {"metadata"}}
  /\ had # {} /\ files["binary"] # 0 /\ backup["metadata"] # 0 =>
       files["binary"] = backup["metadata"] /\ files["dist"] = backup["metadata"]

\* How far the files are, by the next step of the installation.
Stage(e) ==
  /\ e \in {"installing", "save binary"} => had = {}
  /\ e = "save dist" => BinarySaved
  /\ e = "save metadata" => DistSaved
  /\ e \in {"write binary", "write dist", "write metadata", "undo binary"} => Saved
  /\ e = "write dist" => BinaryWritten
  /\ e = "write metadata" => DistWritten
  /\ e = "undo dist" => BinaryPutBack
  /\ e = "undo metadata" => DistPutBack

\* What is restored is all of one release, and the installation under way is as far as its next
\* step tells.
FilesInv ==
  ~fromPart =>
    /\ NoHalfUpgrade
    /\ (\A t \in Thread : ~Installing(todo[t])) => had = {}
    /\ \A t \in Thread : Installing(todo[t]) => Stage(Head(todo[t]))

\* The step of an installation that comes after step e, unless it fails.
Follows(e, f) ==
  \/ e = "installing" /\ f = "save binary"
  \/ e = "save binary" /\ f = "save dist"
  \/ e = "save dist" /\ f = "save metadata"
  \/ e = "save metadata" /\ f = "write binary"
  \/ e = "write binary" /\ f = "write dist"
  \/ e = "write dist" /\ f = "write metadata"
  \/ e = "write metadata" /\ f = "launch"
  \/ e \in {"launch", "handshake"} /\ f = "ready"
  \/ e = "ready" /\ f = "finish"
  \/ e = "undo binary" /\ f = "undo dist"
  \/ e = "undo dist" /\ f = "undo metadata"

LEMMA InstallPlan ==
  /\ Install[1] = "installing"
  /\ Install[2] = "save binary" /\ Install[3] = "save dist" /\ Install[4] = "save metadata"
  /\ Install[5] = "write binary" /\ Install[6] = "write dist" /\ Install[7] = "write metadata"
  /\ Install[8] = "launch" /\ Install[9] = "ready" /\ Install[10] = "finish"
  /\ Head(Install) = "installing"
BY DEF Install

LEMMA UndoPlan ==
  /\ Undo[1] = "undo binary" /\ Undo[2] = "undo dist" /\ Undo[3] = "undo metadata"
  /\ Undo # <<>> /\ Head(Undo) = "undo binary"
BY DEF Undo

LEMMA PlanTypes ==
  /\ Install \in Seq(StepName) /\ Len(Install) = 10
  /\ Undo \in Seq(StepName) /\ Len(Undo) = 3
<1>1. Install \in Seq(StepName) /\ Undo \in Seq(StepName)
  BY PlansHarmless DEF Harmless
<1>2. Len(Install) = 10 /\ Len(Undo) = 3
  BY DEF Install, Undo
<1> QED
  BY <1>1, <1>2

LEMMA RestTail ==
  ASSUME NEW plan \in Seq(StepName), NEW k \in 1..Len(plan)
  PROVE  /\ Rest(plan, k) \in Seq(StepName) /\ Rest(plan, k) # <<>>
         /\ Head(Rest(plan, k)) = plan[k] /\ plan[Len(plan)] \in Range(Rest(plan, k))
         /\ k = Len(plan) => Tail(Rest(plan, k)) = <<>>
         /\ k # Len(plan) => Tail(Rest(plan, k)) = Rest(plan, k + 1)
<1> DEFINE n == Len(plan)
<1> DEFINE s == Rest(plan, k)
<1>1. n \in Nat /\ k \in Nat /\ 1 <= k /\ k <= n
  OBVIOUS
<1>2. \A i \in k..n : plan[i] \in StepName
  BY <1>1, ElementOfSeq
<1>3. s = SubSeq(plan, k, n)
  BY DEF Rest
<1>4. Head(s) = plan[k] /\ Tail(s) = SubSeq(plan, k + 1, n)
  BY <1>1, <1>3, HeadTailOfSubSeq
<1> HIDE DEF n, s
<1>5. /\ s \in Seq(StepName) /\ Len(s) = n - k + 1
      /\ \A i \in 1..n - k + 1 : s[i] = plan[k + i - 1]
  BY <1>1, <1>2, <1>3, SubSeqProperties
<1>6. n - k + 1 \in 1..n - k + 1 /\ k + (n - k + 1) - 1 = n
  BY <1>1
<1>7. plan[n] \in Range(s)
  <2>1. DOMAIN s = 1..n - k + 1
    BY <1>5, LenProperties
  <2>2. s[n - k + 1] = plan[n]
    BY <1>5, <1>6
  <2> QED
    BY <1>6, <2>1, <2>2 DEF Range
<1>8. ASSUME k = n PROVE Tail(s) = <<>>
  BY <1>1, <1>4, <1>8, SubSeqEmpty
<1>9. Tail(s) = Rest(plan, k + 1)
  BY <1>4 DEF Rest, n
<1>10. s # <<>>
  BY <1>1, <1>5
<1> QED
  BY <1>4, <1>5, <1>7, <1>8, <1>9, <1>10 DEF n, s

LEMMA InstallTail ==
  ASSUME NEW s, RestOf(s, Install)
  PROVE  /\ s \in Seq(StepName) /\ s # <<>> /\ "finish" \in Range(s)
         /\ \/ Head(s) = "finish" /\ Tail(s) = <<>>
            \/ RestOf(Tail(s), Install) /\ Follows(Head(s), Head(Tail(s)))
         /\ Head(s) = "launch" => Tail(s) = Rest(Install, 9)
<1>1. PICK k \in 1..10 : s = Rest(Install, k)
  BY PlanTypes DEF RestOf
<1>2. \A i \in 1..10 : /\ Rest(Install, i) \in Seq(StepName) /\ Rest(Install, i) # <<>>
                       /\ Head(Rest(Install, i)) = Install[i]
                       /\ Install[10] \in Range(Rest(Install, i))
                       /\ i = 10 => Tail(Rest(Install, i)) = <<>>
                       /\ i # 10 => Tail(Rest(Install, i)) = Rest(Install, i + 1)
  BY PlanTypes, RestTail
<1>3. \/ k = 1 \/ k = 2 \/ k = 3 \/ k = 4 \/ k = 5 \/ k = 6 \/ k = 7 \/ k = 8 \/ k = 9 \/ k = 10
  OBVIOUS
<1>4. k = 10 => Head(s) = "finish"
  BY <1>1, <1>2, InstallPlan
<1>5. k # 10 => Follows(Install[k], Install[k + 1])
  <2>1. /\ 1 + 1 = 2 /\ 2 + 1 = 3 /\ 3 + 1 = 4 /\ 4 + 1 = 5 /\ 5 + 1 = 6 /\ 6 + 1 = 7
        /\ 7 + 1 = 8 /\ 8 + 1 = 9 /\ 9 + 1 = 10
    OBVIOUS
  <2> QED
    BY <1>3, <2>1, InstallPlan, Zenon DEF Follows
<1>6. k # 10 => RestOf(Tail(s), Install) /\ Head(Tail(s)) = Install[k + 1]
  <2>1. k # 10 => k + 1 \in 1..10
    OBVIOUS
  <2> QED
    BY <1>1, <1>2, <2>1, PlanTypes, Zenon DEF RestOf
<1>7. ASSUME Head(s) = "launch" PROVE Tail(s) = Rest(Install, 9)
  <2>1. Install[k] = "launch"
    BY <1>1, <1>2, <1>7
  <2>2. k = 8
    BY <1>3, <2>1, InstallPlan
  <2> QED
    BY <1>1, <1>2, <2>2
<1> QED
  BY <1>1, <1>2, <1>4, <1>5, <1>6, <1>7, InstallPlan, Zenon

LEMMA UndoTail ==
  ASSUME NEW s, RestOf(s, Undo)
  PROVE  /\ s # <<>> /\ "undo metadata" \in Range(s)
         /\ \/ Head(s) = "undo metadata" /\ Tail(s) = <<>>
            \/ RestOf(Tail(s), Undo) /\ Follows(Head(s), Head(Tail(s)))
         /\ Head(s) # "launch"
<1>1. PICK k \in 1..3 : s = Rest(Undo, k)
  BY PlanTypes DEF RestOf
<1>2. \A i \in 1..3 : /\ Rest(Undo, i) # <<>>
                      /\ Head(Rest(Undo, i)) = Undo[i] /\ Undo[3] \in Range(Rest(Undo, i))
                      /\ i = 3 => Tail(Rest(Undo, i)) = <<>>
                      /\ i # 3 => Tail(Rest(Undo, i)) = Rest(Undo, i + 1)
  BY PlanTypes, RestTail
<1>3. k = 1 \/ k = 2 \/ k = 3
  OBVIOUS
<1>4. k = 3 => Head(s) = "undo metadata"
  BY <1>1, <1>2, UndoPlan
<1>5. k # 3 => Follows(Undo[k], Undo[k + 1])
  <2>1. 1 + 1 = 2 /\ 2 + 1 = 3
    OBVIOUS
  <2> QED
    BY <1>3, <2>1, UndoPlan, Zenon DEF Follows
<1>6. k # 3 => RestOf(Tail(s), Undo) /\ Head(Tail(s)) = Undo[k + 1]
  <2>1. k # 3 => k + 1 \in 1..3
    OBVIOUS
  <2> QED
    BY <1>1, <1>2, <2>1, PlanTypes, Zenon DEF RestOf
<1>7. Head(s) # "launch"
  BY <1>1, <1>2, <1>3, UndoPlan
<1> QED
  BY <1>1, <1>2, <1>4, <1>5, <1>6, <1>7, UndoPlan, Zenon

LEMMA HandshakeTail ==
  ASSUME NEW s \in Seq(StepName)
  PROVE  /\ <<"handshake">> \o s # <<>> /\ Head(<<"handshake">> \o s) = "handshake"
         /\ Tail(<<"handshake">> \o s) = s /\ Range(s) \subseteq Range(<<"handshake">> \o s)
<1>1. PICK h \in Seq(StepName) :
        /\ h = <<"handshake">> \o s /\ Len(s) \in Nat /\ Len(h) = Len(s) + 1
        /\ h[1] = "handshake" /\ \A i \in 2..Len(h) : h[i] = s[i - 1]
  BY HandshakePut
<1>2. h # <<>> /\ Head(h) = "handshake"
  BY <1>1
<1>3. /\ Tail(h) \in Seq(StepName) /\ Len(Tail(h)) = Len(s)
      /\ \A i \in 1..Len(s) : Tail(h)[i] = h[i + 1]
  BY <1>1, <1>2, HeadTailProperties
<1>4. \A i \in 1..Len(s) : i + 1 \in 2..Len(h) /\ (i + 1) - 1 = i
  BY <1>1
<1>5. \A i \in 1..Len(s) : h[i + 1] = s[i]
  BY <1>1, <1>4
<1>6. Tail(h) = s
  BY <1>3, <1>5, SeqEqual
<1>7. Range(s) \subseteq Range(h)
  <2>1. DOMAIN s = 1..Len(s) /\ DOMAIN h = 1..Len(h)
    BY <1>1, LenProperties
  <2>2. \A i \in DOMAIN s : i + 1 \in DOMAIN h /\ h[i + 1] = s[i]
    BY <1>1, <1>4, <1>5, <2>1
  <2> QED
    BY <2>2 DEF Range
<1> QED
  BY <1>1, <1>2, <1>6, <1>7

LEMMA LaunchTail ==
  ASSUME NEW s, Launching(s)
  PROVE  /\ s # <<>> /\ Head(s) = "handshake" /\ "finish" \in Range(s)
         /\ RestOf(Tail(s), Install) /\ Head(Tail(s)) = "ready"
<1> DEFINE rest == Rest(Install, 9)
<1>1. RestOf(rest, Install)
  BY PlanTypes DEF RestOf
<1>2. rest \in Seq(StepName) /\ Head(rest) = "ready" /\ "finish" \in Range(rest)
  <2>1. 9 \in 1..Len(Install)
    BY PlanTypes
  <2>2. rest \in Seq(StepName) /\ Head(rest) = Install[9] /\ Install[Len(Install)] \in Range(rest)
    BY <2>1, PlanTypes, RestTail
  <2> QED
    BY <2>2, InstallPlan, PlanTypes
<1>3. s = <<"handshake">> \o rest
  BY DEF Launching
<1> HIDE DEF rest
<1> QED
  BY <1>1, <1>2, <1>3, HandshakeTail

\* What an installation has left begins with a step that tells what comes next.
LEMMA InstallingTail ==
  ASSUME NEW s, Installing(s)
  PROVE  /\ s # <<>> /\ Range(s) \intersect {"finish", "undo metadata"} # {}
         /\ \/ Head(s) \in {"finish", "undo metadata"} /\ Tail(s) = <<>>
            \/ Installing(Tail(s)) /\ Follows(Head(s), Head(Tail(s)))
<1>1. CASE RestOf(s, Install)
  BY <1>1, InstallTail DEF Installing
<1>2. CASE RestOf(s, Undo)
  BY <1>2, UndoTail DEF Installing
<1>3. CASE Launching(s)
  BY <1>3, LaunchTail DEF Installing, Follows
<1> QED
  BY <1>1, <1>2, <1>3 DEF Installing

LEMMA PlainTail ==
  ASSUME NEW s, Plain(s), s # <<>>
  PROVE  Plain(Tail(s)) /\ Head(s) \in PlainStep
BY HeadTailProperties DEF Plain

LEMMA PlansPlain ==
  /\ Plain(<<>>) /\ Plain(<<"handshake">>) /\ Plain(<<"find", "dial">>)
  /\ Plain(<<"shutdown", "removeFiles", "forget">>) /\ Plain(<<"removeFiles", "forget">>)
  /\ Plain(<<"shutdown", "disable", "disabled">>) /\ Plain(<<"disable", "disabled">>)
  /\ Plain(<<"enable", "ready", "launch">>) /\ Plain(<<"launch">>) /\ Plain(<<"dial">>)
  /\ Plain(<<"launch", "dial">>) /\ Plain(<<"shutdown", "launch">>)
<1>1. {"launch", "handshake", "shutdown", "ready", "removeFiles", "forget", "disable", "disabled",
       "enable", "find", "dial"} \subseteq PlainStep
  BY DEF PlainStep
<1> QED
  BY <1>1 DEF Plain

LEMMA PlainPut ==
  ASSUME NEW s, Plain(s)
  PROVE  Plain(<<"handshake">> \o s)
<1>1. <<"handshake">> \in Seq(PlainStep)
  BY PlansPlain DEF Plain
<1> QED
  BY <1>1, ConcatProperties DEF Plain

LEMMA PlainNotInstalling ==
  ASSUME NEW s, Plain(s)
  PROVE  ~Installing(s) /\ "finish" \notin Range(s)
<1>1. \A e \in Range(s) : e \in PlainStep
  BY LenProperties, ElementOfSeq DEF Plain, Range
<1>2. "finish" \notin Range(s) /\ "undo metadata" \notin Range(s)
  BY <1>1 DEF PlainStep
<1> QED
  BY <1>2, InstallingTail

LEMMA PlansInstalling ==
  Installing(Install) /\ Installing(Undo) /\ Installing(<<"finish">>)
<1>1. Rest(Install, 1) = Install
  BY PlanTypes, SubSeqFull DEF Rest
<1>2. Rest(Undo, 1) = Undo
  BY PlanTypes, SubSeqFull DEF Rest
<1>3. Rest(Install, 10) = <<"finish">>
  <2>1. \A i \in 10..10 : Install[i] \in StepName
    <3>1. Install[10] \in StepName
      BY InstallPlan DEF StepName
    <3> QED
      BY <3>1
  <2>2. SubSeq(Install, 10, 10) \in Seq(StepName) /\ Len(SubSeq(Install, 10, 10)) = 1
        /\ \A i \in 1..1 : SubSeq(Install, 10, 10)[i] = Install[10 + i - 1]
    BY <2>1, SubSeqProperties
  <2> DEFINE s == Rest(Install, 10)
  <2>3. s \in Seq(StepName) /\ Len(s) = 1 /\ s[1] = "finish"
    <3>1. s = SubSeq(Install, 10, 10)
      BY PlanTypes DEF Rest
    <3>2. 1 \in 1..1 /\ 10 + 1 - 1 = 10
      OBVIOUS
    <3> HIDE DEF s
    <3> QED
      BY <2>2, <3>1, <3>2, InstallPlan
  <2> HIDE DEF s
  <2>4. s = <<"finish">>
    BY <2>3
  <2> QED
    BY <2>4 DEF s
<1>4. 1 \in 1..Len(Install) /\ 10 \in 1..Len(Install) /\ 1 \in 1..Len(Undo)
  BY PlanTypes
<1>5. RestOf(Install, Install) /\ RestOf(Undo, Undo) /\ RestOf(<<"finish">>, Install)
  BY <1>1, <1>2, <1>3, <1>4, Zenon DEF RestOf
<1> QED
  BY <1>5 DEF Installing

\* The installation's launch puts a handshake before what it has left.
LEMMA InstallingPut ==
  ASSUME NEW s, Installing(s), Head(s) \in {"launch", "handshake"}
  PROVE  /\ "finish" \in Range(s)
         /\ Head(s) = "launch" => /\ Installing(<<"handshake">> \o Tail(s))
                                 /\ Head(<<"handshake">> \o Tail(s)) = "handshake"
<1>1. CASE RestOf(s, Install)
  <2>1. "finish" \in Range(s) /\ (Head(s) = "launch" => Launching(<<"handshake">> \o Tail(s)))
    BY <1>1, InstallTail DEF Launching
  <2> QED
    BY <2>1, LaunchTail DEF Installing
<1>2. CASE RestOf(s, Undo)
  BY <1>2, UndoTail DEF Follows
<1>3. CASE Launching(s)
  BY <1>3, LaunchTail
<1> QED
  BY <1>1, <1>2, <1>3 DEF Installing

FilesKept == UNCHANGED <<files, backup, had, installs, fromPart>>

FilesGone ==
  /\ files' = [x \in Part |-> 0] /\ backup' = [x \in Part |-> 0]
  /\ UNCHANGED <<had, installs, fromPart>>

\* An operation that installs nothing goes on so, and removes all of the files or none.
LEMMA PlainStepKeeps ==
  ASSUME ThreadTypeOK, NEW t \in Thread, Plain(todo[t]), Step(t)
  PROVE  Plain(todo'[t]) /\ Alone(t) /\ (FilesKept \/ FilesGone)
<1> USE PlansPlain, GoAlone DEF FilesKept
<1>1. ASSUME Continue(t), ~Idle(t) PROVE Plain(todo'[t]) /\ Alone(t)
  BY <1>1, PlainTail DEF Continue, Idle
<1>2. \A e : At(t, e) => e \in PlainStep
  BY PlainTail DEF At, Idle
<1>3. CASE Reuse(t) \/ Shutdown(t) \/ Handshake(t)
  BY <1>1, <1>3 DEF Reuse, Shutdown, Handshake, At, hostVars, diskVars, counters
<1>4. CASE CannotStart(t) \/ HandshakeFails(t)
  <2>1. AfterFailure(t) = <<>>
    BY PlainNotInstalling DEF AfterFailure
  <2> QED
    BY <1>4, <2>1 DEF CannotStart, HandshakeFails, hostVars, diskVars, counters
<1>5. CASE Spawn(t)
  <2> DEFINE s == <<"handshake">> \o Tail(todo[t])
  <2>1. Plain(s)
    BY <1>5, PlainTail, PlainPut DEF Spawn, At, Idle
  <2>2. Go(t, s) /\ FilesKept
    BY <1>5 DEF Spawn, counters
  <2> HIDE DEF s
  <2> QED
    BY <2>1, <2>2
<1>6. ASSUME NEW e, NEW v, Mark(t, e, v)
      PROVE  Plain(todo'[t]) /\ Alone(t) /\ FilesKept
  BY <1>1, <1>6 DEF Mark, At, hostVars, diskVars, counters
<1>7. ASSUME NEW x \in Part, Save(t, x) \/ Write(t, x) \/ PutBack(t, x)
      PROVE  FALSE
  <2>1. Saving[x] \notin PlainStep /\ Writing[x] \notin PlainStep /\ Undoing[x] \notin PlainStep
    BY PartNames DEF Part, PlainStep
  <2> QED
    BY <1>2, <1>7, <2>1 DEF Save, Write, PutBack
<1>8. ~Finish(t)
  BY <1>2 DEF Finish, PlainStep
<1>9. CASE RemoveFiles(t)
  BY <1>1, <1>9 DEF RemoveFiles, At, hostVars, counters, FilesGone
<1>10. CASE Forget(t) \/ SaveSetting(t)
  BY <1>1, <1>10 DEF Forget, SaveSetting, At, hostVars, counters
<1>11. CASE Find(t) \/ Dial(t)
  BY <1>11 DEF Find, Dial, hostVars, diskVars, counters
<1> QED
  BY <1>3, <1>4, <1>5, <1>6, <1>7, <1>8, <1>9, <1>10, <1>11
     DEF Step, LoaderStep, InstallStep, SettingStep

\* Whatever stage an installation is at, its files may be removed under it.
LEMMA StageGone ==
  ASSUME NEW e, Stage(e), FilesGone
  PROVE  Stage(e)'
<1>1. /\ files'["binary"] = 0 /\ files'["dist"] = 0 /\ files'["metadata"] = 0
      /\ backup'["binary"] = 0 /\ backup'["dist"] = 0 /\ backup'["metadata"] = 0
      /\ UNCHANGED <<had, installs>>
  BY DEF FilesGone, Part
<1> QED
  BY <1>1 DEF Stage, BinarySaved, DistSaved, Saved, BinaryWritten, DistWritten, BinaryPutBack,
     DistPutBack, Part

\* One operation goes on, and none begins to install.
LEMMA PlainKeeps ==
  ASSUME CourseInv, FilesInv, NEW t \in Thread, Plain(todo[t]), Plain(todo'[t]), Alone(t),
         FilesKept \/ FilesGone
  PROVE  CourseInv' /\ FilesInv'
<1>1. \A u \in Thread : Installing(todo'[u]) => Installing(todo[u]) /\ todo'[u] = todo[u]
  BY PlainNotInstalling DEF Alone
<1>2. \A u \in Thread : Installing(todo[u]) => Installing(todo'[u])
  BY PlainNotInstalling DEF Alone
<1>3. CourseInv'
  BY <1>1 DEF CourseInv, Alone
<1>4. NoHalfUpgrade => NoHalfUpgrade'
  BY DEF NoHalfUpgrade, Restorable, FilesKept, FilesGone, Part
<1>5. ASSUME NEW e, Stage(e) PROVE Stage(e)'
  <2>1. CASE FilesKept
    BY <1>5, <2>1 DEF FilesKept, Stage, BinarySaved, DistSaved, Saved, BinaryWritten, DistWritten,
       BinaryPutBack, DistPutBack
  <2> QED
    BY <1>5, <2>1, StageGone
<1>6. UNCHANGED <<had, fromPart>>
  BY DEF FilesKept, FilesGone
<1> QED
  BY <1>1, <1>2, <1>3, <1>4, <1>5, <1>6 DEF FilesInv

\* The installation goes on.
LEMMA InstallerKeeps ==
  ASSUME CourseInv, NEW t \in Thread, Installing(todo[t]), Alone(t),
         Installing(todo'[t]) \/ todo'[t] = <<>>,
         ~fromPart' => /\ NoHalfUpgrade' /\ (todo'[t] = <<>> => had' = {})
                       /\ \A e : Installing(todo'[t]) /\ e = Head(todo'[t]) => Stage(e)'
  PROVE  CourseInv' /\ FilesInv'
<1>1. \A u \in Thread : Installing(todo'[u]) => u = t
  BY DEF CourseInv, Alone
<1>2. CourseInv'
  <2>1. Installing(todo'[t]) \/ Plain(todo'[t])
    BY PlansPlain
  <2> QED
    BY <1>1, <2>1 DEF CourseInv, Alone
<1> QED
  BY <1>1, <1>2 DEF FilesInv

\* An installation goes on with the step that follows, if one does.
LEMMA InstallerGoesOn ==
  ASSUME ThreadTypeOK, NEW t \in Thread, Installing(todo[t]), NEW e, At(t, e), Continue(t)
  PROVE  /\ Alone(t) /\ todo'[t] = Tail(todo[t])
         /\ \/ todo'[t] = <<>> /\ e \in {"finish", "undo metadata"}
            \/ Installing(todo'[t]) /\ Follows(e, Head(todo'[t]))
BY GoAlone, InstallingTail DEF Continue, At

\* Its launch, its handshake and its marks leave the files alone, and what follows needs nothing.
LEMMA InstallerLoads ==
  ASSUME ThreadTypeOK, CourseInv, FilesInv, NEW t \in Thread, Installing(todo[t]),
         LoaderStep(t) \/ Mark(t, "installing", "INSTALLING") \/ Mark(t, "ready", "READY")
  PROVE  CourseInv' /\ FilesInv'
<1> USE PlansInstalling, GoAlone
<1>1. FilesKept
  BY DEF LoaderStep, Reuse, CannotStart, Spawn, Handshake, HandshakeFails, Shutdown, Mark,
     FilesKept, hostVars, diskVars, counters
<1>2. ~fromPart' => NoHalfUpgrade'
  BY <1>1 DEF FilesInv, FilesKept, NoHalfUpgrade, Restorable
<1>3. ~At(t, "shutdown")
  BY InstallingTail DEF At, Follows
<1>4. ASSUME At(t, "launch") \/ At(t, "handshake")
      PROVE  /\ AfterFailure(t) = <<"finish">>
             /\ At(t, "launch") => /\ Installing(<<"handshake">> \o Tail(todo[t]))
                                   /\ Head(<<"handshake">> \o Tail(todo[t])) = "handshake"
  <2>1. Head(todo[t]) \in {"launch", "handshake"}
    BY <1>4 DEF At
  <2> QED
    BY <2>1, InstallingPut DEF AfterFailure, At
<1>5. /\ Alone(t) /\ Installing(todo'[t])
      /\ \/ Head(todo'[t]) \in {"handshake", "ready", "finish"}
         \/ At(t, "installing") /\ Head(todo'[t]) = "save binary"
  <2>1. CASE Reuse(t) \/ Handshake(t)
    <3>1. PICK e \in {"launch", "handshake"} : At(t, e) /\ Continue(t)
      BY <2>1 DEF Reuse, Handshake
    <3>2. Alone(t) /\ Installing(todo'[t]) /\ Follows(e, Head(todo'[t]))
      BY <3>1, InstallerGoesOn
    <3> QED
      BY <3>1, <3>2 DEF Follows
  <2>2. CASE CannotStart(t) \/ HandshakeFails(t)
    <3>1. Go(t, <<"finish">>)
      BY <1>4, <2>2 DEF CannotStart, HandshakeFails
    <3>2. todo'[t] = <<"finish">> /\ Alone(t) /\ Head(<<"finish">>) = "finish"
      BY <3>1
    <3> QED
      BY <3>2
  <2>3. CASE Spawn(t)
    <3>1. Go(t, <<"handshake">> \o Tail(todo[t])) /\ At(t, "launch")
      BY <2>3 DEF Spawn
    <3> QED
      BY <1>4, <3>1
  <2>4. CASE Mark(t, "installing", "INSTALLING") \/ Mark(t, "ready", "READY")
    <3>1. PICK e \in {"installing", "ready"} : At(t, e) /\ Continue(t)
      BY <2>4 DEF Mark
    <3>2. Alone(t) /\ Installing(todo'[t]) /\ Follows(e, Head(todo'[t]))
      BY <3>1, InstallerGoesOn
    <3> QED
      BY <3>1, <3>2 DEF Follows
  <2> QED
    BY <1>3, <2>1, <2>2, <2>3, <2>4 DEF LoaderStep, Shutdown
<1>6. ASSUME ~fromPart', At(t, "installing") PROVE had' = {}
  BY <1>1, <1>6 DEF FilesInv, FilesKept, Stage, At
<1>7. todo'[t] # <<>>
  BY <1>5, InstallingTail
<1>8. ASSUME ~fromPart', NEW e, e = Head(todo'[t]) PROVE Stage(e)'
  BY <1>5, <1>6, <1>8 DEF Stage
<1> QED
  BY <1>2, <1>5, <1>7, <1>8, InstallerKeeps

LEMMA SaveKeeps ==
  ASSUME TypeInv, ThreadTypeOK, CourseInv, FilesInv, NEW t \in Thread, Installing(todo[t]),
         NEW x \in Part, Save(t, x)
  PROVE  CourseInv' /\ FilesInv'
<1> USE GoAlone, PartNames
<1>1. files \in [Part -> Release] /\ backup \in [Part -> Release] /\ had \subseteq Part
  BY DEF TypeInv, TypeOK
<1>2. At(t, Saving[x]) /\ (fromPart => fromPart')
  <2>1. \/ fromPart' = (fromPart \/ (x = "metadata" /\ had' \notin {{}, Part}))
        \/ fromPart' = fromPart
    BY DEF Save
  <2>2. fromPart => fromPart'
    BY <2>1, Zenon
  <2> QED
    BY <2>2 DEF Save
<1>3. ~fromPart => NoHalfUpgrade /\ Stage(Saving[x])
  BY <1>2 DEF FilesInv, At
<1>4. CASE UNCHANGED files /\ had' = {} /\ GiveUp(t, <<>>)
  <2>1. todo'[t] = <<>> /\ Alone(t)
    BY <1>4 DEF GiveUp
  <2>2. ~fromPart' => NoHalfUpgrade'
    BY <1>2, <1>3, <1>4 DEF NoHalfUpgrade, Restorable
  <2>3. ~Installing(todo'[t])
    BY <2>1, InstallingTail
  <2> QED
    BY <1>4, <2>1, <2>2, <2>3, InstallerKeeps
<1>5. CASE /\ Continue(t) /\ files' = [files EXCEPT ![x] = 0]
           /\ backup' = [y \in Part |-> IF y = x THEN files[x]
                                        ELSE IF x = "binary" THEN 0 ELSE backup[y]]
           /\ had' = IF files[x] # 0 THEN had \union {x} ELSE had
           /\ fromPart' = (fromPart \/ (x = "metadata" /\ had' \notin {{}, Part}))
  <2>1. /\ Alone(t) /\ Installing(todo'[t]) /\ Follows(Saving[x], Head(todo'[t]))
    BY <1>2, <1>5, InstallerGoesOn DEF Part
  <2>2. todo'[t] # <<>>
    BY <2>1, InstallingTail
  <2> SUFFICES ASSUME ~fromPart'
               PROVE  NoHalfUpgrade' /\ \A e : e = Head(todo'[t]) => Stage(e)'
    BY <2>1, <2>2, InstallerKeeps
  <2>3. NoHalfUpgrade /\ Stage(Saving[x])
    BY <1>2, <1>3
  <2>4. CASE x = "binary"
    <3>1. had = {} /\ Head(todo'[t]) = "save dist"
      BY <2>1, <2>3, <2>4 DEF Stage, Follows
    <3>2. /\ files'["binary"] = 0 /\ files'["dist"] = files["dist"]
          /\ files'["metadata"] = files["metadata"] /\ backup'["binary"] = files["binary"]
      BY <1>1, <1>5, <2>4 DEF Part
    <3>3. had' \subseteq {"binary"} /\ (had' # {} => files["binary"] # 0)
      BY <1>5, <2>4, <3>1
    <3>4. files["binary"] # 0 /\ files["metadata"] # 0
          => files["binary"] = files["metadata"] /\ files["dist"] = files["metadata"]
      BY <1>2, <2>3 DEF NoHalfUpgrade, Restorable, Part
    <3>5. BinarySaved'
      BY <3>2, <3>3, <3>4 DEF BinarySaved
    <3>6. NoHalfUpgrade'
      BY <3>2 DEF NoHalfUpgrade, Restorable
    <3> QED
      BY <3>1, <3>5, <3>6 DEF Stage
  <2>5. CASE x = "dist"
    <3>1. BinarySaved /\ Head(todo'[t]) = "save metadata"
      BY <2>1, <2>3, <2>5 DEF Stage, Follows
    <3>2. /\ files'["binary"] = files["binary"] /\ files'["metadata"] = files["metadata"]
          /\ backup'["binary"] = backup["binary"] /\ backup'["dist"] = files["dist"]
      BY <1>1, <1>5, <2>5 DEF Part
    <3>3. had' \subseteq {"binary", "dist"} /\ ("binary" \in had' => had # {})
      BY <1>5, <2>5, <3>1 DEF BinarySaved
    <3>4. DistSaved'
      BY <3>1, <3>2, <3>3 DEF BinarySaved, DistSaved
    <3>5. NoHalfUpgrade'
      BY <3>1, <3>2 DEF NoHalfUpgrade, Restorable, BinarySaved
    <3> QED
      BY <3>1, <3>4, <3>5 DEF Stage
  <2>6. CASE x = "metadata"
    <3>1. DistSaved /\ Head(todo'[t]) = "write binary"
      BY <2>1, <2>3, <2>6 DEF Stage, Follows
    <3>2. /\ files'["metadata"] = 0 /\ backup'["metadata"] = files["metadata"]
          /\ backup'["binary"] = backup["binary"] /\ backup'["dist"] = backup["dist"]
      BY <1>1, <1>5, <2>6 DEF Part
    <3>3. had' \in {{}, Part}
      BY <1>5, <2>6
    <3>4. ASSUME had' = Part PROVE files["metadata"] # 0 /\ {"binary", "dist"} \subseteq had
      <4>1. "metadata" \notin had /\ "metadata" \in had' /\ {"binary", "dist"} \subseteq had'
        BY <3>1, <3>4 DEF DistSaved, Part
      <4> QED
        BY <1>5, <2>6, <4>1
    <3>5. Saved'
      BY <3>1, <3>2, <3>3, <3>4 DEF DistSaved, Saved
    <3>6. NoHalfUpgrade'
      BY <3>2 DEF NoHalfUpgrade, Restorable
    <3> QED
      BY <3>1, <3>5, <3>6 DEF Stage
  <2> QED
    BY <2>4, <2>5, <2>6 DEF Part
<1> QED
  BY <1>4, <1>5 DEF Save

LEMMA WriteKeeps ==
  ASSUME TypeInv, ThreadTypeOK, CourseInv, FilesInv, NEW t \in Thread, Installing(todo[t]),
         NEW x \in Part, Write(t, x)
  PROVE  CourseInv' /\ FilesInv'
<1> USE GoAlone, PartNames
<1>1. files \in [Part -> Release]
  BY DEF TypeInv, TypeOK
<1>2. At(t, Writing[x]) /\ UNCHANGED <<fromPart, backup, had, installs>>
  BY DEF Write, hostVars, counters
<1>3. ~fromPart => Stage(Writing[x]) /\ Saved
  <2>1. ~fromPart => Stage(Writing[x])
    BY <1>2 DEF FilesInv, At
  <2>2. Writing[x] \in {"write binary", "write dist", "write metadata"}
    BY DEF Part
  <2> QED
    BY <2>1, <2>2 DEF Stage
<1>4. CASE files' = [files EXCEPT ![x] = 0] /\ GiveUp(t, Undo)
  <2>1. todo'[t] = Undo /\ Alone(t) /\ Installing(Undo)
    BY <1>4, PlansInstalling DEF GiveUp
  <2>2. Undo # <<>> /\ Head(Undo) = "undo binary"
    BY UndoPlan
  <2>3. files'["metadata"] \in {0, files["metadata"]}
    BY <1>1, <1>4 DEF Part
  <2>4. ASSUME ~fromPart' PROVE Saved' /\ NoHalfUpgrade'
    BY <1>2, <1>3, <2>3, <2>4 DEF Saved, NoHalfUpgrade, Restorable
  <2>5. ASSUME ~fromPart', NEW e, e = Head(todo'[t]) PROVE Stage(e)'
    BY <2>1, <2>2, <2>4, <2>5 DEF Stage
  <2> QED
    BY <2>1, <2>2, <2>4, <2>5, InstallerKeeps
<1>5. CASE files' = [files EXCEPT ![x] = installs + 1] /\ Continue(t)
  <2>1. /\ Alone(t) /\ Installing(todo'[t]) /\ Follows(Writing[x], Head(todo'[t]))
    BY <1>2, <1>5, InstallerGoesOn DEF Part
  <2>2. todo'[t] # <<>>
    BY <2>1, InstallingTail
  <2> SUFFICES ASSUME ~fromPart'
               PROVE  NoHalfUpgrade' /\ \A e : e = Head(todo'[t]) => Stage(e)'
    BY <2>1, <2>2, InstallerKeeps
  <2>3. Saved /\ Stage(Writing[x])
    BY <1>2, <1>3
  <2>4. ASSUME x # "metadata" PROVE Saved' /\ NoHalfUpgrade'
    <3>1. files'["metadata"] = 0
      BY <1>1, <1>5, <2>3, <2>4 DEF Saved, Part
    <3> QED
      BY <1>2, <2>3, <3>1 DEF Saved, NoHalfUpgrade, Restorable
  <2>5. CASE x = "binary"
    <3>1. Head(todo'[t]) = "write dist"
      BY <2>1, <2>5 DEF Follows
    <3>2. BinaryWritten'
      BY <1>1, <1>2, <1>5, <2>5 DEF BinaryWritten, Part
    <3> QED
      BY <2>4, <2>5, <3>1, <3>2 DEF Stage
  <2>6. CASE x = "dist"
    <3>1. Head(todo'[t]) = "write metadata" /\ BinaryWritten
      BY <2>1, <2>3, <2>6 DEF Follows, Stage
    <3>2. files'["binary"] = files["binary"] /\ files'["dist"] = installs + 1
      BY <1>1, <1>5, <2>6 DEF Part
    <3>3. DistWritten'
      BY <1>2, <3>1, <3>2 DEF BinaryWritten, DistWritten
    <3> QED
      BY <2>4, <2>6, <3>1, <3>3 DEF Stage
  <2>7. CASE x = "metadata"
    <3>1. Head(todo'[t]) = "launch" /\ DistWritten
      BY <2>1, <2>3, <2>7 DEF Follows, Stage
    <3>2. /\ files'["binary"] = files["binary"] /\ files'["dist"] = files["dist"]
          /\ files'["metadata"] = installs + 1
      BY <1>1, <1>5, <2>7 DEF Part
    <3>3. NoHalfUpgrade'
      BY <3>1, <3>2 DEF DistWritten, NoHalfUpgrade, Restorable, Part
    <3> QED
      BY <3>1, <3>3 DEF Stage
  <2> QED
    BY <2>5, <2>6, <2>7 DEF Part
<1> QED
  BY <1>4, <1>5 DEF Write

LEMMA PutBackKeeps ==
  ASSUME TypeInv, ThreadTypeOK, CourseInv, FilesInv, NEW t \in Thread, Installing(todo[t]),
         NEW x \in Part, PutBack(t, x)
  PROVE  CourseInv' /\ FilesInv'
<1> USE GoAlone, PartNames
<1>1. files \in [Part -> Release] /\ backup \in [Part -> Release]
  BY DEF TypeInv, TypeOK
<1>2. At(t, Undoing[x]) /\ UNCHANGED <<fromPart, installs>>
  BY DEF PutBack, counters
<1>3. ~fromPart => Stage(Undoing[x])
  BY <1>2 DEF FilesInv, At
<1>4. ~fromPart => files["metadata"] = 0 /\ (had = {} \/ x \in had)
  <2>1. \/ x = "binary" /\ Undoing[x] = "undo binary"
        \/ x = "dist" /\ Undoing[x] = "undo dist"
        \/ x = "metadata" /\ Undoing[x] = "undo metadata"
    BY DEF Part
  <2>2. ~fromPart => /\ x = "binary" => Saved
                     /\ x = "dist" => BinaryPutBack
                     /\ x = "metadata" => DistPutBack
    BY <1>3, <2>1 DEF Stage
  <2> QED
    BY <2>1, <2>2 DEF Saved, BinaryPutBack, DistPutBack, Part
<1>5. CASE x \in had /\ backup[x] = 0 /\ Go(t, <<>>) /\ had' = {}
           /\ files' = [files EXCEPT ![x] = backup[x]]
  <2>1. todo'[t] = <<>> /\ Alone(t)
    BY <1>5
  <2>2. files'["metadata"] \in {0, files["metadata"]}
    BY <1>1, <1>5 DEF Part
  <2>3. ~fromPart' => NoHalfUpgrade'
    BY <1>2, <1>4, <2>2 DEF NoHalfUpgrade, Restorable
  <2>4. ~Installing(todo'[t])
    BY <2>1, InstallingTail
  <2> QED
    BY <1>5, <2>1, <2>3, <2>4, InstallerKeeps
<1>6. CASE Continue(t) /\ x \notin had /\ UNCHANGED <<files, backup, had>>
  <2>1. /\ Alone(t)
        /\ \/ todo'[t] = <<>>
           \/ Installing(todo'[t]) /\ Follows(Undoing[x], Head(todo'[t]))
    BY <1>2, <1>6, InstallerGoesOn
  <2>2. ASSUME ~fromPart' PROVE had' = {} /\ files'["metadata"] = 0 /\ NoHalfUpgrade'
    BY <1>2, <1>4, <1>6, <2>2 DEF NoHalfUpgrade, Restorable
  <2>3. ASSUME NEW e, Follows(Undoing[x], e) PROVE e \in {"undo dist", "undo metadata"}
    BY <2>3 DEF Follows, Part
  <2>4. ASSUME ~fromPart', NEW e, e = Head(todo'[t]), Installing(todo'[t]) PROVE Stage(e)'
    <3>1. e \in {"undo dist", "undo metadata"}
      BY <2>1, <2>3, <2>4, InstallingTail
    <3>2. BinaryPutBack' /\ DistPutBack'
      BY <2>2, <2>4 DEF BinaryPutBack, DistPutBack
    <3> QED
      BY <3>1, <3>2 DEF Stage
  <2> QED
    BY <2>1, <2>2, <2>4, InstallerKeeps
<1>7. CASE /\ x \in had /\ backup[x] # 0 /\ Continue(t) /\ had' = had \ {x}
           /\ files' = [files EXCEPT ![x] = backup[x]] /\ backup' = [backup EXCEPT ![x] = 0]
  <2>1. /\ Alone(t)
        /\ \/ todo'[t] = <<>> /\ Undoing[x] \in {"finish", "undo metadata"}
           \/ Installing(todo'[t]) /\ Follows(Undoing[x], Head(todo'[t]))
    BY <1>2, <1>7, InstallerGoesOn
  <2> SUFFICES ASSUME ~fromPart'
               PROVE  /\ NoHalfUpgrade' /\ (todo'[t] = <<>> => had' = {})
                      /\ \A e : Installing(todo'[t]) /\ e = Head(todo'[t]) => Stage(e)'
    BY <2>1, InstallerKeeps
  <2>2. Stage(Undoing[x]) /\ files["metadata"] = 0
    BY <1>2, <1>3, <1>4
  <2>3. CASE x = "binary"
    <3>1. Saved /\ Head(todo'[t]) = "undo dist" /\ todo'[t] # <<>>
      BY <2>1, <2>2, <2>3, InstallingTail DEF Stage, Follows
    <3>2. had = Part /\ had' = {"dist", "metadata"}
      BY <1>7, <2>3, <3>1 DEF Saved, Part
    <3>3. /\ files'["binary"] = backup["binary"] /\ files'["metadata"] = 0
          /\ backup'["dist"] = backup["dist"] /\ backup'["metadata"] = backup["metadata"]
      BY <1>1, <1>7, <2>2, <2>3 DEF Part
    <3>4. BinaryPutBack'
      BY <3>1, <3>2, <3>3 DEF Saved, BinaryPutBack
    <3>5. NoHalfUpgrade'
      BY <3>3 DEF NoHalfUpgrade, Restorable
    <3> QED
      BY <3>1, <3>4, <3>5 DEF Stage
  <2>4. CASE x = "dist"
    <3>1. BinaryPutBack /\ Head(todo'[t]) = "undo metadata" /\ todo'[t] # <<>>
      BY <2>1, <2>2, <2>4, InstallingTail DEF Stage, Follows
    <3>2. had = {"dist", "metadata"} /\ had' = {"metadata"}
      BY <1>7, <2>4, <3>1 DEF BinaryPutBack
    <3>3. /\ files'["binary"] = files["binary"] /\ files'["metadata"] = 0
          /\ files'["dist"] = backup["dist"] /\ backup'["metadata"] = backup["metadata"]
      BY <1>1, <1>7, <2>2, <2>4 DEF Part
    <3>4. DistPutBack'
      BY <3>1, <3>2, <3>3 DEF BinaryPutBack, DistPutBack
    <3>5. NoHalfUpgrade'
      BY <3>3 DEF NoHalfUpgrade, Restorable
    <3> QED
      BY <3>1, <3>4, <3>5 DEF Stage
  <2>5. CASE x = "metadata"
    <3>1. DistPutBack /\ todo'[t] = <<>>
      BY <2>1, <2>2, <2>5 DEF Stage, Follows
    <3>2. had = {"metadata"} /\ had' = {}
      BY <1>7, <2>5, <3>1 DEF DistPutBack
    <3>3. /\ files'["binary"] = files["binary"] /\ files'["dist"] = files["dist"]
          /\ files'["metadata"] = backup["metadata"]
      BY <1>1, <1>7, <2>5 DEF Part
    <3>4. NoHalfUpgrade'
      BY <3>1, <3>2, <3>3 DEF DistPutBack, NoHalfUpgrade, Restorable, Part
    <3>5. ~Installing(todo'[t])
      BY <3>1, InstallingTail
    <3> QED
      BY <3>2, <3>4, <3>5
  <2> QED
    BY <2>3, <2>4, <2>5 DEF Part
<1> QED
  BY <1>5, <1>6, <1>7 DEF PutBack

LEMMA FinishKeeps ==
  ASSUME ThreadTypeOK, CourseInv, FilesInv, NEW t \in Thread, Installing(todo[t]), Finish(t)
  PROVE  CourseInv' /\ FilesInv'
<1>1. At(t, "finish") /\ Continue(t) /\ had' = {} /\ UNCHANGED <<files, fromPart>>
  BY DEF Finish, counters
<1>2. Alone(t) /\ todo'[t] = <<>>
  <2>1. \A f : ~Follows("finish", f)
    BY DEF Follows
  <2> QED
    BY <1>1, <2>1, InstallerGoesOn
<1>3. ~fromPart' => NoHalfUpgrade'
  BY <1>1 DEF FilesInv, NoHalfUpgrade, Restorable
<1>4. ~Installing(todo'[t])
  BY <1>2, InstallingTail
<1> QED
  BY <1>1, <1>2, <1>3, <1>4, InstallerKeeps

LEMMA InstallerStep ==
  ASSUME TypeInv, ThreadTypeOK, CourseInv, FilesInv, NEW t \in Thread, Installing(todo[t]), Step(t)
  PROVE  CourseInv' /\ FilesInv'
<1>1. \A e : At(t, e) => e \notin {"removeFiles", "forget", "disable", "disabled", "enable", "find",
                                  "dial"}
  BY InstallingTail DEF At, Follows
<1>2. ~SettingStep(t) /\ ~Find(t) /\ ~Dial(t)
  BY <1>1 DEF SettingStep, RemoveFiles, Forget, SaveSetting, Mark, Find, Dial
<1>3. CASE LoaderStep(t) \/ Mark(t, "installing", "INSTALLING") \/ Mark(t, "ready", "READY")
  BY <1>3, InstallerLoads
<1>4. CASE Finish(t) \/ \E x \in Part : Save(t, x) \/ Write(t, x) \/ PutBack(t, x)
  BY <1>4, FinishKeeps, SaveKeeps, WriteKeeps, PutBackKeeps
<1> QED
  BY <1>2, <1>3, <1>4 DEF Step, InstallStep

LEMMA BeginsFiles ==
  ASSUME ThreadTypeOK, CourseInv, FilesInv, NEW t \in Thread, Begins(t)
  PROVE  CourseInv' /\ FilesInv'
<1> USE PlansPlain, BeginAlone
<1>1. CASE BeginInstall(t)
  <2>1. ~InstallPending /\ Begin(t, registered', Install)
        /\ UNCHANGED <<files, had, fromPart>>
    BY <1>1 DEF BeginInstall, diskVars
  <2>2. todo'[t] = Install /\ Alone(t)
    BY <2>1
  <2>3. \A u \in Thread : ~Installing(todo[u])
    BY <2>1, InstallingTail DEF InstallPending
  <2>4. \A u \in Thread : Installing(todo'[u]) => u = t
    BY <2>2, <2>3 DEF Alone
  <2>5. Installing(Install) /\ Head(Install) = "installing"
    BY PlansInstalling, InstallPlan
  <2>6. CourseInv'
    BY <2>2, <2>4, <2>5 DEF CourseInv, Alone
  <2>7. ASSUME ~fromPart' PROVE NoHalfUpgrade' /\ had' = {}
    BY <2>1, <2>3, <2>7 DEF FilesInv, NoHalfUpgrade, Restorable
  <2>8. ASSUME had' = {} PROVE Stage("installing")'
    BY <2>8 DEF Stage
  <2> QED
    BY <2>2, <2>4, <2>5, <2>6, <2>7, <2>8 DEF FilesInv
<1>2. ASSUME ~BeginInstall(t)
      PROVE  Plain(todo[t]) /\ Plain(todo'[t]) /\ Alone(t) /\ FilesKept
  <2>1. FilesKept
    BY <1>2 DEF Begins, BeginRemove, BeginDisable, BeginEnable, BeginGetAddr, BeginWarm, FilesKept,
       diskVars, hostVars, counters
  <2>2. PICK s : Plain(s) /\ Begin(t, registered, s)
    <3>1. CASE BeginRemove(t)
      <4> DEFINE s == IF registered # 0 THEN <<"shutdown", "removeFiles", "forget">>
                                        ELSE <<"removeFiles", "forget">>
      <4>1. Plain(s) /\ Begin(t, registered, s)
        BY <3>1 DEF BeginRemove
      <4> HIDE DEF s
      <4> QED
        BY <4>1
    <3>2. CASE BeginDisable(t)
      <4> DEFINE s == IF IsAlive(registered) THEN <<"shutdown", "disable", "disabled">>
                                             ELSE <<"disable", "disabled">>
      <4>1. Plain(s) /\ Begin(t, registered, s)
        BY <3>2 DEF BeginDisable
      <4> HIDE DEF s
      <4> QED
        BY <4>1
    <3>3. CASE BeginEnable(t) \/ BeginGetAddr(t) \/ BeginWarm(t)
      BY <3>3 DEF BeginEnable, BeginGetAddr, BeginWarm
    <3> QED
      BY <1>2, <3>1, <3>2, <3>3 DEF Begins
  <2> QED
    BY <2>1, <2>2
<1> QED
  BY <1>1, <1>2, PlainKeeps

LEMMA InitFiles == Init => CourseInv /\ FilesInv
<1> SUFFICES ASSUME Init PROVE CourseInv /\ FilesInv
  OBVIOUS
<1>1. \A t \in Thread : Plain(todo[t]) /\ ~Installing(todo[t])
  BY PlansPlain, PlainNotInstalling DEF Init
<1>2. NoHalfUpgrade /\ had = {}
  BY DEF Init, NoHalfUpgrade, Restorable, Part
<1> QED
  BY <1>1, <1>2 DEF CourseInv, FilesInv

LEMMA FilesStep ==
  ASSUME TypeInv, ThreadTypeOK, CourseInv, FilesInv, [Next]_vars
  PROVE  CourseInv' /\ FilesInv'
<1>1. ASSUME NEW t \in Thread, Step(t) PROVE CourseInv' /\ FilesInv'
  <2>1. CASE Installing(todo[t])
    BY <1>1, <2>1, InstallerStep
  <2>2. CASE Plain(todo[t])
    BY <1>1, <2>2, PlainStepKeeps, PlainKeeps
  <2> QED
    BY <2>1, <2>2 DEF CourseInv
<1>2. ASSUME NEW t \in Thread, Begins(t) PROVE CourseInv' /\ FilesInv'
  BY <1>2, BeginsFiles
<1>3. CASE Crash \/ Quit
  <2>1. /\ \A t \in Thread : todo'[t] = <<>>
        /\ had' = {} /\ UNCHANGED <<files, fromPart>>
    BY <1>3 DEF Crash, Quit, Restart
  <2>2. \A t \in Thread : Plain(todo'[t]) /\ ~Installing(todo'[t])
    BY <2>1, PlansPlain, PlainNotInstalling
  <2>3. ~fromPart' => NoHalfUpgrade'
    BY <2>1 DEF FilesInv, NoHalfUpgrade, Restorable
  <2> QED
    BY <2>1, <2>2, <2>3 DEF CourseInv, FilesInv
<1>4. CASE (\E p \in Proc : ProcessFails(p)) \/ UNCHANGED vars
  <2>1. UNCHANGED <<todo, files, backup, had, installs, fromPart>>
    BY <1>4 DEF ProcessFails, vars, diskVars, hostVars, threadVars, counters
  <2>2. CourseInv'
    BY <2>1 DEF CourseInv
  <2>3. FilesInv'
    BY <2>1 DEF FilesInv, NoHalfUpgrade, Restorable, Stage, BinarySaved, DistSaved, Saved,
       BinaryWritten, DistWritten, BinaryPutBack, DistPutBack
  <2> QED
    BY <2>2, <2>3
<1> QED
  BY <1>1, <1>2, <1>3, <1>4 DEF Next

-----------------------------------------------------------------------------
(* The theorems *)

LEMMA PluginInvariantStep ==
  ASSUME TypeInv, ProcessInv, ThreadInv, [Next]_vars
  PROVE  TypeInv' /\ ProcessInv' /\ ThreadInv'
<1>1. ThreadInv'
  BY NextThreads DEF TypeInv, TypeOK
<1>2. ASSUME NEW t \in Thread, LoaderStep(t) PROVE TypeInv' /\ ProcessInv'
  BY <1>1, <1>2, LoaderStepTypes, LoaderStepKeepsProcesses
<1>3. ASSUME NEW t \in Thread, InstallStep(t) \/ SettingStep(t) \/ Find(t) \/ Dial(t) \/ Begins(t)
      PROVE  TypeInv' /\ ProcessInv'
  BY <1>1, <1>3, InstallStepTypes, OtherStepTypes, BeginsTypes
<1>4. CASE \E p \in Proc : ProcessFails(p)
  BY <1>1, <1>4, ProcessFailsTypes
<1>5. CASE Crash \/ Quit
  BY <1>1, <1>5, RestartTypes
<1>6. CASE UNCHANGED vars
  <2>1. ProcessInv'
    BY <1>6, SameProcesses DEF vars, loaderVars, hostVars, procVars
  <2>2. TypeInv'
    BY <1>6 DEF vars, TypeInv, TypeOK, diskVars, loaderVars, hostVars, threadVars, counters,
                procVars
  <2> QED
    BY <1>1, <2>1, <2>2
<1> QED
  BY <1>1, <1>2, <1>3, <1>4, <1>5, <1>6 DEF Next, Step

\* The invariant of the plugin: types, threads and what the loaders know of processes.
THEOREM PluginInvariant == Spec => [](TypeInv /\ ProcessInv /\ ThreadInv)
<1>1. Init => TypeInv /\ ProcessInv /\ ThreadInv
  BY InitTypes, InitThreads, InitProcesses
<1>2. TypeInv /\ ProcessInv /\ ThreadInv /\ [Next]_vars
      => (TypeInv /\ ProcessInv /\ ThreadInv)'
  BY PluginInvariantStep
<1> QED
  BY <1>1, <1>2, PTL DEF Spec

\* The files, the loaders and the processes have their types, whatever overlaps.
THEOREM TypeCorrect == Spec => []TypeOK
<1>1. TypeInv => TypeOK
  BY DEF TypeInv
<1> QED
  BY <1>1, PluginInvariant, PTL

\* launchMu, for which launches and shutdowns wait, is only ever held over a handshake.
THEOREM HolderAwaits == Spec => []HolderAwaitsHandshake
<1>1. ThreadInv => HolderAwaitsHandshake
  BY DEF ThreadInv
<1> QED
  BY <1>1, PluginInvariant, PTL

\* No token outlives the process it was made for being the loader's newest.
THEOREM CurrentTokens == Spec => []TokenIsCurrent
<1>1. ProcessInv => TokenIsCurrent
  BY DEF ProcessInv, TokenIsCurrent
<1> QED
  BY <1>1, PluginInvariant, PTL

\* A loader never takes for its own a process it has not started.
THEOREM NoOrphan == Spec => []AdoptsNoOrphan
<1>1. ProcessInv => AdoptsNoOrphan
  BY DEF ProcessInv, Started, AdoptsNoOrphan
<1> QED
  BY <1>1, PluginInvariant, PTL

\* A process that the registered loader started can be stopped through it, for any number of
\* operations, processes and restarts, unless a loader was used that was being or had been removed.
THEOREM Stoppable == Spec => []StartedIsStoppable
<1> DEFINE Courses == RemovalInv /\ OwnInv /\ OrderlyInv
<1>1. Init => Courses
  BY InitOwners, InitOrderly
<1>2. /\ TypeInv /\ ProcessInv /\ ThreadInv /\ (TypeInv /\ ProcessInv /\ ThreadInv)'
      /\ Courses /\ [Next]_vars
      => Courses'
  BY RemovalStep, OwnersStep, OrderlyStep DEF ThreadInv
<1>3. Courses => StartedIsStoppable
  BY DEF OrderlyInv, StartedIsStoppable
<1> HIDE DEF Courses
<1> QED
  BY <1>1, <1>2, <1>3, PluginInvariant, PTL DEF Spec

\* The files and the backup are at every moment as far as the next step of the one installation
\* tells, however many operations run beside it and wherever the host dies.
THEOREM FilesInvariant == Spec => [](CourseInv /\ FilesInv)
<1>1. Init => CourseInv /\ FilesInv
  BY InitFiles
<1>2. /\ TypeInv /\ ProcessInv /\ ThreadInv /\ CourseInv /\ FilesInv /\ [Next]_vars
      => (CourseInv /\ FilesInv)'
  BY FilesStep DEF ThreadInv
<1> QED
  BY <1>1, <1>2, PluginInvariant, PTL DEF Spec

\* Whatever fails and whenever the host dies, what is restored is all of one release, unless an
\* installation had begun from part of an earlier one.
THEOREM NeverHalfUpgraded == Spec => []NoHalfUpgrade
<1>1. FilesInv => NoHalfUpgrade
  BY DEF FilesInv, NoHalfUpgrade
<1> QED
  BY <1>1, FilesInvariant, PTL

=============================================================================
