--------------------------- MODULE PluginLifecycle ---------------------------
(***************************************************************************)
(* One plugin: its files, its loader (plugin/loader.go), its subprocess,   *)
(* and the operations of app/plugin.go on it, which run in goroutines of   *)
(* their own: InstallPlugin, RemovePlugin, DisablePlugin, EnablePlugin,    *)
(* GetPluginBackendAddr and the launches at startup and after a Connect.   *)
(* The host may crash or be quit at any point and is started again.        *)
(*                                                                         *)
(* An operation is the sequence of the steps it has left (todo).  Within a *)
(* step nothing another operation could tell apart happens.                *)
(***************************************************************************)
EXTENDS Naturals, Sequences, Functions

CONSTANTS
  MaxThreads,   \* bound: operations at a time
  MaxLoaders,   \* bound: loaders made
  MaxProcs,     \* bound: processes started; further starts fail
  MaxInstalls,  \* bound: installations
  MaxRestarts   \* bound: restarts of the host

ASSUME PluginAssumption ==
  /\ {MaxThreads, MaxProcs, MaxInstalls, MaxRestarts} \subseteq Nat
  /\ MaxLoaders \in Nat \ {0}

Thread == 1..MaxThreads

Proc == 1..MaxProcs
Loader == 1..MaxLoaders
Part == {"binary", "dist", "metadata"}
Release == 0..MaxInstalls + 1            \* 0: no such file

VARIABLES
  \* on disk
  files, backup,          \* the release each part is of, in place and in .backup
  lock,                   \* the process the lock file names, or 0
  disabled,               \* settings.PluginDisabledState
  \* the loaders
  status, pid, cmd,       \* cmd: the process started last, whose token is the loader's
  launchMu,               \* per loader, the thread that holds it, or 0
  \* the host
  registered,             \* pluginLoaders: the loader, or 0
  removing,               \* removingPluginIDs
  made, base,             \* loaders made so far; those up to base by earlier hosts
  tokens,                 \* tokens the gRPC server accepts, by the process they were made for
  had, spawned,           \* of the installation under way: what was backed up, what it started
  strayed,                \* history: a loader was used that is being or was removed
  todo, on,               \* per thread, the steps left and the loader it works with
  installs, restarts,
  fromPart,               \* history: an installation found only part of an earlier one
  proc, owner             \* per process: its state and the loader that started it

diskVars == <<files, backup, lock, disabled>>
loaderVars == <<status, pid, cmd, launchMu>>
hostVars == <<registered, removing, made, base, tokens, had, spawned, strayed>>
threadVars == <<todo, on>>
counters == <<installs, restarts, fromPart>>
procVars == <<proc, owner>>
vars == <<diskVars, loaderVars, hostVars, threadVars, counters, procVars>>

-----------------------------------------------------------------------------
Running(p) == p # 0 /\ proc[p] \in {"starting", "up"}
Alive(p) == p # 0 /\ proc[p] \in {"starting", "up", "zombie"}   \* isProcessAlive: signal 0
IsAlive(l) == Alive(pid[l])

\* A child of this host that has not been waited for stays a zombie.
Killed(p) == IF owner[p] > base THEN "zombie" ELSE "gone"
Kill(p) == IF Running(p) THEN [proc EXCEPT ![p] = Killed(p)] ELSE proc

Idle(t) == todo[t] = <<>>
At(t, step) == ~Idle(t) /\ Head(todo[t]) = step

\* An operation goes on with these steps; one that returns forgets its loader.
Go(t, steps) ==
  /\ todo' = [todo EXCEPT ![t] = steps]
  /\ on' = IF steps = <<>> THEN [on EXCEPT ![t] = 0] ELSE on
Continue(t) == Go(t, Tail(todo[t]))

\* Goroutines are alike: the first idle thread begins the next operation.
Begin(t, l, steps) ==
  /\ \A u \in Thread : u < t => ~Idle(u)
  /\ Idle(t) /\ todo' = [todo EXCEPT ![t] = steps] /\ on' = [on EXCEPT ![t] = l]

\* RemovePlugin shuts down under pluginsMu, which every look-up takes.
PluginsMuHeld == \E t \in Thread : At(t, "shutdown") /\ "removeFiles" \in Range(todo[t])

\* What is still to be done when a launch has failed.
AfterFailure(t) == IF "finish" \in Range(todo[t]) THEN <<"finish">> ELSE <<>>

\* restoreInstalledPlugins: what the metadata describes, if its binary is there.
Restorable == files["metadata"] # 0 /\ files["binary"] # 0

Init ==
  /\ \/ files = [x \in Part |-> 0] /\ registered = 0 /\ made = 0
     \/ files = [x \in Part |-> 1] /\ registered = 1 /\ made = 1
  /\ backup = [x \in Part |-> 0] /\ lock = 0 /\ disabled = FALSE
  /\ removing = FALSE /\ base = 0 /\ tokens = {} /\ had = {} /\ spawned = 0
  /\ strayed = FALSE
  /\ status = [l \in Loader |-> IF l = registered THEN "READY" ELSE "NOT_INSTALLED"]
  /\ pid = [l \in Loader |-> 0] /\ cmd = [l \in Loader |-> 0]
  /\ launchMu = [l \in Loader |-> 0]
  /\ todo = [t \in Thread |-> <<>>] /\ on = [t \in Thread |-> 0]
  /\ installs = 0 /\ restarts = 0 /\ fromPart = FALSE
  /\ proc = [p \in Proc |-> "none"] /\ owner = [p \in Proc |-> 0]

-----------------------------------------------------------------------------
(* PluginLoader *)

\* Mutant: whatever live process the lock file names is adopted.
Owned_AnyLive(l) == Alive(lock)

\* The lock file names a live process that this loader started.
Owned(l) == cmd[l] # 0 /\ cmd[l] = lock /\ Alive(lock)

\* Launch adopts the process it owns.
Reuse(t) ==
  LET l == on[t] IN
  /\ At(t, "launch") /\ launchMu[l] = 0 /\ Owned(l)
  /\ pid' = [pid EXCEPT ![l] = lock] /\ status' = [status EXCEPT ![l] = "READY"]
  /\ Continue(t)
  /\ UNCHANGED <<diskVars, cmd, launchMu, hostVars, counters, procVars>>

\* Any other process the lock file names is killed, and the file removed; then the binary
\* cannot be started.
CannotStart(t) ==
  LET l == on[t] IN
  /\ At(t, "launch") /\ launchMu[l] = 0 /\ ~Owned(l)
  /\ proc' = Kill(lock) /\ lock' = 0
  /\ status' = [status EXCEPT ![l] = "CRASHED"]
  /\ Go(t, AfterFailure(t))
  /\ UNCHANGED <<files, backup, disabled, pid, cmd, launchMu, hostVars, counters, owner>>

\* Mutant: the token of the previous process stays valid.
NewTokens_KeepOld(l, p) == tokens \union {p}

NewTokens(l, p) == (tokens \ {cmd[l]}) \union {p}

\* A new process and its token; launchMu is held until the handshake is over.
Spawn(t) ==
  LET l == on[t] IN
  /\ At(t, "launch") /\ launchMu[l] = 0 /\ ~Owned(l) /\ files["binary"] # 0
  /\ \E p \in Proc :
       /\ proc[p] = "none" /\ \A q \in Proc : q < p => proc[q] # "none"
       /\ proc' = [Kill(lock) EXCEPT ![p] = "starting"]
       /\ owner' = [owner EXCEPT ![p] = l] /\ cmd' = [cmd EXCEPT ![l] = p]
       /\ tokens' = NewTokens(l, p)
       /\ spawned' = IF "finish" \in Range(todo[t]) THEN p ELSE spawned
  /\ lock' = 0 /\ launchMu' = [launchMu EXCEPT ![l] = t]
  /\ strayed' = (strayed \/ removing \/ l # registered)
  /\ Go(t, <<"handshake">> \o Tail(todo[t]))
  /\ UNCHANGED <<files, backup, disabled, status, pid, registered, removing, made, base, had,
                 counters>>

Handshake(t) ==
  LET l == on[t] p == cmd[l] IN
  /\ At(t, "handshake") /\ proc[p] = "starting"
  /\ proc' = [proc EXCEPT ![p] = "up"] /\ lock' = p
  /\ pid' = [pid EXCEPT ![l] = p] /\ status' = [status EXCEPT ![l] = "READY"]
  /\ launchMu' = [launchMu EXCEPT ![l] = 0]
  /\ Continue(t)
  /\ UNCHANGED <<files, backup, disabled, cmd, hostVars, counters, owner>>

\* Mutant: launchMu is not released on this way out.
HandshakeFails_KeepLock(t) ==
  LET l == on[t] IN
  /\ At(t, "handshake")
  /\ proc' = Kill(cmd[l]) /\ status' = [status EXCEPT ![l] = "CRASHED"]
  /\ Go(t, AfterFailure(t))
  /\ UNCHANGED <<diskVars, pid, cmd, launchMu, hostVars, counters, owner>>

\* The process exits, says something else or says nothing for five seconds.
HandshakeFails(t) ==
  LET l == on[t] IN
  /\ At(t, "handshake")
  /\ proc' = Kill(cmd[l]) /\ status' = [status EXCEPT ![l] = "CRASHED"]
  /\ launchMu' = [launchMu EXCEPT ![l] = 0]
  /\ Go(t, AfterFailure(t))
  /\ UNCHANGED <<diskVars, pid, cmd, hostVars, counters, owner>>

\* Mutant: nothing is killed, what was known of the process is dropped all the same.
ShutDown_NoKill(l) == proc

\* Kill and Wait.
ShutDown(l) == IF cmd[l] # 0 THEN [proc EXCEPT ![cmd[l]] = "gone"] ELSE proc

\* PluginLoader.Shutdown.
Shutdown(t) ==
  LET l == on[t] IN
  /\ At(t, "shutdown") /\ launchMu[l] = 0 /\ Continue(t)
  /\ proc' = ShutDown(l) /\ tokens' = tokens \ {cmd[l]} /\ lock' = 0
  /\ pid' = [pid EXCEPT ![l] = 0] /\ cmd' = [cmd EXCEPT ![l] = 0]
  /\ status' = [status EXCEPT ![l] = "NOT_INSTALLED"]
  /\ strayed' = (strayed \/ l # registered)
  /\ UNCHANGED <<files, backup, disabled, launchMu, registered, removing, made, base, had,
                 spawned, counters, owner>>

LoaderStep(t) ==
  Reuse(t) \/ CannotStart(t) \/ Spawn(t) \/ Handshake(t) \/ HandshakeFails(t) \/ Shutdown(t)

-----------------------------------------------------------------------------
(* InstallPlugin *)

\* The steps about a part of a release.
Saving == [binary |-> "save binary", dist |-> "save dist", metadata |-> "save metadata"]
Writing == [binary |-> "write binary", dist |-> "write dist", metadata |-> "write metadata"]
Undoing == [binary |-> "undo binary", dist |-> "undo dist", metadata |-> "undo metadata"]

\* The card of a plugin that is INSTALLING has no button for it.
InstallPending == \E t \in Thread : Range(todo[t]) \intersect {"finish", "undo metadata"} # {}

Install == <<"installing", "save binary", "save dist", "save metadata",
             "write binary", "write dist", "write metadata", "launch", "ready", "finish">>

BeginInstall(t) ==
  /\ ~PluginsMuHeld /\ ~removing /\ installs < MaxInstalls /\ ~InstallPending
  /\ installs' = installs + 1
  /\ IF registered # 0 THEN UNCHANGED <<registered, made>>
     ELSE made < MaxLoaders /\ made' = made + 1 /\ registered' = made + 1
  /\ Begin(t, registered', Install)
  /\ UNCHANGED <<diskVars, loaderVars, removing, base, tokens, had, spawned, strayed,
                 restarts, fromPart, procVars>>

\* SetStatus, outside every lock.
Mark(t, step, s) ==
  /\ At(t, step) /\ status' = [status EXCEPT ![on[t]] = s] /\ Continue(t)
  /\ UNCHANGED <<diskVars, pid, cmd, launchMu, hostVars, counters, procVars>>

\* A step of the installation fails.
GiveUp(t, left) == status' = [status EXCEPT ![on[t]] = "CRASHED"] /\ Go(t, left)

\* BackupPluginAssets moves one part aside; the first step removes an earlier backup.  Before it
\* the release and its manifest are fetched and checked, which may fail as well.
Save(t, x) ==
  /\ At(t, Saving[x])
  /\ \/ /\ Continue(t)
        /\ files' = [files EXCEPT ![x] = 0]
        /\ backup' = [y \in Part |-> IF y = x THEN files[x]
                                     ELSE IF x = "binary" THEN 0 ELSE backup[y]]
        /\ had' = IF files[x] # 0 THEN had \union {x} ELSE had
        /\ fromPart' = (fromPart \/ (x = "metadata" /\ had' \notin {{}, Part}))
        /\ UNCHANGED status
     \/ /\ files[x] # 0 \/ x = "binary"
        /\ GiveUp(t, <<>>) /\ had' = {} /\ UNCHANGED <<files, fromPart>>
        /\ backup' \in IF x = "binary" THEN {backup, [y \in Part |-> 0]} ELSE {backup}
  /\ UNCHANGED <<lock, disabled, pid, cmd, launchMu, registered, removing, made, base, tokens,
                 spawned, strayed, installs, restarts, procVars>>

\* Mutant: the bundle is not put back.
Undo_NotDist == <<"undo binary", "undo metadata">>

Undo == <<"undo binary", "undo dist", "undo metadata">>

\* A part is downloaded, verified and put in place, or what there is of it is removed and the
\* backup put back.
Write(t, x) ==
  /\ At(t, Writing[x])
  /\ \/ files' = [files EXCEPT ![x] = installs + 1] /\ Continue(t) /\ UNCHANGED status
     \/ files' = [files EXCEPT ![x] = 0] /\ GiveUp(t, Undo)
  /\ UNCHANGED <<backup, lock, disabled, pid, cmd, launchMu, hostVars, counters, procVars>>

\* AssetBackup.Restore; it gives up at a part whose backup was removed meanwhile.
PutBack(t, x) ==
  /\ At(t, Undoing[x])
  /\ \/ x \notin had /\ Continue(t) /\ UNCHANGED <<files, backup, had>>
     \/ /\ x \in had /\ files' = [files EXCEPT ![x] = backup[x]]
        /\ backup' = [backup EXCEPT ![x] = 0]
        /\ IF backup[x] # 0 THEN Continue(t) /\ had' = had \ {x} ELSE Go(t, <<>>) /\ had' = {}
  /\ UNCHANGED <<lock, disabled, loaderVars, registered, removing, made, base, tokens, spawned,
                 strayed, counters, procVars>>

\* The backup is discarded and the goroutine returns, which cancels its context and with it the
\* process started under it.
Finish(t) ==
  /\ At(t, "finish") /\ Continue(t)
  /\ backup' = [x \in Part |-> 0] /\ proc' = Kill(spawned)
  /\ had' = {} /\ spawned' = 0
  /\ UNCHANGED <<files, lock, disabled, loaderVars, registered, removing, made, base, tokens,
                 strayed, counters, owner>>

InstallStep(t) ==
  \/ Mark(t, "installing", "INSTALLING")
  \/ \E x \in Part : Save(t, x) \/ Write(t, x) \/ PutBack(t, x)
  \/ Mark(t, "ready", "READY") \/ Finish(t)

-----------------------------------------------------------------------------
(* RemovePlugin, DisablePlugin, EnablePlugin *)

\* The card waits for the removal and for the disabling it has asked for.
RemovePending == \E t \in Thread : "forget" \in Range(todo[t])
DisablePending == \E t \in Thread : "disabled" \in Range(todo[t])

BeginRemove(t) ==
  /\ ~RemovePending /\ ~PluginsMuHeld
  /\ registered # 0 => status[registered] # "INSTALLING"
  /\ registered # 0 \/ \E x \in Part : files[x] # 0 \/ backup[x] # 0
  /\ Begin(t, registered, IF registered # 0 THEN <<"shutdown", "removeFiles", "forget">>
                                            ELSE <<"removeFiles", "forget">>)
  /\ removing' = TRUE
  /\ UNCHANGED <<diskVars, loaderVars, registered, made, base, tokens, had, spawned, strayed,
                 counters, procVars>>

RemoveFiles(t) ==
  /\ At(t, "removeFiles") /\ Continue(t)
  /\ files' = [x \in Part |-> 0] /\ backup' = [x \in Part |-> 0] /\ lock' = 0
  /\ UNCHANGED <<disabled, loaderVars, hostVars, counters, procVars>>

Forget(t) ==
  /\ At(t, "forget") /\ ~PluginsMuHeld /\ Continue(t)
  /\ removing' = FALSE /\ registered' = (IF on[t] # 0 THEN 0 ELSE registered)
  /\ disabled' = FALSE
  /\ UNCHANGED <<files, backup, lock, loaderVars, made, base, tokens, had, spawned, strayed,
                 counters, procVars>>

BeginDisable(t) ==
  /\ ~DisablePending /\ ~PluginsMuHeld /\ registered # 0
  /\ Begin(t, registered, IF IsAlive(registered) THEN <<"shutdown", "disable", "disabled">>
                                                 ELSE <<"disable", "disabled">>)
  /\ UNCHANGED <<diskVars, loaderVars, hostVars, counters, procVars>>

BeginEnable(t) ==
  /\ ~PluginsMuHeld /\ registered # 0
  /\ Begin(t, registered, <<"enable", "ready", "launch">>)
  /\ UNCHANGED <<diskVars, loaderVars, hostVars, counters, procVars>>

SaveSetting(t) ==
  /\ At(t, "disable") \/ At(t, "enable")
  /\ disabled' = At(t, "disable") /\ Continue(t)
  /\ UNCHANGED <<files, backup, lock, loaderVars, hostVars, counters, procVars>>

SettingStep(t) ==
  RemoveFiles(t) \/ Forget(t) \/ SaveSetting(t) \/ Mark(t, "disabled", "DISABLED")

-----------------------------------------------------------------------------
(* GetPluginBackendAddr and the launches nobody asked for *)

BeginGetAddr(t) ==
  /\ ~PluginsMuHeld /\ registered # 0 /\ status[registered] # "DISABLED"
  /\ Begin(t, registered, <<"find", "dial">>)
  /\ UNCHANGED <<diskVars, loaderVars, hostVars, counters, procVars>>

\* The status was looked at before; it is not looked at again.
Find(t) ==
  /\ At(t, "find")
  /\ Go(t, IF IsAlive(on[t]) THEN <<"dial">> ELSE <<"launch", "dial">>)
  /\ UNCHANGED <<diskVars, loaderVars, hostVars, counters, procVars>>

\* launchInstalledPlugins, prewarmRestoredPlugins.
BeginWarm(t) ==
  /\ ~PluginsMuHeld /\ registered # 0
  /\ status[registered] = "READY" /\ ~IsAlive(registered)
  /\ Begin(t, registered, <<"launch">>)
  /\ UNCHANGED <<diskVars, loaderVars, hostVars, counters, procVars>>

\* The port of the lock file does not answer: the plugin is launched again, once.
Dial(t) ==
  /\ At(t, "dial")
  /\ Go(t, IF lock # 0 /\ proc[lock] # "up" THEN <<"shutdown", "launch">> ELSE <<>>)
  /\ UNCHANGED <<diskVars, loaderVars, hostVars, counters, procVars>>

-----------------------------------------------------------------------------
(* Processes and the host *)

ProcessFails(p) ==
  /\ proc[p] = "up" /\ proc' = Kill(p)
  /\ UNCHANGED <<diskVars, loaderVars, hostVars, threadVars, counters, owner>>

\* What a host leaves: its zombies are reaped, its other processes live on.
Left(procs) == [p \in Proc |-> IF procs[p] = "zombie" THEN "gone" ELSE procs[p]]

\* A new host reads the settings and the plugin directories.
Restart ==
  LET found == Restorable IN
  /\ restarts < MaxRestarts /\ made < MaxLoaders
  /\ restarts' = restarts + 1 /\ base' = made
  /\ registered' = (IF found THEN made + 1 ELSE 0) /\ made' = (IF found THEN made + 1 ELSE made)
  /\ status' = [l \in Loader |-> CASE l # registered' -> "NOT_INSTALLED"
                                   [] disabled -> "DISABLED" [] OTHER -> "READY"]
  /\ pid' = [l \in Loader |-> 0] /\ cmd' = [l \in Loader |-> 0]
  /\ launchMu' = [l \in Loader |-> 0]
  /\ removing' = FALSE /\ tokens' = {} /\ had' = {} /\ spawned' = 0
  /\ strayed' = FALSE /\ todo' = [t \in Thread |-> <<>>] /\ on' = [t \in Thread |-> 0]
  /\ UNCHANGED <<files, backup, disabled, installs, fromPart, owner>>

Crash == Restart /\ proc' = Left(proc) /\ UNCHANGED lock

\* App.Shutdown shuts the plugin down first.
Quit ==
  /\ ~PluginsMuHeld
  /\ registered # 0 => launchMu[registered] = 0
  /\ Restart
  /\ proc' = Left(IF registered # 0 THEN ShutDown(registered) ELSE proc)
  /\ lock' = IF registered # 0 THEN 0 ELSE lock

-----------------------------------------------------------------------------
Step(t) == LoaderStep(t) \/ InstallStep(t) \/ SettingStep(t) \/ Find(t) \/ Dial(t)

Begins(t) ==
  \/ BeginInstall(t) \/ BeginRemove(t) \/ BeginDisable(t) \/ BeginEnable(t)
  \/ BeginGetAddr(t) \/ BeginWarm(t)

Next ==
  \/ \E t \in Thread : Step(t) \/ Begins(t)
  \/ \E p \in Proc : ProcessFails(p)
  \/ Crash \/ Quit

Spec == Init /\ [][Next]_vars

-----------------------------------------------------------------------------
(* Properties *)

\* Type invariant of the files, the loaders and the processes.
TypeOK ==
  /\ {files, backup} \subseteq [Part -> Release] /\ lock \in Proc \union {0}
  /\ {disabled, removing, strayed, fromPart} \subseteq BOOLEAN
  /\ {registered, made, base} \subseteq Loader \union {0}
  /\ status \in [Loader -> {"NOT_INSTALLED", "INSTALLING", "READY", "CRASHED", "DISABLED"}]
  /\ {pid, cmd} \subseteq [Loader -> Proc \union {0}]
  /\ launchMu \in [Loader -> Thread \union {0}]
  /\ tokens \subseteq Proc /\ had \subseteq Part /\ spawned \in Proc \union {0}
  /\ on \in [Thread -> Loader \union {0}]
  /\ proc \in [Proc -> {"none", "starting", "up", "zombie", "gone"}]
  /\ owner \in [Proc -> Loader \union {0}]

\* "An old token must not remain valid indefinitely once its process is gone": the only token
\* of a loader that is accepted is that of the process the loader started last.
TokenIsCurrent == \A p \in tokens : cmd[owner[p]] = p

\* A process of an earlier host, whose event stream is dead although it answers, is never taken
\* for the plugin's own.
AdoptsNoOrphan == \A l \in Loader : pid[l] # 0 => owner[pid[l]] = l

\* A process that the registered loader started can be stopped through it, however launches,
\* shutdowns and failures overlap, unless an operation that took its loader before a removal
\* started or stopped the plugin through it afterwards: the lock file is then another one's.
StartedIsStoppable ==
  \A p \in Proc : ~strayed /\ Running(p) /\ owner[p] = registered => cmd[registered] = p

\* "... rolled back instead of leaving a previously-working plugin half-upgraded": wherever an
\* installation fails and whenever the host dies, what is restored at the next start is all of
\* one release, unless it had begun from part of an earlier one.
NoHalfUpgrade == Restorable /\ ~fromPart => \A x \in Part : files[x] = files["metadata"]

\* launchMu, for which every launch, every shutdown and behind RemovePlugin's every look-up
\* waits, is only ever held by an operation that is waiting for a handshake, which has a timeout.
HolderAwaitsHandshake ==
  \A l \in Loader : launchMu[l] # 0 => At(launchMu[l], "handshake") /\ on[launchMu[l]] = l

=============================================================================
