------------------------------ MODULE LiveViews ------------------------------
(***************************************************************************)
(* How a change in the cluster reaches the page, for one kind of resource  *)
(* (deployments): the informer's handler triggers two debouncers           *)
(* (lib/debouncer), their callbacks list the cache and enqueue a snapshot  *)
(* (emitDeployments, emitDeploymentDetail), the pump (lib/emitpump) emits  *)
(* one topic at a time, and the hooks of the list view and of the detail   *)
(* drawer merge what is pushed with what they fetched.                     *)
(*                                                                         *)
(* The drawer says which object it shows with WatchDeploymentDetail and    *)
(* UnwatchDeploymentDetail (detail_watch.go); the two calls of one commit  *)
(* are executed in any order.                                              *)
(***************************************************************************)
EXTENDS Naturals

CONSTANTS
  Key,         \* namespace/name of the objects
  NoKey,
  Changing,    \* bound: the objects that change; the others do not exist
  MaxChanges,  \* bound: versions of the cluster, the one first listed included
  MaxCommits   \* bound: times the drawer opens, closes or turns to another object

ASSUME ViewAssumption ==
  /\ NoKey \notin Key /\ Key # {} /\ Changing \subseteq Key
  /\ MaxChanges \in Nat \ {0} /\ MaxCommits \in Nat

Topic == {"deployments:update", "deployment:update"}
ListTopic == "deployments:update"
DetailTopic == "deployment:update"
Nothing == <<>>

\* Contents of the cache: the version of each object, 0 for one that does not exist.
Listing == [Key -> 0..MaxChanges]
Detail == Key \X (0..MaxChanges)

VARIABLES
  \* the informer
  cache, changes,
  notices,       \* handler calls that are due
  active,        \* the context is the active one
  \* the debouncers
  armed,         \* topics whose timer runs
  stopped,
  stage, read,   \* what the callback of each topic is about to do, and what it has read
  \* the pump
  pending,       \* the snapshot that waits for each topic, or Nothing
  inHand,        \* the topic and snapshot taken out of pending, or Nothing
  \* detailWatch
  watchKey,
  calls,         \* watch and unwatch calls on their way
  \* the page
  listQuery, listPushed,
  drawer, commits, detailQuery, detailPushed,
  owed           \* history: a version of the drawer's object made while it was watched, or 0

informerVars == <<cache, changes, notices, active>>
debounceVars == <<armed, stopped, stage, read>>
pumpVars == <<pending, inHand>>
watchVars == <<watchKey, calls>>
pageVars == <<listQuery, listPushed, drawer, commits, detailQuery, detailPushed>>
vars == <<informerVars, debounceVars, pumpVars, watchVars, pageVars, owed>>

-----------------------------------------------------------------------------
\* A cluster with some objects, informers that have just synced (their onSynced triggers the
\* list's debouncer), a list that is being fetched, and perhaps a drawer.
Init ==
  /\ cache \in [Key -> {0, 1}] /\ (\A k \in Key \ Changing : cache[k] = 0)
  /\ changes = 1 /\ notices = 0 /\ active = TRUE
  /\ armed = {ListTopic} /\ stopped = FALSE
  /\ stage = [t \in Topic |-> "idle"] /\ read = [t \in Topic |-> Nothing]
  /\ pending = [t \in Topic |-> Nothing] /\ inHand = Nothing
  /\ listQuery = Nothing /\ listPushed = Nothing
  /\ drawer \in Key \union {NoKey} /\ watchKey = drawer /\ calls = {}
  /\ commits = 0 /\ detailQuery = Nothing /\ detailPushed = Nothing
  /\ owed = 0

-----------------------------------------------------------------------------
(* The informer *)

\* The cache changes before its handlers are called.  The bound: not once the context was left.
Change(k, v) ==
  /\ active /\ changes < MaxChanges /\ cache[k] # v
  /\ changes' = changes + 1
  /\ cache' = [cache EXCEPT ![k] = v]
  /\ notices' = notices + 1
  /\ owed' = IF drawer = k /\ watchKey = k THEN v ELSE owed
  /\ UNCHANGED <<active, debounceVars, pumpVars, watchVars, pageVars>>

ObjectChanges == \E k \in Changing : Change(k, changes + 1) \/ Change(k, 0)

\* Mutant: a debouncer whose callback runs is not set again.
Handle_Busy ==
  /\ notices > 0 /\ notices' = notices - 1
  /\ armed' = IF active /\ ~stopped THEN armed \union {t \in Topic : stage[t] = "idle"} ELSE armed
  /\ UNCHANGED <<cache, changes, active, stopped, stage, read, pumpVars, watchVars, pageVars, owed>>

\* Trigger, for both debouncers; stopped ones ignore it.
Handle ==
  /\ notices > 0 /\ notices' = notices - 1
  /\ armed' = IF active /\ ~stopped THEN Topic ELSE armed
  /\ UNCHANGED <<cache, changes, active, stopped, stage, read, pumpVars, watchVars, pageVars, owed>>

\* Another context becomes active.
SwitchAway ==
  /\ active /\ active' = FALSE
  /\ UNCHANGED <<cache, changes, notices, debounceVars, pumpVars, watchVars, pageVars, owed>>

\* The factory handle is stopped, and its debouncers with it.
StopDebouncers ==
  /\ ~active /\ ~stopped
  /\ stopped' = TRUE /\ armed' = {}
  /\ UNCHANGED <<informerVars, stage, read, pumpVars, watchVars, pageVars, owed>>

-----------------------------------------------------------------------------
(* A debouncer's callback *)

Emission(t, from, to, value) ==
  /\ stage[t] = from
  /\ stage' = [stage EXCEPT ![t] = to]
  /\ read' = [read EXCEPT ![t] = value]

\* The timer's function finds its generation current.  The bound: it has not fired again while
\* its previous run is still listing, which takes less than the interval.
Expire(t) ==
  /\ t \in armed /\ armed' = armed \ {t}
  /\ Emission(t, "idle", "checking", Nothing)
  /\ UNCHANGED <<informerVars, stopped, pumpVars, watchVars, pageVars, owed>>

\* activeFn, after the debouncer's unlock.
CheckActive(t) ==
  /\ Emission(t, "checking", IF active THEN "called" ELSE "idle", Nothing)
  /\ UNCHANGED <<informerVars, armed, stopped, pumpVars, watchVars, pageVars, owed>>

\* emitDeployments reads the active factory; once that is another one, nothing of this cache is
\* listed.
ReadList ==
  /\ Emission(ListTopic, "called", IF active THEN "listed" ELSE "idle",
              IF active THEN cache ELSE Nothing)
  /\ UNCHANGED <<informerVars, armed, stopped, pumpVars, watchVars, pageVars, owed>>

\* emitDeploymentDetail: first the watched key ...
GetWatched ==
  /\ IF watchKey = NoKey THEN Emission(DetailTopic, "called", "idle", Nothing)
     ELSE Emission(DetailTopic, "called", "keyed", watchKey)
  /\ UNCHANGED <<informerVars, armed, stopped, pumpVars, watchVars, pageVars, owed>>

\* ... then its object; one that is gone is not reported.
ReadDetail ==
  LET k == read[DetailTopic] IN
  /\ stage[DetailTopic] = "keyed"
  /\ IF active /\ cache[k] # 0 THEN Emission(DetailTopic, "keyed", "listed", <<k, cache[k]>>)
     ELSE Emission(DetailTopic, "keyed", "idle", Nothing)
  /\ UNCHANGED <<informerVars, armed, stopped, pumpVars, watchVars, pageVars, owed>>

-----------------------------------------------------------------------------
(* The pump *)

\* Mutant: a topic that is pending keeps the snapshot it has.
Enqueue_KeepFirst(t) ==
  /\ pending' = IF pending[t] = Nothing THEN [pending EXCEPT ![t] = read[t]] ELSE pending
  /\ Emission(t, "listed", "idle", Nothing)
  /\ UNCHANGED <<informerVars, armed, stopped, inHand, watchVars, pageVars, owed>>

\* Enqueue replaces what is pending.
Enqueue(t) ==
  /\ pending' = [pending EXCEPT ![t] = read[t]]
  /\ Emission(t, "listed", "idle", Nothing)
  /\ UNCHANGED <<informerVars, armed, stopped, inHand, watchVars, pageVars, owed>>

\* At a tick any one topic is taken.
Drain(t) ==
  /\ inHand = Nothing /\ pending[t] # Nothing
  /\ inHand' = <<t, pending[t]>>
  /\ pending' = [pending EXCEPT ![t] = Nothing]
  /\ UNCHANGED <<informerVars, debounceVars, watchVars, pageVars, owed>>

\* The event reaches the hooks; the drawer's takes only what is about its own object.
Emit ==
  /\ inHand # Nothing /\ inHand' = Nothing
  /\ listPushed' = IF inHand[1] = ListTopic THEN inHand[2] ELSE listPushed
  /\ detailPushed' =
       IF inHand[1] = DetailTopic /\ inHand[2][1] = drawer THEN inHand[2] ELSE detailPushed
  /\ UNCHANGED <<informerVars, debounceVars, pending, watchVars, listQuery, drawer, commits,
                 detailQuery, owed>>

-----------------------------------------------------------------------------
(* The page *)

\* ListDeployments answers.
FetchList ==
  /\ listQuery = Nothing /\ listQuery' = cache
  /\ UNCHANGED <<informerVars, debounceVars, pumpVars, watchVars, listPushed, drawer, commits,
                 detailQuery, detailPushed, owed>>

\* GetDeploymentByName answers.
FetchDetail ==
  /\ drawer # NoKey /\ detailQuery = Nothing
  /\ detailQuery' = <<drawer, cache[drawer]>>
  /\ UNCHANGED <<informerVars, debounceVars, pumpVars, watchVars, listQuery, listPushed, drawer,
                 commits, detailPushed, owed>>

\* toggleDeployment: in one commit the old effect's cleanup calls Unwatch and the new effect
\* Watch.  The bound: a user is slower than the calls of the previous commit, and the page is
\* that of the active context.
ToggleDeployment(k) ==
  /\ active /\ k # drawer /\ calls = {} /\ commits < MaxCommits
  /\ drawer' = k /\ commits' = commits + 1
  /\ detailQuery' = Nothing /\ detailPushed' = Nothing
  /\ calls' = {<<"unwatch", drawer>>, <<"watch", k>>} \ {<<"unwatch", NoKey>>, <<"watch", NoKey>>}
  /\ owed' = 0
  /\ UNCHANGED <<informerVars, debounceVars, pumpVars, watchKey, listQuery, listPushed>>

Watch(k) ==
  /\ <<"watch", k>> \in calls /\ calls' = calls \ {<<"watch", k>>}
  /\ watchKey' = k
  /\ UNCHANGED <<informerVars, debounceVars, pumpVars, pageVars, owed>>

\* Mutant: the watch is cleared whatever it is on.
Unwatch_Unchecked(k) ==
  /\ <<"unwatch", k>> \in calls /\ calls' = calls \ {<<"unwatch", k>>}
  /\ watchKey' = NoKey
  /\ UNCHANGED <<informerVars, debounceVars, pumpVars, pageVars, owed>>

Unwatch(k) ==
  /\ <<"unwatch", k>> \in calls /\ calls' = calls \ {<<"unwatch", k>>}
  /\ watchKey' = IF watchKey = k THEN NoKey ELSE watchKey
  /\ UNCHANGED <<informerVars, debounceVars, pumpVars, pageVars, owed>>

Empty(listing) == \A k \in Key : listing[k] = 0

\* useGetDeployments: the push is shown unless there is none or it is empty.
ShownList ==
  IF listPushed # Nothing /\ ~Empty(listPushed) THEN listPushed ELSE listQuery

\* Mutant: what was fetched is preferred.
ShownDetail_Fetched == IF detailQuery # Nothing THEN detailQuery ELSE detailPushed

\* useGetDeploymentDetail.
ShownDetail == IF detailPushed # Nothing THEN detailPushed ELSE detailQuery

-----------------------------------------------------------------------------
Callback(t) ==
  \/ Expire(t) \/ CheckActive(t) \/ Enqueue(t)
  \/ t = ListTopic /\ ReadList
  \/ t = DetailTopic /\ (GetWatched \/ ReadDetail)

Answer == FetchList \/ FetchDetail \/ \E k \in Key : Watch(k) \/ Unwatch(k)

Next ==
  \/ ObjectChanges \/ Handle \/ SwitchAway \/ StopDebouncers
  \/ \E t \in Topic : Callback(t) \/ Drain(t)
  \/ Emit
  \/ Answer
  \/ \E k \in Key \union {NoKey} : ToggleDeployment(k)

Spec == Init /\ [][Next]_vars

\* Handlers, timers, callbacks and calls go on.  The pump takes any entry of a Go map, whose
\* iteration starts at random: no topic is passed over for ever.
Fairness ==
  /\ WF_vars(Handle) /\ WF_vars(Emit) /\ WF_vars(Answer)
  /\ \A t \in Topic : WF_vars(Callback(t)) /\ SF_vars(Drain(t))

FairSpec == Spec /\ Fairness

-----------------------------------------------------------------------------
(* Properties *)

\* Type invariant of the pipeline and the views.
TypeOK ==
  /\ cache \in Listing /\ changes \in Nat /\ notices \in Nat
  /\ active \in BOOLEAN /\ stopped \in BOOLEAN /\ armed \subseteq Topic
  /\ stage[ListTopic] \in {"idle", "checking", "called", "listed"}
  /\ stage[DetailTopic] \in {"idle", "checking", "called", "keyed", "listed"}
  /\ read[ListTopic] \in IF stage[ListTopic] = "listed" THEN Listing ELSE {Nothing}
  /\ read[DetailTopic] \in CASE stage[DetailTopic] = "keyed" -> Key
                             [] stage[DetailTopic] = "listed" -> Detail
                             [] OTHER -> {Nothing}
  /\ watchKey \in Key \union {NoKey} /\ calls \subseteq {"watch", "unwatch"} \X Key
  /\ listQuery \in Listing \union {Nothing} /\ listPushed \in Listing \union {Nothing}
  /\ drawer \in Key \union {NoKey}
  /\ detailQuery \in Detail \union {Nothing} /\ detailPushed \in Detail \union {Nothing}

\* "An unwatch for a stale key can't clobber a newer watch": in whichever order the two calls of
\* a commit are executed, the object that is watched is then the drawer's.
WatchFollowsDrawer == calls = {} => watchKey = drawer

\* An update of this topic is on its way: a handler call, a timer, a callback, a snapshot that
\* waits for a tick, or the event itself.
OnItsWay(t) ==
  notices > 0 \/ t \in armed \/ stage[t] # "idle" \/ pending[t] # Nothing
  \/ (inHand # Nothing /\ inHand[1] = t)

\* No update is lost between the informer and the page, although timers are reset, snapshots are
\* replaced and callbacks run on after what they read (debouncer.go:27-77, pump.go:33-77): while
\* a view does not show what it should, the update that will make it so is on its way.
NoUpdateIsLost ==
  active =>
    /\ Empty(cache) \/ ShownList = cache \/ OnItsWay(ListTopic)
    /\ owed = 0 \/ ShownDetail = <<drawer, owed>> \/ OnItsWay(DetailTopic)

\* Whatever is replaced on the way, the list view ends up with the cache as long as the context
\* is active and there is an object to show.
ListConverges == <>[](active /\ ~Empty(cache) => ShownList = cache)

\* A change that is made while the drawer's watch is in place is shown in it, unless the drawer
\* turns away, the object changes again or the context is left.
WatchedChangeIsShown ==
  \A v \in 1..MaxChanges :
    (owed = v) ~> (owed # v \/ ~active \/ ShownDetail = <<drawer, v>>)

\* "... so views stay live without re-polling": the list view ends up with the cache, empty or not.
ListIsLive == <>[](active => ShownList = cache)

=============================================================================
