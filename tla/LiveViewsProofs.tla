---------------------------- MODULE LiveViewsProofs ----------------------------
(***************************************************************************)
(* What holds of the live views for any objects, changes and commits.      *)
(*                                                                         *)
(* The calls on their way after a commit are a watch of the drawer's       *)
(* object and an unwatch of another one (CallsAreOfDrawer), and whatever   *)
(* of them has not been executed is what keeps the watched key from being  *)
(* the drawer's (WatchIsDue, UnwatchIsDue).                                *)
(*                                                                         *)
(* No update is lost: once the cache has been read after its last change,  *)
(* the newest snapshot among callback, pump and page is the cache          *)
(* (ListIsNewest), and for the drawer what it is owed (OwedIsNewest).      *)
(***************************************************************************)
EXTENDS LiveViews, TLAPS

CallsAreOfDrawer ==
  \A k \in Key : /\ <<"watch", k>> \in calls => k = drawer
                 /\ <<"unwatch", k>> \in calls => k # drawer

WatchIsDue == drawer # NoKey => watchKey = drawer \/ <<"watch", drawer>> \in calls

UnwatchIsDue == drawer = NoKey => watchKey = NoKey \/ <<"unwatch", watchKey>> \in calls

WatchTypeOK ==
  /\ watchKey \in Key \union {NoKey} /\ drawer \in Key \union {NoKey}
  /\ calls \subseteq {"watch", "unwatch"} \X Key

\* The inductive invariant of the watch.
WatchInv == WatchTypeOK /\ CallsAreOfDrawer /\ WatchIsDue /\ UnwatchIsDue

\* What is in the pump.
PumpTypeOK ==
  /\ pending[ListTopic] \in Listing \union {Nothing}
  /\ pending[DetailTopic] \in Detail \union {Nothing}
  /\ pending \in [Topic -> Listing \union Detail \union {Nothing}]
  /\ inHand \in ({ListTopic} \X Listing) \union ({DetailTopic} \X Detail) \union {Nothing}

\* The inductive invariant of the types.
TypeInv ==
  /\ TypeOK /\ PumpTypeOK
  /\ stage \in [Topic -> {"idle", "checking", "called", "keyed", "listed"}]
  /\ read \in [Topic -> Listing \union Detail \union Key \union {Nothing}]

-----------------------------------------------------------------------------
LEMMA WatchStep ==
  ASSUME WatchInv, [Next]_vars
  PROVE  WatchInv'
<1> USE ViewAssumption DEF WatchInv
<1>1. CASE UNCHANGED <<watchVars, drawer>>
  BY <1>1 DEF watchVars, WatchTypeOK, CallsAreOfDrawer, WatchIsDue, UnwatchIsDue
<1>2. ASSUME NEW k \in Key, Watch(k) PROVE WatchInv'
  <2>1. k = drawer /\ watchKey' = k /\ drawer' = drawer /\ calls' = calls \ {<<"watch", k>>}
    BY <1>2 DEF Watch, CallsAreOfDrawer, pageVars
  <2> QED
    BY <2>1 DEF WatchTypeOK, CallsAreOfDrawer, WatchIsDue, UnwatchIsDue
<1>3. ASSUME NEW k \in Key, Unwatch(k) PROVE WatchInv'
  <2>1. k # drawer /\ watchKey' = (IF watchKey = k THEN NoKey ELSE watchKey)
        /\ drawer' = drawer /\ calls' = calls \ {<<"unwatch", k>>}
    BY <1>3 DEF Unwatch, CallsAreOfDrawer, pageVars
  <2>2. WatchTypeOK' /\ CallsAreOfDrawer'
    BY <2>1 DEF WatchTypeOK, CallsAreOfDrawer
  <2>3. WatchIsDue' /\ UnwatchIsDue'
    BY <2>1 DEF WatchTypeOK, WatchIsDue, UnwatchIsDue
  <2> QED
    BY <2>2, <2>3
<1>4. ASSUME NEW k \in Key \union {NoKey}, ToggleDeployment(k) PROVE WatchInv'
  <2>1. k # drawer /\ calls = {} /\ drawer' = k /\ watchKey' = watchKey
        /\ calls' = {<<"unwatch", drawer>>, <<"watch", k>>}
                    \ {<<"unwatch", NoKey>>, <<"watch", NoKey>>}
    BY <1>4 DEF ToggleDeployment
  <2>2. watchKey = drawer
    BY <2>1 DEF WatchIsDue, UnwatchIsDue
  <2>3. WatchTypeOK'
    BY <2>1 DEF WatchTypeOK
  <2>4. CallsAreOfDrawer'
    BY <2>1 DEF CallsAreOfDrawer
  <2>5. WatchIsDue' /\ UnwatchIsDue'
    BY <2>1, <2>2 DEF WatchIsDue, UnwatchIsDue, WatchTypeOK
  <2> QED
    BY <2>3, <2>4, <2>5
<1>5. ASSUME NEW t \in Topic, Callback(t) \/ Drain(t) PROVE UNCHANGED <<watchVars, drawer>>
  BY <1>5 DEF Callback, Expire, CheckActive, Enqueue, ReadList, GetWatched, ReadDetail, Drain,
     pageVars
<1>6. CASE ObjectChanges \/ Handle \/ SwitchAway \/ StopDebouncers \/ Emit
  <2>1. UNCHANGED <<watchVars, drawer>>
    BY <1>6 DEF ObjectChanges, Change, Handle, SwitchAway, StopDebouncers, Emit, pageVars
  <2> QED
    BY <1>1, <2>1
<1>7. CASE FetchList \/ FetchDetail
  BY <1>1, <1>7 DEF FetchList, FetchDetail
<1>8. CASE UNCHANGED vars
  BY <1>1, <1>8 DEF vars, pageVars
<1> QED
  BY <1>1, <1>2, <1>3, <1>4, <1>5, <1>6, <1>7, <1>8 DEF Next, Answer

\* What is watched, is on its way to being watched, and is to be unwatched.
THEOREM WatchInvariant == Spec => []WatchInv
<1>1. Init => WatchInv
  BY DEF Init, WatchInv, WatchTypeOK, CallsAreOfDrawer, WatchIsDue, UnwatchIsDue
<1> QED
  BY <1>1, WatchStep, PTL DEF Spec

\* In whichever order the calls of a commit are executed, the drawer's object is watched.
THEOREM WatchFollows == Spec => []WatchFollowsDrawer
<1>1. WatchInv => WatchFollowsDrawer
  BY DEF WatchInv, WatchIsDue, UnwatchIsDue, WatchFollowsDrawer
<1> QED
  BY <1>1, WatchInvariant, PTL

-----------------------------------------------------------------------------
LEMMA TopicsDiffer ==
  /\ ListTopic \in Topic /\ DetailTopic \in Topic /\ ListTopic # DetailTopic
  /\ \A t \in Topic : t = ListTopic \/ t = DetailTopic
BY DEF Topic, ListTopic, DetailTopic

LEMMA InitTypes == Init => TypeInv
<1> SUFFICES ASSUME Init PROVE TypeInv
  OBVIOUS
<1> USE ViewAssumption, TopicsDiffer
<1>1. cache \in Listing
  BY DEF Init, Listing
<1> QED
  BY <1>1 DEF Init, TypeInv, TypeOK, PumpTypeOK

\* What a callback reads has the type its next stage asks for.
LEMMA EmissionTypes ==
  ASSUME TypeInv, NEW t \in Topic, NEW from, NEW to, NEW value, Emission(t, from, to, value),
         \/ to \in {"idle", "checking", "called"} /\ value = Nothing
         \/ t = ListTopic /\ to = "listed" /\ value \in Listing
         \/ t = DetailTopic /\ to = "keyed" /\ value \in Key
         \/ t = DetailTopic /\ to = "listed" /\ value \in Detail
  PROVE  /\ stage'[ListTopic] \in {"idle", "checking", "called", "listed"}
         /\ stage'[DetailTopic] \in {"idle", "checking", "called", "keyed", "listed"}
         /\ read'[ListTopic] \in IF stage'[ListTopic] = "listed" THEN Listing ELSE {Nothing}
         /\ read'[DetailTopic] \in CASE stage'[DetailTopic] = "keyed" -> Key
                                    [] stage'[DetailTopic] = "listed" -> Detail
                                    [] OTHER -> {Nothing}
         /\ stage' \in [Topic -> {"idle", "checking", "called", "keyed", "listed"}]
         /\ read' \in [Topic -> Listing \union Detail \union Key \union {Nothing}]
<1> USE TopicsDiffer DEF TypeInv, TypeOK
<1>1. stage' = [stage EXCEPT ![t] = to] /\ read' = [read EXCEPT ![t] = value]
  BY DEF Emission
<1>2. CASE t = ListTopic
  BY <1>1, <1>2
<1>3. CASE t = DetailTopic
  BY <1>1, <1>3
<1> QED
  BY <1>2, <1>3

LEMMA CallbackTypes ==
  ASSUME TypeInv, NEW t \in Topic, Callback(t)
  PROVE  TypeInv'
<1> USE TopicsDiffer, ViewAssumption DEF TypeInv
<1>1. CASE Expire(t)
  BY <1>1, EmissionTypes DEF Expire, TypeOK, PumpTypeOK, informerVars, pumpVars, watchVars, pageVars
<1>2. CASE CheckActive(t)
  BY <1>2, EmissionTypes DEF CheckActive, TypeOK, PumpTypeOK, informerVars, pumpVars, watchVars,
     pageVars
<1>3. CASE Enqueue(t)
  <2>1. PumpTypeOK'
    <3>1. stage[t] = "listed" /\ pending' = [pending EXCEPT ![t] = read[t]] /\ inHand' = inHand
      BY <1>3 DEF Enqueue, Emission
    <3>2. CASE t = ListTopic
      BY <3>1, <3>2 DEF PumpTypeOK, TypeOK
    <3>3. CASE t = DetailTopic
      BY <3>1, <3>3 DEF PumpTypeOK, TypeOK
    <3> QED
      BY <3>2, <3>3
  <2> QED
    BY <1>3, <2>1, EmissionTypes DEF Enqueue, TypeOK, informerVars, watchVars, pageVars
<1>4. CASE t = ListTopic /\ ReadList
  BY <1>4, EmissionTypes
     DEF ReadList, TypeOK, PumpTypeOK, informerVars, pumpVars, watchVars, pageVars
<1>5. CASE t = DetailTopic /\ GetWatched
  BY <1>5, EmissionTypes DEF GetWatched, TypeOK, PumpTypeOK, informerVars, pumpVars, watchVars,
     pageVars
<1>6. CASE t = DetailTopic /\ ReadDetail
  <2>1. read[DetailTopic] \in Key
    BY <1>6 DEF ReadDetail, TypeOK
  <2>2. <<read[DetailTopic], cache[read[DetailTopic]]>> \in Detail
    BY <2>1 DEF TypeOK, Listing, Detail
  <2> QED
    BY <1>6, <2>2, EmissionTypes DEF ReadDetail, TypeOK, PumpTypeOK, informerVars, pumpVars,
       watchVars, pageVars
<1> QED
  BY <1>1, <1>2, <1>3, <1>4, <1>5, <1>6 DEF Callback

LEMMA NextTypes ==
  ASSUME TypeInv, [Next]_vars
  PROVE  TypeInv'
<1> USE TopicsDiffer, ViewAssumption DEF TypeInv
<1>1. ASSUME NEW k \in Changing, NEW v \in {changes + 1, 0}, Change(k, v) PROVE TypeInv'
  <2>1. v \in 0..MaxChanges
    BY <1>1 DEF Change, TypeOK
  <2>2. cache' \in Listing
    BY <1>1, <2>1 DEF Change, TypeOK, Listing
  <2> QED
    BY <1>1, <2>2 DEF Change, TypeOK, PumpTypeOK, debounceVars, pumpVars, watchVars, pageVars
<1>2. CASE Handle
  BY <1>2 DEF Handle, TypeOK, PumpTypeOK, pumpVars, watchVars, pageVars
<1>3. CASE SwitchAway \/ StopDebouncers
  BY <1>3 DEF SwitchAway, StopDebouncers, TypeOK, PumpTypeOK, debounceVars, informerVars, pumpVars,
     watchVars, pageVars
<1>4. ASSUME NEW t \in Topic, Drain(t) PROVE TypeInv'
  <2>1. PumpTypeOK'
    BY <1>4 DEF Drain, PumpTypeOK
  <2> QED
    BY <1>4, <2>1 DEF Drain, TypeOK, informerVars, debounceVars, watchVars, pageVars
<1>5. CASE Emit
  <2>1. CASE inHand \in {ListTopic} \X Listing
    <3>1. inHand[1] = ListTopic /\ inHand[2] \in Listing
      BY <2>1
    <3> QED
      BY <1>5, <3>1 DEF Emit, TypeOK, PumpTypeOK, informerVars, debounceVars, watchVars
  <2>2. CASE inHand \in {DetailTopic} \X Detail
    <3>1. inHand[1] = DetailTopic /\ inHand[2] \in Detail
      BY <2>2
    <3> QED
      BY <1>5, <3>1 DEF Emit, TypeOK, PumpTypeOK, informerVars, debounceVars, watchVars
  <2> QED
    BY <1>5, <2>1, <2>2 DEF Emit, PumpTypeOK
<1>6. CASE FetchList
  BY <1>6 DEF FetchList, TypeOK, PumpTypeOK, informerVars, debounceVars, pumpVars, watchVars
<1>7. CASE FetchDetail
  <2>1. <<drawer, cache[drawer]>> \in Detail
    BY <1>7 DEF FetchDetail, TypeOK, Listing, Detail
  <2> QED
    BY <1>7, <2>1
       DEF FetchDetail, TypeOK, PumpTypeOK, informerVars, debounceVars, pumpVars, watchVars
<1>8. ASSUME NEW k \in Key, Watch(k) \/ Unwatch(k) PROVE TypeInv'
  BY <1>8 DEF Watch, Unwatch, TypeOK, PumpTypeOK, informerVars, debounceVars, pumpVars, pageVars
<1>9. ASSUME NEW k \in Key \union {NoKey}, ToggleDeployment(k) PROVE TypeInv'
  <2>1. calls' \subseteq {"watch", "unwatch"} \X Key
    BY <1>9 DEF ToggleDeployment, TypeOK
  <2> QED
    BY <1>9, <2>1 DEF ToggleDeployment, TypeOK, PumpTypeOK, informerVars, debounceVars, pumpVars
<1>10. CASE UNCHANGED vars
  BY <1>10 DEF vars, TypeOK, PumpTypeOK, informerVars, debounceVars, pumpVars, watchVars, pageVars
<1> QED
  BY <1>1, <1>2, <1>3, <1>4, <1>5, <1>6, <1>7, <1>8, <1>9, <1>10, CallbackTypes
     DEF Next, Answer, ObjectChanges

\* The types of the pipeline, what the pump holds included.
LEMMA TypeInvariant == Spec => []TypeInv
BY InitTypes, NextTypes, PTL DEF Spec

\* Type correctness of the pipeline and the views for any objects, changes and commits.
THEOREM TypeCorrect == Spec => []TypeOK
<1>1. TypeInv => TypeOK
  BY DEF TypeInv
<1> QED
  BY <1>1, TypeInvariant, PTL

-----------------------------------------------------------------------------
(* Updates *)

\* The newest snapshot of a topic that has been read: in the callback, in the pump, on its way
\* to the page, or pushed.
Newest(t, pushed) ==
  IF stage[t] = "listed" THEN read[t]
  ELSE IF pending[t] # Nothing THEN pending[t]
  ELSE IF inHand # Nothing /\ inHand[1] = t THEN inHand[2]
  ELSE pushed

\* The cache has been read since it changed last.
IsRead(t) == notices = 0 /\ t \notin armed /\ stage[t] \notin {"checking", "called"}

StoppedIsLeft == stopped => ~active

ListIsNewest == active /\ IsRead(ListTopic) => Newest(ListTopic, listPushed) = cache

\* A version that is owed is that of the drawer's object, which is watched.
OwedIsWatched == owed # 0 => drawer # NoKey /\ watchKey = drawer /\ cache[drawer] = owed

OwedIsNewest ==
  active /\ owed # 0 /\ IsRead(DetailTopic) =>
    IF stage[DetailTopic] = "keyed" THEN read[DetailTopic] = drawer
    ELSE Newest(DetailTopic, detailPushed) = <<drawer, owed>>

\* The inductive invariant of the updates, over TypeInv and WatchInv.
UpdateInv == StoppedIsLeft /\ ListIsNewest /\ OwedIsWatched /\ OwedIsNewest

LEMMA ListingIsNotNothing == Nothing \notin Listing
<1> SUFFICES ASSUME Nothing \in Listing PROVE FALSE
  OBVIOUS
<1>1. DOMAIN Nothing = Key
  BY DEF Listing
<1>2. DOMAIN Nothing = {}
  BY DEF Nothing
<1> QED
  BY <1>1, <1>2, ViewAssumption

\* Steps of the informer and its handlers: what was read may be out of date, and is not counted.
LEMMA InformerKeeps ==
  ASSUME TypeInv, WatchInv, UpdateInv, ObjectChanges \/ Handle \/ SwitchAway \/ StopDebouncers
  PROVE  UpdateInv'
<1> USE TopicsDiffer, ViewAssumption DEF UpdateInv
<1>1. ASSUME NEW k \in Changing, NEW v \in {changes + 1, 0}, Change(k, v) PROVE UpdateInv'
  <2>1. notices' # 0
    BY <1>1 DEF Change, TypeInv, TypeOK
  <2>2. OwedIsWatched'
    <3>1. k \in Key /\ cache' = [cache EXCEPT ![k] = v] /\ UNCHANGED <<drawer, watchKey>>
          /\ owed' = (IF drawer = k /\ watchKey = k THEN v ELSE owed)
      BY <1>1 DEF Change, watchVars, pageVars
    <3> QED
      BY <3>1 DEF OwedIsWatched, TypeInv, TypeOK, Listing
  <2>3. StoppedIsLeft'
    BY <1>1 DEF Change, StoppedIsLeft, debounceVars
  <2> QED
    BY <2>1, <2>2, <2>3 DEF ListIsNewest, OwedIsNewest, IsRead
<1>2. CASE Handle
  <2>1. UNCHANGED <<cache, active, stopped, stage, read, pending, inHand, listPushed, drawer,
                    watchKey, detailPushed, owed>>
    BY <1>2 DEF Handle, pumpVars, watchVars, pageVars
  <2>2. active => armed' = Topic
    BY <1>2 DEF Handle, StoppedIsLeft
  <2> QED
    BY <2>1, <2>2 DEF StoppedIsLeft, ListIsNewest, OwedIsWatched, OwedIsNewest, IsRead, Topic
<1>3. CASE SwitchAway \/ StopDebouncers
  <2>1. ~active' /\ UNCHANGED <<cache, drawer, watchKey, owed>>
    BY <1>3 DEF SwitchAway, StopDebouncers, informerVars, watchVars, pageVars
  <2> QED
    BY <2>1 DEF StoppedIsLeft, ListIsNewest, OwedIsWatched, OwedIsNewest
<1> QED
  BY <1>1, <1>2, <1>3 DEF ObjectChanges

\* Steps of the list's callback.
LEMMA ListCallbackKeeps ==
  ASSUME TypeInv, WatchInv, UpdateInv, Callback(ListTopic)
  PROVE  UpdateInv'
<1> USE TopicsDiffer DEF UpdateInv
<1>1. /\ UNCHANGED <<cache, notices, active, stopped, inHand, listPushed, drawer, watchKey,
                     detailPushed, owed>>
      /\ armed' = armed \/ armed' = armed \ {ListTopic}
      /\ stage'[DetailTopic] = stage[DetailTopic] /\ read'[DetailTopic] = read[DetailTopic]
      /\ pending'[DetailTopic] = pending[DetailTopic]
  BY DEF Callback, Expire, CheckActive, ReadList, Enqueue, Emission, informerVars, pumpVars,
         watchVars, pageVars, TypeInv, PumpTypeOK
<1>2. StoppedIsLeft' /\ OwedIsWatched' /\ OwedIsNewest'
  BY <1>1 DEF StoppedIsLeft, OwedIsWatched, OwedIsNewest, IsRead, Newest
<1>3. ListIsNewest'
  <2> SUFFICES ASSUME active', (IsRead(ListTopic))'
               PROVE  (Newest(ListTopic, listPushed))' = cache'
    BY DEF ListIsNewest
  <2>1. CASE Expire(ListTopic) \/ CheckActive(ListTopic)
    BY <1>1, <2>1 DEF Expire, CheckActive, Emission, IsRead, TypeInv
  <2>2. CASE ReadList
    BY <1>1, <2>2 DEF ReadList, Emission, Newest, TypeInv
  <2>3. CASE Enqueue(ListTopic)
    <3>1. /\ stage[ListTopic] = "listed" /\ stage'[ListTopic] = "idle"
          /\ pending'[ListTopic] = read[ListTopic] /\ armed' = armed
      BY <2>3 DEF Enqueue, Emission, TypeInv, PumpTypeOK
    <3>2. IsRead(ListTopic)
      BY <1>1, <3>1 DEF IsRead
    <3>3. read[ListTopic] = cache
      BY <1>1, <3>1, <3>2 DEF ListIsNewest, Newest
    <3>4. cache # Nothing
      BY ListingIsNotNothing DEF TypeInv, TypeOK
    <3> QED
      BY <1>1, <3>1, <3>3, <3>4 DEF Newest
  <2> QED
    BY <2>1, <2>2, <2>3 DEF Callback
<1> QED
  BY <1>2, <1>3

\* Steps of the drawer's callback.
LEMMA DetailCallbackKeeps ==
  ASSUME TypeInv, WatchInv, UpdateInv, Callback(DetailTopic)
  PROVE  UpdateInv'
<1> USE TopicsDiffer DEF UpdateInv
<1>1. /\ UNCHANGED <<cache, notices, active, stopped, inHand, listPushed, drawer, watchKey,
                     detailPushed, owed>>
      /\ armed' = armed \/ armed' = armed \ {DetailTopic}
      /\ stage'[ListTopic] = stage[ListTopic] /\ read'[ListTopic] = read[ListTopic]
      /\ pending'[ListTopic] = pending[ListTopic]
  BY DEF Callback, Expire, CheckActive, GetWatched, ReadDetail, Enqueue, Emission, informerVars,
         pumpVars, watchVars, pageVars, TypeInv, PumpTypeOK
<1>2. StoppedIsLeft' /\ OwedIsWatched' /\ ListIsNewest'
  BY <1>1 DEF StoppedIsLeft, OwedIsWatched, ListIsNewest, IsRead, Newest
<1>3. OwedIsNewest'
  <2> SUFFICES ASSUME active', owed' # 0, (IsRead(DetailTopic))'
               PROVE  IF stage'[DetailTopic] = "keyed" THEN read'[DetailTopic] = drawer'
                      ELSE (Newest(DetailTopic, detailPushed))' = <<drawer, owed>>'
    BY DEF OwedIsNewest
  <2>1. drawer # NoKey /\ watchKey = drawer /\ cache[drawer] = owed
    BY <1>1 DEF OwedIsWatched
  <2>2. CASE Expire(DetailTopic) \/ CheckActive(DetailTopic)
    BY <1>1, <2>2 DEF Expire, CheckActive, Emission, IsRead, TypeInv
  <2>3. CASE GetWatched
    BY <1>1, <2>1, <2>3 DEF GetWatched, Emission, TypeInv
  <2>4. CASE ReadDetail
    <3>1. stage[DetailTopic] = "keyed" /\ armed' = armed
      BY <2>4 DEF ReadDetail
    <3>2. read[DetailTopic] = drawer
      BY <1>1, <3>1 DEF OwedIsNewest, IsRead
    <3> QED
      BY <1>1, <2>1, <2>4, <3>1, <3>2 DEF ReadDetail, Emission, Newest, TypeInv
  <2>5. CASE Enqueue(DetailTopic)
    <3>1. /\ stage[DetailTopic] = "listed" /\ stage'[DetailTopic] = "idle"
          /\ pending'[DetailTopic] = read[DetailTopic] /\ armed' = armed
      BY <2>5 DEF Enqueue, Emission, TypeInv, PumpTypeOK
    <3>2. IsRead(DetailTopic)
      BY <1>1, <3>1 DEF IsRead
    <3>3. read[DetailTopic] = <<drawer, owed>>
      BY <1>1, <3>1, <3>2 DEF OwedIsNewest, Newest
    <3> QED
      BY <1>1, <3>1, <3>3 DEF Newest, Nothing
  <2> QED
    BY <2>2, <2>3, <2>4, <2>5 DEF Callback
<1> QED
  BY <1>2, <1>3

\* Steps of the pump.
LEMMA PumpKeeps ==
  ASSUME TypeInv, WatchInv, UpdateInv, Emit \/ \E t \in Topic : Drain(t)
  PROVE  UpdateInv'
<1> USE TopicsDiffer DEF UpdateInv
<1>1. UNCHANGED <<cache, notices, active, stopped, armed, stage, read, drawer, watchKey, owed>>
  BY DEF Emit, Drain, informerVars, debounceVars, watchVars, pageVars
<1>2. StoppedIsLeft' /\ OwedIsWatched'
  BY <1>1 DEF StoppedIsLeft, OwedIsWatched
<1>3. ASSUME NEW t \in Topic, Drain(t) PROVE ListIsNewest' /\ OwedIsNewest'
  <2>1. /\ inHand = Nothing /\ pending[t] # Nothing /\ inHand' = <<t, pending[t]>>
        /\ inHand' # Nothing /\ pending' = [pending EXCEPT ![t] = Nothing]
        /\ UNCHANGED <<listPushed, detailPushed>>
    BY <1>3 DEF Drain, Nothing, pageVars
  <2>2. Newest(ListTopic, listPushed)' = Newest(ListTopic, listPushed)
        /\ Newest(DetailTopic, detailPushed)' = Newest(DetailTopic, detailPushed)
    BY <1>1, <2>1 DEF Newest, TypeInv, PumpTypeOK
  <2> QED
    BY <1>1, <2>2 DEF ListIsNewest, OwedIsNewest, IsRead
<1>4. CASE Emit
  <2>1. inHand # Nothing /\ inHand' = Nothing /\ pending' = pending
        /\ listPushed' = (IF inHand[1] = ListTopic THEN inHand[2] ELSE listPushed)
        /\ detailPushed' = (IF inHand[1] = DetailTopic /\ inHand[2][1] = drawer
                            THEN inHand[2] ELSE detailPushed)
    BY <1>4 DEF Emit
  <2>2. ListIsNewest'
    <3>1. Newest(ListTopic, listPushed)' = Newest(ListTopic, listPushed)
      BY <1>1, <2>1 DEF Newest
    <3> QED
      BY <1>1, <3>1 DEF ListIsNewest, IsRead
  <2>3. OwedIsNewest'
    <3>1. Newest(DetailTopic, detailPushed) = <<drawer, owed>>
          => Newest(DetailTopic, detailPushed)' = <<drawer, owed>>
      BY <1>1, <2>1 DEF Newest
    <3> QED
      BY <1>1, <3>1 DEF OwedIsNewest, IsRead
  <2> QED
    BY <1>2, <2>2, <2>3
<1> QED
  BY <1>2, <1>3, <1>4

\* Answers to the page, and a drawer that turns away.
LEMMA PageKeeps ==
  ASSUME TypeInv, WatchInv, UpdateInv,
         Answer \/ \E k \in Key \union {NoKey} : ToggleDeployment(k)
  PROVE  UpdateInv'
<1> USE DEF UpdateInv
<1>1. UNCHANGED <<cache, notices, active, stopped, armed, stage, read, pending, inHand, listPushed>>
  BY DEF Answer, FetchList, FetchDetail, Watch, Unwatch, ToggleDeployment, informerVars,
         debounceVars, pumpVars, watchVars, pageVars
<1>2. StoppedIsLeft' /\ ListIsNewest'
  BY <1>1 DEF StoppedIsLeft, ListIsNewest, IsRead, Newest
<1>3. OwedIsWatched' /\ OwedIsNewest'
  <2>1. CASE \E k \in Key \union {NoKey} : ToggleDeployment(k)
    BY <2>1 DEF ToggleDeployment, OwedIsWatched, OwedIsNewest
  <2>2. CASE Answer
    <3>1. UNCHANGED <<drawer, detailPushed, owed>>
      BY <2>2 DEF Answer, FetchList, FetchDetail, Watch, Unwatch, watchVars, pageVars
    <3>2. watchKey = drawer => watchKey' = drawer
      BY <2>2 DEF Answer, FetchList, FetchDetail, Watch, Unwatch, watchVars, WatchInv,
                  CallsAreOfDrawer
    <3> QED
      BY <1>1, <3>1, <3>2 DEF OwedIsWatched, OwedIsNewest, IsRead, Newest
  <2> QED
    BY <2>1, <2>2
<1> QED
  BY <1>2, <1>3

\* What was read last of each topic is on its way, or shown.
THEOREM UpdateInvariant == Spec => []UpdateInv
<1>1. Init => UpdateInv
  BY DEF Init, UpdateInv, StoppedIsLeft, ListIsNewest, OwedIsWatched, OwedIsNewest, IsRead
<1>2. TypeInv /\ WatchInv /\ UpdateInv /\ [Next]_vars => UpdateInv'
  <2> SUFFICES ASSUME TypeInv, WatchInv, UpdateInv, [Next]_vars PROVE UpdateInv'
    OBVIOUS
  <2>1. ASSUME NEW t \in Topic, Callback(t) PROVE UpdateInv'
    BY <2>1, ListCallbackKeeps, DetailCallbackKeeps, TopicsDiffer
  <2>2. CASE UNCHANGED vars
    BY <2>2 DEF vars, informerVars, debounceVars, pumpVars, watchVars, pageVars, UpdateInv,
       StoppedIsLeft, ListIsNewest, OwedIsWatched, OwedIsNewest, IsRead, Newest
  <2> QED
    BY <2>1, <2>2, InformerKeeps, PumpKeeps, PageKeeps DEF Next
<1> QED
  BY <1>1, <1>2, WatchInvariant, TypeInvariant, PTL DEF Spec

\* For any objects, changes and commits, no update is lost between the informer and the page
\* (debouncer.go:27-77, pump.go:33-77, useGetDeployments.ts:28).
THEOREM NoUpdateLost == Spec => []NoUpdateIsLost
<1>1. TypeInv /\ UpdateInv => NoUpdateIsLost
  <2> SUFFICES ASSUME TypeInv, UpdateInv, active PROVE NoUpdateIsLost
    BY DEF NoUpdateIsLost
  <2>1. ~OnItsWay(ListTopic) => listPushed = cache
    BY DEF OnItsWay, UpdateInv, ListIsNewest, IsRead, Newest, TypeInv, TypeOK
  <2>2. listPushed = cache /\ ~Empty(cache) => ShownList = cache
    BY ListingIsNotNothing DEF ShownList, TypeInv, TypeOK
  <2>3. ~OnItsWay(DetailTopic) /\ owed # 0 => detailPushed = <<drawer, owed>>
    BY DEF OnItsWay, UpdateInv, OwedIsNewest, IsRead, Newest, TypeInv, TypeOK
  <2>4. detailPushed = <<drawer, owed>> => ShownDetail = <<drawer, owed>>
    BY DEF ShownDetail, Nothing
  <2> QED
    BY <2>1, <2>2, <2>3, <2>4 DEF NoUpdateIsLost
<1> QED
  BY <1>1, TypeInvariant, UpdateInvariant, PTL

=============================================================================
