---------------------------- MODULE NotifySwitch ----------------------------
(***************************************************************************)
(* The notify-me switch (switch.py): a toggle and the hourly refresh of a  *)
(* charger's detail both write the cached subscription, one after asking   *)
(* the portal to change it, the other after asking what it is, each under  *)
(* the coordinator's lock (async_set_availability_subscription,            *)
(* _refresh_station).                                                      *)
(*                                                                         *)
(* The portal is external: what it holds changes when it handles a request *)
(* or in the Mer app, and its answer may be lost.                          *)
(***************************************************************************)
EXTENDS Naturals, Sequences, SequencesExt

CONSTANTS
    Stations,
    Toggles,        \* slots for toggles under way at the same time
    Refresh,        \* the poll's refresh of one charger at a time
    NoStation

ASSUME NotifyAssumption == Refresh \notin Toggles /\ NoStation \notin Stations

VARIABLES
    subscribed,     \* what the portal holds
    notify,         \* _notify, the cache
    published,      \* what the switches show
    lock,           \* _notify_lock: the holder, then those waiting
    pc,             \* where each actor is
    station,        \* the charger it is about
    value,          \* a toggle's wish; what the portal answers the refresh
    (* history: the portal changed and no answer that arrived has told *)
    untold

vars == << subscribed, notify, published, lock, pc, station, value, untold >>

Actors == Toggles \cup {Refresh}
InPortal == { "asked", "answered" }

\* Requests about a subscription are made by the holder of the lock alone.
TypeOK ==
    /\ { subscribed, notify, published, untold } \subseteq [ Stations -> BOOLEAN ]
    /\ lock \in Seq(Actors) /\ IsInjective(lock)
    /\ pc \in [ Actors -> { "idle", "detail", "lock", "publish" } \cup InPortal ]
    /\ station \in [ Actors -> Stations \cup {NoStation} ]
    /\ value \in [ Actors -> BOOLEAN ]
    /\ \A a \in Actors :
        /\ pc[a] = "idle" <=> station[a] = NoStation
        /\ a \in ToSet(lock) <=> pc[a] \in {"lock"} \cup InPortal
        /\ pc[a] \in InPortal => a = Head(lock)

Init ==
    /\ subscribed \in [ Stations -> BOOLEAN ]
    /\ notify = subscribed
    /\ published = subscribed
    /\ lock = << >>
    /\ pc = [ a \in Actors |-> "idle" ]
    /\ station = [ a \in Actors |-> NoStation ]
    /\ value = [ a \in Actors |-> FALSE ]
    /\ untold = [ s \in Stations |-> FALSE ]

-----------------------------------------------------------------------------
Goto(a, at) == pc' = [ pc EXCEPT ![a] = at ]

Finish(a) ==
    /\ Goto(a, "idle")
    /\ station' = [ station EXCEPT ![a] = NoStation ]

\* Waits for the lock, behind whoever holds it.
Queue(a) == Goto(a, "lock") /\ lock' = Append(lock, a)

Toggle(t, s, on) ==
    /\ pc[t] = "idle"
    /\ Queue(t)
    /\ station' = [ station EXCEPT ![t] = s ]
    /\ value' = [ value EXCEPT ![t] = on ]
    /\ UNCHANGED << subscribed, notify, published, untold >>

BeginRefresh(s) ==
    /\ pc[Refresh] = "idle"
    /\ Goto(Refresh, "detail")
    /\ station' = [ station EXCEPT ![Refresh] = s ]
    /\ UNCHANGED << subscribed, notify, published, lock, value, untold >>

\* The detail has come, or has not.
Detail ==
    /\ pc[Refresh] = "detail"
    /\ Queue(Refresh)
    /\ UNCHANGED << subscribed, notify, published, station, value, untold >>

DetailFails ==
    /\ pc[Refresh] = "detail"
    /\ Goto(Refresh, "publish")
    /\ UNCHANGED << subscribed, notify, published, lock, station, value, untold >>

\* A mutation: nobody waits for the lock.
Ask_unlocked(a) ==
    /\ pc[a] = "lock"
    /\ Goto(a, "asked")
    /\ UNCHANGED << subscribed, notify, published, lock, station, value, untold >>

\* The lock is acquired in the order it was asked for.
Ask(a) ==
    /\ pc[a] = "lock" /\ Head(lock) = a
    /\ Goto(a, "asked")
    /\ UNCHANGED << subscribed, notify, published, lock, station, value, untold >>

\* The portal handles the request.
Handle(a) ==
    LET s == station[a]
    IN  /\ pc[a] = "asked"
        /\ Goto(a, "answered")
        /\ IF a = Refresh
           THEN /\ value' = [ value EXCEPT ![a] = subscribed[s] ]
                /\ UNCHANGED subscribed
           ELSE /\ subscribed' = [ subscribed EXCEPT ![s] = value[a] ]
                /\ UNCHANGED value
        /\ untold' = [ untold EXCEPT ![s] = FALSE ]
        /\ UNCHANGED << notify, published, lock, station >>

Commit(a) == notify' = [ notify EXCEPT ![station[a]] = value[a] ]

\* Whoever holds the lock leaves it to the next.
Release == lock' = Tail(lock)

\* The refresh commits what it was told; the poll publishes later.
Read ==
    /\ pc[Refresh] = "answered"
    /\ Commit(Refresh)
    /\ Release
    /\ Goto(Refresh, "publish")
    /\ UNCHANGED << subscribed, published, station, value, untold >>

\* The poll publishes, or fails later on.
EndRefresh ==
    /\ pc[Refresh] = "publish"
    /\ published' \in {published, notify}
    /\ Finish(Refresh)
    /\ UNCHANGED << subscribed, notify, lock, value, untold >>

\* The toggle commits and publishes at once.
Confirmed(t) ==
    /\ pc[t] = "answered"
    /\ Commit(t)
    /\ published' = notify'
    /\ Release
    /\ Finish(t)
    /\ UNCHANGED << subscribed, value, untold >>

\* A mutation: a request that fails keeps the lock.
Lost_locked(a) ==
    /\ pc[a] \in InPortal
    /\ IF a = Refresh THEN Goto(a, "publish") /\ UNCHANGED station ELSE Finish(a)
    /\ untold' = [ untold EXCEPT ![station[a]] = @ \/ pc[a] = "answered" ]
    /\ UNCHANGED << subscribed, notify, published, lock, value >>

\* The request or its answer is lost.  A toggle raises, a refresh keeps the
\* last known value.
Lost(a) ==
    /\ pc[a] \in InPortal
    /\ Release
    /\ IF a = Refresh THEN Goto(a, "publish") /\ UNCHANGED station ELSE Finish(a)
    /\ untold' = [ untold EXCEPT ![station[a]] = @ \/ pc[a] = "answered" ]
    /\ UNCHANGED << subscribed, notify, published, value >>

\* Somebody toggles in the Mer app.
AppToggle(s) ==
    /\ subscribed' = [ subscribed EXCEPT ![s] = ~@ ]
    /\ untold' = [ untold EXCEPT ![s] = TRUE ]
    /\ UNCHANGED << notify, published, lock, pc, station, value >>

-----------------------------------------------------------------------------
Step(a) == Ask(a) \/ Handle(a)
RefreshStep == Detail \/ DetailFails \/ Read \/ EndRefresh \/ Step(Refresh) \/ Lost(Refresh)

Next ==
    \/ \E t \in Toggles, s \in Stations, on \in BOOLEAN : Toggle(t, s, on)
    \/ \E t \in Toggles : Step(t) \/ Confirmed(t) \/ Lost(t)
    \/ \E s \in Stations : BeginRefresh(s) \/ AppToggle(s)
    \/ RefreshStep

Spec == Init /\ [][Next]_vars

\* The portal answers, or the request times out.
Fairness ==
    /\ \A t \in Toggles : WF_vars(Step(t) \/ Confirmed(t) \/ Lost(t))
    /\ WF_vars(RefreshStep)

FairSpec == Spec /\ Fairness

-----------------------------------------------------------------------------
\* What the portal was last known to hold is what the cache holds: no commit,
\* of a toggle or a refresh, overwrites a later answer (_notify_lock), and
\* only a change in the app or a lost answer leaves the cache behind.
CacheFollowsPortal ==
    \A s \in Stations :
        ~untold[s] /\ (\A a \in Actors : station[a] = s => pc[a] # "answered")
          => notify[s] = subscribed[s]

\* Every toggle ends, behind any number of refreshes and other toggles.
EveryToggleEnds == \A t \in Toggles : pc[t] = "lock" ~> pc[t] = "idle"
=============================================================================
