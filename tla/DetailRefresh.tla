---------------------------- MODULE DetailRefresh ----------------------------
(***************************************************************************)
(* Which chargers' detail a poll refreshes (coordinator.py): all of them   *)
(* on the first cycle, which fails as a whole, then the first one that is  *)
(* due, at most one per cycle, so that a cycle costs the portal a constant *)
(* number of requests.                                                     *)
(*                                                                         *)
(* Time is counted in polls.  A cycle is one step: nobody else reads or    *)
(* writes _station_refreshed.                                              *)
(***************************************************************************)
EXTENDS Naturals

CONSTANTS
    N,              \* the number of chargers, in configured order 1 .. N
    DETAIL_REFRESH, \* the polls of an hour
    MaxAborts       \* bound on the cycles in a row that end early

ASSUME DetailAssumption ==
    /\ N \in Nat \ {0} /\ DETAIL_REFRESH \in Nat \ {0} /\ MaxAborts \in Nat

VARIABLES
    refreshed,      \* _station_refreshed: polls since the stamp, or Never
    details,        \* the chargers with detail in the cache
    data,           \* a snapshot has been published
    aborts          \* cycles in a row that ended early

detailVars == << refreshed, details, data, aborts >>

Stations == 1 .. N
\* An hour, the cycles of the other chargers and those that ended early.
Longest == DETAIL_REFRESH + N * (MaxAborts + 1)
Never == Longest + 2     \* no stamp; Longest + 1 stands for any longer

DetailInit ==
    /\ refreshed = [ s \in Stations |-> Never ]
    /\ details = {}
    /\ data = FALSE
    /\ aborts = 0

-----------------------------------------------------------------------------
Primed == \E s \in Stations : refreshed[s] # Never

\* A mutation: the last charger's stamp is not looked at.
Due_but_last(age) ==
    { s \in Stations : age[s] >= DETAIL_REFRESH /\ (Primed => s # N \/ N = 1) }

Due(age) == { s \in Stations : age[s] >= DETAIL_REFRESH }

\* The chargers due, in configured order: all of them on the first cycle,
\* the first one after that (_stations_due).
StationsDue(age) ==
    IF Primed THEN { s \in Due(age) : \A d \in Due(age) : s <= d } ELSE Due(age)

\* The ages of the stamps a poll later.
Aged == [ s \in Stations |->
            IF refreshed[s] >= Never - 1 THEN refreshed[s] ELSE refreshed[s] + 1 ]

\* Nothing is swallowed on the first cycle, and only an error the coordinator
\* acts on is later (_refresh_optional).
Swallowed_always(answered, due) == TRUE

Swallowed(answered, due) == data \/ answered = due

\* A cycle that succeeds.  A detail that was not answered is stamped as well.
Cycle ==
    LET age == Aged
        due == StationsDue(age)
    IN  \E answered \in SUBSET due :
        /\ Swallowed(answered, due)
        /\ refreshed' = [ s \in Stations |-> IF s \in due THEN 0 ELSE age[s] ]
        /\ details' = details \cup answered
        /\ data' = TRUE
        /\ aborts' = 0

\* A cycle that fails on the stations or on the account, or stops at a detail
\* with a rate limit or an authentication error: the one detail that was due
\* is not stamped.
Abort ==
    /\ data /\ aborts < MaxAborts
    /\ refreshed' = Aged
    /\ aborts' = aborts + 1
    /\ UNCHANGED << details, data >>

\* A mutation: the retry finds the stamps of the cycle that failed.
SetupFails_stamped ==
    /\ ~data /\ aborts < MaxAborts
    /\ \E done \in SUBSET Stations :
           refreshed' = [ s \in Stations |-> IF s \in done THEN 0 ELSE Never ]
    /\ aborts' = aborts + 1
    /\ UNCHANGED << details, data >>

\* The first cycle fails: setup is retried, with a coordinator of its own.
SetupFails ==
    /\ ~data /\ aborts < MaxAborts
    /\ refreshed' = [ s \in Stations |-> Never ]
    /\ aborts' = aborts + 1
    /\ UNCHANGED << details, data >>

DetailNext == Cycle \/ Abort \/ SetupFails

DetailSpec == DetailInit /\ [][DetailNext]_detailVars

-----------------------------------------------------------------------------
\* A coordinator has stamps from the cycle that publishes its first snapshot,
\* and none before it.
DetailTypeOK ==
    /\ refreshed \in [ Stations -> 0 .. Never ]
    /\ details \subseteq Stations
    /\ data \in BOOLEAN
    /\ aborts \in 0 .. MaxAborts
    /\ data <=> Primed

\* Names, models and socket labels are composed once, from the first snapshot
\* published: it has every charger's detail (_refresh_optional).
PrimedWhole == data => details = Stations

\* "Each charger is still refreshed once an hour -- just not all in the same
\* tick" (_stations_due): a charger's detail is asked for again within an
\* hour, the cycles of the other chargers and those that ended early.  True
\* as long as the chargers are no more than the successful polls of an hour.
\* False with one more: the last is never the first one due.
RefreshedHourly == data => \A s \in Stations : refreshed[s] <= Longest
=============================================================================
