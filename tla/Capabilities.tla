---------------------------- MODULE Capabilities ----------------------------
(***************************************************************************)
(* The cache of what a start needs (coordinator.py): the capabilities of a *)
(* charger's sockets, one answer for all of them, read a few seconds after *)
(* a status changes, on Refresh now, and at the press of a start button,   *)
(* which commits what it read when its command ends.                       *)
(*                                                                         *)
(* The portal is external.  An answer is abstracted to how many status     *)
(* changes of the charger it takes account of.                             *)
(***************************************************************************)
EXTENDS Naturals, FiniteSets

CONSTANTS
    Chargers,
    Presses,        \* slots for start commands under way
    RefreshNow,     \* the Refresh now button
    NoCharger,
    MaxChanges,     \* bound on the status changes of a charger
    MayFail         \* whether requests fail and the rate limit runs out

ASSUME CapabilitiesAssumption ==
    /\ MaxChanges \in Nat \ {0}
    /\ MayFail \in BOOLEAN
    /\ RefreshNow \notin Chargers \cup Presses
    /\ Presses \cap Chargers = {}
    /\ NoCharger \notin Chargers

VARIABLES
    portal,         \* the status changes of each charger so far
    stations,       \* those the coordinator has learnt of
    capabilities,   \* those the cached capabilities take account of
    pending,        \* _capabilities_pending
    pc,             \* where each reader is; a charger is its own scheduled reader
    station,        \* the charger it reads
    answer,         \* what it was answered
    left,           \* the chargers Refresh now has yet to read
    (* history: chargers whose scheduled read was skipped or failed, or was *)
    (* answered before a change that came while it was still pending        *)
    missed,
    (* history: what the cached capabilities have taken account of at best *)
    best

vars == << portal, stations, capabilities, pending, pc, station, answer, left, missed, best >>
cache == << capabilities, best >>

Readers == Chargers \cup Presses \cup {RefreshNow}
Counts == [ Chargers -> 0 .. MaxChanges ]

\* A charger is pending from the change to the end of its scheduled read.
TypeOK ==
    /\ { portal, stations, capabilities, best } \subseteq Counts
    /\ pending \subseteq Chargers /\ missed \subseteq Chargers /\ left \subseteq Chargers
    /\ pc \in [ Readers -> { "idle", "delay", "asked", "answered", "waiting" } ]
    /\ station \in [ Readers -> Chargers \cup {NoCharger} ]
    /\ answer \in [ Readers -> 0 .. MaxChanges ]
    /\ \A r \in Readers : station[r] = NoCharger <=> pc[r] = "idle"
    /\ \A c \in Chargers : (c \in pending <=> pc[c] # "idle") /\ station[c] \in {c, NoCharger}
    /\ \A c \in Chargers : stations[c] <= portal[c] /\ capabilities[c] <= best[c]

\* The first poll has just shown the chargers; nothing is known of them.
Init ==
    /\ portal = [ c \in Chargers |-> 1 ]
    /\ stations = portal
    /\ capabilities = [ c \in Chargers |-> 0 ] /\ best = capabilities
    /\ pending = Chargers /\ missed = {} /\ left = {}
    /\ pc = [ r \in Readers |-> IF r \in Chargers THEN "delay" ELSE "idle" ]
    /\ station = [ r \in Readers |-> IF r \in Chargers THEN r ELSE NoCharger ]
    /\ answer = [ r \in Readers |-> 0 ]

-----------------------------------------------------------------------------
\* The changes of `learnt` are new: their chargers are to be read, unless a
\* read is pending (_schedule_capabilities).  One already answered takes no
\* account of them.
Schedule_behind_refresh_now(learnt) ==
    LET new == { c \in learnt : c \notin pending /\ station[RefreshNow] # c }
    IN  /\ pending' = pending \cup new
        /\ pc' = [ r \in Readers |-> IF r \in new THEN "delay" ELSE pc[r] ]
        /\ station' = [ r \in Readers |-> IF r \in new THEN r ELSE station[r] ]
        /\ missed' = missed \cup { c \in learnt : pc[c] = "answered" }

Schedule(learnt) ==
    LET new == learnt \ pending
    IN  /\ pending' = pending \cup new
        /\ pc' = [ r \in Readers |-> IF r \in new THEN "delay" ELSE pc[r] ]
        /\ station' = [ r \in Readers |-> IF r \in new THEN r ELSE station[r] ]
        /\ missed' = missed \cup { c \in learnt : pc[c] = "answered" }

\* Somebody uses a socket of the charger.
Change(c) ==
    /\ portal[c] < MaxChanges
    /\ portal' = [ portal EXCEPT ![c] = @ + 1 ]
    /\ UNCHANGED << stations, cache, pending, pc, station, answer, left, missed >>

\* A push tells of the changes of one charger, a poll of all.
Learn(chargers) ==
    LET learnt == { c \in chargers : stations[c] # portal[c] }
    IN  /\ stations' = [ c \in Chargers |-> IF c \in learnt THEN portal[c] ELSE stations[c] ]
        /\ Schedule(learnt)
        /\ UNCHANGED << portal, cache, answer, left >>

\* A reader is done: it forgets its charger, a scheduled read whatever became
\* of it (the finally of _refresh_capabilities_later).
EndRead_if_read(r) ==
    /\ pc' = [ pc EXCEPT ![r] = "idle" ]
    /\ station' = [ station EXCEPT ![r] = NoCharger ]
    /\ pending' = IF pc[r] = "answered" THEN pending \ {r} ELSE pending

EndRead(r) ==
    /\ pc' = [ pc EXCEPT ![r] = "idle" ]
    /\ station' = [ station EXCEPT ![r] = NoCharger ]
    /\ pending' = pending \ {r}

\* The delay is over, or the button is pressed, and the request is sent.
Ask(c) ==
    /\ pc[c] = "delay"
    /\ pc' = [ pc EXCEPT ![c] = "asked" ]
    /\ UNCHANGED << portal, stations, cache, pending, station, answer, left, missed >>

Press(p, c) ==
    /\ pc[p] = "idle"
    /\ pc' = [ pc EXCEPT ![p] = "asked" ]
    /\ station' = [ station EXCEPT ![p] = c ]
    /\ UNCHANGED << portal, stations, cache, pending, answer, left, missed >>

\* Refresh now has polled: it reads every charger in turn.
BeginRefreshNow ==
    /\ pc[RefreshNow] = "idle" /\ left = {}
    /\ left' = Chargers
    /\ UNCHANGED << portal, stations, cache, pending, pc, station, answer, missed >>

AskNow(c) ==
    /\ pc[RefreshNow] = "idle" /\ c \in left
    /\ pc' = [ pc EXCEPT ![RefreshNow] = "asked" ]
    /\ station' = [ station EXCEPT ![RefreshNow] = c ]
    /\ left' = left \ {c}
    /\ UNCHANGED << portal, stations, cache, pending, answer, missed >>

\* At the rate-limit floor nothing is read.
Skip(c) ==
    /\ MayFail
    /\ pc[c] = "delay"
    /\ EndRead(c)
    /\ missed' = missed \cup {c}
    /\ UNCHANGED << portal, stations, cache, answer, left >>

SkipNow(c) ==
    /\ MayFail
    /\ pc[RefreshNow] = "idle" /\ c \in left
    /\ left' = left \ {c}
    /\ UNCHANGED << portal, stations, cache, pending, pc, station, answer, missed >>

\* The portal judges each socket by its real state.
Answer(r) ==
    /\ pc[r] = "asked"
    /\ pc' = [ pc EXCEPT ![r] = "answered" ]
    /\ answer' = [ answer EXCEPT ![r] = portal[station[r]] ]
    /\ missed' = IF r \in Chargers THEN missed \ {r} ELSE missed
    /\ UNCHANGED << portal, stations, cache, pending, station, left >>

Fails(r) ==
    /\ MayFail
    /\ pc[r] = "asked"
    /\ EndRead(r)
    /\ missed' = missed \cup ({r} \cap Chargers)
    /\ UNCHANGED << portal, stations, cache, answer, left >>

Commit(r) ==
    LET c == station[r]
    IN  /\ capabilities' = [ capabilities EXCEPT ![c] = answer[r] ]
        /\ best' = [ best EXCEPT ![c] = IF answer[r] > @ THEN answer[r] ELSE @ ]

Read(r) ==
    /\ pc[r] = "answered" /\ r \notin Presses
    /\ Commit(r)
    /\ EndRead(r)
    /\ UNCHANGED << portal, stations, answer, left, missed >>

\* The start is sent; its outcome is waited for.
Started(p) ==
    /\ pc[p] = "answered"
    /\ pc' = [ pc EXCEPT ![p] = "waiting" ]
    /\ UNCHANGED << portal, stations, cache, pending, station, answer, left, missed >>

\* The command ends, refused at once or resolved, with what it read at the
\* press (_command).
EndPress(p) ==
    /\ p \in Presses /\ pc[p] \in { "answered", "waiting" }
    /\ Commit(p)
    /\ EndRead(p)
    /\ UNCHANGED << portal, stations, answer, left, missed >>

-----------------------------------------------------------------------------
ScheduledStep(c) == Ask(c) \/ Skip(c) \/ Answer(c) \/ Fails(c) \/ Read(c)

NowStep ==
    \/ BeginRefreshNow
    \/ Answer(RefreshNow) \/ Fails(RefreshNow) \/ Read(RefreshNow)
    \/ \E c \in Chargers : AskNow(c) \/ SkipNow(c)

PressStep(p) ==
    \/ Answer(p) \/ Fails(p) \/ Started(p) \/ EndPress(p)
    \/ \E c \in Chargers : Press(p, c)

Next ==
    \/ \E c \in Chargers : Change(c) \/ Learn({c}) \/ ScheduledStep(c)
    \/ Learn(Chargers)
    \/ NowStep
    \/ \E p \in Presses : PressStep(p)

Spec == Init /\ [][Next]_vars

\* A timer fires, and the portal answers or the request times out.
FairSpec == Spec /\ \A c \in Chargers : WF_vars(ScheduledStep(c))

-----------------------------------------------------------------------------
\* A change the coordinator learnt of is taken account of in the end: as long
\* as a read that takes no account of it was not skipped, failed or answered
\* too early, the charger is pending or an answer since covers the change
\* (_schedule_capabilities, _refresh_capabilities_later).
ChangesAreRead ==
    \A c \in Chargers : stations[c] > best[c] => c \in pending \cup missed

\* A scheduled read ends, read or not, so that the next change is read again
\* (the finally of _refresh_capabilities_later).
PendingEnds == \A c \in Chargers : c \in pending ~> c \notin pending
=============================================================================
