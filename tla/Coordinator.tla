----------------------------- MODULE Coordinator -----------------------------
(***************************************************************************)
(* The coordinator (coordinator.py) between the portal and the entities:   *)
(* scheduled, requested and command polls, each a sequence of requests, and *)
(* pushes that land between any two of them, all feeding one session        *)
(* tracker and one published snapshot.                                     *)
(*                                                                         *)
(* The event loop runs one task at a time, so a step is the code from one  *)
(* await to the next.  The portal is external: the statuses it shows, your *)
(* session, the lookup of the last active socket, which lags behind it,    *)
(* and the pushes on their way.  The model follows a coordinator from its  *)
(* creation; one whose first poll fails is discarded, its tracker with it, *)
(* and setup starts over with another (async_config_entry_first_refresh).  *)
(***************************************************************************)
EXTENDS Naturals, Sequences, Statuses

CONSTANTS
    Sockets, Commands, PUSHED_END_TRUST, OWN_START_WINDOW,  \* of the tracker
    Chargers,       \* the chargers of the network, each the set of its sockets
    Mine,           \* the sockets of the chargers you have added
    Polls,          \* slots for scheduled and requested polls under way at the same time
    MaxChanges,     \* bound on what happens at the portal
    MaxPushes,      \* bound on pushes on their way
    MaxPresses,     \* bound on start and stop buttons pressed
    MaxFailures     \* bound on failed requests

ASSUME TrackerAssumption ==
    /\ None \notin Sockets
    /\ PUSHED_END_TRUST \in Nat \ {0}
    /\ OWN_START_WINDOW \in Nat \ {0}

ASSUME CoordinatorAssumption ==
    /\ UNION Chargers = Sockets
    /\ \A a, b \in Chargers : a = b \/ a \cap b = {}
    /\ \A a \in Chargers : a \subseteq Mine \/ a \cap Mine = {}
    /\ Mine \subseteq Sockets
    /\ Polls \cap Commands = {}
    /\ MaxChanges \in Nat /\ MaxPushes \in Nat
    /\ MaxPresses \in Nat /\ MaxFailures \in Nat

VARIABLES
    (* the portal *)
    status,         \* what each socket of the network shows
    session,        \* the socket your session runs on, or None
    lookup,         \* what the portal's last-active lookup answers
    pushes,         \* status pushes on their way
    changes,        \* how often something happened at the portal
    presses,        \* how often a start or stop button was pressed
    failures,       \* how often a request failed
    (* the session tracker *)
    active, last_end, pushed_end, running, last_command, observed, intents,
    (* the coordinator *)
    stations,       \* _stations: the live statuses of the chargers it keeps
    loaded,         \* the first poll has succeeded: data is not None
    data,           \* the snapshot published to the entities
    available,      \* last_update_success: the entities show the snapshot
    scheduled,      \* the timer of the next scheduled poll is set
    reauth,         \* a poll has lost the login: you are asked for the password
    wallet_due,     \* _wallet_refreshed is None or too long ago
    skip_next,      \* _skip_next
    push_connected,
    poll_requested, \* an async_request_refresh not yet carried out
    watching,       \* a session watch is running
    polls,          \* polls under way: the coordinator's, and each command's own
    (* history: an end has been recorded, or a read of the charge history   *)
    (* failed, that no read which succeeded has followed                    *)
    unread,
    (* history: the sockets that went into use since your session there ended *)
    used

Tracker == INSTANCE SessionTracker WITH stations <- observed

portal == << status, session, lookup, pushes, changes, presses, failures >>
tracker == << active, last_end, pushed_end, running, last_command, observed, intents >>
ghosts == << unread, used >>
published == << loaded, data >>
health == << available, scheduled, reauth >>
vars == << portal, tracker, stations, published, health, wallet_due, skip_next,
           push_connected, poll_requested, watching, polls, ghosts >>

Slots == Polls \cup Commands
Idle == [ pc |-> "idle", stations |-> [ s \in Sockets |-> None ],
          reads |-> {}, found |-> None ]

TypeOK ==
    /\ status \in [ Sockets -> Statuses ]
    /\ session \in Sockets \cup {None}
    /\ lookup \in Sockets \cup {None}
    /\ pushes \in Seq([ socket : Sockets, status : Statuses ]) /\ Len(pushes) <= MaxPushes
    /\ changes \in 0 .. MaxChanges
    /\ presses \in 0 .. MaxPresses
    /\ failures \in 0 .. MaxFailures
    /\ Tracker!TypeOK
    /\ stations \in Tracker!Snapshots
    /\ data \in [ stations : Tracker!Snapshots, active : Sockets \cup {None},
                  last_end : [ session : Sockets \cup {None}, held_back : SUBSET Sockets,
                               freed : BOOLEAN, reused : BOOLEAN ] ]
    /\ polls \in [ Slots -> [ pc : { "idle", "stations", "active", "session",
                                     "account", "history", "details" },
                              reads : SUBSET Sockets,
                              stations : Tracker!Snapshots,
                              found : Sockets \cup {None} ] ]
    /\ \A p \in Slots : polls[p].pc = "session" <=> polls[p].found # None
    /\ \A c \in Commands : polls[c].pc \in { "idle", "stations", "active", "session" }
    /\ { loaded, available, scheduled, reauth, wallet_due, skip_next, push_connected,
         poll_requested, watching, unread } \subseteq BOOLEAN
    /\ used \subseteq Sockets

\* _snapshot: the session comes from the tracker, the statuses from _stations.
Snapshot == [ stations |-> stations, active |-> active, last_end |-> last_end ]

\* MerData.held_back, of the published snapshot.
held_back(s) == data.active = None /\ s \in data.last_end.held_back

\* What the portal tells now of the chargers with these sockets, and of yours.
Shown(reads) == [ s \in Sockets |-> IF s \in reads THEN status[s] ELSE None ]
Live == Shown(Mine)

ChargerOf(s) == UNION { a \in Chargers : s \in a }

\* The coordinator keeps the charger of that socket.
Kept(s) == stations[s] # None

Init ==
    /\ status \in [ Sockets -> Statuses ]
    /\ session \in { s \in Sockets : status[s] \in CHARGING_STATUSES } \cup {None}
    /\ lookup = session
    /\ pushes = << >>
    /\ changes = 0
    /\ presses = 0
    /\ failures = 0
    /\ Tracker!Init
    /\ stations = [ s \in Sockets |-> None ]
    /\ loaded = FALSE
    /\ data = Snapshot
    /\ available = TRUE
    /\ scheduled = FALSE
    /\ reauth = FALSE
    /\ wallet_due = TRUE
    /\ skip_next = FALSE
    /\ push_connected = FALSE
    /\ poll_requested = FALSE
    /\ watching = FALSE
    /\ polls = [ p \in Slots |-> Idle ]
    /\ unread = FALSE
    /\ used = {}

-----------------------------------------------------------------------------
(* The portal                                                              *)

\* A socket shows another status.  Leaving the charging statuses ends a
\* session of yours, unless it is a fault or out of service, which may leave
\* it running; starting to charge may begin one.  The push goes out if the
\* channel is open.
SocketChanges(s, new) ==
    /\ changes < MaxChanges /\ changes' = changes + 1
    /\ Len(pushes) < MaxPushes
    /\ new # status[s]
    /\ status' = [ status EXCEPT ![s] = new ]
    /\ session' \in IF session = s /\ new \notin CHARGING_STATUSES
                    THEN IF new \in NOT_AN_END THEN {s, None} ELSE {None}
                    ELSE IF session = None /\ new \in CHARGING_STATUSES THEN {None, s}
                    ELSE {session}
    /\ pushes' = IF push_connected THEN Append(pushes, [ socket |-> s, status |-> new ])
                 ELSE pushes
    /\ used' = IF session = s /\ session' = None THEN used \ {s}
               ELSE IF status[s] \notin IN_USE_STATUSES /\ new \in IN_USE_STATUSES
               THEN used \cup {s} ELSE used
    /\ UNCHANGED << lookup, presses, failures, tracker, stations, published, health, wallet_due,
                    skip_next, push_connected, poll_requested, watching, polls, unread >>

LookupCatchesUp ==
    /\ lookup # session
    /\ lookup' = session
    /\ UNCHANGED << status, session, pushes, changes, presses, failures, tracker, stations,
                    published, health, wallet_due, skip_next, push_connected, poll_requested,
                    watching, polls, ghosts >>

-----------------------------------------------------------------------------
(* Carrying out intents (_execute), of the observation made in this step   *)

Reread == "RereadHistory" \in intents'

Execute ==
    /\ wallet_due' = (wallet_due \/ Reread)
    /\ poll_requested' = (poll_requested \/ "PollNow" \in intents')
    /\ watching' = (watching \/ "WatchForSession" \in intents')
    /\ unread' = (unread \/ Reread)
    /\ UNCHANGED used

-----------------------------------------------------------------------------
(* Polls (_async_update_data, _CommandChanges.poll)                        *)

Goto(p, pc) ==
    polls' = [ polls EXCEPT ![p].pc = pc, ![p].found = None ]
Done(p) == polls' = [ polls EXCEPT ![p] = Idle ]

\* Home Assistant has data, and sets the timer of the next poll.
Succeeded == available' = TRUE /\ scheduled' = TRUE /\ UNCHANGED reauth

\* A mutation: the skip is never taken back.
SkipPoll_forever(p) ==
    /\ polls[p].pc = "idle" /\ skip_next
    /\ Succeeded
    /\ poll_requested' = FALSE
    /\ UNCHANGED << portal, tracker, stations, published, wallet_due, skip_next, push_connected,
                    watching, polls, ghosts >>

\* A poll that respects the rate limit republishes what it published before.
SkipPoll(p) ==
    /\ polls[p].pc = "idle" /\ skip_next
    /\ skip_next' = FALSE
    /\ Succeeded
    /\ poll_requested' = FALSE
    /\ UNCHANGED << portal, tracker, stations, published, wallet_due, push_connected,
                    watching, polls, ghosts >>

\* By the timer, by request or because you ask for one, which may be at any
\* time; the first poll runs alone.
StartPoll(p) ==
    /\ polls[p].pc = "idle" /\ ~skip_next
    /\ loaded \/ \A q \in Polls : polls[q].pc = "idle"
    /\ polls' = [ polls EXCEPT ![p] =
                    [ Idle EXCEPT !.pc = "stations", !.reads = Mine ] ]
    /\ scheduled' = FALSE
    /\ poll_requested' = FALSE
    /\ UNCHANGED << portal, tracker, stations, published, available, reauth, wallet_due,
                    skip_next, push_connected, watching, ghosts >>

\* A command that waits polls its charger, which is one you have not added if
\* your session runs there and the account's Stop ends it, and your session.
\* The session may name no charger, and the portal may not return it.
StartCommandPoll(c) ==
    /\ Tracker!IsRunning(c) /\ polls[c].pc = "idle"
    /\ \E reads \in { ChargerOf(running[c].socket), {} } :
            polls' = [ polls EXCEPT ![c] =
                        [ Idle EXCEPT !.pc = IF reads = {} THEN "active" ELSE "stations",
                                      !.reads = reads ] ]
    /\ UNCHANGED << portal, tracker, stations, published, health, wallet_due, skip_next,
                    push_connected, poll_requested, watching, ghosts >>

ReadStations(p) ==
    /\ polls[p].pc = "stations"
    /\ polls' = [ polls EXCEPT ![p].pc = "active",
                                     ![p].stations = Shown(polls[p].reads) ]
    /\ UNCHANGED << portal, tracker, stations, published, health, wallet_due, skip_next,
                    push_connected, poll_requested, watching, ghosts >>

\* A mutation: the chargers kept are not replaced.
Complete_keeping_stations(p) ==
    /\ UNCHANGED stations
    /\ data' = Snapshot' /\ loaded' = TRUE
    /\ Succeeded
    /\ skip_next' \in BOOLEAN
    /\ Done(p)

\* The end of a scheduled or requested poll: its chargers replace the ones
\* kept, the snapshot is published, and the headroom may ask to skip the next.
Complete(p) ==
    /\ stations' = polls[p].stations
    /\ data' = Snapshot' /\ loaded' = TRUE
    /\ Succeeded
    /\ skip_next' \in BOOLEAN
    /\ Done(p)

\* The next slower read, if one is due, else the end.
Proceed(p, pcs) ==
    \/ /\ \E pc \in pcs : Goto(p, pc)
       /\ UNCHANGED << stations, published, health, skip_next >>
    \/ /\ "account" \notin pcs
       /\ Complete(p)

\* What the poll found goes to the tracker at once, an end re-reads the
\* history in this poll.
ObservePoll(p, found) ==
    /\ Tracker!Polled(found, polls[p].stations)
    /\ Execute
    /\ Proceed(p, IF wallet_due' THEN {"account"} ELSE {"details"})

\* A mutation: the session just polled is published, whatever the tracker made
\* of it.
ObserveCommandPoll_as_found(p, found) ==
    /\ stations' = [ s \in Sockets |-> IF s \in polls[p].reads THEN polls[p].stations[s]
                                      ELSE stations[s] ]
    /\ Tracker!Polled(found, stations')
    /\ Execute
    /\ data' = [ Snapshot' EXCEPT !.active = found ]
    /\ Done(p)
    /\ UNCHANGED << loaded, health, skip_next >>

\* A command's poll keeps its charger with the others, one you have not added
\* until the next scheduled poll, and publishes at once.
ObserveCommandPoll(p, found) ==
    /\ stations' = [ s \in Sockets |-> IF s \in polls[p].reads THEN polls[p].stations[s]
                                      ELSE stations[s] ]
    /\ Tracker!Polled(found, stations')
    /\ Execute
    /\ data' = Snapshot'
    /\ Done(p)
    /\ UNCHANGED << loaded, health, skip_next >>

\* A mutation: a command's poll goes on to the slower reads.
Observe_in_full(p, found) == ObservePoll(p, found) /\ UNCHANGED << portal, push_connected >>

Observe(p, found) ==
    /\ IF p \in Polls THEN ObservePoll(p, found) ELSE ObserveCommandPoll(p, found)
    /\ UNCHANGED << portal, push_connected >>

\* _fetch_active: no session is seen at once; one takes further requests.
ReadActive(p) ==
    /\ polls[p].pc = "active"
    /\ IF lookup = None THEN Observe(p, None)
       ELSE /\ polls' = [ polls EXCEPT ![p].pc = "session", ![p].found = lookup ]
            /\ UNCHANGED << portal, tracker, stations, published, health, wallet_due, skip_next,
                            push_connected, poll_requested, watching, ghosts >>

ReadSession(p) ==
    /\ polls[p].pc = "session"
    /\ Observe(p, polls[p].found)

\* _refresh_account: the wallet, then the charge history, unless the wallet
\* names no customer.  That counts among the failures.
ReadWallet(p) ==
    /\ polls[p].pc = "account"
    /\ Goto(p, "history")
    /\ unread' = FALSE
    /\ UNCHANGED << portal, tracker, stations, published, health, wallet_due, skip_next,
                    push_connected, poll_requested, watching, used >>

\* Read or failed, the account counts as refreshed.
AccountRefreshed(p) ==
    /\ wallet_due' = FALSE
    /\ Proceed(p, {"details"})

NoCustomer(p) ==
    /\ polls[p].pc = "account"
    /\ failures < MaxFailures /\ failures' = failures + 1
    /\ UNCHANGED << status, session, lookup, pushes, changes, presses, tracker, push_connected,
                    poll_requested, watching, ghosts >>
    /\ AccountRefreshed(p)

ReadHistory(p) ==
    /\ polls[p].pc = "history"
    /\ UNCHANGED << portal, tracker, push_connected, poll_requested, watching, ghosts >>
    /\ AccountRefreshed(p)

ReadDetails(p) ==
    /\ polls[p].pc = "details"
    /\ UNCHANGED << portal, tracker, wallet_due, push_connected, poll_requested,
                    watching, ghosts >>
    /\ Complete(p)

HistoryFails(p) == unread' = (unread \/ polls[p].pc = "history") /\ UNCHANGED used

\* The slower reads are optional: an error other than a rate limit or a lost
\* login does not fail the poll (_refresh_optional).
OptionalFails(p) ==
    /\ loaded
    /\ failures < MaxFailures /\ failures' = failures + 1
    /\ HistoryFails(p)
    /\ UNCHANGED << status, session, lookup, pushes, changes, presses, tracker, push_connected,
                    poll_requested, watching >>
    /\ \/ /\ polls[p].pc \in {"account", "history"}
          /\ AccountRefreshed(p)
       \/ /\ polls[p].pc = "details"
          /\ Complete(p)
          /\ UNCHANGED wallet_due

\* Any other failure ends the poll.  What the tracker has seen by then stays.
Abandon(p) ==
    /\ loaded
    /\ failures < MaxFailures /\ failures' = failures + 1
    /\ polls[p].pc # "idle"
    /\ Done(p)
    /\ HistoryFails(p)
    /\ UNCHANGED << status, session, lookup, pushes, changes, presses, tracker, stations, published,
                    wallet_due, push_connected, poll_requested, watching >>

\* A rate limit also skips the next poll.  A command's poll just ends.
PollFails(p) ==
    /\ Abandon(p)
    /\ IF p \in Polls
       THEN /\ available' = FALSE /\ scheduled' = TRUE
            /\ \E rate_limited \in BOOLEAN : skip_next' = (skip_next \/ rate_limited)
            /\ UNCHANGED reauth
       ELSE UNCHANGED << health, skip_next >>

\* Once the login is lost (AuthError) you are asked for the password, and Home
\* Assistant does not set the timer of the next poll.
LoginLost(p) ==
    /\ Abandon(p)
    /\ available' = FALSE /\ reauth' = TRUE
    /\ UNCHANGED << scheduled, skip_next >>

\* The account is due again a quarter of an hour after it was refreshed.
WalletWindow ==
    /\ ~wallet_due /\ wallet_due' = TRUE
    /\ UNCHANGED << portal, tracker, stations, published, health, skip_next, push_connected,
                    poll_requested, watching, polls, ghosts >>

-----------------------------------------------------------------------------
(* The push channel                                                        *)

\* _apply_status_push: the broadcast covers every charger on the network; one
\* that is kept, or the socket of your session, is observed and published.
ReceivePush ==
    LET push == Head(pushes)
        kept == Kept(push.socket)
    IN  /\ pushes # << >> /\ push_connected
        /\ pushes' = Tail(pushes)
        /\ IF kept \/ (active # None /\ push.socket = active)
           THEN /\ Tracker!StatusPushed(push.socket, push.status, kept, stations)
                /\ stations' = observed'
                /\ data' = Snapshot'
                /\ Execute
                /\ UNCHANGED loaded
           ELSE UNCHANGED << tracker, stations, published, wallet_due, poll_requested,
                             watching, ghosts >>
        /\ UNCHANGED << status, session, lookup, changes, presses, failures, health, skip_next,
                        push_connected, polls >>

\* _apply_estimate_push: estimates come for your sessions only.
ReceiveEstimate ==
    /\ push_connected /\ session # None
    /\ UNCHANGED << portal, stations, loaded, health, skip_next, push_connected, polls >>
    /\ Tracker!EstimatePushed
    /\ data' = IF active = session THEN Snapshot' ELSE data
    /\ Execute

\* _set_push_connected: published either way, which drops a poll request still
\* waiting its turn; polled when the channel closes.
Connect ==
    /\ loaded /\ ~push_connected /\ push_connected' = TRUE
    /\ data' = Snapshot
    /\ Succeeded
    /\ poll_requested' \in {poll_requested, FALSE}
    /\ UNCHANGED << portal, tracker, stations, loaded, wallet_due, skip_next, watching, polls,
                    ghosts >>

Disconnect ==
    /\ push_connected /\ push_connected' = FALSE
    /\ pushes' = << >>
    /\ data' = Snapshot
    /\ Succeeded
    /\ poll_requested' = TRUE
    /\ UNCHANGED << status, session, lookup, changes, presses, failures, tracker, stations, loaded,
                    wallet_due, skip_next, watching, polls, ghosts >>

\* _look_for_session: until some poll has found it, or the lookup has, or the
\* last delay is over.
Look ==
    /\ watching
    /\ \/ active # None /\ watching' = FALSE /\ UNCHANGED poll_requested
       \/ active = None /\ lookup # None /\ watching' = FALSE /\ poll_requested' = TRUE
       \/ active = None /\ watching' = FALSE /\ UNCHANGED poll_requested
    /\ UNCHANGED << portal, tracker, stations, published, health, wallet_due, skip_next,
                    push_connected, polls, ghosts >>

-----------------------------------------------------------------------------
(* Commands (_command) and time                                            *)

\* Home Assistant skips the press of a button that is unavailable.
Pressed ==
    /\ loaded /\ available
    /\ presses < MaxPresses /\ presses' = presses + 1

\* A mutation: a new command clears the pushed end.
BeginCommand_afresh(c, command, s) ==
    /\ Pressed
    /\ ~Tracker!IsRunning(c)
    /\ running' = [ running EXCEPT ![c] = [ command |-> command, socket |-> s, age |-> 0 ] ]
    /\ intents' = {}
    /\ pushed_end' = Tracker!NoPushedEnd
    /\ UNCHANGED << active, last_end, last_command, observed, status, session, lookup, pushes,
                    changes, failures, stations, published, health, wallet_due, skip_next,
                    push_connected, poll_requested, watching, polls, ghosts >>

BeginCommand(c, command, s) ==
    /\ Pressed
    /\ Tracker!CommandStarted(c, command, s)
    /\ UNCHANGED << status, session, lookup, pushes, changes, failures, stations, published,
                    health, wallet_due, skip_next, push_connected, poll_requested, watching,
                    polls, ghosts >>

\* However it ended the tracker is told.  The outcome is published, unless the
\* command was cancelled, and its poll with it.
EndCommand(c, rejected) ==
    /\ Tracker!CommandFinished(c, rejected)
    /\ Done(c)
    /\ UNCHANGED << portal, stations, health, wallet_due, skip_next, push_connected,
                    poll_requested, watching, ghosts >>
    /\ \/ polls[c].pc = "idle" /\ data' = Snapshot' /\ UNCHANGED loaded
       \/ ~rejected /\ UNCHANGED published

Tick ==
    /\ Tracker!Tick
    /\ UNCHANGED << portal, stations, published, health, wallet_due, skip_next,
                    push_connected, poll_requested, watching, polls, ghosts >>

-----------------------------------------------------------------------------
PollStep(p) ==
    ReadStations(p) \/ ReadActive(p) \/ ReadSession(p) \/ ReadWallet(p) \/ NoCustomer(p)
      \/ ReadHistory(p) \/ ReadDetails(p)

Next ==
    \/ \E s \in Sockets, new \in Statuses : SocketChanges(s, new)
    \/ LookupCatchesUp
    \/ \E p \in Polls : SkipPoll(p) \/ StartPoll(p) \/ OptionalFails(p) \/ LoginLost(p)
    \/ \E p \in Slots : PollStep(p) \/ PollFails(p)
    \/ WalletWindow
    \/ ReceivePush \/ ReceiveEstimate \/ Connect \/ Disconnect \/ Look
    \/ \E c \in Commands :
        \/ StartCommandPoll(c)
        \/ \E s \in Mine : BeginCommand(c, "start", s)
        \/ \E s \in Sockets \cap {data.active} : BeginCommand(c, "stop", s)
        \/ \E rejected \in BOOLEAN : EndCommand(c, rejected)
    \/ Tick

Spec == Init /\ [][Next]_vars

\* A poll is due.
Due == ~loaded \/ scheduled \/ poll_requested

\* Polls that are due are carried out, requests are answered, pushes are
\* handled, the portal's lookup catches up and time passes.  Nothing makes you
\* ask for a poll.
Fairness ==
    /\ \A p \in Polls : WF_vars(Due /\ SkipPoll(p)) /\ WF_vars(Due /\ StartPoll(p))
    /\ \A p \in Slots : WF_vars(PollStep(p))
    /\ WF_vars(ReceivePush)
    /\ WF_vars(LookupCatchesUp)
    /\ WF_vars(Tick)
    /\ WF_vars(WalletWindow)

FairSpec == Spec /\ Fairness

-----------------------------------------------------------------------------
\* Whatever the order of polls, pushes, failures and commands, the coordinator
\* feeds the tracker it was created with nothing but observations, each whole
\* (_observe): it implements the tracker's specification, so what is proved of
\* that holds of the session the coordinator publishes.
ImplementsTracker == Tracker!Spec

\* A session ended by a push is not published as running again, by any poll in
\* flight, later poll or skipped poll, for as long as the push is trusted
\* (decisions.md, 2026-11-02).
PublishedEndHolds == pushed_end.socket # None => data.active # pushed_end.socket

\* A lost login has stopped the polls: the entities are unavailable and you are
\* asked for the password, which a new coordinator would be given.  Until then
\* only a request or the push channel brings another poll.
Stopped == reauth /\ ~available /\ ~Due

\* Once the portal comes to rest, what is published is what the portal shows:
\* no lost push, failed, stale or skipped poll leaves it wrong for good, unless
\* the polls are stopped for good.
EventuallyConsistent ==
    <>[]Stopped \/ <>[](data.stations = Live /\ data.active = session)

\* Every recorded end is followed by a read of the charge history that
\* succeeds, at the latest at the next wallet window (RereadHistory), unless
\* the polls are stopped for good.
HistoryEventuallyRead == <>[]Stopped \/ (unread ~> ~unread)

-----------------------------------------------------------------------------
\* CONTEXT.md, "Reused": "Someone else started using the left socket after it
\* freed" - so somebody has.
ReusedWasUsed == last_end.reused => last_end.session \in used
=============================================================================
