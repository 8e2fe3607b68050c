------------------------- MODULE CoordinatorProofs -------------------------
(***************************************************************************)
(* The coordinator implements the session tracker, for any sockets, polls, *)
(* commands and windows and any portal, so that what is proved of the      *)
(* tracker holds of it; and a session that a push ended is not published   *)
(* as running again.                                                       *)
(*                                                                         *)
(* That every step feeds the tracker one whole observation rests on what   *)
(* polls keep between two requests being a whole snapshot of chargers,     *)
(* yours or the one a command is about, and a session the portal has       *)
(* named: Fed, the inductive invariant.                                    *)
(***************************************************************************)
EXTENDS Coordinator, TLAPS

Words == { "idle", "stations", "active", "session", "account", "history", "details" }

Pushes == [ socket : Sockets, status : Statuses ]

\* What the portal shows, and what is on its way from it.
PortalOK ==
    /\ status \in [ Sockets -> Statuses ]
    /\ session \in Sockets \cup {None}
    /\ lookup \in Sockets \cup {None}
    /\ pushes \in Seq(Pushes)

\* What a poll keeps from one request to the next.
PollRecords ==
    [ pc : Words, reads : SUBSET Sockets, stations : Tracker!Snapshots, found : Sockets \cup {None} ]

IsPoll(p, r) ==
    /\ r \in PollRecords
    /\ r.pc = "session" <=> r.found # None
    /\ p \in Commands => r.pc \in { "idle", "stations", "active", "session" }

PollsOK == polls \in [ Slots -> PollRecords ] /\ \A p \in Slots : IsPoll(p, polls[p])

Fed == PortalOK /\ stations \in Tracker!Snapshots /\ PollsOK

LEMMA FedInit == Init => Fed
<1> SUFFICES ASSUME Init PROVE Fed
  OBVIOUS
<1>1. [ s \in Sockets |-> None ] \in Tracker!Snapshots
  BY DEF Tracker!Snapshots
<1>2. PortalOK
  BY DEF Init, PortalOK
<1>3. stations \in Tracker!Snapshots
  BY <1>1 DEF Init
<1>4. Idle \in PollRecords
  BY <1>1 DEF Idle, PollRecords, Words
<1>5. PollsOK
  BY <1>4 DEF Init, PollsOK, IsPoll, Idle
<1> QED
  BY <1>2, <1>3, <1>5 DEF Fed

-----------------------------------------------------------------------------
(* Polls                                                                   *)

\* A step moves one poll on.
LEMMA OnePollMoves ==
    ASSUME PollsOK, NEW p \in Slots, NEW r, IsPoll(p, r), polls' = [ polls EXCEPT ![p] = r ]
    PROVE  PollsOK'
BY DEF PollsOK, IsPoll

\* No poll.
LEMMA IdleIsPoll == ASSUME NEW p PROVE IsPoll(p, Idle)
<1>1. [ s \in Sockets |-> None ] \in Tracker!Snapshots
  BY DEF Tracker!Snapshots
<1> QED
  BY <1>1 DEF IsPoll, Idle, PollRecords, Words

LEMMA DoneMoves ==
    ASSUME PollsOK, NEW p \in Slots, Done(p)
    PROVE  PollsOK'
BY IdleIsPoll, OnePollMoves DEF Done

LEMMA GotoMoves ==
    ASSUME PollsOK, NEW p \in Slots, p \notin Commands,
           NEW pc \in { "account", "history", "details" }, Goto(p, pc)
    PROVE  PollsOK'
<1> DEFINE r == [ polls[p] EXCEPT !.pc = pc, !.found = None ]
<1>1. polls' = [ polls EXCEPT ![p] = r ]
  BY DEF Goto, PollsOK
<1>2. IsPoll(p, r)
  BY DEF PollsOK, IsPoll, PollRecords, Words
<1> HIDE DEF r
<1> QED
  BY <1>1, <1>2, OnePollMoves

\* A slot is a command's or one of Polls.
LEMMA PollsAreNotCommands == ASSUME NEW p \in Polls PROVE p \notin Commands /\ p \in Slots
BY CoordinatorAssumption DEF Slots

\* The next push is of a socket of the network.
LEMMA NextPush ==
    ASSUME PortalOK, pushes # << >>
    PROVE  Head(pushes).socket \in Sockets /\ Head(pushes).status \in Statuses
<1>1. pushes \in Seq(Pushes)
  BY DEF PortalOK
<1>2. Head(pushes) \in Pushes
  BY <1>1
<1> QED
  BY <1>2 DEF Pushes

\* Whichever chargers are read, the answer is a whole snapshot.
LEMMA ShownIsWhole == ASSUME PortalOK, NEW reads PROVE Shown(reads) \in Tracker!Snapshots
BY DEF PortalOK, Shown, Tracker!Snapshots

\* On to a slower read or to the end.
LEMMA ProceedMoves ==
    ASSUME PollsOK, NEW p \in Slots, p \notin Commands,
           NEW pcs \in SUBSET { "account", "history", "details" }, Proceed(p, pcs)
    PROVE  PollsOK'
BY DoneMoves, GotoMoves DEF Proceed, Complete

\* What is observed ends a command's poll and takes another on.
LEMMA ObserveMoves ==
    ASSUME PollsOK, NEW p \in Slots, NEW found, Observe(p, found)
    PROVE  PollsOK'
<1>1. CASE p \in Polls
  <2>1. ObservePoll(p, found)
    BY <1>1 DEF Observe
  <2>2. PICK pcs \in SUBSET { "account", "history", "details" } : Proceed(p, pcs)
    BY <2>1 DEF ObservePoll
  <2> QED
    BY <1>1, <2>2, ProceedMoves, PollsAreNotCommands
<1>2. CASE p \notin Polls
  BY <1>2, DoneMoves DEF Observe, ObserveCommandPoll
<1> QED
  BY <1>1, <1>2

LEMMA PollStepMoves ==
    ASSUME Fed, NEW p \in Slots, PollStep(p)
    PROVE  PollsOK'
<1>1. PollsOK /\ IsPoll(p, polls[p]) /\ polls[p] \in PollRecords
  BY DEF Fed, PollsOK
<1>2. CASE ReadStations(p)
  <2> DEFINE r == [ polls[p] EXCEPT !.pc = "active", !.stations = Shown(polls[p].reads) ]
  <2>1. polls' = [ polls EXCEPT ![p] = r ]
    BY <1>2, <1>1 DEF ReadStations, PollsOK
  <2>2. IsPoll(p, r)
    BY <1>1, <1>2, ShownIsWhole DEF ReadStations, Fed, IsPoll, PollRecords, Words
  <2> HIDE DEF r
  <2> QED
    BY <1>1, <2>1, <2>2, OnePollMoves
<1>3. CASE ReadActive(p)
  <2>1. CASE lookup = None
    BY <1>1, <1>3, <2>1, ObserveMoves DEF ReadActive
  <2>2. CASE lookup # None
    <3> DEFINE r == [ polls[p] EXCEPT !.pc = "session", !.found = lookup ]
    <3>1. polls' = [ polls EXCEPT ![p] = r ]
      BY <1>3, <1>1, <2>2 DEF ReadActive, PollsOK
    <3>2. IsPoll(p, r)
      BY <1>1, <2>2 DEF Fed, PortalOK, IsPoll, PollRecords, Words
    <3> HIDE DEF r
    <3> QED
      BY <1>1, <3>1, <3>2, OnePollMoves
  <2> QED
    BY <2>1, <2>2
<1>4. CASE ReadSession(p)
  BY <1>1, <1>4, ObserveMoves DEF ReadSession
<1>5. CASE ReadWallet(p)
  <2>1. p \notin Commands
    BY <1>1, <1>5 DEF ReadWallet, IsPoll
  <2> QED
    BY <1>1, <1>5, <2>1, GotoMoves DEF ReadWallet
<1>6. CASE ReadHistory(p) \/ NoCustomer(p)
  <2>1. p \notin Commands
    BY <1>1, <1>6 DEF ReadHistory, NoCustomer, IsPoll
  <2> QED
    BY <1>1, <1>6, <2>1, ProceedMoves DEF ReadHistory, NoCustomer, AccountRefreshed
<1>7. CASE ReadDetails(p)
  BY <1>1, <1>7, DoneMoves DEF ReadDetails, Complete
<1> QED
  BY <1>2, <1>3, <1>4, <1>5, <1>6, <1>7 DEF PollStep

LEMMA PollsNext ==
    ASSUME Fed, [Next]_vars
    PROVE  PollsOK'
<1>1. PollsOK
  BY DEF Fed
<1>2. ASSUME NEW p \in Polls, SkipPoll(p) \/ StartPoll(p) \/ OptionalFails(p) \/ LoginLost(p)
      PROVE  PollsOK'
  <2>1. p \in Slots /\ p \notin Commands
    BY PollsAreNotCommands
  <2>2. CASE SkipPoll(p)
    BY <1>1, <2>2 DEF SkipPoll, PollsOK, IsPoll
  <2>3. CASE StartPoll(p)
    <3> DEFINE r == [ Idle EXCEPT !.pc = "stations", !.reads = Mine ]
    <3>1. IsPoll(p, r)
      BY <2>1, CoordinatorAssumption, IdleIsPoll DEF IsPoll, PollRecords, Words, Idle
    <3>2. polls' = [ polls EXCEPT ![p] = r ]
      BY <2>3 DEF StartPoll
    <3> HIDE DEF r
    <3> QED
      BY <1>1, <2>1, <3>1, <3>2, OnePollMoves
  <2>4. CASE OptionalFails(p)
    <3>1. AccountRefreshed(p) \/ Complete(p)
      BY <2>4 DEF OptionalFails
    <3> QED
      BY <1>1, <2>1, <3>1, ProceedMoves, DoneMoves DEF AccountRefreshed, Complete
  <2>5. CASE LoginLost(p)
    BY <1>1, <2>1, <2>5, DoneMoves DEF LoginLost, Abandon
  <2> QED
    BY <1>2, <2>2, <2>3, <2>4, <2>5
<1>3. ASSUME NEW p \in Slots, PollStep(p) PROVE PollsOK'
  BY <1>3, PollStepMoves
<1>4. ASSUME NEW p \in Slots, PollFails(p) PROVE PollsOK'
  BY <1>1, <1>4, DoneMoves DEF PollFails, Abandon
<1>5. ASSUME NEW c \in Commands, StartCommandPoll(c) PROVE PollsOK'
  <2>1. PICK reads \in { ChargerOf(running[c].socket), {} } :
           polls' = [ polls EXCEPT ![c] =
                        [ Idle EXCEPT !.pc = IF reads = {} THEN "active" ELSE "stations",
                                      !.reads = reads ] ]
    BY <1>5 DEF StartCommandPoll
  <2>2. reads \subseteq Sockets
    BY CoordinatorAssumption DEF ChargerOf
  <2> DEFINE r == [ Idle EXCEPT !.pc = IF reads = {} THEN "active" ELSE "stations",
                                !.reads = reads ]
  <2>3. IsPoll(c, r)
    BY <2>2, IdleIsPoll DEF IsPoll, PollRecords, Words, Idle
  <2>4. polls' = [ polls EXCEPT ![c] = r ]
    BY <2>1
  <2> HIDE DEF r
  <2> QED
    BY <1>1, <2>3, <2>4, OnePollMoves DEF Slots
<1>6. ASSUME NEW c \in Commands, NEW rejected \in BOOLEAN, EndCommand(c, rejected) PROVE PollsOK'
  BY <1>1, <1>6, DoneMoves DEF EndCommand, Slots
<1>7. CASE UNCHANGED polls
  BY <1>1, <1>7 DEF PollsOK, IsPoll
<1>8. \/ \E s \in Sockets, new \in Statuses : SocketChanges(s, new)
      \/ LookupCatchesUp \/ WalletWindow
      \/ ReceivePush \/ ReceiveEstimate \/ Connect \/ Disconnect \/ Look
      \/ \E c \in Commands, s \in Sockets, command \in {"start", "stop"} : BeginCommand(c, command, s)
      \/ Tick \/ UNCHANGED vars
      => UNCHANGED polls
  BY DEF SocketChanges, LookupCatchesUp, WalletWindow, ReceivePush, ReceiveEstimate, Connect,
         Disconnect, Look, BeginCommand, Tick, vars
<1>9. Mine \subseteq Sockets
  BY CoordinatorAssumption
<1> QED
  BY <1>2, <1>3, <1>4, <1>5, <1>6, <1>7, <1>8, <1>9 DEF Next

-----------------------------------------------------------------------------
(* The portal, and the chargers kept                                       *)

LEMMA PortalNext ==
    ASSUME PortalOK, [Next]_vars
    PROVE  PortalOK'
<1>1. ASSUME NEW s \in Sockets, NEW new \in Statuses, SocketChanges(s, new) PROVE PortalOK'
  <2>1. status' \in [ Sockets -> Statuses ] /\ lookup' = lookup
    BY <1>1 DEF SocketChanges, PortalOK
  <2>2. session' \in Sockets \cup {None}
    BY <1>1 DEF SocketChanges, PortalOK
  <2>3. pushes' \in Seq(Pushes)
    <3>1. [ socket |-> s, status |-> new ] \in Pushes /\ pushes \in Seq(Pushes)
      BY DEF Pushes, PortalOK
    <3>2. pushes' \in { pushes, Append(pushes, [ socket |-> s, status |-> new ]) }
      BY <1>1 DEF SocketChanges
    <3> QED
      BY <3>1, <3>2
  <2> QED
    BY <2>1, <2>2, <2>3 DEF PortalOK
<1>2. CASE LookupCatchesUp
  BY <1>2 DEF LookupCatchesUp, PortalOK
<1>3. CASE ReceivePush
  <2>1. pushes' \in Seq(Pushes)
    BY <1>3 DEF ReceivePush, PortalOK
  <2> QED
    BY <1>3, <2>1 DEF ReceivePush, PortalOK
<1>4. CASE Disconnect
  BY <1>4 DEF Disconnect, PortalOK
<1>5. CASE UNCHANGED << status, session, lookup, pushes >>
  BY <1>5 DEF PortalOK
<1>6. \/ \E p \in Polls : SkipPoll(p) \/ StartPoll(p) \/ OptionalFails(p) \/ LoginLost(p)
      \/ \E p \in Slots : PollStep(p) \/ PollFails(p)
      \/ WalletWindow \/ ReceiveEstimate \/ Connect \/ Look
      \/ \E c \in Commands : StartCommandPoll(c)
      \/ \E c \in Commands, s \in Sockets, command \in {"start", "stop"} : BeginCommand(c, command, s)
      \/ \E c \in Commands, rejected \in BOOLEAN : EndCommand(c, rejected)
      \/ Tick \/ UNCHANGED vars
      => UNCHANGED << status, session, lookup, pushes >>
  BY DEF portal, SkipPoll, StartPoll, OptionalFails, PollStep, ReadStations, ReadActive, Observe,
         ReadSession, ReadWallet, ReadHistory, NoCustomer, ReadDetails, PollFails, LoginLost,
         Abandon, WalletWindow, ReceiveEstimate, Connect, Look, StartCommandPoll, BeginCommand,
         EndCommand, Tick, vars
<1>7. Mine \subseteq Sockets
  BY CoordinatorAssumption
<1> QED
  BY <1>1, <1>2, <1>3, <1>4, <1>5, <1>6, <1>7 DEF Next

\* A push that is handed to the tracker leaves a whole snapshot.
LEMMA PushKeepsSnapshots ==
    ASSUME NEW st \in Tracker!Snapshots, NEW s \in Sockets, NEW new \in Statuses
    PROVE  Tracker!with_push(st, s, new) \in Tracker!Snapshots
BY DEF Tracker!Snapshots, Tracker!with_push

LEMMA ObserveKeepsStations ==
    ASSUME Fed, NEW p \in Slots, NEW found, Observe(p, found)
    PROVE  stations' \in Tracker!Snapshots
<1>1. polls[p].stations \in Tracker!Snapshots /\ stations \in Tracker!Snapshots
  BY DEF Fed, PollsOK, PollRecords
<1>2. CASE p \in Polls
  BY <1>1, <1>2 DEF Observe, ObservePoll, Proceed, Complete
<1>3. CASE p \notin Polls
  <2>1. stations' = [ s \in Sockets |-> IF s \in polls[p].reads THEN polls[p].stations[s]
                                        ELSE stations[s] ]
    BY <1>3 DEF Observe, ObserveCommandPoll
  <2> QED
    BY <1>1, <2>1 DEF Tracker!Snapshots
<1> QED
  BY <1>2, <1>3

LEMMA StationsNext ==
    ASSUME Fed, [Next]_vars
    PROVE  stations' \in Tracker!Snapshots
<1>1. stations \in Tracker!Snapshots /\ \A p \in Slots : polls[p].stations \in Tracker!Snapshots
  BY DEF Fed, PollsOK, PollRecords
<1>2. ASSUME NEW p \in Polls, OptionalFails(p) PROVE stations' \in Tracker!Snapshots
  <2>1. p \in Slots
    BY DEF Slots
  <2> QED
    BY <1>1, <1>2, <2>1 DEF OptionalFails, AccountRefreshed, Proceed, Complete
<1>3. ASSUME NEW p \in Slots, PollStep(p) PROVE stations' \in Tracker!Snapshots
  <2>1. CASE \E found : Observe(p, found)
    BY <2>1, ObserveKeepsStations
  <2>2. CASE ReadHistory(p) \/ NoCustomer(p) \/ ReadDetails(p)
    BY <1>1, <2>2 DEF ReadHistory, NoCustomer, AccountRefreshed, ReadDetails, Proceed, Complete
  <2>3. CASE UNCHANGED stations
    BY <1>1, <2>3
  <2> QED
    BY <1>3, <2>1, <2>2, <2>3 DEF PollStep, ReadStations, ReadActive, ReadSession, ReadWallet
<1>4. CASE ReceivePush
  <2> DEFINE push == Head(pushes)
  <2>1. push.socket \in Sockets /\ push.status \in Statuses
    BY <1>4, NextPush DEF ReceivePush, Fed
  <2>2. \/ stations' = stations
        \/ /\ Tracker!StatusPushed(push.socket, push.status, Kept(push.socket), stations)
           /\ stations' = observed'
    BY <1>4 DEF ReceivePush
  <2>3. stations' \in { stations, Tracker!with_push(stations, push.socket, push.status) }
    BY <2>2 DEF Tracker!StatusPushed, Tracker!Observed
  <2> QED
    BY <1>1, <2>1, <2>3, PushKeepsSnapshots
<1>5. \/ \E s \in Sockets, new \in Statuses : SocketChanges(s, new)
      \/ LookupCatchesUp
      \/ \E p \in Polls : SkipPoll(p) \/ StartPoll(p) \/ LoginLost(p)
      \/ \E p \in Slots : PollFails(p)
      \/ WalletWindow \/ ReceiveEstimate \/ Connect \/ Disconnect \/ Look
      \/ \E c \in Commands : StartCommandPoll(c)
      \/ \E c \in Commands, s \in Sockets, command \in {"start", "stop"} : BeginCommand(c, command, s)
      \/ \E c \in Commands, rejected \in BOOLEAN : EndCommand(c, rejected)
      \/ Tick \/ UNCHANGED vars
      => UNCHANGED stations
  BY DEF SocketChanges, LookupCatchesUp, SkipPoll, StartPoll, PollFails, LoginLost, Abandon,
         WalletWindow, ReceiveEstimate, Connect, Disconnect, Look, StartCommandPoll,
         BeginCommand, EndCommand, Tick, vars
<1>6. Mine \subseteq Sockets
  BY CoordinatorAssumption
<1> QED
  BY <1>1, <1>2, <1>3, <1>4, <1>5, <1>6 DEF Next

LEMMA FedNext == Fed /\ [Next]_vars => Fed'
BY PortalNext, StationsNext, PollsNext DEF Fed

-----------------------------------------------------------------------------
(* The tracker                                                             *)

\* What a step of the coordinator is to its tracker: a whole observation, or
\* nothing.
LEMMA StepsMap ==
    ASSUME Fed, [Next]_vars
    PROVE  [Tracker!Next]_(Tracker!vars)
<1> DEFINE Stutter == UNCHANGED tracker
           Maps == Tracker!Next \/ Stutter
<1> SUFFICES Maps
  BY DEF tracker, Tracker!vars
<1>1. ASSUME NEW found \in Sockets \cup {None}, NEW st \in Tracker!Snapshots,
             Tracker!Polled(found, st)
      PROVE  Tracker!Next
  BY <1>1 DEF Tracker!Next, Tracker!Poll
<1>2. ASSUME NEW p \in Slots, NEW found \in Sockets \cup {None}, Observe(p, found)
      PROVE  Maps
  <2>1. polls[p].stations \in Tracker!Snapshots /\ stations' \in Tracker!Snapshots
    BY <1>2, ObserveKeepsStations DEF Fed, PollsOK, PollRecords
  <2> QED
    BY <1>1, <1>2, <2>1 DEF Observe, ObservePoll, ObserveCommandPoll
<1>3. ASSUME NEW p \in Slots, PollStep(p) PROVE Maps
  <2>1. lookup \in Sockets \cup {None} /\ polls[p].found \in Sockets \cup {None}
    BY DEF Fed, PortalOK, PollsOK, PollRecords
  <2>2. None \in Sockets \cup {None}
    OBVIOUS
  <2>3. CASE ReadActive(p)
    BY <1>2, <2>2, <2>3 DEF ReadActive
  <2>4. CASE ReadSession(p)
    BY <1>2, <2>1, <2>4 DEF ReadSession
  <2>5. CASE ReadStations(p) \/ ReadWallet(p) \/ NoCustomer(p) \/ ReadHistory(p)
            \/ ReadDetails(p)
    BY <2>5 DEF ReadStations, ReadWallet, ReadHistory, NoCustomer, ReadDetails
  <2> QED
    BY <1>3, <2>3, <2>4, <2>5 DEF PollStep
<1>4. CASE ReceivePush
  <2> DEFINE push == Head(pushes)
             kept == Kept(push.socket)
  <2>1. push.socket \in Sockets /\ push.status \in Statuses
    BY <1>4, NextPush DEF ReceivePush, Fed
  <2>2. stations \in Tracker!Snapshots
    BY DEF Fed
  <2>3. CASE kept \/ (active # None /\ push.socket = active)
    <3>1. Tracker!StatusPushed(push.socket, push.status, kept, stations)
      BY <1>4, <2>3 DEF ReceivePush
    <3>2. kept \/ (active # None /\ push.socket = active /\ stations[push.socket] = None)
      BY <2>1, <2>2, <2>3 DEF Kept
    <3>3. /\ kept \in BOOLEAN
          /\ push.socket \in Sockets \cup {None} /\ push.status \in Statuses \cup {None}
      BY <2>1 DEF Kept
    <3> HIDE DEF push, kept
    <3>4. Tracker!StatusPush
      BY <2>2, <3>1, <3>2, <3>3 DEF Tracker!StatusPush
    <3> QED
      BY <3>4 DEF Tracker!Next
  <2>4. CASE ~(kept \/ (active # None /\ push.socket = active))
    BY <1>4, <2>4 DEF ReceivePush
  <2> QED
    BY <2>3, <2>4
<1>5. CASE ReceiveEstimate
  BY <1>5 DEF ReceiveEstimate, Tracker!Next
<1>6. ASSUME NEW c \in Commands, NEW command \in {"start", "stop"}, NEW s \in Sockets,
             BeginCommand(c, command, s)
      PROVE  Maps
  BY <1>6 DEF BeginCommand, Tracker!Next, Tracker!StartOrStop
<1>7. ASSUME NEW c \in Commands, NEW rejected \in BOOLEAN, EndCommand(c, rejected)
      PROVE  Maps
  BY <1>7 DEF EndCommand, Tracker!Next, Tracker!Finish
<1>8. CASE Tick
  BY <1>8 DEF Tick, Tracker!Next
<1>9. \/ \E s \in Sockets, new \in Statuses : SocketChanges(s, new)
      \/ LookupCatchesUp
      \/ \E p \in Polls : SkipPoll(p) \/ StartPoll(p) \/ OptionalFails(p) \/ LoginLost(p)
      \/ \E p \in Slots : PollFails(p)
      \/ WalletWindow \/ Connect \/ Disconnect \/ Look
      \/ \E c \in Commands : StartCommandPoll(c)
      \/ UNCHANGED vars
      => Stutter
  BY DEF SocketChanges, LookupCatchesUp, SkipPoll, StartPoll, OptionalFails, PollFails,
         LoginLost, Abandon, WalletWindow, Connect, Disconnect, Look, StartCommandPoll, vars
<1>10. Mine \subseteq Sockets
  BY CoordinatorAssumption
<1>11. Stutter => Maps
  OBVIOUS
<1> HIDE DEF Maps, Stutter
<1> QED
  BY <1>3, <1>4, <1>5, <1>6, <1>7, <1>8, <1>9, <1>10, <1>11 DEF Next

\* The coordinator implements the tracker (_observe): whatever the order of
\* polls, pushes, failures and commands, the tracker it was created with is
\* fed nothing but whole observations.
THEOREM ItImplementsTheTracker == Spec => ImplementsTracker
<1>1. Init => Tracker!Init
  BY DEF Init
<1> QED
  BY <1>1, FedInit, FedNext, StepsMap, PTL DEF Spec, ImplementsTracker, Tracker!Spec

-----------------------------------------------------------------------------
(* What is proved of the tracker                                           *)

\* The tracker of SessionTrackerProofs is the coordinator's.  Of the history
\* variables the results used here say nothing: any value will do for them.
Proved == INSTANCE SessionTrackerProofs
              WITH stations <- observed, free_throughout <- {}, newest <- {}, started <- {}

LEMMA SameStatuses ==
    /\ Proved!STATUS_AVAILABLE = Tracker!STATUS_AVAILABLE
    /\ Proved!CHARGING_STATUSES = Tracker!CHARGING_STATUSES
    /\ Proved!IN_USE_STATUSES = Tracker!IN_USE_STATUSES
    /\ Proved!NOT_AN_END = Tracker!NOT_AN_END
BY DEF Proved!STATUS_AVAILABLE, Tracker!STATUS_AVAILABLE,
       Proved!CHARGING_STATUSES, Tracker!CHARGING_STATUSES,
       Proved!IN_USE_STATUSES, Tracker!IN_USE_STATUSES, Proved!NOT_AN_END, Tracker!NOT_AN_END

LEMMA SameEnds ==
    ASSUME NEW a
    PROVE  /\ Proved!Ends(a) <=> Tracker!Ends(a)
           /\ Proved!RecordedEnd(a) = Tracker!RecordedEnd(a)
           /\ Proved!RereadIf(a) = Tracker!RereadIf(a)
<1>1. Proved!Available(observed) = Tracker!Available(observed)
  BY SameStatuses DEF Proved!Available, Tracker!Available
<1>2. Proved!Ends(a) <=> Tracker!Ends(a)
  BY DEF Proved!Ends, Tracker!Ends
<1>3. Proved!RereadIf(a) = Tracker!RereadIf(a)
  BY <1>2 DEF Proved!RereadIf, Tracker!RereadIf
<1>4. Proved!RecordedEnd(a) = Tracker!RecordedEnd(a)
  BY <1>1, <1>2 DEF Proved!RecordedEnd, Tracker!RecordedEnd, Proved!NoEnd, Tracker!NoEnd
<1> QED
  BY <1>2, <1>3, <1>4

LEMMA SameFollow ==
    ASSUME NEW end, NEW st
    PROVE  Proved!follow_held_back(end, st) = Tracker!follow_held_back(end, st)
BY SameStatuses DEF Proved!follow_held_back, Tracker!follow_held_back

LEMMA SameObserved ==
    ASSUME NEW a, NEW st
    PROVE  Proved!Observed(a, st) <=> Tracker!Observed(a, st)
BY SameEnds, SameFollow DEF Proved!Observed, Tracker!Observed

LEMMA SameSnapshots == Proved!Snapshots = Tracker!Snapshots
BY DEF Proved!Snapshots, Tracker!Snapshots

LEMMA SamePoll == Proved!Poll <=> Tracker!Poll
<1>1. ASSUME NEW found, NEW st
      PROVE  Proved!Polled(found, st) <=> Tracker!Polled(found, st)
  <2>1. Proved!TrustedEnd <=> Tracker!TrustedEnd
    BY DEF Proved!TrustedEnd, Tracker!TrustedEnd
  <2> QED
    BY <2>1, SameObserved, SameEnds
       DEF Proved!Polled, Tracker!Polled, Proved!NoPushedEnd, Tracker!NoPushedEnd
<1> QED
  BY <1>1, SameSnapshots DEF Proved!Poll, Tracker!Poll

LEMMA SamePush == Proved!StatusPush <=> Tracker!StatusPush
<1>1. ASSUME NEW socket, NEW new, NEW mine, NEW before
      PROVE  Proved!StatusPushed(socket, new, mine, before)
               <=> Tracker!StatusPushed(socket, new, mine, before)
  <2>1. Proved!with_push(before, socket, new) = Tracker!with_push(before, socket, new)
    BY DEF Proved!with_push, Tracker!with_push
  <2>2. Proved!own_starts = Tracker!own_starts
    BY DEF Proved!own_starts, Tracker!own_starts
  <2>3. \A c : Proved!IsRunning(c) <=> Tracker!IsRunning(c)
    BY DEF Proved!IsRunning, Tracker!IsRunning
  <2> QED
    BY <2>1, <2>2, <2>3, SameStatuses, SameObserved, SameEnds
       DEF Proved!StatusPushed, Tracker!StatusPushed, Proved!NoPushedEnd, Tracker!NoPushedEnd
<1> QED
  BY <1>1, SameSnapshots DEF Proved!StatusPush, Tracker!StatusPush

LEMMA SameTracker ==
    /\ Tracker!Init => Proved!Init
    /\ [Tracker!Next]_(Tracker!vars) => [Proved!Next]_(Proved!vars)
<1>1. Tracker!Init => Proved!Init
  BY DEF Tracker!Init, Proved!Init, Tracker!NoEnd, Proved!NoEnd, Tracker!NoPushedEnd,
         Proved!NoPushedEnd, Tracker!NotRunning, Proved!NotRunning, Tracker!NoCommand,
         Proved!NoCommand
<1>2. Proved!EstimatePushed <=> Tracker!EstimatePushed
  BY DEF Proved!EstimatePushed, Tracker!EstimatePushed
<1>3. Proved!StartOrStop <=> Tracker!StartOrStop
  BY DEF Proved!StartOrStop, Tracker!StartOrStop, Proved!CommandStarted,
         Tracker!CommandStarted, Proved!IsRunning, Tracker!IsRunning
<1>4. Proved!Finish <=> Tracker!Finish
  BY DEF Proved!Finish, Tracker!Finish, Proved!CommandFinished, Tracker!CommandFinished,
         Proved!IsRunning, Tracker!IsRunning, Proved!NotRunning, Tracker!NotRunning
<1>5. Proved!Tick <=> Tracker!Tick
  BY DEF Proved!Tick, Tracker!Tick, Proved!Older, Tracker!Older, Proved!IsRunning,
         Tracker!IsRunning
<1>6. Proved!Next <=> Tracker!Next
  BY <1>2, <1>3, <1>4, <1>5, SamePoll, SamePush DEF Proved!Next, Tracker!Next
<1> QED
  BY <1>1, <1>6 DEF Proved!vars, Tracker!vars

\* So its fields keep their types, and a session it remembers a push to have
\* ended is not the running one.
LEMMA TrackerKeeps == Spec => [](Tracker!TypeOK /\ Tracker!PushedEndHolds)
<1>1. Spec => Proved!Spec
  BY ItImplementsTheTracker, SameTracker, PTL DEF ImplementsTracker, Tracker!Spec, Proved!Spec
<1>2. Proved!Spec => []Proved!TypeOK
  BY Proved!TypeCorrect, TrackerAssumption, StatusesAssumption DEF STATUSES, Proved!STATUSES
<1>3. Proved!Spec => []Proved!PushedEndHolds
  BY Proved!PushedEndIsKept, TrackerAssumption, StatusesAssumption DEF STATUSES, Proved!STATUSES
<1>4. Proved!TypeOK => Tracker!TypeOK
  BY DEF Proved!TypeOK, Tracker!TypeOK, Proved!Snapshots, Tracker!Snapshots, Proved!Intents,
         Tracker!Intents
<1>5. Proved!PushedEndHolds => Tracker!PushedEndHolds
  BY DEF Proved!PushedEndHolds, Tracker!PushedEndHolds
<1> QED
  BY <1>1, <1>2, <1>3, <1>4, <1>5, PTL

-----------------------------------------------------------------------------
(* The published snapshot                                                  *)

\* A step publishes what it leaves behind, or it leaves the snapshot alone and
\* remembers no other pushed end.
LEMMA PublishesOrKeeps ==
    ASSUME Tracker!TypeOK, [Next]_vars
    PROVE  \/ data' = Snapshot'
           \/ data' = data /\ pushed_end'.socket \in { None, pushed_end.socket }
<1> DEFINE Publishes == data' = Snapshot'
           Keeps == data' = data /\ pushed_end'.socket \in { None, pushed_end.socket }
           Good == Publishes \/ Keeps
<1> SUFFICES Good
  OBVIOUS
<1>1. ASSUME NEW p \in Slots, NEW found, Observe(p, found) PROVE Good
  <2>1. CASE p \in Polls
    <3>1. Tracker!Polled(found, polls[p].stations)
      BY <1>1, <2>1 DEF Observe, ObservePoll
    <3>2. pushed_end'.socket \in { None, pushed_end.socket }
      BY <3>1 DEF Tracker!Polled, Tracker!NoPushedEnd
    <3>3. data' = Snapshot' \/ data' = data
      BY <1>1, <2>1 DEF Observe, ObservePoll, Proceed, Complete, published
    <3> QED
      BY <3>2, <3>3
  <2>2. CASE p \notin Polls
    BY <1>1, <2>2 DEF Observe, ObserveCommandPoll
  <2> QED
    BY <2>1, <2>2
<1>2. ASSUME NEW p \in Slots, PollStep(p) PROVE Good
  <2>1. CASE \E found : Observe(p, found)
    BY <1>1, <2>1
  <2>2. CASE ReadHistory(p) \/ NoCustomer(p) \/ ReadDetails(p)
    BY <2>2 DEF ReadHistory, NoCustomer, AccountRefreshed, ReadDetails, Proceed, Complete,
       tracker, published
  <2>3. CASE UNCHANGED << tracker, published >>
    BY <2>3 DEF tracker, published
  <2> HIDE DEF Good
  <2> QED
    BY <1>2, <2>1, <2>2, <2>3 DEF PollStep, ReadStations, ReadActive, ReadSession, ReadWallet
<1>3. ASSUME NEW p \in Polls, OptionalFails(p) PROVE Good
  BY <1>3 DEF OptionalFails, AccountRefreshed, Proceed, Complete, tracker, published
<1>4. CASE ReceivePush
  BY <1>4 DEF ReceivePush, tracker, published
<1>5. CASE ReceiveEstimate
  BY <1>5 DEF ReceiveEstimate, Tracker!EstimatePushed
<1>6. CASE Connect \/ Disconnect
  BY <1>6 DEF Connect, Disconnect, Snapshot, tracker
<1>7. ASSUME NEW c \in Commands, NEW command, NEW s, BeginCommand(c, command, s) PROVE Good
  BY <1>7 DEF BeginCommand, Tracker!CommandStarted, published
<1>8. ASSUME NEW c \in Commands, NEW rejected, EndCommand(c, rejected) PROVE Good
  BY <1>8 DEF EndCommand, Tracker!CommandFinished, published
<1>9. CASE Tick
  BY <1>9 DEF Tick, Tracker!Tick, Tracker!TypeOK, published
<1>10. \/ \E s \in Sockets, new \in Statuses : SocketChanges(s, new)
       \/ LookupCatchesUp
       \/ \E p \in Polls : SkipPoll(p) \/ StartPoll(p) \/ LoginLost(p)
       \/ \E p \in Slots : PollFails(p)
       \/ WalletWindow \/ Look
       \/ \E c \in Commands : StartCommandPoll(c)
       \/ UNCHANGED vars
       => Good
  BY DEF SocketChanges, LookupCatchesUp, SkipPoll, StartPoll, PollFails, LoginLost, Abandon,
         WalletWindow, Look, StartCommandPoll, vars, tracker, published
<1> HIDE DEF Good
<1> QED
  BY <1>2, <1>3, <1>4, <1>5, <1>6, <1>7, <1>8, <1>9, <1>10 DEF Next

\* A session that a push ended is not published as running again while the
\* push is remembered (_unless_pushed_end, _publish): a poll in flight, a
\* skipped poll or a poll that has still to read the details publishes what
\* the tracker has by then, or nothing.
THEOREM PublishedEndIsKept == Spec => []PublishedEndHolds
<1>1. Init => PublishedEndHolds
  BY DEF Init, Tracker!Init, Tracker!NoPushedEnd, PublishedEndHolds
<1>2. /\ PublishedEndHolds /\ [Next]_vars
      /\ Tracker!TypeOK /\ Tracker!PushedEndHolds'
      => PublishedEndHolds'
  BY PublishesOrKeeps DEF PublishedEndHolds, Tracker!PushedEndHolds, Snapshot
<1> QED
  BY <1>1, <1>2, TrackerKeeps, PTL DEF Spec

-----------------------------------------------------------------------------
(* Types                                                                   *)

EndRecords == [ session : Sockets \cup {None}, held_back : SUBSET Sockets,
          freed : BOOLEAN, reused : BOOLEAN ]

DataOK == data \in [ stations : Tracker!Snapshots, active : Sockets \cup {None}, last_end : EndRecords ]

CountersOK ==
    /\ Len(pushes) <= MaxPushes
    /\ changes \in 0 .. MaxChanges
    /\ presses \in 0 .. MaxPresses
    /\ failures \in 0 .. MaxFailures

FlagsOK ==
    /\ loaded \in BOOLEAN /\ available \in BOOLEAN /\ scheduled \in BOOLEAN
    /\ reauth \in BOOLEAN /\ wallet_due \in BOOLEAN
    /\ skip_next \in BOOLEAN /\ push_connected \in BOOLEAN /\ poll_requested \in BOOLEAN
    /\ watching \in BOOLEAN /\ unread \in BOOLEAN

LEMMA CountersNext ==
    ASSUME PortalOK, CountersOK, [Next]_vars
    PROVE  CountersOK'
<1> USE CoordinatorAssumption
<1>1. pushes \in Seq(Pushes) /\ Len(pushes) \in Nat
  BY DEF PortalOK
<1>2. ASSUME NEW s \in Sockets, NEW new \in Statuses, SocketChanges(s, new) PROVE CountersOK'
  <2>1. changes' \in 0 .. MaxChanges /\ UNCHANGED << presses, failures >>
    BY <1>2 DEF SocketChanges, CountersOK
  <2>2. [ socket |-> s, status |-> new ] \in Pushes
    BY DEF Pushes
  <2>3. pushes' \in { pushes, Append(pushes, [ socket |-> s, status |-> new ]) }
        /\ Len(pushes) < MaxPushes
    BY <1>2 DEF SocketChanges
  <2>4. Len(pushes') <= MaxPushes
    BY <1>1, <2>2, <2>3
  <2> QED
    BY <2>1, <2>4 DEF CountersOK
<1>3. CASE ReceivePush
  <2>1. Len(pushes') <= Len(pushes)
    BY <1>1, <1>3 DEF ReceivePush
  <2>2. Len(pushes') \in Nat
    BY <1>1, <1>3 DEF ReceivePush
  <2> QED
    BY <1>1, <1>3, <2>1, <2>2 DEF ReceivePush, CountersOK
<1>4. CASE Disconnect
  BY <1>4 DEF Disconnect, CountersOK
<1>5. ASSUME NEW p, OptionalFails(p) \/ NoCustomer(p) \/ PollFails(p) \/ LoginLost(p)
      PROVE  CountersOK'
  BY <1>5 DEF OptionalFails, NoCustomer, PollFails, LoginLost, Abandon, CountersOK
<1>6. CASE UNCHANGED << pushes, changes, presses, failures >>
  BY <1>6 DEF CountersOK
<1>7. \/ LookupCatchesUp
      \/ \E p \in Polls : SkipPoll(p) \/ StartPoll(p)
      \/ \E p \in Slots : PollStep(p) /\ ~NoCustomer(p)
      \/ WalletWindow \/ ReceiveEstimate \/ Connect \/ Look
      \/ \E c \in Commands : StartCommandPoll(c)
      \/ \E c \in Commands, rejected \in BOOLEAN : EndCommand(c, rejected)
      \/ Tick \/ UNCHANGED vars
      => UNCHANGED << pushes, changes, presses, failures >>
  BY DEF portal, LookupCatchesUp, SkipPoll, StartPoll, PollStep, ReadStations, ReadActive, Observe,
         ReadSession, ReadWallet, ReadHistory, ReadDetails, WalletWindow, ReceiveEstimate,
         Connect, Look, StartCommandPoll, EndCommand, Tick, vars
<1>8. ASSUME NEW c, NEW command, NEW s, BeginCommand(c, command, s) PROVE CountersOK'
  BY <1>8 DEF BeginCommand, Pressed, CountersOK
<1>9. Mine \subseteq Sockets
  OBVIOUS
<1> QED
  BY <1>2, <1>3, <1>4, <1>5, <1>6, <1>7, <1>8, <1>9 DEF Next

LEMMA FlagsNext ==
    ASSUME FlagsOK, [Next]_vars
    PROVE  FlagsOK'
<1> USE DEF FlagsOK, health, Succeeded
<1>1. ASSUME NEW p, NEW found, Observe(p, found) PROVE FlagsOK'
  BY <1>1 DEF Observe, ObservePoll, ObserveCommandPoll, Proceed, Complete, Execute, published
<1>2. ASSUME NEW p, PollStep(p) PROVE FlagsOK'
  <2>1. CASE \E found : Observe(p, found)
    BY <1>1, <2>1
  <2>2. CASE ReadStations(p) \/ ReadWallet(p)
    BY <2>2 DEF ReadStations, ReadWallet, published, ghosts
  <2>3. CASE ReadActive(p) /\ lookup # None
    BY <2>3 DEF ReadActive, published, ghosts
  <2>4. CASE ReadHistory(p) \/ NoCustomer(p) \/ ReadDetails(p)
    BY <2>4 DEF ReadHistory, NoCustomer, AccountRefreshed, ReadDetails, Proceed, Complete,
       published, ghosts
  <2> QED
    BY <1>2, <2>1, <2>2, <2>3, <2>4 DEF PollStep, ReadActive, ReadSession
<1>3. ASSUME NEW p, SkipPoll(p) \/ StartPoll(p) PROVE FlagsOK'
  BY <1>3 DEF SkipPoll, StartPoll, published, ghosts
<1>4. ASSUME NEW p, OptionalFails(p) PROVE FlagsOK'
  BY <1>4 DEF OptionalFails, HistoryFails, AccountRefreshed, Proceed, Complete, published
<1>5. ASSUME NEW p, PollFails(p) \/ LoginLost(p) PROVE FlagsOK'
  BY <1>5 DEF PollFails, LoginLost, Abandon, HistoryFails, published
<1>6. CASE ReceivePush \/ ReceiveEstimate
  BY <1>6 DEF ReceivePush, ReceiveEstimate, Execute, published, ghosts
<1>7. CASE Connect \/ Disconnect \/ Look \/ WalletWindow
  BY <1>7 DEF Connect, Disconnect, Look, WalletWindow, published, ghosts
<1>8. \/ \E s \in Sockets, new \in Statuses : SocketChanges(s, new)
      \/ LookupCatchesUp
      \/ \E c \in Commands : StartCommandPoll(c)
      \/ \E c \in Commands, s \in Sockets, command \in {"start", "stop"} : BeginCommand(c, command, s)
      \/ \E c \in Commands, rejected \in BOOLEAN : EndCommand(c, rejected)
      \/ Tick \/ UNCHANGED vars
      => FlagsOK'
  BY DEF SocketChanges, LookupCatchesUp, StartCommandPoll, BeginCommand, Pressed, EndCommand,
         Tick, vars, published, ghosts
<1>9. Mine \subseteq Sockets
  BY CoordinatorAssumption
<1> HIDE DEF FlagsOK, health, Succeeded
<1> QED
  BY <1>2, <1>3, <1>4, <1>5, <1>6, <1>7, <1>8, <1>9 DEF Next

LEMMA UsedNext ==
    ASSUME used \subseteq Sockets, [Next]_vars
    PROVE  used' \subseteq Sockets
<1>1. ASSUME NEW s \in Sockets, NEW new \in Statuses, SocketChanges(s, new)
      PROVE  used' \subseteq Sockets
  BY <1>1 DEF SocketChanges
<1>2. \/ LookupCatchesUp
      \/ \E p \in Polls : SkipPoll(p) \/ StartPoll(p) \/ OptionalFails(p) \/ LoginLost(p)
      \/ \E p \in Slots : PollStep(p) \/ PollFails(p)
      \/ WalletWindow \/ ReceivePush \/ ReceiveEstimate \/ Connect \/ Disconnect \/ Look
      \/ \E c \in Commands : StartCommandPoll(c)
      \/ \E c \in Commands, s \in Sockets, command \in {"start", "stop"} : BeginCommand(c, command, s)
      \/ \E c \in Commands, rejected \in BOOLEAN : EndCommand(c, rejected)
      \/ Tick \/ UNCHANGED vars
      => UNCHANGED used
  BY DEF ghosts, Execute, HistoryFails, LookupCatchesUp, SkipPoll, StartPoll, OptionalFails,
         PollStep, ReadStations, ReadActive, Observe, ObservePoll, ObserveCommandPoll,
         ReadSession, ReadWallet, ReadHistory, NoCustomer, ReadDetails, PollFails, LoginLost,
         Abandon, WalletWindow, ReceivePush, ReceiveEstimate, Connect, Disconnect, Look,
         StartCommandPoll, BeginCommand, EndCommand, Tick, vars
<1>3. Mine \subseteq Sockets
  BY CoordinatorAssumption
<1> QED
  BY <1>1, <1>2, <1>3 DEF Next

\* Every field of the coordinator keeps its type; a poll names a session only
\* while it looks that session up, and a command's poll ends before the slower
\* reads.
THEOREM CoordinatorIsTyped == Spec => []TypeOK
<1> DEFINE Rest == DataOK /\ CountersOK /\ FlagsOK /\ used \subseteq Sockets
<1>1. Init => Rest
  <2> SUFFICES ASSUME Init PROVE Rest
    OBVIOUS
  <2>1. DataOK
    BY DEF Init, DataOK, Snapshot, Tracker!Init, Tracker!NoEnd, EndRecords, Tracker!Snapshots
  <2>2. CountersOK
    BY CoordinatorAssumption DEF Init, CountersOK
  <2>3. FlagsOK /\ used \subseteq Sockets
    BY DEF Init, FlagsOK
  <2> QED
    BY <2>1, <2>2, <2>3
<1>2. Rest /\ Fed /\ Fed' /\ Tracker!TypeOK /\ Tracker!TypeOK' /\ [Next]_vars => Rest'
  <2> SUFFICES ASSUME Rest, Fed, Fed', Tracker!TypeOK, Tracker!TypeOK', [Next]_vars PROVE Rest'
    OBVIOUS
  <2>1. Snapshot' \in [ stations : Tracker!Snapshots, active : Sockets \cup {None},
                        last_end : EndRecords ]
    BY DEF Fed, Tracker!TypeOK, Snapshot, EndRecords
  <2>2. DataOK'
    BY <2>1, PublishesOrKeeps DEF DataOK
  <2> QED
    BY <2>2, CountersNext, FlagsNext, UsedNext DEF Fed
<1>3. Rest /\ Fed /\ Tracker!TypeOK => TypeOK
  <2> SUFFICES ASSUME Rest, Fed, Tracker!TypeOK PROVE TypeOK
    OBVIOUS
  <2>1. /\ status \in [ Sockets -> Statuses ]
        /\ session \in Sockets \cup {None} /\ lookup \in Sockets \cup {None}
        /\ pushes \in Seq([ socket : Sockets, status : Statuses ])
    BY DEF Fed, PortalOK, Pushes
  <2>2. stations \in Tracker!Snapshots
    BY DEF Fed
  <2>3. \A p \in Slots : IsPoll(p, polls[p])
    BY DEF Fed, PollsOK
  <2>4. polls \in [ Slots -> [ pc : Words, reads : SUBSET Sockets, stations : Tracker!Snapshots,
                               found : Sockets \cup {None} ] ]
    BY DEF Fed, PollsOK, PollRecords
  <2>5. /\ \A p \in Slots : polls[p].pc = "session" <=> polls[p].found # None
        /\ \A c \in Commands : polls[c].pc \in { "idle", "stations", "active", "session" }
    BY <2>3 DEF IsPoll, Slots
  <2>6. data \in [ stations : Tracker!Snapshots, active : Sockets \cup {None},
                   last_end : [ session : Sockets \cup {None}, held_back : SUBSET Sockets,
                                freed : BOOLEAN, reused : BOOLEAN ] ]
    BY DEF DataOK, EndRecords
  <2>7. { loaded, available, scheduled, reauth, wallet_due, skip_next, push_connected,
          poll_requested, watching, unread } \subseteq BOOLEAN
    BY DEF FlagsOK
  <2>8. CountersOK /\ used \subseteq Sockets
    OBVIOUS
  <2> HIDE DEF Rest
  <2> QED
    BY <2>1, <2>2, <2>4, <2>5, <2>6, <2>7, <2>8 DEF TypeOK, CountersOK, Words
<1> HIDE DEF Rest
<1> QED
  BY <1>1, <1>2, <1>3, FedInit, FedNext, TrackerKeeps, PTL DEF Spec
=============================================================================
