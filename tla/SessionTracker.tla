--------------------------- MODULE SessionTracker ---------------------------
(***************************************************************************)
(* The session tracker (session_tracker.py): observations in, your session *)
(* and what to look for next out.  The code runs observe() to completion   *)
(* on the event loop, so every observation is one atomic action.           *)
(*                                                                         *)
(* Time is kept as ages: how long ago the pushed end, a running command    *)
(* and the last command were, each saturating at the window it is compared *)
(* with (an age equal to the window means "at least the window").  So no   *)
(* bound on the length of a behaviour is needed.                           *)
(*                                                                         *)
(* A session is its socket: nothing else of it is compared.  The chargers  *)
(* as observed are the status of each socket, None for one that no         *)
(* observed charger lists.                                                 *)
(***************************************************************************)
EXTENDS Naturals, Statuses

CONSTANTS
    Sockets,            \* the sockets sessions and chargers may name
    Commands,           \* slots for commands running at the same time
    PUSHED_END_TRUST,   \* in ticks
    OWN_START_WINDOW    \* in ticks

ASSUME SocketsAssumption == None \notin Sockets
ASSUME TrustAssumption == PUSHED_END_TRUST \in Nat \ {0}
ASSUME WindowAssumption == OWN_START_WINDOW \in Nat \ {0}

VARIABLES
    active,         \* the socket of your running session, or None
    last_end,       \* your most recent session once it has ended
    pushed_end,     \* the socket whose session a push ended, and how long ago
    running,        \* the commands being carried out, by slot
    last_command,   \* the command that finished last
    stations,       \* your chargers as last observed
    intents         \* what the last observation asked the coordinator to do

vars == << active, last_end, pushed_end, running, last_command, stations, intents >>

-----------------------------------------------------------------------------
Intents == { "PollNow", "WatchForSession", "RereadHistory" }
Snapshots == [ Sockets -> Statuses \cup {None} ]

NoEnd == [ session |-> None, held_back |-> {}, freed |-> FALSE, reused |-> FALSE ]
NoPushedEnd == [ socket |-> None, age |-> 0 ]
NotRunning == [ command |-> "none", socket |-> None, age |-> 0 ]
NoCommand == [ command |-> "none", socket |-> None, rejected |-> FALSE, age |-> 0 ]

TypeOK ==
    /\ active \in Sockets \cup {None}
    /\ last_end \in [ session : Sockets \cup {None}, held_back : SUBSET Sockets,
                      freed : BOOLEAN, reused : BOOLEAN ]
    /\ pushed_end \in [ socket : Sockets \cup {None}, age : 0 .. PUSHED_END_TRUST ]
    /\ running \in [ Commands -> [ command : {"none", "start", "stop"},
                                   socket : Sockets \cup {None},
                                   age : 0 .. OWN_START_WINDOW ] ]
    /\ last_command \in [ command : {"none", "start", "stop"},
                          socket : Sockets \cup {None},
                          rejected : BOOLEAN, age : 0 .. OWN_START_WINDOW ]
    /\ stations \in Snapshots
    /\ intents \in SUBSET Intents

Init ==
    /\ active = None
    /\ last_end = NoEnd
    /\ pushed_end = NoPushedEnd
    /\ running = [ c \in Commands |-> NotRunning ]
    /\ last_command = NoCommand
    /\ stations = [ s \in Sockets |-> None ]
    /\ intents = {}

-----------------------------------------------------------------------------
Available(st) == { s \in Sockets : st[s] = STATUS_AVAILABLE }

IsRunning(c) == running[c].command # "none"

\* A mutation: a rejected start still counts.
own_starts_rejected_too ==
    { running[c].socket : c \in { d \in Commands : running[d].command = "start" } }
      \cup
    { s \in Sockets : /\ last_command.command = "start"
                      /\ last_command.socket = s
                      /\ last_command.age < OWN_START_WINDOW }

\* Sockets whose charging is expected to be your session.
own_starts ==
    { running[c].socket : c \in { d \in Commands : running[d].command = "start" } }
      \cup
    { s \in Sockets : /\ last_command.command = "start"
                      /\ last_command.socket = s
                      /\ ~last_command.rejected
                      /\ last_command.age < OWN_START_WINDOW }

\* The session known so far is over once the portal or a push says so, or
\* once another socket's session takes its place.
Ends(a) == active # None /\ a # active

\* The end as first recorded: everything else that was free just before it is
\* held back.
RecordedEnd(a) ==
    IF Ends(a)
    THEN [ NoEnd EXCEPT !.session = active,
                        !.held_back = Available(stations) \ {active} ]
    ELSE last_end

\* Mutations of follow_held_back: it keeps the left socket when that is taken;
\* it takes freed from the latest snapshot alone; it releases no socket but the
\* left one.
follow_never_discarding(end, st) ==
    LET left == end.session
        freed == end.freed \/ st[left] = STATUS_AVAILABLE
        reused == end.reused \/ (end.freed /\ st[left] \in IN_USE_STATUSES)
        still == { s \in end.held_back \ {left} : st[s] \in {None, STATUS_AVAILABLE} }
        held == still \cup IF st[left] = STATUS_AVAILABLE /\ ~reused THEN {left}
                           ELSE end.held_back \cap {left}
    IN  IF left = None THEN end
        ELSE [ session |-> left, held_back |-> held, freed |-> freed, reused |-> reused ]

follow_forgetting_freed(end, st) ==
    LET left == end.session
        reused == end.reused \/ (end.freed /\ st[left] \in IN_USE_STATUSES)
        still == { s \in end.held_back : st[s] \in {None, STATUS_AVAILABLE} }
        held == IF st[left] = STATUS_AVAILABLE /\ ~reused THEN still \cup {left}
                ELSE IF st[left] = None THEN still
                ELSE still \ {left}
    IN  IF left = None THEN end
        ELSE [ session |-> left, held_back |-> held,
               freed |-> st[left] = STATUS_AVAILABLE, reused |-> reused ]

follow_left_only(end, st) ==
    LET left == end.session
        freed == end.freed \/ st[left] = STATUS_AVAILABLE
        reused == end.reused \/ (end.freed /\ st[left] \in IN_USE_STATUSES)
        held == IF st[left] = STATUS_AVAILABLE /\ ~reused THEN end.held_back \cup {left}
                ELSE IF st[left] = None THEN end.held_back
                ELSE end.held_back \ {left}
    IN  IF left = None THEN end
        ELSE [ session |-> left, held_back |-> held, freed |-> freed, reused |-> reused ]

\* Releases a held-back socket once it is seen taken, and holds the left
\* socket while it is free and nobody has used it since it freed.
follow_held_back(end, st) ==
    LET left == end.session
        freed == end.freed \/ st[left] = STATUS_AVAILABLE
        reused == end.reused \/ (end.freed /\ st[left] \in IN_USE_STATUSES)
        still == { s \in end.held_back : st[s] \in {None, STATUS_AVAILABLE} }
        held == IF st[left] = STATUS_AVAILABLE /\ ~reused THEN still \cup {left}
                ELSE IF st[left] = None THEN still
                ELSE still \ {left}
    IN  IF left = None THEN end
        ELSE [ session |-> left, held_back |-> held, freed |-> freed, reused |-> reused ]

\* Both paths that see chargers: record the session and follow the sockets.
Observed(a, st) ==
    /\ active' = a
    /\ last_end' = follow_held_back(RecordedEnd(a), st)
    /\ stations' = st

RereadIf(a) == IF Ends(a) THEN {"RereadHistory"} ELSE {}

\* A push changes one listed socket of one charger.
with_push(st, socket, status) ==
    IF socket \in Sockets /\ status # None
    THEN [ st EXCEPT ![socket] = IF @ = None THEN None ELSE status ]
    ELSE st

-----------------------------------------------------------------------------
\* A mutation: trusted one tick too short.
TrustedEnd_too_short == pushed_end.socket # None /\ pushed_end.age + 1 < PUSHED_END_TRUST

TrustedEnd == pushed_end.socket # None /\ pushed_end.age < PUSHED_END_TRUST

\* A mutation: a poll that reports the session brings it back.
Polled_bringing_back(found, st) ==
    /\ pushed_end' = IF found # None /\ ~TrustedEnd THEN NoPushedEnd ELSE pushed_end
    /\ Observed(found, st)
    /\ intents' = RereadIf(found)
    /\ UNCHANGED << running, last_command >>

\* The portal's session (None: none) and your chargers, as a poll found them.
Polled(found, st) ==
    LET a == IF found # None /\ found = pushed_end.socket /\ TrustedEnd THEN None ELSE found
    IN  /\ pushed_end' = IF found # None /\ ~TrustedEnd THEN NoPushedEnd ELSE pushed_end
        /\ Observed(a, st)
        /\ intents' = RereadIf(a)
        /\ UNCHANGED << running, last_command >>

\* A status push for `socket`; `mine` when its charger is one the coordinator
\* keeps, so one of yours or one a command has polled, whose sockets were
\* `before`.
StatusPushed(socket, status, mine, before) ==
    LET was == IF socket \in Sockets THEN before[socket] ELSE None
        unknown_charge == /\ mine
                          /\ active = None
                          /\ \A c \in Commands : ~IsRunning(c)
                          /\ status \in CHARGING_STATUSES
                          /\ was \notin CHARGING_STATUSES
        look == IF ~unknown_charge THEN {}
                ELSE IF socket \in own_starts THEN {"WatchForSession"} ELSE {"PollNow"}
        ends == /\ active # None
                /\ socket = active
                /\ status # None
                /\ status \notin CHARGING_STATUSES \cup NOT_AN_END
        resumes == /\ pushed_end.socket # None
                   /\ socket = pushed_end.socket
                   /\ status \in CHARGING_STATUSES
        a == IF ends THEN None ELSE active
    IN  /\ pushed_end' = IF ends THEN [ socket |-> active, age |-> 0 ]
                         ELSE IF resumes THEN NoPushedEnd
                         ELSE pushed_end
        /\ Observed(a, IF mine THEN with_push(before, socket, status) ELSE before)
        /\ intents' = RereadIf(a) \cup look
        /\ UNCHANGED << running, last_command >>

\* Readings of the running session; without one they say there is one to find.
EstimatePushed ==
    /\ intents' = IF active = None THEN {"PollNow"} ELSE {}
    /\ UNCHANGED << active, last_end, pushed_end, running, last_command, stations >>

CommandStarted(c, command, socket) ==
    /\ ~IsRunning(c)
    /\ running' = [ running EXCEPT ![c] = [ command |-> command, socket |-> socket, age |-> 0 ] ]
    /\ intents' = {}
    /\ UNCHANGED << active, last_end, pushed_end, last_command, stations >>

CommandFinished(c, rejected) ==
    /\ IsRunning(c)
    /\ last_command' = [ command |-> running[c].command, socket |-> running[c].socket,
                         rejected |-> rejected, age |-> running[c].age ]
    /\ running' = [ running EXCEPT ![c] = NotRunning ]
    /\ intents' = {}
    /\ UNCHANGED << active, last_end, pushed_end, stations >>

\* A mutation: one tick past the window.
Older_past_window(age, most) == IF age <= most THEN age + 1 ELSE age

\* Time passes.
Older(age, most) == IF age < most THEN age + 1 ELSE age

Tick ==
    /\ pushed_end' = IF pushed_end.socket = None THEN pushed_end
                     ELSE [ pushed_end EXCEPT !.age = Older(@, PUSHED_END_TRUST) ]
    /\ running' = [ c \in Commands |->
                      IF IsRunning(c) THEN [ running[c] EXCEPT !.age = Older(@, OWN_START_WINDOW) ]
                      ELSE running[c] ]
    /\ last_command' = IF last_command.command = "none" THEN last_command
                       ELSE [ last_command EXCEPT !.age = Older(@, OWN_START_WINDOW) ]
    /\ UNCHANGED << active, last_end, stations, intents >>

-----------------------------------------------------------------------------
\* Any poll answer may arrive, however late.  A push is handed on if it is for
\* a charger the coordinator keeps or for the socket of your session, and applies to the
\* chargers as the coordinator has them, which are behind those the tracker
\* saw last while a poll is still busy with the account and the details.
Poll == \E found \in Sockets \cup {None}, st \in Snapshots : Polled(found, st)

StatusPush ==
    \E socket \in Sockets \cup {None}, status \in Statuses \cup {None},
       mine \in BOOLEAN, before \in Snapshots :
        /\ mine \/ (active # None /\ socket = active /\ before[socket] = None)
        /\ StatusPushed(socket, status, mine, before)

StartOrStop ==
    \E c \in Commands, command \in {"start", "stop"}, socket \in Sockets :
        CommandStarted(c, command, socket)

Finish == \E c \in Commands, rejected \in BOOLEAN : CommandFinished(c, rejected)

Next == Tick \/ StartOrStop \/ Finish \/ EstimatePushed \/ Poll \/ StatusPush

Spec == Init /\ [][Next]_vars

-----------------------------------------------------------------------------
(* What the tracker promises                                               *)

\* A session ended by a push stays ended while that push is remembered
\* (_unless_pushed_end): no poll, however late its answer, shows it running.
PushedEndHolds == pushed_end.socket # None => active # pushed_end.socket

\* The socket you left (_follow_held_back): whenever your chargers show it, it
\* is held back exactly while it is free and not reused; it counts as reused
\* only once it was freed; and while free it is freed.  Nobody else's socket
\* is held back once it was seen taken.
LeftSocketHeld ==
    LET left == last_end.session
    IN  left # None =>
          /\ last_end.reused => last_end.freed
          /\ stations[left] = STATUS_AVAILABLE => last_end.freed
          /\ stations[left] # None =>
               (left \in last_end.held_back <=>
                  stations[left] = STATUS_AVAILABLE /\ ~last_end.reused)
          /\ \A s \in last_end.held_back : stations[s] \in {None, STATUS_AVAILABLE}

\* Until another session ends, what is known of the last end only grows
\* (freed, reused) and what is held back only shrinks, the left socket
\* excepted; a reused left socket never comes back.
EndIsKept ==
    [][ ~Ends(active') =>
          /\ last_end'.session = last_end.session
          /\ last_end.freed => last_end'.freed
          /\ last_end.reused => last_end'.reused
          /\ last_end'.held_back \ last_end.held_back
               \subseteq IF last_end.reused THEN {} ELSE {last_end.session} ]_vars
=============================================================================
