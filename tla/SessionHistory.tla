--------------------------- MODULE SessionHistory ---------------------------
(***************************************************************************)
(* The session tracker with history variables, to say what its few fields  *)
(* remember of all it was told: the tracker keeps one pushed end, one last *)
(* command and a set of held-back sockets; the history keeps the newest    *)
(* pushed end whatever follows it, and of each socket whether it was free  *)
(* all along and your last start there.  History variables only watch;     *)
(* they disable no step.                                                   *)
(***************************************************************************)
EXTENDS SessionTracker

VARIABLES
    free_throughout, \* of each socket: free just before the last end and whenever seen since
    newest,     \* the newest pushed end, aged at once when its socket charges again
    started     \* age of your last command on a socket, if it was a start not rejected

history == << free_throughout, newest, started >>
hvars == << vars, history >>

HInit ==
    /\ Init
    /\ free_throughout = [ s \in Sockets |-> FALSE ]
    /\ newest = [ socket |-> None, age |-> PUSHED_END_TRUST ]
    /\ started = [ s \in Sockets |-> OWN_START_WINDOW ]

Seen(st) ==
    free_throughout' =
        [ s \in Sockets |->
            /\ IF Ends(active') THEN stations[s] = STATUS_AVAILABLE ELSE free_throughout[s]
            /\ st[s] \in {None, STATUS_AVAILABLE} ]

HPoll ==
    \E found \in Sockets \cup {None}, st \in Snapshots :
        /\ Polled(found, st)
        /\ Seen(st)
        /\ UNCHANGED << newest, started >>

HStatusPush ==
    \E socket \in Sockets \cup {None}, status \in Statuses \cup {None},
       mine \in BOOLEAN, before \in Snapshots :
        /\ mine \/ (active # None /\ socket = active /\ before[socket] = None)
        /\ StatusPushed(socket, status, mine, before)
        /\ Seen(stations')
        /\ newest' = IF Ends(active') THEN [ socket |-> socket, age |-> 0 ]
                     ELSE IF socket = newest.socket /\ status \in CHARGING_STATUSES
                     THEN [ newest EXCEPT !.age = PUSHED_END_TRUST ]
                     ELSE newest
        /\ UNCHANGED started

HFinish ==
    \E c \in Commands, rejected \in BOOLEAN :
        /\ CommandFinished(c, rejected)
        /\ started' = [ started EXCEPT ![running[c].socket] =
                          IF running[c].command = "start" /\ ~rejected THEN running[c].age
                          ELSE OWN_START_WINDOW ]
        /\ UNCHANGED << free_throughout, newest >>

HTick ==
    /\ Tick
    /\ newest' = [ newest EXCEPT !.age = Older(@, PUSHED_END_TRUST) ]
    /\ started' = [ s \in Sockets |-> Older(started[s], OWN_START_WINDOW) ]
    /\ UNCHANGED free_throughout

HNext ==
    \/ HPoll
    \/ HStatusPush
    \/ HFinish
    \/ HTick
    \/ (EstimatePushed \/ StartOrStop) /\ UNCHANGED history

HSpec == HInit /\ [][HNext]_hvars

-----------------------------------------------------------------------------
\* CONTEXT.md, "Held back": other than the left socket, exactly the sockets
\* that were free in the snapshot before the end and whenever seen since
\* (_set_active, _follow_held_back).
HeldBackFreeThroughout ==
    last_end.session # None =>
        \A s \in Sockets \ {last_end.session} :
            s \in last_end.held_back <=> free_throughout[s]

\* The session that the newest push ended does not come back within the trust
\* window, in whatever order late polls, pushes and other sessions' ends by
\* poll arrive, unless a push shows its socket charging (_unless_pushed_end).
NewestPushedEndTrusted ==
    [][ newest.socket # None /\ active # newest.socket /\ active' = newest.socket
          => newest.age = PUSHED_END_TRUST ]_hvars

\* The sockets with an own start (own_starts) are those of a running start, or
\* of a start that was neither rejected, nor followed by another command on
\* that socket, nor older than the window.
OwnStartsSound ==
    \A s \in own_starts :
        \/ \E c \in Commands : running[c].command = "start" /\ running[c].socket = s
        \/ started[s] < OWN_START_WINDOW
=============================================================================
