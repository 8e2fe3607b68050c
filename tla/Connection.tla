----------------------------- MODULE Connection -----------------------------
(***************************************************************************)
(* The portal client and the task that keeps the push channel open         *)
(* (async_run_push), together: the task's logins queue for the client's    *)
(* lock with those of the requests, and each tells by the flags it leaves  *)
(* (_logged_in, fresh_login) whether the other has to log in.  An attempt  *)
(* of PushChannel is here the client's own steps.                          *)
(***************************************************************************)
EXTENDS Client

CONSTANTS MIN_SECONDS, MAX_SECONDS, SILENCE_TIMEOUT     \* of PushChannel

VARIABLES
    channel,        \* where async_run_push is: opening, open, closing or asleep
    backoff, timer, fresh_login, silent, push_connected, dead, owed, failed

Channel == INSTANCE PushChannel WITH pc <- channel

ASSUME ConnectionAssumption == Channel!PushChannelAssumption

task == << channel, backoff, timer, fresh_login, silent, push_connected, dead, owed, failed >>
connection == << vars, task >>

\* Between attempts the task asks nothing of the client.
ConnectionTypeOK ==
    /\ TypeOK
    /\ Channel!TypeOK
    /\ Busy(Push) => channel = "opening"

ConnectionInit == Init /\ Channel!Init

-----------------------------------------------------------------------------
\* The next attempt begins.
Attempt ==
    /\ channel = "opening"
    /\ Connect(fresh_login)
    /\ UNCHANGED task

\* The task goes on when login() returns and when the attempt ends.
TaskFollows ==
    IF pc[Push] # "done" /\ pc'[Push] = "done"
    THEN IF outcome'[Push] = "answered" THEN Channel!Open ELSE Channel!Unavailable
    ELSE IF pc[Push] = "map" /\ pc'[Push] = "handshake" /\ fresh_login THEN Channel!LoggedIn
    ELSE UNCHANGED task

ClientStep == Step /\ TaskFollows

\* The portal closes the channel, or it dies, or a live one is silent.
ChannelTrouble ==
    /\ Trouble
    /\ \/ channel = "open" /\ Channel!Closed
       \/ Channel!Dies
       \/ ~dead /\ Channel!OnSilence
    /\ UNCHANGED << portal, csrf, logged_in, lock, pc, attempt, bears, outcome >>

ChannelStep ==
    /\ \/ channel = "closing" /\ Channel!Closed
       \/ dead /\ Channel!OnSilence
       \/ Channel!Message \/ Channel!Awake \/ Channel!Tick
    /\ UNCHANGED vars

ConnectionNext == Attempt \/ ClientStep \/ ChannelTrouble \/ ChannelStep

\* Requests and logins are answered or time out, timers fire, and a closed
\* socket lets the receive return.
Fairness ==
    /\ \A r \in Requests : WF_connection((Answered(r) \/ Rejected(r)) /\ TaskFollows)
    /\ \A a \in Actors : WF_connection(Login(a) /\ TaskFollows)
    /\ WF_connection(Attempt)
    /\ WF_connection((Refused \/ Opened) /\ TaskFollows)
    /\ WF_connection(ChannelStep /\ channel # "open")
    /\ WF_connection(ChannelStep /\ dead)

ConnectionSpec == ConnectionInit /\ [][ConnectionNext]_connection /\ Fairness

-----------------------------------------------------------------------------
\* After a silent connection none is opened before a login has succeeded
\* (fresh_login), however many attempts fail in between.
NoStaleCookie == Channel!NoStaleCookie

\* The delay before an attempt doubles with each failure in a row, from the
\* least to the most, and starts over once connected (async_run_push).
BacksOff == Channel!BacksOff

\* The channel is open for good, with something behind it, after any drops,
\* silences, refusals and expiries (connect_push drops the login flag when
\* refused; the silence watchdog gives up a dead connection).
PushOpens == password => <>[](push_connected /\ ~dead)
=============================================================================
