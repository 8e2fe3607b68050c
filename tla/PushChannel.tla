---------------------------- MODULE PushChannel ----------------------------
(***************************************************************************)
(* The task that keeps the portal's websocket open (async_run_push in      *)
(* coordinator.py): reconnecting with a growing delay, and dropping a      *)
(* connection that has gone silent, to reopen it after a fresh login.      *)
(*                                                                         *)
(* Time goes in ticks; timers fire when due.  The portal is external: it   *)
(* accepts or refuses logins and connections, closes them, and a           *)
(* connection may die, still open but with nothing behind it.              *)
(***************************************************************************)
EXTENDS Naturals

CONSTANTS
    MIN_SECONDS, MAX_SECONDS,   \* PUSH_RECONNECT_MIN_SECONDS and _MAX_SECONDS, in ticks
    SILENCE_TIMEOUT             \* PUSH_SILENCE_TIMEOUT_SECONDS, in ticks

\* What a module that instantiates this one assumes of the delays.
PushChannelAssumption ==
    /\ MIN_SECONDS \in Nat \ {0}
    /\ MAX_SECONDS \in Nat /\ MIN_SECONDS <= MAX_SECONDS
    /\ SILENCE_TIMEOUT \in Nat \ {0}

VARIABLES
    pc,             \* opening (before login or connect), open, closing, asleep
    backoff,        \* the delay before the next attempt
    timer,          \* ticks left of the sleep, or of the silence watchdog
    fresh_login,    \* log in before connecting
    silent,         \* the watchdog has fired on this connection
    push_connected, \* what the entities and the poll interval follow
    dead,           \* nothing is behind the open connection
    (* history: a login is owed to a silent connection; attempts failed in a row *)
    owed, failed

vars == << pc, backoff, timer, fresh_login, silent, push_connected, dead, owed, failed >>

Smaller(m, n) == IF m < n THEN m ELSE n
Larger(m, n) == IF m > n THEN m ELSE n

TypeOK ==
    /\ pc \in { "opening", "open", "closing", "asleep" }
    /\ backoff \in MIN_SECONDS .. MAX_SECONDS
    /\ timer \in 0 .. Larger(MAX_SECONDS, SILENCE_TIMEOUT)
    /\ { fresh_login, silent, push_connected, dead, owed } \subseteq BOOLEAN
    /\ failed \in 0 .. MAX_SECONDS
    /\ push_connected <=> pc \in { "open", "closing" }

Init ==
    /\ pc = "opening"
    /\ backoff = MIN_SECONDS
    /\ timer = 0
    /\ fresh_login = FALSE
    /\ silent = FALSE
    /\ push_connected = FALSE
    /\ dead = FALSE
    /\ owed = FALSE
    /\ failed = 0

-----------------------------------------------------------------------------
Sleep(seconds) == pc' = "asleep" /\ timer' = seconds

\* A mutation: a failed attempt forgets the login owed.
Unavailable_forgetting ==
    /\ pc = "opening"
    /\ Sleep(backoff)
    /\ backoff' = Smaller(backoff * 2, MAX_SECONDS)
    /\ fresh_login' = FALSE
    /\ failed' = Smaller(failed + 1, MAX_SECONDS)
    /\ UNCHANGED << silent, push_connected, dead, owed >>

\* The login or the connection fails.
Unavailable ==
    /\ pc = "opening"
    /\ Sleep(backoff)
    /\ backoff' = Smaller(backoff * 2, MAX_SECONDS)
    /\ failed' = Smaller(failed + 1, MAX_SECONDS)
    /\ UNCHANGED << fresh_login, silent, push_connected, dead, owed >>

\* The login owed to a silent connection succeeds, whatever comes of the
\* connection.
LoggedIn ==
    /\ pc = "opening" /\ fresh_login
    /\ fresh_login' = FALSE
    /\ owed' = FALSE
    /\ UNCHANGED << pc, backoff, timer, silent, push_connected, dead, failed >>

\* A mutation: the delay is not taken back.
Open_still_backed_off ==
    /\ pc = "opening" /\ ~fresh_login
    /\ pc' = "open"
    /\ push_connected' = TRUE
    /\ silent' = FALSE
    /\ timer' = SILENCE_TIMEOUT
    /\ failed' = 0
    /\ UNCHANGED << backoff, fresh_login, dead, owed >>

Open ==
    /\ pc = "opening" /\ ~fresh_login
    /\ pc' = "open"
    /\ backoff' = MIN_SECONDS
    /\ push_connected' = TRUE
    /\ silent' = FALSE
    /\ timer' = SILENCE_TIMEOUT
    /\ failed' = 0
    /\ UNCHANGED << fresh_login, dead, owed >>

\* Every text message restarts the watchdog.
Message ==
    /\ pc = "open" /\ ~dead
    /\ timer' = SILENCE_TIMEOUT
    /\ UNCHANGED << pc, backoff, fresh_login, silent, push_connected, dead, owed, failed >>

Dies ==
    /\ pc = "open" /\ ~dead
    /\ dead' = TRUE
    /\ UNCHANGED << pc, backoff, timer, fresh_login, silent, push_connected, owed, failed >>

\* _on_silence: the watchdog closes the socket, so that the receive returns.
OnSilence ==
    /\ pc = "open" /\ timer = 0
    /\ silent' = TRUE
    /\ owed' = TRUE
    /\ pc' = "closing"
    /\ UNCHANGED << timer, backoff, fresh_login, push_connected, dead, failed >>

\* The receive returns: closed by the portal, an error, or the watchdog.
Closed ==
    /\ pc \in { "open", "closing" }
    /\ Sleep(backoff)
    /\ push_connected' = FALSE
    /\ fresh_login' = (fresh_login \/ silent)
    /\ dead' = FALSE
    /\ UNCHANGED << backoff, silent, owed, failed >>

Awake ==
    /\ pc = "asleep" /\ timer = 0
    /\ pc' = "opening"
    /\ UNCHANGED << backoff, timer, fresh_login, silent, push_connected, dead, owed, failed >>

Tick ==
    /\ pc \in { "open", "asleep" } /\ timer > 0
    /\ timer' = timer - 1
    /\ UNCHANGED << pc, backoff, fresh_login, silent, push_connected, dead, owed, failed >>

Next ==
    \/ Unavailable \/ LoggedIn \/ Open \/ Message \/ Dies \/ OnSilence \/ Closed \/ Awake
    \/ Tick

Spec == Init /\ [][Next]_vars

-----------------------------------------------------------------------------
\* After a silent connection none is opened before a login has succeeded
\* (fresh_login), however many attempts fail in between.
NoStaleCookie == pc = "open" => ~owed

\* The delay before an attempt doubles with each failure in a row, from the
\* least to the most, and starts over once connected (async_run_push).
BacksOff ==
    [][ pc' = "asleep" /\ pc = "opening"
          => timer' = Smaller(MIN_SECONDS * 2 ^ failed, MAX_SECONDS) ]_vars
=============================================================================
