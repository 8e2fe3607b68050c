------------------------------- MODULE Client -------------------------------
(***************************************************************************)
(* The portal client (driivz/client.py): requests made concurrently by     *)
(* polls, commands and entities over one cookie session, one CSRF token    *)
(* and one login lock; a request whose session is rejected logs in again   *)
(* and is sent once more.  The push channel opens over the same session.   *)
(*                                                                         *)
(* The portal is external.  A login may replace its CSRF token, and a      *)
(* request bearing a token since replaced may be rejected (docs/api.md).   *)
(* Of a token only whether it is the portal's present one is kept.  The    *)
(* model starts once the entry's setup has logged in.                      *)
(***************************************************************************)
EXTENDS Naturals, Sequences, SequencesExt

CONSTANTS
    Requests,       \* slots for requests under way at the same time
    Push,           \* the task that opens the push channel
    MaxTroubles     \* bound on expiries, failures and drops

ASSUME ClientAssumption == Push \notin Requests /\ MaxTroubles \in Nat

VARIABLES
    password,       \* the configured password is right
    session,        \* the portal accepts the cookie
    csrf,           \* _csrf is the portal's present token
    logged_in,      \* _logged_in
    lock,           \* _login_lock: the holder, then those waiting, first come first served
    pc,             \* where each actor is
    attempt,        \* of each request, 0 or 1
    bears,          \* the token a request was sent with is still the portal's
    outcome,        \* how an actor last ended
    troubles,
    (* history: while this actor was under way another one was too, or there *)
    (* was trouble                                                           *)
    disturbed

portal == << password, session >>
vars == << portal, csrf, logged_in, lock, pc, attempt, bears, outcome, troubles,
           disturbed >>

Actors == Requests \cup {Push}
LoggingIn == { "page", "post", "map" }
Busy(a) == pc[a] \notin { "idle", "done" }

\* The lock is held by whoever is first in line, and nobody else logs in.
TypeOK ==
    /\ { password, session, csrf, logged_in } \subseteq BOOLEAN
    /\ lock \in Seq(Actors) /\ IsInjective(lock)
    /\ pc \in [ Actors -> { "idle", "sent", "lock", "handshake", "done" } \cup LoggingIn ]
    /\ \A a \in Actors : a \in ToSet(lock) <=> pc[a] \in {"lock"} \cup LoggingIn
    /\ \A a \in Actors : pc[a] \in LoggingIn => a = Head(lock)
    /\ attempt \in [ Requests -> {0, 1} ]
    /\ bears \in [ Requests -> BOOLEAN ]
    /\ outcome \in [ Actors -> { "none", "answered", "auth", "failed" } ]
    /\ troubles \in 0 .. MaxTroubles
    /\ disturbed \in [ Actors -> BOOLEAN ]

Init ==
    /\ password \in BOOLEAN
    /\ session = TRUE
    /\ csrf = TRUE
    /\ logged_in = TRUE
    /\ lock = << >>
    /\ pc = [ a \in Actors |-> "idle" ]
    /\ attempt = [ r \in Requests |-> 0 ]
    /\ bears = [ r \in Requests |-> FALSE ]
    /\ outcome = [ a \in Actors |-> "none" ]
    /\ troubles = 0
    /\ disturbed = [ a \in Actors |-> FALSE ]

-----------------------------------------------------------------------------
Enters(a) ==
    disturbed' = [ b \in Actors |-> IF b = a THEN \E c \in Actors \ {a} : Busy(c)
                                    ELSE disturbed[b] \/ Busy(b) ]
Trouble ==
    /\ troubles < MaxTroubles
    /\ troubles' = troubles + 1
    /\ disturbed' = [ b \in Actors |-> disturbed[b] \/ Busy(b) ]

Ends(a, how) ==
    /\ pc' = [ pc EXCEPT ![a] = "done" ]
    /\ outcome' = [ outcome EXCEPT ![a] = how ]

Queue(a) ==
    /\ pc' = [ pc EXCEPT ![a] = "lock" ]
    /\ lock' = Append(lock, a)

\* A request goes out with the token the client has now.
Request(r) ==
    /\ pc[r] \in {"idle", "done"}
    /\ pc' = [ pc EXCEPT ![r] = "sent" ]
    /\ attempt' = [ attempt EXCEPT ![r] = 0 ]
    /\ bears' = [ bears EXCEPT ![r] = csrf ]
    /\ outcome' = [ outcome EXCEPT ![r] = "none" ]
    /\ Enters(r)
    /\ UNCHANGED << portal, csrf, logged_in, lock, troubles >>

\* A mutation: only a client that believes it is logged in logs in again.
Rejected_latched(r) ==
    /\ pc[r] = "sent"
    /\ ~(session /\ bears[r])
    /\ IF attempt[r] = 1 \/ ~logged_in THEN Ends(r, "auth") /\ UNCHANGED lock
       ELSE Queue(r) /\ UNCHANGED outcome
    /\ UNCHANGED << portal, csrf, logged_in, attempt, bears, troubles, disturbed >>

\* 401, 403, the login page or an authentication error: log in again, once,
\* whatever the client believes.
Rejected(r) ==
    /\ pc[r] = "sent"
    /\ ~(session /\ bears[r])
    /\ IF attempt[r] = 1 THEN Ends(r, "auth") /\ UNCHANGED lock
       ELSE Queue(r) /\ UNCHANGED outcome
    /\ UNCHANGED << portal, csrf, logged_in, attempt, bears, troubles, disturbed >>

\* The portal's answer, a refusal of the operation included.
Answered(r) ==
    /\ pc[r] = "sent"
    /\ session
    /\ Ends(r, "answered")
    /\ UNCHANGED << portal, csrf, logged_in, lock, attempt, bears, troubles,
                    disturbed >>

\* A network error, a rate limit or an answer that is no JSON.
RequestFails(r) ==
    /\ pc[r] = "sent"
    /\ Trouble
    /\ Ends(r, "failed")
    /\ UNCHANGED << portal, csrf, logged_in, lock, attempt, bears >>

-----------------------------------------------------------------------------
(* login()                                                                 *)

\* A mutation: no lock.
Enter_unlocked(a) ==
    /\ pc[a] = "lock"
    /\ logged_in' = FALSE
    /\ pc' = [ pc EXCEPT ![a] = "page" ]
    /\ UNCHANGED << portal, csrf, lock, attempt, bears, outcome, troubles, disturbed >>

Enter(a) ==
    /\ pc[a] = "lock" /\ Head(lock) = a
    /\ logged_in' = FALSE
    /\ pc' = [ pc EXCEPT ![a] = "page" ]
    /\ UNCHANGED << portal, csrf, lock, attempt, bears, outcome, troubles, disturbed >>

LoginPage(a) ==
    /\ pc[a] = "page"
    /\ csrf' = TRUE
    /\ pc' = [ pc EXCEPT ![a] = "post" ]
    /\ UNCHANGED << portal, logged_in, lock, attempt, bears, outcome, troubles,
                    disturbed >>

\* Accepted, the portal has a new session and perhaps a new token.  Refused,
\* the error is the caller's.
LoginPost(a) ==
    /\ pc[a] = "post"
    /\ IF password /\ csrf
       THEN /\ session' = TRUE
            /\ logged_in' = TRUE
            /\ pc' = [ pc EXCEPT ![a] = "map" ]
            /\ \/ UNCHANGED << csrf, bears >>
               \/ csrf' = FALSE /\ bears' = [ r \in Requests |-> FALSE ]
            /\ UNCHANGED << lock, outcome >>
       ELSE /\ Ends(a, "auth")
            /\ lock' = Tail(lock)
            /\ UNCHANGED << session, csrf, bears, logged_in >>
    /\ UNCHANGED << password, attempt, troubles, disturbed >>

\* With the token re-read the lock is released, and the caller goes on: a
\* request is sent again, the push channel does its handshake.
LoginMap(a) ==
    /\ pc[a] = "map"
    /\ csrf' = TRUE
    /\ lock' = Tail(lock)
    /\ IF a = Push
       THEN /\ pc' = [ pc EXCEPT ![a] = "handshake" ]
            /\ UNCHANGED << attempt, bears >>
       ELSE /\ pc' = [ pc EXCEPT ![a] = "sent" ]
            /\ attempt' = [ attempt EXCEPT ![a] = 1 ]
            /\ bears' = [ bears EXCEPT ![a] = TRUE ]
    /\ UNCHANGED << portal, logged_in, outcome, troubles, disturbed >>

\* A mutation: a failed login keeps the lock.
LoginFails_locked(a) ==
    /\ pc[a] \in LoggingIn
    /\ Trouble
    /\ Ends(a, "failed")
    /\ UNCHANGED << portal, csrf, logged_in, lock, attempt, bears >>

LoginFails(a) ==
    /\ pc[a] \in LoggingIn
    /\ Trouble
    /\ Ends(a, "failed")
    /\ lock' = Tail(lock)
    /\ UNCHANGED << portal, csrf, logged_in, attempt, bears >>

-----------------------------------------------------------------------------
(* connect_push()                                                          *)

\* async_run_push asks for a login first after a silent connection
\* (fresh_login); connect_push logs in if the client knows it is not logged in.
Connect(fresh_login) ==
    /\ ~Busy(Push)
    /\ IF fresh_login \/ ~logged_in THEN Queue(Push)
       ELSE pc' = [ pc EXCEPT ![Push] = "handshake" ] /\ UNCHANGED lock
    /\ outcome' = [ outcome EXCEPT ![Push] = "none" ]
    /\ Enters(Push)
    /\ UNCHANGED << portal, csrf, logged_in, attempt, bears, troubles >>

\* A mutation: a refused handshake leaves the flag.
Refused_flag_kept ==
    /\ pc[Push] = "handshake" /\ ~session
    /\ Ends(Push, "failed")
    /\ UNCHANGED << portal, csrf, logged_in, lock, attempt, bears, troubles, disturbed >>

Refused ==
    /\ pc[Push] = "handshake" /\ ~session
    /\ Ends(Push, "failed")
    /\ logged_in' = FALSE
    /\ UNCHANGED << portal, csrf, lock, attempt, bears, troubles, disturbed >>

Opened ==
    /\ pc[Push] = "handshake" /\ session
    /\ Ends(Push, "answered")
    /\ UNCHANGED << portal, csrf, logged_in, lock, attempt, bears, troubles, disturbed >>

\* No connection, or one that breaks at the greeting, which leaves the flag.
HandshakeFails ==
    /\ pc[Push] = "handshake"
    /\ Trouble
    /\ Ends(Push, "failed")
    /\ logged_in' \in { FALSE, logged_in }
    /\ UNCHANGED << portal, csrf, lock, attempt, bears >>

\* The session expires at the portal, its token with it.
Expire ==
    /\ session
    /\ Trouble
    /\ session' = FALSE
    /\ csrf' = FALSE
    /\ bears' = [ r \in Requests |-> FALSE ]
    /\ UNCHANGED << password, logged_in, lock, pc, attempt, outcome >>

-----------------------------------------------------------------------------
Login(a) == Enter(a) \/ LoginPage(a) \/ LoginPost(a) \/ LoginMap(a)

\* What requests, logins and the opening of the push channel do.
Step ==
    \/ \E r \in Requests : Request(r) \/ Answered(r) \/ Rejected(r) \/ RequestFails(r)
    \/ \E a \in Actors : Login(a) \/ LoginFails(a)
    \/ Refused \/ Opened \/ HandshakeFails
    \/ Expire

-----------------------------------------------------------------------------
\* Whatever earlier logins, failures and expiries left behind (the flag, the
\* token, the lock), a request nothing disturbs is answered if the password is
\* right (_request: a failed re-login must not latch the client off), and
\* never merely fails.
UndisturbedIsAnswered ==
    \A r \in Requests :
        pc[r] = "done" /\ ~disturbed[r]
          => outcome[r] = "answered" \/ (outcome[r] = "auth" /\ ~password)

\* No request waits for ever for the login lock.
EveryRequestEnds == \A r \in Requests : pc[r] = "sent" ~> pc[r] = "done"
=============================================================================
