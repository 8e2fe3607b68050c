------------------------------ MODULE Commands ------------------------------
(***************************************************************************)
(* Starting and stopping a socket, held open until the charger shows the   *)
(* outcome (commands.py), with the port it waits on: the coordinator's one *)
(* push event and its command polls (_wait_for_push and _CommandChanges in *)
(* coordinator.py).  Commands run concurrently and share the event, the    *)
(* view and the rate limit; a step ends where the code awaits.             *)
(*                                                                         *)
(* What the integration sees (the view) changes as the portal pleases: by  *)
(* a push, by the answer to a command's own poll, by the scheduled poll.   *)
(* Time passes while a command sleeps; requests take none, so a real one   *)
(* only makes a command wait longer.                                       *)
(***************************************************************************)
EXTENDS Naturals, StartRules

CONSTANTS
    Sockets,
    Answers,            \* the capabilities the portal may answer with; None: it fails
    Cmds,               \* commands that may be under way at the same time
    INTERVAL,           \* Cadence.interval_seconds, in ticks
    MAX_POLLS,          \* Cadence.max_polls
    RATE_LIMIT_FLOOR,
    RATE_LIMIT,         \* the portal's allowance, after a refill
    MOST_REQUESTS       \* of one command poll; 5, with those of _fetch_active

ASSUME CommandsAssumption ==
    /\ None \notin Sockets /\ Answers \subseteq Capabilities \cup {None}
    /\ INTERVAL \in Nat \ {0}
    /\ MAX_POLLS \in Nat \ {0}
    /\ RATE_LIMIT_FLOOR \in Nat
    /\ RATE_LIMIT \in Nat
    /\ MOST_REQUESTS \in Nat \ {0}

VARIABLES
    pc,             \* where each command is: idle, before an await, or done
    kind,           \* "start" or "stop"
    target,         \* the socket it is for
    expect_cable,   \* a start on a socket seen free
    checks,         \* iterations of _wait used up
    waited,         \* how long the present sleep has lasted
    slept,          \* how long all sleeps have lasted
    woken,          \* a push has ended the present sleep
    requests,       \* requests made by the present poll
    outcome,        \* Outcome.result, "none" while there is none
    floor_hit,      \* gave up because of the rate limit
    push_event,     \* _push_event is set
    push_connected,
    view,           \* the published status of each socket, and your session's socket
    remaining       \* rate_limit_remaining; None while the portal does not say

command == << kind, target, expect_cable >>
waiting == << checks, waited, slept, woken >>
world == << push_event, push_connected, view, remaining >>
vars == << pc, command, waiting, requests, outcome, floor_hit, world >>

TIMEOUT == INTERVAL * MAX_POLLS     \* Cadence.timeout_seconds

Results == { "charging", "awaiting_cable", "stopped", "rejected", "unconfirmed" }
Views == [ status : [ Sockets -> Statuses \cup {None} ], active : Sockets \cup {None} ]

TypeOK ==
    /\ pc \in [ Cmds -> { "idle", "capabilities", "send", "wait", "poll", "done" } ]
    /\ kind \in [ Cmds -> { "start", "stop" } ]
    /\ target \in [ Cmds -> Sockets ]
    /\ expect_cable \in [ Cmds -> BOOLEAN ]
    /\ checks \in [ Cmds -> 0 .. MAX_POLLS - 1 ]
    /\ waited \in [ Cmds -> 0 .. INTERVAL ]
    /\ slept \in [ Cmds -> 0 .. TIMEOUT ]
    /\ woken \in [ Cmds -> BOOLEAN ]
    /\ requests \in [ Cmds -> 0 .. MOST_REQUESTS ]
    /\ outcome \in [ Cmds -> Results \cup {"none"} ]
    /\ floor_hit \in [ Cmds -> BOOLEAN ]
    /\ push_event \in BOOLEAN
    /\ push_connected \in BOOLEAN
    /\ view \in Views
    /\ remaining \in 0 .. RATE_LIMIT \cup {None}

Init ==
    /\ pc = [ c \in Cmds |-> "idle" ]
    /\ kind = [ c \in Cmds |-> "start" ]
    /\ target \in [ Cmds -> Sockets ]
    /\ expect_cable = [ c \in Cmds |-> FALSE ]
    /\ checks = [ c \in Cmds |-> 0 ]
    /\ waited = [ c \in Cmds |-> 0 ]
    /\ slept = [ c \in Cmds |-> 0 ]
    /\ woken = [ c \in Cmds |-> FALSE ]
    /\ requests = [ c \in Cmds |-> 0 ]
    /\ outcome = [ c \in Cmds |-> "none" ]
    /\ floor_hit = [ c \in Cmds |-> FALSE ]
    /\ push_event = FALSE
    /\ push_connected = FALSE
    /\ view = [ status |-> [ s \in Sockets |-> None ], active |-> None ]
    /\ remaining \in {RATE_LIMIT, None}

-----------------------------------------------------------------------------
\* The rules: what outcome, if any, a view shows for a command.
Started(c, v) ==
    LET status == v.status[target[c]]
    IN  IF v.active = target[c] \/ status \in CHARGING_STATUSES THEN "charging"
        ELSE IF expect_cable[c] /\ status = "PREPARING" THEN "awaiting_cable"
        ELSE "none"

Stopped(c, v) ==
    IF v.active # target[c] /\ v.status[target[c]] \notin CHARGING_STATUSES THEN "stopped"
    ELSE "none"

rule(c, v) == IF kind[c] = "start" THEN Started(c, v) ELSE Stopped(c, v)

\* One more request counted by the portal.
Spend == remaining' = IF remaining \in {0, None} THEN remaining ELSE remaining - 1

AtFloor == remaining # None /\ remaining <= RATE_LIMIT_FLOOR

\* The command returns, and what was its own is gone.
Finish(c, result) ==
    /\ pc' = [ pc EXCEPT ![c] = "done" ]
    /\ outcome' = [ outcome EXCEPT ![c] = result ]
    /\ kind' = [ kind EXCEPT ![c] = "start" ]
    /\ expect_cable' = [ expect_cable EXCEPT ![c] = FALSE ]
    /\ checks' = [ checks EXCEPT ![c] = 0 ]
    /\ waited' = [ waited EXCEPT ![c] = 0 ]
    /\ slept' = [ slept EXCEPT ![c] = 0 ]
    /\ woken' = [ woken EXCEPT ![c] = FALSE ]
    /\ UNCHANGED target

\* Sleep for up to INTERVAL; a push event that is still set ends it at once.
Sleep(c, event) ==
    /\ pc' = [ pc EXCEPT ![c] = "wait" ]
    /\ waited' = [ waited EXCEPT ![c] = 0 ]
    /\ woken' = [ woken EXCEPT ![c] = event ]
    /\ UNCHANGED << command, slept, outcome >>

\* A mutation: one check too many.
NextCheck_once_more(c, event) ==
    IF checks[c] = MAX_POLLS THEN Finish(c, "unconfirmed")
    ELSE Sleep(c, event) /\ checks' = [ checks EXCEPT ![c] = @ + 1 ]

\* The loop of _wait: on to the next iteration, if there is one.
NextCheck(c, event) ==
    IF checks[c] + 1 = MAX_POLLS THEN Finish(c, "unconfirmed")
    ELSE Sleep(c, event) /\ checks' = [ checks EXCEPT ![c] = @ + 1 ]

\* A mutation: the last view is not looked at.
Check_all_but_last(c, v, event) ==
    IF rule(c, v) = "none" \/ checks[c] + 1 = MAX_POLLS THEN NextCheck(c, event)
    ELSE Finish(c, rule(c, v))

Check(c, v, event) ==
    IF rule(c, v) = "none" THEN NextCheck(c, event) ELSE Finish(c, rule(c, v))

-----------------------------------------------------------------------------
\* A button is pressed: start, on a socket whose status allows one, or stop,
\* where your session runs (button.py).  A start first reads the socket's
\* capabilities.
Issue(c, k, s) ==
    /\ pc[c] \in {"idle", "done"}
    /\ IF k = "start" THEN view.status[s] \in STARTABLE_STATUSES ELSE view.active = s
    /\ pc' = [ pc EXCEPT ![c] = IF k = "start" THEN "capabilities" ELSE "send" ]
    /\ kind' = [ kind EXCEPT ![c] = k ]
    /\ target' = [ target EXCEPT ![c] = s ]
    /\ expect_cable' = [ expect_cable EXCEPT ![c] =
                           k = "start" /\ view.status[s] = STATUS_AVAILABLE ]
    /\ outcome' = [ outcome EXCEPT ![c] = "none" ]
    /\ floor_hit' = [ floor_hit EXCEPT ![c] = FALSE ]
    /\ UNCHANGED << waiting, requests, world >>

\* AuthError and RateLimitError reject the start, as do capabilities that
\* allow none; if they cannot be read (None) the normal one is sent.
ReadCapabilities(c) ==
    /\ pc[c] = "capabilities"
    /\ Spend
    /\ \/ /\ \E caps \in Answers : method(caps) # "none"
          /\ pc' = [ pc EXCEPT ![c] = "send" ]
          /\ UNCHANGED << command, waiting, outcome >>
       \/ Finish(c, "rejected")
    /\ UNCHANGED << requests, floor_hit, push_event, push_connected, view >>

Send(c) ==
    /\ pc[c] = "send"
    /\ Spend
    /\ \/ Sleep(c, push_event) /\ UNCHANGED checks
       \/ Finish(c, "rejected")
    /\ UNCHANGED << requests, floor_hit, push_event, push_connected, view >>

\* Poll, unless that would take the last of the rate limit.
PollOrGiveUp(c) ==
    IF AtFloor
    THEN /\ Finish(c, "unconfirmed")
         /\ floor_hit' = [ floor_hit EXCEPT ![c] = TRUE ]
    ELSE /\ pc' = [ pc EXCEPT ![c] = "poll" ]
         /\ UNCHANGED << command, waiting, outcome, floor_hit >>

\* A push ended the sleep: check what it changed; if the channel has dropped
\* since, poll instead.
Wake(c) ==
    /\ pc[c] = "wait" /\ woken[c]
    /\ push_event' = FALSE
    /\ IF push_connected
       THEN Check(c, view, FALSE) /\ UNCHANGED floor_hit
       ELSE PollOrGiveUp(c)
    /\ UNCHANGED << requests, push_connected, view, remaining >>

TimeOut(c) ==
    /\ pc[c] = "wait" /\ ~woken[c] /\ waited[c] = INTERVAL
    /\ PollOrGiveUp(c)
    /\ UNCHANGED << requests, world >>

\* The charger, the last active socket and, with a session, its transaction,
\* its estimate and perhaps its charger's tariff: one request each.
PollRequest(c) ==
    /\ pc[c] = "poll" /\ requests[c] < MOST_REQUESTS /\ remaining # 0
    /\ requests' = [ requests EXCEPT ![c] = @ + 1 ]
    /\ Spend
    /\ UNCHANGED << pc, command, waiting, outcome, floor_hit, push_event, push_connected, view >>

PollAnswer(c) ==
    /\ pc[c] = "poll" /\ requests[c] >= 1
    /\ view' \in Views
    /\ Check(c, view', push_event)
    /\ requests' = [ requests EXCEPT ![c] = 0 ]
    /\ UNCHANGED << floor_hit, push_event, push_connected, remaining >>

\* A mutation: a failed poll does not count as a check.
PollFails_uncounted(c) ==
    /\ pc[c] = "poll"
    /\ Sleep(c, push_event)
    /\ requests' = [ requests EXCEPT ![c] = 0 ]
    /\ UNCHANGED << checks, floor_hit, world >>

\* Any request of the poll fails; a rate limit used up makes the next one fail.
PollFails(c) ==
    /\ pc[c] = "poll"
    /\ NextCheck(c, push_event)
    /\ requests' = [ requests EXCEPT ![c] = 0 ]
    /\ UNCHANGED << floor_hit, world >>

-----------------------------------------------------------------------------
\* A status or estimate push about any charger of yours, not only the one the
\* command is for: it is published and wakes every command asleep.  It can end
\* your session but not find a new one.
Push ==
    /\ push_connected
    /\ view' \in Views /\ view'.active \in {view.active, None}
    /\ push_event' = TRUE
    /\ woken' = [ c \in Cmds |-> woken[c] \/ pc[c] = "wait" ]
    /\ UNCHANGED << pc, command, checks, waited, slept, requests, outcome, floor_hit,
                    push_connected, remaining >>

\* The scheduled poll publishes too, but sets no event.
ScheduledPoll ==
    /\ view' \in Views
    /\ UNCHANGED << pc, command, waiting, requests, outcome, floor_hit,
                    push_event, push_connected, remaining >>

SetPushConnected ==
    /\ push_connected' = ~push_connected
    /\ UNCHANGED << pc, command, waiting, requests, outcome, floor_hit,
                    push_event, view, remaining >>

\* The allowance refills; the portal may start or stop telling it.
Refill ==
    /\ remaining' \in {RATE_LIMIT, None}
    /\ UNCHANGED << pc, command, waiting, requests, outcome, floor_hit,
                    push_event, push_connected, view >>

\* Timers fire when they are due, and a woken command runs before time goes on.
Asleep(c) == pc[c] = "wait" /\ ~woken[c]

Tick ==
    /\ \A c \in Cmds : pc[c] = "wait" => Asleep(c) /\ waited[c] < INTERVAL
    /\ \E c \in Cmds : Asleep(c)
    /\ waited' = [ c \in Cmds |-> IF Asleep(c) THEN waited[c] + 1 ELSE waited[c] ]
    /\ slept' = [ c \in Cmds |-> IF Asleep(c) THEN slept[c] + 1 ELSE slept[c] ]
    /\ UNCHANGED << pc, command, checks, woken, requests, outcome, floor_hit, world >>

Answered(c) == PollAnswer(c) \/ PollFails(c)

Runs(c) == ReadCapabilities(c) \/ Send(c) \/ Wake(c) \/ TimeOut(c) \/ Answered(c)

Step(c) == Runs(c) \/ PollRequest(c)

Next ==
    \/ \E c \in Cmds, k \in {"start", "stop"}, s \in Sockets : Issue(c, k, s)
    \/ \E c \in Cmds : Step(c)
    \/ Push \/ ScheduledPoll \/ SetPushConnected \/ Refill
    \/ Tick

\* The event loop runs what is ready, the portal answers or the request fails
\* (aiohttp's timeout), and time passes.
Fairness == (\A c \in Cmds : WF_vars(Runs(c))) /\ WF_vars(Tick)

Spec == Init /\ [][Next]_vars /\ Fairness

-----------------------------------------------------------------------------
\* Cadence.timeout_seconds: the sleeps of a command never add up to more,
\* however pushes and polls of several commands interleave.
WithinTimeout == \A c \in Cmds : slept[c] <= INTERVAL * checks[c] + waited[c]

\* Every command ends (_wait), even if pushes never stop and no poll succeeds.
EveryCommandFinishes == \A c \in Cmds : []<>(pc[c] \in { "idle", "done" })

\* The last check counts like the others (_wait): a command is given up while
\* its outcome shows only if the rate limit or a failed poll left no check.
LastCheckCounts ==
    [][ \A c \in Cmds :
          /\ outcome'[c] = "unconfirmed" /\ outcome[c] # "unconfirmed"
          /\ rule(c, view') # "none"
          => floor_hit'[c] \/ (pc[c] = "poll" /\ view' = view) ]_vars
=============================================================================
