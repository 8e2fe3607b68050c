--------------------------- MODULE CommandsProofs ---------------------------
(***************************************************************************)
(* Commands, for any number of them under way, any cadence, rate limit and *)
(* answers of the portal: none sleeps longer than its checks allow, and    *)
(* none is given up on a view that shows its outcome.  And the start       *)
(* button and the start command agree on what the capabilities say, for    *)
(* any reasons the portal may give.                                        *)
(*                                                                         *)
(* WithinTimeout is not inductive: what a sleep adds is only bounded if    *)
(* the command had not slept before its first check.  The strengthening,   *)
(* NotYetSlept, is that a command that does not wait yet, or any more, has *)
(* no checks and no sleep behind it; and the bound on all sleeps in TypeOK *)
(* follows from WithinTimeout and those on checks and on one sleep.        *)
(***************************************************************************)
EXTENDS Commands, TLAPS

\* What is a command's own, but for the bound on its sleeps.
OwnTypes ==
    /\ pc \in [ Cmds -> { "idle", "capabilities", "send", "wait", "poll", "done" } ]
    /\ kind \in [ Cmds -> { "start", "stop" } ]
    /\ target \in [ Cmds -> Sockets ]
    /\ expect_cable \in [ Cmds -> BOOLEAN ]
    /\ checks \in [ Cmds -> 0 .. MAX_POLLS - 1 ]
    /\ waited \in [ Cmds -> 0 .. INTERVAL ]
    /\ slept \in [ Cmds -> Nat ]
    /\ woken \in [ Cmds -> BOOLEAN ]
    /\ outcome \in [ Cmds -> Results \cup {"none"} ]

RestTypes ==
    /\ requests \in [ Cmds -> 0 .. MOST_REQUESTS ]
    /\ floor_hit \in [ Cmds -> BOOLEAN ]
    /\ push_event \in BOOLEAN
    /\ push_connected \in BOOLEAN
    /\ view \in Views
    /\ remaining \in 0 .. RATE_LIMIT \cup {None}

NotYetSlept ==
    \A c \in Cmds : pc[c] \in { "idle", "done", "capabilities", "send" }
                      => checks[c] = 0 /\ waited[c] = 0 /\ slept[c] = 0

Own == OwnTypes /\ WithinTimeout /\ NotYetSlept
Inv == Own /\ RestTypes

-----------------------------------------------------------------------------
(* Multiplication                                                          *)

LEMMA OneMore ==
    ASSUME NEW k \in Nat
    PROVE  INTERVAL * (k + 1) = INTERVAL * k + INTERVAL /\ INTERVAL * k \in Nat
BY CommandsAssumption

LEMMA NoMoreChecks ==
    ASSUME NEW k \in Nat, k <= MAX_POLLS - 1
    PROVE  INTERVAL * k + INTERVAL <= TIMEOUT
<1>1. INTERVAL \in Nat /\ MAX_POLLS \in Nat
  BY CommandsAssumption
<1>2. \A a, b, i \in Nat : a <= b => i * a <= i * b
  OBVIOUS
<1>3. INTERVAL * (k + 1) <= INTERVAL * MAX_POLLS
  BY <1>1, <1>2
<1> QED
  BY <1>3, OneMore DEF TIMEOUT

\* So the sleeps of a command are bounded by the cadence.
LEMMA InvIsTyped == Inv => TypeOK
<1> SUFFICES ASSUME Inv PROVE TypeOK
  OBVIOUS
<1>1. ASSUME NEW c \in Cmds PROVE slept[c] \in 0 .. TIMEOUT
  <2>1. /\ checks[c] \in Nat /\ checks[c] <= MAX_POLLS - 1
        /\ waited[c] \in Nat /\ waited[c] <= INTERVAL /\ slept[c] \in Nat
        /\ INTERVAL \in Nat /\ MAX_POLLS \in Nat
    BY CommandsAssumption DEF Inv, Own, OwnTypes
  <2>2. slept[c] <= INTERVAL * checks[c] + waited[c]
    BY DEF Inv, Own, WithinTimeout
  <2>3. INTERVAL * checks[c] + INTERVAL <= TIMEOUT
    BY <2>1, NoMoreChecks
  <2>4. INTERVAL * checks[c] \in Nat /\ TIMEOUT \in Nat
    BY <2>1, OneMore DEF TIMEOUT
  <2> QED
    BY <2>1, <2>2, <2>3, <2>4
<1>2. slept \in [ Cmds -> 0 .. TIMEOUT ]
  BY <1>1 DEF Inv, Own, OwnTypes
<1> QED
  BY <1>2 DEF Inv, Own, OwnTypes, RestTypes, TypeOK

-----------------------------------------------------------------------------
(* One command                                                             *)

\* A command that ends leaves nothing of its waiting behind.
LEMMA FinishKeeps ==
    ASSUME Own, NEW c \in Cmds, NEW result \in Results, Finish(c, result)
    PROVE  Own'
<1>1. OwnTypes'
  BY CommandsAssumption DEF Own, OwnTypes, Finish
<1>2. WithinTimeout'
  <2>1. INTERVAL * 0 = 0
    BY CommandsAssumption
  <2> QED
    BY <2>1 DEF Own, OwnTypes, WithinTimeout, Finish
<1>3. NotYetSlept'
  BY DEF Own, OwnTypes, NotYetSlept, Finish
<1> QED
  BY <1>1, <1>2, <1>3 DEF Own

\* A sleep that follows one that ended, or none, begins another check, or the
\* first.
LEMMA SleepKeeps ==
    ASSUME Own, NEW c \in Cmds, NEW event \in BOOLEAN, Sleep(c, event),
           \/ pc[c] = "send" /\ UNCHANGED checks
           \/ checks[c] + 1 # MAX_POLLS /\ checks' = [ checks EXCEPT ![c] = @ + 1 ]
    PROVE  Own'
<1>1. /\ checks \in [ Cmds -> 0 .. MAX_POLLS - 1 ] /\ waited \in [ Cmds -> 0 .. INTERVAL ]
      /\ slept \in [ Cmds -> Nat ] /\ INTERVAL \in Nat \ {0} /\ MAX_POLLS \in Nat \ {0}
      /\ pc \in [ Cmds -> { "idle", "capabilities", "send", "wait", "poll", "done" } ]
      /\ woken \in [ Cmds -> BOOLEAN ]
  BY CommandsAssumption DEF Own, OwnTypes
<1>2. /\ pc' = [ pc EXCEPT ![c] = "wait" ] /\ waited' = [ waited EXCEPT ![c] = 0 ]
      /\ woken' = [ woken EXCEPT ![c] = event ] /\ slept' = slept
  BY DEF Sleep
<1>3. checks' \in [ Cmds -> 0 .. MAX_POLLS - 1 ]
  BY <1>1
<1>4. OwnTypes'
  <2>1. /\ kind' = kind /\ target' = target /\ expect_cable' = expect_cable
        /\ outcome' = outcome
    BY DEF Sleep, command
  <2>2. /\ kind \in [ Cmds -> { "start", "stop" } ] /\ target \in [ Cmds -> Sockets ]
        /\ expect_cable \in [ Cmds -> BOOLEAN ] /\ outcome \in [ Cmds -> Results \cup {"none"} ]
    BY DEF Own, OwnTypes
  <2>3. waited' \in [ Cmds -> 0 .. INTERVAL ] /\ slept' \in [ Cmds -> Nat ]
    BY <1>1, <1>2
  <2>4. /\ pc' \in [ Cmds -> { "idle", "capabilities", "send", "wait", "poll", "done" } ]
        /\ woken' \in [ Cmds -> BOOLEAN ]
    BY <1>1, <1>2
  <2> QED
    BY <1>3, <2>1, <2>2, <2>3, <2>4 DEF OwnTypes
<1>5. WithinTimeout'
  <2> SUFFICES ASSUME NEW d \in Cmds PROVE slept'[d] <= INTERVAL * checks'[d] + waited'[d]
    BY DEF WithinTimeout
  <2>1. slept[d] <= INTERVAL * checks[d] + waited[d]
    BY DEF Own, WithinTimeout
  <2>2. CASE d # c
    BY <1>1, <1>2, <2>1, <2>2
  <2>3. CASE d = c /\ pc[c] = "send" /\ UNCHANGED checks
    <3>1. slept[c] = 0 /\ checks[c] = 0
      BY <2>3 DEF Own, NotYetSlept
    <3> QED
      BY <1>1, <1>2, <2>3, <3>1
  <2>4. CASE d = c /\ checks' = [ checks EXCEPT ![c] = @ + 1 ]
    <3>1. checks'[c] = checks[c] + 1 /\ checks[c] \in Nat /\ waited[c] \in Nat
          /\ waited[c] <= INTERVAL /\ waited'[c] = 0 /\ slept'[c] = slept[c] /\ slept[c] \in Nat
      BY <1>1, <1>2, <2>4
    <3>2. INTERVAL * checks'[c] = INTERVAL * checks[c] + INTERVAL /\ INTERVAL * checks[c] \in Nat
      BY <3>1, OneMore
    <3> QED
      BY <1>1, <2>1, <2>4, <3>1, <3>2
  <2> QED
    BY <2>2, <2>3, <2>4
<1>6. NotYetSlept'
  <2> SUFFICES ASSUME NEW d \in Cmds,
                      pc'[d] \in { "idle", "done", "capabilities", "send" }
               PROVE  checks'[d] = 0 /\ waited'[d] = 0 /\ slept'[d] = 0
    BY DEF NotYetSlept
  <2>1. d # c /\ pc'[d] = pc[d]
    BY <1>1, <1>2
  <2> QED
    BY <1>1, <1>2, <2>1 DEF Own, NotYetSlept
<1> QED
  BY <1>4, <1>5, <1>6 DEF Own

LEMMA NextCheckKeeps ==
    ASSUME Own, NEW c \in Cmds, NEW event \in BOOLEAN, NextCheck(c, event)
    PROVE  Own'
<1>1. "unconfirmed" \in Results
  BY DEF Results
<1> QED
  BY <1>1, FinishKeeps, SleepKeeps DEF NextCheck

\* What a view shows is an outcome, and never that the command is given up.
LEMMA RuleShows ==
    ASSUME NEW c, NEW v, rule(c, v) # "none"
    PROVE  rule(c, v) \in Results \ {"unconfirmed"}
BY DEF rule, Started, Stopped, Results

LEMMA CheckKeeps ==
    ASSUME Own, NEW c \in Cmds, NEW v, NEW event \in BOOLEAN, Check(c, v, event)
    PROVE  Own'
BY RuleShows, FinishKeeps, NextCheckKeeps DEF Check

\* A command that goes on to poll has waited as long as before.
LEMMA PollOrGiveUpKeeps ==
    ASSUME Own, RestTypes, NEW c \in Cmds, PollOrGiveUp(c)
    PROVE  Own' /\ floor_hit' \in [ Cmds -> BOOLEAN ]
<1>1. CASE AtFloor
  <2>1. "unconfirmed" \in Results
    BY DEF Results
  <2>2. Finish(c, "unconfirmed") /\ floor_hit' = [ floor_hit EXCEPT ![c] = TRUE ]
    BY <1>1 DEF PollOrGiveUp
  <2> QED
    BY <2>1, <2>2, FinishKeeps DEF RestTypes
<1>2. CASE ~AtFloor
  <2>1. /\ pc' = [ pc EXCEPT ![c] = "poll" ] /\ UNCHANGED << command, waiting, outcome, floor_hit >>
    BY <1>2 DEF PollOrGiveUp
  <2>2. OwnTypes'
    BY <2>1 DEF Own, OwnTypes, command, waiting
  <2>3. WithinTimeout' /\ NotYetSlept'
    BY <2>1 DEF Own, OwnTypes, WithinTimeout, NotYetSlept, waiting
  <2> QED
    BY <2>1, <2>2, <2>3 DEF Own, RestTypes
<1> QED
  BY <1>1, <1>2

LEMMA Spent ==
    ASSUME RestTypes, Spend
    PROVE  remaining' \in 0 .. RATE_LIMIT \cup {None}
BY CommandsAssumption DEF RestTypes, Spend

-----------------------------------------------------------------------------
(* Steps                                                                   *)

LEMMA InvInit == Init => Inv
<1> SUFFICES ASSUME Init PROVE Inv
  OBVIOUS
<1>1. OwnTypes
  BY CommandsAssumption DEF Init, OwnTypes
<1>2. WithinTimeout /\ NotYetSlept
  <2>1. INTERVAL * 0 = 0
    BY CommandsAssumption
  <2> QED
    BY <2>1 DEF Init, WithinTimeout, NotYetSlept
<1>3. RestTypes
  <2>1. /\ requests \in [ Cmds -> 0 .. MOST_REQUESTS ] /\ remaining \in 0 .. RATE_LIMIT \cup {None}
        /\ view \in Views
    BY CommandsAssumption DEF Init, Views
  <2> QED
    BY <2>1 DEF Init, RestTypes
<1> QED
  BY <1>1, <1>2, <1>3 DEF Inv, Own

LEMMA InvNext == Inv /\ [Next]_vars => Inv'
<1> SUFFICES ASSUME Inv, [Next]_vars PROVE Inv'
  OBVIOUS
<1>1. Own /\ RestTypes /\ OwnTypes /\ WithinTimeout /\ NotYetSlept
  BY DEF Inv, Own
<1>2. ASSUME NEW c \in Cmds, NEW k \in {"start", "stop"}, NEW s \in Sockets, Issue(c, k, s)
      PROVE  Inv'
  <2>1. OwnTypes'
    BY <1>1, <1>2 DEF Issue, OwnTypes, waiting
  <2>2. WithinTimeout' /\ NotYetSlept'
    BY <1>1, <1>2 DEF Issue, OwnTypes, WithinTimeout, NotYetSlept, waiting
  <2>3. RestTypes'
    BY <1>1, <1>2 DEF Issue, RestTypes, world
  <2> QED
    BY <2>1, <2>2, <2>3 DEF Inv, Own
<1>3. ASSUME NEW c \in Cmds, ReadCapabilities(c) PROVE Inv'
  <2>1. CASE Finish(c, "rejected")
    BY <1>1, <1>3, <2>1, FinishKeeps, Spent DEF ReadCapabilities, Inv, RestTypes, Results
  <2>2. CASE pc' = [ pc EXCEPT ![c] = "send" ] /\ UNCHANGED << command, waiting, outcome >>
    <3>1. OwnTypes'
      BY <1>1, <2>2 DEF OwnTypes, command, waiting
    <3>2. pc[c] = "capabilities"
      BY <1>3 DEF ReadCapabilities
    <3>3. WithinTimeout' /\ NotYetSlept'
      BY <1>1, <2>2, <3>2 DEF OwnTypes, WithinTimeout, NotYetSlept, waiting
    <3> QED
      BY <1>1, <1>3, <3>1, <3>3, Spent DEF ReadCapabilities, Inv, Own, RestTypes
  <2> QED
    BY <1>3, <2>1, <2>2 DEF ReadCapabilities
<1>4. ASSUME NEW c \in Cmds, Send(c) PROVE Inv'
  <2>1. RestTypes' /\ push_event \in BOOLEAN
    BY <1>1, <1>4, Spent DEF Send, RestTypes
  <2>2. CASE Sleep(c, push_event) /\ UNCHANGED checks
    BY <1>1, <1>4, <2>1, <2>2, SleepKeeps DEF Send, Inv
  <2>3. CASE Finish(c, "rejected")
    BY <1>1, <2>1, <2>3, FinishKeeps DEF Inv, Results
  <2> QED
    BY <1>4, <2>2, <2>3 DEF Send
<1>5. ASSUME NEW c \in Cmds, Wake(c) PROVE Inv'
  BY <1>1, <1>5, CheckKeeps, PollOrGiveUpKeeps DEF Wake, Inv, RestTypes
<1>6. ASSUME NEW c \in Cmds, TimeOut(c) PROVE Inv'
  BY <1>1, <1>6, PollOrGiveUpKeeps DEF TimeOut, Inv, RestTypes, world
<1>7. ASSUME NEW c \in Cmds, PollRequest(c) PROVE Inv'
  <2>1. requests' \in [ Cmds -> 0 .. MOST_REQUESTS ]
    BY <1>1, <1>7, CommandsAssumption DEF PollRequest, RestTypes
  <2>2. RestTypes'
    BY <1>1, <1>7, <2>1, Spent DEF PollRequest, RestTypes
  <2>3. OwnTypes' /\ WithinTimeout' /\ NotYetSlept'
    BY <1>1, <1>7 DEF PollRequest, OwnTypes, WithinTimeout, NotYetSlept, command, waiting
  <2> QED
    BY <2>2, <2>3 DEF Inv, Own
<1>8. ASSUME NEW c \in Cmds, PollAnswer(c) PROVE Inv'
  <2>1. RestTypes' /\ push_event \in BOOLEAN
    BY <1>1, <1>8, CommandsAssumption DEF PollAnswer, RestTypes
  <2>2. Own'
    BY <1>1, <1>8, <2>1, CheckKeeps DEF PollAnswer
  <2> QED
    BY <2>1, <2>2 DEF Inv
<1>9. ASSUME NEW c \in Cmds, PollFails(c) PROVE Inv'
  <2>1. RestTypes' /\ push_event \in BOOLEAN
    BY <1>1, <1>9, CommandsAssumption DEF PollFails, RestTypes, world
  <2>2. Own'
    BY <1>1, <1>9, <2>1, NextCheckKeeps DEF PollFails
  <2> QED
    BY <2>1, <2>2 DEF Inv
<1>10. CASE Push
  <2>1. RestTypes'
    BY <1>1, <1>10 DEF Push, RestTypes
  <2>2. woken' \in [ Cmds -> BOOLEAN ]
    BY <1>1, <1>10 DEF Push, OwnTypes
  <2>3. OwnTypes' /\ WithinTimeout' /\ NotYetSlept'
    BY <1>1, <1>10, <2>2 DEF Push, OwnTypes, WithinTimeout, NotYetSlept, command
  <2> QED
    BY <2>1, <2>3 DEF Inv, Own
<1>11. CASE ScheduledPoll \/ SetPushConnected \/ Refill
  <2>1. RestTypes'
    <3>1. RATE_LIMIT \in 0 .. RATE_LIMIT
      BY CommandsAssumption
    <3>2. remaining' \in 0 .. RATE_LIMIT \cup {None}
      BY <1>1, <1>11, <3>1 DEF ScheduledPoll, SetPushConnected, Refill, RestTypes
    <3>3. push_connected' \in BOOLEAN
      BY <1>1, <1>11 DEF ScheduledPoll, SetPushConnected, Refill, RestTypes
    <3> QED
      BY <1>1, <1>11, <3>2, <3>3 DEF ScheduledPoll, SetPushConnected, Refill, RestTypes
  <2>2. OwnTypes' /\ WithinTimeout' /\ NotYetSlept'
    BY <1>1, <1>11 DEF ScheduledPoll, SetPushConnected, Refill, OwnTypes, WithinTimeout,
                       NotYetSlept, command, waiting
  <2> QED
    BY <2>1, <2>2 DEF Inv, Own
<1>12. CASE Tick
  <2>1. RestTypes'
    BY <1>1, <1>12 DEF Tick, RestTypes, world
  <2>2. ASSUME NEW c \in Cmds
        PROVE  /\ waited'[c] \in 0 .. INTERVAL /\ slept'[c] \in Nat
               /\ slept'[c] <= INTERVAL * checks[c] + waited'[c]
               /\ pc[c] # "wait" => waited'[c] = waited[c] /\ slept'[c] = slept[c]
    <3>1. /\ waited[c] \in 0 .. INTERVAL /\ slept[c] \in Nat /\ INTERVAL \in Nat
          /\ checks[c] \in Nat /\ slept[c] <= INTERVAL * checks[c] + waited[c]
          /\ INTERVAL * checks[c] \in Nat
      BY <1>1, CommandsAssumption, OneMore DEF OwnTypes, WithinTimeout
    <3>2. Asleep(c) => waited[c] < INTERVAL /\ pc[c] = "wait"
      BY <1>12 DEF Tick, Asleep
    <3>3. /\ waited'[c] = IF Asleep(c) THEN waited[c] + 1 ELSE waited[c]
          /\ slept'[c] = IF Asleep(c) THEN slept[c] + 1 ELSE slept[c]
      BY <1>12 DEF Tick
    <3> QED
      BY <3>1, <3>2, <3>3
  <2>3. waited' \in [ Cmds -> 0 .. INTERVAL ] /\ slept' \in [ Cmds -> Nat ]
    <3>1. waited' = [ c \in Cmds |-> waited'[c] ] /\ slept' = [ c \in Cmds |-> slept'[c] ]
      BY <1>12 DEF Tick
    <3> QED
      BY <2>2, <3>1
  <2>4. OwnTypes' /\ WithinTimeout' /\ NotYetSlept'
    <3>1. UNCHANGED << pc, kind, target, expect_cable, checks, woken, outcome >>
      BY <1>12 DEF Tick, command
    <3> QED
      BY <1>1, <2>2, <2>3, <3>1 DEF OwnTypes, WithinTimeout, NotYetSlept
  <2> QED
    BY <2>1, <2>4 DEF Inv, Own
<1>13. CASE UNCHANGED vars
  <2>1. RestTypes'
    BY <1>1, <1>13 DEF vars, world, RestTypes
  <2>2. OwnTypes' /\ WithinTimeout' /\ NotYetSlept'
    BY <1>1, <1>13 DEF vars, command, waiting, OwnTypes, WithinTimeout, NotYetSlept
  <2> QED
    BY <2>1, <2>2 DEF Inv, Own
<1> QED
  BY <1>2, <1>3, <1>4, <1>5, <1>6, <1>7, <1>8, <1>9, <1>10, <1>11, <1>12, <1>13
     DEF Next, Step, Runs, Answered

\* Every field of a command keeps its type; so the checks, the sleeps and the
\* requests of a command stay within its cadence (_wait, Cadence).
THEOREM CommandsAreTyped == Spec => []TypeOK
BY InvInit, InvNext, InvIsTyped, PTL DEF Spec

\* However pushes and polls of several commands interleave, the sleeps of a
\* command add up to no more than an interval for every check begun and the
\* present one (Cadence.timeout_seconds).
THEOREM SleepsAreWithinTimeout == Spec => []WithinTimeout
BY InvInit, InvNext, PTL DEF Spec, Inv, Own

-----------------------------------------------------------------------------
(* The last check                                                          *)

\* The property of one step.
LastCheck ==
    \A c \in Cmds :
      /\ outcome'[c] = "unconfirmed" /\ outcome[c] # "unconfirmed"
      /\ rule(c, view') # "none"
      => floor_hit'[c] \/ (pc[c] = "poll" /\ view' = view)

\* A command ends by its own step only.
LEMMA OthersOutcomes ==
    ASSUME Inv, NEW d \in Cmds, NEW c \in Cmds, Step(d),
           outcome'[c] # outcome[c]
    PROVE  c = d
<1>1. outcome \in [ Cmds -> Results \cup {"none"} ]
  BY DEF Inv, Own, OwnTypes
<1> QED
  BY <1>1 DEF Step, Runs, ReadCapabilities, Send, Wake, TimeOut, Answered, PollAnswer, PollFails,
              PollRequest, PollOrGiveUp, Check, NextCheck, Sleep, Finish

\* It is given up at the floor, after a check that shows nothing, or after a
\* poll that failed.
LEMMA GivenUp ==
    ASSUME Inv, NEW c \in Cmds, Step(c),
           outcome'[c] = "unconfirmed", outcome[c] # "unconfirmed"
    PROVE  \/ floor_hit'[c]
           \/ rule(c, view') = "none"
           \/ pc[c] = "poll" /\ view' = view
<1>1. outcome \in [ Cmds -> Results \cup {"none"} ] /\ floor_hit \in [ Cmds -> BOOLEAN ]
  BY DEF Inv, Own, OwnTypes, RestTypes
<1>2. ASSUME NEW v, NEW event, Check(c, v, event) PROVE rule(c, v) = "none"
  BY <1>1, <1>2, RuleShows DEF Check, Finish
<1>3. PollOrGiveUp(c) => floor_hit'[c]
  BY <1>1 DEF PollOrGiveUp
<1>4. CASE ReadCapabilities(c)
  BY <1>1, <1>4 DEF ReadCapabilities, Finish
<1>5. CASE Send(c)
  BY <1>1, <1>5 DEF Send, Finish, Sleep
<1>6. CASE Wake(c)
  BY <1>2, <1>3, <1>6 DEF Wake
<1>7. CASE TimeOut(c)
  BY <1>3, <1>7 DEF TimeOut
<1>8. CASE PollAnswer(c)
  BY <1>2, <1>8 DEF PollAnswer
<1>9. CASE PollFails(c)
  BY <1>9 DEF PollFails, world
<1>10. CASE PollRequest(c)
  BY <1>10 DEF PollRequest
<1> QED
  BY <1>4, <1>5, <1>6, <1>7, <1>8, <1>9, <1>10 DEF Step, Runs, Answered

LEMMA LastCheckStep == Inv /\ [Next]_vars => [LastCheck]_vars
<1> SUFFICES ASSUME Inv, Next, NEW c \in Cmds,
                    outcome'[c] = "unconfirmed", outcome[c] # "unconfirmed",
                    rule(c, view') # "none"
             PROVE  floor_hit'[c] \/ (pc[c] = "poll" /\ view' = view)
  BY DEF LastCheck
<1>1. outcome \in [ Cmds -> Results \cup {"none"} ]
  BY DEF Inv, Own, OwnTypes
<1>2. ASSUME NEW d \in Cmds, NEW k, NEW s, Issue(d, k, s) PROVE FALSE
  BY <1>1, <1>2 DEF Issue
<1>3. ~(Push \/ ScheduledPoll \/ SetPushConnected \/ Refill \/ Tick)
  BY DEF Push, ScheduledPoll, SetPushConnected, Refill, Tick
<1>4. PICK d \in Cmds : Step(d)
  BY <1>2, <1>3 DEF Next
<1>5. Step(c)
  BY <1>4, OthersOutcomes
<1> QED
  BY <1>5, GivenUp

\* A command is given up while its outcome shows only if the rate limit or a
\* failed poll left no check: the last check counts like the others (_wait).
THEOREM LastCheckAlwaysCounts == Spec => LastCheckCounts
<1>1. Spec => [][LastCheck]_vars
  BY InvInit, InvNext, LastCheckStep, PTL DEF Spec
<1> QED
  BY <1>1 DEF LastCheck, LastCheckCounts

-----------------------------------------------------------------------------
(* What the capabilities say                                              *)

\* A socket is refused whatever its state, or one start is allowed or waits
\* for the state only.
LEMMA RefusedOrNot ==
    ASSUME NEW caps \in Capabilities, refuses_start_whatever_the_state(caps)
    PROVE  /\ OP_START_CHARGE \notin caps.allowed /\ OP_START_CHARGE_NOW \notin caps.allowed
           /\ caps.denied[OP_START_CHARGE] # DENIED_FOR_SOCKET_STATE
           /\ caps.denied[OP_START_CHARGE_NOW] # DENIED_FOR_SOCKET_STATE
BY DEF refuses_start_whatever_the_state, StartOperations

\* No start is lost to a button that is greyed out (start_allowed): on a
\* socket whose status allows one, the capabilities that grey it out would
\* have made the press refuse it with nothing sent, and for a reason that the
\* state of the socket cannot change.
THEOREM GreyedOutIsRefused ==
    ASSUME NEW status \in STARTABLE_STATUSES, NEW caps \in Capabilities,
           ~start_allowed(status, caps)
    PROVE  method(caps) = "none" /\ start_refusal(caps) # DENIED_FOR_SOCKET_STATE
<1>1. caps # None
  BY DEF start_allowed
<1>2. refuses_start_whatever_the_state(caps)
  BY DEF start_allowed
<1>3. method(caps) = "none" /\ start_method(caps) = "none"
  BY <1>1, <1>2, RefusedOrNot DEF method, start_method
<1>4. start_refusal(caps) # DENIED_FOR_SOCKET_STATE
  BY <1>2, <1>3, RefusedOrNot DEF start_refusal
<1> QED
  BY <1>3, <1>4

\* Capabilities read while the socket was taken do not keep its button greyed
\* out once it is free (the state denial of ADR 2026-10-05): if the state is
\* the reason given, the status alone decides.
THEOREM StateIsLeftToTheStatus ==
    ASSUME NEW status, NEW caps \in Capabilities,
           start_refusal(caps) = DENIED_FOR_SOCKET_STATE
    PROVE  start_allowed(status, caps) <=> status \in STARTABLE_STATUSES
<1>1. start_method(caps) = "none"
  BY ReasonsAssumption DEF start_refusal
<1>2. \E op \in StartOperations : caps.denied[op] = DENIED_FOR_SOCKET_STATE
  BY <1>1 DEF start_refusal, StartOperations
<1>3. ~refuses_start_whatever_the_state(caps)
  BY <1>2 DEF refuses_start_whatever_the_state
<1> QED
  BY <1>3 DEF start_allowed
=============================================================================
