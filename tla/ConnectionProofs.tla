-------------------------- MODULE ConnectionProofs --------------------------
(***************************************************************************)
(* The portal client and the push channel's task, for any number of        *)
(* requests and any delays: the login lock is held by one actor at a time, *)
(* a request nothing disturbs is answered if the password is right, and    *)
(* no channel is opened on the cookie of a silent one.                     *)
(*                                                                         *)
(* UndisturbedIsAnswered says how a request ends; the invariant that       *)
(* carries it there, Undisturbed, says what such a request has found at    *)
(* each step on its way.  NoStaleCookie is strengthened by where the task  *)
(* remembers the login it owes, Owes: in fresh_login, or, until the        *)
(* receive returns, in silent.                                             *)
(***************************************************************************)
EXTENDS Connection, TLAPS

-----------------------------------------------------------------------------
(* The queue for the login lock                                            *)

\* An actor that is not in the queue goes to its end.
LEMMA Queued ==
    ASSUME NEW S, NEW q \in Seq(S), IsInjective(q), NEW a \in S, a \notin ToSet(q)
    PROVE  /\ Append(q, a) \in Seq(S) /\ IsInjective(Append(q, a))
           /\ ToSet(Append(q, a)) = ToSet(q) \cup {a}
           /\ q # << >> => Head(Append(q, a)) = Head(q)
<1>1. /\ Append(q, a) \in Seq(S) /\ Len(Append(q, a)) = Len(q) + 1 /\ Len(q) \in Nat
      /\ \A i \in 1 .. Len(q) : Append(q, a)[i] = q[i]
      /\ Append(q, a)[Len(q) + 1] = a
  OBVIOUS
<1>2. DOMAIN q = 1 .. Len(q) /\ DOMAIN Append(q, a) = 1 .. Len(q) + 1
  BY <1>1
<1>3. \A i \in 1 .. Len(q) : q[i] # a
  BY <1>2 DEF ToSet
<1>4. \A i \in 1 .. Len(q) + 1 : i \in 1 .. Len(q) \/ i = Len(q) + 1
  BY <1>1
<1>5. IsInjective(Append(q, a))
  BY <1>1, <1>2, <1>3, <1>4 DEF IsInjective
<1>6. ToSet(Append(q, a)) = ToSet(q) \cup {a}
  <2>1. ASSUME NEW x \in ToSet(Append(q, a)) PROVE x \in ToSet(q) \cup {a}
    BY <1>1, <1>2, <1>4 DEF ToSet
  <2>2. ASSUME NEW x \in ToSet(q) PROVE x \in ToSet(Append(q, a))
    <3>1. PICK i \in 1 .. Len(q) : x = q[i]
      BY <1>2 DEF ToSet
    <3>2. i \in 1 .. Len(q) + 1 /\ Append(q, a)[i] = x
      BY <1>1, <3>1
    <3> QED
      BY <1>2, <3>2 DEF ToSet
  <2>3. a \in ToSet(Append(q, a))
    <3>1. Len(q) + 1 \in 1 .. Len(q) + 1
      BY <1>1
    <3> QED
      BY <1>1, <1>2, <3>1 DEF ToSet
  <2> QED
    BY <2>1, <2>2, <2>3
<1>7. q # << >> => Head(Append(q, a)) = Head(q)
  OBVIOUS
<1> QED
  BY <1>1, <1>5, <1>6, <1>7

\* The head leaves it, and nobody else.
LEMMA Left ==
    ASSUME NEW S, NEW q \in Seq(S), IsInjective(q), q # << >>
    PROVE  /\ Tail(q) \in Seq(S) /\ IsInjective(Tail(q))
           /\ ToSet(Tail(q)) = ToSet(q) \ {Head(q)}
<1>1. /\ Tail(q) \in Seq(S) /\ Len(Tail(q)) = Len(q) - 1 /\ Len(q) \in Nat \ {0}
      /\ \A i \in 1 .. Len(q) - 1 : Tail(q)[i] = q[i + 1]
      /\ Head(q) = q[1]
  OBVIOUS
<1>2. DOMAIN q = 1 .. Len(q) /\ DOMAIN Tail(q) = 1 .. Len(q) - 1
  BY <1>1
<1>3. \A i \in 1 .. Len(q) - 1 : i + 1 \in 1 .. Len(q) /\ i + 1 # 1
  BY <1>1
<1>4. \A i, j \in 1 .. Len(q) : q[i] = q[j] => i = j
  BY <1>2 DEF IsInjective
<1>5. IsInjective(Tail(q))
  <2> SUFFICES ASSUME NEW i \in 1 .. Len(q) - 1, NEW j \in 1 .. Len(q) - 1,
                      Tail(q)[i] = Tail(q)[j]
               PROVE  i = j
    BY <1>2 DEF IsInjective
  <2>1. q[i + 1] = q[j + 1]
    BY <1>1
  <2>2. i + 1 = j + 1
    BY <1>3, <1>4, <2>1
  <2> QED
    BY <1>1, <2>2
<1>6. ASSUME NEW x \in ToSet(Tail(q)) PROVE x \in ToSet(q) \ {Head(q)}
  <2>1. PICK i \in 1 .. Len(q) - 1 : x = q[i + 1]
    BY <1>1, <1>2 DEF ToSet
  <2>2. i + 1 \in 1 .. Len(q) /\ i + 1 # 1 /\ 1 \in 1 .. Len(q)
    BY <1>1, <1>3
  <2>3. x # q[1]
    BY <1>4, <2>1, <2>2
  <2> QED
    BY <1>1, <1>2, <2>1, <2>2, <2>3 DEF ToSet
<1>7. ASSUME NEW x \in ToSet(q) \ {Head(q)} PROVE x \in ToSet(Tail(q))
  <2>1. PICK i \in 1 .. Len(q) : x = q[i] /\ i # 1
    BY <1>1, <1>2 DEF ToSet
  <2>2. i - 1 \in 1 .. Len(q) - 1 /\ (i - 1) + 1 = i
    BY <1>1, <2>1
  <2>3. Tail(q)[i - 1] = x
    BY <1>1, <2>1, <2>2
  <2> QED
    BY <1>2, <2>2, <2>3 DEF ToSet
<1> QED
  BY <1>1, <1>5, <1>6, <1>7

\* Whoever is in the queue finds it not empty.
LEMMA InQueue == ASSUME NEW S, NEW q \in Seq(S), NEW a \in ToSet(q) PROVE q # << >>
<1>1. PICK i \in DOMAIN q : a = q[i]
  BY DEF ToSet
<1> QED
  BY <1>1

-----------------------------------------------------------------------------
(* Types of the client                                                     *)

Pcs == { "idle", "sent", "lock", "handshake", "done" } \cup LoggingIn

QueueOK ==
    /\ lock \in Seq(Actors) /\ IsInjective(lock)
    /\ \A a \in Actors : a \in ToSet(lock) <=> pc[a] \in {"lock"} \cup LoggingIn
    /\ \A a \in Actors : pc[a] \in LoggingIn => a = Head(lock)

PcOK == pc \in [ Actors -> Pcs ]

RestOK ==
    /\ password \in BOOLEAN /\ session \in BOOLEAN /\ csrf \in BOOLEAN /\ logged_in \in BOOLEAN
    /\ attempt \in [ Requests -> {0, 1} ]
    /\ bears \in [ Requests -> BOOLEAN ]
    /\ outcome \in [ Actors -> { "none", "answered", "auth", "failed" } ]
    /\ disturbed \in [ Actors -> BOOLEAN ]

LEMMA TypesInParts == TypeOK <=> QueueOK /\ PcOK /\ RestOK /\ troubles \in 0 .. MaxTroubles
BY DEF TypeOK, QueueOK, PcOK, RestOK, Pcs

LEMMA ActorsApart == Push \in Actors /\ Requests \subseteq Actors /\ Push \notin Requests
BY ClientAssumption DEF Actors

\* An actor goes on without the lock, as before.
LEMMA GoesOn ==
    ASSUME QueueOK, PcOK, NEW a \in Actors, NEW at \in { "idle", "sent", "handshake", "done" },
           pc[a] \notin {"lock"} \cup LoggingIn,
           pc' = [ pc EXCEPT ![a] = at ], UNCHANGED lock
    PROVE  QueueOK' /\ PcOK'
<1>1. PcOK'
  BY DEF PcOK, Pcs
<1>2. \A b \in Actors : pc'[b] = IF b = a THEN at ELSE pc[b]
  BY DEF PcOK
<1>3. at \notin {"lock"} \cup LoggingIn
  BY DEF LoggingIn
<1> QED
  BY <1>1, <1>2, <1>3 DEF QueueOK

LEMMA QueueKeeps ==
    ASSUME QueueOK, PcOK, NEW a \in Actors, pc[a] \notin {"lock"} \cup LoggingIn, Queue(a)
    PROVE  QueueOK' /\ PcOK'
<1>1. PcOK' /\ pc'[a] = "lock" /\ \A b \in Actors : b # a => pc'[b] = pc[b]
  BY DEF Queue, PcOK, Pcs
<1>2. lock' = Append(lock, a) /\ a \notin ToSet(lock)
  BY DEF Queue, QueueOK
<1>3. /\ lock' \in Seq(Actors) /\ IsInjective(lock')
      /\ ToSet(lock') = ToSet(lock) \cup {a}
      /\ lock # << >> => Head(lock') = Head(lock)
  BY <1>2, Queued DEF QueueOK
<1>4. ASSUME NEW b \in Actors
      PROVE  /\ b \in ToSet(lock') <=> pc'[b] \in {"lock"} \cup LoggingIn
             /\ pc'[b] \in LoggingIn => b = Head(lock')
  <2>1. CASE b = a
    BY <1>1, <1>3, <2>1 DEF LoggingIn
  <2>2. CASE b # a
    <3>1. pc[b] \in LoggingIn => lock # << >>
      BY InQueue DEF QueueOK
    <3> QED
      BY <1>1, <1>3, <2>2, <3>1 DEF QueueOK
  <2> QED
    BY <2>1, <2>2
<1> QED
  BY <1>1, <1>3, <1>4 DEF QueueOK

\* The holder goes on with its login.
LEMMA HolderKeeps ==
    ASSUME QueueOK, PcOK, NEW a \in Actors, NEW at \in LoggingIn,
           pc[a] \in {"lock"} \cup LoggingIn, Head(lock) = a,
           pc' = [ pc EXCEPT ![a] = at ], UNCHANGED lock
    PROVE  QueueOK' /\ PcOK'
<1>1. PcOK' /\ pc'[a] = at /\ \A b \in Actors : b # a => pc'[b] = pc[b]
  BY DEF PcOK, Pcs
<1> QED
  BY <1>1 DEF QueueOK

\* The holder leaves the lock to the next.
LEMMA ReleaseKeeps ==
    ASSUME QueueOK, PcOK, NEW a \in Actors, pc[a] \in LoggingIn,
           NEW at \in { "sent", "handshake", "done" },
           pc' = [ pc EXCEPT ![a] = at ], lock' = Tail(lock)
    PROVE  QueueOK' /\ PcOK'
<1>1. a = Head(lock) /\ a \in ToSet(lock) /\ lock \in Seq(Actors) /\ IsInjective(lock)
  BY DEF QueueOK
<1>2. /\ lock' \in Seq(Actors) /\ IsInjective(lock')
      /\ ToSet(lock') = ToSet(lock) \ {a}
  BY <1>1, InQueue, Left
<1>3. /\ PcOK' /\ pc'[a] = at
      /\ \A b \in Actors : b # a => pc'[b] = pc[b] /\ pc[b] \notin LoggingIn
  BY <1>1 DEF QueueOK, PcOK, Pcs
<1>4. at \notin {"lock"} \cup LoggingIn
  BY DEF LoggingIn
<1> QED
  BY <1>2, <1>3, <1>4 DEF QueueOK

LEMMA TroubleKeeps ==
    ASSUME Trouble, troubles \in 0 .. MaxTroubles
    PROVE  /\ troubles' \in 0 .. MaxTroubles
           /\ disturbed' = [ b \in Actors |-> disturbed[b] \/ Busy(b) ]
           /\ disturbed' \in [ Actors -> BOOLEAN ]
<1>1. troubles' \in 0 .. MaxTroubles
  BY ClientAssumption DEF Trouble
<1> QED
  BY <1>1 DEF Trouble

\* What a step of the client, an attempt of the task or trouble with the
\* channel is to the client.
Steps == Step \/ (\E fresh \in BOOLEAN : Connect(fresh))
           \/ (Trouble /\ UNCHANGED << portal, csrf, logged_in, lock, pc, attempt, bears, outcome >>)
           \/ UNCHANGED vars

LEMMA QueueNext ==
    ASSUME QueueOK, PcOK, Steps
    PROVE  QueueOK' /\ PcOK'
<1> DEFINE Good == QueueOK' /\ PcOK'
<1> SUFFICES Good
  OBVIOUS
<1> USE ActorsApart
<1>1. ASSUME NEW r \in Requests, Request(r) \/ Answered(r) \/ RequestFails(r) PROVE Good
  BY <1>1, GoesOn DEF Request, Answered, RequestFails, Ends, LoggingIn
<1>2. ASSUME NEW r \in Requests, Rejected(r) PROVE Good
  BY <1>2, GoesOn, QueueKeeps DEF Rejected, Ends, LoggingIn
<1>3. ASSUME NEW a \in Actors, Login(a) \/ LoginFails(a) PROVE Good
  <2>1. pc[a] \in LoggingIn => a = Head(lock)
    BY DEF QueueOK
  <2>2. CASE Enter(a)
    BY <2>2, HolderKeeps DEF Enter, LoggingIn
  <2>3. CASE LoginPage(a)
    BY <2>1, <2>3, HolderKeeps DEF LoginPage, LoggingIn
  <2>4. CASE LoginPost(a)
    BY <2>1, <2>4, HolderKeeps, ReleaseKeeps DEF LoginPost, Ends, LoggingIn
  <2>5. CASE LoginMap(a)
    BY <2>5, ReleaseKeeps DEF LoginMap, LoggingIn
  <2>6. CASE LoginFails(a)
    BY <2>6, ReleaseKeeps DEF LoginFails, Ends
  <2> QED
    BY <1>3, <2>2, <2>3, <2>4, <2>5, <2>6 DEF Login
<1>4. CASE Refused \/ Opened \/ HandshakeFails
  BY <1>4, GoesOn DEF Refused, Opened, HandshakeFails, Ends, LoggingIn
<1>5. ASSUME NEW fresh, Connect(fresh) PROVE Good
  BY <1>5, GoesOn, QueueKeeps DEF Connect, Busy, LoggingIn
<1>6. CASE UNCHANGED << lock, pc >>
  BY <1>6 DEF QueueOK, PcOK
<1>7. Expire => UNCHANGED << lock, pc >>
  BY DEF Expire
<1>8. UNCHANGED vars => UNCHANGED << lock, pc >>
  BY DEF vars
<1> HIDE DEF Good
<1> QED
  BY <1>1, <1>2, <1>3, <1>4, <1>5, <1>6, <1>7, <1>8 DEF Steps, Step

\* Flags, answers and outcomes.
LEMMA RestNext ==
    ASSUME RestOK, Steps
    PROVE  RestOK'
<1> DEFINE Good == RestOK'
<1> SUFFICES Good
  OBVIOUS
<1> USE ActorsApart
<1>1. ASSUME NEW a \in Actors, Enters(a) PROVE disturbed' \in [ Actors -> BOOLEAN ]
  BY <1>1 DEF Enters
<1>2. Trouble => disturbed' \in [ Actors -> BOOLEAN ]
  BY DEF Trouble
<1>3. ASSUME NEW a \in Actors, NEW how \in { "answered", "auth", "failed" }, Ends(a, how)
      PROVE  outcome' \in [ Actors -> { "none", "answered", "auth", "failed" } ]
  BY <1>3 DEF Ends, RestOK
<1>4. ASSUME NEW r \in Requests, Request(r) PROVE Good
  <2>1. /\ attempt' \in [ Requests -> {0, 1} ]
        /\ outcome' \in [ Actors -> { "none", "answered", "auth", "failed" } ]
    BY <1>4 DEF Request, RestOK
  <2>2. bears' \in [ Requests -> BOOLEAN ]
    BY <1>4 DEF Request, RestOK
  <2> QED
    BY <1>1, <1>4, <2>1, <2>2 DEF Request, RestOK, portal
<1>5. ASSUME NEW r \in Requests, Answered(r) \/ Rejected(r) \/ RequestFails(r) PROVE Good
  BY <1>2, <1>3, <1>5 DEF Answered, Rejected, RequestFails, RestOK, portal
<1>6. ASSUME NEW a \in Actors, Enter(a) \/ LoginPage(a) PROVE Good
  BY <1>6 DEF Enter, LoginPage, RestOK, portal
<1>7. ASSUME NEW a \in Actors, LoginPost(a) PROVE Good
  <2>1. outcome' \in [ Actors -> { "none", "answered", "auth", "failed" } ]
    BY <1>3, <1>7 DEF LoginPost, RestOK
  <2>2. bears' \in [ Requests -> BOOLEAN ]
    BY <1>7 DEF LoginPost, RestOK
  <2> QED
    BY <1>7, <2>1, <2>2 DEF LoginPost, RestOK
<1>8. ASSUME NEW a \in Actors, LoginMap(a) PROVE Good
  <2>1. attempt' \in [ Requests -> {0, 1} ]
    BY <1>8 DEF LoginMap, RestOK
  <2>2. bears' \in [ Requests -> BOOLEAN ]
    BY <1>8 DEF LoginMap, RestOK
  <2> QED
    BY <1>8, <2>1, <2>2 DEF LoginMap, RestOK, portal
<1>9. ASSUME NEW a \in Actors, LoginFails(a) PROVE Good
  BY <1>2, <1>3, <1>9 DEF LoginFails, RestOK, portal
<1>10. CASE Refused \/ Opened \/ HandshakeFails
  BY <1>2, <1>3, <1>10 DEF Refused, Opened, HandshakeFails, RestOK, portal
<1>11. ASSUME NEW fresh, Connect(fresh) PROVE Good
  <2>1. outcome' \in [ Actors -> { "none", "answered", "auth", "failed" } ]
    BY <1>11 DEF Connect, RestOK
  <2> QED
    BY <1>1, <1>11, <2>1 DEF Connect, RestOK, portal
<1>12. CASE Expire
  <2>1. bears' \in [ Requests -> BOOLEAN ]
    BY <1>12 DEF Expire
  <2> QED
    BY <1>2, <1>12, <2>1 DEF Expire, RestOK
<1>13. CASE Trouble /\ UNCHANGED << portal, csrf, logged_in, lock, pc, attempt, bears, outcome >>
  BY <1>2, <1>13 DEF RestOK, portal
<1>14. CASE UNCHANGED vars
  BY <1>14 DEF RestOK, vars, portal
<1> HIDE DEF Good
<1> QED
  BY <1>4, <1>5, <1>6, <1>7, <1>8, <1>9, <1>10, <1>11, <1>12, <1>13, <1>14
     DEF Steps, Step, Login

LEMMA TroublesNext ==
    ASSUME troubles \in 0 .. MaxTroubles, Steps
    PROVE  troubles' \in 0 .. MaxTroubles
<1>1. Trouble => troubles' \in 0 .. MaxTroubles
  BY TroubleKeeps
<1>2. Trouble \/ UNCHANGED troubles
  BY DEF Steps, Step, Request, Answered, Rejected, RequestFails, Login, Enter, LoginPage,
         LoginPost, LoginMap, LoginFails, Refused, Opened, HandshakeFails, Expire, Connect, vars
<1> QED
  BY <1>1, <1>2

LEMMA ClientTyped == TypeOK /\ Steps => TypeOK'
<1> SUFFICES ASSUME TypeOK, Steps
             PROVE  QueueOK' /\ PcOK' /\ RestOK' /\ troubles' \in 0 .. MaxTroubles
  BY DEF TypeOK, QueueOK, PcOK, RestOK, Pcs
<1> QED
  BY TypesInParts, QueueNext, RestNext, TroublesNext

-----------------------------------------------------------------------------
(* A request that nothing disturbs                                         *)

\* On its way: it is alone, the token it posts is the one the login page gave,
\* and once logged in, it is sent again with what the portal accepts.
OnItsWay(r) ==
    Busy(r) /\ ~disturbed[r] =>
      /\ \A b \in Actors : b # r => ~Busy(b)
      /\ pc[r] = "post" => csrf
      /\ pc[r] = "map" => password /\ session
      /\ pc[r] = "sent" /\ attempt[r] = 1 => password /\ session /\ bears[r]

\* At its end.
IsAnswered(r) ==
    pc[r] = "done" /\ ~disturbed[r] => outcome[r] = "answered" \/ (outcome[r] = "auth" /\ ~password)

Undisturbed == \A r \in Requests : OnItsWay(r) /\ IsAnswered(r)

\* A request's own steps.
OwnStep(r) ==
    Request(r) \/ Answered(r) \/ Rejected(r) \/ RequestFails(r) \/ Login(r) \/ LoginFails(r)

\* What others do to a request: they move neither it nor the password, and
\* they do anything at all to one under way only by disturbing it.
LeavesAlone(r) ==
    /\ pc'[r] = pc[r] /\ outcome'[r] = outcome[r] /\ password' = password
    /\ disturbed[r] => disturbed'[r]
    /\ Busy(r) /\ ~disturbed'[r] =>
         UNCHANGED << session, csrf, attempt, bears >> /\ \A b \in Actors : Busy(b)' => Busy(b)

\* Whoever arrives, or makes trouble, disturbs every request under way.
LEMMA ArrivalDisturbs ==
    ASSUME TypeOK, NEW r \in Requests, NEW a \in Actors, a # r, Enters(a)
    PROVE  (disturbed[r] => disturbed'[r]) /\ (Busy(r) => disturbed'[r])
BY ActorsApart DEF Enters, TypeOK

LEMMA TroubleDisturbs ==
    ASSUME TypeOK, NEW r \in Requests, Trouble
    PROVE  (disturbed[r] => disturbed'[r]) /\ (Busy(r) => disturbed'[r])
BY ActorsApart DEF Trouble, TypeOK

LEMMA OthersLeaveAlone ==
    ASSUME TypeOK, NEW r \in Requests, OnItsWay(r), Steps, ~OwnStep(r)
    PROVE  LeavesAlone(r)
<1> USE ActorsApart
<1>1. pc \in [ Actors -> Pcs ] /\ outcome \in [ Actors -> { "none", "answered", "auth", "failed" } ]
  BY DEF TypeOK, Pcs
<1>2. ASSUME NEW b \in Actors, b # r, Busy(b), Busy(r), ~disturbed[r] PROVE FALSE
  BY <1>2 DEF OnItsWay
<1>3. ASSUME NEW q \in Requests, Request(q) PROVE LeavesAlone(r)
  <2>1. q # r
    BY <1>3 DEF OwnStep
  <2> QED
    BY <1>1, <1>3, <2>1, ArrivalDisturbs DEF Request, LeavesAlone, portal
<1>4. ASSUME NEW q \in Requests, Answered(q) \/ Rejected(q) PROVE LeavesAlone(r)
  <2>1. q # r /\ Busy(q)
    BY <1>4 DEF OwnStep, Answered, Rejected, Busy
  <2>2. /\ pc'[r] = pc[r] /\ outcome'[r] = outcome[r] /\ password' = password
        /\ disturbed' = disturbed
    BY <1>1, <1>4, <2>1 DEF Answered, Rejected, Ends, Queue, portal
  <2> QED
    BY <1>2, <2>1, <2>2 DEF LeavesAlone
<1>5. ASSUME NEW q \in Requests, RequestFails(q) PROVE LeavesAlone(r)
  <2>1. q # r
    BY <1>5 DEF OwnStep
  <2> QED
    BY <1>1, <1>5, <2>1, TroubleDisturbs DEF RequestFails, Ends, LeavesAlone, portal
<1>6. ASSUME NEW a \in Actors, Login(a) PROVE LeavesAlone(r)
  <2>1. a # r /\ Busy(a)
    BY <1>6 DEF OwnStep, Login, Enter, LoginPage, LoginPost, LoginMap, Busy
  <2>2. /\ pc'[r] = pc[r] /\ outcome'[r] = outcome[r] /\ password' = password
        /\ disturbed' = disturbed
    BY <1>1, <1>6, <2>1 DEF Login, Enter, LoginPage, LoginPost, LoginMap, Ends, portal
  <2> QED
    BY <1>2, <2>1, <2>2 DEF LeavesAlone
<1>7. ASSUME NEW a \in Actors, LoginFails(a) PROVE LeavesAlone(r)
  <2>1. a # r
    BY <1>7 DEF OwnStep
  <2> QED
    BY <1>1, <1>7, <2>1, TroubleDisturbs DEF LoginFails, Ends, LeavesAlone, portal
<1>8. CASE Refused \/ Opened
  <2>1. Busy(Push) /\ Push # r
    BY <1>8 DEF Refused, Opened, Busy
  <2>2. /\ pc'[r] = pc[r] /\ outcome'[r] = outcome[r] /\ password' = password
        /\ disturbed' = disturbed
    BY <1>1, <1>8, <2>1 DEF Refused, Opened, Ends, portal
  <2> QED
    BY <1>2, <2>1, <2>2 DEF LeavesAlone
<1>9. CASE HandshakeFails
  BY <1>1, <1>9, TroubleDisturbs DEF HandshakeFails, Ends, LeavesAlone, portal
<1>10. ASSUME NEW fresh, Connect(fresh) PROVE LeavesAlone(r)
  BY <1>1, <1>10, ArrivalDisturbs DEF Connect, Queue, LeavesAlone, portal
<1>11. CASE Expire
  BY <1>11, TroubleDisturbs DEF Expire, LeavesAlone
<1>12. CASE Trouble /\ UNCHANGED << portal, csrf, logged_in, lock, pc, attempt, bears, outcome >>
  BY <1>12, TroubleDisturbs DEF LeavesAlone, portal
<1>13. CASE UNCHANGED vars
  BY <1>13 DEF vars, portal, LeavesAlone, Busy
<1> QED
  BY <1>3, <1>4, <1>5, <1>6, <1>7, <1>8, <1>9, <1>10, <1>11, <1>12, <1>13 DEF Steps, Step

\* So it stays on its way, or at its end.
LEMMA StaysUndisturbed ==
    ASSUME NEW r \in Requests, OnItsWay(r), IsAnswered(r), LeavesAlone(r)
    PROVE  OnItsWay(r)' /\ IsAnswered(r)'
<1>1. Busy(r)' <=> Busy(r)
  BY DEF LeavesAlone, Busy
<1>2. IsAnswered(r)'
  BY DEF LeavesAlone, IsAnswered
<1>3. OnItsWay(r)'
  BY <1>1 DEF LeavesAlone, OnItsWay
<1> QED
  BY <1>2, <1>3

\* Its own steps: what it does next is what the portal accepts.
LEMMA OwnStepKeeps ==
    ASSUME TypeOK, NEW r \in Requests, OnItsWay(r), IsAnswered(r), OwnStep(r)
    PROVE  OnItsWay(r)' /\ IsAnswered(r)'
<1> DEFINE Good == OnItsWay(r)' /\ IsAnswered(r)'
<1> SUFFICES Good
  OBVIOUS
<1> USE ActorsApart
<1>1. /\ pc \in [ Actors -> Pcs ] /\ outcome \in [ Actors -> { "none", "answered", "auth", "failed" } ]
      /\ attempt \in [ Requests -> {0, 1} ] /\ bears \in [ Requests -> BOOLEAN ]
      /\ disturbed \in [ Actors -> BOOLEAN ]
  BY DEF TypeOK, Pcs
<1>2. ASSUME NEW at, pc' = [ pc EXCEPT ![r] = at ]
      PROVE  pc'[r] = at /\ \A b \in Actors : b # r => (Busy(b)' <=> Busy(b))
  BY <1>1, <1>2 DEF Busy
<1>3. CASE Request(r)
  <2>1. /\ pc'[r] = "sent" /\ attempt'[r] = 0
        /\ \A b \in Actors : b # r => (Busy(b)' <=> Busy(b))
    BY <1>1, <1>2, <1>3 DEF Request
  <2>2. ~disturbed'[r] => \A b \in Actors : b # r => ~Busy(b)
    BY <1>3 DEF Request, Enters
  <2> QED
    BY <2>1, <2>2 DEF OnItsWay, IsAnswered
<1>4. CASE Answered(r)
  BY <1>1, <1>4 DEF Answered, Ends, OnItsWay, IsAnswered, Busy
<1>5. CASE Rejected(r)
  <2>1. CASE attempt[r] = 1
    <3>1. pc'[r] = "done" /\ disturbed' = disturbed
      BY <1>1, <1>5, <2>1 DEF Rejected, Ends
    <3>2. disturbed[r]
      BY <1>5, <2>1 DEF Rejected, OnItsWay, Busy
    <3> QED
      BY <3>1, <3>2 DEF OnItsWay, IsAnswered
  <2>2. CASE attempt[r] # 1
    <3>1. /\ pc' = [ pc EXCEPT ![r] = "lock" ] /\ disturbed' = disturbed /\ Busy(r)
      BY <1>5, <2>2 DEF Rejected, Queue, Busy
    <3>2. pc'[r] = "lock" /\ \A b \in Actors : b # r => (Busy(b)' <=> Busy(b))
      BY <1>2, <3>1
    <3> QED
      BY <3>1, <3>2 DEF OnItsWay, IsAnswered
  <2> QED
    BY <2>1, <2>2
<1>6. CASE RequestFails(r)
  <2>1. disturbed'[r]
    BY <1>6, TroubleDisturbs DEF RequestFails, Busy
  <2> QED
    BY <2>1 DEF OnItsWay, IsAnswered
<1>7. CASE Enter(r)
  <2>1. pc' = [ pc EXCEPT ![r] = "page" ] /\ disturbed' = disturbed /\ Busy(r)
    BY <1>7 DEF Enter, Busy
  <2>2. pc'[r] = "page" /\ \A b \in Actors : b # r => (Busy(b)' <=> Busy(b))
    BY <1>2, <2>1
  <2> QED
    BY <2>1, <2>2 DEF OnItsWay, IsAnswered
<1>8. CASE LoginPage(r)
  <2>1. pc' = [ pc EXCEPT ![r] = "post" ] /\ disturbed' = disturbed /\ Busy(r) /\ csrf'
    BY <1>8 DEF LoginPage, Busy
  <2>2. pc'[r] = "post" /\ \A b \in Actors : b # r => (Busy(b)' <=> Busy(b))
    BY <1>2, <2>1
  <2> QED
    BY <2>1, <2>2 DEF OnItsWay, IsAnswered
<1>9. CASE LoginPost(r)
  <2>1. disturbed' = disturbed /\ Busy(r) /\ password' = password
    BY <1>9 DEF LoginPost, Busy
  <2>2. CASE password /\ csrf
    <3>1. pc' = [ pc EXCEPT ![r] = "map" ] /\ session' /\ password'
      BY <1>9, <2>2 DEF LoginPost
    <3>2. pc'[r] = "map" /\ \A b \in Actors : b # r => (Busy(b)' <=> Busy(b))
      BY <1>2, <3>1
    <3> QED
      BY <2>1, <3>1, <3>2 DEF OnItsWay, IsAnswered
  <2>3. CASE ~(password /\ csrf)
    <3>1. pc'[r] = "done" /\ outcome'[r] = "auth"
      BY <1>1, <1>9, <2>3 DEF LoginPost, Ends
    <3>2. ~disturbed[r] => ~password
      BY <1>9, <2>1, <2>3 DEF OnItsWay, LoginPost
    <3> QED
      BY <2>1, <3>1, <3>2 DEF OnItsWay, IsAnswered, Busy
  <2> QED
    BY <2>2, <2>3
<1>10. CASE LoginMap(r)
  <2>1. /\ pc' = [ pc EXCEPT ![r] = "sent" ] /\ bears'[r]
        /\ disturbed' = disturbed /\ password' = password /\ session' = session
    BY <1>1, <1>10 DEF LoginMap, portal
  <2>2. pc'[r] = "sent" /\ \A b \in Actors : b # r => (Busy(b)' <=> Busy(b))
    BY <1>2, <2>1
  <2>3. Busy(r) /\ pc[r] = "map"
    BY <1>10 DEF LoginMap, Busy
  <2> QED
    BY <2>1, <2>2, <2>3 DEF OnItsWay, IsAnswered
<1>11. CASE LoginFails(r)
  <2>1. disturbed'[r]
    BY <1>11, TroubleDisturbs DEF LoginFails, LoggingIn, Busy
  <2> QED
    BY <2>1 DEF OnItsWay, IsAnswered
<1> HIDE DEF Good
<1> QED
  BY <1>3, <1>4, <1>5, <1>6, <1>7, <1>8, <1>9, <1>10, <1>11 DEF OwnStep, Login

LEMMA UndisturbedNext == TypeOK /\ Undisturbed /\ Steps => Undisturbed'
BY OthersLeaveAlone, StaysUndisturbed, OwnStepKeeps DEF Undisturbed

-----------------------------------------------------------------------------
(* The task                                                                *)

\* Between attempts the task asks nothing of the client.
TaskWaits == Busy(Push) => channel = "opening"

\* Where the task remembers the login it owes to a silent connection; by its
\* handshake it owes none.
Owes ==
    /\ channel = "closing" => silent
    /\ owed /\ channel # "closing" => fresh_login /\ channel # "open"
    /\ pc[Push] = "handshake" => ~fresh_login

Inv == ConnectionTypeOK /\ Undisturbed /\ Owes

\* To the client, what the connection does is one of Steps.
LEMMA ConnectionSteps ==
    ASSUME Channel!TypeOK, [ConnectionNext]_connection
    PROVE  Steps
<1>1. Attempt => \E fresh \in BOOLEAN : Connect(fresh)
  BY DEF Attempt, Channel!TypeOK
<1> QED
  BY <1>1 DEF ConnectionNext, ClientStep, ChannelTrouble, ChannelStep, connection, Steps

\* The task is idle until its next attempt, and what it does ends it or goes
\* on; the steps of requests are none of its own.
LEMMA PushGoesOn ==
    ASSUME TypeOK, Step
    PROVE  /\ Busy(Push)' => Busy(Push)
           /\ pc'[Push] = "handshake" => pc[Push] \in { "map", "handshake" }
           /\ pc[Push] # "done" /\ pc'[Push] = "done" => Busy(Push)
           /\ outcome'[Push] = "answered" /\ pc[Push] # "done" /\ pc'[Push] = "done"
                => pc[Push] = "handshake"
<1> USE ActorsApart
<1>1. pc \in [ Actors -> Pcs ] /\ outcome \in [ Actors -> { "none", "answered", "auth", "failed" } ]
  BY DEF TypeOK, Pcs
<1>2. ASSUME NEW r \in Requests, Request(r) \/ Answered(r) \/ Rejected(r) \/ RequestFails(r)
      PROVE  pc'[Push] = pc[Push]
  BY <1>1, <1>2 DEF Request, Answered, Rejected, RequestFails, Ends, Queue
<1>3. ASSUME NEW a \in Requests, Login(a) \/ LoginFails(a) PROVE pc'[Push] = pc[Push]
  BY <1>1, <1>3 DEF Login, Enter, LoginPage, LoginPost, LoginMap, LoginFails, Ends
<1>4. CASE Login(Push)
  BY <1>1, <1>4 DEF Login, Enter, LoginPage, LoginPost, LoginMap, Ends, Busy
<1>5. CASE LoginFails(Push)
  BY <1>1, <1>5 DEF LoginFails, Ends, Busy, LoggingIn
<1>6. CASE Refused \/ Opened \/ HandshakeFails
  BY <1>1, <1>6 DEF Refused, Opened, HandshakeFails, Ends, Busy
<1>7. CASE Expire
  BY <1>7 DEF Expire, Busy
<1>8. CASE pc'[Push] = pc[Push]
  BY <1>8 DEF Busy
<1> QED
  BY <1>2, <1>3, <1>4, <1>5, <1>6, <1>7, <1>8 DEF Step, Actors

LEMMA ChannelTyped ==
    ASSUME Channel!TypeOK, Channel!Next \/ UNCHANGED task
    PROVE  Channel!TypeOK'
<1>1. /\ MIN_SECONDS \in Nat \ {0} /\ MAX_SECONDS \in Nat /\ MIN_SECONDS <= MAX_SECONDS
      /\ SILENCE_TIMEOUT \in Nat \ {0}
  BY ConnectionAssumption DEF Channel!PushChannelAssumption
<1>2. /\ 0 \in 0 .. Channel!Larger(MAX_SECONDS, SILENCE_TIMEOUT)
      /\ SILENCE_TIMEOUT \in 0 .. Channel!Larger(MAX_SECONDS, SILENCE_TIMEOUT)
      /\ \A b \in MIN_SECONDS .. MAX_SECONDS :
           /\ b \in 0 .. Channel!Larger(MAX_SECONDS, SILENCE_TIMEOUT)
           /\ Channel!Smaller(b * 2, MAX_SECONDS) \in MIN_SECONDS .. MAX_SECONDS
      /\ \A f \in 0 .. MAX_SECONDS : Channel!Smaller(f + 1, MAX_SECONDS) \in 0 .. MAX_SECONDS
  BY <1>1 DEF Channel!Larger, Channel!Smaller
<1>3. /\ backoff \in MIN_SECONDS .. MAX_SECONDS /\ failed \in 0 .. MAX_SECONDS
      /\ timer \in 0 .. Channel!Larger(MAX_SECONDS, SILENCE_TIMEOUT)
      /\ channel \in { "opening", "open", "closing", "asleep" }
      /\ fresh_login \in BOOLEAN /\ silent \in BOOLEAN /\ push_connected \in BOOLEAN
      /\ dead \in BOOLEAN /\ owed \in BOOLEAN
      /\ push_connected <=> channel \in { "open", "closing" }
  BY DEF Channel!TypeOK
<1>4. /\ backoff' \in MIN_SECONDS .. MAX_SECONDS /\ failed' \in 0 .. MAX_SECONDS
  BY <1>1, <1>2, <1>3 DEF Channel!Next, Channel!Unavailable, Channel!LoggedIn, Channel!Open,
     Channel!Message, Channel!Dies, Channel!OnSilence, Channel!Closed, Channel!Awake, Channel!Tick,
     task
<1>5. timer' \in 0 .. Channel!Larger(MAX_SECONDS, SILENCE_TIMEOUT)
  <2>1. CASE Channel!Tick
    BY <1>1, <1>3, <2>1 DEF Channel!Tick, Channel!Larger
  <2>2. CASE ~Channel!Tick
    BY <1>2, <1>3, <2>2 DEF Channel!Next, Channel!Unavailable, Channel!LoggedIn, Channel!Open,
       Channel!Message, Channel!Dies, Channel!OnSilence, Channel!Closed, Channel!Awake,
       Channel!Sleep, task
  <2> QED
    BY <2>1, <2>2
<1>6. /\ channel' \in { "opening", "open", "closing", "asleep" }
      /\ push_connected' \in BOOLEAN
      /\ push_connected' <=> channel' \in { "open", "closing" }
  <2> USE <1>3 DEF Channel!Sleep
  <2>1. CASE Channel!Unavailable \/ Channel!Awake
    BY <2>1 DEF Channel!Unavailable, Channel!Awake
  <2>2. CASE Channel!Open \/ Channel!OnSilence
    BY <2>2 DEF Channel!Open, Channel!OnSilence
  <2>3. CASE Channel!Closed
    BY <2>3 DEF Channel!Closed
  <2>4. CASE UNCHANGED << channel, push_connected >>
    BY <2>4
  <2> QED
    BY <2>1, <2>2, <2>3, <2>4 DEF Channel!Next, Channel!LoggedIn, Channel!Message, Channel!Dies,
       Channel!Tick, task
<1>7. /\ fresh_login' \in BOOLEAN /\ silent' \in BOOLEAN /\ dead' \in BOOLEAN /\ owed' \in BOOLEAN
  <2>1. CASE Channel!Closed
    BY <1>3, <2>1 DEF Channel!Closed
  <2>2. CASE ~Channel!Closed
    BY <1>3, <2>2 DEF Channel!Next, Channel!Unavailable, Channel!LoggedIn, Channel!Open,
       Channel!Message, Channel!Dies, Channel!OnSilence, Channel!Awake, Channel!Tick, task
  <2> QED
    BY <2>1, <2>2
<1> QED
  BY <1>4, <1>5, <1>6, <1>7 DEF Channel!TypeOK

LEMMA TaskSteps ==
    ASSUME [ConnectionNext]_connection
    PROVE  Channel!Next \/ UNCHANGED task
BY DEF ConnectionNext, Attempt, ClientStep, TaskFollows, ChannelTrouble, ChannelStep,
       connection, Channel!Next

LEMMA WaitsNext ==
    ASSUME TypeOK, TaskWaits, [ConnectionNext]_connection
    PROVE  TaskWaits'
<1>1. CASE Attempt
  BY <1>1 DEF Attempt, task, TaskWaits
<1>2. CASE ClientStep
  <2> SUFFICES ASSUME Busy(Push)' PROVE channel' = "opening"
    BY DEF TaskWaits
  <2>1. channel = "opening" /\ pc'[Push] # "done"
    BY <1>2, PushGoesOn DEF ClientStep, TaskWaits, Busy
  <2> QED
    BY <1>2, <2>1 DEF ClientStep, TaskFollows, Channel!LoggedIn, task
<1>3. CASE ChannelTrouble
  BY <1>3 DEF ChannelTrouble, TaskWaits, Busy, Channel!Closed, Channel!Dies, Channel!OnSilence
<1>4. CASE ChannelStep
  BY <1>4 DEF ChannelStep, vars, TaskWaits, Busy, Channel!Closed, Channel!OnSilence,
              Channel!Message, Channel!Awake, Channel!Tick
<1>5. CASE UNCHANGED connection
  BY <1>5 DEF connection, vars, task, TaskWaits, Busy
<1> QED
  BY <1>1, <1>2, <1>3, <1>4, <1>5 DEF ConnectionNext

LEMMA OwesNext ==
    ASSUME TypeOK, TaskWaits, Owes, [ConnectionNext]_connection
    PROVE  Owes'
<1> USE DEF Owes
<1>1. CASE Attempt
  <2>1. pc'[Push] = "handshake" => ~fresh_login
    BY <1>1, ActorsApart DEF Attempt, Connect, Queue, TypeOK
  <2> QED
    BY <1>1, <2>1 DEF Attempt, task
<1>2. CASE ClientStep
  <2>1. CASE pc[Push] # "done" /\ pc'[Push] = "done"
    BY <1>2, <2>1 DEF ClientStep, TaskFollows, Channel!Open, Channel!Unavailable, Channel!Sleep
  <2>2. CASE pc[Push] = "map" /\ pc'[Push] = "handshake" /\ fresh_login
    BY <1>2, <2>2 DEF ClientStep, TaskFollows, Channel!LoggedIn
  <2>3. CASE ~(pc[Push] # "done" /\ pc'[Push] = "done")
               /\ ~(pc[Push] = "map" /\ pc'[Push] = "handshake" /\ fresh_login)
    <3>1. UNCHANGED task
      BY <1>2, <2>3 DEF ClientStep, TaskFollows
    <3>2. pc'[Push] = "handshake" => ~fresh_login
      BY <1>2, <2>3, PushGoesOn DEF ClientStep
    <3> QED
      BY <3>1, <3>2 DEF task
  <2> QED
    BY <2>1, <2>2, <2>3
<1>3. CASE ChannelTrouble
  <2>1. pc' = pc /\ (pc[Push] = "handshake" => channel = "opening")
    BY <1>3 DEF ChannelTrouble, TaskWaits, Busy
  <2> QED
    BY <1>3, <2>1 DEF ChannelTrouble, Channel!Closed, Channel!Dies, Channel!OnSilence, Channel!Sleep
<1>4. CASE ChannelStep
  <2>1. pc' = pc /\ (pc[Push] = "handshake" => channel = "opening")
    BY <1>4 DEF ChannelStep, vars, TaskWaits, Busy
  <2>2. Owes'
    <3>1. CASE channel = "closing" /\ Channel!Closed
      BY <2>1, <3>1 DEF Channel!Closed, Channel!Sleep
    <3>2. CASE Channel!OnSilence
      BY <2>1, <3>2 DEF Channel!OnSilence
    <3>3. CASE Channel!Message \/ Channel!Awake \/ Channel!Tick
      BY <2>1, <3>3 DEF Channel!Message, Channel!Awake, Channel!Tick
    <3> QED
      BY <1>4, <3>1, <3>2, <3>3 DEF ChannelStep
  <2> QED
    BY <2>2
<1>5. CASE UNCHANGED connection
  BY <1>5 DEF connection, vars, task
<1> QED
  BY <1>1, <1>2, <1>3, <1>4, <1>5 DEF ConnectionNext

-----------------------------------------------------------------------------
LEMMA InvInit == ConnectionInit => Inv
<1> SUFFICES ASSUME ConnectionInit PROVE Inv
  OBVIOUS
<1> USE ActorsApart
<1>1. QueueOK /\ PcOK
  <2>1. ToSet(lock) = {} /\ IsInjective(lock) /\ lock \in Seq(Actors)
    BY DEF ConnectionInit, Init, ToSet, IsInjective
  <2> QED
    BY <2>1 DEF ConnectionInit, Init, QueueOK, PcOK, Pcs, LoggingIn
<1>2. RestOK
  BY DEF ConnectionInit, Init, RestOK
<1>3. troubles \in 0 .. MaxTroubles
  BY ClientAssumption DEF ConnectionInit, Init
<1>4. Channel!TypeOK
  <2>1. /\ MIN_SECONDS \in MIN_SECONDS .. MAX_SECONDS /\ 0 \in 0 .. MAX_SECONDS
        /\ 0 \in 0 .. Channel!Larger(MAX_SECONDS, SILENCE_TIMEOUT)
    BY ConnectionAssumption DEF Channel!PushChannelAssumption, Channel!Larger
  <2> QED
    BY <2>1 DEF ConnectionInit, Channel!Init, Channel!TypeOK
<1>5. /\ \A a \in Actors : ~Busy(a) /\ pc[a] = "idle"
      /\ channel = "opening" /\ ~owed
  BY DEF ConnectionInit, Init, Channel!Init, Busy
<1> QED
  BY <1>1, <1>2, <1>3, <1>4, <1>5, TypesInParts
     DEF Inv, ConnectionTypeOK, Undisturbed, OnItsWay, IsAnswered, Owes

LEMMA InvNext == Inv /\ [ConnectionNext]_connection => Inv'
<1> SUFFICES ASSUME Inv, [ConnectionNext]_connection PROVE Inv'
  OBVIOUS
<1>1. TypeOK /\ Channel!TypeOK /\ TaskWaits /\ Undisturbed /\ Owes
  BY DEF Inv, ConnectionTypeOK, TaskWaits
<1>2. Steps
  BY <1>1, ConnectionSteps
<1>3. TypeOK' /\ Undisturbed'
  BY <1>1, <1>2, ClientTyped, UndisturbedNext
<1>4. Channel!TypeOK' /\ TaskWaits' /\ Owes'
  BY <1>1, TaskSteps, ChannelTyped, WaitsNext, OwesNext
<1> QED
  BY <1>3, <1>4 DEF Inv, ConnectionTypeOK, TaskWaits

\* The login lock is held by whoever is first in line, nobody else logs in,
\* and between its attempts the task asks nothing of the client (_login_lock,
\* async_run_push).
THEOREM TheConnectionIsTyped == ConnectionSpec => []ConnectionTypeOK
BY InvInit, InvNext, PTL DEF ConnectionSpec, Inv

\* Whatever earlier logins, failures and expiries left behind, a request that
\* nothing disturbs is answered if the password is right, and never merely
\* fails (_request).
THEOREM UndisturbedIsAnsweredAlways == ConnectionSpec => []UndisturbedIsAnswered
<1>1. Inv => UndisturbedIsAnswered
  BY DEF Inv, Undisturbed, IsAnswered, UndisturbedIsAnswered
<1> QED
  BY <1>1, InvInit, InvNext, PTL DEF ConnectionSpec

\* After a silent connection none is opened before a login has succeeded
\* (fresh_login): the login is still remembered when the attempt comes.
THEOREM NoStaleCookieIsUsed == ConnectionSpec => []NoStaleCookie
<1>1. Inv => NoStaleCookie
  BY DEF Inv, Owes, NoStaleCookie, Channel!NoStaleCookie
<1> QED
  BY <1>1, InvInit, InvNext, PTL DEF ConnectionSpec

\* And what the client has done by the handshake is what the task believes:
\* whenever the portal accepts it, the channel opens (PushChannel's Open has no
\* further condition), and whenever an attempt ends, the task goes on.
LEMMA TheTaskCanFollow ==
    ASSUME Inv, Step, pc[Push] # "done", pc'[Push] = "done"
    PROVE  /\ channel = "opening"
           /\ outcome'[Push] = "answered" => ~fresh_login /\ ~owed
BY PushGoesOn DEF Inv, ConnectionTypeOK, Owes
=============================================================================
