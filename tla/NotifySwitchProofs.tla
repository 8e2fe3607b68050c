------------------------- MODULE NotifySwitchProofs -------------------------
(***************************************************************************)
(* The notify-me switch, for any chargers and toggles: the lock is held by *)
(* one actor at a time, and no commit overwrites a later answer.           *)
(*                                                                         *)
(* CacheFollowsPortal is not inductive: a commit makes the cache what the  *)
(* actor was answered, which has to be what the portal still holds.  The   *)
(* strengthening, AnswersHold, says so of every answer not yet committed;  *)
(* it rests on the types, by which only the holder of the lock, the head   *)
(* of the queue, is with the portal.                                       *)
(***************************************************************************)
EXTENDS NotifySwitch, TLAPS

AnswersHold ==
    \A a \in Actors : pc[a] = "answered" /\ ~untold[station[a]]
                        => value[a] = subscribed[station[a]]

Inv == TypeOK /\ CacheFollowsPortal /\ AnswersHold

-----------------------------------------------------------------------------
(* The queue for the lock                                                  *)

\* An actor that is not in the queue goes to its end.
LEMMA Queued ==
    ASSUME NEW S, NEW q \in Seq(S), IsInjective(q), NEW a \in S, a \notin ToSet(q)
    PROVE  /\ Append(q, a) \in Seq(S) /\ IsInjective(Append(q, a))
           /\ ToSet(Append(q, a)) = ToSet(q) \cup {a}
           /\ q # << >> => Head(Append(q, a)) = Head(q)
<1>1. /\ Append(q, a) \in Seq(S) /\ Len(Append(q, a)) = Len(q) + 1 /\ Len(q) \in Nat
      /\ \A i \in 1 .. Len(q) : Append(q, a)[i] = q[i]
      /\ Append(q, a)[Len(q) + 1] = a
  OBVIOUS
<1>2. DOMAIN q = 1 .. Len(q) /\ DOMAIN Append(q, a) = 1 .. Len(q) + 1
  BY <1>1
<1>3. \A i \in 1 .. Len(q) : q[i] # a
  BY <1>2 DEF ToSet
<1>4. \A i \in 1 .. Len(q) + 1 : i \in 1 .. Len(q) \/ i = Len(q) + 1
  BY <1>1
<1>5. IsInjective(Append(q, a))
  BY <1>1, <1>2, <1>3, <1>4 DEF IsInjective
<1>6. ToSet(Append(q, a)) = ToSet(q) \cup {a}
  <2>1. ASSUME NEW x \in ToSet(Append(q, a)) PROVE x \in ToSet(q) \cup {a}
    BY <1>1, <1>2, <1>4 DEF ToSet
  <2>2. ASSUME NEW x \in ToSet(q) PROVE x \in ToSet(Append(q, a))
    <3>1. PICK i \in 1 .. Len(q) : x = q[i]
      BY <1>2 DEF ToSet
    <3>2. i \in 1 .. Len(q) + 1 /\ Append(q, a)[i] = x
      BY <1>1, <3>1
    <3> QED
      BY <1>2, <3>2 DEF ToSet
  <2>3. a \in ToSet(Append(q, a))
    <3>1. Len(q) + 1 \in 1 .. Len(q) + 1
      BY <1>1
    <3> QED
      BY <1>1, <1>2, <3>1 DEF ToSet
  <2> QED
    BY <2>1, <2>2, <2>3
<1>7. q # << >> => Head(Append(q, a)) = Head(q)
  OBVIOUS
<1> QED
  BY <1>1, <1>5, <1>6, <1>7

\* The head leaves it, and nobody else.
LEMMA Left ==
    ASSUME NEW S, NEW q \in Seq(S), IsInjective(q), q # << >>
    PROVE  /\ Tail(q) \in Seq(S) /\ IsInjective(Tail(q))
           /\ ToSet(Tail(q)) = ToSet(q) \ {Head(q)}
<1>1. /\ Tail(q) \in Seq(S) /\ Len(Tail(q)) = Len(q) - 1 /\ Len(q) \in Nat \ {0}
      /\ \A i \in 1 .. Len(q) - 1 : Tail(q)[i] = q[i + 1]
      /\ Head(q) = q[1]
  OBVIOUS
<1>2. DOMAIN q = 1 .. Len(q) /\ DOMAIN Tail(q) = 1 .. Len(q) - 1
  BY <1>1
<1>3. \A i \in 1 .. Len(q) - 1 : i + 1 \in 1 .. Len(q) /\ i + 1 # 1
  BY <1>1
<1>4. \A i, j \in 1 .. Len(q) : q[i] = q[j] => i = j
  BY <1>2 DEF IsInjective
<1>5. IsInjective(Tail(q))
  <2> SUFFICES ASSUME NEW i \in 1 .. Len(q) - 1, NEW j \in 1 .. Len(q) - 1,
                      Tail(q)[i] = Tail(q)[j]
               PROVE  i = j
    BY <1>2 DEF IsInjective
  <2>1. q[i + 1] = q[j + 1]
    BY <1>1
  <2>2. i + 1 = j + 1
    BY <1>3, <1>4, <2>1
  <2> QED
    BY <1>1, <2>2
<1>6. ASSUME NEW x \in ToSet(Tail(q)) PROVE x \in ToSet(q) \ {Head(q)}
  <2>1. PICK i \in 1 .. Len(q) - 1 : x = q[i + 1]
    BY <1>1, <1>2 DEF ToSet
  <2>2. i + 1 \in 1 .. Len(q) /\ i + 1 # 1 /\ 1 \in 1 .. Len(q)
    BY <1>1, <1>3
  <2>3. x # q[1]
    BY <1>4, <2>1, <2>2
  <2> QED
    BY <1>1, <1>2, <2>1, <2>2, <2>3 DEF ToSet
<1>7. ASSUME NEW x \in ToSet(q) \ {Head(q)} PROVE x \in ToSet(Tail(q))
  <2>1. PICK i \in 1 .. Len(q) : x = q[i] /\ i # 1
    BY <1>1, <1>2 DEF ToSet
  <2>2. i - 1 \in 1 .. Len(q) - 1 /\ (i - 1) + 1 = i
    BY <1>1, <2>1
  <2>3. Tail(q)[i - 1] = x
    BY <1>1, <2>1, <2>2
  <2> QED
    BY <1>2, <2>2, <2>3 DEF ToSet
<1> QED
  BY <1>1, <1>5, <1>6, <1>7

\* Whoever is in the queue finds it not empty.
LEMMA InQueue == ASSUME NEW S, NEW q \in Seq(S), NEW a \in ToSet(q) PROVE q # << >>
<1>1. PICK i \in DOMAIN q : a = q[i]
  BY DEF ToSet
<1> QED
  BY <1>1

-----------------------------------------------------------------------------
(* Types                                                                   *)

Pcs == { "idle", "detail", "lock", "publish" } \cup InPortal

\* What the queue is to the actors.
QueueOK ==
    /\ lock \in Seq(Actors) /\ IsInjective(lock)
    /\ \A a \in Actors :
        /\ a \in ToSet(lock) <=> pc[a] \in {"lock"} \cup InPortal
        /\ pc[a] \in InPortal => a = Head(lock)

\* What each actor is doing.
ActorsOK ==
    /\ pc \in [ Actors -> Pcs ]
    /\ station \in [ Actors -> Stations \cup {NoStation} ]
    /\ \A a \in Actors : pc[a] = "idle" <=> station[a] = NoStation

\* What is said of subscriptions.
BooleansOK ==
    /\ subscribed \in [ Stations -> BOOLEAN ] /\ notify \in [ Stations -> BOOLEAN ]
    /\ published \in [ Stations -> BOOLEAN ] /\ untold \in [ Stations -> BOOLEAN ]
    /\ value \in [ Actors -> BOOLEAN ]

LEMMA TypesInParts == TypeOK <=> QueueOK /\ ActorsOK /\ BooleansOK
BY DEF TypeOK, QueueOK, ActorsOK, BooleansOK, Pcs

LEMMA ActorsApart == Refresh \in Actors /\ Toggles \subseteq Actors /\ Refresh \notin Toggles
BY NotifyAssumption DEF Actors

LEMMA OthersStay ==
    ASSUME ActorsOK, NEW a \in Actors, NEW at \in Pcs, Goto(a, at)
    PROVE  /\ pc' \in [ Actors -> Pcs ] /\ pc'[a] = at
           /\ \A b \in Actors : b # a => pc'[b] = pc[b]
BY DEF ActorsOK, Goto

LEMMA QueueKeeps ==
    ASSUME QueueOK, ActorsOK, NEW a \in Actors, pc[a] \in { "idle", "detail" }, Queue(a)
    PROVE  QueueOK'
<1>1. lock' = Append(lock, a) /\ a \notin ToSet(lock) /\ pc'[a] = "lock"
      /\ \A b \in Actors : b # a => pc'[b] = pc[b]
  BY OthersStay DEF Queue, QueueOK, InPortal, Pcs
<1>2. /\ lock' \in Seq(Actors) /\ IsInjective(lock')
      /\ ToSet(lock') = ToSet(lock) \cup {a}
      /\ lock # << >> => Head(lock') = Head(lock)
  BY <1>1, Queued DEF QueueOK
<1>3. ASSUME NEW b \in Actors
      PROVE  /\ b \in ToSet(lock') <=> pc'[b] \in {"lock"} \cup InPortal
             /\ pc'[b] \in InPortal => b = Head(lock')
  <2>1. CASE b = a
    BY <1>1, <1>2, <2>1 DEF InPortal
  <2>2. CASE b # a
    <3>1. pc[b] \in InPortal => lock # << >>
      BY InQueue DEF QueueOK
    <3> QED
      BY <1>1, <1>2, <2>2, <3>1 DEF QueueOK
  <2> QED
    BY <2>1, <2>2
<1> QED
  BY <1>2, <1>3 DEF QueueOK

\* The holder asks, or is answered.
LEMMA HolderKeeps ==
    ASSUME QueueOK, ActorsOK, NEW a \in Actors, NEW at \in InPortal, Goto(a, at),
           pc[a] \in {"lock"} \cup InPortal, Head(lock) = a, UNCHANGED lock
    PROVE  QueueOK'
BY OthersStay DEF QueueOK, Pcs

\* The holder leaves the lock to the next.
LEMMA ReleaseKeeps ==
    ASSUME QueueOK, ActorsOK, NEW a \in Actors, pc[a] \in InPortal,
           NEW at \in { "idle", "publish" }, Goto(a, at), Release
    PROVE  QueueOK'
<1>1. a = Head(lock) /\ a \in ToSet(lock) /\ lock \in Seq(Actors) /\ IsInjective(lock)
  BY DEF QueueOK
<1>2. /\ lock' \in Seq(Actors) /\ IsInjective(lock')
      /\ ToSet(lock') = ToSet(lock) \ {a}
  BY <1>1, InQueue, Left DEF Release
<1>3. pc'[a] = at /\ \A b \in Actors : b # a => pc'[b] = pc[b] /\ pc[b] \notin InPortal
  BY <1>1, OthersStay DEF QueueOK, Pcs
<1> QED
  BY <1>2, <1>3 DEF QueueOK, InPortal

LEMMA Typed == TypeOK /\ [Next]_vars => TypeOK'
<1> SUFFICES ASSUME QueueOK, ActorsOK, BooleansOK, [Next]_vars
             PROVE  QueueOK' /\ ActorsOK' /\ BooleansOK'
  BY TypesInParts DEF TypeOK, QueueOK, ActorsOK, BooleansOK, Pcs
<1> DEFINE Good == QueueOK' /\ ActorsOK' /\ BooleansOK'
<1> USE ActorsApart
<1>1. ASSUME NEW t \in Toggles, NEW s \in Stations, NEW on \in BOOLEAN, Toggle(t, s, on)
      PROVE  Good
  <2>1. QueueOK'
    BY <1>1, QueueKeeps DEF Toggle
  <2>2. ActorsOK'
    BY <1>1, NotifyAssumption DEF Toggle, Queue, Goto, ActorsOK, Pcs
  <2>3. BooleansOK'
    BY <1>1 DEF Toggle, BooleansOK
  <2> QED
    BY <2>1, <2>2, <2>3
<1>2. ASSUME NEW s \in Stations, BeginRefresh(s) PROVE Good
  <2>1. ActorsOK'
    BY <1>2, NotifyAssumption DEF BeginRefresh, Goto, ActorsOK, Pcs
  <2>2. QueueOK'
    BY <1>2, OthersStay DEF BeginRefresh, QueueOK, Pcs, InPortal
  <2>3. BooleansOK'
    BY <1>2 DEF BeginRefresh, BooleansOK
  <2> QED
    BY <2>1, <2>2, <2>3
<1>3. CASE Detail
  <2>1. QueueOK'
    BY <1>3, QueueKeeps DEF Detail
  <2>2. ActorsOK' /\ BooleansOK'
    BY <1>3 DEF Detail, Queue, Goto, ActorsOK, BooleansOK, Pcs
  <2> QED
    BY <2>1, <2>2
<1>4. CASE DetailFails
  <2>1. QueueOK'
    BY <1>4, OthersStay DEF DetailFails, QueueOK, Pcs, InPortal
  <2>2. ActorsOK' /\ BooleansOK'
    BY <1>4 DEF DetailFails, Goto, ActorsOK, BooleansOK, Pcs
  <2> QED
    BY <2>1, <2>2
<1>5. ASSUME NEW a \in Actors, Ask(a) PROVE Good
  <2>1. QueueOK'
    BY <1>5, HolderKeeps DEF Ask, InPortal
  <2>2. ActorsOK' /\ BooleansOK'
    BY <1>5 DEF Ask, Goto, ActorsOK, BooleansOK, Pcs, InPortal
  <2> QED
    BY <2>1, <2>2
<1>6. ASSUME NEW a \in Actors, Handle(a) PROVE Good
  <2>1. a = Head(lock)
    BY <1>6 DEF Handle, QueueOK, InPortal
  <2>2. QueueOK'
    BY <1>6, <2>1, HolderKeeps DEF Handle, InPortal
  <2>3. ActorsOK' /\ station[a] \in Stations
    BY <1>6 DEF Handle, Goto, ActorsOK, Pcs, InPortal
  <2>4. value' \in [ Actors -> BOOLEAN ] /\ subscribed' \in [ Stations -> BOOLEAN ]
    BY <1>6, <2>3 DEF Handle, BooleansOK
  <2>5. untold' \in [ Stations -> BOOLEAN ]
    BY <1>6 DEF Handle, BooleansOK
  <2> QED
    BY <1>6, <2>2, <2>3, <2>4, <2>5 DEF Handle, BooleansOK
<1>7. CASE Read
  <2>1. QueueOK'
    BY <1>7, ReleaseKeeps DEF Read, InPortal
  <2>2. ActorsOK'
    BY <1>7 DEF Read, Goto, ActorsOK, Pcs
  <2>3. BooleansOK'
    BY <1>7 DEF Read, Commit, BooleansOK
  <2> QED
    BY <2>1, <2>2, <2>3
<1>8. CASE EndRefresh
  <2>1. QueueOK'
    BY <1>8, OthersStay DEF EndRefresh, Finish, QueueOK, Pcs, InPortal
  <2>2. ActorsOK'
    BY <1>8 DEF EndRefresh, Finish, Goto, ActorsOK, Pcs
  <2>3. BooleansOK'
    BY <1>8 DEF EndRefresh, BooleansOK
  <2> QED
    BY <2>1, <2>2, <2>3
<1>9. ASSUME NEW t \in Toggles, Confirmed(t) PROVE Good
  <2>1. QueueOK'
    BY <1>9, ReleaseKeeps DEF Confirmed, Finish, InPortal
  <2>2. ActorsOK'
    BY <1>9 DEF Confirmed, Finish, Goto, ActorsOK, Pcs
  <2>3. BooleansOK'
    BY <1>9 DEF Confirmed, Commit, BooleansOK
  <2> QED
    BY <2>1, <2>2, <2>3
<1>10. ASSUME NEW a \in Actors, Lost(a) PROVE Good
  <2>1. PICK at \in { "idle", "publish" } : Goto(a, at)
    BY <1>10 DEF Lost, Finish
  <2>2. QueueOK'
    BY <1>10, <2>1, ReleaseKeeps DEF Lost
  <2>3. ActorsOK'
    BY <1>10 DEF Lost, Finish, Goto, ActorsOK, Pcs, InPortal
  <2>4. untold' \in [ Stations -> BOOLEAN ]
    BY <1>10 DEF Lost, BooleansOK
  <2> QED
    BY <1>10, <2>2, <2>3, <2>4 DEF Lost, BooleansOK
<1>11. ASSUME NEW s \in Stations, AppToggle(s) PROVE Good
  <2>1. subscribed' \in [ Stations -> BOOLEAN ] /\ untold' \in [ Stations -> BOOLEAN ]
    BY <1>11 DEF AppToggle, BooleansOK
  <2> QED
    BY <1>11, <2>1 DEF AppToggle, QueueOK, ActorsOK, BooleansOK
<1>12. CASE UNCHANGED vars
  BY <1>12 DEF vars, QueueOK, ActorsOK, BooleansOK
<1> HIDE DEF Good
<1> QED
  BY <1>1, <1>2, <1>3, <1>4, <1>5, <1>6, <1>7, <1>8, <1>9, <1>10, <1>11, <1>12
     DEF Next, Step, RefreshStep, Good

-----------------------------------------------------------------------------
(* The cache                                                               *)

\* One actor at a time is with the portal.
LEMMA OneInPortal ==
    ASSUME TypeOK, NEW a \in Actors, NEW b \in Actors, pc[a] \in InPortal, pc[b] \in InPortal
    PROVE  a = b
BY DEF TypeOK

\* A step that answers nobody, commits nothing and leaves the portal alone.
LEMMA NothingTold ==
    ASSUME Inv,
           UNCHANGED << subscribed, notify, untold >>,
           \A a \in Actors : /\ pc'[a] = "answered" <=> pc[a] = "answered"
                             /\ pc[a] = "answered" => station'[a] = station[a] /\ value'[a] = value[a]
    PROVE  CacheFollowsPortal' /\ AnswersHold'
BY DEF Inv, CacheFollowsPortal, AnswersHold

LEMMA CommitFollows ==
    ASSUME Inv, NEW a \in Actors, pc[a] = "answered", Commit(a), pc'[a] # "answered",
           \A b \in Actors : b # a => pc'[b] = pc[b] /\ station'[b] = station[b],
           UNCHANGED << subscribed, untold, value >>
    PROVE  CacheFollowsPortal' /\ AnswersHold'
<1>1. TypeOK /\ notify \in [ Stations -> BOOLEAN ]
  BY DEF Inv, TypeOK
<1>2. \A b \in Actors : b # a => pc[b] # "answered"
  BY <1>1, OneInPortal DEF InPortal
<1>3. AnswersHold'
  BY <1>2 DEF AnswersHold
<1>4. ASSUME NEW s \in Stations, ~untold[s] PROVE notify'[s] = subscribed[s]
  <2>1. CASE s = station[a]
    <3>1. value[a] = subscribed[s]
      BY <1>4, <2>1 DEF Inv, AnswersHold
    <3> QED
      BY <1>1, <2>1, <3>1 DEF Commit
  <2>2. CASE s # station[a]
    <3>1. notify[s] = subscribed[s]
      BY <1>2, <1>4, <2>2 DEF Inv, CacheFollowsPortal
    <3> QED
      BY <1>1, <2>2, <3>1 DEF Commit
  <2> QED
    BY <2>1, <2>2
<1> QED
  BY <1>3, <1>4 DEF CacheFollowsPortal

LEMMA HandleFollows ==
    ASSUME Inv, NEW a \in Actors, Handle(a)
    PROVE  CacheFollowsPortal' /\ AnswersHold'
<1>1. ActorsOK /\ BooleansOK /\ TypeOK
  BY TypesInParts DEF Inv
<1>2. pc'[a] = "answered" /\ \A b \in Actors : b # a => pc'[b] = pc[b]
  BY <1>1, OthersStay DEF Handle, Pcs, InPortal
<1>3. \A b \in Actors : pc[b] # "answered"
  BY <1>1, OneInPortal DEF Handle, InPortal
<1>4. \A s \in Stations : s # station[a] => subscribed'[s] = subscribed[s] /\ untold'[s] = untold[s]
  BY <1>1 DEF Handle, BooleansOK
<1>5. station[a] \in Stations
  BY <1>1 DEF Handle, ActorsOK
<1>6. value'[a] = subscribed'[station[a]]
  BY <1>1, <1>5 DEF Handle, BooleansOK
<1>7. AnswersHold'
  BY <1>2, <1>3, <1>6 DEF AnswersHold, Handle
<1>8. CacheFollowsPortal'
  <2> SUFFICES ASSUME NEW s \in Stations, ~untold'[s],
                      \A b \in Actors : station'[b] = s => pc'[b] # "answered"
               PROVE  notify'[s] = subscribed'[s]
    BY DEF CacheFollowsPortal
  <2>1. s # station[a]
    BY <1>2 DEF Handle
  <2> QED
    BY <1>3, <1>4, <2>1 DEF Inv, CacheFollowsPortal, Handle
<1> QED
  BY <1>7, <1>8

LEMMA Followed == Inv /\ [Next]_vars => CacheFollowsPortal' /\ AnswersHold'
<1> DEFINE Good == CacheFollowsPortal' /\ AnswersHold'
<1> SUFFICES ASSUME Inv, [Next]_vars PROVE Good
  OBVIOUS
<1> USE ActorsApart
<1>1. ActorsOK /\ BooleansOK /\ TypeOK
  BY TypesInParts DEF Inv
<1>2. ASSUME NEW t \in Toggles, NEW s \in Stations, NEW on \in BOOLEAN, Toggle(t, s, on)
      PROVE  Good
  BY <1>1, <1>2, NothingTold DEF Toggle, Queue, Goto, ActorsOK, BooleansOK
<1>3. ASSUME NEW s \in Stations, BeginRefresh(s) PROVE Good
  BY <1>1, <1>3, NothingTold DEF BeginRefresh, Goto, ActorsOK
<1>4. CASE Detail \/ DetailFails
  BY <1>1, <1>4, NothingTold DEF Detail, DetailFails, Queue, Goto, ActorsOK
<1>5. ASSUME NEW a \in Actors, Ask(a) PROVE Good
  BY <1>1, <1>5, NothingTold DEF Ask, Goto, ActorsOK
<1>6. ASSUME NEW a \in Actors, Handle(a) PROVE Good
  BY <1>6, HandleFollows
<1>7. CASE Read
  <2>1. pc'[Refresh] # "answered" /\ \A b \in Actors : b # Refresh => pc'[b] = pc[b]
    BY <1>1, <1>7, OthersStay DEF Read, Pcs
  <2> QED
    BY <1>7, <2>1, CommitFollows DEF Read
<1>8. CASE EndRefresh
  BY <1>1, <1>8, NothingTold DEF EndRefresh, Finish, Goto, ActorsOK
<1>9. ASSUME NEW t \in Toggles, Confirmed(t) PROVE Good
  <2>1. /\ pc'[t] # "answered"
        /\ \A b \in Actors : b # t => pc'[b] = pc[b] /\ station'[b] = station[b]
    BY <1>1, <1>9, OthersStay DEF Confirmed, Finish, Pcs, ActorsOK
  <2> QED
    BY <1>9, <2>1, CommitFollows DEF Confirmed
<1>10. ASSUME NEW a \in Actors, Lost(a) PROVE Good
  <2>1. PICK at \in { "idle", "publish" } : Goto(a, at)
    BY <1>10 DEF Lost, Finish
  <2>2. /\ pc'[a] # "answered"
        /\ \A b \in Actors : b # a => /\ pc'[b] = pc[b] /\ pc[b] # "answered"
                                     /\ station'[b] = station[b]
    <3>1. \A b \in Actors : b # a => station'[b] = station[b]
      BY <1>1, <1>10 DEF Lost, Finish, ActorsOK
    <3>2. \A b \in Actors : b # a => pc[b] # "answered"
      BY <1>1, <1>10, OneInPortal DEF Lost, InPortal
    <3> QED
      BY <1>1, <2>1, <3>1, <3>2, OthersStay DEF Pcs
  <2>3. AnswersHold'
    BY <2>2 DEF AnswersHold
  <2>4. ASSUME NEW s \in Stations, ~untold'[s] PROVE notify[s] = subscribed[s]
    <3>1. /\ ~untold[s]
          /\ s = station[a] => pc[a] # "answered"
      BY <1>1, <1>10, <2>4 DEF Lost, BooleansOK
    <3> QED
      BY <2>2, <3>1 DEF Inv, CacheFollowsPortal
  <2> QED
    BY <1>10, <2>3, <2>4 DEF Lost, CacheFollowsPortal
<1>11. ASSUME NEW s \in Stations, AppToggle(s) PROVE Good
  <2>1. /\ untold'[s] = TRUE
        /\ \A z \in Stations : z # s => subscribed'[z] = subscribed[z] /\ untold'[z] = untold[z]
    BY <1>1, <1>11 DEF AppToggle, BooleansOK
  <2>2. ASSUME NEW a \in Actors, pc'[a] = "answered" PROVE station'[a] \in Stations
    BY <1>1, <1>11, <2>2 DEF AppToggle, ActorsOK
  <2>3. AnswersHold'
    BY <1>11, <2>1, <2>2 DEF AppToggle, Inv, AnswersHold
  <2>4. CacheFollowsPortal'
    BY <1>11, <2>1 DEF AppToggle, Inv, CacheFollowsPortal
  <2> QED
    BY <2>3, <2>4
<1>12. CASE UNCHANGED vars
  BY <1>12, NothingTold DEF vars
<1> HIDE DEF Good
<1> QED
  BY <1>2, <1>3, <1>4, <1>5, <1>6, <1>7, <1>8, <1>9, <1>10, <1>11, <1>12
     DEF Next, Step, RefreshStep

-----------------------------------------------------------------------------
LEMMA InvInit == Init => Inv
<1> SUFFICES ASSUME Init PROVE Inv
  OBVIOUS
<1>1. BooleansOK /\ ActorsOK
  BY NotifyAssumption DEF Init, BooleansOK, ActorsOK, Pcs
<1>2. QueueOK
  <2>1. ToSet(lock) = {} /\ IsInjective(lock) /\ lock \in Seq(Actors)
    BY DEF Init, ToSet, IsInjective
  <2> QED
    BY <2>1 DEF Init, QueueOK, InPortal
<1>3. CacheFollowsPortal /\ AnswersHold
  BY DEF Init, CacheFollowsPortal, AnswersHold
<1> QED
  BY <1>1, <1>2, <1>3, TypesInParts DEF Inv

LEMMA InvNext == Inv /\ [Next]_vars => Inv'
BY Typed, Followed DEF Inv

\* Whoever asks the portal about a subscription holds the lock, and nobody
\* waits for it twice (_notify_lock).
THEOREM TheLockIsHeld == Spec => []TypeOK
BY InvInit, InvNext, PTL DEF Spec, Inv

\* What the portal was last known to hold is what the cache holds: the commit
\* of a toggle or a refresh never overwrites a later answer
\* (async_set_availability_subscription, _refresh_station).
THEOREM CacheAlwaysFollows == Spec => []CacheFollowsPortal
BY InvInit, InvNext, PTL DEF Spec, Inv
=============================================================================
