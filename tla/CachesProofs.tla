---------------------------- MODULE CachesProofs ----------------------------
(***************************************************************************)
(* What the coordinator keeps of each charger between polls: no status     *)
(* change it learnt of is lost to the cache of capabilities, for any       *)
(* chargers, presses and number of changes, and the detail of each charger *)
(* is refreshed, for any number of chargers and of cycles that end early.  *)
(*                                                                         *)
(* ChangesAreRead is not inductive: what a scheduled read does at its end  *)
(* depends on what it was answered. The strengthening, AnswersCount, is    *)
(* that an answer on its way to the cache covers every change learnt so    *)
(* far, unless the charger is in missed.                                   *)
(*                                                                         *)
(* RefreshedHourly is not either: how long a charger may still have to     *)
(* wait depends on the ones before it that are due. The strengthening,     *)
(* InTurn, bounds how long a charger has been due by the turns of those    *)
(* before it that were refreshed since.                                    *)
(***************************************************************************)
EXTENDS Capabilities, DetailRefresh, FiniteSetTheorems,
        WellFoundedInduction, TLAPS

Pcs == { "idle", "delay", "asked", "answered", "waiting" }

AnswersCount ==
    \A c \in Chargers : pc[c] = "answered" => answer[c] >= stations[c] \/ c \in missed

Inv == TypeOK /\ ChangesAreRead /\ AnswersCount

-----------------------------------------------------------------------------
(* Types                                                                   *)

\* A charger is a reader, and the slots are neither chargers nor each other's.
LEMMA ReadersApart ==
    /\ Chargers \subseteq Readers /\ RefreshNow \in Readers /\ Presses \subseteq Readers
    /\ RefreshNow \notin Chargers
    /\ \A p \in Presses : p \notin Chargers
    /\ NoCharger \notin Chargers
BY CapabilitiesAssumption DEF Readers

\* Every reader that is not idle reads a charger, a scheduled one its own.
LEMMA ReadsACharger ==
    ASSUME TypeOK, NEW r \in Readers, pc[r] # "idle"
    PROVE  /\ station[r] \in Chargers
           /\ r \in Chargers => station[r] = r
BY DEF TypeOK

LEMMA EndReadTypes ==
    ASSUME TypeOK, NEW r \in Readers, EndRead(r)
    PROVE  /\ pc' \in [ Readers -> Pcs ]
           /\ station' \in [ Readers -> Chargers \cup {NoCharger} ]
           /\ pending' \subseteq Chargers
           /\ \A q \in Readers : station'[q] = NoCharger <=> pc'[q] = "idle"
           /\ \A c \in Chargers : (c \in pending' <=> pc'[c] # "idle")
                                  /\ station'[c] \in {c, NoCharger}
BY ReadersApart DEF TypeOK, EndRead, Pcs

LEMMA CommitTypes ==
    ASSUME TypeOK, NEW r \in Readers, pc[r] # "idle", Commit(r)
    PROVE  /\ capabilities' \in Counts /\ best' \in Counts
           /\ \A c \in Chargers : capabilities'[c] <= best'[c]
<1>1. station[r] \in Chargers /\ answer[r] \in 0 .. MaxChanges /\ MaxChanges \in Nat
  BY ReadsACharger, CapabilitiesAssumption DEF TypeOK
<1>2. capabilities \in Counts /\ best \in Counts /\ \A c \in Chargers : capabilities[c] <= best[c]
  BY DEF TypeOK
<1> QED
  BY <1>1, <1>2 DEF Commit, Counts

LEMMA LearnTypes ==
    ASSUME TypeOK, NEW chargers \in SUBSET Chargers, Learn(chargers)
    PROVE  TypeOK'
<1> DEFINE learnt == { c \in chargers : stations[c] # portal[c] }
           new == learnt \ pending
<1>1. learnt \subseteq Chargers /\ MaxChanges \in Nat
  BY CapabilitiesAssumption
<1>2. Schedule(learnt) /\ stations' = [ c \in Chargers |-> IF c \in learnt THEN portal[c] ELSE stations[c] ]
      /\ UNCHANGED << portal, cache, answer, left >>
  BY DEF Learn
<1> HIDE DEF learnt
<1>3. stations' \in Counts /\ \A c \in Chargers : stations'[c] <= portal[c]
  BY <1>1, <1>2 DEF TypeOK, Counts
<1>4. /\ pending' = pending \cup new
      /\ pc' = [ r \in Readers |-> IF r \in new THEN "delay" ELSE pc[r] ]
      /\ station' = [ r \in Readers |-> IF r \in new THEN r ELSE station[r] ]
      /\ missed' \subseteq Chargers
  BY <1>1, <1>2 DEF Schedule, TypeOK
<1>5. /\ pc' \in [ Readers -> Pcs ]
      /\ station' \in [ Readers -> Chargers \cup {NoCharger} ]
      /\ pending' \subseteq Chargers
      /\ \A q \in Readers : station'[q] = NoCharger <=> pc'[q] = "idle"
      /\ \A c \in Chargers : (c \in pending' <=> pc'[c] # "idle")
                             /\ station'[c] \in {c, NoCharger}
  BY <1>1, <1>4, ReadersApart DEF TypeOK, Pcs
<1>6. /\ portal' = portal /\ capabilities' = capabilities /\ best' = best
      /\ answer' = answer /\ left' = left
  BY <1>2 DEF cache
<1>7. missed' \subseteq Chargers
  BY <1>4
<1> QED
  BY <1>3, <1>5, <1>6, <1>7 DEF TypeOK, Pcs

LEMMA Typed == TypeOK /\ [Next]_vars => TypeOK'
<1> SUFFICES ASSUME TypeOK, [Next]_vars PROVE TypeOK'
  OBVIOUS
<1> USE ReadersApart
<1>1. MaxChanges \in Nat \ {0}
  BY CapabilitiesAssumption
<1>2. ASSUME NEW c \in Chargers, Change(c) PROVE TypeOK'
  <2>1. portal' \in Counts /\ \A d \in Chargers : stations[d] <= portal'[d]
    BY <1>1, <1>2 DEF Change, TypeOK, Counts
  <2> QED
    BY <1>2, <2>1 DEF Change, TypeOK, cache
<1>3. ASSUME NEW r \in Chargers, Ask(r) PROVE TypeOK'
  BY <1>3 DEF Ask, TypeOK, cache
<1>4. ASSUME NEW p \in Presses, NEW c \in Chargers, Press(p, c) PROVE TypeOK'
  BY <1>4 DEF Press, TypeOK, cache
<1>5. CASE BeginRefreshNow
  BY <1>5 DEF BeginRefreshNow, TypeOK, cache
<1>6. ASSUME NEW c \in Chargers, AskNow(c) PROVE TypeOK'
  BY <1>6 DEF AskNow, TypeOK, cache
<1>7. ASSUME NEW c \in Chargers, Skip(c) PROVE TypeOK'
  BY <1>7, EndReadTypes DEF Skip, TypeOK, cache, Pcs
<1>8. ASSUME NEW c \in Chargers, SkipNow(c) PROVE TypeOK'
  BY <1>8 DEF SkipNow, TypeOK, cache
<1>9. ASSUME NEW r \in Readers, Answer(r) PROVE TypeOK'
  <2>1. answer' \in [ Readers -> 0 .. MaxChanges ]
    BY <1>9, ReadsACharger DEF Answer, TypeOK, Counts
  <2>2. missed' \subseteq Chargers
    BY <1>9 DEF Answer, TypeOK
  <2> QED
    BY <1>9, <2>1, <2>2 DEF Answer, TypeOK, cache
<1>10. ASSUME NEW r \in Readers, Fails(r) PROVE TypeOK'
  BY <1>10, EndReadTypes DEF Fails, TypeOK, cache, Pcs
<1>11. ASSUME NEW r \in Readers, Read(r) \/ EndPress(r) PROVE TypeOK'
  <2>1. Commit(r) /\ EndRead(r) /\ pc[r] # "idle" /\ UNCHANGED << portal, stations, answer, left, missed >>
    BY <1>11 DEF Read, EndPress
  <2>2. /\ capabilities' \in Counts /\ best' \in Counts
        /\ \A c \in Chargers : capabilities'[c] <= best'[c]
    BY <2>1, CommitTypes
  <2> QED
    BY <2>1, <2>2, EndReadTypes DEF TypeOK, Pcs
<1>12. ASSUME NEW p \in Presses, Started(p) PROVE TypeOK'
  BY <1>12 DEF Started, TypeOK, cache
<1>13. CASE UNCHANGED vars
  BY <1>13 DEF vars, TypeOK
<1>14. ASSUME NEW chargers \in SUBSET Chargers, Learn(chargers) PROVE TypeOK'
  BY <1>14, LearnTypes
<1>15. \A c \in Chargers : {c} \in SUBSET Chargers
  OBVIOUS
<1> QED
  BY <1>2, <1>3, <1>4, <1>5, <1>6, <1>7, <1>8, <1>9, <1>10, <1>11, <1>12, <1>13, <1>14, <1>15
     DEF Next, ScheduledStep, NowStep, PressStep

-----------------------------------------------------------------------------
(* Changes                                                                 *)

\* What the cache has taken account of at best only grows, by the answer
\* committed.
LEMMA CommitCounts ==
    ASSUME TypeOK, NEW r \in Readers, pc[r] # "idle", Commit(r)
    PROVE  /\ \A c \in Chargers : best'[c] >= best[c]
           /\ best'[station[r]] >= answer[r]
<1>1. station[r] \in Chargers /\ answer[r] \in Nat
  BY ReadsACharger DEF TypeOK
<1>2. best \in [ Chargers -> Nat ]
  BY DEF TypeOK, Counts
<1> QED
  BY <1>1, <1>2 DEF Commit

LEMMA LearnCounts ==
    ASSUME Inv, NEW chargers \in SUBSET Chargers, Learn(chargers)
    PROVE  ChangesAreRead' /\ AnswersCount'
<1> DEFINE learnt == { c \in chargers : stations[c] # portal[c] }
<1>1. /\ Schedule(learnt)
      /\ stations' = [ c \in Chargers |-> IF c \in learnt THEN portal[c] ELSE stations[c] ]
      /\ best' = best /\ answer' = answer
  BY DEF Learn, cache
<1>2. learnt \subseteq Chargers
  OBVIOUS
<1> HIDE DEF learnt
<1>3. /\ pending' = pending \cup learnt
      /\ \A c \in Chargers : c \in learnt /\ pc[c] = "answered" => c \in missed'
      /\ missed \subseteq missed'
      /\ \A c \in Chargers : pc'[c] = IF c \in learnt \ pending THEN "delay" ELSE pc[c]
  BY <1>1, <1>2, ReadersApart DEF Schedule
<1> QED
  BY <1>1, <1>2, <1>3 DEF Inv, ChangesAreRead, AnswersCount

LEMMA Counted == Inv /\ [Next]_vars => ChangesAreRead' /\ AnswersCount'
<1> DEFINE Good == ChangesAreRead' /\ AnswersCount'
<1> SUFFICES ASSUME Inv, [Next]_vars PROVE Good
  OBVIOUS
<1> USE ReadersApart
<1>0. TypeOK /\ ChangesAreRead /\ AnswersCount
  BY DEF Inv
<1>1. /\ portal \in [ Chargers -> Nat ] /\ stations \in [ Chargers -> Nat ]
      /\ best \in [ Chargers -> Nat ]
      /\ pc \in [ Readers -> Pcs ] /\ answer \in [ Readers -> Nat ]
      /\ \A c \in Chargers : (c \in pending <=> pc[c] # "idle") /\ stations[c] <= portal[c]
  BY <1>0 DEF TypeOK, Counts, Pcs
<1>2. ASSUME UNCHANGED << stations, best, pending, answer, missed >>,
             \A c \in Chargers : pc'[c] = "answered" => pc[c] = "answered"
      PROVE  Good
  BY <1>0, <1>2 DEF ChangesAreRead, AnswersCount
<1>3. ASSUME NEW c \in Chargers, Skip(c) PROVE Good
  BY <1>0, <1>1, <1>3 DEF Skip, EndRead, ChangesAreRead, AnswersCount, cache
<1>4. ASSUME NEW r \in Readers, Answer(r) PROVE Good
  <2>1. r \in Chargers => r \in pending /\ station[r] = r
    BY <1>0, <1>1, <1>4, ReadsACharger DEF Answer
  <2>2. ChangesAreRead'
    BY <1>0, <1>4, <2>1 DEF Answer, ChangesAreRead, cache
  <2>3. AnswersCount'
    <3> SUFFICES ASSUME NEW c \in Chargers, pc'[c] = "answered"
                 PROVE  answer'[c] >= stations'[c] \/ c \in missed'
      BY DEF AnswersCount
    <3>1. CASE c = r
      BY <1>1, <1>4, <2>1, <3>1 DEF Answer
    <3>2. CASE c # r
      BY <1>0, <1>1, <1>4, <3>2 DEF Answer, AnswersCount
    <3> QED
      BY <3>1, <3>2
  <2> QED
    BY <2>2, <2>3
<1>5. ASSUME NEW r \in Readers, Fails(r) PROVE Good
  BY <1>0, <1>1, <1>5 DEF Fails, EndRead, ChangesAreRead, AnswersCount, cache
<1>6. ASSUME NEW r \in Readers, Read(r) \/ EndPress(r) PROVE Good
  <2>1. /\ Commit(r) /\ EndRead(r) /\ pc[r] # "idle" /\ (r \in Chargers => pc[r] = "answered")
        /\ UNCHANGED << stations, answer, missed >>
    BY <1>6 DEF Read, EndPress
  <2>2. /\ \A c \in Chargers : best'[c] >= best[c]
        /\ best'[station[r]] >= answer[r] /\ best' \in [ Chargers -> Nat ]
    BY <1>0, <2>1, CommitCounts, CommitTypes DEF Counts
  <2>3. ASSUME NEW c \in Chargers, stations'[c] > best'[c] PROVE c \in pending' \cup missed'
    <3>1. CASE c = r
      <4>1. station[r] = r
        BY <1>0, <2>1, <3>1, ReadsACharger
      <4> QED
        BY <1>0, <1>1, <2>1, <2>2, <2>3, <3>1, <4>1 DEF AnswersCount
    <3>2. CASE c # r
      <4>1. stations[c] > best[c]
        BY <1>1, <2>1, <2>2, <2>3
      <4> QED
        BY <1>0, <2>1, <3>2, <4>1 DEF ChangesAreRead, EndRead
    <3> QED
      BY <3>1, <3>2
  <2>4. AnswersCount'
    BY <1>0, <1>1, <2>1 DEF AnswersCount, EndRead
  <2> QED
    BY <2>3, <2>4 DEF ChangesAreRead
<1>7. \/ \E c \in Chargers : Change(c) \/ Ask(c) \/ AskNow(c) \/ SkipNow(c)
      \/ BeginRefreshNow
      \/ \E p \in Presses : Started(p) \/ \E c \in Chargers : Press(p, c)
      \/ UNCHANGED vars
      => Good
  <2> HIDE DEF Good
  <2>1. ASSUME NEW c \in Chargers, Change(c) \/ Ask(c) \/ AskNow(c) \/ SkipNow(c) PROVE Good
    BY <1>1, <1>2, <2>1 DEF Change, Ask, AskNow, SkipNow, cache
  <2>2. ASSUME NEW p \in Presses, Started(p) \/ \E c \in Chargers : Press(p, c) PROVE Good
    BY <1>1, <1>2, <2>2 DEF Started, Press, cache
  <2>3. CASE BeginRefreshNow \/ UNCHANGED vars
    BY <1>2, <2>3 DEF BeginRefreshNow, vars, cache
  <2> QED
    BY <2>1, <2>2, <2>3
<1>8. ASSUME NEW chargers \in SUBSET Chargers, Learn(chargers) PROVE Good
  BY <1>8, LearnCounts
<1>9. \A c \in Chargers : {c} \in SUBSET Chargers
  OBVIOUS
<1> HIDE DEF Good
<1> QED
  BY <1>3, <1>4, <1>5, <1>6, <1>7, <1>8, <1>9 DEF Next, ScheduledStep, NowStep, PressStep

-----------------------------------------------------------------------------
LEMMA InvInit == Init => Inv
<1> SUFFICES ASSUME Init PROVE Inv
  OBVIOUS
<1>1. TypeOK
  BY CapabilitiesAssumption DEF Init, TypeOK, Counts, Readers
<1>2. ChangesAreRead /\ AnswersCount
  BY ReadersApart DEF Init, ChangesAreRead, AnswersCount
<1> QED
  BY <1>1, <1>2 DEF Inv

LEMMA InvNext == Inv /\ [Next]_vars => Inv'
BY Typed, Counted DEF Inv

\* A charger is pending exactly while its own scheduled read is under way, a
\* reader that is not idle reads a charger, and the cache never takes account
\* of more than it has at best (_capabilities_pending).
THEOREM CapabilitiesAreTyped == Spec => []TypeOK
BY InvInit, InvNext, PTL DEF Spec, Inv

\* A change the coordinator learnt of is taken account of by the cache, or a
\* read is pending, or the last one was skipped, failed or answered too early
\* (_schedule_capabilities, _refresh_capabilities_later).
THEOREM ChangesAreReadAlways == Spec => []ChangesAreRead
BY InvInit, InvNext, PTL DEF Spec, Inv

-----------------------------------------------------------------------------
(* The detail refresh                                                      *)

\* The chargers before a due one that were refreshed since it became due.
Since(s) == { d \in 1 .. s - 1 : refreshed[d] + DETAIL_REFRESH <= refreshed[s] }

\* How long a charger has been due: no longer than it takes to refresh those
\* before it that had their turn, and the one that has it now, each after as
\* many cycles that end early as there can be.
InTurn ==
    data => \A s \in Stations : refreshed[s] >= DETAIL_REFRESH =>
        refreshed[s] < DETAIL_REFRESH + (MaxAborts + 1) * Cardinality(Since(s)) + aborts

\* An hour is long enough for every charger to have its turn.
HourSuffices == N * (MaxAborts + 1) <= DETAIL_REFRESH

LEMMA Numbers ==
    /\ N \in Nat \ {0} /\ DETAIL_REFRESH \in Nat \ {0} /\ MaxAborts \in Nat
    /\ N * (MaxAborts + 1) \in Nat
    /\ Longest \in Nat /\ Never \in Nat /\ Never = Longest + 2
    /\ Longest = DETAIL_REFRESH + N * (MaxAborts + 1)
<1>1. N \in Nat \ {0} /\ DETAIL_REFRESH \in Nat \ {0} /\ MaxAborts \in Nat
  BY DetailAssumption
<1>2. N * (MaxAborts + 1) \in Nat
  BY <1>1
<1> QED
  BY <1>1, <1>2 DEF Longest, Never

\* Ages stay within what they are bounded by.
LEMMA AgedType ==
    ASSUME DetailTypeOK
    PROVE  /\ Aged \in [ Stations -> 0 .. Never ]
           /\ \A s \in Stations :
                /\ Aged[s] = Never <=> refreshed[s] = Never
                /\ refreshed[s] < Never - 1 => Aged[s] = refreshed[s] + 1
BY Numbers DEF DetailTypeOK, Aged

LEMMA DetailInitTyped == DetailInit => DetailTypeOK /\ PrimedWhole /\ InTurn
<1> SUFFICES ASSUME DetailInit PROVE DetailTypeOK /\ PrimedWhole /\ InTurn
  OBVIOUS
<1>1. /\ refreshed \in [ Stations -> 0 .. Never ] /\ ~Primed /\ data = FALSE
      /\ details = {} /\ aborts \in 0 .. MaxAborts
  BY Numbers DEF DetailInit, Primed
<1> QED
  BY <1>1 DEF DetailTypeOK, PrimedWhole, InTurn

\* The first cycle is the one that has chargers stamped; it stamps them all.
LEMMA CycleTyped ==
    ASSUME DetailTypeOK, PrimedWhole, Cycle
    PROVE  DetailTypeOK' /\ PrimedWhole'
<1> DEFINE due == StationsDue(Aged)
<1>1. PICK answered \in SUBSET due :
        /\ Swallowed(answered, due)
        /\ refreshed' = [ s \in Stations |-> IF s \in due THEN 0 ELSE Aged[s] ]
        /\ details' = details \cup answered
        /\ data' = TRUE /\ aborts' = 0
  BY DEF Cycle
<1>2. due \subseteq Stations
  BY DEF StationsDue, Due
<1>3. CASE data
  <2>1. PICK s \in Stations : refreshed[s] # Never
    BY <1>3 DEF DetailTypeOK, Primed
  <2>2. refreshed'[s] # Never
    BY <1>1, <2>1, AgedType, Numbers
  <2> HIDE DEF due
  <2> QED
    BY <1>1, <1>2, <1>3, <2>2, AgedType, Numbers DEF DetailTypeOK, PrimedWhole, Primed
<1>4. CASE ~data
  <2>1. \A s \in Stations : refreshed[s] = Never
    BY <1>4 DEF DetailTypeOK, Primed
  <2>2. \A s \in Stations : Aged[s] >= DETAIL_REFRESH
    BY <2>1, AgedType, Numbers
  <2>3. due = Stations
    BY <1>4, <2>2 DEF StationsDue, Due, DetailTypeOK
  <2>4. answered = Stations
    BY <1>1, <1>4, <2>3 DEF Swallowed
  <2> HIDE DEF due
  <2>5. 1 \in Stations
    BY Numbers DEF Stations
  <2>6. refreshed'[1] # Never
    BY <1>1, <2>3, <2>5, Numbers
  <2> QED
    BY <1>1, <2>3, <2>4, <2>5, <2>6, Numbers DEF DetailTypeOK, PrimedWhole, Primed
<1> QED
  BY <1>3, <1>4

LEMMA DetailNextTyped ==
    DetailTypeOK /\ PrimedWhole /\ [DetailNext]_detailVars => DetailTypeOK' /\ PrimedWhole'
<1> SUFFICES ASSUME DetailTypeOK, PrimedWhole, [DetailNext]_detailVars
             PROVE  DetailTypeOK' /\ PrimedWhole'
  OBVIOUS
<1>1. CASE Abort
  BY <1>1, AgedType, Numbers DEF Abort, DetailTypeOK, PrimedWhole, Primed
<1>2. CASE SetupFails
  BY <1>2, Numbers DEF SetupFails, DetailTypeOK, PrimedWhole, Primed
<1>3. CASE UNCHANGED detailVars
  BY <1>3 DEF detailVars, DetailTypeOK, PrimedWhole, Primed
<1> QED
  BY <1>1, <1>2, <1>3, CycleTyped DEF DetailNext

\* Of the chargers before one there are so many, and this is what they amount to.
LEMMA Turns ==
    ASSUME NEW s \in Stations, NEW S \in SUBSET (1 .. s - 1)
    PROVE  /\ IsFiniteSet(S) /\ Cardinality(S) \in Nat
           /\ (MaxAborts + 1) * Cardinality(S) \in Nat
           /\ (MaxAborts + 1) * Cardinality(S) + MaxAborts + 1 <= N * (MaxAborts + 1)
<1>1. IsFiniteSet(1 .. s - 1) /\ Cardinality(1 .. s - 1) = s - 1
  BY FS_Interval, Numbers DEF Stations
<1>2. IsFiniteSet(S) /\ Cardinality(S) <= s - 1
  BY <1>1, FS_Subset
<1>3. Cardinality(S) \in Nat
  BY <1>2, FS_CardinalityType
<1> DEFINE c == Cardinality(S)
           m == MaxAborts + 1
<1>4. c \in Nat /\ m \in Nat /\ c + 1 <= N /\ N \in Nat
  BY <1>2, <1>3, Numbers DEF Stations
<1> HIDE DEF c, m
<1>5. m * c \in Nat /\ m * c + m <= N * m
  BY <1>4
<1> QED
  BY <1>2, <1>3, <1>5, Numbers DEF c, m

\* One more of them has had its turn.
LEMMA OneMoreTurn ==
    ASSUME NEW s \in Stations, NEW S \in SUBSET (1 .. s - 1), NEW T \in SUBSET (1 .. s - 1),
           NEW f \in T \ S, S \subseteq T
    PROVE  (MaxAborts + 1) * Cardinality(S) + MaxAborts + 1 <= (MaxAborts + 1) * Cardinality(T)
<1>1. IsFiniteSet(S) /\ IsFiniteSet(T) /\ Cardinality(S) \in Nat /\ Cardinality(T) \in Nat
  BY Turns
<1>2. Cardinality(S \cup {f}) = Cardinality(S) + 1
  BY <1>1, FS_AddElement
<1>3. S \cup {f} \in SUBSET T
  OBVIOUS
<1>4. Cardinality(S) + 1 <= Cardinality(T)
  BY <1>1, <1>2, <1>3, FS_Subset
<1> DEFINE c == Cardinality(S)
           d == Cardinality(T)
           m == MaxAborts + 1
<1>5. c \in Nat /\ d \in Nat /\ m \in Nat /\ c + 1 <= d
  BY <1>1, <1>4, Numbers
<1> HIDE DEF c, d, m
<1>6. m * c + m <= m * d
  <2>1. m * (c + 1) <= m * d /\ m * (c + 1) = m * c + m
    BY <1>5
  <2> QED
    BY <2>1
<1>7. m * c \in Nat /\ m * d \in Nat
  BY <1>5
<1> QED
  BY <1>6, <1>7, Numbers DEF c, d, m

\* So a charger is refreshed in an hour and the turns of the others.
LEMMA InTurnIsHourly ==
    ASSUME DetailTypeOK, InTurn, data, NEW s \in Stations
    PROVE  /\ refreshed[s] \in Nat
           /\ refreshed[s] < DETAIL_REFRESH + N * (MaxAborts + 1)
           /\ refreshed[s] < Longest /\ Aged[s] = refreshed[s] + 1
<1>1. refreshed[s] \in 0 .. Never /\ aborts \in 0 .. MaxAborts
  BY DEF DetailTypeOK
<1>2. Since(s) \in SUBSET (1 .. s - 1)
  BY DEF Since
<1> DEFINE turns == (MaxAborts + 1) * Cardinality(Since(s))
<1>3. turns \in Nat /\ turns + MaxAborts + 1 <= N * (MaxAborts + 1)
  BY <1>2, Turns
<1>4. refreshed[s] >= DETAIL_REFRESH => refreshed[s] < DETAIL_REFRESH + turns + aborts
  BY DEF InTurn
<1> HIDE DEF turns
<1>5. refreshed[s] < DETAIL_REFRESH + N * (MaxAborts + 1)
  BY <1>1, <1>3, <1>4, Numbers
<1>6. refreshed[s] < Longest
  BY <1>5, Numbers
<1> QED
  BY <1>1, <1>5, <1>6, AgedType, Numbers

\* A set of naturals has a least element.
LEMMA LeastNat ==
    ASSUME NEW T \in SUBSET Nat, T # {}
    PROVE  \E x \in T : \A y \in T : x <= y
<1> DEFINE R == OpToRel(<, Nat)
<1>1. IsWellFoundedOn(R, Nat)
  BY NatLessThanWellFounded
<1> HIDE DEF R
<1>2. PICK x \in T : \A y \in T : ~ (<< y, x >> \in R)
  BY <1>1, WFMin
<1>3. \A y \in T : y < x => << y, x >> \in R
  <2> TAKE y \in T
  <2> HAVE y < x
  <2>1. << y, x >> \in Nat \X Nat
    OBVIOUS
  <2> QED
    BY <2>1 DEF R, OpToRel
<1>4. \A y \in T : y \in Nat /\ x \in Nat
  OBVIOUS
<1>5. \A y \in T : ~(y < x)
  BY <1>2, <1>3
<1>6. \A y \in T : x <= y
  BY <1>4, <1>5
<1> QED
  BY <1>6

\* A cycle that ends early takes nobody's turn.
LEMMA AbortInTurn ==
    ASSUME DetailTypeOK, InTurn, Abort
    PROVE  InTurn'
<1> SUFFICES ASSUME NEW s \in Stations, refreshed'[s] >= DETAIL_REFRESH
             PROVE  refreshed'[s] < DETAIL_REFRESH + (MaxAborts + 1) * Cardinality(Since(s)') + aborts'
  BY DEF InTurn
<1>1. data /\ refreshed' = Aged /\ aborts' = aborts + 1 /\ aborts \in Nat
  BY Numbers DEF Abort, DetailTypeOK
<1>2. \A d \in Stations : refreshed[d] \in Nat /\ refreshed'[d] = refreshed[d] + 1
  BY <1>1, InTurnIsHourly
<1>3. Since(s) \in SUBSET (1 .. s - 1) /\ Since(s)' \in SUBSET (1 .. s - 1)
  BY DEF Since
<1>4. \A d \in 1 .. s - 1 : d \in Stations
  BY Numbers DEF Stations
<1>5. CASE refreshed[s] >= DETAIL_REFRESH
  <2>1. Since(s)' = Since(s)
    BY <1>2, <1>4, Numbers DEF Since
  <2>2. refreshed[s] < DETAIL_REFRESH + (MaxAborts + 1) * Cardinality(Since(s)) + aborts
    BY <1>1, <1>5 DEF InTurn
  <2>3. (MaxAborts + 1) * Cardinality(Since(s)) \in Nat
    BY <1>3, Turns
  <2> DEFINE turns == (MaxAborts + 1) * Cardinality(Since(s))
  <2>4. (MaxAborts + 1) * Cardinality(Since(s)') = turns
    BY <2>1
  <2> HIDE DEF turns
  <2> QED
    BY <1>1, <1>2, <2>2, <2>3, <2>4, Numbers DEF turns
<1>6. CASE ~(refreshed[s] >= DETAIL_REFRESH)
  <2>1. (MaxAborts + 1) * Cardinality(Since(s)') \in Nat
    BY <1>3, Turns
  <2>2. refreshed'[s] = DETAIL_REFRESH
    BY <1>2, <1>6, Numbers
  <2> QED
    BY <1>1, <2>1, <2>2, Numbers
<1> QED
  BY <1>5, <1>6

\* A cycle refreshes one that is due, or none is: whoever goes on waiting does
\* so for one that had not had its turn.
LEMMA CycleInTurn ==
    ASSUME HourSuffices, DetailTypeOK, InTurn, data, Cycle
    PROVE  InTurn'
<1> SUFFICES ASSUME NEW s \in Stations, refreshed'[s] >= DETAIL_REFRESH
             PROVE  refreshed'[s] < DETAIL_REFRESH + (MaxAborts + 1) * Cardinality(Since(s)') + aborts'
  BY DEF InTurn
<1> DEFINE due == StationsDue(Aged)
<1>1. /\ refreshed' = [ d \in Stations |-> IF d \in due THEN 0 ELSE Aged[d] ]
      /\ aborts' = 0
  BY DEF Cycle
<1>2. \A d \in Stations : refreshed[d] \in Nat /\ Aged[d] = refreshed[d] + 1
  BY InTurnIsHourly
<1>3. due = { d \in Due(Aged) : \A e \in Due(Aged) : d <= e }
  BY DEF DetailTypeOK, StationsDue
<1>4. Due(Aged) = { d \in Stations : refreshed[d] + 1 >= DETAIL_REFRESH }
  BY <1>2 DEF Due
<1>5. s \notin due /\ refreshed'[s] = refreshed[s] + 1 /\ s \in Due(Aged)
  <2> HIDE DEF due
  <2>1. s \notin due
    BY <1>1, Numbers
  <2> QED
    BY <1>1, <1>2, <1>4, <2>1
<1>6. PICK f \in Due(Aged) : f \in due
  <2>1. Due(Aged) \in SUBSET Nat /\ Due(Aged) # {}
    BY <1>4, <1>5, Numbers DEF Stations
  <2>2. \E f \in Due(Aged) : \A e \in Due(Aged) : f <= e
    BY <2>1, LeastNat
  <2> QED
    BY <1>3, <2>2
<1>7. f \in Stations /\ f \in 1 .. s - 1 /\ refreshed'[f] = 0 /\ refreshed[f] + 1 >= DETAIL_REFRESH
  <2>1. f \in Stations /\ refreshed[f] + 1 >= DETAIL_REFRESH
    BY <1>4
  <2>2. f <= s /\ f # s
    BY <1>3, <1>5, <1>6
  <2>3. refreshed'[f] = 0
    BY <1>1, <1>6, <2>1
  <2> QED
    BY <2>1, <2>2, <2>3, Numbers DEF Stations
<1>8. Since(s) \in SUBSET (1 .. s - 1) /\ Since(s)' \in SUBSET (1 .. s - 1)
  BY DEF Since
<1>9. f \in Since(s)'
  BY <1>7, Numbers DEF Since
<1>10. \A d \in 1 .. s - 1 : d \in Stations /\ refreshed'[d] <= refreshed[d] + 1 /\ refreshed'[d] \in Nat
  <2> HIDE DEF due
  <2> SUFFICES ASSUME NEW d \in 1 .. s - 1
               PROVE  d \in Stations /\ refreshed'[d] <= refreshed[d] + 1 /\ refreshed'[d] \in Nat
    OBVIOUS
  <2>1. d \in Stations
    BY Numbers DEF Stations
  <2> QED
    BY <1>1, <1>2, <2>1
<1> HIDE DEF due
<1>11. CASE refreshed[s] >= DETAIL_REFRESH
  <2>1. refreshed[s] < DETAIL_REFRESH + (MaxAborts + 1) * Cardinality(Since(s)) + aborts
    BY <1>11 DEF InTurn
  <2>2. Since(s) \subseteq Since(s)'
    BY <1>2, <1>5, <1>10, Numbers DEF Since
  <2>3. f \notin Since(s)
    <3>1. refreshed[s] < DETAIL_REFRESH + N * (MaxAborts + 1)
      BY InTurnIsHourly
    <3>2. Since(s) \subseteq Stations
      BY <1>10 DEF Since
    <3>3. ~(refreshed[f] + DETAIL_REFRESH <= refreshed[s])
      <4> DEFINE hour == N * (MaxAborts + 1)
      <4>1. hour \in Nat /\ hour <= DETAIL_REFRESH /\ refreshed[s] + 1 < DETAIL_REFRESH + hour
        <5>1. refreshed[s] < DETAIL_REFRESH + (MaxAborts + 1) * Cardinality(Since(s)) + aborts
          BY <2>1
        <5>2. (MaxAborts + 1) * Cardinality(Since(s)) + MaxAborts + 1 <= hour
              /\ (MaxAborts + 1) * Cardinality(Since(s)) \in Nat
          BY <1>8, Turns
        <5>3. aborts \in 0 .. MaxAborts
          BY DEF DetailTypeOK
        <5>4. hour \in Nat /\ hour <= DETAIL_REFRESH
          BY Numbers DEF HourSuffices
        <5> HIDE DEF hour
        <5> DEFINE turns == (MaxAborts + 1) * Cardinality(Since(s))
        <5>5. /\ refreshed[s] < DETAIL_REFRESH + turns + aborts /\ turns \in Nat
              /\ turns + MaxAborts + 1 <= hour
          BY <5>1, <5>2
        <5> HIDE DEF turns
        <5> QED
          BY <1>2, <5>3, <5>4, <5>5, Numbers
      <4> HIDE DEF hour
      <4> QED
        BY <1>2, <1>7, <4>1, Numbers
    <3> QED
      BY <3>3 DEF Since
  <2>4. (MaxAborts + 1) * Cardinality(Since(s)) + MaxAborts + 1
          <= (MaxAborts + 1) * Cardinality(Since(s)')
    BY <1>8, <1>9, <2>2, <2>3, OneMoreTurn
  <2>5. (MaxAborts + 1) * Cardinality(Since(s)) \in Nat
        /\ (MaxAborts + 1) * Cardinality(Since(s)') \in Nat
    BY <1>8, Turns
  <2> DEFINE turns == (MaxAborts + 1) * Cardinality(Since(s))
             more == (MaxAborts + 1) * Cardinality(Since(s)')
  <2>6. /\ turns \in Nat /\ more \in Nat /\ turns + MaxAborts + 1 <= more
        /\ refreshed[s] < DETAIL_REFRESH + turns + aborts
    BY <2>1, <2>4, <2>5
  <2>7. aborts \in 0 .. MaxAborts
    BY DEF DetailTypeOK
  <2> HIDE DEF turns, more
  <2>8. refreshed'[s] < DETAIL_REFRESH + more + aborts'
    BY <1>1, <1>2, <1>5, <2>6, <2>7, Numbers
  <2> QED
    BY <2>8 DEF more
<1>12. CASE ~(refreshed[s] >= DETAIL_REFRESH)
  <2>1. refreshed'[s] = DETAIL_REFRESH
    BY <1>2, <1>5, <1>12, Numbers
  <2>2. (MaxAborts + 1) * Cardinality({}) + MaxAborts + 1 <= (MaxAborts + 1) * Cardinality(Since(s)')
    BY <1>8, <1>9, OneMoreTurn
  <2>3. (MaxAborts + 1) * Cardinality({}) \in Nat /\ (MaxAborts + 1) * Cardinality(Since(s)') \in Nat
    BY <1>8, Turns
  <2> DEFINE none == (MaxAborts + 1) * Cardinality({})
             more == (MaxAborts + 1) * Cardinality(Since(s)')
  <2>4. none \in Nat /\ more \in Nat /\ none + MaxAborts + 1 <= more
    BY <2>2, <2>3
  <2> HIDE DEF none, more
  <2>5. refreshed'[s] < DETAIL_REFRESH + more + aborts'
    BY <1>1, <2>1, <2>4, Numbers
  <2> QED
    BY <2>5 DEF more
<1> QED
  BY <1>11, <1>12

\* The first cycle refreshes them all.
LEMMA FirstCycleInTurn ==
    ASSUME DetailTypeOK, ~data, Cycle
    PROVE  InTurn'
<1> DEFINE due == StationsDue(Aged)
<1>1. refreshed' = [ s \in Stations |-> IF s \in due THEN 0 ELSE Aged[s] ]
  BY DEF Cycle
<1>2. \A s \in Stations : refreshed[s] = Never
  BY DEF DetailTypeOK, Primed
<1>3. \A s \in Stations : Aged[s] >= DETAIL_REFRESH
  BY <1>2, AgedType, Numbers
<1>4. due = Stations
  BY <1>3 DEF StationsDue, Due, DetailTypeOK
<1> HIDE DEF due
<1>5. \A s \in Stations : ~(refreshed'[s] >= DETAIL_REFRESH)
  BY <1>1, <1>4, Numbers
<1> QED
  BY <1>5 DEF InTurn

LEMMA InTurnNext ==
    HourSuffices /\ DetailTypeOK /\ InTurn /\ [DetailNext]_detailVars => InTurn'
<1> SUFFICES ASSUME HourSuffices, DetailTypeOK, InTurn, [DetailNext]_detailVars PROVE InTurn'
  OBVIOUS
<1>1. CASE SetupFails
  BY <1>1 DEF SetupFails, InTurn
<1>2. CASE UNCHANGED detailVars
  BY <1>2 DEF detailVars, InTurn, Since
<1>3. CASE Cycle
  <2>1. data \in BOOLEAN
    BY DEF DetailTypeOK
  <2> QED
    BY <1>3, <2>1, CycleInTurn, FirstCycleInTurn
<1> QED
  BY <1>1, <1>2, <1>3, AbortInTurn DEF DetailNext

\* A coordinator has stamps from the cycle that publishes its first snapshot,
\* and none before it (_refresh_optional).
THEOREM DetailIsTyped == DetailSpec => []DetailTypeOK
BY DetailInitTyped, DetailNextTyped, PTL DEF DetailSpec

\* The first snapshot published has the detail of every charger, whichever of
\* the requests fail and however often setup is retried (_refresh_optional,
\* _stations_due).
THEOREM TheFirstIsWhole == DetailSpec => []PrimedWhole
BY DetailInitTyped, DetailNextTyped, PTL DEF DetailSpec

\* With one detail per cycle every charger is still refreshed once an hour, and
\* the turns of the others, as long as the cycles of an hour are enough for a
\* turn each (_stations_due).  Otherwise it need not be.
THEOREM EachIsRefreshedHourly == HourSuffices => (DetailSpec => []RefreshedHourly)
<1> SUFFICES ASSUME HourSuffices PROVE DetailSpec => []RefreshedHourly
  OBVIOUS
<1>1. DetailTypeOK /\ InTurn => RefreshedHourly
  <2> SUFFICES ASSUME DetailTypeOK, InTurn, data, NEW s \in Stations
               PROVE  refreshed[s] <= Longest
    BY DEF RefreshedHourly
  <2> QED
    BY InTurnIsHourly, Numbers
<1>2. InTurn /\ DetailTypeOK /\ [DetailNext]_detailVars => InTurn'
  BY InTurnNext
<1> QED
  BY <1>1, <1>2, DetailInitTyped, DetailIsTyped, PTL DEF DetailSpec
=============================================================================
