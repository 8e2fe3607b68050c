------------------------ MODULE SessionTrackerProofs ------------------------
(***************************************************************************)
(* What the session tracker promises, for any sockets, statuses, commands  *)
(* and windows; and, with the history variables of SessionHistory, what    *)
(* its few fields remember of all it was told.                             *)
(*                                                                         *)
(* The history only watches: with it the tracker is still the tracker, so  *)
(* that the theorems of the first part hold and are used in the second.    *)
(***************************************************************************)
EXTENDS SessionHistory, TLAPS

Ended == [ session : Sockets \cup {None}, held_back : SUBSET Sockets,
           freed : BOOLEAN, reused : BOOLEAN ]

\* An age that grows stays within its window.
LEMMA OlderWithin ==
    ASSUME NEW most \in Nat, NEW age \in 0 .. most
    PROVE  Older(age, most) \in 0 .. most
BY DEF Older

\* A push leaves a snapshot of the same sockets (Station.with_push).
LEMMA WithPushType ==
    ASSUME NEW st \in Snapshots, NEW socket, NEW status \in Statuses \cup {None}
    PROVE  with_push(st, socket, status) \in Snapshots
BY DEF with_push, Snapshots

\* What is recorded of an end is one (_set_active).
LEMMA RecordedEndType ==
    ASSUME TypeOK, NEW a
    PROVE  RecordedEnd(a) \in Ended
BY DEF TypeOK, RecordedEnd, Ends, NoEnd, Ended, Available

\* Following the sockets keeps an end one (_follow_held_back).
LEMMA FollowType ==
    ASSUME NEW end \in Ended, NEW st \in Snapshots
    PROVE  follow_held_back(end, st) \in Ended
<1>1. CASE end.session = None
  BY <1>1 DEF follow_held_back, Ended
<1>2. CASE end.session # None
  <2>1. end.session \in Sockets /\ end.held_back \subseteq Sockets
    BY <1>2 DEF Ended
  <2>2. end.freed \in BOOLEAN /\ end.reused \in BOOLEAN
    BY DEF Ended
  <2> QED
    BY <1>2, <2>1, <2>2 DEF follow_held_back, Ended
<1> QED
  BY <1>1, <1>2

\* Both paths that see chargers keep the types they write.
LEMMA ObservedType ==
    ASSUME TypeOK, NEW a \in Sockets \cup {None}, NEW st \in Snapshots, Observed(a, st)
    PROVE  /\ active' \in Sockets \cup {None}
           /\ last_end' \in Ended
           /\ stations' \in Snapshots
BY RecordedEndType, FollowType DEF Observed

LEMMA NextTypeOK == TypeOK /\ [Next]_vars => TypeOK'
<1> SUFFICES ASSUME TypeOK, [Next]_vars PROVE TypeOK'
  OBVIOUS
<1> USE TrustAssumption, WindowAssumption
<1>1. CASE Poll
  <2>1. PICK found \in Sockets \cup {None}, st \in Snapshots : Polled(found, st)
    BY <1>1 DEF Poll
  <2> DEFINE a == IF found # None /\ found = pushed_end.socket /\ TrustedEnd THEN None ELSE found
  <2>2. Observed(a, st) /\ a \in Sockets \cup {None}
    BY <2>1 DEF Polled
  <2>3. /\ active' \in Sockets \cup {None}
        /\ last_end' \in Ended
        /\ stations' \in Snapshots
    BY <2>2, ObservedType
  <2>4. pushed_end' \in [ socket : Sockets \cup {None}, age : 0 .. PUSHED_END_TRUST ]
    BY <2>1 DEF Polled, TypeOK, NoPushedEnd
  <2>5. intents' \in SUBSET Intents
    BY <2>1 DEF Polled, RereadIf, Intents
  <2> QED
    BY <2>1, <2>3, <2>4, <2>5 DEF Polled, TypeOK, Ended
<1>2. CASE StatusPush
  <2>1. PICK socket \in Sockets \cup {None}, status \in Statuses \cup {None},
             mine \in BOOLEAN, before \in Snapshots :
               StatusPushed(socket, status, mine, before)
    BY <1>2 DEF StatusPush
  <2> DEFINE after == IF mine THEN with_push(before, socket, status) ELSE before
  <2>2. after \in Snapshots
    BY WithPushType
  <2>3. PICK a \in Sockets \cup {None} : Observed(a, after) /\ a \in {None, active}
    BY <2>1 DEF StatusPushed, TypeOK
  <2>4. /\ active' \in Sockets \cup {None}
        /\ last_end' \in Ended
        /\ stations' \in Snapshots
    BY <2>2, <2>3, ObservedType
  <2>5. pushed_end' \in [ socket : Sockets \cup {None}, age : 0 .. PUSHED_END_TRUST ]
    BY <2>1 DEF StatusPushed, TypeOK, NoPushedEnd
  <2>6. intents' \in SUBSET Intents
    BY <2>1 DEF StatusPushed, RereadIf, Intents
  <2> QED
    BY <2>1, <2>4, <2>5, <2>6 DEF StatusPushed, TypeOK, Ended
<1>3. CASE EstimatePushed
  BY <1>3 DEF EstimatePushed, TypeOK, Intents
<1>4. CASE StartOrStop
  BY <1>4 DEF StartOrStop, CommandStarted, TypeOK, Intents
<1>5. CASE Finish
  <2>1. PICK c \in Commands, rejected \in BOOLEAN : CommandFinished(c, rejected)
    BY <1>5 DEF Finish
  <2>2. running' = [ running EXCEPT ![c] = NotRunning ] /\ intents' = {}
    BY <2>1 DEF CommandFinished
  <2>3. last_command' \in [ command : {"none", "start", "stop"}, socket : Sockets \cup {None},
                            rejected : BOOLEAN, age : 0 .. OWN_START_WINDOW ]
    BY <2>1 DEF CommandFinished, TypeOK
  <2> QED
    BY <2>1, <2>2, <2>3 DEF CommandFinished, NotRunning, TypeOK
<1>6. CASE Tick
  <2>1. pushed_end' \in [ socket : Sockets \cup {None}, age : 0 .. PUSHED_END_TRUST ]
    BY <1>6, OlderWithin DEF Tick, TypeOK
  <2>2. running' \in [ Commands -> [ command : {"none", "start", "stop"},
                                     socket : Sockets \cup {None},
                                     age : 0 .. OWN_START_WINDOW ] ]
    <3>1. ASSUME NEW c \in Commands
          PROVE  [ running[c] EXCEPT !.age = Older(@, OWN_START_WINDOW) ]
                   \in [ command : {"none", "start", "stop"},
                         socket : Sockets \cup {None}, age : 0 .. OWN_START_WINDOW ]
      BY OlderWithin DEF TypeOK
    <3> QED
      BY <1>6, <3>1 DEF Tick, TypeOK
  <2>3. last_command' \in [ command : {"none", "start", "stop"}, socket : Sockets \cup {None},
                            rejected : BOOLEAN, age : 0 .. OWN_START_WINDOW ]
    BY <1>6, OlderWithin DEF Tick, TypeOK
  <2> QED
    BY <1>6, <2>1, <2>2, <2>3 DEF Tick, TypeOK
<1>7. CASE UNCHANGED vars
  BY <1>7 DEF vars, TypeOK
<1> QED
  BY <1>1, <1>2, <1>3, <1>4, <1>5, <1>6, <1>7 DEF Next

\* The tracker's fields keep their types, and its ages their windows.
THEOREM TypeCorrect == Spec => []TypeOK
<1>1. Init => TypeOK
  BY TrustAssumption, WindowAssumption
     DEF Init, TypeOK, NoEnd, NoPushedEnd, NotRunning, NoCommand, Snapshots, Intents
<1> QED
  BY <1>1, NextTypeOK, PTL DEF Spec

-----------------------------------------------------------------------------
\* A pushed end holds (_unless_pushed_end, _status_pushed): as long as the
\* tracker remembers the push that ended a session, that session is not the
\* running one, whatever answers the polls bring and in whatever order.
THEOREM PushedEndIsKept == Spec => []PushedEndHolds
<1>1. Init => PushedEndHolds
  BY DEF Init, PushedEndHolds, NoPushedEnd
<1>2. ASSUME TypeOK, PushedEndHolds, [Next]_vars PROVE PushedEndHolds'
  <2>1. CASE Poll
    <3>1. PICK found \in Sockets \cup {None}, st \in Snapshots : Polled(found, st)
      BY <2>1 DEF Poll
    <3>2. CASE found = None
      BY <1>2, <3>1, <3>2 DEF Polled, Observed, PushedEndHolds
    <3>3. CASE found # None /\ ~TrustedEnd
      BY <1>2, <3>1, <3>3 DEF Polled, PushedEndHolds, NoPushedEnd
    <3>4. CASE found # None /\ TrustedEnd
      BY <1>2, <3>1, <3>4 DEF Polled, Observed, PushedEndHolds
    <3> QED
      BY <3>2, <3>3, <3>4
  <2>2. CASE StatusPush
    <3>1. PICK socket \in Sockets \cup {None}, status \in Statuses \cup {None},
               mine \in BOOLEAN, before \in Snapshots :
                 StatusPushed(socket, status, mine, before)
      BY <2>2 DEF StatusPush
    <3> QED
      BY <1>2, <3>1 DEF StatusPushed, Observed, PushedEndHolds, NoPushedEnd
  <2>3. CASE EstimatePushed
    BY <1>2, <2>3 DEF EstimatePushed, PushedEndHolds
  <2>4. CASE StartOrStop
    BY <1>2, <2>4 DEF StartOrStop, CommandStarted, PushedEndHolds
  <2>5. CASE Finish
    BY <1>2, <2>5 DEF Finish, CommandFinished, PushedEndHolds
  <2>6. CASE Tick
    BY <1>2, <2>6 DEF Tick, PushedEndHolds, TypeOK
  <2>7. CASE UNCHANGED vars
    BY <1>2, <2>7 DEF vars, PushedEndHolds
  <2> QED
    BY <1>2, <2>1, <2>2, <2>3, <2>4, <2>5, <2>6, <2>7 DEF Next
<1> QED
  BY <1>1, <1>2, TypeCorrect, PTL DEF Spec

-----------------------------------------------------------------------------
\* LeftSocketHeld, of any end and any snapshot.
HeldRightly(end, st) ==
    LET left == end.session
    IN  left # None =>
          /\ end.reused => end.freed
          /\ st[left] = STATUS_AVAILABLE => end.freed
          /\ st[left] # None =>
               (left \in end.held_back <=> st[left] = STATUS_AVAILABLE /\ ~end.reused)
          /\ \A s \in end.held_back : st[s] \in {None, STATUS_AVAILABLE}

\* Following the sockets leaves every one held back that should be, and no
\* other (_follow_held_back).
LEMMA FollowHoldsRightly ==
    ASSUME NEW end \in Ended, NEW st \in Snapshots, end.reused => end.freed
    PROVE  HeldRightly(follow_held_back(end, st), st)
<1>1. STATUS_AVAILABLE # None /\ STATUS_AVAILABLE \notin IN_USE_STATUSES
  BY StatusesAssumption DEF STATUS_AVAILABLE, STATUSES, IN_USE_STATUSES, CHARGING_STATUSES
<1>2. CASE end.session = None
  BY <1>2 DEF follow_held_back, HeldRightly
<1>3. CASE end.session # None
  <2> DEFINE left == end.session
             next == follow_held_back(end, st)
             still == { s \in end.held_back : st[s] \in {None, STATUS_AVAILABLE} }
  <2>1. /\ next.session = left
        /\ next.freed = (end.freed \/ st[left] = STATUS_AVAILABLE)
        /\ next.reused = (end.reused \/ (end.freed /\ st[left] \in IN_USE_STATUSES))
    BY <1>3 DEF follow_held_back
  <2>2. next.held_back = IF st[left] = STATUS_AVAILABLE /\ ~next.reused THEN still \cup {left}
                         ELSE IF st[left] = None THEN still
                         ELSE still \ {left}
    BY <1>3 DEF follow_held_back
  <2>3. next.reused => next.freed
    BY <2>1
  <2>4. st[left] = STATUS_AVAILABLE => next.freed
    BY <2>1
  <2>5. st[left] # None =>
          (left \in next.held_back <=> st[left] = STATUS_AVAILABLE /\ ~next.reused)
    BY <2>2
  <2>6. \A s \in next.held_back : st[s] \in {None, STATUS_AVAILABLE}
    BY <2>2
  <2> QED
    BY <1>3, <2>1, <2>3, <2>4, <2>5, <2>6 DEF HeldRightly, next
<1> QED
  BY <1>2, <1>3

\* What is recorded of an end is reused only if freed, if that was so before.
LEMMA RecordedEndReused ==
    ASSUME LeftSocketHeld, TypeOK, NEW a
    PROVE  RecordedEnd(a).session # None =>
             (RecordedEnd(a).reused => RecordedEnd(a).freed)
BY DEF LeftSocketHeld, RecordedEnd, NoEnd, TypeOK

LEMMA ObservedHoldsRightly ==
    ASSUME TypeOK, LeftSocketHeld, NEW a, NEW st \in Snapshots, Observed(a, st)
    PROVE  LeftSocketHeld'
<1> DEFINE end == RecordedEnd(a)
<1>1. end \in Ended
  BY RecordedEndType
<1>2. HeldRightly(follow_held_back(end, st), st)
  <2>1. CASE end.session = None
    BY <2>1 DEF follow_held_back, HeldRightly
  <2>2. CASE end.session # None
    BY <1>1, <2>2, FollowHoldsRightly, RecordedEndReused
  <2> QED
    BY <2>1, <2>2
<1>3. last_end' = follow_held_back(end, st) /\ stations' = st
  BY DEF Observed
<1> HIDE DEF end
<1> QED
  BY <1>2, <1>3 DEF HeldRightly, LeftSocketHeld

\* The socket you left is held back exactly while free and not reused, and
\* every socket held back was free when last seen.
THEOREM LeftSocketIsHeld == Spec => []LeftSocketHeld
<1>1. Init => LeftSocketHeld
  BY DEF Init, LeftSocketHeld, NoEnd
<1>2. ASSUME TypeOK, LeftSocketHeld, [Next]_vars PROVE LeftSocketHeld'
  <2>1. CASE Poll
    <3>1. PICK found \in Sockets \cup {None}, st \in Snapshots : Polled(found, st)
      BY <2>1 DEF Poll
    <3>2. PICK a : Observed(a, st)
      BY <3>1 DEF Polled
    <3> QED
      BY <1>2, <3>1, <3>2, ObservedHoldsRightly
  <2>2. CASE StatusPush
    <3>1. PICK socket \in Sockets \cup {None}, status \in Statuses \cup {None},
               mine \in BOOLEAN, before \in Snapshots :
                 StatusPushed(socket, status, mine, before)
      BY <2>2 DEF StatusPush
    <3> DEFINE after == IF mine THEN with_push(before, socket, status) ELSE before
    <3>2. after \in Snapshots
      BY WithPushType
    <3>3. PICK a : Observed(a, after)
      BY <3>1 DEF StatusPushed
    <3> QED
      BY <1>2, <3>2, <3>3, ObservedHoldsRightly
  <2>3. CASE UNCHANGED << last_end, stations >>
    BY <1>2, <2>3 DEF LeftSocketHeld
  <2>4. Next /\ ~Poll /\ ~StatusPush => UNCHANGED << last_end, stations >>
    BY DEF Next, EstimatePushed, StartOrStop, CommandStarted, Finish, CommandFinished, Tick
  <2> QED
    BY <1>2, <2>1, <2>2, <2>3, <2>4 DEF vars
<1> QED
  BY <1>1, <1>2, TypeCorrect, PTL DEF Spec

-----------------------------------------------------------------------------
\* Following the sockets forgets nothing about an end, and holds nothing back
\* anew but the left socket, as long as it is not reused.
LEMMA FollowKeeps ==
    ASSUME NEW end \in Ended, NEW st
    PROVE  /\ follow_held_back(end, st).session = end.session
           /\ end.freed => follow_held_back(end, st).freed
           /\ end.reused => follow_held_back(end, st).reused
           /\ follow_held_back(end, st).held_back \ end.held_back
                \subseteq IF end.reused THEN {} ELSE {end.session}
<1>1. CASE end.session = None
  BY <1>1 DEF follow_held_back
<1>2. CASE end.session # None
  <2> DEFINE left == end.session
             next == follow_held_back(end, st)
             still == { s \in end.held_back : st[s] \in {None, STATUS_AVAILABLE} }
  <2>1. /\ next.session = left
        /\ next.freed = (end.freed \/ st[left] = STATUS_AVAILABLE)
        /\ next.reused = (end.reused \/ (end.freed /\ st[left] \in IN_USE_STATUSES))
    BY <1>2 DEF follow_held_back
  <2>2. next.held_back = IF st[left] = STATUS_AVAILABLE /\ ~next.reused THEN still \cup {left}
                         ELSE IF st[left] = None THEN still
                         ELSE still \ {left}
    BY <1>2 DEF follow_held_back
  <2>3. end.reused => next.reused
    BY <2>1
  <2> HIDE DEF next
  <2>4. next.held_back \ end.held_back \subseteq IF end.reused THEN {} ELSE {left}
    BY <2>2, <2>3
  <2> QED
    BY <2>1, <2>3, <2>4 DEF next
<1> QED
  BY <1>1, <1>2

\* Until another session ends, what is known of the last end is kept.
THEOREM TheEndIsKept == Spec => EndIsKept
<1>1. ASSUME TypeOK, [Next]_vars, ~Ends(active')
      PROVE  /\ last_end'.session = last_end.session
             /\ last_end.freed => last_end'.freed
             /\ last_end.reused => last_end'.reused
             /\ last_end'.held_back \ last_end.held_back
                  \subseteq IF last_end.reused THEN {} ELSE {last_end.session}
  <2>1. CASE \E a, st : Observed(a, st)
    <3>1. PICK a, st : Observed(a, st)
      BY <2>1
    <3>2. last_end' = follow_held_back(last_end, st) /\ last_end \in Ended
      BY <1>1, <3>1 DEF Observed, RecordedEnd, TypeOK, Ended
    <3> QED
      BY <3>2, FollowKeeps
  <2>2. CASE last_end' = last_end
    BY <2>2
  <2>3. Poll \/ StatusPush => \E a, st : Observed(a, st)
    BY DEF Poll, Polled, StatusPush, StatusPushed
  <2>4. Next /\ ~Poll /\ ~StatusPush => last_end' = last_end
    BY DEF Next, EstimatePushed, StartOrStop, CommandStarted, Finish, CommandFinished, Tick
  <2> QED
    BY <1>1, <2>1, <2>2, <2>3, <2>4 DEF vars
<1>2. TypeOK /\ [Next]_vars =>
        [ ~Ends(active') =>
            /\ last_end'.session = last_end.session
            /\ last_end.freed => last_end'.freed
            /\ last_end.reused => last_end'.reused
            /\ last_end'.held_back \ last_end.held_back
                 \subseteq IF last_end.reused THEN {} ELSE {last_end.session} ]_vars
  BY <1>1
<1> QED
  BY <1>2, TypeCorrect, PTL DEF Spec, EndIsKept

-----------------------------------------------------------------------------
(* With its history                                                        *)

\* A step with its history is a step.
LEMMA HistoryWatches == [HNext]_hvars => [Next]_vars
BY DEF HNext, hvars, HPoll, HStatusPush, HFinish, HTick, Next, Poll, StatusPush, Finish

\* So the tracker's fields keep their types.
LEMMA HistoryTypeOK == HSpec => []TypeOK
<1>1. HInit => Init
  BY DEF HInit
<1>2. HSpec => Spec
  BY <1>1, HistoryWatches, PTL DEF HSpec, Spec
<1> QED
  BY <1>2, TypeCorrect, PTL

-----------------------------------------------------------------------------
(* Held back: free throughout                                              *)

\* Following the sockets releases one that is taken, and holds back no other
\* but the left one anew (_follow_held_back).
LEMMA FollowReleases ==
    ASSUME NEW end \in Ended, NEW st, end.session # None, NEW s, s # end.session
    PROVE  s \in follow_held_back(end, st).held_back <=>
             s \in end.held_back /\ st[s] \in {None, STATUS_AVAILABLE}
<1> DEFINE left == end.session
           still == { t \in end.held_back : st[t] \in {None, STATUS_AVAILABLE} }
<1>1. follow_held_back(end, st).held_back \in { still \cup {left}, still, still \ {left} }
  BY DEF follow_held_back
<1> QED
  BY <1>1

\* What TLC checks, and the type of what it is about.
FreeInv == free_throughout \in [ Sockets -> BOOLEAN ] /\ HeldBackFreeThroughout

\* Both paths that see chargers keep it.
LEMMA SeenFree ==
    ASSUME TypeOK, FreeInv, NEW a, NEW st \in Snapshots, Observed(a, st), Seen(st)
    PROVE  FreeInv'
<1> DEFINE end == RecordedEnd(a)
<1>1. active' = a /\ last_end' = follow_held_back(end, st)
  BY DEF Observed
<1>2. end \in Ended
  BY RecordedEndType
<1>3. free_throughout' \in [ Sockets -> BOOLEAN ]
  BY DEF Seen, FreeInv
<1>4. last_end'.session = end.session
  BY DEF Observed, follow_held_back
<1>5. ASSUME end.session # None, NEW s \in Sockets \ {end.session}
      PROVE  s \in last_end'.held_back <=> free_throughout'[s]
  <2>1. s \in last_end'.held_back <=> s \in end.held_back /\ st[s] \in {None, STATUS_AVAILABLE}
    BY <1>1, <1>2, <1>5, FollowReleases
  <2>2. CASE Ends(a)
    <3>1. s \in end.held_back <=> stations[s] = STATUS_AVAILABLE
      BY <1>5, <2>2 DEF RecordedEnd, NoEnd, Available
    <3> QED
      BY <1>1, <1>5, <2>1, <2>2, <3>1 DEF Seen
  <2>3. CASE ~Ends(a)
    <3>1. end = last_end
      BY <2>3 DEF RecordedEnd
    <3>2. s \in end.held_back <=> free_throughout[s]
      BY <1>5, <3>1 DEF FreeInv, HeldBackFreeThroughout
    <3> QED
      BY <1>1, <1>5, <2>1, <2>3, <3>2 DEF Seen
  <2> QED
    BY <2>2, <2>3
<1> QED
  BY <1>3, <1>4, <1>5 DEF FreeInv, HeldBackFreeThroughout

\* Whatever order of polls and pushes led there, the sockets held back, other
\* than the one you left, are exactly those that were free just before the end
\* and have been whenever they were seen since (_set_active,
\* _follow_held_back).
THEOREM HeldBackIsFreeThroughout == HSpec => []HeldBackFreeThroughout
<1>1. HInit => FreeInv
  BY DEF HInit, Init, FreeInv, HeldBackFreeThroughout, NoEnd
<1>2. ASSUME TypeOK, FreeInv, [HNext]_hvars PROVE FreeInv'
  <2>1. CASE HPoll
    <3>1. PICK found \in Sockets \cup {None}, st \in Snapshots : Polled(found, st) /\ Seen(st)
      BY <2>1 DEF HPoll
    <3>2. PICK a : Observed(a, st)
      BY <3>1 DEF Polled
    <3> QED
      BY <1>2, <3>1, <3>2, SeenFree
  <2>2. CASE HStatusPush
    <3>1. PICK socket \in Sockets \cup {None}, status \in Statuses \cup {None},
               mine \in BOOLEAN, before \in Snapshots :
                 StatusPushed(socket, status, mine, before) /\ Seen(stations')
      BY <2>2 DEF HStatusPush
    <3> DEFINE after == IF mine THEN with_push(before, socket, status) ELSE before
    <3>2. after \in Snapshots
      BY WithPushType
    <3>3. PICK a : Observed(a, after)
      BY <3>1 DEF StatusPushed
    <3>4. Seen(after)
      BY <3>1, <3>3 DEF Observed
    <3> QED
      BY <1>2, <3>2, <3>3, <3>4, SeenFree
  <2>3. CASE UNCHANGED << last_end, free_throughout >>
    BY <1>2, <2>3 DEF FreeInv, HeldBackFreeThroughout
  <2>4. HNext /\ ~HPoll /\ ~HStatusPush => UNCHANGED << last_end, free_throughout >>
    BY DEF HNext, history, EstimatePushed, StartOrStop, CommandStarted, HFinish,
           CommandFinished, HTick, Tick
  <2> QED
    BY <1>2, <2>1, <2>2, <2>3, <2>4 DEF hvars, vars, history
<1>3. FreeInv => HeldBackFreeThroughout
  BY DEF FreeInv
<1> QED
  BY <1>1, <1>2, <1>3, HistoryTypeOK, PTL DEF HSpec

-----------------------------------------------------------------------------
(* The newest pushed end                                                   *)

\* As long as the newest pushed end is trusted it is the one the tracker
\* keeps: nothing but its socket charging again displaces it.
NewestIsKept ==
    /\ newest \in [ socket : Sockets \cup {None}, age : 0 .. PUSHED_END_TRUST ]
    /\ newest.age < PUSHED_END_TRUST => newest.socket # None /\ pushed_end = newest

LEMMA NewestNext == TypeOK /\ NewestIsKept /\ [HNext]_hvars => NewestIsKept'
<1> SUFFICES ASSUME TypeOK, NewestIsKept, [HNext]_hvars PROVE NewestIsKept'
  OBVIOUS
<1> USE TrustAssumption
<1>1. CASE HPoll
  <2>1. PICK found \in Sockets \cup {None}, st \in Snapshots : Polled(found, st)
    BY <1>1 DEF HPoll
  <2>2. newest' = newest
    BY <1>1 DEF HPoll
  <2>3. newest.age < PUSHED_END_TRUST => pushed_end' = pushed_end
    BY <2>1 DEF Polled, TrustedEnd, NewestIsKept
  <2> QED
    BY <2>2, <2>3 DEF NewestIsKept
<1>2. CASE HStatusPush
  <2>1. PICK socket \in Sockets \cup {None}, status \in Statuses \cup {None},
             mine \in BOOLEAN, before \in Snapshots :
               /\ StatusPushed(socket, status, mine, before)
               /\ newest' = IF Ends(active') THEN [ socket |-> socket, age |-> 0 ]
                            ELSE IF socket = newest.socket /\ status \in CHARGING_STATUSES
                            THEN [ newest EXCEPT !.age = PUSHED_END_TRUST ]
                            ELSE newest
    BY <1>2 DEF HStatusPush
  <2>2. CASE Ends(active')
    <3>1. /\ active # None /\ socket = active
          /\ pushed_end' = [ socket |-> active, age |-> 0 ]
      BY <2>1, <2>2 DEF StatusPushed, Observed, Ends
    <3> QED
      BY <2>1, <2>2, <3>1 DEF NewestIsKept
  <2>3. CASE ~Ends(active') /\ socket = newest.socket /\ status \in CHARGING_STATUSES
    BY <2>1, <2>3 DEF NewestIsKept
  <2>4. CASE ~Ends(active') /\ ~(socket = newest.socket /\ status \in CHARGING_STATUSES)
    <3>1. newest' = newest
      BY <2>1, <2>4
    <3>2. newest.age < PUSHED_END_TRUST => pushed_end' = pushed_end
      BY <2>1, <2>4 DEF StatusPushed, Observed, Ends, NewestIsKept
    <3> QED
      BY <3>1, <3>2 DEF NewestIsKept
  <2> QED
    BY <2>2, <2>3, <2>4
<1>3. CASE HTick
  <2>1. newest' = [ newest EXCEPT !.age = Older(@, PUSHED_END_TRUST) ]
    BY <1>3 DEF HTick
  <2>2. newest' \in [ socket : Sockets \cup {None}, age : 0 .. PUSHED_END_TRUST ]
    BY <2>1, OlderWithin DEF NewestIsKept
  <2>3. ASSUME newest'.age < PUSHED_END_TRUST
        PROVE  newest'.socket # None /\ pushed_end' = newest'
    <3>1. newest.age < PUSHED_END_TRUST
      BY <2>1, <2>3 DEF Older, NewestIsKept
    <3>2. pushed_end' = [ pushed_end EXCEPT !.age = Older(@, PUSHED_END_TRUST) ]
      BY <1>3, <3>1 DEF HTick, Tick, NewestIsKept
    <3> QED
      BY <2>1, <3>1, <3>2 DEF NewestIsKept
  <2> QED
    BY <2>2, <2>3 DEF NewestIsKept
<1>4. CASE UNCHANGED << pushed_end, newest >>
  BY <1>4 DEF NewestIsKept
<1>5. HNext /\ ~HPoll /\ ~HStatusPush /\ ~HTick => UNCHANGED << pushed_end, newest >>
  BY DEF HNext, history, EstimatePushed, StartOrStop, CommandStarted, HFinish, CommandFinished
<1> QED
  BY <1>1, <1>2, <1>3, <1>4, <1>5 DEF hvars, vars, history

\* The session that the newest push ended does not come back within the trust
\* window unless a push shows its socket charging, although the tracker keeps
\* one pushed end only and forgets it on the way (_unless_pushed_end).
THEOREM NewestPushedEndIsTrusted == HSpec => NewestPushedEndTrusted
<1>1. HInit => NewestIsKept
  BY TrustAssumption DEF HInit, NewestIsKept
<1>2. ASSUME TypeOK, NewestIsKept, [HNext]_hvars,
             newest.socket # None, active # newest.socket, active' = newest.socket
      PROVE  newest.age = PUSHED_END_TRUST
  <2>1. CASE HPoll
    <3>1. PICK found \in Sockets \cup {None}, st \in Snapshots : Polled(found, st)
      BY <2>1 DEF HPoll
    <3>2. found = newest.socket /\ ~(found = pushed_end.socket /\ TrustedEnd)
      BY <1>2, <3>1 DEF Polled, Observed
    <3> QED
      BY <1>2, <3>2, TrustAssumption DEF TrustedEnd, NewestIsKept
  <2>2. CASE HStatusPush
    <3>1. active' \in {None, active}
      BY <2>2 DEF HStatusPush, StatusPushed, Observed
    <3> QED
      BY <1>2, <3>1
  <2>3. [HNext]_hvars /\ ~HPoll /\ ~HStatusPush => active' = active
    BY DEF HNext, hvars, vars, EstimatePushed, StartOrStop, CommandStarted, HFinish,
           CommandFinished, HTick, Tick
  <2> QED
    BY <1>2, <2>1, <2>2, <2>3
<1>3. TypeOK /\ NewestIsKept /\ [HNext]_hvars =>
        [ newest.socket # None /\ active # newest.socket /\ active' = newest.socket
            => newest.age = PUSHED_END_TRUST ]_hvars
  BY <1>2
<1> QED
  BY <1>1, <1>3, NewestNext, HistoryTypeOK, PTL DEF HSpec, NewestPushedEndTrusted

-----------------------------------------------------------------------------
(* Own starts                                                              *)

\* A start that counts, the last command, is as old as the last start there.
LastStart ==
    /\ started \in [ Sockets -> 0 .. OWN_START_WINDOW ]
    /\ last_command.command = "start" /\ ~last_command.rejected /\ last_command.socket \in Sockets
         => started[last_command.socket] = last_command.age

LEMMA LastStartNext == TypeOK /\ LastStart /\ [HNext]_hvars => LastStart'
<1> SUFFICES ASSUME TypeOK, LastStart, [HNext]_hvars PROVE LastStart'
  OBVIOUS
<1> USE WindowAssumption
<1>1. CASE HFinish
  <2>1. PICK c \in Commands, rejected \in BOOLEAN :
          /\ CommandFinished(c, rejected)
          /\ started' = [ started EXCEPT ![running[c].socket] =
                            IF running[c].command = "start" /\ ~rejected THEN running[c].age
                            ELSE OWN_START_WINDOW ]
    BY <1>1 DEF HFinish
  <2>2. started' \in [ Sockets -> 0 .. OWN_START_WINDOW ]
    <3> DEFINE age == IF running[c].command = "start" /\ ~rejected THEN running[c].age
                      ELSE OWN_START_WINDOW
    <3>1. age \in 0 .. OWN_START_WINDOW
      BY DEF TypeOK
    <3>2. started' = [ started EXCEPT ![running[c].socket] = age ]
      BY <2>1
    <3> HIDE DEF age
    <3> QED
      BY <3>1, <3>2 DEF LastStart
  <2>3. last_command' = [ command |-> running[c].command, socket |-> running[c].socket,
                          rejected |-> rejected, age |-> running[c].age ]
    BY <2>1 DEF CommandFinished
  <2> QED
    BY <2>1, <2>2, <2>3 DEF LastStart
<1>2. CASE HTick
  <2>1. started' = [ s \in Sockets |-> Older(started[s], OWN_START_WINDOW) ]
    BY <1>2 DEF HTick
  <2>2. started' \in [ Sockets -> 0 .. OWN_START_WINDOW ]
    BY <2>1, OlderWithin DEF LastStart
  <2>3. last_command' = IF last_command.command = "none" THEN last_command
                        ELSE [ last_command EXCEPT !.age = Older(@, OWN_START_WINDOW) ]
    BY <1>2 DEF HTick, Tick
  <2>4. \/ last_command' = last_command /\ last_command.command = "none"
        \/ /\ last_command'.command = last_command.command
           /\ last_command'.rejected = last_command.rejected
           /\ last_command'.socket = last_command.socket
           /\ last_command'.age = Older(last_command.age, OWN_START_WINDOW)
    BY <2>3 DEF TypeOK
  <2> QED
    BY <2>1, <2>2, <2>4 DEF LastStart
<1>3. CASE UNCHANGED << last_command, started >>
  BY <1>3 DEF LastStart
<1>4. HNext /\ ~HFinish /\ ~HTick => UNCHANGED << last_command, started >>
  BY DEF HNext, history, EstimatePushed, StartOrStop, CommandStarted, HPoll, Polled,
         HStatusPush, StatusPushed
<1> QED
  BY <1>1, <1>2, <1>3, <1>4 DEF hvars, vars, history

\* A socket has an own start for a reason: a start runs there, or one went
\* there within the window that was neither rejected nor followed by another
\* command (own_starts).
THEOREM OwnStartsAreSound == HSpec => []OwnStartsSound
<1>1. HInit => LastStart
  BY WindowAssumption DEF HInit, Init, NoCommand, LastStart
<1>2. TypeOK /\ LastStart => OwnStartsSound
  BY DEF LastStart, OwnStartsSound, own_starts
<1> QED
  BY <1>1, <1>2, LastStartNext, HistoryTypeOK, PTL DEF HSpec
=============================================================================
