----------------------------- MODULE OfferProofs -----------------------------
(***************************************************************************)
(* The automation offers a charger only while that is wanted, and none     *)
(* that has been free all along, for any sockets, statuses, capabilities,  *)
(* windows and lengths of the queue, and whatever the session tracker is   *)
(* told.                                                                   *)
(*                                                                         *)
(* OffersOnlyWhereWanted speaks of an empty queue. What is inductive is    *)
(* StillWanted: an offer that is not wanted any more has the run that will *)
(* take it back waiting in the queue, behind whatever others. OfferTypeOK  *)
(* says of entities that all have been written that they show the          *)
(* snapshot; inductive is what Behind says of each of them.                *)
(*                                                                         *)
(* NothingUntouchedOffered compares what a run was triggered with and what *)
(* is untouched when it is evaluated. UntouchedHeld says that the tracker  *)
(* holds back whatever is untouched and free; FirstIsFresh that a run that *)
(* did not wait is the first in the queue, and that nothing has changed    *)
(* since it was triggered, perhaps between the writes of two entities.     *)
(***************************************************************************)
EXTENDS Offer, SessionTrackerProofs, WellFoundedInduction

Ids == { "arrive", "leave", "freed", "taken", "start_tapped", "charging_started", "preview" }
Stages == { "ready", "starting", "pressing", "charging", "unconfirmed", "watching", "acting" }

EntitiesOK ==
    /\ offer_while_charging \in BOOLEAN
    /\ charging \in {"on", "off", "unavailable"}
    /\ status \in [ chosen -> Statuses \cup {None} ]
    /\ held_back \subseteq chosen
    /\ unwritten \subseteq chosen \cup {"charging"}
    /\ age \in [ chosen -> 0 .. freed_for ]
    /\ timers \subseteq { s \in chosen : status[s] = STATUS_AVAILABLE }

YouOK ==
    /\ here \in BOOLEAN /\ ended_since \in BOOLEAN
    /\ moved \in 0 .. OLD
    /\ pressed \in [ chosen -> 0 .. RECENT ]
    /\ events \in 0 .. MaxEvents
    /\ untouched \subseteq Sockets

QueueOK ==
    /\ queue \in Seq(Runs) /\ Len(queue) <= MaxRuns
    /\ stage \in Stages
    /\ stage # "ready" => queue # << >>
    /\ missed \in BOOLEAN

NoteOK == note \in Notes /\ (note.kind = "offer" <=> note.socket # None)

\* An entity that has been written shows the snapshot, unless all of them are
\* unavailable and have yet to be written.
Behind ==
    /\ charging = "unavailable" => unwritten \in { {}, chosen \cup {"charging"} }
    /\ charging # "unavailable" =>
        /\ "charging" \notin unwritten => charging = IF active # None THEN "on" ELSE "off"
        /\ \A s \in chosen \ unwritten :
              status[s] = stations[s] /\ (s \in held_back <=> HeldBack(s))

\* A run that has not begun.
Waiting(id) == \E i \in DOMAIN queue : queue[i].id = id /\ (i = 1 => stage = "ready")

\* An offer is wanted, or about to be taken back.
StillWanted ==
    note.kind = "offer" /\ ~note.preview /\ ~missed =>
        /\ here \/ Waiting("leave")
        /\ \/ offer_while_charging \/ charging = "off"
           \/ charging = "on" /\ Waiting("charging_started")

Types == TypeOK /\ EntitiesOK /\ YouOK /\ QueueOK /\ NoteOK
Inv == Types /\ Behind /\ StillWanted

LEMMA ChosenSockets ==
    /\ chosen \subseteq Sockets /\ None \notin chosen /\ "charging" \notin chosen
    /\ OLD \in Nat /\ freed_for \in Nat /\ freed_for <= OLD
    /\ RECENT \in Nat /\ MaxRuns \in Nat /\ MaxEvents \in Nat
BY OfferAssumption, SocketsAssumption DEF chosen, OLD

LEMMA InvIsTyped == Inv => OfferTypeOK
<1> SUFFICES ASSUME Inv PROVE OfferTypeOK
  OBVIOUS
<1>1. unwritten = {} /\ charging # "unavailable" =>
         /\ charging = (IF active # None THEN "on" ELSE "off")
         /\ \A s \in chosen : status[s] = stations[s]
         /\ held_back = IF active = None THEN last_end.held_back \cap chosen ELSE {}
  BY DEF Inv, Types, EntitiesOK, Behind, HeldBack
<1> QED
  BY <1>1 DEF Inv, Types, EntitiesOK, YouOK, QueueOK, NoteOK, OfferTypeOK, Stages

-----------------------------------------------------------------------------
(* The best socket                                                         *)

LEMMA LeastNat ==
    ASSUME NEW T \in SUBSET Nat, T # {}
    PROVE  \E x \in T : \A y \in T : x <= y
<1> DEFINE R == OpToRel(<, Nat)
<1>1. IsWellFoundedOn(R, Nat)
  BY NatLessThanWellFounded
<1> HIDE DEF R
<1>2. PICK x \in T : \A y \in T : ~ (<< y, x >> \in R)
  BY <1>1, WFMin
<1>3. \A y \in T : y < x => << y, x >> \in R
  <2> TAKE y \in T
  <2> HAVE y < x
  <2>1. << y, x >> \in Nat \X Nat
    OBVIOUS
  <2> QED
    BY <2>1 DEF R, OpToRel
<1>4. \A y \in T : y \in Nat /\ x \in Nat
  OBVIOUS
<1>5. \A y \in T : ~(y < x)
  BY <1>2, <1>3
<1>6. \A y \in T : x <= y
  BY <1>4, <1>5
<1> QED
  BY <1>6

\* It is one of those chosen, and free (free_sockets | first).
LEMMA BestIsFree ==
    ASSUME NEW shown, NEW held
    PROVE  best(shown, held) \in free(shown, held) \cup {None}
<1> DEFINE ranks == { i \in DOMAIN sockets : sockets[i] \in free(shown, held) }
<1>1. CASE ranks = {}
  BY <1>1 DEF best
<1>2. CASE ranks # {}
  <2>1. ranks \in SUBSET Nat
    BY OfferAssumption
  <2> HIDE DEF ranks
  <2>2. \E i \in ranks : \A j \in ranks : i <= j
    BY <1>2, <2>1, LeastNat
  <2> DEFINE first == CHOOSE i \in ranks : \A j \in ranks : i <= j
  <2>3. first \in ranks
    BY <2>2
  <2> HIDE DEF first
  <2>4. sockets[first] \in free(shown, held)
    BY <2>3 DEF ranks
  <2>5. best(shown, held) = sockets[first]
    BY <1>2 DEF best, first, ranks
  <2> QED
    BY <2>4, <2>5
<1> QED
  BY <1>1, <1>2

LEMMA BestIsChosen ==
    ASSUME NEW shown, NEW held
    PROVE  best(shown, held) \in chosen \cup {None}
BY BestIsFree DEF free

-----------------------------------------------------------------------------
(* The queue                                                               *)

\* A run is queued behind those that wait, or dropped.
LEMMA Triggered ==
    ASSUME QueueOK, NEW id \in Ids, NEW of \in chosen \cup {None}, NEW applies \in BOOLEAN,
           NEW since \in 0 .. OLD, Trigger(id, of, applies, since), stage' = stage
    PROVE  /\ QueueOK'
           /\ missed => missed'
           /\ \A other : Waiting(other) => Waiting(other)'
           /\ ~missed' => Waiting(id)'
<1> DEFINE run == [ id |-> id, best |-> of, applies |-> applies, age |-> since,
                    waited |-> queue # << >> ]
<1>1. run \in Runs /\ run.id = id
  BY DEF Runs, Ids
<1> HIDE DEF run
<1>2. queue' = (IF Len(queue) < MaxRuns THEN Append(queue, run) ELSE queue)
  BY DEF Trigger, run
<1>6. missed' = (missed \/ Len(queue) = MaxRuns)
  BY DEF Trigger
<1>7. missed' \in BOOLEAN /\ (missed => missed') /\ (Len(queue) = MaxRuns => missed')
  BY <1>6
<1>3. queue \in Seq(Runs) /\ Len(queue) \in Nat /\ Len(queue) <= MaxRuns /\ MaxRuns \in Nat
  BY ChosenSockets DEF QueueOK
<1>4. CASE Len(queue) < MaxRuns
  <2>1. queue' = Append(queue, run)
    BY <1>2, <1>4
  <2>2. /\ queue' \in Seq(Runs) /\ Len(queue') = Len(queue) + 1 /\ queue' # << >>
        /\ DOMAIN queue' = 1 .. Len(queue) + 1 /\ DOMAIN queue = 1 .. Len(queue)
        /\ \A i \in 1 .. Len(queue) : queue'[i] = queue[i]
        /\ queue'[Len(queue) + 1] = run
    BY <1>1, <1>3, <2>1
  <2>3. QueueOK'
    <3>1. Len(queue') <= MaxRuns
      BY <1>3, <1>4, <2>2
    <3> QED
      BY <1>7, <2>2, <3>1 DEF QueueOK
  <2>4. \A other : Waiting(other) => Waiting(other)'
    BY <1>3, <2>2 DEF Waiting
  <2>5. Len(queue) + 1 = 1 => stage = "ready"
    BY <1>3 DEF QueueOK
  <2>6. Waiting(id)'
    <3>1. Len(queue) + 1 \in DOMAIN queue'
      BY <1>3, <2>2
    <3> QED
      BY <1>1, <2>2, <2>5, <3>1 DEF Waiting
  <2> QED
    BY <1>7, <2>3, <2>4, <2>6
<1>5. CASE ~(Len(queue) < MaxRuns)
  <2>1. queue' = queue
    BY <1>2, <1>5
  <2>2. Len(queue) = MaxRuns
    BY <1>3, <1>5
  <2> QED
    BY <1>7, <2>1, <2>2 DEF QueueOK, Waiting
<1> QED
  BY <1>4, <1>5

\* The run under way ends: those behind it move up.
LEMMA RunEnds ==
    ASSUME QueueOK, queue # << >>, EndRun, missed' \in BOOLEAN
    PROVE  /\ QueueOK'
           /\ \A id : Waiting(id) /\ (stage = "ready" => Head(queue).id # id) => Waiting(id)'
<1>1. queue' = Tail(queue) /\ stage' = "ready"
  BY DEF EndRun
<1>2. /\ queue \in Seq(Runs) /\ Len(queue) \in Nat \ {0} /\ Len(queue) <= MaxRuns
      /\ MaxRuns \in Nat
  BY ChosenSockets DEF QueueOK
<1>3. /\ queue' \in Seq(Runs) /\ Len(queue') = Len(queue) - 1
      /\ DOMAIN queue' = 1 .. Len(queue) - 1 /\ DOMAIN queue = 1 .. Len(queue)
      /\ \A i \in 1 .. Len(queue) - 1 : queue'[i] = queue[i + 1]
      /\ Head(queue) = queue[1]
  BY <1>1, <1>2
<1>4. QueueOK'
  BY <1>1, <1>2, <1>3 DEF QueueOK, Stages
<1>5. ASSUME NEW id, Waiting(id), stage = "ready" => Head(queue).id # id PROVE Waiting(id)'
  <2>1. PICK i \in 1 .. Len(queue) : queue[i].id = id /\ (i = 1 => stage = "ready")
    BY <1>3, <1>5 DEF Waiting
  <2>2. i # 1
    BY <1>3, <1>5, <2>1
  <2>3. i - 1 \in 1 .. Len(queue) - 1 /\ (i - 1) + 1 = i
    BY <1>2, <2>1, <2>2
  <2>4. i - 1 \in DOMAIN queue' /\ queue'[i - 1].id = id
    BY <1>3, <2>1, <2>3
  <2> QED
    BY <1>1, <2>4 DEF Waiting
<1> QED
  BY <1>4, <1>5

\* The run under way goes on.
LEMMA RunGoesOn ==
    ASSUME QueueOK, queue # << >>, NEW next \in Stages, Goto(next), missed' \in BOOLEAN
    PROVE  /\ QueueOK'
           /\ \A id : Waiting(id) /\ (stage = "ready" => Head(queue).id # id) => Waiting(id)'
<1>1. queue' = queue /\ stage' = next
  BY DEF Goto
<1>2. QueueOK'
  BY <1>1 DEF QueueOK
<1>3. Head(queue) = queue[1]
  BY DEF QueueOK
<1> QED
  BY <1>1, <1>2, <1>3 DEF Waiting

-----------------------------------------------------------------------------
(* What a step keeps by leaving alone what it is about                     *)

LEMMA TrackerKept ==
    ASSUME TypeOK, UNCHANGED vars
    PROVE  TypeOK'
BY NextTypeOK

LEMMA EntitiesKept ==
    ASSUME EntitiesOK, UNCHANGED entities
    PROVE  EntitiesOK'
BY DEF EntitiesOK, entities

LEMMA YouKept ==
    ASSUME YouOK, UNCHANGED << you, pressed, untouched >>, events' \in 0 .. MaxEvents
    PROVE  YouOK'
BY DEF YouOK, you

LEMMA NoteKept ==
    ASSUME NoteOK, UNCHANGED note
    PROVE  NoteOK'
BY DEF NoteOK

LEMMA BehindKept ==
    ASSUME Behind, UNCHANGED << charging, unwritten, status, held_back, active, stations, last_end >>
    PROVE  Behind'
BY DEF Behind, HeldBack

LEMMA QueueKept ==
    ASSUME QueueOK, UNCHANGED << queue, stage >>, missed' \in BOOLEAN
    PROVE  /\ QueueOK'
           /\ \A id : Waiting(id) => Waiting(id)'
BY DEF QueueOK, Waiting

LEMMA WantedKept ==
    ASSUME StillWanted, UNCHANGED << here, offer_while_charging, charging, note >>,
           missed \in BOOLEAN, missed' \in BOOLEAN, missed => missed',
           \A id \in {"leave", "charging_started"} : Waiting(id) => Waiting(id)'
    PROVE  StillWanted'
BY DEF StillWanted

\* One more event is within the bound.
LEMMA OneMore ==
    ASSUME YouOK, events < MaxEvents, events' = events + 1
    PROVE  events' \in 0 .. MaxEvents
BY ChosenSockets DEF YouOK

-----------------------------------------------------------------------------
(* The integration publishes                                               *)

\* Every entity has yet to be written.
LEMMA PublishKeeps ==
    ASSUME Inv, NEW found \in Sockets \cup {None}, NEW st \in [ Sockets -> Statuses \cup {None} ],
           Publish(found, st)
    PROVE  Inv'
<1> USE DEF Inv, Types
<1>1. TypeOK'
  <2>1. Poll
    BY DEF Publish, Poll, Snapshots
  <2> QED
    BY <2>1, NextTypeOK DEF Next
<1>2. UNCHANGED << offer_while_charging, charging, status, held_back, age, timers, here,
                   moved, pressed, queue, stage, note, missed >>
  BY DEF Publish, phone
<1>3. unwritten' = chosen \cup {"charging"}
  BY DEF Publish
<1>4. EntitiesOK'
  BY <1>2, <1>3 DEF EntitiesOK
<1>5. events' \in 0 .. MaxEvents
  BY OneMore DEF Publish, YouOK
<1>6. untouched' \subseteq Sockets
  <2>1. Available(stations) \subseteq Sockets
    BY DEF Available
  <2>2. Ends(found) => active \in Sockets
    BY DEF Ends, TypeOK
  <2> QED
    BY <2>1, <2>2 DEF Publish, YouOK
<1>7. ended_since' \in BOOLEAN
  BY DEF Publish, YouOK, Ends
<1>8. YouOK'
  BY <1>2, <1>5, <1>6, <1>7 DEF YouOK
<1>9. QueueOK' /\ (\A id : Waiting(id) => Waiting(id)') /\ NoteOK'
  BY <1>2, QueueKept, NoteKept DEF QueueOK
<1>10. Behind'
  BY <1>2, <1>3 DEF Behind
<1>11. StillWanted'
  BY <1>2, <1>9, WantedKept DEF QueueOK
<1> QED
  BY <1>1, <1>4, <1>8, <1>9, <1>10, <1>11

\* A charge that starts has the run that takes a real offer back queued.
LEMMA WriteChargingKeeps ==
    ASSUME Inv, WriteCharging
    PROVE  Inv'
<1> USE DEF Inv, Types
<1>1. UNCHANGED << vars, offer_while_charging, status, held_back, age, timers, you,
                   pressed, stage, note, events, untouched >>
  BY DEF WriteCharging
<1>2. TypeOK' /\ NoteOK'
  BY <1>1, TrackerKept, NoteKept
<1>3. charging' = (IF active # None THEN "on" ELSE "off") /\ unwritten' = unwritten \ {"charging"}
      /\ "charging" \in unwritten
  BY DEF WriteCharging
<1>4. EntitiesOK'
  BY <1>1, <1>3 DEF EntitiesOK
<1>5. YouOK'
  BY <1>1, YouKept DEF YouOK
<1>6. ASSUME charging = "off", charging' = "on" PROVE QueueOK' /\ StillWanted'
  <2>1. Trigger("charging_started", best(status, held_back), TRUE, 0)
    BY <1>6 DEF WriteCharging
  <2>2. 0 \in 0 .. OLD /\ "charging_started" \in Ids
    BY ChosenSockets DEF Ids
  <2>3. /\ QueueOK' /\ (missed => missed')
        /\ \A other : Waiting(other) => Waiting(other)'
        /\ ~missed' => Waiting("charging_started")'
    BY <1>1, <2>1, <2>2, BestIsChosen, Triggered
  <2>4. StillWanted'
    BY <1>1, <1>6, <2>3 DEF StillWanted, you
  <2> QED
    BY <2>3, <2>4
<1>7. ASSUME ~(charging = "off" /\ charging' = "on") PROVE QueueOK' /\ StillWanted'
  <2>1. UNCHANGED << queue, missed >>
    BY <1>7 DEF WriteCharging, NoTrigger
  <2>2. QueueOK' /\ \A id : Waiting(id) => Waiting(id)'
    BY <1>1, <2>1, QueueKept DEF QueueOK
  <2>3. StillWanted'
    BY <1>1, <1>3, <1>7, <2>1, <2>2 DEF StillWanted, you, EntitiesOK
  <2> QED
    BY <2>2, <2>3
<1>8. Behind'
  <2>1. UNCHANGED << active, stations, last_end >>
    BY <1>1 DEF vars
  <2>2. charging' # "unavailable" /\ charging' = (IF active' # None THEN "on" ELSE "off")
    BY <1>3, <2>1
  <2>3. ASSUME NEW s \in chosen \ unwritten'
        PROVE  status'[s] = stations'[s] /\ (s \in held_back' <=> HeldBack(s)')
    <3>1. s \notin unwritten
      BY <1>3, <2>3, ChosenSockets
    <3>2. charging # "unavailable"
      BY <1>3, <2>3, <3>1 DEF Behind
    <3> QED
      BY <1>1, <2>1, <2>3, <3>1, <3>2 DEF Behind, HeldBack
  <2> QED
    BY <2>2, <2>3 DEF Behind
<1> QED
  BY <1>2, <1>4, <1>5, <1>6, <1>7, <1>8

\* A socket sensor shows the snapshot once it is written.
LEMMA WriteSocketKeeps ==
    ASSUME Inv, NEW s \in chosen, WriteSocket(s)
    PROVE  Inv'
<1> USE DEF Inv, Types
<1> DEFINE shown == [ status EXCEPT ![s] = stations[s] ]
           held == IF HeldBack(s) THEN held_back \cup {s} ELSE held_back \ {s}
<1>1. UNCHANGED << vars, offer_while_charging, charging, you, pressed, stage, note, events,
                   untouched >>
  BY DEF WriteSocket
<1>2. TypeOK' /\ NoteOK' /\ YouOK'
  BY <1>1, TrackerKept, NoteKept, YouKept DEF YouOK
<1>3. /\ "charging" \notin unwritten /\ s \in unwritten /\ unwritten' = unwritten \ {s}
      /\ status' = shown /\ held_back' = held
      /\ age' = IF shown = status THEN age ELSE [ age EXCEPT ![s] = 0 ]
      /\ timers' = IF shown[s] # STATUS_AVAILABLE THEN timers \ {s}
                   ELSE IF status[s] \notin {None, STATUS_AVAILABLE} THEN timers \cup {s}
                   ELSE timers
  BY DEF WriteSocket
<1>4. \A t \in chosen : shown[t] = IF t = s THEN stations[s] ELSE status[t]
  BY DEF EntitiesOK
<1>5. EntitiesOK'
  <2>1. stations[s] \in Statuses \cup {None}
    BY ChosenSockets DEF TypeOK, Snapshots
  <2>2. status' \in [ chosen -> Statuses \cup {None} ]
    BY <1>3, <2>1 DEF EntitiesOK
  <2>3. age' \in [ chosen -> 0 .. freed_for ]
    BY <1>3, ChosenSockets DEF EntitiesOK
  <2>4. timers' \subseteq { t \in chosen : status'[t] = STATUS_AVAILABLE }
    BY <1>3, <1>4 DEF EntitiesOK
  <2>5. held_back' \subseteq chosen /\ unwritten' \subseteq chosen \cup {"charging"}
    BY <1>3 DEF EntitiesOK
  <2> QED
    BY <1>1, <2>2, <2>3, <2>4, <2>5 DEF EntitiesOK
<1>6. /\ QueueOK' /\ (missed => missed')
      /\ \A other : Waiting(other) => Waiting(other)'
  <2>1. CASE status[s] = STATUS_AVAILABLE /\ shown[s] # STATUS_AVAILABLE
    <3>1. PICK applies \in BOOLEAN : Trigger("taken", best(shown, held), applies, age[s])
      BY <2>1 DEF WriteSocket
    <3>2. age[s] \in 0 .. OLD /\ "taken" \in Ids
      BY ChosenSockets DEF EntitiesOK, Ids
    <3> QED
      BY <1>1, <3>1, <3>2, BestIsChosen, Triggered
  <2>2. CASE ~(status[s] = STATUS_AVAILABLE /\ shown[s] # STATUS_AVAILABLE)
    <3>1. UNCHANGED << queue, missed >>
      BY <2>2 DEF WriteSocket, NoTrigger
    <3> QED
      BY <1>1, <3>1, QueueKept DEF QueueOK
  <2> QED
    BY <2>1, <2>2
<1>7. Behind'
  <2>1. UNCHANGED << active, stations, last_end, charging >>
    BY <1>1 DEF vars
  <2>2. charging # "unavailable"
    BY <1>3 DEF Behind
  <2>3. "charging" \notin unwritten' => charging = IF active # None THEN "on" ELSE "off"
    BY <1>3, <2>2 DEF Behind
  <2>4. ASSUME NEW t \in chosen \ unwritten'
        PROVE  status'[t] = stations[t] /\ (t \in held_back' <=> HeldBack(t))
    <3>1. CASE t = s
      BY <1>3, <1>4, <3>1
    <3>2. CASE t # s
      BY <1>3, <1>4, <2>2, <2>4, <3>2 DEF Behind
    <3> QED
      BY <3>1, <3>2
  <2> QED
    BY <2>1, <2>2, <2>3, <2>4 DEF Behind, HeldBack
<1>8. StillWanted'
  BY <1>1, <1>6, WantedKept DEF QueueOK, you
<1> QED
  BY <1>2, <1>5, <1>6, <1>7, <1>8

\* After an outage nothing is promised of the notification.
LEMMA OutageKeeps ==
    ASSUME Inv, NEW reloaded \in BOOLEAN, Outage(reloaded)
    PROVE  Inv'
<1> USE DEF Inv, Types
<1>1. UNCHANGED << offer_while_charging, unwritten, you, pressed, queue, stage, note >>
  BY DEF Outage
<1>2. /\ unwritten = {} /\ charging' = "unavailable" /\ status' = [ s \in chosen |-> None ]
      /\ age' = [ s \in chosen |-> 0 ] /\ held_back' = {} /\ timers' = {} /\ missed' = TRUE
  BY DEF Outage, Published
<1>3. TypeOK'
  <2>1. CASE reloaded
    <3>1. active' = None /\ last_end' = NoEnd /\ pushed_end' = NoPushedEnd
          /\ last_command' = NoCommand /\ intents' = {}
          /\ running' = [ c \in Commands |-> NotRunning ]
          /\ stations' = [ s \in Sockets |-> None ]
      BY <2>1 DEF Outage
    <3> QED
      BY <3>1, TrustAssumption, WindowAssumption
         DEF TypeOK, NoEnd, NoPushedEnd, NoCommand, NotRunning, Snapshots, Intents
  <2>2. CASE ~reloaded
    BY <2>2, TrackerKept DEF Outage
  <2> QED
    BY <2>1, <2>2
<1>4. EntitiesOK'
  BY <1>1, <1>2, ChosenSockets DEF EntitiesOK
<1>5. YouOK'
  <2>1. untouched' \subseteq Sockets
    BY DEF Outage, YouOK
  <2>2. events' \in 0 .. MaxEvents
    BY OneMore DEF Outage
  <2> QED
    BY <1>1, <2>1, <2>2 DEF YouOK, you
<1>6. QueueOK' /\ NoteOK'
  BY <1>1, <1>2, QueueKept, NoteKept
<1>7. Behind'
  BY <1>1, <1>2 DEF Behind
<1>8. StillWanted'
  BY <1>2 DEF StillWanted
<1> QED
  BY <1>3, <1>4, <1>5, <1>6, <1>7, <1>8

-----------------------------------------------------------------------------
(* You and time                                                            *)

\* A step that only queues a run.
LEMMA OnlyTriggers ==
    ASSUME Inv, NEW id \in Ids, NEW of \in chosen \cup {None}, NEW applies \in BOOLEAN,
           Trigger(id, of, applies, 0), EntitiesOK', events' \in 0 .. MaxEvents,
           UNCHANGED << vars, offer_while_charging, charging, status, held_back, unwritten,
                        you, pressed, stage, note, untouched >>
    PROVE  Inv'
<1> USE DEF Inv, Types
<1>1. TypeOK' /\ YouOK' /\ NoteOK'
  BY TrackerKept, YouKept, NoteKept
<1>2. 0 \in 0 .. OLD
  BY ChosenSockets
<1>3. /\ QueueOK' /\ (missed => missed')
      /\ \A other : Waiting(other) => Waiting(other)'
  BY <1>2, Triggered
<1>4. Behind'
  BY BehindKept DEF vars
<1>5. StillWanted'
  BY <1>3, WantedKept DEF QueueOK, you
<1> QED
  BY <1>1, <1>3, <1>4, <1>5

\* Who leaves has the run that takes the offer back queued.
LEMMA MoveKeeps ==
    ASSUME Inv, Move
    PROVE  Inv'
<1> USE DEF Inv, Types
<1>1. UNCHANGED << vars, entities, pressed, stage, note >>
  BY DEF Move
<1>2. here' = ~here /\ moved' = 0 /\ ended_since' = FALSE /\ untouched' = {}
      /\ events' \in 0 .. MaxEvents
  BY OneMore DEF Move
<1>3. TypeOK' /\ EntitiesOK' /\ NoteOK'
  BY <1>1, TrackerKept, EntitiesKept, NoteKept
<1>4. YouOK'
  <2>1. here' \in BOOLEAN
    BY <1>2
  <2>2. moved' \in 0 .. OLD
    BY <1>2, ChosenSockets
  <2> QED
    BY <1>1, <1>2, <2>1, <2>2 DEF YouOK
<1>5. /\ QueueOK' /\ (missed => missed')
      /\ \A other : Waiting(other) => Waiting(other)'
      /\ ~here' /\ ~missed' => Waiting("leave")'
  <2>1. CASE here'
    <3>1. Trigger("arrive", best(status, held_back), TRUE, moved)
      BY <2>1 DEF Move
    <3>2. moved \in 0 .. OLD /\ "arrive" \in Ids
      BY DEF YouOK, Ids
    <3> QED
      BY <1>1, <2>1, <3>1, <3>2, BestIsChosen, Triggered
  <2>2. CASE ~here'
    <3>1. Trigger("leave", None, TRUE, 0)
      BY <2>2 DEF Move
    <3>2. 0 \in 0 .. OLD /\ "leave" \in Ids
      BY ChosenSockets DEF Ids
    <3> QED
      BY <1>1, <3>1, <3>2, Triggered
  <2> QED
    BY <2>1, <2>2
<1>6. Behind'
  BY <1>1, BehindKept DEF vars, entities
<1>7. StillWanted'
  BY <1>1, <1>5 DEF StillWanted, entities, QueueOK
<1> QED
  BY <1>3, <1>4, <1>5, <1>6, <1>7

LEMMA PreviewKeeps ==
    ASSUME Inv, Preview
    PROVE  Inv'
<1>1. UNCHANGED << vars, entities, you, pressed, stage, note, untouched >>
  BY DEF Preview
<1>2. events' \in 0 .. MaxEvents
  BY OneMore DEF Preview, Inv, Types
<1>3. EntitiesOK'
  BY <1>1, EntitiesKept DEF Inv, Types
<1>4. Trigger("preview", best(status, held_back), TRUE, 0) /\ "preview" \in Ids
  BY DEF Preview, Ids
<1> QED
  BY <1>1, <1>2, <1>3, <1>4, BestIsChosen, OnlyTriggers DEF entities

LEMMA TapKeeps ==
    ASSUME Inv, NEW s \in chosen, NEW os \in {"iPhone", "Android"}, Tap(s, os)
    PROVE  Inv'
<1>1. UNCHANGED << vars, entities, you, pressed, stage, note, untouched >>
  BY DEF Tap
<1>2. events' \in 0 .. MaxEvents
  BY OneMore DEF Tap, Inv, Types
<1>3. EntitiesOK'
  BY <1>1, EntitiesKept DEF Inv, Types
<1>4. PICK of \in chosen \cup {None} : Trigger("start_tapped", of, TRUE, 0)
  BY BestIsChosen DEF Tap
<1>5. "start_tapped" \in Ids
  BY DEF Ids
<1> QED
  BY <1>1, <1>2, <1>3, <1>4, <1>5, OnlyTriggers DEF entities

LEMMA FreedForKeeps ==
    ASSUME Inv, NEW s \in chosen, FreedFor(s)
    PROVE  Inv'
<1>1. UNCHANGED << vars, offer_while_charging, charging, status, held_back, unwritten, age,
                   you, pressed, stage, note, events, untouched >>
  BY DEF FreedFor
<1>2. EntitiesOK'
  BY <1>1 DEF FreedFor, Inv, Types, EntitiesOK
<1>3. events' \in 0 .. MaxEvents
  BY <1>1 DEF Inv, Types, YouOK
<1> DEFINE b == best(status, held_back)
<1>4. Trigger("freed", b, b = s, 0) /\ "freed" \in Ids
  BY DEF FreedFor, Ids
<1>5. b \in chosen \cup {None} /\ (b = s) \in BOOLEAN
  BY BestIsChosen
<1> HIDE DEF b
<1> QED
  BY <1>1, <1>2, <1>3, <1>4, <1>5, OnlyTriggers

\* The runs stay where they are.
LEMMA WaitKeeps ==
    ASSUME Inv, Wait
    PROVE  Inv'
<1> USE DEF Inv, Types
<1>1. UNCHANGED << offer_while_charging, charging, status, held_back, unwritten, timers,
                   here, ended_since, stage, note, missed, events, untouched >>
  BY DEF Wait, phone
<1>2. Tick /\ UNCHANGED << active, last_end, stations >>
  BY DEF Wait, Tick
<1>3. TypeOK'
  BY <1>2, NextTypeOK DEF Next
<1>4. EntitiesOK'
  <2>1. ASSUME NEW s \in chosen PROVE Older(age[s], freed_for) \in 0 .. freed_for
    BY ChosenSockets, OlderWithin DEF EntitiesOK
  <2>2. age' = [ s \in chosen |-> Older(age[s], freed_for) ]
    BY DEF Wait
  <2> QED
    BY <1>1, <2>1, <2>2 DEF EntitiesOK
<1>5. YouOK'
  <2>1. ASSUME NEW s \in chosen PROVE Older(pressed[s], RECENT) \in 0 .. RECENT
    BY ChosenSockets, OlderWithin DEF YouOK
  <2>2. Older(moved, OLD) \in 0 .. OLD
    BY ChosenSockets, OlderWithin DEF YouOK
  <2>3. pressed' = [ s \in chosen |-> Older(pressed[s], RECENT) ] /\ moved' = Older(moved, OLD)
    BY DEF Wait
  <2> QED
    BY <1>1, <2>1, <2>2, <2>3 DEF YouOK
<1>6. QueueOK' /\ \A id : Waiting(id) => Waiting(id)'
  <2>1. queue \in Seq(Runs) /\ DOMAIN queue = 1 .. Len(queue) /\ Len(queue) \in Nat
    BY DEF QueueOK
  <2>2. queue' = [ i \in 1 .. Len(queue) |-> [ queue[i] EXCEPT !.age = Older(@, OLD) ] ]
    BY <2>1 DEF Wait
  <2>3. ASSUME NEW i \in 1 .. Len(queue)
        PROVE  /\ [ queue[i] EXCEPT !.age = Older(@, OLD) ] \in Runs
               /\ [ queue[i] EXCEPT !.age = Older(@, OLD) ].id = queue[i].id
    <3>1. queue[i] \in Runs
      BY <2>1
    <3>2. Older(queue[i].age, OLD) \in 0 .. OLD
      BY <3>1, ChosenSockets, OlderWithin DEF Runs
    <3> QED
      BY <3>1, <3>2 DEF Runs
  <2>4. queue' \in Seq(Runs) /\ Len(queue') = Len(queue) /\ DOMAIN queue' = 1 .. Len(queue)
    BY <2>1, <2>2, <2>3
  <2>5. \A i \in 1 .. Len(queue) : queue'[i].id = queue[i].id
    BY <2>2, <2>3
  <2>6. queue # << >> => queue' # << >>
    BY <2>1, <2>4
  <2>7. QueueOK'
    BY <1>1, <2>4, <2>6 DEF QueueOK
  <2>8. \A id : Waiting(id) => Waiting(id)'
    BY <1>1, <2>1, <2>4, <2>5 DEF Waiting
  <2> QED
    BY <2>7, <2>8
<1>7. NoteOK' /\ Behind'
  BY <1>1, <1>2, NoteKept, BehindKept
<1>8. StillWanted'
  BY <1>1, <1>6, WantedKept DEF QueueOK
<1> QED
  BY <1>3, <1>4, <1>5, <1>6, <1>7, <1>8

-----------------------------------------------------------------------------
(* The run under way                                                       *)

\* What a step of the run may send: no real offer, nothing while it is not
\* the run that takes one back, or an offer that is wanted.
Sends ==
    \/ /\ note' \in Notes /\ (note'.kind = "offer" <=> note'.socket # None)
       /\ note'.kind = "offer" => note'.preview \/ (here /\ (offer_while_charging \/ charging = "off"))
       /\ missed' = FALSE
    \/ /\ UNCHANGED phone
       /\ stage = "ready" => Head(queue).id \notin {"leave", "charging_started"}

\* With it the run ends or goes on.
LEMMA RunKeeps ==
    ASSUME Inv, queue # << >>, Sends, EndRun \/ \E next \in Stages : Goto(next),
           TypeOK', EntitiesOK', YouOK', Behind',
           UNCHANGED << here, offer_while_charging, charging >>
    PROVE  Inv'
<1> USE DEF Inv, Types
<1>1. missed' \in BOOLEAN /\ NoteOK'
  BY DEF Sends, phone, NoteOK, QueueOK
<1>2. /\ QueueOK'
      /\ \A id : Waiting(id) /\ (stage = "ready" => Head(queue).id # id) => Waiting(id)'
  BY <1>1, RunEnds, RunGoesOn
<1>3. StillWanted'
  <2>1. CASE UNCHANGED phone /\ (stage = "ready" => Head(queue).id \notin {"leave", "charging_started"})
    <3>1. \A id \in {"leave", "charging_started"} : Waiting(id) => Waiting(id)'
      BY <1>2, <2>1
    <3> QED
      BY <2>1, <3>1, WantedKept DEF phone, QueueOK
  <2>2. CASE note'.kind = "offer" =>
               note'.preview \/ (here /\ (offer_while_charging \/ charging = "off"))
    BY <2>2 DEF StillWanted
  <2> QED
    BY <2>1, <2>2 DEF Sends
<1> QED
  BY <1>1, <1>2, <1>3

\* What runs send are notifications.
LEMMA Sent ==
    /\ \A kind \in {"none", "none_free", "starting", "told"} :
          Note(kind) \in Notes /\ Note(kind).kind = kind /\ Note(kind).socket = None
    /\ NoNote \in Notes /\ NoNote.kind = "none" /\ NoNote.socket = None
    /\ \A run \in Runs :
          /\ Offer(run) \in Notes /\ (Offer(run).kind = "offer" <=> Offer(run).socket # None)
          /\ Offer(run).kind = "offer" => (Offer(run).preview <=> run.id = "preview")
BY ChosenSockets DEF Note, NoNote, Notes, Offer, Runs

\* The beginning of a run.
LEMMA BeginKeeps ==
    ASSUME Inv, Begin
    PROVE  Inv'
<1> USE DEF Inv, Types
<1> DEFINE run == Head(queue)
<1>1. queue # << >> /\ stage = "ready" /\ UNCHANGED << vars, environment, pressed >>
  BY DEF Begin
<1>2. run \in Runs
  BY <1>1 DEF QueueOK
<1>3. PICK only_if \in BOOLEAN :
        \/ StartTapped(run) \/ Left(run)
        \/ ChargingStarted(run, only_if) \/ Taken(run, only_if) \/ Arrived(run, only_if)
  BY DEF Begin
<1> HIDE DEF run
<1>4. TypeOK' /\ EntitiesOK' /\ YouOK' /\ Behind'
  <2>1. events' \in 0 .. MaxEvents
    BY <1>1 DEF environment, YouOK
  <2> QED
    BY <1>1, <2>1, TrackerKept, EntitiesKept, YouKept, BehindKept DEF environment, entities, vars
<1>5. UNCHANGED << here, offer_while_charging, charging >>
  BY <1>1 DEF environment, you, entities
<1>6. Sends /\ (EndRun \/ \E next \in Stages : Goto(next))
  <2>1. CASE StartTapped(run)
    <3>1. run.id = "start_tapped"
      BY <2>1 DEF StartTapped
    <3>2. \/ Send(Note("told")) /\ EndRun
          \/ SendNothing /\ EndRun
          \/ Send(Note("starting")) /\ Goto("starting")
      BY <2>1 DEF StartTapped
    <3> QED
      BY <3>1, <3>2, Sent DEF Sends, Send, SendNothing, run, Stages
  <2>2. CASE Left(run)
    BY <2>2, Sent DEF Left, Sends, Send
  <2>3. CASE ChargingStarted(run, only_if)
    <3>1. run.id = "charging_started" /\ Goto("watching")
      BY <2>3 DEF ChargingStarted
    <3>2. \/ here /\ offer_while_charging /\ Send(Offer(run))
          \/ Send(NoNote)
      BY <2>3 DEF ChargingStarted
    <3> QED
      BY <1>2, <3>1, <3>2, Sent DEF Sends, Send, Stages
  <2>4. CASE Taken(run, only_if)
    <3>1. run.id = "taken" /\ EndRun
      BY <2>4 DEF Taken
    <3>2. (Wanted /\ Send(Offer(run))) \/ SendNothing
      BY <2>4 DEF Taken
    <3> QED
      BY <1>2, <3>1, <3>2, Sent DEF Sends, Send, SendNothing, Wanted, run
  <2>5. CASE Arrived(run, only_if)
    <3>1. run.id \in {"arrive", "freed", "preview"} /\ EndRun
      BY <2>5 DEF Arrived
    <3>2. ((run.id = "preview" \/ Wanted) /\ Send(Offer(run))) \/ SendNothing
      BY <2>5 DEF Arrived
    <3> QED
      BY <1>2, <3>1, <3>2, Sent DEF Sends, Send, SendNothing, Wanted, run
  <2> QED
    BY <1>3, <2>1, <2>2, <2>3, <2>4, <2>5
<1> QED
  BY <1>1, <1>4, <1>5, <1>6, RunKeeps

\* A stage of the run that leaves the tracker and the entities alone.
LEMMA StageKeeps ==
    ASSUME Inv, stage # "ready", Sends, EndRun \/ \E next \in Stages : Goto(next),
           UNCHANGED << vars, environment, pressed >>
    PROVE  Inv'
<1> USE DEF Inv, Types
<1>1. events' \in 0 .. MaxEvents
  BY DEF environment, YouOK
<1>2. TypeOK' /\ EntitiesOK' /\ YouOK' /\ Behind'
  BY <1>1, TrackerKept, EntitiesKept, YouKept, BehindKept DEF environment, entities, vars
<1> QED
  BY <1>2, RunKeeps DEF QueueOK, environment, you, entities

LEMMA PressKeeps ==
    ASSUME Inv, Press
    PROVE  Inv'
<1> USE DEF Inv, Types
<1> DEFINE s == Head(queue).best
<1>1. stage = "starting" /\ queue # << >> /\ UNCHANGED << environment, phone >>
  BY DEF Press, SendNothing, QueueOK
<1>2. CASE CanStart(s)
  <2>1. pressed' = [ pressed EXCEPT ![s] = 0 ] /\ Goto("pressing")
    BY <1>2 DEF Press
  <2>2. PICK c \in Commands : CommandStarted(c, "start", s)
    BY <1>2 DEF Press
  <2>3. s \in chosen
    <3>1. Head(queue) \in Runs
      BY <1>1 DEF QueueOK
    <3>2. s \in chosen \cup {None}
      BY <3>1 DEF Runs
    <3> QED
      BY <1>2, <3>2 DEF CanStart
  <2> HIDE DEF s
  <2>4. TypeOK'
    <3>1. StartOrStop
      BY <2>2, <2>3, ChosenSockets DEF StartOrStop
    <3> QED
      BY <3>1, NextTypeOK DEF Next
  <2>5. YouOK'
    <3>1. 0 \in 0 .. RECENT
      BY ChosenSockets
    <3>2. pressed \in [ chosen -> 0 .. RECENT ]
      BY DEF YouOK
    <3>3. pressed' \in [ chosen -> 0 .. RECENT ]
      BY ONLY <2>1, <3>1, <3>2
    <3> QED
      BY <1>1, <3>3 DEF YouOK, environment, you
  <2>6. EntitiesOK' /\ Behind'
    <3>1. UNCHANGED << active, stations, last_end >>
      BY <2>2 DEF CommandStarted
    <3> QED
      BY <1>1, <3>1, EntitiesKept, BehindKept DEF environment, entities
  <2> QED
    BY <1>1, <2>1, <2>4, <2>5, <2>6, RunKeeps DEF Sends, Stages, environment, you, entities
<1>3. CASE ~CanStart(s)
  BY <1>1, <1>3, StageKeeps DEF Press, Sends, Stages
<1> QED
  BY <1>2, <1>3

\* Its end is published, unless the entities are unavailable.
LEMMA CommandEndsKeeps ==
    ASSUME Inv, CommandEnds
    PROVE  Inv'
<1> USE DEF Inv, Types
<1>1. /\ stage = "pressing" /\ queue # << >> /\ unwritten = {}
      /\ UNCHANGED << offer_while_charging, charging, status, held_back, age, timers, you,
                      pressed, events, untouched, phone >>
  BY DEF CommandEnds, SendNothing, QueueOK, Published
<1>2. \/ \E c \in Commands, rejected \in BOOLEAN : CommandFinished(c, rejected)
      \/ UNCHANGED vars
  BY DEF CommandEnds
<1>3. Goto("charging") \/ Goto("unconfirmed")
  BY DEF CommandEnds
<1>4. TypeOK'
  BY <1>2, NextTypeOK, TrackerKept DEF Finish, Next
<1>5. unwritten' = {} \/ (charging # "unavailable" /\ unwritten' = chosen \cup {"charging"})
      \/ unwritten' = unwritten
  BY <1>1 DEF CommandEnds
<1>6. EntitiesOK' /\ Behind'
  <2>1. UNCHANGED << active, last_end, stations >>
    BY <1>2 DEF CommandFinished, vars
  <2> QED
    BY <1>1, <1>5, <2>1 DEF EntitiesOK, Behind, HeldBack
<1>7. YouOK'
  BY <1>1, YouKept DEF YouOK
<1> QED
  BY <1>1, <1>3, <1>4, <1>6, <1>7, RunKeeps DEF Sends, Stages, you

LEMMA LastStagesKeep ==
    ASSUME Inv, Report \/ Watch \/ ActionsEnd
    PROVE  Inv'
<1>1. CASE Report
  <2>1. stage # "ready" /\ EndRun /\ UNCHANGED << vars, environment, pressed >>
    BY <1>1 DEF Report
  <2>2. Send(NoNote) \/ Send(Note("told"))
    BY <1>1 DEF Report
  <2>3. Sends
    BY <2>2, Sent DEF Sends, Send
  <2> QED
    BY <2>1, <2>3, StageKeeps
<1>2. CASE Watch
  BY <1>2, StageKeeps DEF Watch, Sends, SendNothing, Stages
<1>3. CASE ActionsEnd
  BY <1>3, StageKeeps DEF ActionsEnd, Sends, SendNothing
<1> QED
  BY <1>1, <1>2, <1>3

-----------------------------------------------------------------------------
LEMMA InvInit == OfferInit => Inv
<1> SUFFICES ASSUME OfferInit PROVE Inv
  OBVIOUS
<1> USE DEF OfferInit
<1>1. TypeOK
  BY TrustAssumption, WindowAssumption
     DEF Init, TypeOK, NoEnd, NoPushedEnd, NotRunning, NoCommand, Snapshots, Intents
<1>2. /\ 0 \in 0 .. freed_for /\ 0 \in 0 .. MaxEvents /\ OLD \in 0 .. OLD /\ RECENT \in 0 .. RECENT
      /\ 0 <= MaxRuns
  BY ChosenSockets
<1>6. EntitiesOK
  BY <1>2 DEF EntitiesOK
<1>7. YouOK
  <2>1. pressed \in [ chosen -> 0 .. RECENT ]
    BY <1>2
  <2>2. here \in BOOLEAN /\ ended_since \in BOOLEAN /\ moved \in 0 .. OLD
        /\ events \in 0 .. MaxEvents /\ untouched \subseteq Sockets
    BY <1>2
  <2> QED
    BY <2>1, <2>2 DEF YouOK
<1>3. QueueOK
  <2>1. queue \in Seq(Runs) /\ Len(queue) = 0
    OBVIOUS
  <2>2. stage = "ready" /\ missed \in BOOLEAN
    OBVIOUS
  <2> QED
    BY <1>2, <2>1, <2>2 DEF QueueOK, Stages
<1>4. NoteOK /\ StillWanted
  BY Sent DEF NoteOK, StillWanted
<1>5. Behind
  BY DEF Behind
<1> QED
  BY <1>1, <1>3, <1>4, <1>5, <1>6, <1>7 DEF Inv, Types

LEMMA InvNext == Inv /\ [OfferNext]_offerVars => Inv'
<1> SUFFICES ASSUME Inv, [OfferNext]_offerVars PROVE Inv'
  OBVIOUS
<1>1. CASE UNCHANGED offerVars
  <2>1. UNCHANGED << vars, entities, you, pressed, queue, stage, phone, events, untouched >>
    BY <1>1 DEF offerVars
  <2>2. TypeOK' /\ EntitiesOK' /\ YouOK' /\ NoteOK' /\ Behind'
    BY <2>1, TrackerKept, EntitiesKept, YouKept, NoteKept, BehindKept
       DEF Inv, Types, phone, YouOK, vars, entities
  <2>3. QueueOK' /\ \A id : Waiting(id) => Waiting(id)'
    BY <2>1, QueueKept DEF Inv, Types, phone, QueueOK
  <2>4. StillWanted'
    BY <2>1, <2>3, WantedKept DEF Inv, Types, phone, QueueOK, you, entities
  <2> QED
    BY <2>2, <2>3, <2>4 DEF Inv, Types
<1> QED
  BY <1>1, PublishKeeps, WriteChargingKeeps, WriteSocketKeeps, OutageKeeps, MoveKeeps,
     PreviewKeeps, TapKeeps, FreedForKeeps, WaitKeeps, BeginKeeps, PressKeeps,
     CommandEndsKeeps, LastStagesKeep
  DEF OfferNext, Write, RunStep

\* The runs are no more than Home Assistant queues, a notification is an offer
\* exactly if it names a socket, and with all of them written the entities
\* show the snapshot (MerData.held_back, _publish).
THEOREM OfferIsTyped == OfferSpec => []OfferTypeOK
BY InvInit, InvNext, InvIsTyped, PTL DEF OfferSpec

\* Once every run is over, a real offer shows only while you are there and
\* not charging, unless you asked for that: whatever runs the one that takes
\* it back was queued behind (offer_free_charger.yaml, mode: queued).
THEOREM OffersOnlyWhereItIsWanted == OfferSpec => []OffersOnlyWhereWanted
<1>1. Inv => OffersOnlyWhereWanted
  <2> SUFFICES ASSUME Inv, queue = << >>, note.kind = "offer", ~note.preview, ~missed
               PROVE  here /\ (offer_while_charging \/ charging = "off")
    BY DEF OffersOnlyWhereWanted, Settled
  <2>1. \A id : ~Waiting(id)
    BY DEF Waiting
  <2> QED
    BY <2>1 DEF Inv, StillWanted
<1> QED
  BY <1>1, InvInit, InvNext, PTL DEF OfferSpec

-----------------------------------------------------------------------------
(* Nothing untouched is offered                                            *)

\* A socket untouched since before your charge ended is held back whenever it
\* is free: the left one because nobody has reused it.  There are only such
\* once a charge of yours has ended since you came.
UntouchedHeld ==
    /\ pushed_end.socket = None
    /\ untouched # {} => active = None /\ ended_since
    /\ \A s \in untouched \cap chosen :
          IF s = last_end.session
          THEN ~last_end.reused /\ (last_end.freed => stations[s] \notin IN_USE_STATUSES)
          ELSE s \in last_end.held_back

\* Only the first run may be one that did not wait.  If it has yet to begin,
\* nothing has changed since it was triggered, and what it is about to offer
\* is not untouched, unless its entity has yet to be written.
FirstIsFresh ==
    /\ \A i \in 2 .. Len(queue) : queue[i].waited
    /\ queue # << >> /\ stage = "ready" /\ ~queue[1].waited /\ queue[1].id \in {"freed", "taken"} =>
         \/ queue[1].best \notin untouched \/ queue[1].best \in unwritten
         \/ offer_while_charging \/ charging # "off"

Kept == LeftSocketHeld /\ UntouchedHeld

\* What the tracker and your history are left as.
LEMMA KeptAlone ==
    ASSUME Kept, UNCHANGED << active, last_end, stations, ended_since, untouched >>,
           pushed_end'.socket = pushed_end.socket
    PROVE  Kept'
BY DEF Kept, LeftSocketHeld, UntouchedHeld

\* A snapshot is published: what stays untouched stays held back.
LEMMA PublishKeepsHeld ==
    ASSUME Inv, Kept, NEW found \in Sockets \cup {None},
           NEW st \in [ Sockets -> Statuses \cup {None} ], Publish(found, st)
    PROVE  Kept'
<1> USE DEF Kept
<1> DEFINE end == RecordedEnd(found)
<1>1. TypeOK /\ st \in Snapshots /\ untouched \subseteq Sockets
  BY DEF Inv, Types, YouOK, Snapshots
<1>2. Polled(found, st) /\ pushed_end.socket = None
  BY DEF Publish, UntouchedHeld
<1>3. Observed(found, st) /\ pushed_end'.socket = None
  BY <1>2 DEF Polled, TrustedEnd, NoPushedEnd
<1>4. LeftSocketHeld'
  BY <1>1, <1>3, ObservedHoldsRightly
<1>5. active' = found /\ stations' = st /\ last_end' = follow_held_back(end, st) /\ end \in Ended
  BY <1>1, <1>3, RecordedEndType DEF Observed
<1>6. ended_since' = (ended_since \/ Ends(found))
  BY DEF Publish
<1>7. STATUS_AVAILABLE \notin IN_USE_STATUSES
  BY StatusesAssumption DEF STATUS_AVAILABLE, STATUSES, IN_USE_STATUSES, CHARGING_STATUSES
<1>8. CASE found # None
  <2>1. untouched' = {}
    BY <1>8 DEF Publish
  <2> QED
    BY <1>3, <1>4, <2>1 DEF UntouchedHeld
<1>9. CASE found = None /\ Ends(found)
  <2>1. untouched' = (Available(stations) \cap Available(st)) \cup {active}
    BY <1>9 DEF Publish
  <2>2. /\ end.session = active /\ active # None /\ ~end.freed /\ ~end.reused
        /\ end.held_back = Available(stations) \ {active}
    BY <1>9 DEF RecordedEnd, NoEnd, Ends
  <2> HIDE DEF end
  <2>3. /\ last_end'.session = active
        /\ last_end'.freed = (st[active] = STATUS_AVAILABLE)
        /\ ~last_end'.reused
    BY <1>5, <2>2 DEF follow_held_back
  <2>4. ASSUME NEW s \in untouched', s # active PROVE s \in last_end'.held_back
    <3>1. s \in end.held_back /\ st[s] = STATUS_AVAILABLE
      BY <2>1, <2>2, <2>4 DEF Available
    <3> QED
      BY <1>5, <2>2, <2>4, <3>1, FollowReleases
  <2> QED
    BY <1>3, <1>4, <1>5, <1>6, <1>7, <1>9, <2>3, <2>4 DEF UntouchedHeld
<1>10. CASE found = None /\ ~Ends(found)
  <2>1. untouched' = { s \in untouched :
                         \/ st[s] = STATUS_AVAILABLE
                         \/ /\ s = last_end.session
                            /\ st[s] \in IN_USE_STATUSES => stations[s] \in IN_USE_STATUSES }
    BY <1>10 DEF Publish
  <2>2. end = last_end
    BY <1>10 DEF RecordedEnd
  <2>3. untouched' # {} => active' = None /\ ended_since'
    BY <1>5, <1>6, <1>10, <2>1 DEF UntouchedHeld
  <2>4. ASSUME NEW s \in untouched' \cap chosen
        PROVE  IF s = last_end'.session
               THEN ~last_end'.reused /\ (last_end'.freed => st[s] \notin IN_USE_STATUSES)
               ELSE s \in last_end'.held_back
    <3>1. s \in untouched \cap chosen /\ s # None
      BY <2>1, <2>4, ChosenSockets
    <3>2. last_end'.session = last_end.session
      BY <1>5, <2>2 DEF follow_held_back
    <3>3. CASE s = last_end.session
      <4>1. /\ last_end'.freed = (last_end.freed \/ st[s] = STATUS_AVAILABLE)
            /\ last_end'.reused = (last_end.reused \/ (last_end.freed /\ st[s] \in IN_USE_STATUSES))
        BY <1>5, <2>2, <3>1, <3>3 DEF follow_held_back
      <4>2. ~last_end.reused /\ (last_end.freed => stations[s] \notin IN_USE_STATUSES)
        BY <3>1, <3>3 DEF UntouchedHeld
      <4>3. st[s] \in IN_USE_STATUSES => stations[s] \in IN_USE_STATUSES
        BY <1>7, <2>1, <2>4
      <4> QED
        BY <1>7, <3>2, <3>3, <4>1, <4>2, <4>3
    <3>4. CASE s # last_end.session
      <4>1. s \in last_end.held_back /\ st[s] = STATUS_AVAILABLE
        BY <2>1, <2>4, <3>1, <3>4 DEF UntouchedHeld
      <4>2. s \in last_end'.held_back
        <5>1. CASE last_end.session = None
          BY <1>5, <2>2, <4>1, <5>1 DEF follow_held_back
        <5>2. CASE last_end.session # None
          BY <1>5, <2>2, <3>4, <4>1, <5>2, FollowReleases
        <5> QED
          BY <5>1, <5>2
      <4> QED
        BY <3>2, <3>4, <4>2
    <3> QED
      BY <3>3, <3>4
  <2> QED
    BY <1>3, <1>4, <1>5, <2>3, <2>4 DEF UntouchedHeld
<1> QED
  BY <1>8, <1>9, <1>10

\* After a reload the tracker knows of no end, and you of no charge.
LEMMA OutageKeepsHeld ==
    ASSUME Kept, NEW reloaded \in BOOLEAN, Outage(reloaded)
    PROVE  Kept'
<1>1. CASE reloaded
  BY <1>1 DEF Outage, Kept, LeftSocketHeld, UntouchedHeld, NoEnd, NoPushedEnd, you
<1>2. CASE ~reloaded
  BY <1>2, KeptAlone DEF Outage, vars, you
<1> QED
  BY <1>1, <1>2

LEMMA KeptNext == Inv /\ Kept /\ [OfferNext]_offerVars => Kept'
<1> SUFFICES ASSUME Inv, Kept, [OfferNext]_offerVars PROVE Kept'
  OBVIOUS
<1>1. CASE Move
  BY <1>1 DEF Move, vars, Kept, LeftSocketHeld, UntouchedHeld
<1>2. CASE Wait
  BY <1>2, KeptAlone DEF Wait, Tick
<1>3. CASE Begin \/ Report \/ Watch \/ ActionsEnd
  BY <1>3, KeptAlone DEF Begin, Report, Watch, ActionsEnd, environment, vars, you
<1>4. CASE Press
  BY <1>4, KeptAlone DEF Press, CommandStarted, environment, vars, you
<1>5. CASE CommandEnds
  BY <1>5, KeptAlone DEF CommandEnds, CommandFinished, vars, you
<1>6. CASE \/ Write \/ Preview
           \/ \E s \in chosen, os \in {"iPhone", "Android"} : Tap(s, os)
           \/ \E s \in chosen : FreedFor(s)
  BY <1>6, KeptAlone DEF Write, WriteCharging, WriteSocket, Preview, Tap, FreedFor, vars, you
<1>7. CASE UNCHANGED offerVars
  BY <1>7, KeptAlone DEF offerVars, vars, you
<1> QED
  BY <1>1, <1>2, <1>3, <1>4, <1>5, <1>6, <1>7, PublishKeepsHeld, OutageKeepsHeld
  DEF OfferNext, RunStep

\* A run queued behind another waits; one that does not starts at once.
LEMMA TriggeredFresh ==
    ASSUME QueueOK, FirstIsFresh, Started, NEW id, NEW of, NEW applies, NEW since,
           Trigger(id, of, applies, since), stage' = stage,
           id \in {"freed", "taken"} =>
             \/ of \notin untouched' \/ of \in unwritten'
             \/ offer_while_charging' \/ charging' # "off"
    PROVE  FirstIsFresh'
<1> DEFINE run == [ id |-> id, best |-> of, applies |-> applies, age |-> since,
                    waited |-> queue # << >> ]
<1>1. run.id = id /\ run.best = of /\ run.waited = (queue # << >>)
  OBVIOUS
<1> HIDE DEF run
<1>2. queue' = (IF Len(queue) < MaxRuns THEN Append(queue, run) ELSE queue)
  BY DEF Trigger, run
<1>3. queue \in Seq(Runs) /\ Len(queue) \in Nat
  BY DEF QueueOK
<1>4. CASE queue' = queue
  <2>1. queue = << >> \/ stage' # "ready"
    BY DEF Started
  <2> QED
    BY <1>4, <2>1 DEF FirstIsFresh
<1>5. CASE queue' = Append(queue, run)
  <2>1. /\ Len(queue') = Len(queue) + 1
        /\ \A i \in 1 .. Len(queue) : queue'[i] = queue[i]
        /\ queue'[Len(queue) + 1] = run
    BY <1>3, <1>5
  <2>2. CASE queue = << >>
    <3>1. Len(queue') = 1 /\ queue'[1] = run
      BY <2>1, <2>2
    <3> QED
      BY <1>1, <3>1 DEF FirstIsFresh
  <2>3. CASE queue # << >>
    <3>1. stage' # "ready"
      BY <2>3 DEF Started
    <3>2. ASSUME NEW i \in 2 .. Len(queue') PROVE queue'[i].waited
      <4>1. i \in 2 .. Len(queue) \/ i = Len(queue) + 1
        BY <1>3, <2>1
      <4>2. CASE i \in 2 .. Len(queue)
        BY <1>3, <2>1, <4>2 DEF FirstIsFresh
      <4>3. CASE i = Len(queue) + 1
        BY <1>1, <2>1, <2>3, <4>3
      <4> QED
        BY <4>1, <4>2, <4>3
    <3> QED
      BY <3>1, <3>2 DEF FirstIsFresh
  <2> QED
    BY <2>2, <2>3
<1> QED
  BY <1>2, <1>4, <1>5

\* A step that leaves the queue alone: the run under way has begun.
LEMMA QueueAloneFresh ==
    ASSUME FirstIsFresh, Started, UNCHANGED << queue, stage >>
    PROVE  FirstIsFresh'
BY DEF FirstIsFresh, Started

\* Those behind a run that ends have waited.
LEMMA RunFresh ==
    ASSUME QueueOK, FirstIsFresh, queue # << >>,
           EndRun \/ \E next \in Stages \ {"ready"} : Goto(next)
    PROVE  FirstIsFresh'
<1>1. CASE EndRun
  <2>1. queue' = Tail(queue)
    BY <1>1 DEF EndRun
  <2>2. queue \in Seq(Runs) /\ Len(queue) \in Nat \ {0}
    BY DEF QueueOK
  <2>3. /\ queue' \in Seq(Runs) /\ Len(queue') = Len(queue) - 1
        /\ \A i \in 1 .. Len(queue) - 1 : queue'[i] = queue[i + 1]
    BY <2>1, <2>2
  <2>4. \A i \in 1 .. Len(queue') : queue'[i].waited
    <3> SUFFICES ASSUME NEW i \in 1 .. Len(queue') PROVE queue'[i].waited
      OBVIOUS
    <3>1. i + 1 \in 2 .. Len(queue) /\ queue'[i] = queue[i + 1]
      BY <2>2, <2>3
    <3> QED
      BY <3>1 DEF FirstIsFresh
  <2>5. queue' # << >> => 1 \in 1 .. Len(queue')
    BY <2>2, <2>3
  <2>6. \A i \in 2 .. Len(queue') : i \in 1 .. Len(queue')
    BY <2>2, <2>3
  <2> QED
    BY <2>4, <2>5, <2>6 DEF FirstIsFresh
<1>2. CASE \E next \in Stages \ {"ready"} : Goto(next)
  BY <1>2 DEF Goto, FirstIsFresh
<1> QED
  BY <1>1, <1>2

\* The best socket, if it shows as it is, is not untouched: it would be held
\* back.
LEMMA BestIsTouched ==
    ASSUME Inv, Kept, NEW shown, NEW held,
           LET b == best(shown, held)
           IN  b \in chosen => shown[b] = stations[b] /\ (HeldBack(b) => b \in held)
    PROVE  \/ best(shown, held) \notin untouched
           \/ offer_while_charging \/ charging # "off"
<1> DEFINE b == best(shown, held)
<1> SUFFICES ASSUME b \in untouched, ~offer_while_charging, charging = "off" PROVE FALSE
  OBVIOUS
<1>1. untouched \subseteq Sockets /\ active = None /\ ended_since
  BY DEF Inv, Types, YouOK, Kept, UntouchedHeld
<1>2. b \in free(shown, held)
  BY <1>1, BestIsFree, SocketsAssumption
<1>3. ended_here
  BY <1>1 DEF ended_here
<1>4. b \in chosen /\ shown[b] = STATUS_AVAILABLE /\ b \notin held
  BY <1>2, <1>3 DEF free
<1>5. shown[b] = stations[b] /\ ~HeldBack(b)
  BY <1>4
<1> HIDE DEF b
<1>6. stations[b] = STATUS_AVAILABLE /\ b \notin last_end.held_back
  BY <1>1, <1>4, <1>5 DEF HeldBack
<1>7. b = last_end.session /\ ~last_end.reused
  BY <1>4, <1>6 DEF Kept, UntouchedHeld
<1>8. last_end.session # None /\ stations[b] # None
  BY <1>1, <1>4, <1>6, <1>7, ChosenSockets, StatusesAssumption DEF STATUS_AVAILABLE, STATUSES
<1> QED
  BY <1>6, <1>7, <1>8 DEF Kept, LeftSocketHeld

LEMMA FreshNext == Inv /\ Kept /\ FirstIsFresh /\ [OfferNext]_offerVars => FirstIsFresh'
<1> SUFFICES ASSUME Inv, Kept, FirstIsFresh, [OfferNext]_offerVars PROVE FirstIsFresh'
  OBVIOUS
<1>1. QueueOK
  BY DEF Inv, Types
<1>2. CASE \E found, st : Publish(found, st)
  BY <1>2, QueueAloneFresh DEF Publish
<1>3. CASE WriteCharging
  <2>1. Started /\ stage' = stage
    BY <1>3 DEF WriteCharging
  <2>2. \/ UNCHANGED queue
        \/ Trigger("charging_started", best(status, held_back), TRUE, 0)
    BY <1>3 DEF WriteCharging, NoTrigger
  <2> QED
    BY <1>1, <2>1, <2>2, QueueAloneFresh, TriggeredFresh
<1>4. ASSUME NEW s \in chosen, WriteSocket(s) PROVE FirstIsFresh'
  <2> DEFINE shown == [ status EXCEPT ![s] = stations[s] ]
             held == IF HeldBack(s) THEN held_back \cup {s} ELSE held_back \ {s}
             b == best(shown, held)
  <2>1. /\ Started /\ stage' = stage /\ unwritten' = unwritten \ {s}
        /\ UNCHANGED << untouched, offer_while_charging, charging >>
    BY <1>4 DEF WriteSocket
  <2>2. UNCHANGED queue \/ \E applies : Trigger("taken", b, applies, age[s])
    BY <1>4 DEF WriteSocket, NoTrigger
  <2>3. \/ b \notin untouched' \/ b \in unwritten'
        \/ offer_while_charging' \/ charging' # "off"
    <3> SUFFICES ASSUME b \notin unwritten', charging = "off"
                 PROVE  b \notin untouched \/ offer_while_charging \/ charging # "off"
      BY <2>1
    <3>1. ASSUME b \in chosen PROVE shown[b] = stations[b] /\ (HeldBack(b) => b \in held)
      <4> HIDE DEF b
      <4>1. CASE b = s
        BY <3>1, <4>1 DEF Inv, Types, EntitiesOK
      <4>2. CASE b # s
        <5>1. b \in chosen \ unwritten
          BY <2>1, <3>1, <4>2
        <5> QED
          BY <4>2, <5>1 DEF Inv, Types, EntitiesOK, Behind
      <4> QED
        BY <4>1, <4>2
    <3> QED
      BY <3>1, BestIsTouched
  <2> HIDE DEF b
  <2> QED
    BY <1>1, <2>1, <2>2, <2>3, QueueAloneFresh, TriggeredFresh
<1>5. CASE \E reloaded \in BOOLEAN : Outage(reloaded)
  BY <1>5, QueueAloneFresh DEF Outage
<1>6. CASE Move
  <2>1. Started /\ stage' = stage
    BY <1>6 DEF Move
  <2>2. \/ Trigger("arrive", best(status, held_back), TRUE, moved)
        \/ Trigger("leave", None, TRUE, 0)
    BY <1>6 DEF Move
  <2> QED
    BY <1>1, <2>1, <2>2, TriggeredFresh
<1>7. CASE Preview
  BY <1>1, <1>7, TriggeredFresh DEF Preview
<1>8. ASSUME NEW s, NEW os, Tap(s, os) PROVE FirstIsFresh'
  <2>1. Started /\ stage' = stage /\ \E of : Trigger("start_tapped", of, TRUE, 0)
    BY <1>8 DEF Tap
  <2> QED
    BY <1>1, <2>1, TriggeredFresh
<1>9. ASSUME NEW s \in chosen, FreedFor(s) PROVE FirstIsFresh'
  <2>1. /\ Started /\ Published /\ stage' = stage
        /\ UNCHANGED << untouched, offer_while_charging, charging >>
        /\ Trigger("freed", best(status, held_back), best(status, held_back) = s, 0)
    BY <1>9 DEF FreedFor
  <2> QED
    <3>1. charging = "off" =>
            \A b \in chosen : status[b] = stations[b] /\ (HeldBack(b) => b \in held_back)
      BY <2>1 DEF Published, Inv, Behind
    <3>2. \/ best(status, held_back) \notin untouched
          \/ offer_while_charging \/ charging # "off"
      BY <3>1, BestIsTouched
    <3> QED
      BY <1>1, <2>1, <3>2, TriggeredFresh
<1>10. CASE Wait
  <2>1. Started /\ stage' = stage
        /\ queue' = [ i \in DOMAIN queue |-> [ queue[i] EXCEPT !.age = Older(@, OLD) ] ]
    BY <1>10 DEF Wait
  <2>2. queue \in Seq(Runs) /\ DOMAIN queue = 1 .. Len(queue) /\ Len(queue) \in Nat
    BY <1>1 DEF QueueOK
  <2>3. \A i \in 1 .. Len(queue) : queue'[i].waited = queue[i].waited
    <3> SUFFICES ASSUME NEW i \in 1 .. Len(queue) PROVE queue'[i].waited = queue[i].waited
      OBVIOUS
    <3>1. queue[i] \in Runs
      BY <2>2
    <3>2. queue'[i] = [ queue[i] EXCEPT !.age = Older(@, OLD) ]
      BY <2>1, <2>2
    <3> QED
      BY <3>1, <3>2 DEF Runs
  <2>4. DOMAIN queue' = 1 .. Len(queue) /\ Len(queue') = Len(queue)
    <3>1. queue' \in Seq(Runs)'
      BY <1>10, WaitKeeps DEF Inv, Types, QueueOK
    <3> QED
      BY <2>1, <2>2, <3>1
  <2>5. queue = << >> => queue' = << >>
    BY <2>1
  <2>6. queue' # << >> => stage' # "ready"
    BY <2>1, <2>5 DEF Started
  <2>7. \A i \in 2 .. Len(queue') : queue'[i].waited
    BY <2>2, <2>3, <2>4 DEF FirstIsFresh
  <2> QED
    BY <2>6, <2>7 DEF FirstIsFresh
<1>11. CASE RunStep
  <2>1. queue # << >>
    BY <1>1, <1>11 DEF RunStep, Begin, Press, CommandEnds, Report, Watch, ActionsEnd, QueueOK
  <2>2. EndRun \/ \E next \in Stages \ {"ready"} : Goto(next)
    <3>1. CASE Begin
      BY <3>1 DEF Begin, StartTapped, Left, ChargingStarted, Taken, Arrived, Stages
    <3>2. CASE Press \/ CommandEnds \/ Report \/ Watch \/ ActionsEnd
      BY <3>2 DEF Press, CommandEnds, Report, Watch, ActionsEnd, Stages
    <3> QED
      BY <1>11, <3>1, <3>2 DEF RunStep
  <2> QED
    BY <1>1, <2>1, <2>2, RunFresh
<1>12. CASE UNCHANGED offerVars
  BY <1>12 DEF offerVars, phone, entities, FirstIsFresh
<1> QED
  BY <1>2, <1>3, <1>4, <1>5, <1>6, <1>7, <1>8, <1>9, <1>10, <1>11, <1>12
  DEF OfferNext, Write

\* Once you have stopped charging, no socket that has been free all along, nor
\* the one you left before somebody used it, is offered by a run that did not
\* wait, when a socket is freed or the one on offer is taken, unless its entity
\* has yet to be written: it is held back (held_back, ended_here).
THEOREM NothingUntouchedIsOffered == OfferSpec => NothingUntouchedOffered
<1> DEFINE Offered ==
             LET run == Head(queue)
             IN  /\ queue # << >> /\ stage = "ready" /\ ~run.waited
                 /\ run.id \in {"freed", "taken"} /\ run.best \notin unwritten
                 => note' = note \/ offer_while_charging \/ note'.socket \notin untouched
<1>1. OfferInit => Kept /\ FirstIsFresh
  <2>1. OfferInit => Kept
    BY DEF OfferInit, Init, NoEnd, NoPushedEnd, Kept, LeftSocketHeld, UntouchedHeld
  <2>2. OfferInit => FirstIsFresh
    BY DEF OfferInit, FirstIsFresh
  <2> QED
    BY <2>1, <2>2
<1>2. Inv /\ FirstIsFresh /\ [OfferNext]_offerVars => [Offered]_offerVars
  <2> SUFFICES ASSUME Inv, FirstIsFresh, OfferNext, queue # << >>, stage = "ready",
                      Head(queue).id \in {"freed", "taken"}, ~Head(queue).waited,
                      Head(queue).best \notin unwritten,
                      note' # note, ~offer_while_charging
               PROVE  note'.socket \notin untouched
    BY DEF offerVars, phone
  <2>1. ~Started
    BY DEF Started
  <2>2. Begin
    BY <2>1 DEF OfferNext, Publish, Write, WriteCharging, WriteSocket, Outage, Move, Preview, Tap,
                FreedFor, Wait, RunStep, Press, CommandEnds, Report, Watch, ActionsEnd
  <2>3. PICK only_if \in BOOLEAN : \/ Arrived(Head(queue), only_if)
                                   \/ Taken(Head(queue), only_if)
    BY <2>2 DEF Begin, StartTapped, Left, ChargingStarted
  <2>4. note' = Offer(Head(queue)) /\ charging = "off"
    BY <2>3 DEF Arrived, Taken, Send, SendNothing, phone, Wanted
  <2>5. Head(queue) = queue[1] /\ Head(queue) \in Runs
    BY DEF Inv, Types, QueueOK
  <2>6. Head(queue).best \notin untouched
    BY <2>4, <2>5 DEF FirstIsFresh
  <2>7. None \notin untouched
    BY SocketsAssumption DEF Inv, Types, YouOK
  <2>8. note'.socket \in { Head(queue).best, None }
    BY <2>4 DEF Offer, Note, NoNote
  <2> QED
    BY <2>6, <2>7, <2>8
<1> QED
  BY <1>1, <1>2, InvInit, InvNext, KeptNext, FreshNext, PTL DEF OfferSpec, NothingUntouchedOffered
=============================================================================
