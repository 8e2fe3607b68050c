-------------------------------- MODULE Offer --------------------------------
(***************************************************************************)
(* The "offer a free charger" automation (offer_free_charger.yaml) on the  *)
(* entities of the integration: one notification on your phone, replaced   *)
(* by runs that Home Assistant carries out one after another.              *)
(*                                                                         *)
(* A run is triggered by the write of an entity, a timer, a move or a tap. *)
(* Its variables (`best` and what the branches ask of the trigger) are     *)
(* evaluated then; the conditions of its branch when it starts, after the  *)
(* runs before it, at once if there are none.  The coordinator publishes   *)
(* to the Charging sensor first and then to one socket sensor after        *)
(* another, so a run may be evaluated when some show the news and others   *)
(* do not.                                                                 *)
(*                                                                         *)
(* The session tracker is the detailed one, fed by polls: a push changes   *)
(* no more than a poll that finds one socket changed.  What it observes is *)
(* published at once (Coordinator has what comes between).  Ages saturate  *)
(* at the windows they are compared with.  Home Assistant, the phone, the  *)
(* portal and the user are external.                                       *)
(***************************************************************************)
EXTENDS SessionTracker, StartRules, Sequences

CONSTANTS
    sockets,                \* the sockets you chose, in order of preference
    names,                  \* what each is called: unique on a charger, not beyond it
    capabilities,           \* the cached ones of each, None if unread (module Capabilities)
    freed_for,              \* in ticks
    notify_none_free,       \* on arrival, say that none is free
    BOUNCE,                 \* back within 2 minutes is no arrival, in ticks
    RECENT,                 \* a press is repeated after a minute, in ticks
    MaxRuns,                \* the runs Home Assistant queues, the one under way included
    MaxEvents               \* bound on what happens at the portal and to you

chosen == { sockets[i] : i \in DOMAIN sockets }
OLD == 1 + BOUNCE           \* the age runs and moves saturate at

ASSUME OfferAssumption ==
    /\ sockets \in Seq(Sockets) /\ "charging" \notin chosen
    /\ capabilities \in [ chosen -> Capabilities \cup {None} ]
    /\ BOUNCE \in Nat /\ RECENT \in Nat \ {0} /\ freed_for \in 1 .. OLD
    /\ notify_none_free \in BOOLEAN
    /\ MaxRuns \in Nat \ {0} /\ MaxEvents \in Nat

VARIABLES
    offer_while_charging,   \* as you chose it
    charging,       \* the Charging sensor: "on", "off" or "unavailable"
    status,         \* the socket sensors: a status, or None while unavailable
    held_back,      \* those whose held_back attribute is true
    unwritten,      \* entities the snapshot has yet to be written to
    age,            \* since when each socket has its status
    timers,         \* sockets that became available, before freed_for is over
    here,           \* you are in the zone
    moved,          \* how long ago you came or left
    ended_since,    \* your last charge ended after that
    pressed,        \* how long ago each start button was pressed
    queue,          \* the runs, the first of them under way
    stage,          \* where that one is
    note,           \* the notification showing
    events,
    (* history: since the note was sent, a run was dropped or the entities   *)
    (* were unavailable                                                     *)
    missed,
    (* history: sockets free ever since before your charge ended, and the one *)
    (* you left until somebody uses it                                      *)
    untouched

entities == << offer_while_charging, charging, status, held_back, unwritten, age, timers >>
you == << here, moved, ended_since >>
phone == << note, missed >>
offerVars == << vars, entities, you, pressed, queue, stage, phone, events, untouched >>

Notes == [ kind : {"none", "offer", "none_free", "starting", "told"},
           socket : chosen \cup {None}, preview : BOOLEAN ]
NoNote == [ kind |-> "none", socket |-> None, preview |-> FALSE ]
Note(kind) == [ NoNote EXCEPT !.kind = kind ]

Runs == [ id : {"arrive", "leave", "freed", "taken", "start_tapped", "charging_started",
                "preview"},
          best : chosen \cup {None},    \* for a tap, the socket of its start button
          applies : BOOLEAN,            \* what the branch asks of the trigger
          age : 0 .. OLD,               \* how long ago what it asks about began
          waited : BOOLEAN ]            \* history: it was queued behind another

OfferTypeOK ==
    /\ TypeOK
    /\ charging \in {"on", "off", "unavailable"}
    /\ status \in [ chosen -> Statuses \cup {None} ]
    /\ held_back \subseteq chosen
    /\ unwritten \subseteq chosen \cup {"charging"}
    /\ age \in [ chosen -> 0 .. freed_for ]
    /\ timers \subseteq { s \in chosen : status[s] = STATUS_AVAILABLE }
    /\ { offer_while_charging, here, ended_since, missed } \subseteq BOOLEAN
    /\ moved \in 0 .. OLD
    /\ pressed \in [ chosen -> 0 .. RECENT ]
    /\ queue \in Seq(Runs) /\ Len(queue) <= MaxRuns
    /\ stage \in {"ready", "starting", "pressing", "charging", "unconfirmed", "watching", "acting"}
    /\ stage # "ready" => queue # << >>
    /\ note \in Notes /\ (note.kind = "offer" <=> note.socket # None)
    /\ events \in 0 .. MaxEvents
    /\ untouched \subseteq Sockets
    \* The entities show the snapshot, or they are unavailable.
    /\ unwritten = {} /\ charging # "unavailable" =>
         /\ charging = (IF active # None THEN "on" ELSE "off")
         /\ \A s \in chosen : status[s] = stations[s]
         /\ held_back = IF active = None THEN last_end.held_back \cap chosen ELSE {}

OfferInit ==
    /\ Init
    /\ offer_while_charging \in BOOLEAN
    /\ charging = "unavailable" /\ status = [ s \in chosen |-> None ]
    /\ held_back = {} /\ unwritten = {} /\ timers = {}
    /\ age = [ s \in chosen |-> 0 ]
    /\ here \in BOOLEAN /\ moved = OLD /\ ended_since = FALSE
    /\ pressed = [ s \in chosen |-> RECENT ]
    /\ queue = << >> /\ stage = "ready"
    /\ note = NoNote /\ missed = FALSE
    /\ events = 0 /\ untouched = {}

-----------------------------------------------------------------------------
\* The run under way starts in the step that triggers it, if there is none
\* before it: nothing happens meanwhile.
Started == queue # << >> => stage # "ready"
Published == unwritten = {}
Settled == queue = << >> /\ Published

\* Once a charge of yours has ended since you came.
ended_here == ~offer_while_charging /\ charging = "off" /\ ended_since

\* A mutation: a charge that ended is forgotten.
free_after_all(shown, held) == { s \in chosen : shown[s] = STATUS_AVAILABLE }

free(shown, held) ==
    { s \in chosen : shown[s] = STATUS_AVAILABLE } \ (IF ended_here THEN held ELSE {})

best(shown, held) ==
    LET ranks == { i \in DOMAIN sockets : sockets[i] \in free(shown, held) }
    IN  IF ranks = {} THEN None
        ELSE sockets[CHOOSE i \in ranks : \A j \in ranks : i <= j]

rank(s) == CHOOSE i \in DOMAIN sockets : sockets[i] = s

\* A run is queued, or dropped when there are too many (max_exceeded: silent).
Trigger(id, of, applies, since) ==
    LET run == [ id |-> id, best |-> of, applies |-> applies, age |-> since,
                 waited |-> queue # << >> ]
    IN  /\ queue' = IF Len(queue) < MaxRuns THEN Append(queue, run) ELSE queue
        /\ missed' = (missed \/ Len(queue) = MaxRuns)

NoTrigger == UNCHANGED << queue, missed >>

-----------------------------------------------------------------------------
(* The integration publishes                                               *)

\* The portal shows your session at `found` and the chargers as `st`.
Publish(found, st) ==
    /\ Started /\ Published
    /\ \/ /\ << found, st >> # << active, stations >>
          /\ events < MaxEvents /\ events' = events + 1
       \/ /\ << found, st >> = << active, stations >> /\ charging = "unavailable"
          /\ UNCHANGED events
    /\ Polled(found, st)
    /\ unwritten' = chosen \cup {"charging"}
    /\ ended_since' = (ended_since \/ Ends(found))
    /\ untouched' = IF found # None THEN {}
                    ELSE IF Ends(found) THEN (Available(stations) \cap Available(st)) \cup {active}
                    ELSE { s \in untouched :
                             \/ st[s] = STATUS_AVAILABLE
                             \/ /\ s = last_end.session
                                /\ st[s] \in IN_USE_STATUSES => stations[s] \in IN_USE_STATUSES }
    /\ UNCHANGED << offer_while_charging, charging, status, held_back, age, timers, here,
                    moved, pressed, queue, stage, phone >>

\* The Charging sensor is written first.  Back from being unavailable is not a
\* charge that starts.
WriteCharging ==
    /\ Started /\ "charging" \in unwritten
    /\ unwritten' = unwritten \ {"charging"}
    /\ charging' = IF active # None THEN "on" ELSE "off"
    /\ IF charging = "off" /\ charging' = "on"
       THEN Trigger("charging_started", best(status, held_back), TRUE, 0)
       ELSE NoTrigger
    /\ UNCHANGED << vars, offer_while_charging, status, held_back, age, timers, you,
                    pressed, stage, note, events, untouched >>

\* A mutation: held back while a session runs.
HeldBack_charging(s) == s \in last_end.held_back

\* MerData.held_back.
HeldBack(s) == active = None /\ s \in last_end.held_back

\* Then the socket sensors.  One that was available and is not was taken: it
\* may have been the one on offer.  One that becomes available is freed once it
\* has been for freed_for.  Neither if it was or becomes unavailable itself.
WriteSocket(s) ==
    LET shown == [ status EXCEPT ![s] = stations[s] ]
        held == IF HeldBack(s) THEN held_back \cup {s} ELSE held_back \ {s}
        b == best(shown, held)
    IN  /\ Started /\ "charging" \notin unwritten /\ s \in unwritten
        /\ unwritten' = unwritten \ {s}
        /\ status' = shown
        /\ held_back' = held
        /\ age' = IF shown = status THEN age ELSE [ age EXCEPT ![s] = 0 ]
        /\ timers' = IF shown[s] # STATUS_AVAILABLE THEN timers \ {s}
                     ELSE IF status[s] \notin {None, STATUS_AVAILABLE} THEN timers \cup {s}
                     ELSE timers
        /\ IF status[s] = STATUS_AVAILABLE /\ shown[s] # STATUS_AVAILABLE
           THEN Trigger("taken", b,
                        /\ ended_here => s \notin held_back
                        /\ b # None => rank(s) < rank(b)
                        /\ s \notin own_starts,
                        age[s])
           ELSE NoTrigger
        /\ UNCHANGED << vars, offer_while_charging, charging, you, pressed, stage, note,
                        events, untouched >>

\* A poll fails, or the integration is reloaded: a new tracker knows of no end,
\* nor of a command under way.
Outage(reloaded) ==
    /\ Started /\ Published /\ charging # "unavailable"
    /\ events < MaxEvents /\ events' = events + 1
    /\ charging' = "unavailable"
    /\ status' = [ s \in chosen |-> None ]
    /\ age' = [ s \in chosen |-> 0 ]
    /\ held_back' = {} /\ timers' = {}
    /\ missed' = TRUE
    /\ IF reloaded
       THEN /\ running' = [ c \in Commands |-> NotRunning ]
            /\ active' = None /\ last_end' = NoEnd /\ pushed_end' = NoPushedEnd
            /\ last_command' = NoCommand /\ intents' = {}
            /\ stations' = [ s \in Sockets |-> None ]
            /\ untouched' = {}
       ELSE UNCHANGED << vars, untouched >>
    /\ UNCHANGED << offer_while_charging, unwritten, you, pressed, queue, stage, note >>

-----------------------------------------------------------------------------
(* You and time                                                            *)

\* You come into the zone or leave it.
Move ==
    /\ Started /\ Published
    /\ events < MaxEvents /\ events' = events + 1
    /\ here' = ~here /\ moved' = 0 /\ ended_since' = FALSE /\ untouched' = {}
    /\ IF here' THEN Trigger("arrive", best(status, held_back), TRUE, moved)
       ELSE Trigger("leave", None, TRUE, 0)
    /\ UNCHANGED << vars, entities, pressed, stage, note >>

Preview ==
    /\ Started /\ Published
    /\ events < MaxEvents /\ events' = events + 1
    /\ Trigger("preview", best(status, held_back), TRUE, 0)
    /\ UNCHANGED << vars, entities, you, pressed, stage, note, untouched >>

\* You tap Start on the offer showing; the car and the phone may both report
\* it.  An iPhone names the button the offer was sent with; for Android it is
\* that of the best socket now, if it is called the same.
Tap(s, os) ==
    /\ Started /\ Published
    /\ events < MaxEvents /\ events' = events + 1
    /\ \/ note.socket = s
       \/ \E i \in DOMAIN queue : queue[i].id = "start_tapped" /\ queue[i].best \in {s, None}
    /\ LET b == best(status, held_back)
           still_offered == b # None /\ names[b] = names[s]
           of == IF os = "iPhone" THEN s ELSE IF still_offered THEN b ELSE None
       IN  Trigger("start_tapped", of, TRUE, 0)
    /\ UNCHANGED << vars, entities, you, pressed, stage, note, untouched >>

FreedFor(s) ==
    /\ Started /\ Published
    /\ s \in timers /\ age[s] = freed_for
    /\ timers' = timers \ {s}
    /\ Trigger("freed", best(status, held_back), best(status, held_back) = s, 0)
    /\ UNCHANGED << vars, offer_while_charging, charging, status, held_back, unwritten, age,
                    you, pressed, stage, note, events, untouched >>

\* Timers go off on time.
Wait ==
    /\ Started /\ Published
    /\ \A s \in timers : age[s] < freed_for
    /\ Tick
    /\ age' = [ s \in chosen |-> Older(age[s], freed_for) ]
    /\ moved' = Older(moved, OLD)
    /\ pressed' = [ s \in chosen |-> Older(pressed[s], RECENT) ]
    /\ queue' = [ i \in DOMAIN queue |-> [ queue[i] EXCEPT !.age = Older(@, OLD) ] ]
    /\ UNCHANGED << offer_while_charging, charging, status, held_back, unwritten, timers,
                    here, ended_since, stage, phone, events, untouched >>

-----------------------------------------------------------------------------
(* The run under way                                                       *)

environment == << entities, you, events, untouched >>

Send(n) == note' = n /\ missed' = FALSE
SendNothing == UNCHANGED phone
EndRun == queue' = Tail(queue) /\ stage' = "ready"
Goto(next) == stage' = next /\ UNCHANGED queue

Offer(run) == IF run.best = None THEN Note("none_free")
              ELSE [ kind |-> "offer", socket |-> run.best, preview |-> run.id = "preview" ]

\* The start button is available.
CanStart(s) == s # None /\ start_allowed(status[s], capabilities[s])

\* A mutation: charging is not asked about.
Wanted_charging == here

\* Real triggers only offer while you are there and not charging.
Wanted == (offer_while_charging \/ charging = "off") /\ here

StartTapped(run) ==
    /\ run.id = "start_tapped"
    /\ IF ~CanStart(run.best) THEN Send(Note("told")) /\ EndRun
       ELSE IF pressed[run.best] < RECENT THEN SendNothing /\ EndRun
       ELSE Send(Note("starting")) /\ Goto("starting")

ChargingStarted(run, only_if) ==
    /\ run.id = "charging_started"
    /\ Send(IF offer_while_charging /\ run.best # None /\ here /\ only_if THEN Offer(run)
            ELSE NoNote)
    /\ Goto("watching")

Left(run) == run.id = "leave" /\ Send(NoNote) /\ EndRun

Taken(run, only_if) ==
    /\ run.id = "taken"
    /\ IF Wanted /\ only_if /\ run.applies /\ run.age >= freed_for THEN Send(Offer(run))
       ELSE SendNothing
    /\ EndRun

\* Only the best socket is offered when it is freed; that there is none is said
\* on arrival, if you want it, and in a preview.
Arrived(run, only_if) ==
    /\ run.id \in {"arrive", "freed", "preview"}
    /\ IF /\ run.id = "preview" \/ (Wanted /\ only_if /\ (run.id = "arrive" => run.age > BOUNCE))
          /\ run.id = "freed" => run.best # None /\ run.applies
          /\ run.id = "arrive" => run.best # None \/ notify_none_free
       THEN Send(Offer(run))
       ELSE SendNothing
    /\ EndRun

\* A run starts.  Your own conditions (only_if) hold or not.
Begin ==
    LET run == Head(queue)
    IN  /\ queue # << >> /\ stage = "ready"
        /\ \/ StartTapped(run)
           \/ Left(run)
           \/ \E only_if \in BOOLEAN :
                ChargingStarted(run, only_if) \/ Taken(run, only_if) \/ Arrived(run, only_if)
        /\ UNCHANGED << vars, environment, pressed >>

\* The start button is pressed, if it is still available: Home Assistant skips
\* the press of one that is not.
Press ==
    LET s == Head(queue).best
    IN  /\ stage = "starting" /\ Published
        /\ IF CanStart(s)
           THEN /\ pressed' = [ pressed EXCEPT ![s] = 0 ]
                /\ \E c \in Commands : CommandStarted(c, "start", s)
                /\ Goto("pressing")
           ELSE Goto("unconfirmed") /\ UNCHANGED << vars, pressed >>
        /\ SendNothing
        /\ UNCHANGED environment

\* The press is held open until the charger shows the outcome, or none in
\* time, or the start is rejected; the end of the command is published, save
\* by a coordinator that has been replaced meanwhile.
CommandEnds ==
    LET s == Head(queue).best
        told == \E c \in Commands, rejected \in BOOLEAN : CommandFinished(c, rejected)
    IN  /\ stage = "pressing" /\ Published
        /\ \/ /\ told
              /\ \/ /\ active = s \/ stations[s] \in CHARGING_STATUSES
                    /\ ~last_command'.rejected
                    /\ Goto("charging")
                 \/ Goto("unconfirmed")
              /\ IF charging = "unavailable" THEN UNCHANGED unwritten
                 ELSE unwritten' = chosen \cup {"charging"}
           \/ /\ \A c \in Commands : ~IsRunning(c)
              /\ Goto("unconfirmed")
              /\ UNCHANGED << vars, unwritten >>
        /\ SendNothing
        /\ UNCHANGED << offer_while_charging, charging, status, held_back, age, timers, you,
                        pressed, events, untouched >>

\* Charging: the notification is dismissed; else it tells the outcome.
Report ==
    /\ stage \in {"charging", "unconfirmed"} /\ Published
    /\ Send(IF stage = "charging" THEN NoNote ELSE Note("told"))
    /\ EndRun
    /\ UNCHANGED << vars, environment, pressed >>

SessionShown == charging # "unavailable" /\ active \in chosen

\* A mutation: no timeout.
Watch_for_ever ==
    /\ stage = "watching" /\ Published
    /\ SessionShown /\ Goto("acting")
    /\ SendNothing
    /\ UNCHANGED << vars, environment, pressed >>

\* Your actions run if the charge is on a chosen socket, and last as long as
\* they like; if none shows it in time the run stops.
Watch ==
    /\ stage = "watching" /\ Published
    /\ IF SessionShown THEN Goto("acting") ELSE EndRun
    /\ SendNothing
    /\ UNCHANGED << vars, environment, pressed >>

ActionsEnd ==
    /\ stage = "acting" /\ Published
    /\ EndRun
    /\ SendNothing
    /\ UNCHANGED << vars, environment, pressed >>

-----------------------------------------------------------------------------
Write == WriteCharging \/ \E s \in chosen : WriteSocket(s)

RunStep == Begin \/ Press \/ CommandEnds \/ Report \/ Watch \/ ActionsEnd

OfferNext ==
    \/ \E found \in Sockets \cup {None}, st \in [ Sockets -> Statuses \cup {None} ] :
         /\ \A s \in Sockets : st[s] = None <=> s \notin chosen
         /\ found \in chosen => st[found] \in CHARGING_STATUSES
         /\ Publish(found, st)
    \/ Write
    \/ \E reloaded \in BOOLEAN : Outage(reloaded)
    \/ Move
    \/ Preview
    \/ \E s \in chosen, os \in {"iPhone", "Android"} : Tap(s, os)
    \/ \E s \in chosen : FreedFor(s)
    \/ Wait
    \/ RunStep

OfferSpec == OfferInit /\ [][OfferNext]_offerVars /\ WF_offerVars(Write) /\ WF_offerVars(RunStep)

-----------------------------------------------------------------------------
\* Once every run is over, a real offer shows only while you are there and not
\* charging (unless you asked for that): coming, leaving and a charge starting
\* change it whatever runs they were queued behind.  Not (`missed`) if since it
\* was sent a run was dropped from a full queue, or the entities have been
\* unavailable: a charge that shows when they are back has triggered no run.
OffersOnlyWhereWanted ==
    Settled /\ note.kind = "offer" /\ ~note.preview /\ ~missed =>
        here /\ (offer_while_charging \/ charging = "off")

\* "Once you have stopped charging, only sockets that free up afterwards are
\* offered": a run that did not wait offers none that was free all along, when a
\* socket is freed or the one on offer is taken.  (On arrival no charge has
\* ended yet.)  The latter may be evaluated between the writes of the entities:
\* then it may still offer one whose turn has yet to come, which shows as free
\* and not held back until it is written.
NothingUntouchedOffered ==
    [][ LET run == Head(queue)
        IN  /\ queue # << >> /\ stage = "ready" /\ ~run.waited
            /\ run.id \in {"freed", "taken"} /\ run.best \notin unwritten
            => note' = note \/ offer_while_charging \/ note'.socket \notin untouched ]_offerVars

\* The queue never gets stuck behind a run.
EveryRunEnds == []<>(queue = << >>)
=============================================================================
