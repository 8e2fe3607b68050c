# TLA+ specifications of the Mer integration

This directory specifies and verifies the core of the Mer EV charging integration for Home
Assistant (`custom_components/mer`): how it follows your charging session, carries out commands,
keeps what it publishes consistent with the portal, keeps its connections to the portal alive, and
offers you a free charger through the automation that ships with it. The modules are translated
from the Python source; every definition that models code is listed with its lines in
`PROJECT.json` under `map`.

Check a run with `tlc -config coordinator.cfg MCCoordinator`, the proofs of a module with
`tlapm CoordinatorProofs.tla` (some minutes each from nothing).

## 1. The system and its parts

| Component | State it keeps | Operations | Right when |
| --- | --- | --- | --- |
| Session tracker (`session_tracker.py`) | your session, its last end with the sockets held back, the last pushed end, running commands, the last command, your chargers as last seen | one observation per poll, status push, estimate push, command start and end; answers with intents (poll now, watch for a session, re-read the history) | a session a push ended does not come back by a late poll; the left socket is held back while free and not reused; other sockets are held back only while free all along |
| Commands (`commands.py`) | one wait per command: iterations used, outcome | start, stop; wait for a push, else poll | every command ends, in time, and does not overlook what it sees |
| Coordinator, polls and pushes (`coordinator.py`) | the live chargers, the published snapshot, whether the account is due, a skipped poll, polls and a session watch under way | scheduled, requested and command polls; status and estimate pushes; connect, disconnect; publish | the tracker is fed whole observations; what is published catches up with the portal and never resurrects a pushed end |
| Coordinator, capability cache | capabilities per charger, chargers pending | scheduled read after a change, Refresh now, the read of a start | a change that was learnt is read in the end |
| Coordinator, detail refresh | stamps per charger | one cycle | first snapshot complete, constant cost per cycle, each charger hourly |
| Notify-me switch (`switch.py`, coordinator) | cached subscription per charger, a lock | toggle, hourly refresh | the cache follows the portal |
| Push channel (`async_run_push`) | backoff, watchdog, owed login | connect, receive, time out, sleep | delays grow, a dead connection is dropped and reopened after a fresh login |
| Portal client (`driivz/client.py`) | cookie session, CSRF token, login flag, login lock | request with one re-login, login, connect push | nothing a failure leaves behind breaks a later request, of the push task included; nobody waits for ever |
| Setup, migration, dialogs (`__init__.py`, `config_flow.py`) | subentries, password, options, devices, setup state, queued reload | add, change, delete, migrate, options, reauthenticate, set up, reload | no change of the chargers or the settings is missed; devices follow; a refused password leads back to a loaded entry |
| Data model and parsing (`driivz/models.py`) | none | parse, `with_push`, the start rules of `SocketCapabilities` | the start button and the start command agree on what the capabilities say |
| Entities (`sensor.py`, `binary_sensor.py`, `entity.py`, `button.py`) | none; they read the snapshot | written one after another at each publish; presses call the coordinator | they agree with the snapshot once all are written |
| Diagnostics, client factory, constants | none | - | - |
| Blueprint (`offer_free_charger.yaml`) | the queue of runs, the notification showing | offer a socket on arrival, when one is freed or taken; take the offer back; start a charge from it | an offer shows only while it is wanted, of a socket not held back; no run blocks the rest |

They interact through calls on one event loop. Buttons and switches call the coordinator; the
coordinator calls the client; commands call back into the coordinator for pushes and polls; the
push task calls the coordinator's handlers; the coordinator hands observations to the tracker
and carries out its intents; entities read the snapshot after each publish. The dialogs and
setup meet in the config entry: an update listener reloads the entry. The push task and the
requests share the client's login. The blueprint sees none of this: it is triggered by the
entities' states, and presses the start button.

What makes it hard:

- **Interleaving at every `await`.** One thread, but a poll is up to a dozen requests, and
  pushes, commands, toggles and dialogs run between any two of them. State read before an await
  is used after it.
- **Two sources for the same fact.** Pushes are quick and lossy; polls are complete and old. The
  portal's "last active" lookup lags behind both.
- **Partial failure.** Any request may fail, be rate-limited or lose the login, after part of the
  poll has taken effect.
- **Sequences.** What is held back after an end depends on everything seen since.
- **Queued runs.** The automation evaluates its variables when it is triggered and its conditions
  when the run starts, perhaps a whole charge later; triggers fire between the writes of entities.
- **Limits.** The rate limit, twelve checks per command, one detail per cycle.

## 2. Modules

| Module | Models | State and actions against the code |
| --- | --- | --- |
| `Statuses` | `driivz/const.py` | the socket statuses and the sets the rules compare with |
| `SessionTracker` | `session_tracker.py` | a variable per field of `SessionTracker`; `Polled`, `StatusPushed`, `EstimatePushed`, `CommandStarted`, `CommandFinished` are `observe()`; `Tick` is the clock |
| `SessionHistory` | - | `SessionTracker` with history variables that say what was seen since an end |
| `Commands` | `commands.py`, `_wait_for_push`, `_CommandChanges` | a program counter per command; a step ends where `_wait` awaits |
| `Coordinator` | `_async_update_data`, `_command`, the push handlers, `_execute`, `_look_for_session` | `INSTANCE SessionTracker`; each poll is a slot with a program counter, one step per request; from its creation, the first poll included |
| `Capabilities` | `_schedule_capabilities` to `_read_capabilities`, `async_refresh_now`, the end of `_command` | an answer is how many changes it takes account of |
| `DetailRefresh` | `_stations_due`, `_refresh_optional` and their callers | time in polls, one cycle per step |
| `NotifySwitch` | `_refresh_station`, `async_set_availability_subscription` | the lock is a queue, released to the next in line; a request is asked, handled by the portal, answered |
| `PushChannel` | `async_run_push` | time in ticks; the watchdog and the sleep are one timer |
| `Client` | `_request`, `login`, `connect_push` | the lock is a queue; each login is page, post, map |
| `Connection` | both of these together | an attempt of the task is the client's own steps; the task goes on where `login` and `connect_push` return |
| `StartRules` | `SocketCapabilities`, `start_allowed`, the choice in `Commands.start` | operators on a status and capabilities, used by `Commands` and `Offer` |
| `Offer` | `offer_free_charger.yaml`, the entities it goes by | extends `SessionTracker`, fed by polls; entities are written one by one, each write may queue a run; `Begin` takes the branch of the run, the later stages are a press held open and your own actions |
| `Sites` | `__init__.py`, the config, options and site subentry flows | dialogs, migration, password and options, setup phases, the queued reload |

The theorems about a component and their proofs are in a `...Proofs` module that extends it
(section 4). `MC...` modules and the `.cfg` files hold the instances for TLC. Three modules compose:
`Coordinator` the tracker with polls, pushes and commands, `Connection` the client with the push
task, `Offer` the tracker with the entities and the automation. The others stand alone, as the
code they model shares no state beyond what each names as its environment.

Operators whose name has a suffix and whose comment begins "A mutation" are not part of any
specification: each is a plausible bug, and substituting it breaks the property that
`PROJECT.json` names with it.

### Abstractions

- A session is its socket; a charger in `Coordinator` is a set of sockets, of yours or not. In the
  runs each charger has one: the tracker does not relate sockets of the same charger.
- In `Coordinator` the poll of a command may read no charger at all: the session it is for names
  none, or the portal does not return it. A wallet without a customer, which ends the refresh of
  the account before the history is read, counts among the failed requests. Buttons are pressed
  while the entities are available; start buttons are those of your chargers, the account's Stop
  ends your session wherever it is.
- Time is kept as ages that saturate at the window they are compared with (tracker), or in ticks
  (commands, push channel) or polls (details). No bound limits the length of a behaviour.
- In `SessionTracker` any poll answer and any push may come at any time: this is more than the
  portal does, and the safety properties hold all the same. In `Coordinator` the portal is
  explicit: what it shows, your session, a lookup that lags, pushes on their way.
- In `Coordinator` the portal returns all of your chargers. A charger missing from a poll is
  covered by `SessionTracker`. Until its first poll has succeeded a coordinator runs no other
  poll, command or push channel; if it fails the coordinator is discarded (`Sites`).
- Wake-ups of commands are in `Commands`; `Coordinator` has the command's polls and what they
  publish.
- The exclusive end of a command is one step; a cancelled command takes its poll with it and
  publishes nothing.
- In `Offer` every change at the portal is one observation, published at once: what comes between
  is in `Coordinator`. A notification is what it offers, not its words; that none is free is one
  too. Two minutes' bounce and one minute's repeat are ticks; your conditions (`only_if`) hold or
  not as they like, your actions last as long as they like.
- In `Offer` a press held open when the integration is reloaded ends unconfirmed: the command goes
  on in the coordinator that was replaced, and the new one has none to show.
- In `Offer` the capabilities of each socket stay what they were when they were read; how they
  follow the portal is in `Capabilities`.

## 3. Runs

| Run | Question | Bounds, and why they do |
| --- | --- | --- |
| `session_tracker` | Does the tracker keep its promises under any observations? | two sockets (the left one and another), one command slot, free or charging, trust of two ticks, so that a poll falls before, inside and after it. The proofs lift all its properties to all values |
| `commands` | Do two concurrent commands end, in time, seeing what they wait for? | one socket, free, plugged in or not told, so that a start may end with it waiting for the cable; two checks each; an allowance of one request, so that the floor is reached; the event is shared, so a command can be woken by, and lose, the other's push |
| `coordinator` | Does the snapshot catch up, and is the history read after every end? | two things happen at the portal (a session begins and ends, or ends and another begins), one push on its way, one failed request, which may be a lost login, windows of one tick |
| `coordinator_commands` | With a command polling for itself at the same time, does the coordinator implement the tracker, and is a pushed end kept? | two sockets, one of a charger you have not added; one press, at either; one change; both polls under way together |
| `connection` | Do requests and the push task share one login safely, and is the channel open in the end? | two requests and the push task; three expiries, failures, silences or drops; delays 1, 2, 3: below, between and at the cap |
| `notify_switch` | Does the cache follow the portal? | two chargers, two toggles, a refresh |
| `capabilities` | Is a learnt change read in the end? | a charger with three changes, its scheduled read, one start, Refresh now. Chargers share nothing but Refresh now, which reads one at a time |
| `detail_refresh` | Is the first snapshot complete, and each charger refreshed hourly? | three chargers, six polls an hour, a cycle may end early once in a row |
| `sites` | Is every change of the chargers, the options and the password followed, and only the user's? | two dialogs at once, two sites with two and one chargers, two passwords and intervals, two changes, one failed setup |
| `offer` | Does the automation offer what it should, and nothing else? | two chosen sockets, in order, of the same name, and a third at which you may charge: then both chosen ones can change in the snapshot that shows its end, and your session may be on no chosen socket; free or charging; the capabilities of one denied for its state, of the other for the card, so that its start is refused; three queued runs, so that one waits behind another and one is dropped; four events (at the portal, moves, taps, outages): a charge begins, ends, another car comes and goes. `freed_for` one tick, a bounce within a tick |
| `reused_by_nobody` | *violation*: `CONTEXT.md` on "Reused" | as `coordinator` with one change: shortest case |
| `detail_starved` | *violation*: "each charger is still refreshed once an hour" | thirteen chargers at twelve polls an hour |

`MaxChanges`, `MaxPushes`, `MaxPresses`, `MaxFailures`, `MaxTroubles`, `MaxAborts` and `MaxEvents`
bound the environment only; they are in the guards of the environment's actions. No run turns
deadlock checking off.

### What they check

- **Tracker.** `PushedEndHolds`, `NewestPushedEndTrusted`: an ended session is not running while
  its pushed end is remembered, and it is remembered for the whole window whatever comes between.
  `LeftSocketHeld`, `HeldBackFreeThroughout`: the sockets held back are exactly those that
  should be. `EndIsKept`: nothing learnt about an end is unlearnt. `OwnStartsSound`: a socket
  counts as an own start for a reason.
- **Commands.** `WithinTimeout` bounds the sleeps by the checks used up; `EveryCommandFinishes`
  is the liveness; `LastCheckCounts` says that only the rate limit or a failed poll leaves an
  outcome that shows unseen.
- **Coordinator.** `ImplementsTracker` makes the tracker's results apply: under the mapping of its
  fields the coordinator is a behaviour of `SessionTracker`'s specification, from its creation
  on; each step is one whole observation or none. `PublishedEndHolds` is the
  tracker's property at the level of the published snapshot. `EventuallyConsistent` and
  `HistoryEventuallyRead` are what is left of freshness when polls are stale, skipped or fail, or
  lose the login. The last stops the schedule: both properties then ask for nothing (`Stopped`)
  until a push, a session watch or the push channel brings another poll, or you do.
- **Connection.** `UndisturbedIsAnswered` is the comment in `_request` about latching the client
  off; `PushOpens` the one in `connect_push` and the watchdog's purpose: the channel ends up open
  with something behind it; `NoStaleCookie` that none is opened after a silent one before a login
  has succeeded; `EveryRequestEnds` is freedom from deadlock at the lock; `BacksOff` the delays.
- **Offer.** `OffersOnlyWhereWanted`: once the queue is empty, a real offer shows only while you are
  there and not charging, whatever runs waited behind whatever others. `NothingUntouchedOffered` is
  `README.md:157-160` of the integration: after a charge of yours, no socket is offered that has
  been free since before it ended, nor the one you left until somebody used it, when a socket is
  freed or taken; it is about runs that did not wait, and about sockets whose entities have been
  written when the run is triggered (see section 5). `EveryRunEnds`: nothing blocks the queue. The
  last part of `OfferTypeOK` says that the entities agree with the snapshot once all are written.
- **Sites.** `NoChangeMissed` and `EventuallyLoaded` speak of the chargers and of the settings; the
  second also of a password changed at the portal and the reauthentication that follows.
- **Others.** See the comment above each property.

### Fairness

Weak fairness, of steps that the event loop or a timeout brings about: a task that is ready runs,
aiohttp's timeout ends a request, a timer fires, a poll of the coordinator that is due is carried
out, Home Assistant carries on with a setup or reload it has begun. In `Sites` also: a poll finds
out that the password is refused, and the user gives the right one when asked. In `Coordinator`
also: pushes in a connected channel are handled, the portal's lookup catches up in the end, time
passes. A poll is due (`Due`) until the first has succeeded, while the timer of the schedule is set
(`update_interval`), or on request. Home Assistant sets the timer after each poll and publication
but not after one that lost the login (`ConfigEntryAuthFailed`); that somebody then asks for a poll
is not assumed, and the reauthentication is in `Sites`. In `Offer` a run under way goes on: your
actions come to an end, and a command does (`EveryCommandFinishes`). Else nothing is assumed of
users, of the channel staying up or of requests succeeding: `EventuallyConsistent` and `PushOpens`
hold because failures are bounded, and `EveryCommandFinishes` with every poll failing.

## 4. Proofs

Every theorem holds for all values of the constants, under the named `ASSUME`s of the modules it
is about, which TLC evaluates in the runs. They ask that windows and bounds are natural numbers,
most of them positive, that the slots of polls, commands and requests are not each other's, that
`None` is no socket and, in `Offer`, that the chosen sockets are a list (`sockets` is a sequence,
your order of preference). `Coordinator` assumes of its tracker what `SessionTracker` does
(`TrackerAssumption`). No proof uses the values that the code or a run gives the constants.

Most of the properties are not inductive. What each proof adds to them, and why:

**`SessionTrackerProofs`** (`SessionTracker`, `SessionHistory`)

- `TypeCorrect` (`TypeOK`). Inductive as it stands; the lemmas type `follow_held_back`,
  `with_push` and the recorded end, so that each observation is a few lines.
- `PushedEndIsKept` (`PushedEndHolds`). Inductive with the types: the only steps that set
  `active` are a poll, which drops the session of a trusted pushed end and forgets an untrusted
  one, and a push, which remembers an end as it clears the session.
- `LeftSocketIsHeld` (`LeftSocketHeld`). `follow_held_back` establishes it for the snapshot it
  follows, whatever came before; a step that observes no chargers leaves what it speaks about.
- `TheEndIsKept` (`EndIsKept`), an action property, from `LeftSocketHeld`, by which a reused
  socket had been freed.
- `HeldBackIsFreeThroughout` (`HeldBackFreeThroughout`). Inductive with the types:
  `_set_active` records what was free before the end, and from then on each snapshot takes the
  same sockets off `held_back` as it does off the history.
- `NewestPushedEndIsTrusted` (`NewestPushedEndTrusted`), an action property. The tracker
  keeps one pushed end, and forgets it on the way. `NewestIsKept` says why that does no harm: while
  the newest is within the window, it is the one that is kept, with the same age.
- `OwnStartsAreSound` (`OwnStartsSound`). `LastStart`: a last command that is a start is
  one that the history has for that socket, of the same age.

The history variables only watch, so the first four theorems hold with them and are used for the
rest.

**`CoordinatorProofs`** (`Coordinator`)

- `ItImplementsTheTracker` (`ImplementsTracker`): the refinement, step by step. Every step of a
  poll, push or command maps to one observation of the tracker or to a stutter. That needs the
  inductive `Fed`: what a poll keeps from one request to the next is a whole snapshot, of whichever
  chargers it asked for, and a session the portal has named. A stop on a charger you have not added
  is among the commands, and its charger among what is observed.
- `PublishedEndIsKept` (`PublishedEndHolds`): the tracker's `PushedEndHolds`, carried to what is
  published. `CoordinatorProofs` instantiates `SessionTrackerProofs` under the refinement
  mapping and uses the tracker's theorems as they stand; what is left is that each step that
  publishes takes the tracker's session of that moment.
- `CoordinatorIsTyped` (`TypeOK`), the tracker's part of which again comes from the tracker.

**`CommandsProofs`** (`Commands`, `StartRules`)

- `SleepsAreWithinTimeout` (`WithinTimeout`) and `CommandsAreTyped` (`TypeOK`). The bound on the
  sum of the sleeps follows from one interval per check, which is inductive with
  `NotYetSlept`: a command that does not wait yet, or any more, has no check and no sleep behind it.
- `LastCheckAlwaysCounts` (`LastCheckCounts`), an action property: a check looks at what is
  published before it gives up, so a command ends unconfirmed on a view that shows its outcome
  only where `_wait` does not look.
- `GreyedOutIsRefused` and `StateIsLeftToTheStatus`: the two sides that read the capabilities at
  different times, the start button (from the cache) and the press (afresh), agree on what they
  mean; and a refusal for the state of the socket never greys out a button by itself.

**`CachesProofs`** (`Capabilities`, `DetailRefresh`)

- `CapabilitiesAreTyped` (`TypeOK`) and `ChangesAreReadAlways` (`ChangesAreRead`). `AnswersCount`:
  an answer a charger's scheduled read brings covers every change learnt so far, or the charger is
  in `missed`. So the read that takes the charger off the pending ones has committed them.
- `DetailIsTyped` (`DetailTypeOK`) and `TheFirstIsWhole` (`PrimedWhole`), inductive together: there
  are stamps just when there is a snapshot, so the cycle that publishes the first one finds none
  and asks for every detail.
- `EachIsRefreshedHourly` (`RefreshedHourly`), under the hypothesis `HourSuffices`, that all
  chargers can have a turn within an hour, each after as many cycles that end early as there may be.
  It is not an assumption of the model: `detail_starved` has one charger too many for it, and
  there the property is false. `InTurn`: a charger has been due no longer than the turns of those
  before it that were refreshed since, and the turn under way, take. Under the hypothesis nobody
  before it has a second turn in that time, so every turn is somebody else's, and they are counted.

**`NotifySwitchProofs`** (`NotifySwitch`)

- `TheLockIsHeld` (`TypeOK`) is mutual exclusion: the queue for the lock names nobody twice and
  only its head is with the portal. Its lemmas are about what joining and leaving a queue do.
- `CacheAlwaysFollows` (`CacheFollowsPortal`). `AnswersHold`: an answer not yet committed is what
  the portal still holds, unless it was changed unseen; by mutual exclusion no other answer
  can have overtaken it.

**`ConnectionProofs`** (`Client`, `PushChannel`, `Connection`)

- `TheConnectionIsTyped` (`ConnectionTypeOK`): mutual exclusion at the login lock, and that the
  task asks nothing of the client while it sleeps or receives.
- `UndisturbedIsAnsweredAlways` (`UndisturbedIsAnswered`), which says how a request ends.
  `Undisturbed` says what such a request has found at each step on its way: the login flag, the
  cookies and the token go together for it, whatever earlier ones left behind. Most of the work is
  that any step of another actor either leaves that alone or disturbs it.
- `NoStaleCookieIsUsed` (`NoStaleCookie`). `Owes`: the login the task owes after a silent
  connection is remembered in `fresh_login` or, until the receive has returned, in `silent`.

**`SitesProofs`** (`Sites`)

- `NothingMissed` (`NoChangeMissed`). `Inductive` adds that the listener is registered from the
  reading of the entry until the unload or the failure of the setup, and that only a migrated
  entry gets to be set up.
- `SitesAreTyped` (`TypeOK`). `Dialogs`: an open dialog is of a site that a migrated entry has;
  before the migration no site has chargers.
- `DevicesAlwaysFollow` (`DevicesFollow`), from the two above: a change of the chargers of a
  loaded entry queues a reload, and only a setup removes devices.
- `OnlyTheUserDecides` (`UserDecides`), an action property.

**`OfferProofs`** (`Offer`, with the tracker of `SessionTrackerProofs`)

- `OffersOnlyWhereItIsWanted` (`OffersOnlyWhereWanted`), which speaks of an empty queue.
  `StillWanted`: unless a run was dropped from a full queue, a real offer that is not wanted any
  more has, somewhere in the queue and not yet begun, the run that will take it back. Each step
  keeps the offer wanted, queues such a run, or leaves the one there waiting. That an offer is of
  the best socket rests on a lemma that there is one, from the well-foundedness of `<` on `Nat`.
- `OfferIsTyped` (`OfferTypeOK`), whose last part says that the entities show the snapshot
  once all are written. `Behind` says it of each entity that is not among the unwritten ones.
- `NothingUntouchedIsOffered` (`NothingUntouchedOffered`), an action property. `UntouchedHeld`: a
  socket free since before your charge ended is held back, the left one too until somebody has
  used it; it rests on the tracker's `LeftSocketHeld`. `FirstIsFresh`: only the first run in the
  queue may be one that did not wait, and what it was triggered with still holds when it begins,
  though others of the entities have yet to be written.
  Of a run that waited neither is true, which is the disagreement of section 5.

Three proofs said something about the models. In `Connection`, whatever the client's attempt comes
to, the task can follow: the composition leaves no attempt unanswered and opens no channel that the
push channel's own model would not (`TheTaskCanFollow`). In `Offer` a best socket only exists
because the chosen ones are a list. And in `DetailRefresh` it is cycles that succeed which an hour
must have enough of: `HourSuffices` counts those that end early too. With none of them it is sharp, as
`detail_starved` shows; with some it is only sufficient.

Only model-checked:

- everything under liveness (`EventuallyConsistent`, `HistoryEventuallyRead`,
  `EveryCommandFinishes`, `EveryRequestEnds`, `PushOpens`, `EventuallyLoaded`, `EveryRunEnds` and
  the like): the prover knows neither fairness nor `ENABLED`;
- `BacksOff` (`PushChannel`): its delay is a power of two, and what the prover is missing is
  that one more in the exponent doubles it, an induction.

No module here has recursive operators.

## 5. Disagreements between the code and what is said of it

Checked by a run, listed under `findings`:

- **Reused by nobody** (`reused_by_nobody`): `CONTEXT.md:53` defines *Reused* as "Someone else
  started using the left socket after it freed". A poll whose chargers were read before the
  socket freed is observed (`coordinator.py:254`) after the push that freed it; its in-use status
  counts as a reuse.
- **Starved details** (`detail_starved`): `coordinator.py:401` says "each charger is still
  refreshed once an hour". `due[:1]` takes the first in configured order; with more chargers than
  polls an hour (twelve at 300 s) the last ones are never refreshed again.

Met while modelling and kept in the models as the code has them, without a run of their own:

- `README.md:120`, "Nothing visible happened within 60 s": each push uses up one of the twelve
  checks (`commands.py:204`), so a command can be given up much earlier; and a failed last poll
  ends the wait without a look at what was published meanwhile (`commands.py:217`).
- `commands.py:43`, "stop at this rate-limit headroom": the floor is compared before a command
  poll of up to five requests (`commands.py:208`).
- `CONTEXT.md:61` on own starts: a command elsewhere makes a recent start forgotten
  (`session_tracker.py:234`); `CONTEXT.md:53`: your own start on the left socket counts as
  someone else's (`session_tracker.py:308`); one pushed end is remembered, so a second within the
  window gives up the first (`session_tracker.py:199`).
- `session_tracker.py:144`, "at the next poll": an end pushed while a poll reads the account is
  stamped over (`coordinator.py:257`); the next wallet window makes up for it, which is what
  `HistoryEventuallyRead` says.
- `README.md:251`, "As it changes": a poll that read the chargers before a push republishes the
  older status (`coordinator.py:276`) until the next push or poll.
- `coordinator.py:192`, "every change is published": a poll that fails after its observation
  leaves the tracker's session unpublished (`coordinator.py:235-246`).
- `coordinator.py:866-876`: the account's Stop on a charger you have not added puts that charger
  among those kept. Its pushes are applied like your chargers' (`coordinator.py:786`, "the
  broadcast covers every charger on the network") until the next scheduled poll takes it out.
- `coordinator.py:768`, "caught up now": reconnecting while the requested poll still waits for
  the debouncer drops it (`coordinator.py:766`).
- `README.md:259`, "Extra polls run after a start or stop resolves": the end of a command
  publishes and requests no poll (`coordinator.py:587-599`).
- `driivz/client.py:235`: the retry of one request can bear a token that another request's login
  has replaced (`docs/api.md:37`), and raise `AuthError` with a good password.
- A poll whose requests lose the login in that way raises `ConfigEntryAuthFailed`
  (`coordinator.py:264`), after which Home Assistant schedules no further poll. With a good password
  the entities stay unavailable, and no charge history is read, until you reauthenticate or reload,
  or a push, the push channel or Refresh now brings a poll.
- `README.md:243`, "growing delays": a channel that opens and drops at once is retried after the
  least delay each time (`coordinator.py:701`).
- `README.md:107`, "re-read a few seconds after any socket on the charger changes": a change that
  comes while the answer to the last is on its way schedules nothing (`coordinator.py:539`), and
  a command commits at its end what it read at its press (`coordinator.py:593`).
- `README.md:40`, "untick to stop monitoring one": a charger added while the dialog was open is
  dropped by submitting it (`config_flow.py:405`).

- The blueprint, `offer_free_charger.yaml:327`, "the first press is already under way or done": the
  second of two taps is evaluated when its run starts, behind the first one's press held open; more
  than a minute later (an unconfirmed start) it presses again (`:316`).
- `README.md:161`, "If someone else takes the socket on offer, the notification quietly changes": an
  arrival offers a socket that has been free for less than `freed_for`; taken before that, its offer
  stays (`:449`). Likewise one that a preferred socket, free for a moment, hides from the check
  (`:451`). Both checks use the time at which the run starts.
- `README.md:157`, "Once you have stopped charging": a run triggered during the charge, held up
  behind your own actions until after it, offers sockets that were free all along; a tracker that
  bounces at the edge of the zone counts as having come after the end (`:249`), and a reload or a
  failed poll forgets what is held back.
- A socket taken in the same snapshot that shows the end of your charge is evaluated before the
  other sockets' `held_back` is written, and may quietly offer one of them (`:252`,
  `coordinator.py:629`). `NothingUntouchedOffered` excepts a socket not yet written, and is
  violated in the run `offer` without that exception.
- `offer_free_charger.yaml:299-302`, "if it is still the one the notification showed": Android's tap
  is compared by the name of the socket alone. If a socket of that name on another charger is the
  best one by then, its start button is pressed.
- A socket whose capabilities rule out a start is offered all the same; its tap says that it is no
  longer free (`:320`).

## 6. Not modelled

Sensors and binary sensors other than Charging and the sockets' status, entity names and units;
diagnostics; the parsing of the portal's JSON and the parameters of its facades; the first
configuration, a form around one validated login before there is an entry; what the blueprint's
notifications say and how a phone shows them; the content of details, prices and
transactions. Of two sessions one after the other on the same socket, seen by no poll between
them, the code knows nothing, and neither do the models.

## 7. Plan

1. *Done*: tracker, its proofs; commands; coordinator, from its first poll, implementing the
   tracker; client and push channel, composed; notify switch; capabilities; detail refresh; sites
   with settings and reauthentication; the start rules, with proofs; the blueprint on the tracker.
2. *Done*: proofs of all invariants and action properties of the runs that expect no violation but
   `BacksOff`, and of the refinement.
3. What is left stays with TLC: the liveness properties and `BacksOff` (section 4).
