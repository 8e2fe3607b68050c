------------------------------- MODULE Sites -------------------------------
(***************************************************************************)
(* Which chargers are monitored: the config entry's subentries, one per    *)
(* site, written by "Add charger", "Change chargers" and Delete            *)
(* (config_flow.py) while the entry is set up, reloaded and migrated       *)
(* (__init__.py); and the password and the options it is set up with,      *)
(* which a reauthentication and the options dialog write.                  *)
(*                                                                         *)
(* Home Assistant is external: it runs one setup or unload of the entry at *)
(* a time, retries a failed one, tells the update listener of a change,    *)
(* removes the devices of a deleted subentry, and asks the user for the    *)
(* password once the portal has refused the one it has.                    *)
(***************************************************************************)
EXTENDS Naturals

CONSTANTS
    Sites, Chargers,
    SiteOf,         \* the site of each charger, which the portal's detail tells
    Flows,          \* slots for dialogs open at the same time
    NoSite,
    Passwords,
    Intervals,      \* scan intervals
    Password,       \* the first password
    Interval,       \* the default scan interval
    MaxChanges,     \* bound on changes of the entry and of the portal's password
    MaxFailures     \* bound on setups that fail

ASSUME SitesAssumption ==
    /\ SiteOf \in [ Chargers -> Sites ] /\ NoSite \notin Sites
    /\ Password \in Passwords /\ Interval \in Intervals
    /\ MaxChanges \in Nat /\ MaxFailures \in Nat

VARIABLES
    version,        \* of the entry, 2 or 3
    legacy,         \* the chargers with a subentry of their own (version 2)
    station_ids,    \* the chargers of each site's subentry; {}: there is none
    settings,       \* the entry's password and scan interval
    accepted,       \* the password the portal accepts
    reauth,         \* the user is asked for the password
    flows,          \* open dialogs
    state,          \* of the entry
    listening,      \* the update listener is registered
    reload,         \* a reload waits for its turn
    loaded,         \* the chargers of the coordinator
    using,          \* the settings it was created with
    devices,        \* the chargers with a device
    unreturned,     \* those the portal did not return to the last setup
    changes, failures

entry == << version, legacy, station_ids, settings >>
login == << accepted, reauth >>
setup == << state, listening, loaded, using, unreturned, failures >>
vars == << entry, login, flows, setup, reload, devices, changes >>

At(s) == { c \in Chargers : SiteOf[c] = s }
configured == UNION { station_ids[s] : s \in Sites }
Monitored == configured \cup legacy

Settings == [ password : Passwords, scan_interval : Intervals ]
Closed == [ kind |-> "none", site |-> NoSite, shown |-> {} ]

\* A subentry lists chargers of its own site, and the dialogs offer no other.
TypeOK ==
    /\ version \in {2, 3}
    /\ legacy \subseteq Chargers
    /\ version = 3 => legacy = {}
    /\ station_ids \in [ Sites -> SUBSET Chargers ]
    /\ \A s \in Sites : station_ids[s] \subseteq At(s)
    /\ flows \in [ Flows -> [ kind : {"none", "add", "change"}, site : Sites \cup {NoSite},
                              shown : SUBSET Chargers ] ]
    /\ \A f \in Flows :
        /\ flows[f] # Closed => flows[f].shown \subseteq At(flows[f].site)
        /\ flows[f].kind = "change" => station_ids[flows[f].site] # {}
    /\ state \in { "unloaded", "refreshing", "loaded", "unloading", "retry", "error" }
    /\ { settings, using } \subseteq Settings /\ accepted \in Passwords
    /\ { listening, reload, reauth } \subseteq BOOLEAN
    /\ listening <=> state \in { "refreshing", "loaded", "unloading" }
    /\ { loaded, devices, unreturned } \subseteq SUBSET Chargers
    /\ changes \in 0 .. MaxChanges /\ failures \in 0 .. MaxFailures

\* Home Assistant starts with an entry of either version.
Init ==
    /\ version \in {2, 3}
    /\ IF version = 2 THEN legacy \in SUBSET Chargers ELSE legacy = {}
    /\ station_ids \in [ Sites -> SUBSET Chargers ]
    /\ \A s \in Sites :
        IF version = 2 THEN station_ids[s] = {} ELSE station_ids[s] \subseteq At(s)
    /\ settings = [ password |-> Password, scan_interval |-> Interval ]
    /\ accepted = Password /\ using = settings
    /\ reauth = FALSE
    /\ flows = [ f \in Flows |-> Closed ]
    /\ state = "unloaded"
    /\ listening = FALSE /\ reload = FALSE
    /\ loaded = {} /\ unreturned = {}
    /\ devices = Monitored
    /\ changes = 0 /\ failures = 0

-----------------------------------------------------------------------------
(* Dialogs                                                                 *)

Show(f, kind, s, shown) ==
    flows' = [ flows EXCEPT ![f] = [ kind |-> kind, site |-> s, shown |-> shown ] ]

\* The listener of a loaded entry reloads it (_async_entry_updated).
Update(s, ids) ==
    /\ changes < MaxChanges
    /\ station_ids' = [ station_ids EXCEPT ![s] = ids ]
    /\ reload' = (reload \/ (listening /\ station_ids' # station_ids))
    /\ changes' = changes + 1
    /\ UNCHANGED << version, legacy, settings, login, setup >>

\* "Add charger" at a site, logged in with the account's password: what the
\* portal returns there and is not monitored yet.
OpenAdd(f, s, found) ==
    /\ version = 3 /\ flows[f] = Closed /\ settings.password = accepted
    /\ found \subseteq At(s) /\ found \ configured # {}
    /\ Show(f, "add", s, found \ configured)
    /\ UNCHANGED << entry, login, setup, reload, devices, changes >>

\* "Change chargers": what the portal returns, and what is monitored anyway.
OpenChange(f, s, found) ==
    /\ version = 3 /\ flows[f] = Closed /\ settings.password = accepted
    /\ station_ids[s] # {} /\ found \subseteq At(s)
    /\ Show(f, "change", s, found \cup station_ids[s])
    /\ UNCHANGED << entry, login, setup, reload, devices, changes >>

\* The chargers join those of the site at this time.
SubmitAdd(f, ids) ==
    /\ flows[f].kind = "add"
    /\ ids # {} /\ ids \subseteq flows[f].shown
    /\ Update(flows[f].site, station_ids[flows[f].site] \cup ids)
    /\ flows' = [ flows EXCEPT ![f] = Closed ]
    /\ UNCHANGED devices

\* The ticked chargers take the place of the site's.
SubmitChange(f, ids) ==
    /\ flows[f].kind = "change"
    /\ ids # {} /\ ids \subseteq flows[f].shown
    /\ Update(flows[f].site, ids)
    /\ flows' = [ flows EXCEPT ![f] = Closed ]
    /\ UNCHANGED devices

Cancel(f) ==
    /\ flows[f] # Closed
    /\ flows' = [ flows EXCEPT ![f] = Closed ]
    /\ UNCHANGED << entry, login, setup, reload, devices, changes >>

\* Home Assistant removes the devices of the site's subentry; the dialogs
\* that change it have nothing to write to.
Delete(s) ==
    /\ version = 3 /\ station_ids[s] # {}
    /\ Update(s, {})
    /\ devices' = devices \ At(s)
    /\ flows' = [ f \in Flows |-> IF flows[f].kind = "change" /\ flows[f].site = s
                                  THEN Closed ELSE flows[f] ]

\* The options dialog (MerOptionsFlow).
ChangeOptions(interval) ==
    /\ changes < MaxChanges /\ changes' = changes + 1
    /\ interval # settings.scan_interval
    /\ settings' = [ settings EXCEPT !.scan_interval = interval ]
    /\ reload' = (reload \/ listening)
    /\ UNCHANGED << version, legacy, station_ids, login, flows, setup, devices >>

\* You change your password at the portal.
ChangePassword(password) ==
    /\ changes < MaxChanges /\ changes' = changes + 1
    /\ password # accepted /\ accepted' = password
    /\ UNCHANGED << entry, reauth, flows, setup, reload, devices >>

\* You are asked until the password you give is accepted; the entry is
\* reloaded with it, whatever its state (async_update_reload_and_abort).
Reauthenticate ==
    /\ reauth /\ reauth' = FALSE
    /\ settings' = [ settings EXCEPT !.password = accepted ]
    /\ reload' = TRUE
    /\ UNCHANGED << version, legacy, station_ids, accepted, flows, setup, devices, changes >>

-----------------------------------------------------------------------------
(* Setup                                                                   *)

\* A mutation: the last charger of a site replaces the others.
Migrate_overwriting ==
    /\ state = "unloaded" /\ version = 2
    /\ version' = 3 /\ legacy' = {}
    /\ station_ids' \in { f \in [ Sites -> SUBSET Chargers ] : \A s \in Sites :
          IF legacy \cap At(s) = {} THEN f[s] = {} ELSE \E c \in legacy \cap At(s) : f[s] = {c} }
    /\ devices' = devices \ legacy
    /\ UNCHANGED << settings, login, flows, setup, reload, changes >>

\* Chargers with a subentry each become sites with a subentry each.  Home
\* Assistant removes the devices with the subentries; setup creates them anew.
Migrate ==
    /\ state = "unloaded" /\ version = 2
    /\ version' = 3 /\ legacy' = {}
    /\ station_ids' = [ s \in Sites |-> legacy \cap At(s) ]
    /\ devices' = devices \ legacy
    /\ UNCHANGED << settings, login, flows, setup, reload, changes >>

\* A mutation: the listener is not registered before the first refresh.
BeginSetup_deaf ==
    /\ state \in { "unloaded", "retry" } /\ version = 3
    /\ state' = "refreshing"
    /\ loaded' = configured /\ using' = settings
    /\ UNCHANGED << entry, login, flows, listening, reload, devices, unreturned, changes,
                    failures >>

\* The listener is registered, and the chargers are read, before anything is
\* awaited.
BeginSetup ==
    /\ state \in { "unloaded", "retry" } /\ version = 3
    /\ state' = "refreshing"
    /\ listening' = TRUE
    /\ loaded' = configured /\ using' = settings
    /\ UNCHANGED << entry, login, flows, reload, devices, unreturned, changes, failures >>

\* The first refresh fails: the listener is unregistered, setup is retried.
SetupFails ==
    /\ state = "refreshing" /\ failures < MaxFailures
    /\ state' = "retry"
    /\ listening' = FALSE
    /\ failures' = failures + 1
    /\ UNCHANGED << entry, login, flows, reload, loaded, using, devices, unreturned, changes >>

\* A mutation: the devices of chargers no longer monitored stay.
SetupCompletes_keeping(missing, created) ==
    /\ state = "refreshing" /\ using.password = accepted
    /\ missing \subseteq loaded
    /\ created \subseteq loaded \ missing /\ (~reload => created = loaded \ missing)
    /\ devices' = devices \cup created
    /\ unreturned' = missing
    /\ state' = "loaded"
    /\ UNCHANGED << entry, login, flows, listening, reload, loaded, using, changes, failures >>

\* The devices of chargers no longer monitored go, those of the chargers the
\* portal returned come.  With a reload waiting, some may be refused: their
\* subentry has gone.
SetupCompletes(missing, created) ==
    /\ state = "refreshing" /\ using.password = accepted
    /\ missing \subseteq loaded
    /\ created \subseteq loaded \ missing /\ (~reload => created = loaded \ missing)
    /\ devices' = (devices \cap loaded) \cup created
    /\ unreturned' = missing
    /\ state' = "loaded"
    /\ UNCHANGED << entry, login, flows, listening, reload, loaded, using, changes, failures >>

\* The portal refuses the password: setup is not retried, the user is asked.
\* A poll that finds it refused later only asks.
SetupRefused ==
    /\ state = "refreshing" /\ using.password # accepted
    /\ state' = "error"
    /\ listening' = FALSE
    /\ reauth' = TRUE
    /\ UNCHANGED << entry, accepted, flows, reload, loaded, using, devices, unreturned, changes,
                    failures >>

PollRefused ==
    /\ state = "loaded" /\ using.password # accepted /\ ~reauth
    /\ reauth' = TRUE
    /\ UNCHANGED << entry, accepted, flows, setup, reload, devices, changes >>

\* A reload waits for a setup under way.
Reload ==
    /\ reload /\ state \in { "loaded", "retry", "error" }
    /\ reload' = FALSE
    /\ state' = IF state = "loaded" THEN "unloading" ELSE "unloaded"
    /\ UNCHANGED << entry, login, flows, listening, loaded, using, devices, unreturned, changes,
                    failures >>

Unload ==
    /\ state = "unloading"
    /\ state' = "unloaded"
    /\ listening' = FALSE
    /\ UNCHANGED << entry, login, flows, reload, loaded, using, devices, unreturned, changes,
                    failures >>

-----------------------------------------------------------------------------
SetupStep ==
    \/ Migrate \/ BeginSetup \/ SetupFails \/ SetupRefused \/ Reload \/ Unload
    \/ \E missing \in SUBSET loaded : \E created \in SUBSET (loaded \ missing) :
          SetupCompletes(missing, created)

Next ==
    \/ \E f \in Flows, s \in Sites : \E found \in SUBSET At(s) :
          OpenAdd(f, s, found) \/ OpenChange(f, s, found)
    \/ \E f \in Flows : \E ids \in SUBSET flows[f].shown : SubmitAdd(f, ids) \/ SubmitChange(f, ids)
    \/ \E f \in Flows : Cancel(f)
    \/ \E s \in Sites : Delete(s)
    \/ \E interval \in Intervals : ChangeOptions(interval)
    \/ \E password \in Passwords : ChangePassword(password)
    \/ PollRefused
    \/ Reauthenticate
    \/ SetupStep

Spec == Init /\ [][Next]_vars

\* Home Assistant gets on with what it has begun, the coordinator polls, and
\* the user answers when asked for the password.
FairSpec == Spec /\ WF_vars(SetupStep) /\ WF_vars(PollRefused) /\ WF_vars(Reauthenticate)

-----------------------------------------------------------------------------
\* A coordinator that does not monitor what the subentries say, or does not
\* use the entry's password and scan interval, is about to be replaced: no
\* change falls between reading the entry and the listener
\* (async_setup_entry).
NoChangeMissed ==
    state \in { "refreshing", "loaded" } /\ (loaded # Monitored \/ using # settings) => reload

\* A loaded entry with no reload waiting has the devices of the monitored
\* chargers and no others, one the portal did not return perhaps excepted
\* (_async_remove_unmonitored_chargers).
DevicesFollow ==
    state = "loaded" /\ ~reload =>
        devices \subseteq Monitored /\ Monitored \ devices \subseteq unreturned

\* Chargers come and go by a dialog or Delete alone: never by a migration, a
\* reload or a failed setup; and "Add charger" drops none.
UserDecides ==
    [][ /\ Monitored' # Monitored => changes' = changes + 1
        /\ \A f \in Flows : flows[f].kind = "add" /\ flows'[f] # flows[f]
                             => Monitored \subseteq Monitored' ]_vars

\* Once the user is done, what runs is what the entry says, with the password
\* the portal accepts, even if that changed meanwhile.
EventuallyLoaded ==
    <>[](state = "loaded" /\ loaded = Monitored /\ using = settings /\ using.password = accepted)
=============================================================================
