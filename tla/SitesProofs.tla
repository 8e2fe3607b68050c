----------------------------- MODULE SitesProofs -----------------------------
(***************************************************************************)
(* No change of the monitored chargers, the options or the password is     *)
(* missed by setup, the devices follow the monitored chargers, and nobody  *)
(* but the user adds or drops one: for any sites, chargers, settings and   *)
(* number of dialogs, changes and failed setups.                           *)
(*                                                                         *)
(* NoChangeMissed is not inductive: that a change queues a reload rests on *)
(* the listener being registered whenever chargers have been read and the  *)
(* setup that read them has not failed.  TypeOK is not either: what a      *)
(* dialog writes is of a site, which an open dialog has.                   *)
(***************************************************************************)
EXTENDS Sites, TLAPS

Read == { "refreshing", "loaded" }

\* The listener is there from the reading of the subentries to the end of the
\* unload or the failure of the setup; only a migrated entry gets that far.
Inductive ==
    /\ listening \in BOOLEAN /\ reload \in BOOLEAN
    /\ state \in Read \cup {"unloading"} => listening
    /\ state # "unloaded" => version = 3
    /\ version = 3 => legacy = {}
    /\ NoChangeMissed

LEMMA InductiveInit == Init => Inductive
<1> SUFFICES ASSUME Init PROVE Inductive
  OBVIOUS
<1>1. state = "unloaded" /\ listening = FALSE /\ reload = FALSE
  BY DEF Init
<1>2. version = 3 => legacy = {}
  BY DEF Init
<1> QED
  BY <1>1, <1>2 DEF Inductive, NoChangeMissed, Read

\* A change queues a reload, or leaves the monitored chargers as they were.
LEMMA UpdateMisses ==
    ASSUME Inductive, NEW s, NEW ids, Update(s, ids)
    PROVE  Inductive'
<1>1. UNCHANGED << version, legacy, settings, state, listening, loaded, using >>
  BY DEF Update, setup
<1>2. reload' = (reload \/ (listening /\ station_ids' # station_ids))
  BY DEF Update
<1>3. reload' \in BOOLEAN
  BY <1>2
<1>4. NoChangeMissed'
  <2> SUFFICES ASSUME state \in Read, loaded # Monitored' \/ using # settings, ~reload'
               PROVE  FALSE
    BY <1>1, <1>3 DEF NoChangeMissed, Read
  <2>1. ~reload /\ listening
    BY <1>2 DEF Inductive
  <2>2. station_ids' = station_ids
    BY <1>2, <2>1
  <2>3. Monitored' = Monitored
    BY <1>1, <2>2 DEF Monitored, configured
  <2> QED
    BY <2>1, <2>3 DEF Inductive, NoChangeMissed, Read
<1> QED
  BY <1>1, <1>3, <1>4 DEF Inductive

What == << version, legacy, station_ids, settings, state, listening, loaded, using, reload >>

\* Neither a dialog nor a setup that leaves the entry, what the coordinator
\* took from it, the listener and the queue alone makes it miss one.
LEMMA DialogMisses ==
    ASSUME Inductive, UNCHANGED What
    PROVE  Inductive'
BY DEF What, Inductive, NoChangeMissed, Monitored, configured

LEMMA InductiveNext == Inductive /\ [Next]_vars => Inductive'
<1> SUFFICES ASSUME Inductive, [Next]_vars PROVE Inductive'
  OBVIOUS
<1>1. ASSUME NEW f \in Flows, NEW s \in Sites, NEW found \in SUBSET At(s),
             OpenAdd(f, s, found) \/ OpenChange(f, s, found)
      PROVE  Inductive'
  <2>1. UNCHANGED What
    BY <1>1 DEF OpenAdd, OpenChange, entry, setup, What
  <2> QED
    BY <2>1, DialogMisses
<1>2. ASSUME NEW f \in Flows, NEW ids \in SUBSET flows[f].shown,
             SubmitAdd(f, ids) \/ SubmitChange(f, ids)
      PROVE  Inductive'
  BY <1>2, UpdateMisses DEF SubmitAdd, SubmitChange
<1>3. ASSUME NEW f \in Flows, Cancel(f) PROVE Inductive'
  <2>1. UNCHANGED What
    BY <1>3 DEF Cancel, entry, setup, What
  <2> QED
    BY <2>1, DialogMisses
<1>4. ASSUME NEW s \in Sites, Delete(s) PROVE Inductive'
  BY <1>4, UpdateMisses DEF Delete
<1>5. CASE Migrate
  BY <1>5 DEF Migrate, setup, Inductive, NoChangeMissed, Read
<1>6. CASE BeginSetup
  <2>1. loaded' = Monitored' /\ using' = settings'
    BY <1>6 DEF BeginSetup, entry, Inductive, Monitored, configured
  <2> QED
    BY <1>6, <2>1 DEF BeginSetup, entry, Inductive, NoChangeMissed, Read
<1>7. CASE SetupFails
  BY <1>7 DEF SetupFails, entry, Inductive, NoChangeMissed, Read
<1>8. ASSUME NEW missing \in SUBSET loaded, NEW created \in SUBSET (loaded \ missing),
             SetupCompletes(missing, created)
      PROVE  Inductive'
  <2>1. Monitored' = Monitored
    BY <1>8 DEF SetupCompletes, entry, Monitored, configured
  <2> QED
    BY <1>8, <2>1 DEF SetupCompletes, entry, Inductive, NoChangeMissed, Read
<1>9. CASE Reload
  BY <1>9 DEF Reload, entry, Inductive, NoChangeMissed, Read
<1>10. CASE Unload
  BY <1>10 DEF Unload, entry, Inductive, NoChangeMissed, Read
<1>11. ASSUME NEW interval \in Intervals, ChangeOptions(interval) PROVE Inductive'
  <2>1. Monitored' = Monitored
    BY <1>11 DEF ChangeOptions, Monitored, configured
  <2> QED
    BY <1>11, <2>1 DEF ChangeOptions, setup, Inductive, NoChangeMissed, Read
<1>12. ASSUME NEW password \in Passwords, ChangePassword(password) PROVE Inductive'
  <2>1. UNCHANGED What
    BY <1>12 DEF ChangePassword, entry, setup, What
  <2> QED
    BY <2>1, DialogMisses
<1>13. CASE PollRefused
  <2>1. UNCHANGED What
    BY <1>13 DEF PollRefused, entry, setup, What
  <2> QED
    BY <2>1, DialogMisses
<1>14. CASE Reauthenticate
  BY <1>14 DEF Reauthenticate, setup, Inductive, NoChangeMissed, Read
<1>15. CASE SetupRefused
  BY <1>15 DEF SetupRefused, entry, Inductive, NoChangeMissed, Read
<1>16. CASE UNCHANGED vars
  BY <1>16, DialogMisses DEF vars, entry, setup, What
<1> QED
  BY <1>1, <1>2, <1>3, <1>4, <1>5, <1>6, <1>7, <1>8, <1>9, <1>10, <1>11,
     <1>12, <1>13, <1>14, <1>15, <1>16
  DEF Next, SetupStep

\* A coordinator that does not use what the entry says is about to be
\* replaced (async_setup_entry, _async_entry_updated).
THEOREM NothingMissed == Spec => []NoChangeMissed
<1>1. Inductive => NoChangeMissed
  BY DEF Inductive
<1> QED
  BY InductiveInit, InductiveNext, <1>1, PTL DEF Spec

-----------------------------------------------------------------------------
\* An open dialog is of a site, which only a migrated entry has; before the
\* migration no site has a charger.
Dialogs ==
    /\ \A f \in Flows : flows[f].kind # "none" => version = 3 /\ flows[f].site \in Sites
    /\ version = 2 => \A s \in Sites : station_ids[s] = {}

Typed == TypeOK /\ Dialogs

LEMMA TypedInit == Init => Typed
<1> SUFFICES ASSUME Init PROVE Typed
  OBVIOUS
<1> USE SitesAssumption DEF Init
<1>1. settings \in Settings /\ using \in Settings
  BY DEF Settings
<1>2. \A f \in Flows : flows[f] = Closed
  OBVIOUS
<1>3. Dialogs
  <2>1. \A f \in Flows : flows[f].kind = "none"
    BY <1>2 DEF Closed
  <2> QED
    BY <2>1 DEF Dialogs
<1>4. flows \in [ Flows -> [ kind : {"none", "add", "change"}, site : Sites \cup {NoSite},
                             shown : SUBSET Chargers ] ]
  BY DEF Closed
<1>5. \A f \in Flows : /\ flows[f] # Closed => flows[f].shown \subseteq At(flows[f].site)
                       /\ flows[f].kind = "change" => station_ids[flows[f].site] # {}
  BY <1>2 DEF Closed
<1>6. legacy \subseteq Chargers /\ \A s \in Sites : station_ids[s] \subseteq At(s)
  OBVIOUS
<1>7. Monitored \subseteq Chargers
  BY <1>6 DEF Monitored, configured, At
<1>8. changes \in 0 .. MaxChanges /\ failures \in 0 .. MaxFailures
  OBVIOUS
<1>9. version \in {2, 3} /\ (version = 3 => legacy = {})
      /\ station_ids \in [ Sites -> SUBSET Chargers ]
  OBVIOUS
<1>10. devices = Monitored /\ loaded = {} /\ unreturned = {} /\ accepted = Password
       /\ state = "unloaded" /\ listening = FALSE /\ reload = FALSE /\ reauth = FALSE
  OBVIOUS
<1> QED
  BY ONLY SitesAssumption, <1>1, <1>3, <1>4, <1>5, <1>6, <1>7, <1>8, <1>9, <1>10 DEF Typed, TypeOK

\* What an open dialog shows are chargers of its site.
LEMMA Shown ==
    ASSUME Typed, NEW f \in Flows, flows[f].kind # "none"
    PROVE  /\ flows[f].site \in Sites /\ version = 3
           /\ flows[f].shown \subseteq At(flows[f].site)
<1>1. flows[f] # Closed
  BY DEF Closed
<1> QED
  BY <1>1 DEF Typed, TypeOK, Dialogs

\* Opening a dialog of a site keeps the types.
LEMMA OpenTyped ==
    ASSUME Typed, NEW f \in Flows, NEW s \in Sites, NEW kind \in {"add", "change"},
           NEW shown \in SUBSET At(s), version = 3,
           kind = "change" => station_ids[s] # {},
           Show(f, kind, s, shown),
           UNCHANGED << entry, login, setup, reload, devices, changes >>
    PROVE  Typed'
<1> USE DEF Typed
<1>1. shown \subseteq Chargers
  BY DEF At
<1>2. flows' \in [ Flows -> [ kind : {"none", "add", "change"}, site : Sites \cup {NoSite},
                              shown : SUBSET Chargers ] ]
  BY <1>1 DEF TypeOK, Show
<1>3. \A g \in Flows : flows'[g] = IF g = f THEN [ kind |-> kind, site |-> s, shown |-> shown ]
                                   ELSE flows[g]
  BY DEF TypeOK, Show
<1>4. UNCHANGED << version, legacy, station_ids, settings, accepted, reauth, state, listening,
                   loaded, using, unreturned, failures, reload, devices, changes >>
  BY DEF entry, login, setup
<1>5. \A g \in Flows :
        /\ flows'[g] # Closed => flows'[g].shown \subseteq At(flows'[g].site)
        /\ flows'[g].kind = "change" => station_ids'[flows'[g].site] # {}
  BY <1>3, <1>4 DEF TypeOK
<1>6. Dialogs'
  BY <1>3, <1>4 DEF Dialogs
<1>7. TypeOK'
  BY <1>2, <1>4, <1>5 DEF TypeOK, At
<1> QED
  BY <1>6, <1>7

\* So does writing chargers of a site, while dialogs close and devices go, as
\* long as no dialog to change a site is left without chargers to change.
LEMMA UpdateTyped ==
    ASSUME Typed, NEW s \in Sites, NEW ids \in SUBSET At(s), version = 3, Update(s, ids),
           NEW closed \in SUBSET Flows,
           flows' = [ f \in Flows |-> IF f \in closed THEN Closed ELSE flows[f] ],
           ids = {} => \A f \in Flows \ closed : flows[f].kind = "change" => flows[f].site # s,
           devices' \subseteq devices
    PROVE  Typed'
<1> USE DEF Typed
<1>1. UNCHANGED << version, legacy, settings, accepted, reauth, state, listening,
                   loaded, using, unreturned, failures >>
  BY DEF Update, login, setup
<1>2. station_ids' \in [ Sites -> SUBSET Chargers ]
  BY DEF Update, TypeOK, At
<1>3. \A t \in Sites : station_ids'[t] = IF t = s THEN ids ELSE station_ids[t]
  BY DEF Update, TypeOK
<1>4. \A f \in Flows : flows'[f] = IF f \in closed THEN Closed ELSE flows[f]
  OBVIOUS
<1>5. Closed \in [ kind : {"none", "add", "change"}, site : Sites \cup {NoSite},
                   shown : SUBSET Chargers ]
  BY DEF Closed
<1>6. flows' \in [ Flows -> [ kind : {"none", "add", "change"}, site : Sites \cup {NoSite},
                              shown : SUBSET Chargers ] ]
  BY <1>5 DEF TypeOK
<1>7. ASSUME NEW f \in Flows
      PROVE  /\ flows'[f] # Closed => flows'[f].shown \subseteq At(flows'[f].site)
             /\ flows'[f].kind = "change" => station_ids'[flows'[f].site] # {}
  <2>1. CASE f \in closed
    BY <2>1, <1>4 DEF Closed
  <2>2. CASE f \notin closed
    <3>1. flows'[f] = flows[f]
      BY <2>2, <1>4
    <3>2. flows[f].kind = "change" => flows[f].site \in Sites
      BY DEF Dialogs
    <3>3. flows[f].kind = "change" => station_ids'[flows[f].site] # {}
      BY <2>2, <3>2, <1>3 DEF TypeOK
    <3> QED
      BY <3>1, <3>3 DEF TypeOK
  <2> QED
    BY <2>1, <2>2
<1>8. Dialogs'
  BY <1>1, <1>4 DEF Dialogs, Closed
<1>9. reload' \in BOOLEAN
  BY DEF Update, TypeOK
<1>10. changes' \in 0 .. MaxChanges
  BY SitesAssumption DEF Update, TypeOK
<1>11. \A t \in Sites : station_ids'[t] \subseteq At(t)
  BY <1>3 DEF TypeOK
<1>12. TypeOK'
  BY <1>1, <1>2, <1>6, <1>7, <1>9, <1>10, <1>11 DEF TypeOK, At
<1> QED
  BY <1>8, <1>12

\* Closing a dialog is one of these, the chargers left as they are.
LEMMA Closes ==
    ASSUME Typed, NEW f \in Flows, flows' = [ flows EXCEPT ![f] = Closed ]
    PROVE  flows' = [ g \in Flows |-> IF g \in {f} THEN Closed ELSE flows[g] ]
BY DEF Typed, TypeOK

LEMMA DialogTyped ==
    ASSUME Typed, NEW f \in Flows, NEW s \in Sites, NEW found \in SUBSET At(s),
           OpenAdd(f, s, found) \/ OpenChange(f, s, found)
    PROVE  Typed'
<1>1. CASE OpenAdd(f, s, found)
  <2>1. found \ configured \in SUBSET At(s)
    OBVIOUS
  <2> QED
    BY <1>1, <2>1, OpenTyped DEF OpenAdd
<1>2. CASE OpenChange(f, s, found)
  <2>1. found \cup station_ids[s] \in SUBSET At(s)
    BY DEF Typed, TypeOK
  <2> QED
    BY <1>2, <2>1, OpenTyped DEF OpenChange
<1> QED
  BY <1>1, <1>2

LEMMA SubmitTyped ==
    ASSUME Typed, NEW f \in Flows, NEW ids \in SUBSET flows[f].shown,
           SubmitAdd(f, ids) \/ SubmitChange(f, ids)
    PROVE  Typed'
<1>1. flows[f].kind # "none" /\ ids # {} /\ flows' = [ flows EXCEPT ![f] = Closed ]
      /\ devices' = devices
  BY DEF SubmitAdd, SubmitChange
<1>2. flows[f].site \in Sites /\ version = 3 /\ ids \in SUBSET At(flows[f].site)
  BY <1>1, Shown
<1>3. flows' = [ g \in Flows |-> IF g \in {f} THEN Closed ELSE flows[g] ]
  BY <1>1, Closes
<1> DEFINE closed == {f}
<1>6. closed \in SUBSET Flows /\ devices' \subseteq devices
      /\ flows' = [ g \in Flows |-> IF g \in closed THEN Closed ELSE flows[g] ]
  BY <1>1, <1>3
<1> HIDE DEF closed
<1>4. CASE SubmitAdd(f, ids)
  <2> DEFINE both == station_ids[flows[f].site] \cup ids
  <2>1. both \in SUBSET At(flows[f].site)
    BY <1>2 DEF Typed, TypeOK
  <2>2. Update(flows[f].site, both)
    BY <1>4 DEF SubmitAdd
  <2>3. both # {}
    BY <1>1
  <2> HIDE DEF both
  <2> QED
    BY <1>2, <1>6, <2>1, <2>2, <2>3, UpdateTyped
<1>5. CASE SubmitChange(f, ids)
  <2>1. Update(flows[f].site, ids)
    BY <1>5 DEF SubmitChange
  <2> QED
    BY <1>1, <1>2, <1>6, <2>1, UpdateTyped
<1> QED
  BY <1>4, <1>5

LEMMA DeleteTyped ==
    ASSUME Typed, NEW s \in Sites, Delete(s)
    PROVE  Typed'
<1> DEFINE closed == { f \in Flows : flows[f].kind = "change" /\ flows[f].site = s }
<1>1. version = 3 /\ Update(s, {}) /\ devices' \subseteq devices
  BY DEF Delete
<1>2. flows' = [ f \in Flows |-> IF f \in closed THEN Closed ELSE flows[f] ]
  BY DEF Delete
<1>3. closed \in SUBSET Flows
      /\ \A f \in Flows \ closed : flows[f].kind = "change" => flows[f].site # s
  OBVIOUS
<1>4. {} \in SUBSET At(s)
  OBVIOUS
<1> HIDE DEF closed
<1> QED
  BY <1>1, <1>2, <1>3, <1>4, UpdateTyped

\* The migration gives each site its own chargers, and there is no dialog yet.
LEMMA MigrateTyped ==
    ASSUME Typed, Migrate
    PROVE  Typed'
<1> USE DEF Typed
<1>1. UNCHANGED << settings, accepted, reauth, flows, state, listening, loaded, using,
                   unreturned, failures, reload, changes >>
  BY DEF Migrate, login, setup
<1>2. version = 2 /\ version' = 3 /\ legacy' = {} /\ devices' \subseteq Chargers
  BY DEF Migrate, TypeOK
<1>3. station_ids' = [ s \in Sites |-> legacy \cap At(s) ]
  BY DEF Migrate
<1>4. station_ids' \in [ Sites -> SUBSET Chargers ]
      /\ \A s \in Sites : station_ids'[s] \subseteq At(s)
  BY <1>3 DEF TypeOK
<1>5. \A f \in Flows : flows[f].kind = "none"
  BY <1>2 DEF Dialogs
<1>6. Dialogs'
  BY <1>1, <1>2, <1>5 DEF Dialogs
<1>7. TypeOK'
  BY <1>1, <1>2, <1>4, <1>5 DEF TypeOK, At
<1> QED
  BY <1>6, <1>7

\* A step that leaves the subentries and the dialogs alone has only the rest
\* to keep.
Rest ==
    /\ state \in { "unloaded", "refreshing", "loaded", "unloading", "retry", "error" }
    /\ settings \in Settings /\ using \in Settings /\ accepted \in Passwords
    /\ listening \in BOOLEAN /\ reload \in BOOLEAN /\ reauth \in BOOLEAN
    /\ listening <=> state \in { "refreshing", "loaded", "unloading" }
    /\ loaded \subseteq Chargers /\ devices \subseteq Chargers /\ unreturned \subseteq Chargers
    /\ changes \in 0 .. MaxChanges /\ failures \in 0 .. MaxFailures

LEMMA HasRest == Typed => Rest
BY DEF Typed, TypeOK, Rest

LEMMA RestTyped ==
    ASSUME Typed, Rest', UNCHANGED << version, legacy, station_ids, flows >>
    PROVE  Typed'
<1>1. Dialogs'
  BY DEF Typed, Dialogs
<1>2. TypeOK'
  BY DEF Typed, TypeOK, Rest, At
<1> QED
  BY <1>1, <1>2 DEF Typed

LEMMA SetupRest ==
    ASSUME Typed,
           \/ BeginSetup \/ SetupFails \/ SetupRefused \/ Reload \/ Unload
           \/ PollRefused \/ Reauthenticate
           \/ \E missing \in SUBSET loaded : \E created \in SUBSET (loaded \ missing) :
                 SetupCompletes(missing, created)
           \/ \E interval \in Intervals : ChangeOptions(interval)
           \/ \E password \in Passwords : ChangePassword(password)
    PROVE  Typed'
<1> USE SitesAssumption DEF Rest, entry, login, setup
<1>1. Rest
  BY HasRest
<1>2. CASE BeginSetup
  <2>1. configured \subseteq Chargers
    BY DEF Typed, TypeOK, configured
  <2> QED
    BY <1>1, <1>2, <2>1, RestTyped DEF BeginSetup
<1>3. CASE SetupFails
  <2>1. failures' \in 0 .. MaxFailures
    BY <1>1, <1>3 DEF SetupFails
  <2>2. Rest'
    BY <1>1, <1>3, <2>1 DEF SetupFails
  <2> QED
    BY <1>3, <2>2, RestTyped DEF SetupFails
<1>4. CASE SetupRefused
  BY <1>1, <1>4, RestTyped DEF SetupRefused
<1>5. CASE Reload
  BY <1>1, <1>5, RestTyped DEF Reload
<1>6. CASE Unload
  BY <1>1, <1>6, RestTyped DEF Unload
<1>7. CASE PollRefused
  BY <1>1, <1>7, RestTyped DEF PollRefused
<1>8. CASE Reauthenticate
  BY <1>1, <1>8, RestTyped DEF Reauthenticate, Settings
<1>9. ASSUME NEW missing \in SUBSET loaded, NEW created \in SUBSET (loaded \ missing),
             SetupCompletes(missing, created)
      PROVE  Typed'
  BY <1>1, <1>9, RestTyped DEF SetupCompletes
<1>10. ASSUME NEW interval \in Intervals, ChangeOptions(interval) PROVE Typed'
  BY <1>1, <1>10, RestTyped DEF ChangeOptions, Settings
<1>11. ASSUME NEW password \in Passwords, ChangePassword(password) PROVE Typed'
  BY <1>1, <1>11, RestTyped DEF ChangePassword
<1> QED
  BY <1>2, <1>3, <1>4, <1>5, <1>6, <1>7, <1>8, <1>9, <1>10, <1>11

LEMMA TypedNext == Typed /\ [Next]_vars => Typed'
<1> SUFFICES ASSUME Typed, [Next]_vars PROVE Typed'
  OBVIOUS
<1>1. ASSUME NEW f \in Flows, Cancel(f) PROVE Typed'
  <2>1. flows' = [ g \in Flows |-> IF g \in {f} THEN Closed ELSE flows[g] ]
    BY <1>1, Closes DEF Cancel
  <2>2. UNCHANGED << version, legacy, station_ids, settings, accepted, reauth, state, listening,
                     loaded, using, unreturned, failures, reload, devices, changes >>
    BY <1>1 DEF Cancel, entry, login, setup
  <2>3. flows' \in [ Flows -> [ kind : {"none", "add", "change"}, site : Sites \cup {NoSite},
                                shown : SUBSET Chargers ] ]
    BY <2>1 DEF Closed, Typed, TypeOK
  <2>4. \A g \in Flows : flows'[g] = Closed \/ flows'[g] = flows[g]
    BY <2>1
  <2>5. Closed.kind = "none"
    BY DEF Closed
  <2>6. Dialogs'
    BY <2>2, <2>4, <2>5 DEF Typed, Dialogs
  <2>7. \A g \in Flows :
          /\ flows'[g] # Closed => flows'[g].shown \subseteq At(flows'[g].site)
          /\ flows'[g].kind = "change" => station_ids'[flows'[g].site] # {}
    BY <2>2, <2>4, <2>5 DEF Typed, TypeOK
  <2>8. TypeOK'
    BY <2>2, <2>3, <2>7 DEF Typed, TypeOK, At
  <2> QED
    BY <2>6, <2>8 DEF Typed
<1>2. CASE UNCHANGED vars
  <2>1. Rest'
    BY <1>2, HasRest DEF vars, entry, login, setup, Rest
  <2> QED
    BY <1>2, <2>1, RestTyped DEF vars, entry
<1> QED
  BY <1>1, <1>2, DialogTyped, SubmitTyped, DeleteTyped, MigrateTyped, SetupRest
  DEF Next, SetupStep

\* Of a site's subentry every charger is of that site, an open dialog shows
\* no other, and the listener is registered exactly while the entry is being
\* set up, loaded or unloaded (config_flow.py, async_setup_entry).
THEOREM SitesAreTyped == Spec => []TypeOK
<1>1. Typed => TypeOK
  BY DEF Typed
<1> QED
  BY TypedInit, TypedNext, <1>1, PTL DEF Spec

-----------------------------------------------------------------------------
(* The devices.  A loaded entry with no reload waiting monitors what it    *)
(* has loaded, so that setup leaves the right ones, and any change queues  *)
(* a reload.                                                               *)

LEMMA DevicesNext ==
    ASSUME Typed, Inductive, Inductive', DevicesFollow, [Next]_vars
    PROVE  DevicesFollow'
<1> SUFFICES ASSUME state' = "loaded", ~reload'
             PROVE  devices' \subseteq Monitored' /\ Monitored' \ devices' \subseteq unreturned'
  BY DEF DevicesFollow
<1>1. CASE UNCHANGED << version, legacy, station_ids, state, reload, devices, unreturned >>
  BY <1>1 DEF DevicesFollow, Monitored, configured
<1>2. ASSUME NEW s, NEW ids, Update(s, ids)
      PROVE  UNCHANGED << legacy, station_ids, state, reload, unreturned >> /\ state = "loaded"
  <2>1. state' = state /\ unreturned' = unreturned /\ legacy' = legacy /\ listening
    BY <1>2 DEF Update, setup, Inductive, Read
  <2>2. ~reload /\ station_ids' = station_ids
    BY <1>2, <2>1 DEF Update
  <2>3. reload' = reload
    BY <2>2 DEF Inductive
  <2> QED
    BY <2>1, <2>2, <2>3
<1>3. ASSUME NEW f \in Flows, NEW ids \in SUBSET flows[f].shown,
             SubmitAdd(f, ids) \/ SubmitChange(f, ids)
      PROVE  devices' \subseteq Monitored' /\ Monitored' \ devices' \subseteq unreturned'
  BY <1>2, <1>3 DEF SubmitAdd, SubmitChange, DevicesFollow, Monitored, configured
<1>4. ASSUME NEW s \in Sites PROVE ~Delete(s)
  <2> SUFFICES ASSUME Delete(s) PROVE FALSE
    OBVIOUS
  <2>1. station_ids' = station_ids /\ station_ids[s] # {}
    BY <1>2 DEF Delete
  <2>2. station_ids' = [ station_ids EXCEPT ![s] = {} ]
    BY DEF Delete, Update
  <2> QED
    BY <2>1, <2>2 DEF Typed, TypeOK
<1>5. ASSUME NEW missing \in SUBSET loaded, NEW created \in SUBSET (loaded \ missing),
             SetupCompletes(missing, created)
      PROVE  devices' \subseteq Monitored' /\ Monitored' \ devices' \subseteq unreturned'
  <2>1. Monitored' = loaded
    BY <1>5 DEF SetupCompletes, Inductive, NoChangeMissed
  <2>2. ~reload /\ unreturned' = missing /\ devices' = (devices \cap loaded) \cup (loaded \ missing)
    BY <1>5 DEF SetupCompletes
  <2> QED
    BY <2>1, <2>2
<1>6. ASSUME NEW interval \in Intervals, ChangeOptions(interval) PROVE FALSE
  BY <1>6 DEF ChangeOptions, setup, Inductive, Read
<1>7. ASSUME NEW f \in Flows, NEW s \in Sites, NEW found \in SUBSET At(s),
             OpenAdd(f, s, found) \/ OpenChange(f, s, found)
      PROVE  UNCHANGED << version, legacy, station_ids, state, reload, devices, unreturned >>
  BY <1>7 DEF OpenAdd, OpenChange, entry, setup
<1>8. ASSUME \/ \E f \in Flows : Cancel(f)
             \/ \E password \in Passwords : ChangePassword(password)
             \/ PollRefused \/ UNCHANGED vars
      PROVE  UNCHANGED << version, legacy, station_ids, state, reload, devices, unreturned >>
  BY <1>8 DEF Cancel, ChangePassword, PollRefused, vars, entry, setup
<1>9. ~Migrate /\ ~BeginSetup /\ ~SetupFails /\ ~SetupRefused /\ ~Reload /\ ~Unload
      /\ ~Reauthenticate
  BY DEF Migrate, BeginSetup, SetupFails, SetupRefused, Reload, Unload, Reauthenticate, setup
<1> QED
  BY <1>1, <1>3, <1>4, <1>5, <1>6, <1>7, <1>8, <1>9 DEF Next, SetupStep

\* A loaded entry with no reload waiting has the devices of the monitored
\* chargers and no others, one the portal did not return perhaps excepted
\* (_async_remove_unmonitored_chargers).
THEOREM DevicesAlwaysFollow == Spec => []DevicesFollow
<1>1. Init => DevicesFollow
  BY DEF Init, DevicesFollow
<1>2. Typed /\ Inductive /\ Inductive' /\ DevicesFollow /\ [Next]_vars => DevicesFollow'
  BY DevicesNext
<1> QED
  BY <1>1, <1>2, TypedInit, TypedNext, InductiveInit, InductiveNext, PTL DEF Spec

-----------------------------------------------------------------------------
(* Who decides what is monitored.                                          *)

\* What a step may do to the monitored chargers.
Decided ==
    /\ Monitored' # Monitored => changes' = changes + 1
    /\ \A f \in Flows : flows[f].kind = "add" /\ flows'[f] # flows[f]
                         => Monitored \subseteq Monitored'

\* A migration, met before any dialog, moves the chargers and keeps them all.
LEMMA MigrateKeeps ==
    ASSUME Typed, Migrate
    PROVE  Monitored' = Monitored
<1>1. legacy' = {} /\ station_ids' = [ s \in Sites |-> legacy \cap At(s) ]
  BY DEF Migrate
<1>2. \A s \in Sites : station_ids[s] = {}
  BY DEF Migrate, Typed, Dialogs
<1>3. Monitored = legacy
  BY <1>2 DEF Monitored, configured
<1>4. Monitored' = UNION { legacy \cap At(s) : s \in Sites }
  BY <1>1 DEF Monitored, configured
<1>5. \A c \in legacy : SiteOf[c] \in Sites /\ c \in At(SiteOf[c])
  BY SitesAssumption DEF Typed, TypeOK, At
<1>6. UNION { legacy \cap At(s) : s \in Sites } = legacy
  BY <1>5
<1> QED
  BY <1>3, <1>4, <1>6

\* Adding chargers to those of a site drops none.
LEMMA AddKeeps ==
    ASSUME Typed, NEW s \in Sites, NEW ids, Update(s, station_ids[s] \cup ids)
    PROVE  Monitored \subseteq Monitored'
<1>1. \A t \in Sites : station_ids[t] \subseteq station_ids'[t]
  BY DEF Update, Typed, TypeOK
<1>2. legacy' = legacy
  BY DEF Update
<1> QED
  BY <1>1, <1>2 DEF Monitored, configured

LEMMA Decides ==
    ASSUME Typed, [Next]_vars
    PROVE  [Decided]_vars
<1> SUFFICES ASSUME Next PROVE Decided
  OBVIOUS
<1>1. ASSUME UNCHANGED << legacy, station_ids >> PROVE Decided
  BY <1>1 DEF Decided, Monitored, configured
<1>2. ASSUME NEW f \in Flows, NEW ids \in SUBSET flows[f].shown, SubmitAdd(f, ids)
      PROVE  Decided
  <2>1. flows[f].site \in Sites
    BY <1>2, Shown DEF SubmitAdd
  <2>2. Monitored \subseteq Monitored' /\ changes' = changes + 1
    BY <1>2, <2>1, AddKeeps DEF SubmitAdd, Update
  <2> QED
    BY <2>2 DEF Decided
<1>3. ASSUME NEW f \in Flows, NEW ids \in SUBSET flows[f].shown, SubmitChange(f, ids)
      PROVE  Decided
  <2>1. flows[f].kind = "change" /\ changes' = changes + 1
    BY <1>3 DEF SubmitChange, Update
  <2>2. \A g \in Flows : g # f => flows'[g] = flows[g]
    BY <1>3 DEF SubmitChange, Typed, TypeOK
  <2> QED
    BY <2>1, <2>2 DEF Decided
<1>4. ASSUME NEW s \in Sites, Delete(s) PROVE Decided
  <2>1. changes' = changes + 1
    BY <1>4 DEF Delete, Update
  <2>2. \A f \in Flows : flows[f].kind = "add" => flows'[f] = flows[f]
    BY <1>4 DEF Delete
  <2> QED
    BY <2>1, <2>2 DEF Decided
<1>5. CASE Migrate
  BY <1>5, MigrateKeeps DEF Decided
<1>6. ASSUME NEW f \in Flows, NEW s \in Sites, NEW found \in SUBSET At(s),
             OpenAdd(f, s, found) \/ OpenChange(f, s, found)
      PROVE  Decided
  BY <1>1, <1>6 DEF OpenAdd, OpenChange, entry
<1>7. ASSUME \/ \E f \in Flows : Cancel(f)
             \/ \E interval \in Intervals : ChangeOptions(interval)
             \/ \E password \in Passwords : ChangePassword(password)
             \/ PollRefused \/ Reauthenticate
             \/ BeginSetup \/ SetupFails \/ SetupRefused \/ Reload \/ Unload
             \/ \E missing \in SUBSET loaded : \E created \in SUBSET (loaded \ missing) :
                   SetupCompletes(missing, created)
      PROVE  Decided
  <2>1. UNCHANGED << legacy, station_ids >>
    BY <1>7 DEF Cancel, ChangeOptions, ChangePassword, PollRefused, Reauthenticate, BeginSetup,
       SetupFails, SetupRefused, Reload, Unload, SetupCompletes, entry
  <2> QED
    BY <1>1, <2>1
<1> QED
  BY <1>2, <1>3, <1>4, <1>5, <1>6, <1>7 DEF Next, SetupStep

\* Chargers come and go by a dialog or Delete alone: never by a migration, a
\* reload or a failed setup; and "Add charger" drops none
\* (async_migrate_entry, MerSiteSubentryFlow).
THEOREM OnlyTheUserDecides == Spec => UserDecides
<1>1. Typed /\ [Next]_vars => [Decided]_vars
  BY Decides
<1> QED
  BY <1>1, TypedInit, TypedNext, PTL DEF Spec, UserDecides, Decided
=============================================================================
