-------------------------------- MODULE Mixer --------------------------------
(***************************************************************************)
(* The reducer of the mixer: state::update (src/state.rs), one action per  *)
(* message, with every helper the message calls inside the action. The     *)
(* state is the App struct plus the state file, and the commands the last  *)
(* message asked the worker for.                                           *)
(*                                                                         *)
(* Left out: the status line, the palette and the expanded groups, which   *)
(* no other message reads.                                                 *)
(***************************************************************************)
EXTENDS MixerTypes

CONSTANTS
  Report,       \* what the worker may say of a node: [id : Id, stream : Stream]
  MaxSeq,       \* bound: first-seen numbers minted
  SaveMayFail   \* whether writing the state file can fail

ASSUME ReportAssumption == Report \subseteq [id : Id, stream : Stream]
ASSUME MaxSeqAssumption == MaxSeq \in Nat
ASSUME SaveAssumption == SaveMayFail \in BOOLEAN

VARIABLES
  streams,         \* node id -> stream, or Absent
  tombstoned,      \* ids whose node is gone but whose row is still shown
  app_order,       \* node id -> first-seen number, or None
  app_seq,         \* the next first-seen number
  pending,         \* active-profile entries with no matching stream
  profiles,        \* the profile row, in order
  active,          \* name of the active profile, or None
  section_filter,  \* the sections shown
  modal,           \* the open profile dialog, or None
  dirty,           \* live state changed since the last snapshot
  geometry,
  geometry_dirty,
  disk,            \* what the state file holds, or None
  out,             \* node id -> commands the last message asked for
  out_default      \* default device the last message asked for, by direction

rowVars     == <<streams, tombstoned, app_order, app_seq>>
profileVars == <<profiles, active, disk>>
windowVars  == <<geometry, geometry_dirty>>
vars == <<streams, tombstoned, app_order, app_seq, pending, profiles, active,
          section_filter, modal, dirty, geometry, geometry_dirty, disk,
          out, out_default>>

Typed == Name \cup {Blank}

Modal == [op : {"create", "rename", "delete"}, old : Name \cup {None}, name : Typed]

Saved == [profiles : Seq(Profile), active : Name \cup {None}, geometry : Geometry]

ASSUME FileAssumption == None \notin Saved

Rows == {i \in Id : streams[i] # Absent}

AppRows == {i \in Rows : streams[i].kind = "app"}

\* members_of_app_row: streams of one identity share a row, and a stream
\* without one has a row to itself.
RowOf(i) == {j \in AppRows : j = i \/ (streams[j].key # None /\ streams[j].key = streams[i].key)}

-----------------------------------------------------------------------------
(* What several messages do.                                               *)

NoCommands ==
  /\ out' = [i \in Id |-> <<>>]
  /\ out_default' = NoDefaults

MarkDirty == dirty' = (dirty \/ active # None)

\* Broken variant of Told: a ghost's gesture goes to its dead node too.
ToldAlways(id, commands) == commands

\* A tombstoned row has no node to send anything to.
Told(id, commands) == IF id \in tombstoned THEN <<>> ELSE commands

Contents(ps, a, g) == [profiles |-> ps, active |-> a, geometry |-> g]

\* The file is replaced by a rename, so it holds the new contents or the old.
Persist(contents) == disk' \in {contents} \cup (IF SaveMayFail THEN {disk} ELSE {})

EnsureProfiles(ps) == IF ps = <<>> THEN <<SeededProfile>> ELSE ps

EnsureActive(ps, a) == IF a # None /\ Has(ps, a) THEN a ELSE ps[1].name

\* Rows in DOMAIN new change by the user's hand; the server is told of the
\* ones that still have a node.
Edit(new, commands) ==
  /\ streams' = [i \in Id |-> IF i \in DOMAIN new THEN new[i] ELSE streams[i]]
  /\ out' = [i \in Id |-> IF i \in DOMAIN new THEN Told(i, commands[i]) ELSE <<>>]
  /\ out_default' = NoDefaults
  /\ MarkDirty
  /\ UNCHANGED <<tombstoned, app_order, app_seq, pending, profileVars,
                 section_filter, modal, windowVars>>

-----------------------------------------------------------------------------
(* Events from the worker.                                                 *)

\* Broken variant of Ghosts: a stream back under its own id evicts itself.
GhostsWithSelf(id, s) ==
  IF s.kind = "app" /\ ~s.ephemeral /\ s.key # None
  THEN {g \in tombstoned : streams[g] # Absent /\ SlotOf(streams[g]) = SlotOf(s)}
  ELSE {}

\* The tombstoned rows a fresh stream of the same app evicts.
Ghosts(id, s) ==
  IF s.kind = "app" /\ ~s.ephemeral /\ s.key # None
  THEN {g \in tombstoned \ {id} : streams[g] # Absent /\ SlotOf(streams[g]) = SlotOf(s)}
  ELSE {}

Preset(s) == IF s.key = None THEN None ELSE pending.entries[SlotOf(s)]

\* Broken variant of AwaitedDefault: the saved default is never fulfilled.
AwaitedDefaultNever(s) == FALSE

AwaitedDefault(s) == s.kind \in Device /\ s.key # None /\ pending.defaults[s.kind] = s.key

\* Broken variant of Inherited: the ghost's settings die with it.
InheritedNothing(s, heir) == s

\* What the new row shows of the ghost it replaces.
Inherited(s, heir) == IF heir = None THEN s ELSE Settle(s, SettingsOf(streams[heir]))

\* A row without a number takes a new one unless its ghost leaves it one.
Mints(heir) == heir = None \/ app_order[heir] = None

\* StreamAdded and StreamUpdated of s under id, without a ghost (heir = None)
\* or after the ghost `heir`. Pending settings land first, the ghost's last.
Arrive(id, s, heir) ==
  LET preset == Preset(s)
      gone   == Ghosts(id, s)
      fresh  == s.kind = "app" /\ app_order[id] = None
      mints  == fresh /\ Mints(heir)
  IN  /\ mints => app_seq < MaxSeq
      /\ streams' = [i \in Id |->
                       IF i = id
                       THEN Inherited(IF preset = None THEN s ELSE Settle(s, preset), heir)
                       ELSE IF i \in gone THEN Absent ELSE streams[i]]
      /\ tombstoned' = tombstoned \ (gone \cup {id})
      /\ app_order' = [i \in Id |->
                         IF i \in gone THEN None
                         ELSE IF i # id \/ ~fresh THEN app_order[i]
                         ELSE IF mints THEN app_seq ELSE app_order[heir]]
      /\ app_seq' = IF mints THEN app_seq + 1 ELSE app_seq
      /\ pending' = [entries  |-> IF s.key = None THEN pending.entries
                                  ELSE [pending.entries EXCEPT ![SlotOf(s)] = None],
                     defaults |-> IF AwaitedDefault(s)
                                  THEN [pending.defaults EXCEPT ![s.kind] = None]
                                  ELSE pending.defaults]
      /\ out' = [i \in Id |->
                   IF i # id THEN <<>>
                   ELSE (IF preset = None THEN <<>> ELSE SettleCommands(s.kind, preset))
                          \o (IF heir = None THEN <<>>
                              ELSE ReplayCommands(SettingsOf(streams[heir])))]
      /\ out_default' = IF AwaitedDefault(s)
                        THEN [NoDefaults EXCEPT ![s.kind] = s.key] ELSE NoDefaults
      /\ UNCHANGED <<profileVars, section_filter, modal, dirty, windowVars>>

\* The ghosts are walked in a hash set's order: any of them may be the heir.
StreamEvent(id, s) ==
  IF Ghosts(id, s) = {} THEN Arrive(id, s, None)
  ELSE \E heir \in Ghosts(id, s) : Arrive(id, s, heir)

\* An app's row outlives its node, unless it was an event sound.
Outlives(id) == id \in AppRows /\ ~streams[id].ephemeral

StreamRemoved(id) ==
  /\ IF Outlives(id)
     THEN /\ tombstoned' = tombstoned \cup {id}
          /\ UNCHANGED <<streams, app_order>>
     ELSE /\ streams' = [streams EXCEPT ![id] = Absent]
          /\ tombstoned' = tombstoned \ {id}
          /\ app_order' = [app_order EXCEPT ![id] = None]
  /\ NoCommands
  /\ UNCHANGED <<app_seq, pending, profileVars, section_filter, modal, dirty, windowVars>>

-----------------------------------------------------------------------------
(* Gestures on rows. A message names a row of the last projection, which   *)
(* is rebuilt after every message that changes one.                        *)

VolumeChanged(id, c) ==
  Edit([i \in {id} |-> [streams[i] EXCEPT !.volume = CubicToLinear(c)]],
       [i \in {id} |-> <<SetVolume(CubicToLinear(c))>>])

MuteToggled(id) ==
  Edit([i \in {id} |-> [streams[i] EXCEPT !.muted = ~@]],
       [i \in {id} |-> MuteCommands(~streams[i].muted, streams[i].volume)])

\* Broken variant of Rescaled: the ratio is to the quietest audible member.
RescaledToQuietest(i, row, c) ==
  LET level(j) == LinearToCubic(streams[j].volume)
      audible  == {level(j) : j \in row} \ {0}
  IN  IF audible = {} THEN c ELSE Min({MaxVolume, (level(i) * c) \div Min(audible)})

\* The loudest member goes to c and the others keep their ratio to it.
\* Slider positions are whole steps here, so a ratio is rounded down.
Rescaled(i, row, c) ==
  LET level(j) == LinearToCubic(streams[j].volume)
      master   == Max({level(j) : j \in row})
  IN  IF master = 0 THEN c ELSE Min({MaxVolume, (level(i) * c) \div master})

GroupVolumeChanged(id, c) ==
  LET gain(i) == CubicToLinear(Rescaled(i, RowOf(id), c))
  IN  Edit([i \in RowOf(id) |-> [streams[i] EXCEPT !.volume = gain(i)]],
           [i \in RowOf(id) |-> <<SetVolume(gain(i))>>])

\* Mutes a set of rows as one, re-asserting the volume of each on unmute.
MuteAs(rows, mute) ==
  Edit([i \in rows |-> [streams[i] EXCEPT !.muted = mute]],
       [i \in rows |-> MuteCommands(mute, streams[i].volume)])

GroupMuteToggled(id) == MuteAs(RowOf(id), \E i \in RowOf(id) : ~streams[i].muted)

MuteAllToggled ==
  LET sinks == {i \in Rows : streams[i].kind = "sink"}
  IN  MuteAs(sinks, sinks = {} \/ \E i \in sinks : ~streams[i].muted)

Pin(rows, sink) ==
  Edit([i \in rows |-> [streams[i] EXCEPT !.target = sink]],
       [i \in rows |-> <<SetStreamTarget(sink)>>])

\* The sinks a pin can name.
Pinnable == {streams[i].key : i \in {j \in Rows : streams[j].kind = "sink"}} \ {None}

SetTarget(id, sink) == Pin({id}, sink)

GroupSetTarget(id, sink) == Pin(RowOf(id), sink)

ClearTarget(id) == Pin({id}, None)

GroupClearTarget(id) == Pin(RowOf(id), None)

ResetAllTargets == Pin({i \in AppRows : streams[i].target # None}, None)

\* The default mark itself moves only when the server's metadata echoes.
MakeDefault(id) ==
  /\ streams[id].kind \in Device
  /\ ~streams[id].isDefault
  /\ streams[id].key # None
  /\ out' = [i \in Id |-> <<>>]
  /\ out_default' = [NoDefaults EXCEPT ![streams[id].kind] = streams[id].key]
  /\ MarkDirty
  /\ UNCHANGED <<rowVars, pending, profileVars, section_filter, modal, windowVars>>

ToggleSection(section) ==
  /\ section_filter' = SymDiff(section_filter, {section})
  /\ NoCommands
  /\ MarkDirty
  /\ UNCHANGED <<rowVars, pending, profileVars, modal, windowVars>>

-----------------------------------------------------------------------------
(* Profiles, dialogs and saving.                                           *)

WithSnapshot == InsertOrReplace(profiles, Snapshot(active, streams, section_filter))

\* The stream that takes the entry under slot: the first by id.
Takes(i, p) ==
  /\ i \in Rows
  /\ streams[i].key # None
  /\ p.entries[SlotOf(streams[i])] # None
  /\ i = Min(Matches(streams, SlotOf(streams[i])))

Connected(d, key) == \E i \in Rows : streams[i].kind = d /\ streams[i].key = key

\* Broken variant of Flushes: a switch drops what was not saved.
FlushesNever(name) == FALSE

\* Leaving a profile flushes it first; applying the active one reverts it.
Flushes(name) == dirty /\ active # None /\ active # name

ApplyProfile(name) ==
  LET flush == Flushes(name)
      ps    == IF flush THEN WithSnapshot ELSE profiles
      p     == Find(ps, name)
      final == Contents(ps, name, geometry)
      entry(i) == p.entries[SlotOf(streams[i])]
  IN  /\ Has(profiles, name)
      /\ profiles' = ps
      /\ active' = name
      /\ streams' = [i \in Id |-> IF Takes(i, p) THEN Settle(streams[i], entry(i))
                                  ELSE streams[i]]
      /\ out' = [i \in Id |-> IF Takes(i, p)
                              THEN Told(i, SettleCommands(streams[i].kind, entry(i)))
                              ELSE <<>>]
      /\ out_default' = [d \in Device |-> IF Connected(d, p.defaults[d])
                                          THEN p.defaults[d] ELSE None]
      /\ pending' = [entries  |-> [slot \in Slot |-> IF Matches(streams, slot) = {}
                                                     THEN p.entries[slot] ELSE None],
                     defaults |-> [d \in Device |-> IF Connected(d, p.defaults[d])
                                                    THEN None ELSE p.defaults[d]]]
      /\ section_filter' = p.filter
      /\ dirty' = FALSE
      /\ geometry_dirty' = (geometry_dirty /\ ~flush)
      /\ disk' \in {final} \cup (IF ~SaveMayFail THEN {}
                                 ELSE {disk} \cup (IF flush THEN {Contents(ps, active, geometry)}
                                                   ELSE {}))
      /\ UNCHANGED <<tombstoned, app_order, app_seq, modal, geometry>>

\* What removing a profile does, the dialog already closed.
DeleteProfile(name) ==
  LET ps == EnsureProfiles(Remove(profiles, name))
      a  == EnsureActive(ps, IF active = name THEN None ELSE active)
  IN  /\ profiles' = ps
      /\ active' = a
      /\ pending' = IF active = name THEN NothingPending ELSE pending
      /\ section_filter' = Find(ps, a).filter
      /\ Persist(Contents(ps, a, geometry))

ReorderProfile(name, target, before) ==
  /\ name # target
  /\ Has(profiles, name) /\ Has(profiles, target)
  /\ DropAt(profiles, name, target, before) # IndexOf(profiles, name)
  /\ profiles' = Reorder(profiles, name, target, before)
  /\ Persist(Contents(profiles', active, geometry))
  /\ NoCommands
  /\ UNCHANGED <<rowVars, pending, active, section_filter, modal, dirty, windowVars>>

\* A step that only opens, edits or closes the dialog.
Dialog(m) ==
  /\ modal' = m
  /\ NoCommands
  /\ UNCHANGED <<rowVars, pending, profileVars, section_filter, dirty, windowVars>>

OpenCreate == Dialog([op |-> "create", old |-> None, name |-> Blank])

OpenRename(name) ==
  Has(profiles, name) /\ Dialog([op |-> "rename", old |-> name, name |-> name])

OpenDelete(name) ==
  Has(profiles, name) /\ Dialog([op |-> "delete", old |-> None, name |-> name])

ModalNameChanged(typed) ==
  modal # None /\ modal.op # "delete" /\ Dialog([modal EXCEPT !.name = typed])

ModalDismiss == modal # None /\ Dialog(None)

\* A blank name keeps the dialog open, so only a name confirms.
ConfirmCreate ==
  /\ modal # None /\ modal.op = "create" /\ modal.name # Blank
  /\ modal' = None
  /\ profiles' = InsertOrReplace(profiles, Snapshot(modal.name, streams, section_filter))
  /\ active' = modal.name
  /\ pending' = NothingPending
  /\ dirty' = FALSE
  /\ Persist(Contents(profiles', modal.name, geometry))
  /\ NoCommands
  /\ UNCHANGED <<rowVars, section_filter, windowVars>>

\* A name in use keeps the dialog open; one that did not change, or whose
\* profile is gone, closes it.
ConfirmRename ==
  /\ modal # None /\ modal.op = "rename" /\ modal.name # Blank
  /\ modal.name = modal.old \/ ~Has(profiles, modal.name)
  /\ modal' = None
  /\ IF modal.name # modal.old /\ Has(profiles, modal.old)
     THEN /\ profiles' = Rename(profiles, modal.old, modal.name)
          /\ active' = IF active = modal.old THEN modal.name ELSE active
          /\ Persist(Contents(profiles', active', geometry))
     ELSE UNCHANGED profileVars
  /\ NoCommands
  /\ UNCHANGED <<rowVars, pending, section_filter, dirty, windowVars>>

ConfirmDelete ==
  /\ modal # None /\ modal.op = "delete"
  /\ modal' = None
  /\ IF Has(profiles, modal.name)
     THEN DeleteProfile(modal.name)
     ELSE UNCHANGED <<profileVars, pending, section_filter>>
  /\ NoCommands
  /\ UNCHANGED <<rowVars, dirty, windowVars>>

\* Broken variant of AutoSaveTick: the resize is never marked as saved.
AutoSaveTickKeepsMark ==
  /\ dirty \/ geometry_dirty
  /\ profiles' = IF dirty /\ active # None THEN WithSnapshot ELSE profiles
  /\ dirty' = FALSE
  /\ Persist(Contents(profiles', active, geometry))
  /\ NoCommands
  /\ UNCHANGED <<rowVars, pending, active, section_filter, modal, windowVars>>

AutoSaveTick ==
  /\ dirty \/ geometry_dirty
  /\ profiles' = IF dirty /\ active # None THEN WithSnapshot ELSE profiles
  /\ dirty' = FALSE
  /\ geometry_dirty' = FALSE
  /\ Persist(Contents(profiles', active, geometry))
  /\ NoCommands
  /\ UNCHANGED <<rowVars, pending, active, section_filter, modal, geometry>>

\* Broken variant of GeometryChanged: the resize is not marked for saving.
GeometryChangedUnmarked(g) ==
  /\ geometry # g
  /\ geometry' = g
  /\ NoCommands
  /\ UNCHANGED <<rowVars, pending, profileVars, section_filter, modal, dirty,
                 geometry_dirty>>

GeometryChanged(g) ==
  /\ geometry # g
  /\ geometry' = g
  /\ geometry_dirty' = TRUE
  /\ NoCommands
  /\ UNCHANGED <<rowVars, pending, profileVars, section_filter, modal, dirty>>

-----------------------------------------------------------------------------
(* A boot from what the state file holds, the first one and any after the  *)
(* process went away.                                                      *)

BootProfiles(file) == EnsureProfiles(IF file = None THEN <<>> ELSE file.profiles)

BootActive(file) == EnsureActive(BootProfiles(file), IF file = None THEN None ELSE file.active)

BootFilter(file) == Find(BootProfiles(file), BootActive(file)).filter

BootGeometry(file) == IF file = None THEN FirstRun ELSE file.geometry

Init ==
  /\ disk = None
  /\ streams = [i \in Id |-> Absent]
  /\ tombstoned = {}
  /\ app_order = [i \in Id |-> None]
  /\ app_seq = 0
  /\ pending = NothingPending
  /\ profiles = BootProfiles(disk)
  /\ active = BootActive(disk)
  /\ section_filter = BootFilter(disk)
  /\ modal = None
  /\ dirty = FALSE
  /\ geometry = BootGeometry(disk)
  /\ geometry_dirty = FALSE
  /\ out = [i \in Id |-> <<>>]
  /\ out_default = NoDefaults

Restart ==
  /\ streams' = [i \in Id |-> Absent]
  /\ tombstoned' = {}
  /\ app_order' = [i \in Id |-> None]
  /\ app_seq' = 0
  /\ pending' = NothingPending
  /\ profiles' = BootProfiles(disk)
  /\ active' = BootActive(disk)
  /\ section_filter' = BootFilter(disk)
  /\ modal' = None
  /\ dirty' = FALSE
  /\ geometry' = BootGeometry(disk)
  /\ geometry_dirty' = FALSE
  /\ NoCommands
  /\ UNCHANGED disk

-----------------------------------------------------------------------------

WorkerStep ==
  \/ \E r \in Report : StreamEvent(r.id, r.stream)
  \/ \E id \in Id : StreamRemoved(id)

RowStep ==
  \/ \E id \in Rows, c \in Cubic : VolumeChanged(id, c)
  \/ \E id \in Rows : MuteToggled(id)
  \/ \E id \in AppRows, c \in Cubic : GroupVolumeChanged(id, c)
  \/ \E id \in AppRows : GroupMuteToggled(id)
  \/ \E id \in AppRows, sink \in Pinnable : SetTarget(id, sink)
  \/ \E id \in AppRows, sink \in Pinnable : GroupSetTarget(id, sink)
  \/ \E id \in AppRows : ClearTarget(id)
  \/ \E id \in AppRows : GroupClearTarget(id)
  \/ ResetAllTargets
  \/ \E id \in Rows : MakeDefault(id)
  \/ MuteAllToggled
  \/ \E section \in Section : ToggleSection(section)

ProfileStep ==
  \/ \E name \in Name : ApplyProfile(name)
  \/ \E name, target \in Name, before \in BOOLEAN : ReorderProfile(name, target, before)
  \/ OpenCreate
  \/ \E name \in Name : OpenRename(name)
  \/ \E name \in Name : OpenDelete(name)
  \/ \E typed \in Typed : ModalNameChanged(typed)
  \/ ModalDismiss
  \/ ConfirmCreate
  \/ ConfirmRename
  \/ ConfirmDelete

SaveStep ==
  \/ AutoSaveTick
  \/ \E g \in Geometry : GeometryChanged(g)
  \/ Restart

Next == WorkerStep \/ RowStep \/ ProfileStep \/ SaveStep

Spec == Init /\ [][Next]_vars

-----------------------------------------------------------------------------
(* Types.                                                                  *)

RowTypes ==
  /\ streams \in [Id -> Stream \cup {Absent}]
  /\ tombstoned \subseteq Id
  /\ app_order \in [Id -> Nat \cup {None}]
  /\ app_seq \in Nat
  /\ pending \in Pending
  /\ out \in [Id -> Seq(Command)]
  /\ out_default \in Defaults

ProfileTypes ==
  /\ profiles \in Seq(Profile)
  /\ active \in Name
  /\ section_filter \subseteq Section
  /\ modal \in Modal \cup {None}
  /\ dirty \in BOOLEAN
  /\ geometry \in Geometry
  /\ geometry_dirty \in BOOLEAN
  /\ disk \in Saved \cup {None}

\* The shape of the App struct and of the state file; a profile is active.
TypeOK == RowTypes /\ ProfileTypes

-----------------------------------------------------------------------------
(* Rows.                                                                   *)

\* Every tombstone marks a row that is still shown, of an app, and never the
\* row of an event sound: a device that takes a ghost's id, or a ghost that
\* is evicted, leaves no tombstone behind (App::tombstoned).
GhostsAreIdleApps ==
  \A g \in tombstoned :
    /\ streams[g] # Absent
    /\ streams[g].kind = "app"
    /\ ~streams[g].ephemeral

\* The strip has a strict order: every app row has a first-seen number, no
\* two ids share one whatever was inherited, a number is never handed out
\* again, and an id with no row has none left over (App::app_order).
RowOrderSound ==
  /\ \A i \in AppRows : app_order[i] # None
  /\ \A i \in Id : app_order[i] # None => streams[i] # Absent /\ app_order[i] < app_seq
  /\ \A i, j \in Id : app_order[i] # None /\ app_order[i] = app_order[j] => i = j

\* A preset waits only while there is no row to give it to, ghosts included,
\* so a reconnecting app never finds both a ghost and a preset: the comment
\* that the ghost overrides the preset has nothing to decide (App::pending).
PendingUnmatched ==
  /\ \A slot \in Slot : pending.entries[slot] # None => Matches(streams, slot) = {}
  /\ \A d \in Device : pending.defaults[d] # None => ~Connected(d, pending.defaults[d])

\* What command c sets is what the row s shows.
Agrees(c, s) ==
  /\ c.op = "SetVolume" => s.volume = c.volume
  /\ c.op = "SetMute" => s.muted = c.mute
  /\ c.op = "SetStreamTarget" => s.target = c.sink

\* The last command of each kind among commands agrees with the row s.
Shown(commands, s) ==
  \A k \in DOMAIN commands :
    \/ \E later \in DOMAIN commands : later > k /\ commands[later].op = commands[k].op
    \/ Agrees(commands[k], s)

\* The optimistic update and the commands of one message agree: the last
\* value asked of a node, through any order of preset and ghost replay, is
\* the value its row shows. Otherwise the row and the sound drift apart
\* until the server's echo.
AskedIsShown == \A i \in Id : Shown(out[i], streams[i])

\* Dragging an app's slider moves its streams together: the loudest lands
\* where the slider is and none overtakes another (apply_group_volume).
GroupKeepsBalance ==
  [][\A id \in AppRows, c \in Cubic : GroupVolumeChanged(id, c) =>
       LET was(i) == LinearToCubic(streams[i].volume)
           now(i) == LinearToCubic(streams'[i].volume)
       IN  /\ Max({now(i) : i \in RowOf(id)}) = c
           /\ \A i, j \in RowOf(id) : was(i) <= was(j) => now(i) <= now(j)]_vars

\* Nothing is ever asked of a node that is gone.
CommandsReachLiveRows == \A i \in Id : out[i] # <<>> => i \in Rows \ tombstoned

\* Together: what is asked is asked of a node that is there, whose row then
\* shows the last of it.
CommandsAreSound == AskedIsShown /\ CommandsReachLiveRows

-----------------------------------------------------------------------------
(* Profiles.                                                               *)

\* ensure_active_profile: at least one profile, and the active one exists;
\* names are unique through creates, renames, deletes and reorders.
ProfilesSound ==
  /\ Has(profiles, active)
  /\ \A k, m \in DOMAIN profiles : profiles[k].name = profiles[m].name => k = m

\* Shell::unsaved: with neither mark set, the disk holds the session.
UnsavedKnows ==
  \/ disk = None
  \/ dirty
  \/ geometry_dirty
  \/ disk = Contents(profiles, active, geometry)

\* A profile is rewritten only while it is the active one, save by the
\* dialog that creates one over its name.
OnlyActiveRewritten ==
  [][~ConfirmCreate =>
       \A name \in (Names(profiles) \cap Names(profiles')) \ {active} :
         Find(profiles', name) = Find(profiles, name)]_vars

\* Switching profiles loses no edit: the profile that was left holds what
\* its rows showed, and so does the file.
SwitchKeepsEdits ==
  [][\A name \in Name \ {active} :
       dirty /\ ApplyProfile(name) =>
         LET left == Find(profiles', active)
         IN  /\ left.filter = section_filter
             /\ \A slot \in Slot, i \in Id :
                  Matches(streams, slot) = {i} => left.entries[slot] = SettingsOf(streams[i])
             /\ SaveMayFail \/ disk'.profiles = profiles']_vars

\* A ghost gives way only to a live row of its app, and when it was the only
\* row of that app the newcomer shows its level, mute and pin and, under an
\* id that had no row, stands in its place in the strip.
GhostsAreReclaimed ==
  [][~Restart =>
       \A g \in tombstoned :
         streams'[g] = Absent =>
           \E i \in Rows' \ tombstoned' :
             /\ SlotOf(streams'[i]) = SlotOf(streams[g])
             /\ RowOf(g) = {g} =>
                  /\ SettingsOf(streams'[i]) = SettingsOf(streams[g])
                  /\ i \notin Rows => app_order'[i] = app_order[g]]_vars

\* An edit is written out, whatever edits follow it, for the save that is
\* armed is not pushed back by them; only a crash ends it otherwise, in the
\* session that is on disk.
EditsReachDisk ==
  (dirty \/ geometry_dirty) /\ disk # None
    ~> disk = Contents(profiles, active, geometry) /\ ~dirty /\ ~geometry_dirty

=============================================================================
