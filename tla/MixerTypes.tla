------------------------------ MODULE MixerTypes ------------------------------
(***************************************************************************)
(* The values the mixer's reducer works on: streams, saved settings,       *)
(* profiles and commands, and the pure functions over them (src/domain.rs, *)
(* src/profile.rs and the helpers of src/state.rs).                        *)
(*                                                                         *)
(* A node id is a number, because the code walks its maps in id order. An  *)
(* app identity and a device's node.name are both members of Key; a Slot   *)
(* pairs one with the kind of stream it names, which is what a profile     *)
(* entry is filed under. The channels of a stream are one gain: the        *)
(* reducer reads average_volume and writes set_uniform_volume.             *)
(***************************************************************************)
EXTENDS Naturals, Sequences, FiniteSetsExt

CONSTANTS
  TopId,      \* the largest PipeWire node id (u32::MAX in the code)
  Key,        \* app identities and device node names
  Name,       \* profile names
  Default,    \* the name of the profile seeded when there is none
  Section,    \* the column groups a section filter shows or hides
  Geometry,   \* window geometries, the first-run one among them
  FirstRun,   \* the geometry of a first run
  MaxVolume,  \* top of a slider, in slider steps (150% in the code)
  Blank,      \* a typed name that trims to nothing
  None        \* Option::None

ASSUME IdAssumption == TopId \in Nat
ASSUME NameAssumption == Default \in Name /\ Blank \notin Name /\ None \notin Name
ASSUME KeyAssumption == None \notin Key
ASSUME NoneAssumption == None \notin Nat
ASSUME GeometryAssumption == FirstRun \in Geometry
ASSUME VolumeAssumption == MaxVolume \in Nat \ {0}

Id == 0..TopId

-----------------------------------------------------------------------------
(* Volume. Sliders are perceptual, PipeWire is linear.                     *)

Cubic == 0..MaxVolume

CubicToLinear(c) == c * c * c

Gain == {CubicToLinear(c) : c \in Cubic}

LinearToCubic(g) == CHOOSE c \in Cubic : CubicToLinear(c) = g

-----------------------------------------------------------------------------
(* Streams and what a profile saves of them.                               *)

Device == {"sink", "source"}

Kind == Device \cup {"app"}

Slot == Kind \X Key

Stream == [kind : Kind, key : Key \cup {None}, ephemeral : BOOLEAN,
           volume : Gain, muted : BOOLEAN,
           target : Key \cup {None}, isDefault : BOOLEAN]

Settings == [volume : Gain, muted : BOOLEAN, target : Key \cup {None}]

Absent == [kind |-> "absent"]

SlotOf(s) == <<s.kind, s.key>>

\* Only app settings hold a pin.
SettingsOf(s) == [volume |-> s.volume, muted |-> s.muted,
                  target |-> IF s.kind = "app" THEN s.target ELSE None]

\* Broken variant of Settle: the pin is sent to the server but not shown.
SettleWithoutPin(s, v) == [s EXCEPT !.volume = v.volume, !.muted = v.muted]

Settle(s, v) == [s EXCEPT !.volume = v.volume, !.muted = v.muted,
                          !.target = IF s.kind = "app" THEN v.target ELSE @]

\* The ids whose stream is filed under slot, live or tombstoned.
Matches(streams, slot) ==
  {i \in Id : streams[i] # Absent /\ SlotOf(streams[i]) = slot}

-----------------------------------------------------------------------------
(* Profiles.                                                               *)

Entries == [Slot -> Settings \cup {None}]

Defaults == [Device -> Key \cup {None}]

NoEntries == [slot \in Slot |-> None]

NoDefaults == [d \in Device |-> None]

Profile == [name : Name, entries : Entries, defaults : Defaults, filter : SUBSET Section]

Pending == [entries : Entries, defaults : Defaults]

NothingPending == [entries |-> NoEntries, defaults |-> NoDefaults]

\* The device of kind d that carries the default mark, first by id.
CurrentDefault(streams, d) ==
  LET marked == {i \in Id : streams[i] # Absent /\ streams[i].kind = d /\ streams[i].isDefault}
  IN  IF marked = {} THEN None ELSE streams[Min(marked)].key

\* Streams of one app share an entry; the walk is in id order and the last
\* one written stays.
Snapshot(name, streams, filter) ==
  [name     |-> name,
   entries  |-> [slot \in Slot |->
                   IF Matches(streams, slot) = {} THEN None
                   ELSE SettingsOf(streams[Max(Matches(streams, slot))])],
   defaults |-> [d \in Device |-> CurrentDefault(streams, d)],
   filter   |-> filter]

SeededProfile == [name |-> Default, entries |-> NoEntries,
                  defaults |-> NoDefaults, filter |-> Section]

Has(profiles, name) == \E k \in DOMAIN profiles : profiles[k].name = name

IndexOf(profiles, name) == CHOOSE k \in DOMAIN profiles : profiles[k].name = name

Find(profiles, name) == profiles[IndexOf(profiles, name)]

Names(profiles) == {profiles[k].name : k \in DOMAIN profiles}

\* Broken variant of InsertOrReplace: a profile of the name stays beside it.
InsertBeside(profiles, p) == Append(profiles, p)

InsertOrReplace(profiles, p) ==
  IF Has(profiles, p.name)
  THEN [profiles EXCEPT ![IndexOf(profiles, p.name)] = p]
  ELSE Append(profiles, p)

\* Names are unique (ProfilesSound), so at most one profile goes.
Remove(profiles, name) ==
  IF ~Has(profiles, name) THEN profiles
  ELSE LET at == IndexOf(profiles, name)
       IN  [k \in 1..(Len(profiles) - 1) |-> IF k < at THEN profiles[k] ELSE profiles[k + 1]]

Rename(profiles, old, new) ==
  [profiles EXCEPT ![IndexOf(profiles, old)].name = new]

\* Where profile `name` lands when it is dropped next to `target`, counted
\* once it is out of the row.
DropAt(profiles, name, target, before) ==
  LET desired == IndexOf(profiles, target) + (IF before THEN 0 ELSE 1)
  IN  IF IndexOf(profiles, name) < desired THEN desired - 1 ELSE desired

Reorder(profiles, name, target, before) ==
  LET from == IndexOf(profiles, name)
      to   == DropAt(profiles, name, target, before)
  IN  [k \in 1..Len(profiles) |->
         CASE k = to                -> profiles[from]
           [] from <= k /\ k < to   -> profiles[k + 1]
           [] to < k /\ k <= from   -> profiles[k - 1]
           [] OTHER                 -> profiles[k]]

-----------------------------------------------------------------------------
(* Commands. The queue to the worker is a FIFO, and commands for different *)
(* nodes are independent, so what a message asks for is kept per node.     *)

Command == [op : {"SetVolume"}, volume : Gain]
             \cup [op : {"SetMute"}, mute : BOOLEAN]
             \cup [op : {"SetStreamTarget"}, sink : Key \cup {None}]

SetVolume(g) == [op |-> "SetVolume", volume |-> g]
SetMute(m) == [op |-> "SetMute", mute |-> m]
SetStreamTarget(k) == [op |-> "SetStreamTarget", sink |-> k]

\* Unmuting re-asserts the volume behind it.
MuteCommands(mute, volume) ==
  IF mute THEN <<SetMute(mute)>> ELSE <<SetMute(mute), SetVolume(volume)>>

SettleCommands(kind, v) ==
  IF kind = "app"
  THEN <<SetVolume(v.volume), SetMute(v.muted), SetStreamTarget(v.target)>>
  ELSE IF v.muted
       THEN <<SetVolume(v.volume), SetMute(v.muted)>>
       ELSE <<SetVolume(v.volume), SetMute(v.muted), SetVolume(v.volume)>>

\* Replaying an absent pin would clear the route the stream came back with.
ReplayCommands(v) ==
  IF v.target = None
  THEN <<SetVolume(v.volume), SetMute(v.muted)>>
  ELSE <<SetVolume(v.volume), SetMute(v.muted), SetStreamTarget(v.target)>>

=============================================================================
