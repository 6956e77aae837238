------------------------------- MODULE MCMixer -------------------------------
(***************************************************************************)
(* Small instances of the reducer for TLC. Each run takes the part of      *)
(* Next its question is about and reports the streams that make the hard   *)
(* cases happen: one app under several ids, an id taken over by another    *)
(* node, a ping that shares an app's identity, a device that comes late.   *)
(***************************************************************************)
EXTENDS Mixer

VARIABLE scene

At(i, s) == [id |-> i, stream |-> s]

App(key, g) ==
  [kind |-> "app", key |-> key, ephemeral |-> FALSE, volume |-> g, muted |-> FALSE,
   target |-> None, isDefault |-> FALSE]

Ping(key) == [App(key, 1) EXCEPT !.ephemeral = TRUE]

Dev(kind, key, default) ==
  [kind |-> kind, key |-> key, ephemeral |-> FALSE, volume |-> 1, muted |-> FALSE,
   target |-> None, isDefault |-> default]

\* One app under two ids with a ping beside it, another app and a sink that
\* take an id over: every gesture on rows but those on levels.
RowsReport ==
  {At(0, App("music", 1)), At(1, App("music", 1)), At(1, Ping("music")),
   At(2, App("chat", 1)), At(2, App("music", 1)), At(2, Dev("sink", "dac", FALSE))}

RowsStep ==
  \/ \E r \in RowsReport : StreamEvent(r.id, r.stream)
  \/ \E id \in Id : StreamRemoved(id)
  \/ \E id \in Rows : MuteToggled(id) \/ MakeDefault(id)
  \/ \E id \in AppRows : GroupMuteToggled(id) \/ ClearTarget(id) \/ GroupClearTarget(id)
  \/ \E id \in AppRows, sink \in Pinnable : SetTarget(id, sink) \/ GroupSetTarget(id, sink)
  \/ MuteAllToggled
  \/ ResetAllTargets

\* Three streams of one app, their levels over a slider of four steps.
LevelsReport == {At(i, App("music", 1)) : i \in Id}

LevelsStep ==
  \/ WorkerStep
  \/ \E id \in Rows, c \in Cubic : VolumeChanged(id, c)
  \/ \E id \in AppRows, c \in Cubic : GroupVolumeChanged(id, c)

\* An app under two ids whose second one a sink takes over: presets wait for
\* either, and are made by saving one profile and applying the other.
PresetsReport ==
  {At(0, App("music", 1)), At(1, App("music", 1)), At(1, Dev("sink", "dac", TRUE))}

PresetsStep ==
  \/ \E r \in PresetsReport : StreamEvent(r.id, r.stream) /\ app_seq' <= 2
  \/ \E id \in Id : StreamRemoved(id)
  \/ \E id \in AppRows : MuteToggled(id)
  \/ \E id \in AppRows, sink \in Pinnable : SetTarget(id, sink)
  \/ \E name \in Name : ApplyProfile(name)
  \/ ~Has(profiles, "Night") /\ (OpenCreate \/ ModalNameChanged("Night"))
  \/ ConfirmCreate
  \/ AutoSaveTick

BothReports == RowsReport \cup PresetsReport

\* Everything that is done to profiles, over layouts alone: no node is up.
ProfilesStep ==
  \/ \E section \in Section : ToggleSection(section)
  \/ ProfileStep
  \/ SaveStep

\* Rows, presets and profiles in one run, in scenes that share nothing but the
\* start. The shell arms a save when an edit lands and none is armed, and
\* later edits do not push it back.
SceneInit == Init /\ scene \in {"rows", "presets", "profiles"}

SceneNext ==
  /\ \/ scene = "rows" /\ RowsStep
     \/ scene = "presets" /\ PresetsStep
     \/ scene = "profiles" /\ ProfilesStep
  /\ UNCHANGED scene

SceneSpec == SceneInit /\ [][SceneNext]_<<vars, scene>> /\ WF_vars(scene = "profiles" /\ AutoSaveTick)

\* Saves are part of the profiles' scene.
EditsReachTheDisk == scene = "profiles" => EditsReachDisk

=============================================================================
