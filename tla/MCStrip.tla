------------------------------- MODULE MCStrip -------------------------------
(***************************************************************************)
(* The levels of one app's streams and the strip of columns, for TLC: two  *)
(* scenes of the reducer that share nothing but the start.                 *)
(***************************************************************************)
EXTENDS MCMixer, Projection

\* Three apps, one of them without an identity, an event sound beside one, and
\* a sink that takes over an app's id or has its name taken.
StripReport ==
  {At(0, App("music", 1)), At(1, App("music", 1)), At(1, Ping("music")),
   At(2, App("dac", 1)), At(2, App(None, 1))}

StripStep ==
  \/ \E r \in StripReport : EventShown(r.id, r.stream, None)
  \/ EventShown(2, Dev("sink", "dac", FALSE), SinkFormOfFactor["tv"])
  \/ \E id \in Id : RemovalShown(id)
  \/ \E column \in Columns : GroupToggleExpanded(column)
  \/ /\ UNCHANGED viewVars
     /\ \/ \E id \in AppRows : GroupMuteToggled(id)
        \/ \E id \in AppRows, sink \in Pinnable : GroupSetTarget(id, sink)

StripInit == Init /\ ViewInit /\ scene \in {"levels", "strip"}

StripNext ==
  /\ \/ scene = "levels" /\ LevelsStep /\ UNCHANGED viewVars
     \/ scene = "strip" /\ StripStep
  /\ UNCHANGED scene

StripSpec == StripInit /\ [][StripNext]_<<vars, viewVars, scene>>

=============================================================================
