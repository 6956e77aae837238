------------------------------- MODULE MCFrames -------------------------------
(***************************************************************************)
(* The loops of the two shells. The native one, whose window is up, in two *)
(* scenes: edits, messages and a window that goes out of sight, and bars   *)
(* and rings that move. GTK's in three: its frames and timers, its profile *)
(* selector, and a text field with the clipboard.                          *)
(***************************************************************************)
EXTENDS Frames, GtkFrames, GtkMenu, GtkText

VARIABLE scene

gtkVars == <<gtkFramesVars, gtkMenuVars, gtkTextVars>>

SceneInit ==
  /\ Init /\ width = 1
  /\ GtkFramesInit
  /\ GtkMenuInit
  /\ GtkTextInit
  /\ scene \in {"edits", "bars", "gtk", "menu", "text"}
  /\ scene # "menu" => profiles = CHOOSE ps \in [1 .. 1 -> Name] : TRUE

\* The window is up at one size.
Framed ==
  \/ Configure(1) /\ asked = 0
  \/ Receive
  \/ \E o \in Object : Answer(o)
  \/ Pass
  \/ Turn

EditsStep ==
  \/ Framed
  \/ \E o \in Object : Release(o)
  \/ Hide
  \/ Input("edit")
  \/ Post

BarsStep ==
  \/ Framed
  \/ \E o \in Object : screen # None /\ o # screen.buffer /\ Release(o)
  \/ Input("hover")
  \/ Sound

NativeStep ==
  /\ \/ scene = "edits" /\ EditsStep
     \/ scene = "bars" /\ BarsStep
  /\ UNCHANGED gtkVars

GtkStep ==
  /\ \/ scene = "gtk" /\ GtkFramesNext /\ UNCHANGED <<gtkMenuVars, gtkTextVars>>
     \/ scene = "menu" /\ GtkMenuNext /\ UNCHANGED <<gtkFramesVars, gtkTextVars>>
     \/ scene = "text" /\ GtkTextNext /\ UNCHANGED <<gtkFramesVars, gtkMenuVars>>
  /\ UNCHANGED vars

SceneNext == (NativeStep \/ GtkStep) /\ UNCHANGED scene

\* GtkFairness in its scene; in the others the native loop has its own, and in
\* GTK's it is never roused.
SceneFairness ==
  /\ Fairness
  /\ WF_gtkFramesVars(scene = "gtk" /\ AutosaveStep)
  /\ WF_gtkFramesVars(scene = "gtk" /\ DueTick)
  /\ WF_gtkFramesVars(scene = "gtk" /\ PeaksStep)

SceneSpec == SceneInit /\ [][SceneNext]_<<vars, gtkVars, scene>> /\ SceneFairness

\* Whatever the compositor does, either loop gets to all of it.
ShellsKeepUp == LoopKeepsUp /\ GtkKeepsUp

\* What GTK keeps a copy of agrees with the reducer: the selector's list whenever
\* GTK can call back, a field's text once the bus is read.
GtkMirrors == MenuIsOfNow /\ CopyFollows

\* A window of GTK's that rests shows all there is, and can be woken.
GtkIsSound == GtkSteadies /\ GtkMirrors

=============================================================================
