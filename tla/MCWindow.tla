------------------------------- MODULE MCWindow -------------------------------
(***************************************************************************)
(* What the window's sizes go through, in four scenes: configures and     *)
(* scales against frames in flight (Frames), and the fit to the columns    *)
(* over launches, in the native shell (Sizing) and in GTK's (GtkSizing).   *)
(* And what the shell's seat goes through, in four outings (Seat).         *)
(***************************************************************************)
EXTENDS Frames, GtkSizing, Seat

SomeOutings ==
  {{"press", "release", "leave", "enter", "rate"}, {"press", "enter", "copy", "paste", "keymap"},
   {"press", "enter", "copy", "grow", "draw"}, {"point", "draw"}}

VARIABLES
  scene,
  before  \* the width the fit that stands took over from, or NoWidth

windowsVars == <<vars, gtkSizingVars, seatVars, scene, before>>

SceneInit ==
  /\ Init /\ width = 1
  /\ GtkSizingInit /\ SeatInit
  /\ scene \in {"frames", "fits", "gtk", "seat"}
  /\ scene # "seat" => deeds = {"point", "draw"} /\ Head(coming).arg = {"keyboard"}
  /\ scene \in {"frames", "seat"} => disk = [width |-> 3, maximized |-> FALSE, fitted |-> FALSE]
  /\ before = NoWidth

\* The compositor holds what it shows.
FramesStep ==
  \/ \E w \in Width : Configure(w)
  \/ \E s \in Scale : PreferScale(s)
  \/ Receive
  \/ \E o \in Object : (screen # None /\ o # screen.buffer /\ Release(o)) \/ Answer(o)
  \/ Turn

Toggled == IF scene = "gtk" THEN GtkToggleFit ELSE ToggleFitWidth

\* A fit stands until the user goes back, the width is taken from it, or the
\* columns or the bounds change without the user.
Lapses ==
  before' = IF Toggled
            THEN IF fitRestore' # NoWidth THEN (IF span' # span THEN span ELSE before)
                                          ELSE NoWidth
            ELSE IF \E n \in Column : IF scene = "gtk" THEN GtkToggleColumns(n) ELSE ToggleColumns(n)
            THEN before
            ELSE IF turning /\ ~turning' /\ process = process'
            THEN IF span' # span THEN AtLeastMinimum(openedAt) ELSE before
            ELSE IF span' = span /\ columns' = columns /\ ceiling' = ceiling
                    /\ process' = process
            THEN before ELSE NoWidth

SceneNext ==
  /\ \/ scene = "frames" /\ FramesStep /\ UNCHANGED <<gtkSizingVars, before, seatVars>>
     \/ scene = "fits" /\ SizingNext /\ Lapses /\ UNCHANGED <<vars, ticksLeft, seatVars>>
     \/ scene = "gtk" /\ GtkSizingNext /\ Lapses /\ UNCHANGED <<vars, seatVars>>
     \/ scene = "seat" /\ SeatNext /\ UNCHANGED <<vars, gtkSizingVars, before>>
  /\ UNCHANGED scene

SceneSpec == SceneInit /\ [][SceneNext]_windowsVars

\* A press on a fitted window gives back the width the fit took over from,
\* however often the user has had the columns changed since: "The toggle moved
\* the columns, not the user's own idea of how wide the window should be."
FitUndone ==
  [][Toggled /\ IsFitted(span, columns) /\ ~CompositorSized /\ before # NoWidth
       => span' = before]_windowsVars

\* The width the user left comes back: from a fit, and from a launch.
WidthIsGivenBack == FitUndone /\ ReopensAsLeft

=============================================================================
