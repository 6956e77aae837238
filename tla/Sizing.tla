-------------------------------- MODULE Sizing --------------------------------
(***************************************************************************)
(* The width of the window: what the compositor configures, what the fit   *)
(* to the columns asks for and gives back, and what a relaunch opens at    *)
(* (src/native/app.rs, src/ui/mod.rs, src/ui/layout.rs). Events are        *)
(* handled one by one in a turn, whose end pays the fit the launch owes.   *)
(*                                                                         *)
(* A width is counted in half columns and the height, which nothing here   *)
(* moves, is left out. Width of a window is span, to tell it from that of  *)
(* Frames.                                                                 *)
(***************************************************************************)
EXTENDS Integers

CONSTANTS
  Column,     \* how many columns there can be
  Configured, \* widths the compositor may give; 0 leaves the choice
  Unbounded,  \* wider than any window
  NoWidth     \* no width to go back to

ASSUME ColumnAssumption == Column \subseteq Nat /\ 0 \in Column
ASSUME ConfiguredAssumption == Configured \subseteq Nat
ASSUME UnboundedAssumption == Unbounded \in Nat /\ NoWidth \notin Nat

VARIABLES
  process,    \* "down", "up", then "closed" or "crashed" until the next launch
  turning,    \* whether a turn of the loop is under way
  span,       \* the window's width
  normal,     \* normal_size
  states,     \* what the latest configure said of the window
  fitRestore, \* the width a second press goes back to
  ceiling,    \* max_width
  columns,    \* the columns of the strip
  refit,      \* whether the launch still owes its columns a fit
  openedAt,   \* the width it opened at
  geometry,   \* what the core was told last
  disk        \* what the state file holds

sizingVars == <<process, turning, span, normal, states, fitRestore, ceiling, columns,
                refit, openedAt, geometry, disk>>

-----------------------------------------------------------------------------
Larger(a, b)  == IF a < b THEN b ELSE a
Smaller(a, b) == IF a < b THEN a ELSE b

\* natural_width: every column takes its room.
NaturalWidth(n) == 2 * n

\* minimum_size: one column.
Minimum == NaturalWidth(1)

AtLeastMinimum(w) == Larger(w, Minimum)

\* fit_width: the floor outranks the ceiling.
FitWidth(n) == Larger(Smaller(NaturalWidth(n), ceiling), Minimum)

IsFitted(w, n) == w = FitWidth(n)

\* Maximized, fullscreen or tiled: the size is the compositor's.
CompositorSized == states # {}

\* What a press of the fit button comes to: one step, or none.
FitStep ==
  IF CompositorSized THEN {}
  ELSE IF IsFitted(span, columns)
  THEN {[width |-> w, restore |-> NoWidth] : w \in {fitRestore} \ {NoWidth, span}}
  ELSE {[width |-> FitWidth(columns), restore |-> span]}

Keeping(steps, restore) == {[step EXCEPT !.restore = restore] : step \in steps}

\* push_geometry: what the core keeps for the next save.
PushGeometry ==
  geometry' = [width |-> normal', maximized |-> "maximized" \in states',
               fitted |-> IsFitted(normal', columns')]

\* apply_fit: the width and what it goes back to, told to the core.
ApplyFit(steps) ==
  IF steps = {} THEN UNCHANGED <<span, normal, fitRestore, geometry>>
  ELSE \E step \in steps :
         /\ fitRestore' = step.restore
         /\ span' = step.width
         /\ normal' = step.width
         /\ PushGeometry

-----------------------------------------------------------------------------
SizingInit ==
  /\ process = "down" /\ turning = FALSE
  /\ disk \in [width : {1, 3}, maximized : {FALSE}, fitted : BOOLEAN]
  /\ geometry = disk
  /\ span = Minimum /\ normal = Minimum /\ openedAt = Minimum
  /\ states = {} /\ fitRestore = NoWidth /\ ceiling = Unbounded
  /\ columns = 0 /\ refit = FALSE

\* App::new: the saved width, and a fit owed if the last session ended fitted.
Open ==
  /\ process # "up"
  /\ process' = "up"
  /\ turning' = FALSE
  /\ geometry' = disk
  /\ span' = AtLeastMinimum(disk.width)
  /\ normal' = span'
  /\ openedAt' = span'
  /\ refit' = disk.fitted
  /\ states' = {} /\ fitRestore' = NoWidth /\ ceiling' = Unbounded
  /\ columns' = 0
  /\ UNCHANGED disk

\* An event is handled in a turn.
Handled ==
  /\ process = "up"
  /\ turning' = TRUE
  /\ UNCHANGED <<process, refit, openedAt, disk>>

\* A toplevel configure. A side left at zero is the window's to pick.
ToplevelConfigure(w, carried) ==
  /\ Handled
  /\ states' = carried
  /\ span' = AtLeastMinimum(IF w > 0 THEN w ELSE normal)
  /\ normal' = IF carried = {} THEN span' ELSE normal
  /\ UNCHANGED <<fitRestore, ceiling, columns>>
  /\ PushGeometry

ConfigureBounds(w) ==
  /\ Handled
  /\ ceiling' = IF w > 0 THEN w ELSE Unbounded
  /\ UNCHANGED <<span, normal, states, fitRestore, columns, geometry>>

\* A press of the fit button or its key.
ToggleFitWidth ==
  /\ Handled
  /\ UNCHANGED <<states, ceiling, columns>>
  /\ ApplyFit(FitStep)

\* Streams come and go: the width stays.
StreamsMove(n) ==
  /\ n # columns
  /\ Handled
  /\ columns' = n
  /\ UNCHANGED <<span, normal, states, fitRestore, ceiling, geometry>>

\* Broken variant of ToggleColumns: the width followed from is what a press
\* goes back to.
ToggleColumnsAnew(n) ==
  /\ n # columns
  /\ Handled
  /\ columns' = n
  /\ UNCHANGED <<states, ceiling>>
  /\ LET follows == IsFitted(span, columns) /\ ~IsFitted(span, n) /\ ~CompositorSized
     IN  ApplyFit(IF follows THEN {[width |-> FitWidth(n), restore |-> span]} ELSE {})

\* The user asks for other columns: a window that was fitted follows them and
\* keeps the width it would go back to.
ToggleColumns(n) ==
  /\ n # columns
  /\ Handled
  /\ columns' = n
  /\ UNCHANGED <<states, ceiling>>
  /\ LET follows == IsFitted(span, columns) /\ ~IsFitted(span, n) /\ ~CompositorSized
     IN  ApplyFit(IF follows THEN {[width |-> FitWidth(n), restore |-> fitRestore]} ELSE {})

\* Broken variant of EndOfTurn: the first columns to turn up pay the fit.
EndOfTurnOnce(settled) ==
  /\ process = "up"
  /\ turning
  /\ turning' = FALSE
  /\ refit' = (refit /\ ~settled)
  /\ UNCHANGED <<process, states, ceiling, columns, openedAt, disk>>
  /\ LET owed == refit' /\ columns # 0 /\ fitRestore = NoWidth /\ ~IsFitted(span, columns)
     IN  ApplyFit(IF owed THEN Keeping(FitStep, openedAt) ELSE {})

\* tick_refit: while the launch settles, the end of a turn fits the window to
\* the columns there are by then, to go back to the width it opened at.
EndOfTurn(settled) ==
  /\ process = "up"
  /\ turning
  /\ turning' = FALSE
  /\ refit' = (refit /\ ~settled)
  /\ UNCHANGED <<process, states, ceiling, columns, openedAt, disk>>
  /\ LET owed == refit' /\ columns # 0 /\ ~IsFitted(span, columns)
     IN  ApplyFit(IF owed THEN Keeping(FitStep, openedAt) ELSE {})

\* The save tick writes what the core was told.
SaveGeometry ==
  /\ process = "up"
  /\ ~turning
  /\ geometry # disk
  /\ disk' = geometry
  /\ turning' = TRUE
  /\ UNCHANGED <<process, span, normal, states, fitRestore, ceiling, columns, refit,
                 openedAt, geometry>>

\* A clean exit tells the core once more and saves.
CloseWindow ==
  /\ process = "up"
  /\ ~turning
  /\ process' = "closed"
  /\ UNCHANGED <<turning, span, normal, states, fitRestore, ceiling, columns, refit, openedAt>>
  /\ PushGeometry
  /\ disk' = geometry'

Crash ==
  /\ process = "up"
  /\ process' = "crashed"
  /\ UNCHANGED <<turning, span, normal, states, fitRestore, ceiling, columns, refit,
                 openedAt, geometry, disk>>

SizingNext ==
  \/ Open
  \/ \E w \in Configured, carried \in {{}, {"maximized"}, {"tiled"}} :
       ToplevelConfigure(w, carried)
  \/ \E w \in Configured : ConfigureBounds(w)
  \/ ToggleFitWidth
  \/ \E n \in Column : StreamsMove(n) \/ ToggleColumns(n)
  \/ \E settled \in BOOLEAN : EndOfTurn(settled)
  \/ SaveGeometry
  \/ CloseWindow
  \/ Crash

SizingSpec == SizingInit /\ [][SizingNext]_sizingVars

-----------------------------------------------------------------------------
(* Properties.                                                             *)

\* "every size handed to the window goes through here rather than being taken
\* at its word": no width the window takes or goes back to cuts a column.
NeverBelowMinimum ==
  /\ span >= Minimum /\ normal >= Minimum
  /\ fitRestore = NoWidth \/ fitRestore >= Minimum

\* "Last size the window had while not maximized": an ordinary window stands at
\* the size it keeps, and the core knows that size, so that no arrangement of
\* the compositor's is ever saved.
OrdinaryIsNormal ==
  process = "up" => /\ ~CompositorSized => span = normal
                    /\ AtLeastMinimum(geometry.width) = normal

\* A launch that owes its columns a fit stands at their width whenever a turn
\* ends, unless the width is the compositor's.
RefitFollows ==
  process = "up" /\ ~turning /\ refit /\ columns # 0
    => IsFitted(span, columns) \/ CompositorSized

\* "Persist geometry and flush a final save": the launch after a clean exit opens
\* at the last ordinary width, and owes a fit just if that was the columns'.
ReopensAsLeft ==
  [][process = "closed" /\ process' = "up"
       => span' = normal /\ refit' = IsFitted(normal, columns)]_sizingVars

=============================================================================
