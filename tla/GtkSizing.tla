------------------------------- MODULE GtkSizing -------------------------------
(***************************************************************************)
(* The width of the GTK window (src/gtk_shell/app.rs): the fit to the      *)
(* columns goes through GTK's default size, which is the width of the      *)
(* window while it is not maximized, and to a maximized window it does     *)
(* nothing. Sizes and the reducer are those of Sizing, whose normal width  *)
(* is the default width and whose turn lasts, here, until the columns are  *)
(* looked at again; this shell neither hears of bounds nor tells the core  *)
(* a geometry before it closes.                                            *)
(***************************************************************************)
EXTENDS Sizing

CONSTANT RefitTicks  \* how often a launch looks at its columns again

ASSUME RefitTicksAssumption == RefitTicks \in Nat

VARIABLE ticksLeft  \* of the refit

gtkSizingVars == <<sizingVars, ticksLeft>>

-----------------------------------------------------------------------------
Maximized == "maximized" \in states

\* fit_step, for a shell that never says the size is the compositor's.
GtkFitStep ==
  IF IsFitted(span, columns)
  THEN {[width |-> w, restore |-> NoWidth] : w \in {fitRestore} \ {NoWidth, span}}
  ELSE {[width |-> FitWidth(columns), restore |-> span]}

\* apply_fit: a new default size, which GTK keeps above the least one.
GtkApplyFit(steps) ==
  IF Maximized \/ steps = {} THEN UNCHANGED <<span, normal, fitRestore>>
  ELSE \E step \in steps :
         /\ fitRestore' = step.restore
         /\ span' = AtLeastMinimum(step.width)
         /\ normal' = span'

GtkUp ==
  /\ process = "up"
  /\ UNCHANGED <<process, ceiling, openedAt, geometry, disk>>

GtkHandled == GtkUp /\ turning' = TRUE

-----------------------------------------------------------------------------
GtkSizingInit == SizingInit /\ ticksLeft = 0

\* activate: the saved width, and a refit if the last session ended fitted.
GtkOpen ==
  /\ process # "up"
  /\ process' = "up"
  /\ geometry' = disk
  /\ span' = AtLeastMinimum(disk.width) /\ normal' = span' /\ openedAt' = disk.width
  /\ ticksLeft' = IF disk.fitted THEN RefitTicks ELSE 0
  /\ refit' = disk.fitted
  /\ states' = IF disk.maximized THEN {"maximized"} ELSE {}
  /\ fitRestore' = NoWidth /\ columns' = 0
  /\ turning' = TRUE
  /\ UNCHANGED <<ceiling, disk>>

\* The user or the window manager gives the window another width.
GtkResize(w) ==
  /\ GtkHandled /\ ~Maximized
  /\ span' = AtLeastMinimum(w) /\ normal' = span'
  /\ UNCHANGED <<states, fitRestore, columns, refit, ticksLeft>>

GtkMaximize ==
  /\ GtkHandled
  /\ states' = IF Maximized THEN {} ELSE {"maximized"}
  /\ UNCHANGED <<span, normal, fitRestore, columns, refit, ticksLeft>>

\* toggle_fit_width.
GtkToggleFit ==
  /\ GtkHandled
  /\ UNCHANGED <<states, columns, refit, ticksLeft>>
  /\ GtkApplyFit(GtkFitStep)

\* The worker's events bring and take columns: the width stays.
GtkStreamsMove(n) ==
  /\ n # columns
  /\ GtkHandled
  /\ columns' = n
  /\ UNCHANGED <<span, normal, states, fitRestore, refit, ticksLeft>>

\* dispatch: columns the user asked for, which a window that was fitted follows.
GtkToggleColumns(n) ==
  /\ n # columns
  /\ GtkHandled
  /\ columns' = n
  /\ UNCHANGED <<states, refit, ticksLeft>>
  /\ LET follows == IsFitted(span, columns) /\ ~IsFitted(span, n)
     IN  GtkApplyFit(IF follows THEN {[width |-> FitWidth(n), restore |-> fitRestore]} ELSE {})

\* tick_refit, a bounded number of times: the width to go back to is the one the
\* window opened at.
GtkTickRefit ==
  /\ ticksLeft > 0
  /\ GtkUp
  /\ turning' = FALSE
  /\ ticksLeft' = ticksLeft - 1
  /\ refit' = (ticksLeft' > 0)
  /\ UNCHANGED <<states, columns>>
  /\ GtkApplyFit(IF columns = 0 \/ IsFitted(span, columns) THEN {}
                 ELSE Keeping(GtkFitStep, openedAt))

\* close_request: the geometry is told and saved, once.
GtkClose ==
  /\ process = "up"
  /\ process' = "closed"
  /\ geometry' = [width |-> span, maximized |-> Maximized, fitted |-> IsFitted(span, columns)]
  /\ disk' = geometry'
  /\ UNCHANGED <<turning, span, normal, states, fitRestore, ceiling, columns, refit,
                 openedAt, ticksLeft>>

GtkCrash == Crash /\ UNCHANGED ticksLeft

GtkSizingNext ==
  \/ GtkOpen
  \/ \E w \in Configured : GtkResize(w)
  \/ GtkMaximize
  \/ GtkToggleFit
  \/ \E n \in Column : GtkStreamsMove(n) \/ GtkToggleColumns(n)
  \/ GtkTickRefit
  \/ GtkClose
  \/ GtkCrash

GtkSizingSpec == GtkSizingInit /\ [][GtkSizingNext]_gtkSizingVars

=============================================================================
