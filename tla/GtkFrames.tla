------------------------------- MODULE GtkFrames -------------------------------
(***************************************************************************)
(* When the GTK shell paints and what keeps it stepping (src/gtk_shell/    *)
(* frames.rs, surface.rs, the timers of app.rs). GTK's main loop runs one  *)
(* callback at a time: an action is a callback. The frame clock ticks only *)
(* while the window is in sight, and only for a tick that is registered.   *)
(*                                                                         *)
(* A size stands for the widget's width, height and scale. Time is left    *)
(* out: a timer that runs may fire, and a tick may come before the meters  *)
(* are due.                                                                *)
(***************************************************************************)
EXTENDS Naturals

CONSTANTS
  Allocation,   \* sizes the widget can be given; 0 before its first layout
  BlinkToggles  \* toggles of a blink run

ASSUME AllocationAssumption == Allocation \subseteq Nat \ {0}
ASSUME BlinkTogglesAssumption == BlinkToggles \in Nat

VARIABLES
  \* The desktop's side.
  sight,       \* whether the window is in sight, which runs the frame clock
  allocation,  \* the widget's size
  audible,     \* whether the peak pool is readable
  \* Frames and Surface.
  ticking, watching,
  painted,     \* the texture: its size, and whether body and bars are of now
  marked,      \* ui.dirty
  \* What moves.
  stepping,    \* whether meters_due holds a time
  raised,      \* whether a bar is up
  easing,      \* of "ring" and "mark", what is fading
  \* Timers, and what they are for.
  saving, behind,           \* the save, and whether the disk lacks an edit
  blinking, togglesLeft, caret,
  typing                    \* whether an overlay has the focus

clockVars == <<ticking, watching, painted, marked>>
motionVars == <<audible, stepping, raised, easing>>
gtkTimerVars == <<saving, behind, blinking, togglesLeft, caret, typing>>

gtkFramesVars == <<sight, allocation, clockVars, motionVars, gtkTimerVars>>

-----------------------------------------------------------------------------
GtkFramesInit ==
  /\ sight = TRUE
  /\ allocation = 0
  /\ audible = FALSE
  /\ ticking = TRUE      \* activate ends with a redraw
  /\ watching = TRUE
  /\ painted = [size |-> 0, body |-> FALSE, bars |-> FALSE]
  /\ marked = [full |-> TRUE, meters |-> FALSE]
  /\ stepping = FALSE /\ raised = FALSE /\ easing = {}
  /\ saving = FALSE /\ behind = FALSE
  /\ blinking = FALSE /\ togglesLeft = BlinkToggles /\ caret = TRUE
  /\ typing = FALSE

\* Frames.request: one tick at a time.
RequestFrame == ticking' = TRUE

\* The body changed, or the bars: the texture no longer shows them.
Repaint(body, bars) ==
  /\ marked'  = [full |-> marked.full \/ body, meters |-> marked.meters \/ bars]
  /\ painted' = [painted EXCEPT !.body = @ /\ ~body, !.bars = @ /\ ~bars]

\* Timers.arm: a save once the disk is behind, a blink once a field has focus.
CaretBlinking == typing' /\ togglesLeft' > 0

Arm ==
  /\ saving' = (saving \/ behind')
  /\ blinking' = (blinking \/ CaretBlinking)

\* The redraw every producer ends with; the selector is in GtkShell.
Redraw == Arm /\ RequestFrame

-----------------------------------------------------------------------------
(* Callbacks that change something.                                        *)

\* An event of the pointer or a batch off a bus, which may leave an edit and
\* may set a ring moving.
GtkChange(edits, hovers) ==
  /\ behind' = (behind \/ edits)
  /\ easing' = IF hovers THEN easing \cup {"ring"} ELSE easing
  /\ Repaint(TRUE, FALSE)
  /\ UNCHANGED <<sight, allocation, watching, audible, stepping, raised, togglesLeft, caret, typing>>
  /\ Redraw

\* A key that opens, closes or types into an overlay; in a field it wakes the
\* caret.
GtkKey(overlay) ==
  /\ typing' = overlay
  /\ togglesLeft' = IF overlay THEN BlinkToggles ELSE togglesLeft
  /\ caret' = (overlay \/ caret)
  /\ Repaint(TRUE, FALSE)
  /\ UNCHANGED <<sight, allocation, watching, motionVars, behind>>
  /\ Redraw

\* toggle_fit_width: the press is marked before GTK is asked for a width it may
\* not give, and no frame is asked for.
FitKey ==
  /\ ~typing
  /\ easing' = easing \cup {"mark"}
  /\ UNCHANGED <<sight, allocation, clockVars, audible, stepping, raised, gtkTimerVars>>

\* The surface's layout signal comes after GTK has sized the widget.
LayoutChanged(size) ==
  /\ allocation' = size
  /\ RequestFrame
  /\ UNCHANGED <<sight, watching, painted, marked, motionVars, gtkTimerVars>>

\* The window is no longer the active one: the caret rests shown.
FocusLost ==
  /\ caret' = TRUE
  /\ togglesLeft' = 0
  /\ Repaint(~caret, FALSE)
  /\ UNCHANGED <<sight, allocation, watching, motionVars, typing, behind>>
  /\ Redraw

\* The save, which shows only when it fails.
AutosaveFires(failed) ==
  /\ saving
  /\ saving' = FALSE
  /\ behind' = FALSE
  /\ Repaint(failed, FALSE)
  /\ RequestFrame
  /\ UNCHANGED <<sight, allocation, watching, motionVars, blinking, togglesLeft, caret, typing>>

\* blink_caret: off focus it settles shown with a fresh run, the last toggle of
\* a run lands shown; the timer ends itself.
BlinkFires ==
  /\ blinking
  /\ togglesLeft' = IF ~typing THEN BlinkToggles ELSE IF togglesLeft = 0 THEN 0 ELSE togglesLeft - 1
  /\ caret' = IF typing /\ togglesLeft > 0 THEN togglesLeft' = 0 \/ ~caret ELSE TRUE
  /\ blinking' = (typing /\ togglesLeft' > 0)
  /\ Repaint(caret' # caret, FALSE)
  /\ ticking' = (ticking \/ caret' # caret)
  /\ UNCHANGED <<sight, allocation, watching, motionVars, saving, behind, typing>>

-----------------------------------------------------------------------------
(* The frame clock and the peak pool.                                      *)

\* tick_meters, when they are due: the bars fall, the pool is drained and its
\* readings folded in, unless they are stale or no row shows them, and they are
\* due again while one moved.
StepBars(folded, up) ==
  /\ folded => audible
  /\ up \in {folded, raised}
  /\ folded => up
  /\ raised' = up
  /\ stepping' = (raised \/ folded)
  /\ audible' = FALSE

\* Surface.render gives the whole frame, at the size there is; paint skips it
\* when nothing is marked and the size is the painted one, and keeps the flags
\* while there is no size.
Paint(full, bars) ==
  IF allocation # 0 /\ (full \/ bars \/ painted.size # allocation)
  THEN /\ painted' = [size |-> allocation, body |-> TRUE, bars |-> TRUE]
       /\ marked' = [full |-> FALSE, meters |-> FALSE]
  ELSE /\ marked' = [full |-> full, meters |-> bars]
       /\ painted' = [painted EXCEPT !.body = @ /\ ~full, !.bars = @ /\ ~bars]

\* Broken variant of Tick: the watch is put back with the last fade only.
TickWatchingLate(due, folded, up, on) ==
  /\ ticking /\ sight
  /\ IF due /\ stepping
     THEN StepBars(folded, up)
     ELSE ~folded /\ up = raised /\ UNCHANGED <<audible, stepping, raised>>
  /\ on \subseteq easing
  /\ easing' = on
  /\ Paint(marked.full \/ easing # {}, marked.meters \/ (due /\ stepping /\ stepping'))
  /\ ticking' = (easing # {} \/ stepping')
  /\ watching' = (watching \/ ticking')
  /\ UNCHANGED <<sight, allocation, gtkTimerVars>>

\* A turn of the frame clock steps what moves, paints, watches the pool once the
\* bars rest, and comes again while something moves.
Tick(due, folded, up, on) ==
  /\ ticking /\ sight
  /\ IF due /\ stepping
     THEN StepBars(folded, up)
     ELSE ~folded /\ up = raised /\ UNCHANGED <<audible, stepping, raised>>
  /\ on \subseteq easing
  /\ easing' = on
  /\ Paint(marked.full \/ easing # {}, marked.meters \/ (due /\ stepping /\ stepping'))
  /\ ticking' = (easing # {} \/ stepping')
  /\ watching' = (watching \/ ~stepping')
  /\ UNCHANGED <<sight, allocation, gtkTimerVars>>

\* watch_peaks: the watch removes itself and the bars step at once, in a window
\* that cannot paint too.
PeaksReadable(folded, up) ==
  /\ watching /\ audible
  /\ watching' = FALSE
  /\ StepBars(folded, up)
  /\ Repaint(FALSE, stepping')
  /\ RequestFrame
  /\ UNCHANGED <<sight, allocation, easing, gtkTimerVars>>

-----------------------------------------------------------------------------
(* Around the shell.                                                       *)

\* An audio thread folds a peak into the pool.
Sounds ==
  /\ ~audible
  /\ audible' = TRUE
  /\ UNCHANGED <<sight, allocation, clockVars, stepping, raised, easing, gtkTimerVars>>

SightChanges ==
  /\ sight' = ~sight
  /\ UNCHANGED <<allocation, clockVars, motionVars, gtkTimerVars>>

DueTick == \E folded, up \in BOOLEAN, on \in SUBSET easing : Tick(TRUE, folded, up, on)
EarlyTick == \E on \in SUBSET easing : Tick(FALSE, FALSE, raised, on)
PeaksStep == \E folded, up \in BOOLEAN : PeaksReadable(folded, up)
AutosaveStep == \E failed \in BOOLEAN : AutosaveFires(failed)

GtkFramesNext ==
  \/ \E edits, hovers \in BOOLEAN : GtkChange(edits, hovers)
  \/ \E overlay \in BOOLEAN : GtkKey(overlay)
  \/ FitKey
  \/ \E size \in Allocation : LayoutChanged(size)
  \/ FocusLost
  \/ AutosaveStep
  \/ BlinkFires
  \/ DueTick
  \/ EarlyTick
  \/ PeaksStep
  \/ Sounds
  \/ SightChanges

\* The main loop serves its timers and its fds, and the frame clock ticks while
\* the window is in sight; meters that step come due.
GtkFairness ==
  /\ WF_gtkFramesVars(AutosaveStep)
  /\ WF_gtkFramesVars(DueTick)
  /\ WF_gtkFramesVars(PeaksStep)

GtkFramesSpec == GtkFramesInit /\ [][GtkFramesNext]_gtkFramesVars /\ GtkFairness

-----------------------------------------------------------------------------
(* Properties.                                                             *)

GtkFramesTypeOK ==
  /\ sight \in BOOLEAN /\ allocation \in Allocation \cup {0} /\ audible \in BOOLEAN
  /\ ticking \in BOOLEAN /\ watching \in BOOLEAN
  /\ painted \in [size : Allocation \cup {0}, body : BOOLEAN, bars : BOOLEAN]
  /\ marked \in [full : BOOLEAN, meters : BOOLEAN]
  /\ stepping \in BOOLEAN /\ raised \in BOOLEAN /\ easing \subseteq {"ring", "mark"}
  /\ saving \in BOOLEAN /\ behind \in BOOLEAN
  /\ blinking \in BOOLEAN /\ togglesLeft \in 0 .. BlinkToggles /\ caret \in BOOLEAN
  /\ typing \in BOOLEAN

\* The texture shows what is the case, at the size there is.
Current == painted.size = allocation /\ painted.body /\ painted.bars

\* "a still window has none and asks for no frames": it has nothing to show that
\* is not on the screen, no bar up and no ring moving, and the pool can wake it.
\* The fit button's mark is left out: this shell paints no such button.
StillMeansDone ==
  ~ticking => /\ allocation # 0 => Current
              /\ ~raised
              /\ "ring" \notin easing
              /\ watching

\* "each a timer that runs only while it has work", and as long as it has: a
\* session the disk lags behind has its save armed, and a caret that is hidden
\* has the timer that shows it again.
TimersServe == (behind => saving) /\ (~caret => blinking)

GtkSteadies == StillMeansDone /\ TimersServe

\* An edit is written, a sound is taken from the pool and a change is shown; the
\* last two while the window is in sight.
GtkKeepsUp ==
  /\ behind ~> ~behind
  /\ audible ~> (~audible \/ ~sight)
  /\ (allocation # 0 /\ ~Current) ~> (Current \/ ~sight)

=============================================================================
