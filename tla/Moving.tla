-------------------------------- MODULE Moving --------------------------------
(***************************************************************************)
(* What moves while nothing happens: the bars of the meters (ui/meter.rs), *)
(* the rings around the knobs and the mark a press leaves on the fit button *)
(* (ui/halo.rs), and the turns of the loop that step them (shell.rs). All  *)
(* go by the clock, since a turn comes when it comes.                      *)
(*                                                                         *)
(* A level is in steps of decibels, of which a bar loses one in a unit of  *)
(* time: 0 is below the floor, 1 the floor, Top + 1 what lights it all. A  *)
(* ring's strength is in units of time too, and Fade is its full one.       *)
(* The easing curve that is put on a strength is left out.                 *)
(***************************************************************************)
EXTENDS Integers, Sequences

CONSTANTS
  Row,       \* rows of the strip, with a bar for each channel and a ring
  Nobody,    \* no row
  Peaks,   \* what a drain of the pool may find of a row: a level per channel
  Never,     \* no time
  Interval,  \* PEAK_DECAY_INTERVAL
  Stale,     \* STALE_READINGS
  Fade,      \* FADE
  Mark,      \* MARK
  Top,       \* METER_DB_FLOOR
  Height,    \* heights a meter is drawn at
  MaxTime    \* bound: the time a run ends

ASSUME NobodyAssumption == Nobody \notin Row
ASSUME HeightAssumption == Height \subseteq Nat \ {0}
ASSUME NeverAssumption == Never \notin Int
ASSUME PaceAssumption == {Interval, Stale, Fade, Mark, Top, MaxTime} \subseteq Nat \ {0}

Larger(a, b) == IF a < b THEN b ELSE a
Smaller(a, b) == IF a < b THEN a ELSE b
Between(n, low, high) == IF n < low THEN low ELSE IF n > high THEN high ELSE n

-----------------------------------------------------------------------------
(* The ladder of a meter: cells on a whole pitch, counted from the bottom. *)

METER_WIDTH == 18
CELL_PITCH == 4
CELL_GAP == 1
CELL_HEIGHT == CELL_PITCH - CELL_GAP
ASSUMED_CHANNELS == 2
MAX_CHANNELS == 8

ASSUME PeaksAssumption ==
  <<>> \in Peaks /\ \A peaks \in Peaks : peaks \in Seq(Nat) /\ Len(peaks) <= MAX_CHANNELS

segments_for(height) == (Larger(height, 1) + CELL_PITCH - 1) \div CELL_PITCH

\* Broken variant of cell_span: the top cell is as tall as the others.
cell_span_even(height, n) ==
  LET bottom == height - n * CELL_PITCH
  IN [top |-> bottom - CELL_HEIGHT, bottom |-> bottom]

\* The rows of a cell. The top one takes what the pitch leaves it.
cell_span(height, n) ==
  LET bottom == height - n * CELL_PITCH
      top == IF n >= segments_for(height) - 1 THEN 0 ELSE bottom - CELL_HEIGHT
  IN [top |-> top, bottom |-> Larger(bottom, top)]

bar_count(bar) == IF bar = <<>> THEN ASSUMED_CHANNELS ELSE Len(bar)

\* The columns of pixels of one bar of several.
bar_span(count, n) ==
  LET width == Larger((METER_WIDTH - (count - 1)) \div count, 1)
  IN [left |-> n * (width + 1), right |-> n * (width + 1) + width]

\* How many of Top parts of the ladder are lit.
lit_fraction(level) == Between(level - 1, 0, Top)

segment_tier(n, total) ==
  IF n >= (90 * total) \div 100 THEN 3 ELSE IF n >= (70 * total) \div 100 THEN 2
  ELSE IF n >= (55 * total) \div 100 THEN 1 ELSE 0

\* How many of Top parts of a cell are.
segment_coverage(lit, total, n) == Between(lit * total - n * Top, 0, Top)

-----------------------------------------------------------------------------
VARIABLES
  now,
  live,       \* the rows that the snapshot routes peaks to
  bars,       \* row -> its bars, <<>> while it has none
  last_step,  \* when they were last stepped
  meters_due, \* when they are to be, Never at rest
  pointed,    \* the knob under the pointer, or the one it drags
  rings,      \* row -> strength, of the rows that are tracked
  ring_clock, \* HaloState::last
  mark, mark_clock,
  fades,      \* what tick_fades said last: whether it wants frames, for which knob, when
  crest,      \* history: row -> for each bar the most of level plus time it has read
  begun,      \* history: row -> what its ring stood at, and when, before it turned
  struck      \* history: when the mark was first stepped after its last press

meterVars == <<live, bars, last_step, meters_due, crest>>
fadeVars == <<pointed, rings, ring_clock, mark, mark_clock, fades, begun, struck>>
movingVars == <<now, meterVars, fadeVars>>

-----------------------------------------------------------------------------
(* The bars.                                                               *)

Up(bar) == \E c \in DOMAIN bar : bar[c] > 0

Elapsed(clock) == IF clock = Never THEN 0 ELSE now - clock

\* MeterState::decay of one row.
decayed(bar, elapsed) == [c \in DOMAIN bar |-> Larger(bar[c] - elapsed, 0)]

readings_stale == (\E r \in Row : Up(bars[r])) /\ Elapsed(last_step) > Stale

\* The louder of what a bar shows and what comes, over as many bars as come.
fold_peaks(bar, peaks) ==
  [c \in DOMAIN peaks |-> IF c \in DOMAIN bar THEN Larger(bar[c], peaks[c]) ELSE peaks[c]]

\* Broken variant of Stepped: a reading has fallen before it is seen.
SteppedLate(bar, peaks) ==
  decayed(IF peaks = <<>> THEN bar ELSE fold_peaks(bar, peaks), Elapsed(last_step))

Stepped(bar, peaks) ==
  LET fallen == decayed(bar, Elapsed(last_step))
  IN IF peaks = <<>> THEN fallen ELSE fold_peaks(fallen, peaks)

\* Broken variant of Moves: a bar moves if it ends elsewhere.
MovesAway(bar, peaks) == Stepped(bar, peaks) # bar

\* Either of the two moved it, though they end where it was.
Moves(bar, peaks) ==
  LET fallen == decayed(bar, Elapsed(last_step))
  IN fallen # bar \/ Stepped(bar, peaks) # fallen

Crests(crests, peaks) ==
  IF peaks = <<>> THEN crests
  ELSE [c \in DOMAIN peaks |->
          IF c \in DOMAIN crests THEN Larger(crests[c], peaks[c] + now) ELSE peaks[c] + now]

\* tick_meters, and wake_meters when the pool has woken the loop.
StepMeters(readings) ==
  LET heard == [r \in Row |-> IF readings_stale \/ r \notin live THEN <<>> ELSE readings[r]]
  IN /\ bars' = [r \in Row |-> Stepped(bars[r], heard[r])]
     /\ crest' = [r \in Row |-> Crests(crest[r], heard[r])]
     /\ last_step' = now
     /\ meters_due' = IF \E r \in Row : Moves(bars[r], heard[r]) THEN now + Interval ELSE Never
     /\ UNCHANGED live

MetersWait == UNCHANGED meterVars

-----------------------------------------------------------------------------
(* The rings and the mark.                                                 *)

Strength(r) == IF r \in DOMAIN rings THEN rings[r] ELSE 0

Full(r, lit) == IF r = lit THEN Fade ELSE 0

Toward(value, target, step) ==
  IF value < target THEN Smaller(value + step, target) ELSE Larger(value - step, target)

Under(lit) == \E r \in Row : Strength(r) # Full(r, lit)

\* What advance reports: it tracks one more, or one moved or has further to go.
HaloMoves(lit) ==
  \/ lit \notin DOMAIN rings \cup {Nobody}
  \/ \E r \in DOMAIN rings : Toward(Strength(r), Full(r, lit), Elapsed(ring_clock)) # Strength(r)
  \/ ring_clock' # Never

\* Broken variant of HaloAdvance: its clock runs on while nothing fades.
HaloAdvanceOn(lit) ==
  LET step == Elapsed(ring_clock)
      tracked == DOMAIN rings \cup ({lit} \ {Nobody})
      next == [r \in tracked |-> Toward(Strength(r), Full(r, lit), step)]
  IN /\ rings' = [r \in {r \in tracked : next[r] > 0 \/ r = lit} |-> next[r]]
     /\ ring_clock' = now

\* HaloState::advance. Its clock runs only while a fade does.
HaloAdvance(lit) ==
  LET step == Elapsed(ring_clock)
      tracked == DOMAIN rings \cup ({lit} \ {Nobody})
      next == [r \in tracked |-> Toward(Strength(r), Full(r, lit), step)]
  IN /\ rings' = [r \in {r \in tracked : next[r] > 0 \/ r = lit} |-> next[r]]
     /\ ring_clock' = IF \E r \in tracked : next[r] # Full(r, lit) THEN now ELSE Never

\* PressMark::advance. The first after a press moves nothing.
MarkAdvance ==
  /\ mark_clock' = now
  /\ mark' = Larger(mark - Elapsed(mark_clock), 0)
  /\ struck' = IF mark_clock = Never THEN now ELSE struck

\* tick_fades, for the knob lit_knob names.
StepFades ==
  /\ HaloAdvance(pointed)
  /\ MarkAdvance
  /\ fades' = [going |-> HaloMoves(pointed) \/ mark > 0, lit |-> pointed, at |-> now]
  /\ begun' = IF fades.lit = pointed THEN begun
              ELSE [r \in Row |->
                      IF Full(r, fades.lit) = Full(r, pointed) THEN begun[r]
                      ELSE [value |-> Strength(r), at |-> IF Under(fades.lit) THEN fades.at ELSE now]]
  /\ UNCHANGED pointed

-----------------------------------------------------------------------------
(* What comes between the turns.                                           *)

\* A turn of the loop, woken by the pool or not.
MoveTurn(readings) ==
  /\ IF IF meters_due = Never THEN \E r \in Row : readings[r] # <<>> ELSE now >= meters_due
     THEN StepMeters(readings) ELSE MetersWait
  /\ StepFades
  /\ UNCHANGED now

Pass == now < MaxTime /\ now' = now + 1 /\ UNCHANGED <<meterVars, fadeVars>>

\* Broken variant of Reproject: rows are never dropped.
ReprojectKeeping(rows) ==
  /\ live' = rows
  /\ UNCHANGED <<now, bars, crest, last_step, meters_due, fadeVars>>

\* Shell::refresh: rows that are gone stop being kept.
Reproject(rows) ==
  /\ live' = rows
  /\ bars' = [r \in Row |-> IF r \in rows THEN bars[r] ELSE <<>>]
  /\ crest' = [r \in Row |-> IF r \in rows THEN crest[r] ELSE <<>>]
  /\ UNCHANGED <<now, last_step, meters_due, fadeVars>>

\* rehover, and the start and the end of a drag.
Point(r) == pointed' = r /\ UNCHANGED <<now, meterVars, rings, ring_clock, mark, mark_clock, fades, begun, struck>>

\* PressMark::strike.
Strike ==
  /\ mark' = Mark /\ mark_clock' = Never
  /\ UNCHANGED <<now, meterVars, pointed, rings, ring_clock, fades, begun, struck>>

MovingInit ==
  /\ now = 0
  /\ live = {} /\ bars = [r \in Row |-> <<>>] /\ crest = bars
  /\ last_step = Never /\ meters_due = Never
  /\ pointed = Nobody /\ rings = [r \in {} |-> 0] /\ ring_clock = Never
  /\ mark = 0 /\ mark_clock = Never
  /\ fades = [going |-> FALSE, lit |-> Nobody, at |-> 0]
  /\ begun = [r \in Row |-> [value |-> 0, at |-> 0]] /\ struck = 0

MetersMove ==
  \/ \E readings \in [Row -> Peaks] : MoveTurn(readings)
  \/ \E rows \in SUBSET Row : Reproject(rows)

FadesMove ==
  \/ MoveTurn([r \in Row |-> <<>>])
  \/ \E r \in Row \cup {Nobody} : Point(r)
  \/ Strike

MovingNext == Pass \/ MetersMove \/ FadesMove

MovingSpec == MovingInit /\ [][MovingNext]_movingVars

-----------------------------------------------------------------------------
(* Properties.                                                             *)

\* A level of the bars a row is drawn with, and how many they are.
Levels(bar) == IF bar = <<>> THEN {0} ELSE {bar[c] : c \in DOMAIN bar}

\* "Cells stack from the bottom on the whole pitch, so cell 0 ends on the strip's
\* last row", and "The top cell runs to the strip's first row": no two touch,
\* none is empty or taller than the pitch; the bars stand apart inside the
\* meter, which is what a step of it repaints; a cell is lit only above lit
\* ones, and the topmost is red.
LadderIsWhole(height, level, count) ==
  LET total == segments_for(height)
      Span(n) == cell_span(height, n)
      Lit(n) == segment_coverage(lit_fraction(level), total, n)
  IN /\ Span(0).bottom = height /\ Span(total - 1).top = 0
     /\ segment_tier(total - 1, total) = 3
     /\ \A n \in 0 .. total - 1 : Span(n).bottom - Span(n).top \in 1 .. CELL_PITCH
     /\ \A n \in 1 .. total - 1 :
          /\ Span(n).bottom = Span(n - 1).top - CELL_GAP
          /\ Lit(n) > 0 => Lit(n - 1) = Top
     /\ \A n \in 0 .. count - 1 : bar_span(count, n).right \in 1 .. METER_WIDTH
     /\ \A n \in 1 .. count - 1 : bar_span(count, n).left = bar_span(count, n - 1).right + 1

LaddersAreWhole ==
  \A r \in live, height \in Height : \A level \in Levels(bars[r]) :
    LadderIsWhole(height, level, bar_count(bars[r]))

\* "The decay follows elapsed time": a bar shows the loudest it has read, each
\* reading fallen by the time since, however often it was stepped in between;
\* and what has no row is not kept.
BarsFollowTime ==
  \A r \in Row :
    /\ bars[r] # <<>> => r \in live
    /\ DOMAIN bars[r] = DOMAIN crest[r]
    /\ \A c \in DOMAIN bars[r] : bars[r][c] = Larger(crest[r][c] - last_step, 0)

\* A bar that is up is due to fall: it stays so until it is down.
BarsComeDown == (\E r \in Row : Up(bars[r])) => meters_due # Never

\* "the fade takes the same time however often the loop happens to wake", and the
\* stretch in which nothing moved "is not part of the next fade": a ring is as
\* far as the time since it turned takes it, and so is the mark.
FadesFollowTime ==
  /\ \A r \in Row :
       Strength(r) = Toward(begun[r].value, Full(r, fades.lit), fades.at - begun[r].at)
  /\ mark_clock # Never /\ mark > 0 => mark = Mark - (fades.at - struck)

\* A turn that asks for no more frames leaves every ring where it is going, and
\* no mark: nothing is stuck half-way in a window that sleeps.
StillIsDone == ~fades.going => ~Under(fades.lit) /\ (mark_clock # Never => mark = 0)

MovingIsSound == LaddersAreWhole /\ BarsFollowTime /\ BarsComeDown /\ FadesFollowTime /\ StillIsDone

=============================================================================
