----------------------------- MODULE WindowProofs -----------------------------
(***************************************************************************)
(* The window's width in the two shells, for any columns, sizes, bounds    *)
(* and numbers of ticks, and its seat (MCWindow), for any room on the      *)
(* connection, events on their way, strokes, copies and stalls.            *)
(***************************************************************************)
EXTENDS MCWindow, FiniteSetTheorems, SequenceTheorems, WellFoundedInduction, TLAPS

-----------------------------------------------------------------------------
(* The width of either window (Sizing, GtkSizing).                         *)

Widths == {w \in Nat : w >= Minimum}

SizingTypeOK ==
  /\ span \in Widths /\ normal \in Widths /\ openedAt \in Nat
  /\ fitRestore \in Nat \cup {NoWidth}
  /\ ceiling \in Nat /\ columns \in Nat
  /\ disk.width \in Nat /\ geometry.width \in Nat

\* What a clean exit leaves on the disk until the next launch.
ClosedIsKept ==
  process = "closed" => AtLeastMinimum(disk.width) = normal /\ disk.fitted = IsFitted(normal, columns)

\* No width the fit comes to cuts a column, and it is one the window keeps.
LEMMA FitWidths ==
  ASSUME NEW n \in Nat, ceiling \in Nat
  PROVE  FitWidth(n) \in Widths /\ AtLeastMinimum(FitWidth(n)) = FitWidth(n)
BY DEF FitWidth, Larger, Smaller, AtLeastMinimum, NaturalWidth, Minimum, Widths

LEMMA LeastWidths ==
  /\ \A w \in Nat : AtLeastMinimum(w) \in Widths
  /\ \A w \in Widths : AtLeastMinimum(w) = w
BY DEF AtLeastMinimum, Larger, Minimum, NaturalWidth, Widths

-----------------------------------------------------------------------------
(* The native window. It takes no width from the disk as it stands, so     *)
(* none it goes back to cuts a column.                                     *)

RestoresFit == openedAt \in Widths /\ fitRestore \in Widths \cup {NoWidth}

SizingIInv == SizingTypeOK /\ RestoresFit /\ OrdinaryIsNormal /\ RefitFollows /\ ClosedIsKept

\* The steps the fit may take.
Steps == [width : Widths, restore : Widths \cup {NoWidth}]

LEMMA FitSteps ==
  ASSUME SizingTypeOK, RestoresFit
  PROVE  /\ FitStep \subseteq Steps
         /\ ~CompositorSized /\ ~IsFitted(span, columns) => FitStep # {} /\ \A step \in FitStep : step.width = FitWidth(columns)
<1>1. FitWidth(columns) \in Widths /\ span \in Widths
  BY FitWidths DEF SizingTypeOK
<1>2. CASE CompositorSized
  BY <1>2 DEF FitStep
<1>3. CASE ~CompositorSized /\ IsFitted(span, columns)
  <2>1. FitStep = {[width |-> w, restore |-> NoWidth] : w \in {fitRestore} \ {NoWidth, span}}
    BY <1>3 DEF FitStep
  <2>2. {fitRestore} \ {NoWidth, span} \subseteq Widths
    BY DEF RestoresFit
  <2> QED BY <1>3, <2>1, <2>2 DEF Steps
<1>4. CASE ~CompositorSized /\ ~IsFitted(span, columns)
  <2>1. FitStep = {[width |-> FitWidth(columns), restore |-> span]}
    BY <1>4 DEF FitStep
  <2> QED BY <1>1, <2>1 DEF Steps
<1> QED BY <1>2, <1>3, <1>4

\* Carrying out a step keeps the widths, and the core is told.
LEMMA ApplyFitKeeps ==
  ASSUME SizingTypeOK, RestoresFit, NEW steps \in SUBSET Steps, ApplyFit(steps), OrdinaryIsNormal,
         process = "up", process' = "up", states' = states, columns' \in Nat, ceiling' = ceiling,
         steps # {} => ~CompositorSized
  PROVE  /\ span' \in Widths /\ normal' \in Widths /\ fitRestore' \in Widths \cup {NoWidth}
         /\ geometry'.width \in Nat
         /\ OrdinaryIsNormal'
         /\ steps # {} => \E step \in steps : span' = step.width
         /\ steps = {} => span' = span
<1>1. CASE steps = {}
  BY <1>1 DEF ApplyFit, SizingTypeOK, RestoresFit, OrdinaryIsNormal, CompositorSized
<1>2. CASE steps # {}
  <2>1. PICK step \in steps : fitRestore' = step.restore /\ span' = step.width /\ normal' = step.width /\ PushGeometry
    BY <1>2 DEF ApplyFit
  <2>2. step.width \in Widths /\ step.restore \in Widths \cup {NoWidth}
    BY DEF Steps
  <2>3. geometry'.width \in Nat /\ geometry'.width = normal'
    BY <2>1, <2>2 DEF PushGeometry, Widths
  <2> QED BY <1>2, <2>1, <2>2, <2>3, LeastWidths DEF OrdinaryIsNormal
<1> QED BY <1>1, <1>2

LEMMA SizingInitIInv == SizingInit => SizingIInv
<1> SUFFICES ASSUME SizingInit PROVE SizingIInv
  OBVIOUS
<1>1. /\ span = Minimum /\ normal = Minimum /\ openedAt = Minimum /\ fitRestore = NoWidth /\ process = "down"
      /\ ceiling = Unbounded /\ columns = 0 /\ geometry = disk
      /\ disk \in [width : {1, 3}, maximized : {FALSE}, fitted : BOOLEAN]
  BY DEF SizingInit
<1>2. Minimum \in Widths
  BY DEF Widths, Minimum, NaturalWidth
<1>3. disk.width \in Nat
  BY <1>1
<1> QED
  BY <1>1, <1>2, <1>3, UnboundedAssumption
     DEF SizingIInv, SizingTypeOK, RestoresFit, OrdinaryIsNormal, RefitFollows, ClosedIsKept, Widths

LEMMA SizingNextIInv == SizingIInv /\ [SizingNext]_sizingVars => SizingIInv'
<1> SUFFICES ASSUME SizingIInv, [SizingNext]_sizingVars PROVE SizingIInv'
  OBVIOUS
<1> USE DEF SizingIInv
<1>1. CASE Open
  <2>1. /\ process' = "up" /\ turning' = FALSE /\ geometry' = disk /\ span' = AtLeastMinimum(disk.width) /\ normal' = span'
        /\ openedAt' = span' /\ fitRestore' = NoWidth /\ ceiling' = Unbounded /\ columns' = 0 /\ disk' = disk
    BY <1>1 DEF Open
  <2>2. span' \in Widths
    BY <2>1, LeastWidths DEF SizingTypeOK
  <2> QED
    BY <2>1, <2>2, UnboundedAssumption
       DEF SizingTypeOK, RestoresFit, OrdinaryIsNormal, RefitFollows, ClosedIsKept, Widths
<1>2. ASSUME NEW w \in Configured, NEW carried \in {{}, {"maximized"}, {"tiled"}}, ToplevelConfigure(w, carried) PROVE SizingIInv'
  <2>1. /\ process = "up" /\ turning' = TRUE /\ states' = carried /\ PushGeometry
        /\ UNCHANGED <<process, refit, openedAt, disk, fitRestore, ceiling, columns>>
        /\ span' = AtLeastMinimum(IF w > 0 THEN w ELSE normal)
        /\ normal' = IF carried = {} THEN span' ELSE normal
    BY <1>2 DEF ToplevelConfigure, Handled
  <2>2. span' \in Widths /\ normal' \in Widths
    BY <2>1, LeastWidths, ConfiguredAssumption DEF SizingTypeOK, Widths
  <2>3. geometry'.width \in Nat /\ geometry'.width = normal'
    BY <2>1, <2>2 DEF PushGeometry, Widths
  <2>4. OrdinaryIsNormal'
    BY <2>1, <2>2, <2>3, LeastWidths DEF OrdinaryIsNormal, CompositorSized
  <2> QED BY <2>1, <2>2, <2>3, <2>4 DEF SizingTypeOK, RestoresFit, RefitFollows, ClosedIsKept
<1>3. ASSUME NEW w \in Configured, ConfigureBounds(w) PROVE SizingIInv'
  <2>1. /\ process = "up" /\ turning' = TRUE /\ ceiling' = IF w > 0 THEN w ELSE Unbounded
        /\ UNCHANGED <<process, refit, openedAt, disk, span, normal, states, fitRestore, columns, geometry>>
    BY <1>3 DEF ConfigureBounds, Handled
  <2> QED
    BY <2>1, ConfiguredAssumption, UnboundedAssumption
       DEF SizingTypeOK, RestoresFit, OrdinaryIsNormal, CompositorSized, RefitFollows, ClosedIsKept
<1>4. CASE ToggleFitWidth
  <2>1. /\ process = "up" /\ turning' = TRUE /\ ApplyFit(FitStep)
        /\ UNCHANGED <<process, refit, openedAt, disk, states, ceiling, columns>>
    BY <1>4 DEF ToggleFitWidth, Handled
  <2>2. FitStep \in SUBSET Steps /\ (FitStep # {} => ~CompositorSized)
    BY FitSteps DEF FitStep
  <2>3. /\ span' \in Widths /\ normal' \in Widths /\ fitRestore' \in Widths \cup {NoWidth}
        /\ geometry'.width \in Nat
        /\ OrdinaryIsNormal'
    BY <2>1, <2>2, ApplyFitKeeps DEF SizingTypeOK
  <2> QED BY <2>1, <2>3 DEF SizingTypeOK, RestoresFit, RefitFollows, ClosedIsKept, Widths
<1>5. ASSUME NEW n \in Column, StreamsMove(n) PROVE SizingIInv'
  <2>1. /\ process = "up" /\ turning' = TRUE /\ columns' = n
        /\ UNCHANGED <<process, refit, openedAt, disk, span, normal, states, fitRestore, ceiling, geometry>>
    BY <1>5 DEF StreamsMove, Handled
  <2> QED
    BY <2>1, ColumnAssumption
       DEF SizingTypeOK, RestoresFit, OrdinaryIsNormal, CompositorSized, RefitFollows, ClosedIsKept
<1>6. ASSUME NEW n \in Column, ToggleColumns(n) PROVE SizingIInv'
  <2> DEFINE follows == IsFitted(span, columns) /\ ~IsFitted(span, n) /\ ~CompositorSized
             steps == IF follows THEN {[width |-> FitWidth(n), restore |-> fitRestore]} ELSE {}
  <2>1. /\ process = "up" /\ turning' = TRUE /\ columns' = n /\ ApplyFit(steps)
        /\ UNCHANGED <<process, refit, openedAt, disk, states, ceiling>>
    BY <1>6 DEF ToggleColumns, Handled
  <2>2. n \in Nat /\ FitWidth(n) \in Widths
    BY ColumnAssumption, FitWidths DEF SizingTypeOK
  <2>3. steps \in SUBSET Steps /\ (steps # {} => ~CompositorSized)
    BY <2>2 DEF Steps, RestoresFit
  <2>4. /\ span' \in Widths /\ normal' \in Widths /\ fitRestore' \in Widths \cup {NoWidth}
        /\ geometry'.width \in Nat
        /\ OrdinaryIsNormal'
    <3> HIDE DEF steps
    <3> QED BY <2>1, <2>2, <2>3, ApplyFitKeeps
  <2> QED BY <2>1, <2>2, <2>4 DEF SizingTypeOK, RestoresFit, RefitFollows, ClosedIsKept, Widths
<1>7. ASSUME NEW settled \in BOOLEAN, EndOfTurn(settled) PROVE SizingIInv'
  <2> DEFINE owed == refit' /\ columns # 0 /\ ~IsFitted(span, columns)
             steps == IF owed THEN Keeping(FitStep, openedAt) ELSE {}
  <2>1. /\ process = "up" /\ turning' = FALSE /\ ApplyFit(steps)
        /\ UNCHANGED <<process, openedAt, disk, states, ceiling, columns>>
    BY <1>7 DEF EndOfTurn
  <2>2. \A step \in FitStep : [step EXCEPT !.restore = openedAt] = [width |-> step.width, restore |-> openedAt]
    BY FitSteps DEF Steps
  <2>3. /\ Keeping(FitStep, openedAt) \in SUBSET Steps
        /\ \A kept \in Keeping(FitStep, openedAt) : \E step \in FitStep : kept.width = step.width
        /\ FitStep # {} <=> Keeping(FitStep, openedAt) # {}
    BY <2>2, FitSteps DEF Keeping, Steps, RestoresFit
  <2>4. steps \in SUBSET Steps /\ (steps # {} => ~CompositorSized)
    BY <2>3 DEF FitStep
  <2>5. /\ span' \in Widths /\ normal' \in Widths /\ fitRestore' \in Widths \cup {NoWidth}
        /\ geometry'.width \in Nat
        /\ OrdinaryIsNormal'
        /\ steps # {} => \E step \in steps : span' = step.width
        /\ steps = {} => span' = span
    <3> HIDE DEF steps
    <3> QED BY <2>1, <2>4, ApplyFitKeeps DEF SizingTypeOK
  <2>6. CompositorSized' = CompositorSized /\ FitWidth(columns)' = FitWidth(columns)
    BY <2>1 DEF CompositorSized, FitWidth
  <2>7. RefitFollows'
    <3>1. CASE ~owed
      BY <2>1, <2>5, <2>6, <3>1 DEF RefitFollows, IsFitted
    <3>2. CASE owed /\ CompositorSized
      BY <2>6, <3>2 DEF RefitFollows
    <3>3. CASE owed /\ ~CompositorSized
      <4>1. steps = Keeping(FitStep, openedAt) /\ steps # {} /\ \A step \in FitStep : step.width = FitWidth(columns)
        BY <2>3, <3>3, FitSteps
      <4>2. span' = FitWidth(columns)
        BY <2>3, <2>5, <4>1
      <4> QED BY <2>6, <4>2 DEF RefitFollows, IsFitted
    <3> QED BY <3>1, <3>2, <3>3
  <2> QED BY <2>1, <2>5, <2>7 DEF SizingTypeOK, RestoresFit, ClosedIsKept, Widths
<1>8. CASE SaveGeometry
  BY <1>8 DEF SaveGeometry, SizingTypeOK, RestoresFit, OrdinaryIsNormal, CompositorSized, RefitFollows, ClosedIsKept
<1>9. CASE CloseWindow
  <2>1. /\ process' = "closed" /\ PushGeometry /\ disk' = geometry'
        /\ UNCHANGED <<turning, span, normal, states, fitRestore, ceiling, columns, refit, openedAt>>
    BY <1>9 DEF CloseWindow
  <2>2. geometry'.width \in Nat /\ geometry'.width = normal' /\ geometry'.fitted = IsFitted(normal', columns')
    BY <2>1 DEF PushGeometry, SizingTypeOK, Widths
  <2>3. ClosedIsKept'
    BY <2>1, <2>2, LeastWidths DEF ClosedIsKept, SizingTypeOK, IsFitted, FitWidth
  <2> QED BY <2>1, <2>2, <2>3 DEF SizingTypeOK, RestoresFit, OrdinaryIsNormal, RefitFollows
<1>10. CASE Crash
  BY <1>10 DEF Crash, SizingTypeOK, RestoresFit, OrdinaryIsNormal, RefitFollows, ClosedIsKept
<1>11. CASE UNCHANGED sizingVars
  BY <1>11 DEF sizingVars, SizingTypeOK, RestoresFit, OrdinaryIsNormal, CompositorSized, RefitFollows, ClosedIsKept, IsFitted, FitWidth
<1> QED BY <1>1, <1>2, <1>3, <1>4, <1>5, <1>6, <1>7, <1>8, <1>9, <1>10, <1>11 DEF SizingNext

\* Once a turn is over, the native window of a launch that owes its columns a
\* fit stands at their width, whatever came in between.
THEOREM RefitFollowsHolds == SizingSpec => []RefitFollows
<1>1. SizingIInv => RefitFollows
  BY DEF SizingIInv
<1> QED BY <1>1, SizingInitIInv, SizingNextIInv, ConfiguredAssumption, PTL DEF SizingSpec

\* An ordinary native window stands at the width it keeps, and the core was
\* told that width.
THEOREM OrdinaryIsNormalHolds == SizingSpec => []OrdinaryIsNormal
<1>1. SizingIInv => OrdinaryIsNormal
  BY DEF SizingIInv
<1> QED BY <1>1, SizingInitIInv, SizingNextIInv, ConfiguredAssumption, PTL DEF SizingSpec

\* No width the native window takes or goes back to cuts a column, whatever the
\* compositor asks for and the disk says.
THEOREM NeverBelowMinimumHolds == SizingSpec => []NeverBelowMinimum
<1>1. SizingIInv => NeverBelowMinimum
  BY DEF SizingIInv, SizingTypeOK, RestoresFit, Widths, NeverBelowMinimum
<1> QED BY <1>1, SizingInitIInv, SizingNextIInv, ConfiguredAssumption, PTL DEF SizingSpec

\* A launch after a clean exit opens at the width kept, and owes a fit just if
\* that was the columns'.
LEMMA OpensAsLeft ==
  ASSUME SizingTypeOK, ClosedIsKept, process = "closed", Open
  PROVE  span' = normal /\ refit' = IsFitted(normal, columns)
BY DEF Open, ClosedIsKept

LEMMA ReopensAsLeftStep ==
  ASSUME SizingIInv, [SizingNext]_sizingVars, process = "closed", process' = "up"
  PROVE  span' = normal /\ refit' = IsFitted(normal, columns)
<1>1. Open
  BY DEF SizingNext, sizingVars, ToplevelConfigure, ConfigureBounds, ToggleFitWidth, StreamsMove, ToggleColumns, Handled,
         EndOfTurn, SaveGeometry, CloseWindow, Crash
<1> QED BY <1>1, OpensAsLeft DEF SizingIInv

THEOREM ReopensAsLeftHolds == SizingSpec => ReopensAsLeft
<1>1. SizingIInv /\ [SizingNext]_sizingVars
        => [process = "closed" /\ process' = "up" => span' = normal /\ refit' = IsFitted(normal, columns)]_sizingVars
  BY ReopensAsLeftStep
<1> QED BY <1>1, SizingInitIInv, SizingNextIInv, ConfiguredAssumption, PTL DEF SizingSpec, ReopensAsLeft

-----------------------------------------------------------------------------
(* The GTK window. It goes back to a width as the disk has it, which GTK   *)
(* then keeps above the least one.                                         *)

GtkSizingIInv == SizingTypeOK /\ span = normal /\ RefitFollows /\ ClosedIsKept

LEMMA GtkFitSteps ==
  ASSUME SizingTypeOK
  PROVE  /\ GtkFitStep \subseteq [width : Nat, restore : Nat \cup {NoWidth}]
         /\ ~IsFitted(span, columns) => /\ GtkFitStep # {}
                                        /\ \A step \in GtkFitStep : step.width = FitWidth(columns)
<1>1. FitWidth(columns) \in Nat /\ span \in Nat
  BY FitWidths DEF SizingTypeOK, Widths
<1>2. CASE IsFitted(span, columns)
  <2>1. GtkFitStep = {[width |-> w, restore |-> NoWidth] : w \in {fitRestore} \ {NoWidth, span}}
    BY <1>2 DEF GtkFitStep
  <2>2. {fitRestore} \ {NoWidth, span} \subseteq Nat
    BY DEF SizingTypeOK
  <2> QED BY <1>2, <2>1, <2>2
<1>3. CASE ~IsFitted(span, columns)
  <2>1. GtkFitStep = {[width |-> FitWidth(columns), restore |-> span]}
    BY <1>3 DEF GtkFitStep
  <2> QED BY <1>1, <2>1
<1> QED BY <1>2, <1>3

LEMMA GtkApplyFitKeeps ==
  ASSUME SizingTypeOK, span = normal, NEW steps \in SUBSET [width : Nat, restore : Nat \cup {NoWidth}], GtkApplyFit(steps)
  PROVE  /\ span' \in Widths /\ normal' = span' /\ fitRestore' \in Nat \cup {NoWidth}
         /\ steps # {} /\ ~Maximized => \E step \in steps : span' = AtLeastMinimum(step.width) /\ fitRestore' = step.restore
         /\ steps = {} \/ Maximized => span' = span /\ fitRestore' = fitRestore
BY LeastWidths DEF GtkApplyFit, SizingTypeOK

\* The columns' fit that a launch owes.
LEMMA GtkOwed ==
  ASSUME SizingTypeOK, ~IsFitted(span, columns)
  PROVE  /\ Keeping(GtkFitStep, openedAt) \in SUBSET [width : Nat, restore : Nat \cup {NoWidth}]
         /\ Keeping(GtkFitStep, openedAt) # {}
         /\ \A kept \in Keeping(GtkFitStep, openedAt) : kept.width = FitWidth(columns) /\ kept.restore = openedAt
<1>1. \A step \in GtkFitStep : [step EXCEPT !.restore = openedAt] = [width |-> step.width, restore |-> openedAt]
  BY GtkFitSteps
<1> QED BY <1>1, GtkFitSteps DEF Keeping, SizingTypeOK

LEMMA GtkSizingNextIInv == GtkSizingIInv /\ [GtkSizingNext]_gtkSizingVars => GtkSizingIInv'
<1> SUFFICES ASSUME GtkSizingIInv, [GtkSizingNext]_gtkSizingVars PROVE GtkSizingIInv'
  OBVIOUS
<1> USE DEF GtkSizingIInv
<1>1. CASE GtkOpen
  <2>1. /\ process' = "up" /\ turning' = TRUE /\ geometry' = disk /\ span' = AtLeastMinimum(disk.width) /\ normal' = span'
        /\ openedAt' = disk.width /\ fitRestore' = NoWidth /\ columns' = 0 /\ disk' = disk /\ ceiling' = ceiling
    BY <1>1 DEF GtkOpen
  <2> QED BY <2>1, LeastWidths DEF SizingTypeOK, RefitFollows, ClosedIsKept
<1>2. ASSUME NEW w \in Configured, GtkResize(w) PROVE GtkSizingIInv'
  BY <1>2, LeastWidths, ConfiguredAssumption DEF GtkResize, GtkHandled, GtkUp, SizingTypeOK, RefitFollows, ClosedIsKept
<1>3. CASE GtkMaximize
  BY <1>3 DEF GtkMaximize, GtkHandled, GtkUp, SizingTypeOK, RefitFollows, ClosedIsKept
<1>4. CASE GtkToggleFit
  <2>1. /\ process = "up" /\ turning' = TRUE /\ GtkApplyFit(GtkFitStep)
        /\ UNCHANGED <<process, ceiling, openedAt, geometry, disk, columns>>
    BY <1>4 DEF GtkToggleFit, GtkHandled, GtkUp
  <2>2. span' \in Widths /\ normal' = span' /\ fitRestore' \in Nat \cup {NoWidth}
    BY <2>1, GtkFitSteps, GtkApplyFitKeeps
  <2> QED BY <2>1, <2>2 DEF SizingTypeOK, RefitFollows, ClosedIsKept
<1>5. ASSUME NEW n \in Column, GtkStreamsMove(n) PROVE GtkSizingIInv'
  BY <1>5, ColumnAssumption DEF GtkStreamsMove, GtkHandled, GtkUp, SizingTypeOK, RefitFollows, ClosedIsKept
<1>6. ASSUME NEW n \in Column, GtkToggleColumns(n) PROVE GtkSizingIInv'
  <2> DEFINE follows == IsFitted(span, columns) /\ ~IsFitted(span, n)
             steps == IF follows THEN {[width |-> FitWidth(n), restore |-> fitRestore]} ELSE {}
  <2>1. /\ process = "up" /\ turning' = TRUE /\ columns' = n /\ GtkApplyFit(steps)
        /\ UNCHANGED <<process, ceiling, openedAt, geometry, disk>>
    BY <1>6 DEF GtkToggleColumns, GtkHandled, GtkUp
  <2>2. n \in Nat /\ FitWidth(n) \in Nat
    BY ColumnAssumption, FitWidths DEF SizingTypeOK, Widths
  <2>3. steps \in SUBSET [width : Nat, restore : Nat \cup {NoWidth}]
    BY <2>2 DEF SizingTypeOK
  <2>4. span' \in Widths /\ normal' = span' /\ fitRestore' \in Nat \cup {NoWidth}
    <3> HIDE DEF steps
    <3> QED BY <2>1, <2>3, GtkApplyFitKeeps
  <2> QED BY <2>1, <2>2, <2>4 DEF SizingTypeOK, RefitFollows, ClosedIsKept
<1>7. CASE GtkTickRefit
  <2> DEFINE rests == columns = 0 \/ IsFitted(span, columns)
             steps == IF rests THEN {} ELSE Keeping(GtkFitStep, openedAt)
  <2>1. /\ process = "up" /\ turning' = FALSE /\ GtkApplyFit(steps)
        /\ UNCHANGED <<process, ceiling, openedAt, geometry, disk, states, columns>>
    BY <1>7 DEF GtkTickRefit, GtkUp
  <2>2. steps \in SUBSET [width : Nat, restore : Nat \cup {NoWidth}]
    BY GtkOwed
  <2>3. /\ span' \in Widths /\ normal' = span' /\ fitRestore' \in Nat \cup {NoWidth}
        /\ steps # {} /\ ~Maximized => \E step \in steps : span' = AtLeastMinimum(step.width) /\ fitRestore' = step.restore
        /\ steps = {} \/ Maximized => span' = span /\ fitRestore' = fitRestore
    <3> HIDE DEF steps
    <3> QED BY <2>1, <2>2, GtkApplyFitKeeps
  <2>4. FitWidth(columns)' = FitWidth(columns) /\ CompositorSized' = CompositorSized /\ (Maximized => CompositorSized)
    BY <2>1 DEF FitWidth, CompositorSized, Maximized
  <2>5. RefitFollows'
    <3>1. CASE rests
      BY <2>1, <2>3, <2>4, <3>1 DEF RefitFollows, IsFitted
    <3>2. CASE ~rests /\ Maximized
      BY <2>4, <3>2 DEF RefitFollows
    <3>3. CASE ~rests /\ ~Maximized
      <4>1. span' = AtLeastMinimum(FitWidth(columns))
        BY <2>3, <3>3, GtkOwed
      <4>2. span' = FitWidth(columns)
        BY <4>1, FitWidths DEF SizingTypeOK
      <4> QED BY <2>4, <4>2 DEF RefitFollows, IsFitted
    <3> QED BY <3>1, <3>2, <3>3
  <2> QED BY <2>1, <2>3, <2>5 DEF SizingTypeOK, ClosedIsKept
<1>8. CASE GtkClose
  <2>1. /\ process' = "closed" /\ disk' = geometry'
        /\ geometry'.width = span /\ geometry'.fitted = IsFitted(span, columns)
        /\ UNCHANGED <<turning, span, normal, states, fitRestore, ceiling, columns, refit, openedAt>>
    BY <1>8 DEF GtkClose
  <2>2. ClosedIsKept'
    BY <2>1, LeastWidths DEF ClosedIsKept, SizingTypeOK, IsFitted, FitWidth
  <2> QED BY <2>1, <2>2 DEF SizingTypeOK, RefitFollows, Widths
<1>9. CASE GtkCrash
  BY <1>9 DEF GtkCrash, Crash, SizingTypeOK, RefitFollows, ClosedIsKept
<1>10. CASE UNCHANGED gtkSizingVars
  BY <1>10 DEF gtkSizingVars, sizingVars, SizingTypeOK, CompositorSized, RefitFollows, ClosedIsKept, IsFitted, FitWidth
<1> QED BY <1>1, <1>2, <1>3, <1>4, <1>5, <1>6, <1>7, <1>8, <1>9, <1>10 DEF GtkSizingNext

LEMMA GtkSizingInitIInv == GtkSizingInit => GtkSizingIInv
BY SizingInitIInv, ConfiguredAssumption DEF GtkSizingInit, GtkSizingIInv, SizingIInv, SizingInit

\* The same of GTK's window, each time the launch has looked at its columns.
THEOREM GtkRefitFollowsHolds == GtkSizingSpec => []RefitFollows
<1>1. GtkSizingIInv => RefitFollows
  BY DEF GtkSizingIInv
<1> QED BY <1>1, GtkSizingInitIInv, GtkSizingNextIInv, PTL DEF GtkSizingSpec

-----------------------------------------------------------------------------
(* The fit undone, in both windows (MCWindow).                             *)

\* Whose step it is, the native window's or GTK's.
WindowIInv == IF scene = "gtk" THEN GtkSizingIInv ELSE SizingIInv

\* A fit that stands goes back to the width it took over from.
FitRemembers == before # NoWidth => fitRestore # NoWidth /\ AtLeastMinimum(fitRestore) = before

SceneIInv == WindowIInv /\ FitRemembers

\* A press that fits keeps the width it takes over from; one that does not
\* changes nothing or forgets it.
LEMMA ToggleGoes ==
  ASSUME SizingIInv, ToggleFitWidth, fitRestore' # NoWidth
  PROVE  /\ span' # span => fitRestore' = span
         /\ span' = span => fitRestore' = fitRestore
<1> USE DEF SizingIInv
<1>1. ApplyFit(FitStep)
  BY DEF ToggleFitWidth
<1>2. CASE FitStep = {}
  BY <1>1, <1>2 DEF ApplyFit
<1>3. CASE FitStep # {}
  <2>1. PICK step \in FitStep : fitRestore' = step.restore /\ span' = step.width
    BY <1>1, <1>3 DEF ApplyFit
  <2>2. ~IsFitted(span, columns)
    BY <2>1 DEF FitStep
  <2>3. step = [width |-> FitWidth(columns), restore |-> span]
    BY <2>1, <2>2 DEF FitStep
  <2> QED BY <2>1, <2>2, <2>3 DEF IsFitted
<1> QED BY <1>2, <1>3

LEMMA GtkToggleGoes ==
  ASSUME GtkSizingIInv, GtkToggleFit, fitRestore' # NoWidth
  PROVE  /\ span' # span => fitRestore' = span
         /\ span' = span => fitRestore' = fitRestore
<1> USE DEF GtkSizingIInv
<1>1. GtkApplyFit(GtkFitStep)
  BY DEF GtkToggleFit
<1>2. CASE Maximized \/ GtkFitStep = {}
  BY <1>1, <1>2 DEF GtkApplyFit
<1>3. CASE ~(Maximized \/ GtkFitStep = {})
  <2>1. PICK step \in GtkFitStep : fitRestore' = step.restore /\ span' = AtLeastMinimum(step.width)
    BY <1>1, <1>3 DEF GtkApplyFit
  <2>2. ~IsFitted(span, columns)
    BY <2>1 DEF GtkFitStep
  <2>3. step = [width |-> FitWidth(columns), restore |-> span]
    BY <2>1, <2>2 DEF GtkFitStep
  <2>4. span' = FitWidth(columns)
    BY <2>1, <2>3, FitWidths DEF SizingTypeOK
  <2> QED BY <2>1, <2>2, <2>3, <2>4 DEF IsFitted
<1> QED BY <1>2, <1>3

\* The press on a fitted window.
LEMMA ToggleGivesBack ==
  ASSUME SizingIInv, FitRemembers, ToggleFitWidth, IsFitted(span, columns), ~CompositorSized, before # NoWidth
  PROVE  span' = before
<1> USE DEF SizingIInv
<1>1. fitRestore # NoWidth /\ fitRestore = before
  BY LeastWidths DEF FitRemembers, RestoresFit
<1>2. ApplyFit({[width |-> w, restore |-> NoWidth] : w \in {fitRestore} \ {NoWidth, span}})
  BY DEF ToggleFitWidth, FitStep
<1>3. CASE fitRestore = span
  BY <1>1, <1>2, <1>3 DEF ApplyFit
<1>4. CASE fitRestore # span
  <2>1. {[width |-> w, restore |-> NoWidth] : w \in {fitRestore} \ {NoWidth, span}} = {[width |-> fitRestore, restore |-> NoWidth]}
    BY <1>1, <1>4
  <2>2. ApplyFit({[width |-> fitRestore, restore |-> NoWidth]})
    BY <1>2, <2>1
  <2>3. PICK step \in {[width |-> fitRestore, restore |-> NoWidth]} : span' = step.width
    BY <2>2 DEF ApplyFit
  <2> QED BY <1>1, <2>3
<1> QED BY <1>3, <1>4

LEMMA GtkToggleGivesBack ==
  ASSUME GtkSizingIInv, FitRemembers, GtkToggleFit, IsFitted(span, columns), ~CompositorSized, before # NoWidth
  PROVE  span' = before
<1> USE DEF GtkSizingIInv
<1>1. fitRestore # NoWidth /\ AtLeastMinimum(fitRestore) = before /\ ~Maximized
  BY DEF FitRemembers, CompositorSized, Maximized
<1>2. GtkApplyFit({[width |-> w, restore |-> NoWidth] : w \in {fitRestore} \ {NoWidth, span}})
  BY DEF GtkToggleFit, GtkFitStep
<1>3. CASE fitRestore = span
  <2>1. span' = span
    BY <1>1, <1>2, <1>3 DEF GtkApplyFit
  <2> QED BY <1>1, <1>3, <2>1, LeastWidths DEF SizingTypeOK
<1>4. CASE fitRestore # span
  <2>1. {[width |-> w, restore |-> NoWidth] : w \in {fitRestore} \ {NoWidth, span}} = {[width |-> fitRestore, restore |-> NoWidth]}
    BY <1>1, <1>4
  <2>2. GtkApplyFit({[width |-> fitRestore, restore |-> NoWidth]})
    BY <1>2, <2>1
  <2>3. PICK step \in {[width |-> fitRestore, restore |-> NoWidth]} : span' = AtLeastMinimum(step.width)
    BY <1>1, <2>2 DEF GtkApplyFit
  <2> QED BY <1>1, <2>3
<1> QED BY <1>3, <1>4

\* The columns the user asks for leave the width to go back to alone.
LEMMA ColumnsKeepIt ==
  ASSUME NEW n \in Column, ToggleColumns(n) \/ GtkToggleColumns(n)
  PROVE  fitRestore' = fitRestore
BY DEF ToggleColumns, GtkToggleColumns, ApplyFit, GtkApplyFit

\* What else may fit the window is the launch, which goes back to the width it
\* opened at.
LEMMA LaunchFits ==
  ASSUME SizingIInv, NEW settled \in BOOLEAN, EndOfTurn(settled)
  PROVE  IF span' # span THEN fitRestore' = openedAt ELSE fitRestore' = fitRestore
<1> USE DEF SizingIInv
<1> DEFINE owed == refit' /\ columns # 0 /\ ~IsFitted(span, columns)
<1>1. ApplyFit(IF owed THEN Keeping(FitStep, openedAt) ELSE {})
  BY DEF EndOfTurn
<1>2. CASE ~owed \/ Keeping(FitStep, openedAt) = {}
  BY <1>1, <1>2 DEF ApplyFit
<1>3. CASE owed /\ Keeping(FitStep, openedAt) # {}
  <2>1. PICK kept \in Keeping(FitStep, openedAt) : fitRestore' = kept.restore /\ span' = kept.width
    BY <1>1, <1>3 DEF ApplyFit
  <2>2. PICK step \in FitStep : kept = [step EXCEPT !.restore = openedAt]
    BY <2>1 DEF Keeping
  <2>3. ~CompositorSized
    BY <2>2 DEF FitStep
  <2>4. step.width = FitWidth(columns) /\ step \in Steps
    BY <1>3, <2>2, <2>3, FitSteps
  <2>5. kept.width = step.width /\ kept.restore = openedAt
    BY <2>2, <2>4 DEF Steps
  <2> QED BY <1>3, <2>1, <2>4, <2>5 DEF IsFitted
<1> QED BY <1>2, <1>3

LEMMA GtkLaunchFits ==
  ASSUME GtkSizingIInv, GtkTickRefit
  PROVE  IF span' # span THEN fitRestore' = openedAt ELSE fitRestore' = fitRestore
<1> USE DEF GtkSizingIInv
<1> DEFINE rests == columns = 0 \/ IsFitted(span, columns)
<1>1. GtkApplyFit(IF rests THEN {} ELSE Keeping(GtkFitStep, openedAt))
  BY DEF GtkTickRefit
<1>2. CASE rests \/ Maximized
  BY <1>1, <1>2 DEF GtkApplyFit
<1>3. CASE ~rests /\ ~Maximized
  <2>1. PICK kept \in Keeping(GtkFitStep, openedAt) : fitRestore' = kept.restore /\ span' = AtLeastMinimum(kept.width)
    BY <1>1, <1>3, GtkOwed DEF GtkApplyFit
  <2>2. kept.width = FitWidth(columns) /\ kept.restore = openedAt
    BY <1>3, <2>1, GtkOwed
  <2>3. span' = FitWidth(columns)
    BY <2>1, <2>2, FitWidths DEF SizingTypeOK
  <2> QED BY <1>3, <2>1, <2>2, <2>3 DEF IsFitted
<1> QED BY <1>2, <1>3

LEMMA NativeStepRemembers ==
  ASSUME SizingIInv, FitRemembers, scene # "gtk", SizingNext, Lapses
  PROVE  FitRemembers'
<1>1. CASE ToggleFitWidth
  <2>1. before' = IF fitRestore' # NoWidth THEN (IF span' # span THEN span ELSE before) ELSE NoWidth
    BY <1>1 DEF Lapses, Toggled
  <2> QED BY <1>1, <2>1, ToggleGoes, LeastWidths DEF FitRemembers, SizingIInv, SizingTypeOK, AtLeastMinimum
<1>2. CASE ~ToggleFitWidth /\ \E n \in Column : ToggleColumns(n)
  BY <1>2, ColumnsKeepIt DEF Lapses, Toggled, FitRemembers, AtLeastMinimum
<1>3. CASE /\ ~ToggleFitWidth /\ ~\E n \in Column : ToggleColumns(n)
           /\ turning /\ ~turning' /\ process = process'
  <2>1. PICK settled \in BOOLEAN : EndOfTurn(settled)
    BY <1>3 DEF SizingNext, Open, ToplevelConfigure, ConfigureBounds, StreamsMove, Handled, SaveGeometry, CloseWindow, Crash
  <2>2. before' = IF span' # span THEN AtLeastMinimum(openedAt) ELSE before
    BY <1>3 DEF Lapses, Toggled
  <2> QED BY <2>1, <2>2, LaunchFits, UnboundedAssumption DEF FitRemembers, SizingIInv, SizingTypeOK, AtLeastMinimum
<1>4. CASE /\ ~ToggleFitWidth /\ ~\E n \in Column : ToggleColumns(n)
           /\ ~(turning /\ ~turning' /\ process = process')
  <2>1. before' = IF span' = span /\ columns' = columns /\ ceiling' = ceiling /\ process' = process THEN before ELSE NoWidth
    BY <1>4 DEF Lapses, Toggled
  <2>2. fitRestore' = fitRestore \/ process' # process
    BY <1>4 DEF SizingNext, Open, ToplevelConfigure, ConfigureBounds, StreamsMove, EndOfTurn, SaveGeometry, CloseWindow, Crash
  <2> QED BY <2>1, <2>2 DEF FitRemembers, AtLeastMinimum
<1> QED BY <1>1, <1>2, <1>3, <1>4

LEMMA GtkStepRemembers ==
  ASSUME GtkSizingIInv, FitRemembers, scene = "gtk", GtkSizingNext, Lapses
  PROVE  FitRemembers'
<1>1. CASE GtkToggleFit
  <2>1. before' = IF fitRestore' # NoWidth THEN (IF span' # span THEN span ELSE before) ELSE NoWidth
    BY <1>1 DEF Lapses, Toggled
  <2> QED BY <1>1, <2>1, GtkToggleGoes, LeastWidths DEF FitRemembers, GtkSizingIInv, SizingTypeOK, AtLeastMinimum
<1>2. CASE ~GtkToggleFit /\ \E n \in Column : GtkToggleColumns(n)
  BY <1>2, ColumnsKeepIt DEF Lapses, Toggled, FitRemembers, AtLeastMinimum
<1>3. CASE /\ ~GtkToggleFit /\ ~\E n \in Column : GtkToggleColumns(n)
           /\ turning /\ ~turning' /\ process = process'
  <2>1. GtkTickRefit
    BY <1>3 DEF GtkSizingNext, GtkOpen, GtkResize, GtkMaximize, GtkStreamsMove, GtkHandled, GtkClose, GtkCrash, Crash
  <2>2. before' = IF span' # span THEN AtLeastMinimum(openedAt) ELSE before
    BY <1>3 DEF Lapses, Toggled
  <2> QED BY <2>1, <2>2, GtkLaunchFits, UnboundedAssumption DEF FitRemembers, GtkSizingIInv, SizingTypeOK, AtLeastMinimum
<1>4. CASE /\ ~GtkToggleFit /\ ~\E n \in Column : GtkToggleColumns(n)
           /\ ~(turning /\ ~turning' /\ process = process')
  <2>1. before' = IF span' = span /\ columns' = columns /\ ceiling' = ceiling /\ process' = process THEN before ELSE NoWidth
    BY <1>4 DEF Lapses, Toggled
  <2>2. CASE GtkTickRefit
    BY <2>1, <2>2, GtkLaunchFits DEF FitRemembers, AtLeastMinimum
  <2>3. CASE ~GtkTickRefit
    <3>1. fitRestore' = fitRestore \/ process' # process
      BY <1>4, <2>3 DEF GtkSizingNext, GtkOpen, GtkResize, GtkMaximize, GtkStreamsMove, GtkHandled, GtkClose, GtkCrash, Crash
    <3> QED BY <2>1, <3>1 DEF FitRemembers, AtLeastMinimum
  <2> QED BY <2>2, <2>3
<1> QED BY <1>1, <1>2, <1>3, <1>4

LEMMA SceneInitIInv == SceneInit => SceneIInv
<1> SUFFICES ASSUME SceneInit
             PROVE  SceneIInv
  OBVIOUS
<1>1. GtkSizingInit /\ before = NoWidth
  BY Zenon DEF SceneInit
<1>2. SizingIInv /\ GtkSizingIInv
  BY <1>1, SizingInitIInv, GtkSizingInitIInv DEF GtkSizingInit
<1> QED BY <1>1, <1>2 DEF SceneIInv, WindowIInv, FitRemembers

LEMMA SceneNextIInv == SceneIInv /\ [SceneNext]_windowsVars => SceneIInv'
<1> SUFFICES ASSUME SceneIInv, [SceneNext]_windowsVars
             PROVE  SceneIInv'
  OBVIOUS
<1>1. CASE scene = "fits" /\ SizingNext /\ Lapses /\ UNCHANGED scene
  <2>1. SizingIInv /\ FitRemembers
    BY <1>1 DEF SceneIInv, WindowIInv
  <2>2. SizingIInv'
    BY <1>1, <2>1, SizingNextIInv
  <2>3. FitRemembers'
    BY <1>1, <2>1, NativeStepRemembers
  <2> QED BY <1>1, <2>2, <2>3 DEF SceneIInv, WindowIInv
<1>2. CASE scene = "gtk" /\ GtkSizingNext /\ Lapses /\ UNCHANGED scene
  <2>1. GtkSizingIInv /\ FitRemembers
    BY <1>2 DEF SceneIInv, WindowIInv
  <2>2. GtkSizingIInv'
    BY <1>2, <2>1, GtkSizingNextIInv
  <2>3. FitRemembers'
    BY <1>2, <2>1, GtkStepRemembers
  <2> QED BY <1>2, <2>2, <2>3 DEF SceneIInv, WindowIInv
<1>3. CASE UNCHANGED <<gtkSizingVars, before, scene>>
  <2>1. UNCHANGED sizingVars
    BY <1>3 DEF gtkSizingVars
  <2>2. SizingIInv => SizingIInv'
    BY <2>1, SizingNextIInv
  <2>3. GtkSizingIInv => GtkSizingIInv'
    BY <1>3, GtkSizingNextIInv
  <2>4. FitRemembers => FitRemembers'
    BY <1>3, <2>1 DEF sizingVars, FitRemembers, AtLeastMinimum
  <2> QED BY <1>3, <2>2, <2>3, <2>4 DEF SceneIInv, WindowIInv
<1>4. QED
  BY <1>1, <1>2, <1>3 DEF SceneNext, windowsVars

\* A press on a fitted window, a native one or GTK's, gives back the width the
\* fit took over from, and the launch after a clean exit opens at the width the
\* window was left at: "The toggle moved the columns, not the user's own idea of
\* how wide the window should be."
THEOREM WidthIsGivenBackHolds == SceneSpec => WidthIsGivenBack
<1> DEFINE Undone == Toggled /\ IsFitted(span, columns) /\ ~CompositorSized /\ before # NoWidth => span' = before
           Reopened == process = "closed" /\ process' = "up" => span' = normal /\ refit' = IsFitted(normal, columns)
<1>1. SceneIInv /\ [SceneNext]_windowsVars => [Undone]_windowsVars
  BY ToggleGivesBack, GtkToggleGivesBack DEF SceneIInv, WindowIInv, Toggled
<1>2. SceneIInv /\ [SceneNext]_windowsVars => [Reopened]_sizingVars
  <2> SUFFICES ASSUME SceneIInv, [SceneNext]_windowsVars, ~UNCHANGED sizingVars, process = "closed", process' = "up"
               PROVE  span' = normal /\ refit' = IsFitted(normal, columns)
    OBVIOUS
  <2>1. CASE scene = "fits" /\ SizingNext
    <3>1. Open
      BY <2>1 DEF SizingNext, ToplevelConfigure, ConfigureBounds, ToggleFitWidth, StreamsMove, ToggleColumns, Handled, EndOfTurn, SaveGeometry, CloseWindow, Crash
    <3> QED BY <2>1, <3>1 DEF SceneIInv, WindowIInv, SizingIInv, ClosedIsKept, Open
  <2>2. CASE scene = "gtk" /\ GtkSizingNext
    <3>1. GtkOpen
      BY <2>2 DEF GtkSizingNext, GtkResize, GtkMaximize, GtkToggleFit, GtkStreamsMove, GtkToggleColumns, GtkTickRefit, GtkHandled, GtkUp, GtkClose, GtkCrash, Crash
    <3> QED BY <2>2, <3>1 DEF SceneIInv, WindowIInv, GtkSizingIInv, ClosedIsKept, GtkOpen
  <2> QED BY <2>1, <2>2 DEF SceneNext, windowsVars, gtkSizingVars
<1> QED BY <1>1, <1>2, SceneInitIInv, SceneNextIInv, PTL DEF SceneSpec, WidthIsGivenBack, FitUndone, ReopensAsLeft

-----------------------------------------------------------------------------
(* The seat (Seat): what a request and an event may be, and what stands    *)
(* while they are on their way.                                            *)

Device == {"keyboard", "pointer", "device"}

\* What the client asks for.
Asked ==
  [op : {"get"}, arg : Device, fd : {Nil}, len : {1}]
  \cup [op : {"select", "destroy"}, arg : Nat, fd : {Nil}, len : {1}]
  \cup [op : {"destroy_offer"}, arg : Holder, fd : {Nil}, len : {1}]
  \cup [op : {"receive"}, arg : Holder, fd : {"pipe"}, len : {2}]
  \cup [op : {"shape"}, arg : Nat \X Shape, fd : {Nil}, len : {1}]
  \cup [op : {"draw"}, arg : {Nil}, fd : {Nil}, len : {2}]
  \cup [op : {"pool"}, arg : {Nil}, fd : {"pool"}, len : {2}]

\* What it is told.
Told ==
  [op : {"capabilities"}, arg : SUBSET Device, fd : {Nil}, len : {1}]
  \cup [op : {"keymap"}, arg : {Nil}, fd : {"keymap"} \X Nat, len : {2}]
  \cup [op : {"rate"}, arg : Nat, fd : {Nil}, len : {1}]
  \cup [op : {"key"}, arg : [code : Code, pressed : BOOLEAN], fd : {Nil}, len : {1}]
  \cup [op : {"leave"}, arg : {Nil}, fd : {Nil}, len : {1}]
  \cup [op : {"selection"}, arg : Holder \cup {Nil}, fd : {Nil}, len : {1}]
  \cup [op : {"send"}, arg : Nat, fd : {"send"} \X Nat, len : {2}]
  \cup [op : {"cancelled"}, arg : Nat, fd : {Nil}, len : {1}]
  \cup [op : {"pointer"}, arg : Nat \cup {Nil}, fd : {Nil}, len : {1}]

SeatTypeOK ==
  /\ requests \in Seq(Asked) /\ coming \in Seq(Told)
  /\ riding \in Seq(Descriptor) /\ fds \in Seq(Descriptor)
  /\ sent \in Nat /\ got \in Nat /\ copies \in Nat /\ strokes \in Nat
  /\ held_key \in [code : Code, due : BOOLEAN] \cup {Nil}
  /\ data_source \in Nat \cup {Nil}
  /\ selection_offer \in Holder \cup {Nil} /\ owner \in Holder \cup {Nil}
  /\ pointer_on \in Nat \cup {Nil} /\ pointer_serial \in Nat \cup {Nil}
  /\ stage \in {"asleep", "repeating", "reading", "handing", "pasting", "gone"}
  /\ back \in {"repeating", "reading"}

\* The last of s that is in M, if there is one, is in V.
LastIn(s, M, V) ==
  \A k \in 1..Len(s) : s[k] \in M /\ (\A j \in (k + 1)..Len(s) : s[j] \notin M) => s[k] \in V

Free(s, M) == Range(s) \cap M = {}

Saying(op) == {m \in Told : m.op = op}
Asking(op) == {r \in Asked : r.op = op}

OfKey(code) == {m \in Told : m.op = "leave" \/ (m.op = "key" /\ m.arg.code = code)}

IsDown(code) == focused /\ code \in down

\* The last event of a key on its way, or else the repeat that is armed, says
\* what the key does.
KeysStand ==
  \A code \in Code :
    /\ LastIn(coming, OfKey(code), {m \in Told : m.op = "key" /\ m.arg.pressed => IsDown(code)})
    /\ held_key # Nil /\ held_key.code = code /\ Free(coming, OfKey(code)) => IsDown(code)

\* The last word on its way, or else what the client has, is whose it is.
SelectionStands ==
  focused => /\ LastIn(coming, Saying("selection"), {m \in Told : m.arg = owner})
             /\ Free(coming, Saying("selection")) => selection_offer = owner

\* The same of the pointer.
PointerStands ==
  /\ LastIn(coming, Saying("pointer"), {m \in Told : m.arg = pointer_on})
  /\ Free(coming, Saying("pointer")) => /\ pointer_inside = (pointer_on # Nil)
                                        /\ pointer_on # Nil => pointer_serial = pointer_on

ShapesFor(serial) == {r \in Asked : r.op = "shape" /\ r.arg[1] = serial}

SerialsCounted ==
  /\ pointer_serial # Nil => pointer_serial <= strokes
  /\ pointer_on # Nil => pointer_on <= strokes
  /\ \A m \in Range(coming) : m.op = "pointer" /\ m.arg # Nil => m.arg <= strokes
  /\ \A r \in Range(requests) : r.op = "shape" => r.arg[1] <= strokes

\* The shape of a pointer the client knows of is the last one asked for; of
\* one it does not, none has been asked for.
ShapeStands ==
  pointer_on # Nil =>
    IF pointer_serial = pointer_on
    THEN /\ LastIn(requests, ShapesFor(pointer_on), {r \in Asked : r.arg[2] = cursor_shape})
         /\ Free(requests, ShapesFor(pointer_on)) => shape = cursor_shape
    ELSE shape = Nil /\ Free(requests, ShapesFor(pointer_on))

\* After an entry of a that is in A, those in M are in V.
Follows(s, A, M, V) == \A j, k \in 1..Len(s) : j < k /\ s[j] \in A /\ s[k] \in M => s[k] \in V

Pointing == {m \in Saying("pointer") : m.arg = pointer_on}

PointersFollow ==
  pointer_on # Nil => /\ Follows(coming, Pointing, Saying("pointer"), Pointing)
                      /\ pointer_serial = pointer_on => \A m \in Range(coming) : m.op = "pointer" => m.arg = pointer_on

\* The numbers the client's sources have got.
IsSource(holder) == holder # Nil /\ holder.by = "us"

SourcesCounted ==
  /\ data_source # Nil => data_source = copies
  /\ IsSource(owner) => owner.n <= copies
  /\ IsSource(selection_offer) => selection_offer.n <= copies
  /\ \A r \in Range(requests) : /\ r.op \in {"select", "destroy"} => r.arg <= copies
                                /\ r.op = "receive" /\ r.arg.by = "us" => r.arg.n <= copies
                                /\ r.op = "destroy" => r.arg # data_source
  /\ \A m \in Range(coming) : /\ m.op = "cancelled" => m.arg <= copies
                              /\ m.op = "selection" /\ IsSource(m.arg) => m.arg.n <= copies

Ascends(s, M) == \A j, k \in 1..Len(s) : j < k /\ s[j] \in M /\ s[k] \in M => s[j].arg < s[k].arg

\* Sources are put up in the order of their numbers, and one that was
\* replaced is older than what is to come.
SourcesOrdered ==
  /\ Ascends(requests, Asking("select"))
  /\ \A r \in Range(requests) : r.op = "select" /\ IsSource(owner) => owner.n < r.arg
  /\ \A m \in Range(coming) : m.op = "cancelled" =>
       /\ IsSource(owner) => m.arg < owner.n
       /\ \A r \in Range(requests) : r.op = "select" => m.arg < r.arg

\* The client's source is the owner's, or will be, or has been and it will
\* hear of it.
SourceStands ==
  IF data_source = Nil
  THEN ~IsSource(owner) /\ Free(requests, Asking("select"))
  ELSE \/ owner = Ours(data_source)
       \/ \E r \in Range(requests) : r.op = "select" /\ r.arg = data_source
       \/ \E m \in Range(coming) : m.op = "cancelled" /\ m.arg = data_source

\* A paste on its way is not for a source of the client that is or will be.
NoneWaits ==
  /\ ~self_wait
  /\ \A q \in Range(requests) : q.op = "receive" /\ q.arg.by = "us" =>
       owner # q.arg /\ \A r \in Range(requests) : r.op = "select" => r.arg # q.arg.n

\* No more has left or been read than there is.
Within == sent <= Units(requests) /\ got <= Units(coming)

\* A descriptor has not left, and never will once the shell is gone.
Holding == stage \in {"handing", "gone"}

Lasting == Holding =>
  requests # <<>> /\ Last(requests).fd # Nil /\ sent <= Units(requests) - Last(requests).len

\* Each of q goes with one of the messages of ms at K, in their order.
Pairs(spot, q, ms, K) ==
  /\ spot \in [1..Len(q) -> 1..Len(ms)]
  /\ \A i, j \in 1..Len(q) : i < j => spot[i] < spot[j]
  /\ {spot[i] : i \in 1..Len(q)} = K
  /\ \A i \in 1..Len(q) : q[i] = ms[spot[i]].fd

Meets(q, ms, K) == \E spot \in [1..Len(q) -> 1..Len(ms)] : Pairs(spot, q, ms, K)

\* The requests whose descriptor has left, and the events whose descriptor has come.
HandedOver == {k \in 1..Len(requests) : requests[k].fd # Nil /\ ~(Holding /\ k = Len(requests))}
Start(ms, k) == Units(SubSeq(ms, 1, k - 1))
Begun(upto) == {k \in 1..Len(coming) : coming[k].fd # Nil /\ Start(coming, k) < upto}

StreamsMeet ==
  ~strayed => /\ ~crossed
              /\ Meets(riding, requests, HandedOver)
              /\ Meets(fds, coming, Begun(got))

-----------------------------------------------------------------------------
(* How long messages are together. Units is a recursive function, and what *)
(* it computes is found by induction: a set of numbers that holds 0 and the*)
(* next of each holds all, for none of the rest would be the least.        *)

LEMMA LeastOf ==
  ASSUME NEW T \in SUBSET Nat, T # {}
  PROVE  \E x \in T : \A y \in T : x <= y
<1> DEFINE Less == OpToRel(<, Nat)
<1>1. IsWellFoundedOn(Less, Nat)
  BY NatLessThanWellFounded
<1>2. \A y, x \in Nat : y < x => <<y, x>> \in Less
  BY DEF OpToRel
<1> HIDE DEF Less
<1>3. PICK x \in T : \A y \in T : ~ (<<y, x>> \in Less)
  BY <1>1, WFMin
<1>4. \A y \in T : x <= y
  <2> TAKE y \in T
  <2>1. x \in Nat /\ y \in Nat
    OBVIOUS
  <2>2. ~ (y < x)
    BY <1>2, <1>3, <2>1
  <2> QED BY <2>1, <2>2
<1> QED BY <1>4

LEMMA Induction ==
  ASSUME NEW T \in SUBSET Nat, 0 \in T, \A n \in T : n + 1 \in T
  PROVE  \A n \in Nat : n \in T
<1>1. SUFFICES ASSUME Nat \ T # {} PROVE FALSE
  OBVIOUS
<1>2. PICK x \in Nat \ T : \A y \in Nat \ T : x <= y
  BY <1>1, LeastOf
<1>3. x - 1 \in T
  BY <1>2
<1> QED BY <1>2, <1>3

\* What messages come to, one after another.
IsTally(u, ms) ==
  /\ u \in [0..Len(ms) -> Nat] /\ u[0] = 0
  /\ \A k \in 1..Len(ms) : u[k] = u[k - 1] + ms[k].len

LEMMA TallyFields ==
  ASSUME NEW ms, Len(ms) \in Nat, NEW u, IsTally(u, ms)
  PROVE  /\ u[0] = 0 /\ \A k \in 0..Len(ms) : u[k] \in Nat
         /\ \A k \in 1..Len(ms) : u[k] = u[k - 1] + ms[k].len
BY DEF IsTally

LEMMA TallyOf ==
  ASSUME NEW ms, Len(ms) \in Nat, NEW u, u = [k \in 0..Len(ms) |-> u[k]],
         u[0] = 0, \A k \in 0..Len(ms) : u[k] \in Nat,
         \A k \in 1..Len(ms) : u[k] = u[k - 1] + ms[k].len
  PROVE  IsTally(u, ms)
BY DEF IsTally

\* The tally of the first n.
TalliesUpTo(u, ms, n) ==
  u \in [0..n -> Nat] /\ u[0] = 0 /\ \A k \in 1..n : u[k] = u[k - 1] + ms[k].len

LEMMA TallyGrows ==
  ASSUME NEW ms, NEW n \in Nat, NEW u, TalliesUpTo(u, ms, n), ms[n + 1].len \in Nat
  PROVE  \E v : TalliesUpTo(v, ms, n + 1)
<1> DEFINE v == [k \in 0..(n + 1) |-> IF k = n + 1 THEN u[n] + ms[n + 1].len ELSE u[k]]
<1>1. v \in [0..(n + 1) -> Nat] /\ v[0] = 0
  BY DEF TalliesUpTo
<1>2. ASSUME NEW k \in 1..(n + 1) PROVE v[k] = v[k - 1] + ms[k].len
  <2>1. k - 1 \in 0..n /\ k \in 0..(n + 1) /\ k - 1 \in 0..(n + 1) /\ k - 1 # n + 1
    OBVIOUS
  <2>2. v[k - 1] = u[k - 1]
    BY <2>1
  <2>3. CASE k = n + 1
    BY <2>1, <2>2, <2>3
  <2>4. CASE k # n + 1
    <3>1. k \in 1..n /\ v[k] = u[k]
      BY <2>1, <2>4
    <3> QED BY <2>2, <3>1 DEF TalliesUpTo
  <2> QED BY <2>3, <2>4
<1>3. TalliesUpTo(v, ms, n + 1)
  BY <1>1, <1>2 DEF TalliesUpTo
<1> QED BY <1>3

LEMMA TallyExists ==
  ASSUME NEW S, \A m \in S : m.len \in Nat, NEW ms \in Seq(S)
  PROVE  \E u : IsTally(u, ms)
<1> DEFINE T == {n \in Nat : n <= Len(ms) => \E u : TalliesUpTo(u, ms, n)}
<1>0. Len(ms) \in Nat /\ \A k \in 1..Len(ms) : ms[k].len \in Nat
  BY ElementOfSeq, LenProperties
<1>t. T \in SUBSET Nat /\ \A n \in Nat : n \in T <=> (n <= Len(ms) => \E u : TalliesUpTo(u, ms, n))
  OBVIOUS
<1>1. 0 \in T
  <2>1. TalliesUpTo([k \in 0..0 |-> 0], ms, 0)
    BY DEF TalliesUpTo
  <2> QED BY <2>1
<1> HIDE DEF T
<1>2. ASSUME NEW n \in T
      PROVE  n + 1 \in T
  <2>1. n \in Nat /\ n + 1 \in Nat
    BY <1>t
  <2>2. CASE ~(n + 1 <= Len(ms))
    BY <1>t, <2>1, <2>2
  <2>3. CASE n + 1 <= Len(ms)
    <3>1. n <= Len(ms) /\ n + 1 \in 1..Len(ms)
      BY <1>0, <2>1, <2>3
    <3>2. PICK u : TalliesUpTo(u, ms, n)
      BY <1>t, <2>1, <3>1
    <3>3. \E v : TalliesUpTo(v, ms, n + 1)
      BY <1>0, <2>1, <3>1, <3>2, TallyGrows
    <3> QED BY <1>t, <2>1, <3>3
  <2> QED BY <2>2, <2>3
<1>4. Len(ms) \in T
  BY <1>0, <1>1, <1>2, <1>t, Induction
<1>5. PICK u : TalliesUpTo(u, ms, Len(ms))
  BY <1>0, <1>t, <1>4
<1> QED BY <1>5 DEF IsTally, TalliesUpTo

LEMMA TallyIsUnits ==
  ASSUME NEW ms, Len(ms) \in Nat, NEW u, IsTally(u, ms)
  PROVE  Units(ms) = u[Len(ms)] /\ Units(ms) \in Nat
<1> DEFINE N == Len(ms)
           Eq(f) == f = [k \in 0..N |-> IF k = 0 THEN 0 ELSE f[k - 1] + ms[k].len]
           c == CHOOSE f : Eq(f)
<1>1. Eq(u)
  BY DEF IsTally
<1>2. Eq(c)
  BY <1>1
<1>3. Units(ms) = c[N]
  BY DEF Units
<1> HIDE DEF c
<1> DEFINE T == {n \in Nat : n <= N => c[n] = u[n]}
<1>4. 0 \in T
  BY <1>2 DEF IsTally
<1>5. ASSUME NEW n \in T PROVE n + 1 \in T
  <2>1. SUFFICES ASSUME n + 1 <= N PROVE c[n + 1] = u[n + 1]
    OBVIOUS
  <2>2. n \in Nat /\ c[n] = u[n]
    BY <2>1
  <2>3. c[n + 1] = c[n] + ms[n + 1].len
    BY <1>2, <2>1, <2>2
  <2>4. u[n + 1] = u[n] + ms[n + 1].len
    BY <2>1, <2>2 DEF IsTally
  <2> QED BY <2>2, <2>3, <2>4
<1>6. T \in SUBSET Nat
  OBVIOUS
<1> HIDE DEF T
<1>7. N \in T
  BY <1>4, <1>5, <1>6, Induction
<1> QED BY <1>3, <1>7 DEF T, IsTally

LEMMA UnitsOfConcat ==
  ASSUME NEW S, \A m \in S : m.len \in Nat, NEW ms \in Seq(S), NEW ns \in Seq(S)
  PROVE  Units(ms \o ns) = Units(ms) + Units(ns) /\ Units(ms) \in Nat /\ Units(ns) \in Nat
<1>3. Len(ms) \in Nat /\ Len(ns) \in Nat
  BY LenProperties
<1>a. PICK u : IsTally(u, ms)
  BY TallyExists
<1>b. PICK v : IsTally(v, ns)
  BY TallyExists
<1>1. /\ u[0] = 0 /\ \A k \in 0..Len(ms) : u[k] \in Nat
      /\ \A k \in 1..Len(ms) : u[k] = u[k - 1] + ms[k].len
  BY <1>3, <1>a, TallyFields
<1>2. /\ v[0] = 0 /\ \A k \in 0..Len(ns) : v[k] \in Nat
      /\ \A k \in 1..Len(ns) : v[k] = v[k - 1] + ns[k].len
  BY <1>3, <1>b, TallyFields
<1> DEFINE M == Len(ms)
           N == Len(ns)
           w == [k \in 0..(M + N) |-> IF k <= M THEN u[k] ELSE u[M] + v[k - M]]
<1>4. ms \o ns \in Seq(S) /\ Len(ms \o ns) = M + N
      /\ \A k \in 1..(M + N) : (ms \o ns)[k] = IF k <= M THEN ms[k] ELSE ns[k - M]
  BY ConcatProperties
<1>5. /\ w = [k \in 0..(M + N) |-> w[k]]
      /\ \A k \in 0..M : w[k] = u[k]
      /\ \A k \in 0..N : w[M + k] = u[M] + v[k]
  <2>1. w = [k \in 0..(M + N) |-> w[k]]
    OBVIOUS
  <2>2. \A k \in 0..M : w[k] = u[k]
    BY <1>3
  <2>3. ASSUME NEW k \in 0..N PROVE w[M + k] = u[M] + v[k]
    <3>1. M + k \in 0..(M + N)
      BY <1>3
    <3>2. CASE k = 0
      BY <1>1, <1>2, <1>3, <3>2
    <3>3. CASE k # 0
      <4>1. ~(M + k <= M) /\ M + k - M = k
        BY <1>3, <3>3
      <4> QED BY <3>1, <4>1
    <3> QED BY <3>2, <3>3
  <2> QED BY <2>1, <2>2, <2>3
<1> HIDE DEF w
<1>6. \A k \in 0..(M + N) : k \in 0..M \/ (k - M \in 0..N /\ k = M + (k - M))
  BY <1>3
<1>7. \A k \in 0..(M + N) : w[k] \in Nat
  <2> TAKE k \in 0..(M + N)
  <2>1. CASE k \in 0..M
    BY <1>1, <1>5, <2>1
  <2>2. CASE k - M \in 0..N /\ k = M + (k - M)
    <3>1. w[k] = u[M] + v[k - M]
      BY <1>5, <2>2
    <3>2. u[M] \in Nat /\ v[k - M] \in Nat
      BY <1>1, <1>2, <1>3, <2>2
    <3> QED BY <3>1, <3>2
  <2> QED BY <1>6, <2>1, <2>2
<1>8. ASSUME NEW k \in 1..(M + N) PROVE w[k] = w[k - 1] + (ms \o ns)[k].len
  <2>1. CASE k <= M
    <3>1. k \in 1..M /\ k \in 0..M /\ k - 1 \in 0..M
      BY <1>3, <2>1
    <3> QED BY <1>1, <1>4, <1>5, <2>1, <3>1
  <2>2. CASE ~(k <= M)
    <3> DEFINE j == k - M
    <3>1. j \in 1..N /\ j \in 0..N /\ j - 1 \in 0..N /\ k = M + j /\ k - 1 = M + (j - 1)
      BY <1>3, <2>2
    <3>2. (ms \o ns)[k] = ns[j]
      BY <1>4, <2>2
    <3>3. v[j] = v[j - 1] + ns[j].len /\ v[j - 1] \in Nat /\ u[M] \in Nat
      BY <1>1, <1>2, <1>3, <3>1
    <3>4. ns[j] \in S
      BY <3>1, ElementOfSeq
    <3> HIDE DEF j
    <3>5. w[k] = u[M] + v[j] /\ w[k - 1] = u[M] + v[j - 1]
      BY <1>5, <3>1
    <3>6. ns[j].len \in Nat
      BY <3>4
    <3> QED BY <3>2, <3>3, <3>5, <3>6
  <2> QED BY <2>1, <2>2
<1>9. IsTally(w, ms \o ns)
  <2>1. w[0] = 0
    <3>1. 0 \in 0..M
      BY <1>3
    <3> QED BY <1>1, <1>5, <3>1
  <2>2. Len(ms \o ns) \in Nat
    BY <1>3, <1>4
  <2> QED BY <1>4, <1>5, <1>7, <1>8, <2>1, <2>2, TallyOf
<1>10. w[M + N] = u[M] + v[N] /\ u[M] \in Nat /\ v[N] \in Nat /\ M + N \in Nat
  <2>1. M \in 0..M /\ N \in 0..N /\ M + N \in Nat
    BY <1>3
  <2> QED BY <1>1, <1>2, <1>5, <2>1
<1>11. Units(ms \o ns) = w[Len(ms \o ns)]
  BY <1>4, <1>9, <1>10, TallyIsUnits
<1>12. Units(ms) = u[M] /\ Units(ns) = v[N]
  BY <1>3, <1>a, <1>b, TallyIsUnits
<1> QED BY <1>4, <1>10, <1>11, <1>12

LEMMA UnitsOfFew ==
  /\ Units(<<>>) = 0
  /\ \A m : m.len \in Nat => Units(<<m>>) = m.len
<1>1. IsTally([k \in 0..0 |-> 0], <<>>)
  BY DEF IsTally
<1>2. Units(<<>>) = 0
  BY <1>1, TallyIsUnits
<1>3. ASSUME NEW m, m.len \in Nat PROVE Units(<<m>>) = m.len
  <2>1. IsTally([k \in 0..1 |-> IF k = 0 THEN 0 ELSE m.len], <<m>>)
    BY <1>3 DEF IsTally
  <2>2. Len(<<m>>) = 1
    OBVIOUS
  <2>3. Units(<<m>>) = [k \in 0..1 |-> IF k = 0 THEN 0 ELSE m.len][1]
    BY <2>1, <2>2, TallyIsUnits
  <2> QED BY <2>3
<1> QED BY <1>2, <1>3

LEMMA UnitsOfTail ==
  ASSUME NEW S, \A m \in S : m.len \in Nat, NEW ms \in Seq(S), ms # <<>>
  PROVE  Units(Tail(ms)) = Units(ms) - Head(ms).len /\ Head(ms) \in S /\ Tail(ms) \in Seq(S)
<1>1. Head(ms) \in S /\ Tail(ms) \in Seq(S)
  BY HeadTailProperties
<1>2. <<Head(ms)>> \in Seq(S) /\ ms = <<Head(ms)>> \o Tail(ms)
  BY <1>1
<1>3. Units(ms) = Units(<<Head(ms)>>) + Units(Tail(ms)) /\ Units(Tail(ms)) \in Nat
  BY <1>1, <1>2, UnitsOfConcat
<1>4. Units(<<Head(ms)>>) = Head(ms).len
  BY <1>1, UnitsOfFew
<1> QED BY <1>1, <1>3, <1>4

LEMMA UnitsOfPrefix ==
  ASSUME NEW S, \A m \in S : m.len \in Nat, NEW ms \in Seq(S), NEW u, IsTally(u, ms), NEW k \in 0..Len(ms)
  PROVE  Units(SubSeq(ms, 1, k)) = u[k]
<1>1. Len(ms) \in Nat /\ \A i \in 1..k : ms[i] \in S
  BY LenProperties, ElementOfSeq
<1>2. Len(SubSeq(ms, 1, k)) = k /\ \A i \in 1..k : SubSeq(ms, 1, k)[i] = ms[i]
  BY <1>1, SubSeqProperties
<1> DEFINE v == [i \in 0..k |-> u[i]]
<1>3. u[0] = 0 /\ (\A i \in 0..Len(ms) : u[i] \in Nat) /\ \A i \in 1..Len(ms) : u[i] = u[i - 1] + ms[i].len
  BY <1>1, TallyFields
<1>4. v = [i \in 0..k |-> v[i]] /\ \A i \in 0..k : v[i] = u[i]
  OBVIOUS
<1> HIDE DEF v
<1>5. \A i \in 1..k : v[i] = v[i - 1] + SubSeq(ms, 1, k)[i].len
  <2> TAKE i \in 1..k
  <2>1. i \in 0..k /\ i - 1 \in 0..k /\ i \in 1..Len(ms)
    BY <1>1
  <2> QED BY <1>2, <1>3, <1>4, <2>1
<1>6. IsTally(v, SubSeq(ms, 1, k))
  <2>1. v[0] = 0 /\ (\A i \in 0..k : v[i] \in Nat) /\ k \in Nat
    <3>1. 0 \in 0..k /\ k \in Nat /\ \A i \in 0..k : i \in 0..Len(ms)
      BY <1>1
    <3> QED BY <1>3, <1>4, <3>1
  <2> QED BY <1>2, <1>4, <1>5, <2>1, TallyOf, SMTT(30)
<1>7. k \in Nat /\ v[k] = u[k]
  BY <1>1, <1>4
<1>8. Units(SubSeq(ms, 1, k)) = v[Len(SubSeq(ms, 1, k))]
  BY <1>2, <1>6, <1>7, TallyIsUnits
<1> QED BY <1>2, <1>7, <1>8

LEMMA TallyAscends ==
  ASSUME NEW ms, Len(ms) \in Nat, NEW u, IsTally(u, ms), \A k \in 1..Len(ms) : ms[k].len \in Nat
  PROVE  \A i, j \in 0..Len(ms) : i <= j => u[i] <= u[j]
<1>1. /\ \A k \in 0..Len(ms) : u[k] \in Nat
      /\ \A k \in 1..Len(ms) : u[k] = u[k - 1] + ms[k].len
  BY TallyFields
<1> DEFINE T == {n \in Nat : \A i \in 0..Len(ms) : i + n <= Len(ms) => u[i] <= u[i + n]}
<1>t. T \in SUBSET Nat /\ \A n \in Nat : n \in T <=> \A i \in 0..Len(ms) : i + n <= Len(ms) => u[i] <= u[i + n]
  OBVIOUS
<1> HIDE DEF T
<1>2. 0 \in T
  <2>1. \A i \in 0..Len(ms) : u[i] <= u[i + 0]
    BY <1>1
  <2> QED BY <1>t, <2>1
<1>3. ASSUME NEW n \in T PROVE n + 1 \in T
  <2>1. n \in Nat /\ n + 1 \in Nat
    BY <1>t
  <2>2. ASSUME NEW i \in 0..Len(ms), i + (n + 1) <= Len(ms) PROVE u[i] <= u[i + (n + 1)]
    <3>1. i + n <= Len(ms) /\ i + n \in 0..Len(ms) /\ i + n + 1 \in 1..Len(ms) /\ i + n + 1 - 1 = i + n /\ i + (n + 1) = i + n + 1
      BY <2>1, <2>2
    <3>2. u[i] <= u[i + n]
      BY <1>t, <2>1, <3>1
    <3>3. u[i + n + 1] = u[i + n] + ms[i + n + 1].len /\ u[i + n] \in Nat /\ u[i] \in Nat /\ ms[i + n + 1].len \in Nat
      BY <1>1, <3>1
    <3> QED BY <3>1, <3>2, <3>3
  <2> QED BY <1>t, <2>1, <2>2
<1>4. \A n \in Nat : n \in T
  BY <1>2, <1>3, <1>t, Induction
<1>5. ASSUME NEW i \in 0..Len(ms), NEW j \in 0..Len(ms), i <= j PROVE u[i] <= u[j]
  <2>1. j - i \in Nat /\ i + (j - i) = j /\ i + (j - i) <= Len(ms)
    BY <1>5
  <2>2. j - i \in T
    BY <1>4, <2>1
  <2> QED BY <1>t, <2>1, <2>2
<1> QED BY <1>5

-----------------------------------------------------------------------------
(* Where a message starts.                                                 *)

LEMMA StartsAscend ==
  ASSUME NEW S, \A m \in S : m.len \in Nat, NEW ms \in Seq(S)
  PROVE  /\ \A k \in 1..Len(ms) : Start(ms, k) \in Nat /\ Start(ms, k) <= Units(ms)
         /\ \A j, k \in 1..Len(ms) : j <= k => Start(ms, j) <= Start(ms, k)
<1>1. Len(ms) \in Nat /\ \A k \in 1..Len(ms) : ms[k].len \in Nat
  BY LenProperties, ElementOfSeq
<1>2. PICK u : IsTally(u, ms)
  BY TallyExists
<1>3. \A k \in 0..Len(ms) : u[k] \in Nat
  BY <1>1, <1>2, TallyFields
<1>4. \A i, j \in 0..Len(ms) : i <= j => u[i] <= u[j]
  BY <1>1, <1>2, TallyAscends
<1>5. ASSUME NEW k \in 1..Len(ms) PROVE Start(ms, k) = u[k - 1] /\ k - 1 \in 0..Len(ms)
  <2>1. k - 1 \in 0..Len(ms)
    BY <1>1
  <2> QED BY <1>2, <2>1, UnitsOfPrefix DEF Start
<1>6. Units(ms) = u[Len(ms)] /\ Len(ms) \in 0..Len(ms)
  BY <1>1, <1>2, TallyIsUnits
<1>7. \A k \in 1..Len(ms) : Start(ms, k) \in Nat /\ Start(ms, k) <= Units(ms)
  BY <1>1, <1>3, <1>4, <1>5, <1>6
<1>8. ASSUME NEW j \in 1..Len(ms), NEW k \in 1..Len(ms), j <= k PROVE Start(ms, j) <= Start(ms, k)
  <2>1. j - 1 <= k - 1
    BY <1>1, <1>8
  <2> QED BY <1>4, <1>5, <2>1
<1> QED BY <1>7, <1>8

LEMMA StartOfFirst == \A ms : Start(ms, 1) = 0
<1> TAKE ms
<1> DEFINE n == 1 - 1
<1>1. n = 0
  OBVIOUS
<1>2. Start(ms, 1) = Units(SubSeq(ms, 1, n))
  BY DEF Start
<1> HIDE DEF n
<1>3. SubSeq(ms, 1, n) = <<>>
  BY <1>1, SubSeqEmpty
<1> QED BY <1>2, <1>3, UnitsOfFew

LEMMA StartInTail ==
  ASSUME NEW S, \A m \in S : m.len \in Nat, NEW ms \in Seq(S), ms # <<>>, NEW k \in 1..Len(Tail(ms))
  PROVE  Start(Tail(ms), k) = Start(ms, k + 1) - Head(ms).len
<1>1. /\ Tail(ms) \in Seq(S) /\ Len(Tail(ms)) = Len(ms) - 1 /\ Len(ms) \in Nat /\ Head(ms) \in S
      /\ \A i \in 1..Len(Tail(ms)) : Tail(ms)[i] = ms[i + 1]
  BY HeadTailProperties, LenProperties
<1>2. k \in 1..Len(ms) /\ 1 \in 1..Len(ms) /\ k - 1 \in 0..Len(Tail(ms)) /\ k - 1 \in Int /\ k \in Int /\ k \in 1..Len(ms)
  BY <1>1
<1>3. /\ SubSeq(ms, 1, k) \in Seq(S) /\ Len(SubSeq(ms, 1, k)) = k
      /\ \A i \in 1..k : SubSeq(ms, 1, k)[i] = ms[i]
  <2>1. \A i \in 1..k : ms[i] \in S
    BY <1>1, <1>2, ElementOfSeq
  <2>2. 1 <= k /\ k - 1 + 1 = k
    BY <1>2
  <2> QED BY <1>2, <2>1, <2>2, SubSeqProperties
<1>4. /\ SubSeq(Tail(ms), 1, k - 1) \in Seq(S) /\ Len(SubSeq(Tail(ms), 1, k - 1)) = k - 1
      /\ \A i \in 1..(k - 1) : SubSeq(Tail(ms), 1, k - 1)[i] = Tail(ms)[i]
  <2>1. \A i \in 1..(k - 1) : Tail(ms)[i] \in S
    <3> TAKE i \in 1..(k - 1)
    <3>1. i \in 1..Len(Tail(ms))
      BY <1>2
    <3> QED BY <1>1, <3>1, ElementOfSeq
  <2>2. Len(SubSeq(Tail(ms), 1, k - 1)) = IF 1 <= k - 1 THEN k - 1 - 1 + 1 ELSE 0
    BY <1>2, <2>1, SubSeqProperties
  <2>3. SubSeq(Tail(ms), 1, k - 1) \in Seq(S) /\ \A i \in 1..(k - 1 - 1 + 1) : SubSeq(Tail(ms), 1, k - 1)[i] = Tail(ms)[1 + i - 1]
    BY <1>2, <2>1, SubSeqProperties
  <2> QED BY <1>2, <2>2, <2>3
<1>5. SubSeq(ms, 1, k) # <<>> /\ Head(SubSeq(ms, 1, k)) = Head(ms)
  BY <1>1, <1>2, <1>3
<1>6. /\ Tail(SubSeq(ms, 1, k)) \in Seq(S) /\ Len(Tail(SubSeq(ms, 1, k))) = k - 1
      /\ \A i \in 1..(k - 1) : Tail(SubSeq(ms, 1, k))[i] = SubSeq(ms, 1, k)[i + 1]
  BY <1>3, <1>5, HeadTailProperties
<1>7. Tail(SubSeq(ms, 1, k)) = SubSeq(Tail(ms), 1, k - 1)
  <2>1. \A i \in 1..(k - 1) : Tail(SubSeq(ms, 1, k))[i] = SubSeq(Tail(ms), 1, k - 1)[i]
    <3> TAKE i \in 1..(k - 1)
    <3>1. i + 1 \in 1..k /\ i \in 1..Len(Tail(ms))
      BY <1>2
    <3> QED BY <1>1, <1>3, <1>4, <1>6, <3>1
  <2> QED BY <1>4, <1>6, <2>1, SeqEqual
<1>8. Units(Tail(SubSeq(ms, 1, k))) = Units(SubSeq(ms, 1, k)) - Head(SubSeq(ms, 1, k)).len
  BY <1>3, <1>5, UnitsOfTail
<1> DEFINE n == k + 1 - 1
<1>9. n = k
  BY <1>2
<1>10. Start(ms, k + 1) = Units(SubSeq(ms, 1, n)) /\ Start(Tail(ms), k) = Units(SubSeq(Tail(ms), 1, k - 1))
  BY DEF Start
<1> HIDE DEF n
<1> QED BY <1>5, <1>7, <1>8, <1>9, <1>10

LEMMA StartInConcat ==
  ASSUME NEW S, \A m \in S : m.len \in Nat, NEW ms \in Seq(S), NEW ns \in Seq(S)
  PROVE  /\ \A k \in 1..Len(ms) : Start(ms \o ns, k) = Start(ms, k)
         /\ \A k \in (Len(ms) + 1)..Len(ms \o ns) : Start(ms \o ns, k) >= Units(ms)
<1>1. /\ ms \o ns \in Seq(S) /\ Len(ms \o ns) = Len(ms) + Len(ns) /\ Len(ms) \in Nat /\ Len(ns) \in Nat
  BY ConcatProperties, LenProperties
<1>2. ASSUME NEW n \in 0..Len(ms) PROVE SubSeq(ms \o ns, 1, n) = SubSeq(ms, 1, n)
  <2>1. CASE n = 0
    BY <2>1, SubSeqEmpty
  <2>2. CASE n # 0
    <3>1. n \in 1..Len(ms) /\ 1 \in 1..Len(ms)
      BY <1>1, <2>2
    <3> QED BY <3>1, SubSeqOfConcat1
  <2> QED BY <2>1, <2>2
<1>3. ASSUME NEW k \in 1..Len(ms) PROVE Start(ms \o ns, k) = Start(ms, k)
  <2>1. k - 1 \in 0..Len(ms)
    BY <1>1
  <2> QED BY <1>2, <2>1 DEF Start
<1>4. ASSUME NEW k \in (Len(ms) + 1)..Len(ms \o ns) PROVE Start(ms \o ns, k) >= Units(ms)
  <2>1. Len(ms) + 1 \in 1..Len(ms \o ns) /\ k \in 1..Len(ms \o ns) /\ Len(ms) + 1 <= k /\ Len(ms) + 1 - 1 = Len(ms)
    BY <1>1
  <2>2. Start(ms \o ns, Len(ms) + 1) = Units(ms)
    <3>1. SubSeq(ms \o ns, 1, Len(ms)) = SubSeq(ms, 1, Len(ms)) /\ SubSeq(ms, 1, Len(ms)) = ms
      BY <1>1, <1>2, SubSeqFull
    <3> DEFINE n == Len(ms) + 1 - 1
    <3>2. n = Len(ms)
      BY <1>1
    <3>3. Start(ms \o ns, Len(ms) + 1) = Units(SubSeq(ms \o ns, 1, n))
      BY DEF Start
    <3> HIDE DEF n
    <3> QED BY <3>1, <3>2, <3>3
  <2>3. /\ Start(ms \o ns, Len(ms) + 1) <= Start(ms \o ns, k)
        /\ Start(ms \o ns, Len(ms) + 1) \in Nat /\ Start(ms \o ns, k) \in Nat
    BY <1>1, <2>1, StartsAscend
  <2> QED BY <2>2, <2>3
<1> QED BY <1>3, <1>4

-----------------------------------------------------------------------------
(* Sequences: what is in them, the last of a kind, and their order.        *)

LEMMA InRange ==
  ASSUME NEW S, NEW s \in Seq(S)
  PROVE  \A x \in Range(s) : x \in S
BY RangeEquality, ElementOfSeq

LEMMA RangeOfTail ==
  ASSUME NEW S, NEW s \in Seq(S), s # <<>>
  PROVE  Range(s) = {Head(s)} \cup Range(Tail(s)) /\ Head(s) \in S /\ Tail(s) \in Seq(S)
<1>1. Head(s) \in S /\ Tail(s) \in Seq(S)
  BY HeadTailProperties
<1>2. <<Head(s)>> \in Seq(S) /\ s = <<Head(s)>> \o Tail(s)
  BY <1>1
<1>3. Range(<<Head(s)>>) = {Head(s)}
  BY DEF Range
<1>4. Range(<<Head(s)>> \o Tail(s)) = Range(<<Head(s)>>) \cup Range(Tail(s))
  BY <1>1, <1>2, RangeConcatenation, ZenonT(40)
<1> QED BY <1>1, <1>2, <1>3, <1>4

LEMMA RangeOfAppend ==
  ASSUME NEW S, NEW s \in Seq(S), NEW e \in S
  PROVE  Range(Append(s, e)) = Range(s) \cup {e} /\ Append(s, e) \in Seq(S)
<1>1. <<e>> \in Seq(S) /\ Append(s, e) = s \o <<e>>
  BY AppendIsConcat
<1>2. Range(<<e>>) = {e}
  BY DEF Range
<1>3. Range(s \o <<e>>) = Range(s) \cup Range(<<e>>)
  BY <1>1, RangeConcatenation
<1> QED BY <1>1, <1>2, <1>3, AppendProperties

LEMMA ConcatAppend ==
  ASSUME NEW S, NEW q \in Seq(S), NEW s \in Seq(S), NEW e \in S
  PROVE  q \o Append(s, e) = Append(q \o s, e)
<1>1. <<e>> \in Seq(S) /\ Append(s, e) = s \o <<e>>
  BY AppendIsConcat
<1>2. q \o s \in Seq(S)
  BY ConcatProperties
<1>3. Append(q \o s, e) = (q \o s) \o <<e>>
  BY <1>2, AppendIsConcat
<1>4. (q \o s) \o <<e>> = q \o (s \o <<e>>)
  BY <1>1, ConcatAssociative
<1> QED BY <1>1, <1>3, <1>4

LEMMA RangeOfFew ==
  /\ Range(<<>>) = {}
  /\ \A e : Range(<<e>>) = {e}
  /\ \A e, f : Range(<<e, f>>) = {e, f}
BY DEF Range

LEMMA FreeOf ==
  ASSUME NEW S, NEW s \in Seq(S), NEW M
  PROVE  Free(s, M) <=> \A k \in 1..Len(s) : s[k] \notin M
<1>1. Range(s) = {s[k] : k \in 1..Len(s)}
  BY RangeEquality
<1> QED BY <1>1 DEF Free

LEMMA LastInTail ==
  ASSUME NEW S, NEW s \in Seq(S), s # <<>>, NEW M, NEW V, LastIn(s, M, V)
  PROVE  /\ LastIn(Tail(s), M, V)
         /\ Free(Tail(s), M) /\ Head(s) \in M => Head(s) \in V
         /\ Free(Tail(s), M) /\ Head(s) \notin M => Free(s, M)
<1>1. /\ Tail(s) \in Seq(S) /\ Len(Tail(s)) = Len(s) - 1 /\ Len(s) \in Nat /\ Len(s) > 0
      /\ \A i \in 1..Len(Tail(s)) : Tail(s)[i] = s[i + 1]
  BY HeadTailProperties, LenProperties, EmptySeq
<1>2. Head(s) = s[1]
  OBVIOUS
<1>3. LastIn(Tail(s), M, V)
  <2>1. SUFFICES ASSUME NEW k \in 1..Len(Tail(s)), Tail(s)[k] \in M,
                        \A j \in (k + 1)..Len(Tail(s)) : Tail(s)[j] \notin M
                 PROVE  Tail(s)[k] \in V
    BY DEF LastIn
  <2>2. k + 1 \in 1..Len(s) /\ Tail(s)[k] = s[k + 1]
    BY <1>1
  <2>3. ASSUME NEW j \in (k + 1 + 1)..Len(s) PROVE s[j] \notin M
    <3>1. j - 1 \in (k + 1)..Len(Tail(s)) /\ j - 1 \in 1..Len(Tail(s)) /\ j - 1 + 1 = j
      BY <1>1
    <3> QED BY <1>1, <2>1, <3>1
  <2> QED BY <2>1, <2>2, <2>3 DEF LastIn
<1>4. ASSUME Free(Tail(s), M), Head(s) \in M PROVE Head(s) \in V
  <2>1. ASSUME NEW j \in (1 + 1)..Len(s) PROVE s[j] \notin M
    <3>1. j - 1 \in 1..Len(Tail(s)) /\ j - 1 + 1 = j
      BY <1>1
    <3> QED BY <1>1, <1>4, <3>1, FreeOf
  <2>2. 1 \in 1..Len(s)
    BY <1>1
  <2> QED BY <1>2, <1>4, <2>1, <2>2 DEF LastIn
<1>5. ASSUME Free(Tail(s), M), Head(s) \notin M PROVE Free(s, M)
  BY <1>5, RangeOfTail DEF Free
<1> QED BY <1>3, <1>4, <1>5

LEMMA LastInConcat ==
  ASSUME NEW S, NEW s \in Seq(S), NEW e \in Seq(S), NEW M, NEW V
  PROVE  /\ Free(s \o e, M) <=> Free(s, M) /\ Free(e, M)
         /\ LastIn(e, M, V) /\ (Free(e, M) => LastIn(s, M, V)) => LastIn(s \o e, M, V)
<1>1. /\ s \o e \in Seq(S) /\ Len(s \o e) = Len(s) + Len(e) /\ Len(s) \in Nat /\ Len(e) \in Nat
      /\ \A i \in 1..(Len(s) + Len(e)) : (s \o e)[i] = IF i <= Len(s) THEN s[i] ELSE e[i - Len(s)]
  BY ConcatProperties, LenProperties
<1>2. Free(s \o e, M) <=> Free(s, M) /\ Free(e, M)
  BY RangeConcatenation DEF Free
<1>3. ASSUME LastIn(e, M, V), Free(e, M) => LastIn(s, M, V) PROVE LastIn(s \o e, M, V)
  <2>1. SUFFICES ASSUME NEW k \in 1..(Len(s) + Len(e)), (s \o e)[k] \in M,
                        \A j \in (k + 1)..(Len(s) + Len(e)) : (s \o e)[j] \notin M
                 PROVE  (s \o e)[k] \in V
    BY <1>1 DEF LastIn
  <2>2. CASE k <= Len(s)
    <3>1. ASSUME NEW j \in 1..Len(e) PROVE e[j] \notin M
      <4>1. /\ Len(s) + j \in (k + 1)..(Len(s) + Len(e)) /\ Len(s) + j \in 1..(Len(s) + Len(e))
            /\ ~(Len(s) + j <= Len(s)) /\ Len(s) + j - Len(s) = j
        BY <1>1, <2>2
      <4>2. (s \o e)[Len(s) + j] = e[j]
        BY <1>1, <4>1
      <4> QED BY <2>1, <4>1, <4>2
    <3>2. LastIn(s, M, V)
      BY <1>3, <3>1, FreeOf
    <3>3. k \in 1..Len(s) /\ s[k] \in M
      BY <1>1, <2>1, <2>2
    <3>4. ASSUME NEW j \in (k + 1)..Len(s) PROVE s[j] \notin M
      <4>1. j \in (k + 1)..(Len(s) + Len(e)) /\ j \in 1..(Len(s) + Len(e)) /\ j <= Len(s)
        BY <1>1
      <4> QED BY <1>1, <2>1, <4>1
    <3>5. s[k] \in V
      BY <3>2, <3>3, <3>4 DEF LastIn
    <3> QED BY <1>1, <2>2, <3>5
  <2>3. CASE ~(k <= Len(s))
    <3>1. k - Len(s) \in 1..Len(e) /\ (s \o e)[k] = e[k - Len(s)]
      BY <1>1, <2>3
    <3>2. ASSUME NEW j \in (k - Len(s) + 1)..Len(e) PROVE e[j] \notin M
      <4>1. /\ Len(s) + j \in (k + 1)..(Len(s) + Len(e)) /\ Len(s) + j \in 1..(Len(s) + Len(e))
            /\ ~(Len(s) + j <= Len(s)) /\ Len(s) + j - Len(s) = j
        BY <1>1, <3>1
      <4>2. (s \o e)[Len(s) + j] = e[j]
        BY <1>1, <4>1
      <4> QED BY <2>1, <4>1, <4>2
    <3> QED BY <1>3, <2>1, <3>1, <3>2 DEF LastIn
  <2> QED BY <2>2, <2>3
<1> QED BY <1>2, <1>3

LEMMA LastInOne == \A e, M, V : (e \in M => e \in V) => LastIn(<<e>>, M, V)
BY DEF LastIn

LEMMA LastInWider ==
  ASSUME NEW S, NEW s \in Seq(S), NEW M, NEW V, NEW W, LastIn(s, M, V), V \cap M \subseteq W
  PROVE  LastIn(s, M, W)
BY DEF LastIn

LEMMA LastInFree ==
  ASSUME NEW S, NEW s \in Seq(S), NEW M, NEW V, Free(s, M)
  PROVE  LastIn(s, M, V)
BY FreeOf DEF LastIn

LEMMA AscendsTail ==
  ASSUME NEW S, NEW s \in Seq(S), s # <<>>, NEW M, Ascends(s, M)
  PROVE  /\ Ascends(Tail(s), M)
         /\ Head(s) \in M => \A r \in Range(Tail(s)) : r \in M => Head(s).arg < r.arg
<1>1. /\ Tail(s) \in Seq(S) /\ Len(Tail(s)) = Len(s) - 1 /\ Len(s) \in Nat /\ Len(s) > 0
      /\ \A i \in 1..Len(Tail(s)) : Tail(s)[i] = s[i + 1]
  BY HeadTailProperties, LenProperties, EmptySeq
<1>2. Head(s) = s[1]
  OBVIOUS
<1>3. ASSUME NEW j \in 1..Len(Tail(s)), NEW k \in 1..Len(Tail(s)), j < k, Tail(s)[j] \in M, Tail(s)[k] \in M
      PROVE  Tail(s)[j].arg < Tail(s)[k].arg
  <2>1. j + 1 \in 1..Len(s) /\ k + 1 \in 1..Len(s) /\ j + 1 < k + 1
    BY <1>1, <1>3
  <2> QED BY <1>1, <1>3, <2>1 DEF Ascends
<1>4. ASSUME Head(s) \in M, NEW r \in Range(Tail(s)), r \in M PROVE Head(s).arg < r.arg
  <2>0. Range(Tail(s)) = {Tail(s)[k] : k \in 1..Len(Tail(s))}
    BY <1>1, RangeEquality
  <2>1. PICK k \in 1..Len(Tail(s)) : r = Tail(s)[k]
    BY <2>0
  <2>2. 1 \in 1..Len(s) /\ k + 1 \in 1..Len(s) /\ 1 < k + 1 /\ r = s[k + 1]
    BY <1>1, <2>1
  <2> QED BY <1>2, <1>4, <2>2 DEF Ascends
<1> QED BY <1>3, <1>4 DEF Ascends

LEMMA AscendsAppend ==
  ASSUME NEW S, NEW s \in Seq(S), NEW e \in S, NEW M, Ascends(s, M),
         e \in M => \A r \in Range(s) : r \in M => r.arg < e.arg
  PROVE  Ascends(Append(s, e), M)
<1>1. /\ Len(Append(s, e)) = Len(s) + 1 /\ Len(s) \in Nat
      /\ \A i \in 1..Len(s) : Append(s, e)[i] = s[i]
      /\ Append(s, e)[Len(s) + 1] = e
  BY AppendProperties, LenProperties
<1>2. ASSUME NEW j \in 1..(Len(s) + 1), NEW k \in 1..(Len(s) + 1), j < k, Append(s, e)[j] \in M, Append(s, e)[k] \in M
      PROVE  Append(s, e)[j].arg < Append(s, e)[k].arg
  <2>1. j \in 1..Len(s) /\ Append(s, e)[j] = s[j]
    BY <1>1, <1>2
  <2>2. CASE k \in 1..Len(s)
    BY <1>1, <1>2, <2>1, <2>2 DEF Ascends
  <2>3. CASE k = Len(s) + 1
    <3>1. s[j] \in Range(s)
      BY <2>1, RangeEquality
    <3>2. e \in M /\ s[j] \in M
      BY <1>1, <1>2, <2>1, <2>3
    <3> QED BY <1>1, <2>1, <2>3, <3>1, <3>2
  <2> QED BY <1>1, <2>2, <2>3
<1> QED BY <1>1, <1>2 DEF Ascends

LEMMA AscendsConcat ==
  ASSUME NEW S, NEW s \in Seq(S), NEW e \in Seq(S), NEW M, Ascends(s, M), Free(e, M)
  PROVE  Ascends(s \o e, M)
<1>1. /\ Len(s \o e) = Len(s) + Len(e) /\ Len(s) \in Nat /\ Len(e) \in Nat
      /\ \A i \in 1..(Len(s) + Len(e)) : (s \o e)[i] = IF i <= Len(s) THEN s[i] ELSE e[i - Len(s)]
  BY ConcatProperties, LenProperties
<1>2. ASSUME NEW j \in 1..(Len(s) + Len(e)), (s \o e)[j] \in M PROVE j \in 1..Len(s) /\ (s \o e)[j] = s[j]
  <2>1. CASE j <= Len(s)
    BY <1>1, <2>1
  <2>2. CASE ~(j <= Len(s))
    <3>1. j - Len(s) \in 1..Len(e) /\ (s \o e)[j] = e[j - Len(s)]
      BY <1>1, <2>2
    <3> QED BY <1>2, <3>1, FreeOf
  <2> QED BY <2>1, <2>2
<1> QED BY <1>1, <1>2 DEF Ascends

-----------------------------------------------------------------------------
(* Descriptors beside messages, each with its own.                         *)

LEMMA MeetsAppend ==
  ASSUME NEW Q, NEW q \in Seq(Q), NEW S, NEW ms \in Seq(S), NEW K, Meets(q, ms, K),
         NEW n \in 1..Len(ms), \A k \in K : k < n, ms[n].fd \in Q
  PROVE  Meets(Append(q, ms[n].fd), ms, K \cup {n})
<1>1. PICK spot \in [1..Len(q) -> 1..Len(ms)] :
        /\ \A i, j \in 1..Len(q) : i < j => spot[i] < spot[j]
        /\ {spot[i] : i \in 1..Len(q)} = K
        /\ \A i \in 1..Len(q) : q[i] = ms[spot[i]].fd
  BY DEF Meets, Pairs
<1> DEFINE N == Len(q)
           r == Append(q, ms[n].fd)
           to == [i \in 1..(N + 1) |-> IF i = N + 1 THEN n ELSE spot[i]]
<1>2. N \in Nat /\ Len(r) = N + 1 /\ (\A i \in 1..N : r[i] = q[i]) /\ r[N + 1] = ms[n].fd
  BY AppendProperties, LenProperties
<1>3. /\ to \in [1..(N + 1) -> 1..Len(ms)] /\ to[N + 1] = n
      /\ \A i \in 1..N : i \in 1..(N + 1) /\ to[i] = spot[i] /\ spot[i] \in K
  BY <1>1, <1>2
<1>4. \A i \in 1..(N + 1) : i \in 1..N \/ i = N + 1
  BY <1>2
<1> HIDE DEF to, r
<1>5. \A i, j \in 1..(N + 1) : i < j => to[i] < to[j]
  <2> TAKE i, j \in 1..(N + 1)
  <2>1. HAVE i < j
  <2>2. i \in 1..N
    BY <1>2, <2>1
  <2>3. CASE j \in 1..N
    BY <1>1, <1>3, <2>1, <2>2, <2>3
  <2>4. CASE j = N + 1
    BY <1>3, <2>2, <2>4
  <2> QED BY <1>4, <2>3, <2>4
<1>6. {to[i] : i \in 1..(N + 1)} = K \cup {n}
  <2>1. \A i \in 1..(N + 1) : to[i] \in K \cup {n}
    BY <1>3, <1>4
  <2>2. \A k \in K : \E i \in 1..(N + 1) : to[i] = k
    BY <1>1, <1>3
  <2>3. N + 1 \in 1..(N + 1)
    BY <1>2
  <2> QED BY <1>3, <2>1, <2>2, <2>3
<1>7. \A i \in 1..(N + 1) : r[i] = ms[to[i]].fd
  BY <1>1, <1>2, <1>3, <1>4
<1>8. Pairs(to, r, ms, K \cup {n})
  BY <1>2, <1>3, <1>5, <1>6, <1>7 DEF Pairs
<1>9. Meets(r, ms, K \cup {n})
  BY <1>2, <1>3, <1>8 DEF Meets
<1> QED BY <1>9 DEF r

LEMMA MeetsTail ==
  ASSUME NEW Q, NEW q \in Seq(Q), NEW S, NEW ms \in Seq(S), NEW K, Meets(q, ms, K),
         NEW n \in K, \A k \in K : n <= k
  PROVE  q # <<>> /\ Head(q) = ms[n].fd /\ Meets(Tail(q), ms, K \ {n})
<1>1. PICK spot \in [1..Len(q) -> 1..Len(ms)] :
        /\ \A i, j \in 1..Len(q) : i < j => spot[i] < spot[j]
        /\ {spot[i] : i \in 1..Len(q)} = K
        /\ \A i \in 1..Len(q) : q[i] = ms[spot[i]].fd
  BY DEF Meets, Pairs
<1>2. PICK m \in 1..Len(q) : spot[m] = n
  BY <1>1
<1>3. Len(q) \in Nat /\ Len(q) > 0 /\ q # <<>> /\ 1 \in 1..Len(q) /\ Len(ms) \in Nat
  BY <1>2, LenProperties
<1>4. m = 1
  <2>1. spot[1] \in K /\ spot[1] \in Nat /\ n \in Nat
    BY <1>1, <1>2, <1>3, SMTT(30)
  <2>2. ~(spot[1] < n)
    BY <2>1
  <2> QED BY <1>1, <1>2, <1>3, <2>2
<1>5. Head(q) = ms[n].fd
  BY <1>1, <1>2, <1>3, <1>4
<1>6. Tail(q) \in Seq(Q) /\ Len(Tail(q)) = Len(q) - 1 /\ \A i \in 1..Len(Tail(q)) : Tail(q)[i] = q[i + 1]
  BY <1>3, HeadTailProperties
<1> DEFINE N == Len(Tail(q))
           to == [i \in 1..N |-> spot[i + 1]]
<1>7. \A i \in 1..N : i + 1 \in 1..Len(q) /\ i + 1 > 1
  BY <1>3, <1>6
<1>8. to \in [1..N -> 1..Len(ms)] /\ \A i \in 1..N : to[i] = spot[i + 1]
  BY <1>7
<1> HIDE DEF to
<1>9. \A i, j \in 1..N : i < j => to[i] < to[j]
  BY <1>1, <1>7, <1>8
<1>10. {to[i] : i \in 1..N} = K \ {n}
  <2>1. \A i \in 1..N : to[i] \in K \ {n}
    <3> TAKE i \in 1..N
    <3>0. i + 1 \in 1..Len(q) /\ 1 < i + 1
      BY <1>7
    <3>1. spot[1] < spot[i + 1] /\ spot[i + 1] \in K /\ spot[i + 1] \in Nat /\ spot[1] \in Nat
      BY <1>1, <1>3, <3>0
    <3> QED BY <1>2, <1>4, <1>8, <3>1
  <2>2. ASSUME NEW k \in K \ {n} PROVE \E i \in 1..N : to[i] = k
    <3>1. PICK j \in 1..Len(q) : spot[j] = k
      BY <1>1
    <3>2. j # 1
      BY <1>2, <1>4, <3>1
    <3>3. j - 1 \in 1..N /\ j - 1 + 1 = j
      BY <1>3, <1>6, <3>2
    <3> QED BY <1>8, <3>1, <3>3
  <2> QED BY <2>1, <2>2
<1>11. \A i \in 1..N : Tail(q)[i] = ms[to[i]].fd
  BY <1>1, <1>6, <1>7, <1>8
<1>12. Pairs(to, Tail(q), ms, K \ {n})
  BY <1>8, <1>9, <1>10, <1>11 DEF Pairs
<1> QED BY <1>3, <1>5, <1>8, <1>12 DEF Meets

LEMMA MeetsShift ==
  ASSUME NEW Q, NEW q \in Seq(Q), NEW S, NEW ms \in Seq(S), ms # <<>>, NEW K, Meets(q, ms, K), 1 \notin K,
         NEW L, L = {k \in 1..Len(Tail(ms)) : k + 1 \in K}
  PROVE  Meets(q, Tail(ms), L)
<1>1. PICK spot \in [1..Len(q) -> 1..Len(ms)] :
        /\ \A i, j \in 1..Len(q) : i < j => spot[i] < spot[j]
        /\ {spot[i] : i \in 1..Len(q)} = K
        /\ \A i \in 1..Len(q) : q[i] = ms[spot[i]].fd
  BY DEF Meets, Pairs
<1>2. /\ Len(Tail(ms)) = Len(ms) - 1 /\ Len(ms) \in Nat
      /\ \A i \in 1..Len(Tail(ms)) : Tail(ms)[i] = ms[i + 1]
  BY HeadTailProperties, LenProperties
<1> DEFINE to == [i \in 1..Len(q) |-> spot[i] - 1]
<1>3. \A i \in 1..Len(q) : spot[i] \in K /\ spot[i] \in 1..Len(ms) /\ spot[i] # 1
  BY <1>1
<1>4. \A i \in 1..Len(q) : spot[i] - 1 \in 1..Len(Tail(ms)) /\ spot[i] - 1 + 1 = spot[i]
  BY <1>2, <1>3
<1>5. to \in [1..Len(q) -> 1..Len(Tail(ms))] /\ \A i \in 1..Len(q) : to[i] = spot[i] - 1
  BY <1>4
<1> HIDE DEF to
<1>6. \A i, j \in 1..Len(q) : i < j => to[i] < to[j]
  BY <1>1, <1>3, <1>5
<1>7. {to[i] : i \in 1..Len(q)} = L
  <2>1. \A i \in 1..Len(q) : to[i] \in L
    BY <1>3, <1>4, <1>5
  <2>2. ASSUME NEW k \in L PROVE \E i \in 1..Len(q) : to[i] = k
    <3>1. k + 1 \in K /\ k \in Nat
      OBVIOUS
    <3>2. PICK i \in 1..Len(q) : spot[i] = k + 1
      BY <1>1, <3>1
    <3> QED BY <1>5, <3>1, <3>2
  <2> QED BY <2>1, <2>2
<1>8. \A i \in 1..Len(q) : q[i] = Tail(ms)[to[i]].fd
  BY <1>1, <1>2, <1>4, <1>5
<1>9. Pairs(to, q, Tail(ms), L)
  BY <1>5, <1>6, <1>7, <1>8 DEF Pairs
<1> QED BY <1>5, <1>9 DEF Meets

LEMMA MeetsLonger ==
  ASSUME NEW q, NEW S, NEW ms \in Seq(S), NEW ns \in Seq(S), NEW K, Meets(q, ms, K)
  PROVE  Meets(q, ms \o ns, K)
<1>1. PICK spot \in [1..Len(q) -> 1..Len(ms)] :
        /\ \A i, j \in 1..Len(q) : i < j => spot[i] < spot[j]
        /\ {spot[i] : i \in 1..Len(q)} = K
        /\ \A i \in 1..Len(q) : q[i] = ms[spot[i]].fd
  BY DEF Meets, Pairs
<1>2. /\ Len(ms \o ns) = Len(ms) + Len(ns) /\ Len(ms) \in Nat /\ Len(ns) \in Nat
      /\ \A i \in 1..(Len(ms) + Len(ns)) : (ms \o ns)[i] = IF i <= Len(ms) THEN ms[i] ELSE ns[i - Len(ms)]
  BY ConcatProperties, LenProperties
<1>3. \A k \in 1..Len(ms) : k \in 1..Len(ms \o ns) /\ (ms \o ns)[k] = ms[k]
  BY <1>2
<1>4. spot \in [1..Len(q) -> 1..Len(ms \o ns)] /\ \A i \in 1..Len(q) : q[i] = (ms \o ns)[spot[i]].fd
  BY <1>1, <1>3
<1>5. Pairs(spot, q, ms \o ns, K)
  BY <1>1, <1>4 DEF Pairs
<1> QED BY <1>4, <1>5 DEF Meets

LEMMA MeetsNone == \A ms : Meets(<<>>, ms, {})
<1> TAKE ms
<1> DEFINE spot == [i \in 1..0 |-> i]
<1>1. spot \in [1..Len(<<>>) -> 1..Len(ms)] /\ Len(<<>>) = 0
  OBVIOUS
<1>2. Pairs(spot, <<>>, ms, {})
  BY <1>1 DEF Pairs
<1> QED BY <1>1, <1>2 DEF Meets

-----------------------------------------------------------------------------
(* The kinds of requests and events.                                       *)

LEMMA NilApart ==
  /\ Nil \notin Nat /\ Nil \notin Shape /\ Nil \notin Holder /\ Nil \notin Descriptor
  /\ Nil # "pipe" /\ Nil # "pool"
BY NilAssumption DEF Descriptor

LEMMA AskedFields ==
  ASSUME NEW r \in Asked
  PROVE  /\ r.len \in Nat /\ r.len > 0 /\ r.fd \in Descriptor \cup {Nil}
         /\ r.op \in {"get", "select", "destroy", "destroy_offer", "receive", "shape", "draw", "pool"}
         /\ r.op \in {"select", "destroy"} => r.arg \in Nat
         /\ r.op = "receive" => r.arg \in Holder
         /\ r.op = "shape" => r.arg[1] \in Nat /\ r.arg[2] \in Shape
         /\ r.op \in {"receive", "pool"} <=> r.fd # Nil
         /\ r.fd # Nil => r.len = 2
BY NilApart DEF Asked, Descriptor

LEMMA ToldFields ==
  ASSUME NEW m \in Told
  PROVE  /\ m.len \in Nat /\ m.len > 0 /\ m.fd \in Descriptor \cup {Nil}
         /\ m.op = "capabilities" => m.arg \subseteq Device
         /\ m.op = "key" => m.arg.code \in Code /\ m.arg.pressed \in BOOLEAN
         /\ m.op = "selection" => m.arg \in Holder \cup {Nil}
         /\ m.op \in {"send", "cancelled"} => m.arg \in Nat
         /\ m.op = "pointer" => m.arg \in Nat \cup {Nil}
         /\ m.op \in {"keymap", "send"} <=> m.fd # Nil
BY NilApart DEF Told, Descriptor

LEMMA Requests ==
  /\ \A d \in Device : Request("get", d, Nil) \in Asked
  /\ \A n \in Nat : Request("select", n, Nil) \in Asked /\ Request("destroy", n, Nil) \in Asked
  /\ \A h \in Holder : Request("destroy_offer", h, Nil) \in Asked /\ Request("receive", h, "pipe") \in Asked
  /\ \A n \in Nat, s \in Shape : Request("shape", <<n, s>>, Nil) \in Asked
  /\ Request("draw", Nil, Nil) \in Asked /\ Request("pool", Nil, "pool") \in Asked
BY NilApart DEF Request, Asked

LEMMA Events ==
  /\ \A n \in Nat : Sending("keymap", Nil, <<"keymap", n>>) \in Told /\ Sending("rate", n, Nil) \in Told
  /\ \A code \in Code, p \in BOOLEAN : Sending("key", [code |-> code, pressed |-> p], Nil) \in Told
  /\ Sending("leave", Nil, Nil) \in Told
  /\ \A h \in Holder \cup {Nil} : Sending("selection", h, Nil) \in Told
  /\ \A n \in Nat : Sending("send", n, <<"send", n>>) \in Told /\ Sending("cancelled", n, Nil) \in Told
  /\ \A n \in Nat, k \in Nat : Sending("send", n, <<"send", k>>) \in Told
  /\ \A n \in Nat \cup {Nil} : Sending("pointer", n, Nil) \in Told
  /\ \A caps \in SUBSET Device : Sending("capabilities", caps, Nil) \in Told
<1>1. \A n \in Nat : <<"keymap", n>> # Nil /\ <<"send", n>> # Nil
  BY NilApart DEF Descriptor
<1> QED BY <1>1, NilApart DEF Sending, Told

LEMMA Holders == \A n \in Nat : Ours(n) \in Holder /\ Theirs(n) \in Holder /\ Ours(n) # Nil /\ Theirs(n) # Nil
BY NilApart DEF Ours, Theirs, Holder

LEMMA SetToSeqIsSeq ==
  ASSUME NEW S, IsFiniteSet(S)
  PROVE  SetToSeq(S) \in Seq(S)
<1>1. Cardinality(S) \in Nat /\ ExistsBijection(1..Cardinality(S), S)
  BY FS_CardinalityType
<1>2. PICK f \in [1..Cardinality(S) -> S] : IsInjective(f)
  BY <1>1 DEF ExistsBijection, Bijection, Injection, IsInjective
<1>3. SetToSeq(S) \in [1..Cardinality(S) -> S]
  BY <1>2 DEF SetToSeq
<1> QED BY <1>1, <1>3, SeqDef

Gets == {Request("get", d, Nil) : d \in Device}

LEMMA GetsAreAsked ==
  ASSUME NEW D \in SUBSET Device
  PROVE  SetToSeq({Request("get", d, Nil) : d \in D}) \in Seq(Gets)
<1> DEFINE S == {Request("get", d, Nil) : d \in D}
<1>1. IsFiniteSet(Device)
  <2>1. IsFiniteSet({}) /\ IsFiniteSet({"keyboard"})
    BY FS_EmptySet, FS_Singleton
  <2>2. IsFiniteSet({"keyboard"} \cup {"pointer"})
    BY <2>1, FS_AddElement
  <2>3. IsFiniteSet(({"keyboard"} \cup {"pointer"}) \cup {"device"})
    BY <2>2, FS_AddElement
  <2>4. Device = ({"keyboard"} \cup {"pointer"}) \cup {"device"}
    BY DEF Device
  <2> QED BY <2>3, <2>4
<1>2. IsFiniteSet(S)
  <2>1. IsFiniteSet(D)
    BY <1>1, FS_Subset
  <2>2. [d \in D |-> Request("get", d, Nil)] \in Surjection(D, S)
    BY DEF Surjection
  <2> QED BY <2>1, <2>2, FS_Surjection
<1>3. S \subseteq Gets
  BY DEF Gets
<1> HIDE DEF S
<1>4. SetToSeq(S) \in Seq(S)
  BY <1>2, SetToSeqIsSeq
<1>5. SetToSeq(S) \in Seq(Gets)
  BY <1>3, <1>4, SeqMonotonic
<1> QED BY <1>5 DEF S

LEMMA GetsAreGets == \A r \in Gets : r \in Asked /\ r.op = "get" /\ r.fd = Nil /\ r.len = 1
BY Requests, NilApart DEF Gets, Request

\* The requests asked for, and their lengths.
LEMMA RequestUnits ==
  /\ \A rs \in Seq(Asked) : Units(rs) \in Nat
  /\ \A rs \in Seq(Asked), qs \in Seq(Asked) : Units(rs \o qs) = Units(rs) + Units(qs)
  /\ \A rs \in Seq(Asked), r \in Asked : Append(rs, r) \in Seq(Asked) /\ Units(Append(rs, r)) = Units(rs) + r.len
  /\ \A rs \in Seq(Asked) : rs # <<>> =>
       Head(rs) \in Asked /\ Tail(rs) \in Seq(Asked) /\ Units(Tail(rs)) = Units(rs) - Head(rs).len
<1>1. \A r \in Asked : r.len \in Nat
  BY AskedFields
<1>2. ASSUME NEW rs \in Seq(Asked), NEW qs \in Seq(Asked) PROVE Units(rs \o qs) = Units(rs) + Units(qs) /\ Units(rs) \in Nat
  BY <1>1, UnitsOfConcat
<1>3. ASSUME NEW rs \in Seq(Asked), NEW r \in Asked
      PROVE  Append(rs, r) \in Seq(Asked) /\ Units(Append(rs, r)) = Units(rs) + r.len
  <2>1. <<r>> \in Seq(Asked) /\ Append(rs, r) = rs \o <<r>>
    BY AppendIsConcat
  <2>2. Append(rs, r) \in Seq(Asked)
    BY AppendProperties
  <2>3. Units(rs \o <<r>>) = Units(rs) + Units(<<r>>)
    BY <1>2, <2>1
  <2>4. Units(<<r>>) = r.len
    BY <1>1, UnitsOfFew
  <2> QED BY <2>1, <2>2, <2>3, <2>4
<1>4. ASSUME NEW rs \in Seq(Asked), rs # <<>>
      PROVE  Head(rs) \in Asked /\ Tail(rs) \in Seq(Asked) /\ Units(Tail(rs)) = Units(rs) - Head(rs).len
  BY <1>1, <1>4, UnitsOfTail
<1> QED BY <1>2, <1>3, <1>4

LEMMA EventUnits ==
  /\ \A ms \in Seq(Told) : Units(ms) \in Nat
  /\ \A ms \in Seq(Told), ns \in Seq(Told) : Units(ms \o ns) = Units(ms) + Units(ns)
  /\ \A ms \in Seq(Told) : ms # <<>> =>
       Head(ms) \in Told /\ Tail(ms) \in Seq(Told) /\ Units(Tail(ms)) = Units(ms) - Head(ms).len
<1>1. \A m \in Told : m.len \in Nat
  BY ToldFields
<1>2. ASSUME NEW ms \in Seq(Told), NEW ns \in Seq(Told) PROVE Units(ms \o ns) = Units(ms) + Units(ns) /\ Units(ms) \in Nat
  BY <1>1, UnitsOfConcat
<1>4. ASSUME NEW ms \in Seq(Told), ms # <<>>
      PROVE  Head(ms) \in Told /\ Tail(ms) \in Seq(Told) /\ Units(Tail(ms)) = Units(ms) - Head(ms).len
  BY <1>1, <1>4, UnitsOfTail
<1> QED BY <1>2, <1>4

LEMMA FlushedIsNat ==
  ASSUME SeatTypeOK, NEW ms, Units(ms) \in Nat
  PROVE  /\ Flushed(ms) \in Nat /\ Flushed(ms) >= sent
         /\ Flushed(ms) \in {sent, Room, Units(ms)}
         /\ Flushed(ms) > sent => Flushed(ms) <= Room /\ Flushed(ms) <= Units(ms)
<1> DEFINE m == Min({Units(ms), Room})
<1>1. m \in Nat /\ m \in {Units(ms), Room} /\ m <= Room /\ m <= Units(ms)
  BY RoomAssumption DEF Min
<1>2. Flushed(ms) = Max({sent, m})
  BY DEF Flushed
<1> HIDE DEF m
<1>3. Max({sent, m}) \in {sent, m} /\ Max({sent, m}) >= sent /\ Max({sent, m}) >= m
  <2>1. \E x \in {sent, m} : \A y \in {sent, m} : x >= y
    BY <1>1 DEF SeatTypeOK
  <2> QED BY <2>1 DEF Max
<1> QED BY <1>1, <1>2, <1>3 DEF SeatTypeOK

-----------------------------------------------------------------------------
(* What each part of a step comes to.                                      *)

\* A copy asks for the old source to go, if there is one, and for the new.
Cleared == IF data_source = Nil THEN requests ELSE Append(requests, Request("destroy", data_source, Nil))

LEMMA OfferAsks ==
  ASSUME SeatTypeOK, NEW here, OfferSelection(here)
  PROVE  /\ Cleared \in Seq(Asked) /\ requests' = Append(Cleared, Request("select", copies + 1, Nil))
         /\ requests' \in Seq(Asked) /\ Request("select", copies + 1, Nil) \in Asked
         /\ data_source # Nil => Request("destroy", data_source, Nil) \in Asked
<1>1. data_source # Nil => Request("destroy", data_source, Nil) \in Asked
  BY Requests DEF SeatTypeOK
<1>2. Request("select", copies + 1, Nil) \in Asked
  BY Requests DEF SeatTypeOK
<1>3. Cleared \in Seq(Asked)
  BY <1>1, RequestUnits DEF Cleared, SeatTypeOK
<1>4. CASE data_source = Nil
  <2>1. requests \o <<>> = requests /\ requests \o <<Request("select", copies + 1, Nil)>> = Append(requests, Request("select", copies + 1, Nil))
    BY <1>2, ConcatEmptySeq, AppendIsConcat DEF SeatTypeOK
  <2>2. requests' = Append(Cleared, Request("select", copies + 1, Nil))
    BY <1>4, <2>1 DEF OfferSelection, Cleared
  <2> QED BY <1>1, <1>2, <1>3, <2>2, RequestUnits
<1>5. CASE data_source # Nil
  <2>1. requests \o <<Request("destroy", data_source, Nil)>> = Cleared
    BY <1>1, <1>5, AppendIsConcat DEF SeatTypeOK, Cleared
  <2>2. Cleared \o <<Request("select", copies + 1, Nil)>> = Append(Cleared, Request("select", copies + 1, Nil))
    BY <1>2, <1>3, AppendIsConcat
  <2>3. requests' = Append(Cleared, Request("select", copies + 1, Nil))
    BY <1>5, <2>1, <2>2 DEF OfferSelection
  <2> QED BY <1>1, <1>2, <1>3, <2>3, RequestUnits
<1> QED BY <1>4, <1>5

Turning == {"repeating", "reading"}

LEMMA KeyPressTypes ==
  ASSUME SeatTypeOK, NEW code, NEW here \in Turning, KeyPress(code, here)
  PROVE  /\ requests' \in Seq(Asked) /\ sent' \in Nat /\ copies' \in Nat /\ data_source' \in Nat \cup {Nil}
         /\ selection_offer' = selection_offer /\ back' \in Turning
         /\ stage' \in Turning \cup {"handing"}
<1>1. CASE OfferSelection(here)
  <2>1. requests' \in Seq(Asked)
    BY <1>1, OfferAsks
  <2>2. sent' \in Nat
    BY <1>1, <2>1, RequestUnits, FlushedIsNat DEF OfferSelection
  <2> QED BY <1>1, <2>1, <2>2 DEF OfferSelection, SeatTypeOK, Turning
<1>2. CASE Paste(here)
  <2>1. CASE data_source # Nil \/ selection_offer = Nil
    BY <1>2, <2>1 DEF SeatTypeOK, Paste, clipVars, Turning
  <2>2. CASE ~(data_source # Nil \/ selection_offer = Nil)
    <3>1. requests' \in Seq(Asked)
      BY <1>2, <2>2, Requests, RequestUnits DEF SeatTypeOK, Paste
    <3> QED BY <1>2, <2>2, <3>1 DEF SeatTypeOK, Paste, clipVars, Turning
  <2> QED BY <2>1, <2>2
<1>3. CASE stage' = here /\ UNCHANGED <<requests, sent, back, clipVars>>
  BY <1>3 DEF SeatTypeOK, clipVars, Turning
<1> QED BY <1>1, <1>2, <1>3 DEF KeyPress

LEMMA TakenTypes ==
  ASSUME SeatTypeOK, NEW op, Taken(op)
  PROVE  /\ Head(coming) \in Told /\ Head(coming).op = op /\ coming # <<>>
         /\ coming' = Tail(coming) /\ coming' \in Seq(Told)
         /\ got' = got - Head(coming).len /\ got' \in Nat
<1>1. Head(coming) \in Told /\ Tail(coming) \in Seq(Told) /\ coming # <<>>
  BY HeadTailProperties DEF Taken, Complete, SeatTypeOK
<1>2. Head(coming).len \in Nat
  BY <1>1, ToldFields
<1> QED BY <1>1, <1>2 DEF Taken, Complete, SeatTypeOK

\* What carrying out a request tells the client.
News ==
  LET r == Head(requests)
  IN CASE r.op = "get" /\ r.arg = "keyboard" -> <<Sending("keymap", Nil, <<"keymap", 0>>), Sending("rate", 1, Nil)>>
       [] r.op = "select" /\ focused -> <<Sending("selection", Ours(r.arg), Nil)>>
       [] r.op = "destroy" /\ owner = Ours(r.arg) /\ focused -> <<Sending("selection", Nil, Nil)>>
       [] OTHER -> <<>>

LEMMA ServeTells ==
  ASSUME SeatTypeOK, Serve
  PROVE  /\ requests # <<>> /\ Head(requests) \in Asked /\ requests' = Tail(requests) /\ requests' \in Seq(Asked)
         /\ Head(requests).len <= sent /\ sent' = sent - Head(requests).len /\ sent' \in Nat
         /\ News \in Seq(Told) /\ coming' = coming \o News /\ coming' \in Seq(Told)
         /\ owner' = CASE Head(requests).op = "select" -> Ours(Head(requests).arg)
                       [] Head(requests).op = "destroy" /\ owner = Ours(Head(requests).arg) -> Nil
                       [] OTHER -> owner
         /\ owner' \in Holder \cup {Nil}
<1>1. requests # <<>> /\ Head(requests) \in Asked /\ requests' = Tail(requests) /\ requests' \in Seq(Asked)
  BY RequestUnits DEF Serve, SeatTypeOK
<1>2. Head(requests).len \in Nat /\ Head(requests).len <= sent /\ sent' = sent - Head(requests).len
  BY <1>1, AskedFields DEF Serve
<1>3. coming \o <<>> = coming
  BY ConcatEmptySeq DEF SeatTypeOK
<1>4. /\ Head(requests).op \in {"get", "select", "destroy", "destroy_offer", "receive", "shape", "draw", "pool"}
      /\ Head(requests).op \in {"select", "destroy"} => Head(requests).arg \in Nat
  BY <1>1, AskedFields
<1>5. News \in Seq(Told)
  <2>1. \A n \in Nat : Sending("keymap", Nil, <<"keymap", n>>) \in Told /\ Sending("rate", n, Nil) \in Told
    BY Events
  <2>2. Sending("selection", Nil, Nil) \in Told /\ \A n \in Nat : Sending("selection", Ours(n), Nil) \in Told
    BY Events, Holders
  <2>3. <<>> \in Seq(Told) /\ (\A m \in Told : <<m>> \in Seq(Told)) /\ \A m, n \in Told : <<m, n>> \in Seq(Told)
    OBVIOUS
  <2>4. <<Sending("keymap", Nil, <<"keymap", 0>>), Sending("rate", 1, Nil)>> \in Seq(Told)
    BY <2>1, <2>3
  <2>5. /\ <<Sending("selection", Nil, Nil)>> \in Seq(Told)
        /\ \A n \in Nat : <<Sending("selection", Ours(n), Nil)>> \in Seq(Told)
    BY <2>2, <2>3
  <2> QED BY <1>4, <2>3, <2>4, <2>5 DEF News
<1>6. coming' = coming \o News
  BY <1>3, <1>4 DEF Serve, News, Tell, OfSelection
<1>7. owner' = CASE Head(requests).op = "select" -> Ours(Head(requests).arg)
                 [] Head(requests).op = "destroy" /\ owner = Ours(Head(requests).arg) -> Nil
                 [] OTHER -> owner
  BY <1>4 DEF Serve
<1>8. owner' \in Holder \cup {Nil}
  BY <1>4, <1>7, Holders DEF SeatTypeOK
<1>9. coming \o News \in Seq(Told)
  BY <1>5, ConcatProperties DEF SeatTypeOK
<1> QED BY <1>1, <1>2, <1>5, <1>6, <1>7, <1>8, <1>9, SMTT(30) DEF SeatTypeOK

LEMMA Singly == \A m \in Told : <<m>> \in Seq(Told)
OBVIOUS

LEMMA PressTells ==
  ASSUME SeatTypeOK, NEW code \in Code, NEW p \in BOOLEAN
  PROVE  <<Sending("key", [code |-> code, pressed |-> p], Nil)>> \in Seq(Told)
BY Events, Singly

\* What is said of the selection when its owner changes.
LEMMA SelectionTells ==
  ASSUME SeatTypeOK, NEW to \in Holder \cup {Nil}
  PROVE  OfSelection(to) \in Seq(Told)
BY Events, Singly, EmptySeq DEF OfSelection

Warned == IF owner = Nil THEN <<>> ELSE IF owner.by = "us" THEN <<Sending("cancelled", owner.n, Nil)>> ELSE <<>>

LEMMA OtherTells ==
  ASSUME SeatTypeOK, OtherCopies
  PROVE  /\ Warned \in Seq(Told) /\ OfSelection(owner') \in Seq(Told)
         /\ Warned \o OfSelection(owner') \in Seq(Told) /\ coming' = coming \o (Warned \o OfSelection(owner'))
         /\ owner' = Theirs(strokes + 1) /\ owner' \in Holder
<1>1. owner' = Theirs(strokes + 1) /\ owner' \in Holder
  BY Holders DEF OtherCopies, SeatTypeOK
<1>2. OfSelection(owner') \in Seq(Told)
  BY <1>1, SelectionTells
<1>3. owner # Nil => owner.n \in Nat
  BY DEF SeatTypeOK, Holder
<1>4. Warned \in Seq(Told)
  BY <1>3, Events, Singly, EmptySeq DEF Warned
<1>5. coming' = coming \o (Warned \o OfSelection(owner'))
  BY DEF OtherCopies, Warned, Tell
<1> QED BY <1>1, <1>2, <1>4, <1>5, ConcatProperties

LEMMA WorldTypes ==
  ASSUME SeatTypeOK, World
  PROVE  /\ coming' \in Seq(Told) /\ owner' \in Holder \cup {Nil} /\ strokes' \in Nat
         /\ pointer_on' \in Nat \cup {Nil} /\ riding' \in Seq(Descriptor)
         /\ requests' \in Seq(Asked) /\ sent' \in Nat
         /\ UNCHANGED <<fds, got, copies, held_key, data_source, selection_offer, pointer_serial, stage, back>>
<1>1. CASE Serve
  <2>1. riding' \in Seq(Descriptor)
    <3>1. CASE riding = <<>>
      BY <1>1, <3>1 DEF Serve, SeatTypeOK
    <3>2. CASE riding # <<>>
      BY <1>1, <3>2, HeadTailProperties DEF Serve, SeatTypeOK
    <3> QED BY <3>1, <3>2
  <2>2. UNCHANGED <<fds, got, copies, held_key, data_source, selection_offer, pointer_serial, stage, back, strokes, pointer_on>>
    BY <1>1 DEF Serve, keyVars, clipVars, cursorVars
  <2> QED BY <1>1, <2>1, <2>2, ServeTells DEF SeatTypeOK
<1> DEFINE Kept == UNCHANGED <<fds, got, copies, held_key, data_source, selection_offer, pointer_serial, stage, back,
                               requests, sent, riding>> /\ strokes' \in Nat
<1>k. \A deed : Stroke(deed) => Kept
  BY DEF Stroke, keyVars, clipVars, cursorVars, SeatTypeOK
<1>l. ASSUME NEW events \in Seq(Told), Tell(events) PROVE coming' \in Seq(Told)
  BY <1>l, ConcatProperties DEF Tell, SeatTypeOK
<1>2. ASSUME NEW code \in Code, Press(code) \/ LetGo(code) PROVE coming' \in Seq(Told) /\ Kept /\ UNCHANGED <<owner, pointer_on>>
  BY <1>2, <1>k, <1>l, PressTells DEF Press, LetGo
<1>3. CASE Leave \/ NewKeymap \/ NewRate
  <2>1. strokes + 1 \in Nat /\ {0, 1} \subseteq Nat
    BY DEF SeatTypeOK
  <2>2. /\ <<Sending("leave", Nil, Nil)>> \in Seq(Told) /\ \A n \in Nat : <<Sending("rate", n, Nil)>> \in Seq(Told)
        /\ <<Sending("keymap", Nil, <<"keymap", strokes + 1>>)>> \in Seq(Told)
    BY <2>1, Events, Singly
  <2>3. coming' \in Seq(Told)
    BY <1>3, <1>l, <2>1, <2>2 DEF Leave, NewKeymap, NewRate
  <2>4. Kept /\ UNCHANGED <<owner, pointer_on>>
    BY <1>3, <1>k DEF Leave, NewKeymap, NewRate
  <2> QED BY <2>3, <2>4 DEF SeatTypeOK
<1>4. CASE Enter
  <2>1. <<Sending("selection", owner, Nil)>> \in Seq(Told)
    BY Events, Singly DEF SeatTypeOK
  <2> QED BY <1>4, <1>k, <1>l, <2>1 DEF Enter, SeatTypeOK
<1>5. CASE OtherCopies
  <2>1. Kept /\ UNCHANGED pointer_on
    BY <1>5, <1>k DEF OtherCopies
  <2> QED BY <1>5, <2>1, OtherTells, ConcatProperties DEF SeatTypeOK
<1>6. CASE OtherPastes
  <2>1. owner.n \in Nat /\ strokes + 1 \in Nat
    BY <1>6 DEF OtherPastes, SeatTypeOK, Holder
  <2>2. <<Sending("send", owner.n, <<"send", strokes + 1>>)>> \in Seq(Told)
    BY <2>1, Events, Singly
  <2> QED BY <1>6, <1>k, <1>l, <2>2 DEF OtherPastes, SeatTypeOK
<1>7. CASE Point
  <2>1. pointer_on' \in Nat \cup {Nil}
    BY <1>7 DEF Point, SeatTypeOK
  <2>2. <<Sending("pointer", pointer_on', Nil)>> \in Seq(Told)
    BY <2>1, Events, Singly
  <2> QED BY <1>7, <1>k, <1>l, <2>1, <2>2 DEF Point, SeatTypeOK
<1> QED BY <1>1, <1>2, <1>3, <1>4, <1>5, <1>6, <1>7 DEF World, SeatTypeOK

LEMMA HandleTypes ==
  ASSUME SeatTypeOK, Handle
  PROVE  SeatTypeOK'
<1> DEFINE Kept == /\ coming' \in Seq(Told) /\ got' \in Nat
                   /\ UNCHANGED <<riding, strokes, owner, pointer_on>>
<1>k. \A op : Taken(op) => Kept
  BY TakenTypes DEF Taken, worldVars
<1>1. CASE HandleCapabilities
  <2>1. Says \subseteq Device
    BY <1>1, TakenTypes, ToldFields DEF HandleCapabilities, Says
  <2>2. (Says \cup {"device"}) \ bound \in SUBSET Device
    BY <2>1 DEF Device
  <2>3. SetToSeq({Request("get", d, Nil) : d \in (Says \cup {"device"}) \ bound}) \in Seq(Gets)
    BY <2>2, GetsAreAsked
  <2>4. SetToSeq({Request("get", d, Nil) : d \in (Says \cup {"device"}) \ bound}) \in Seq(Asked)
    BY <2>3, GetsAreGets, SeqMonotonic
  <2>5. requests' \in Seq(Asked)
    BY <1>1, <2>4, ConcatProperties DEF HandleCapabilities, SeatTypeOK
  <2> QED BY <1>1, <1>k, <2>5 DEF HandleCapabilities, SeatTypeOK, clipVars, cursorVars
<1>2. CASE HandleKeymap
  <2>1. fds' \in Seq(Descriptor)
    BY <1>2, HeadTailProperties DEF HandleKeymap, TakeFd, SeatTypeOK
  <2> QED BY <1>2, <1>k, <2>1 DEF HandleKeymap, Quietly, SeatTypeOK, clipVars, cursorVars
<1>3. CASE HandleRate
  BY <1>3, <1>k DEF HandleRate, Quietly, SeatTypeOK, clipVars, cursorVars
<1>4. CASE HandleKey
  <2>1. Says.code \in Code /\ Says.pressed \in BOOLEAN
    BY <1>4, TakenTypes, ToldFields DEF HandleKey, Says
  <2>2. Kept /\ UNCHANGED <<fds, cursorVars>>
    BY <1>4, <1>k DEF HandleKey
  <2>3. held_key' \in [code : Code, due : BOOLEAN] \cup {Nil}
    <3>1. [code |-> Says.code, due |-> FALSE] \in [code : Code, due : BOOLEAN]
      BY <2>1
    <3>2. held_key' \in {[code |-> Says.code, due |-> FALSE], held_key, Nil}
      BY <1>4 DEF HandleKey
    <3> QED BY <3>1, <3>2 DEF SeatTypeOK
  <2>4. CASE Says.pressed
    <3>1. KeyPress(Says.code, "reading")
      BY <1>4, <2>4 DEF HandleKey
    <3> QED BY <2>2, <2>3, <3>1, KeyPressTypes DEF SeatTypeOK, Turning, cursorVars
  <2>5. CASE ~Says.pressed
    BY <1>4, <2>2, <2>3, <2>5 DEF HandleKey, Quietly, SeatTypeOK, clipVars, cursorVars
  <2> QED BY <2>4, <2>5
<1>5. CASE HandleLeave
  BY <1>5, <1>k DEF HandleLeave, Quietly, SeatTypeOK, clipVars, cursorVars
<1>6. CASE HandleSelection
  <2>1. Says \in Holder \cup {Nil}
    BY <1>6, TakenTypes, ToldFields DEF HandleSelection, Says
  <2>2. requests' \in Seq(Asked)
    BY <1>6, Requests, RequestUnits DEF HandleSelection, SeatTypeOK
  <2> QED BY <1>6, <1>k, <2>1, <2>2 DEF HandleSelection, SeatTypeOK, cursorVars
<1>7. CASE HandleSend
  <2>1. fds' \in Seq(Descriptor)
    BY <1>7, HeadTailProperties DEF HandleSend, TakeFd, SeatTypeOK
  <2> QED BY <1>7, <1>k, <2>1 DEF HandleSend, Quietly, SeatTypeOK, clipVars, cursorVars
<1>8. CASE HandleCancelled
  <2>1. Says \in Nat
    BY <1>8, TakenTypes, ToldFields DEF HandleCancelled, Says
  <2>2. requests' \in Seq(Asked)
    BY <1>8, <2>1, Requests, RequestUnits DEF HandleCancelled, SeatTypeOK
  <2> QED BY <1>8, <1>k, <2>2 DEF HandleCancelled, SeatTypeOK, cursorVars
<1>9. CASE HandlePointer
  <2>1. Says \in Nat \cup {Nil}
    BY <1>9, TakenTypes, ToldFields DEF HandlePointer, Says
  <2>2. requests' \in Seq(Asked)
    <3>1. PICK want \in Shape : UNCHANGED requests \/
            (Says # Nil /\ requests' = Append(requests, Request("shape", <<pointer_serial', want>>, Nil)))
      BY <1>9 DEF HandlePointer
    <3>2. Says # Nil => pointer_serial' \in Nat
      BY <1>9, <2>1 DEF HandlePointer
    <3> QED BY <3>1, <3>2, Requests, RequestUnits DEF SeatTypeOK
  <2> QED BY <1>9, <1>k, <2>1, <2>2 DEF HandlePointer, SeatTypeOK, clipVars
<1> QED BY <1>1, <1>2, <1>3, <1>4, <1>5, <1>6, <1>7, <1>8, <1>9 DEF Handle

-----------------------------------------------------------------------------
(* A read: what comes with the bytes it takes.                             *)

Newly(from, upto, k) == coming[k].fd # Nil /\ Start(coming, k) \in from..(upto - 1)

Collects(f, from, upto, n) ==
  /\ f \in [0..n -> Seq(Descriptor)] /\ f[0] = <<>>
  /\ \A k \in 1..n : f[k] = IF Newly(from, upto, k) THEN Append(f[k - 1], coming[k].fd) ELSE f[k - 1]

LEMMA CollectsMore ==
  ASSUME SeatTypeOK, NEW from, NEW upto, NEW n \in Nat, n + 1 <= Len(coming), NEW f, Collects(f, from, upto, n)
  PROVE  \E g : Collects(g, from, upto, n + 1)
<1> DEFINE last == IF Newly(from, upto, n + 1) THEN Append(f[n], coming[n + 1].fd) ELSE f[n]
           g == [k \in 0..(n + 1) |-> IF k = n + 1 THEN last ELSE f[k]]
<1>1. last \in Seq(Descriptor)
  <2>1. n \in 0..n /\ n + 1 \in 1..Len(coming)
    BY LenProperties DEF SeatTypeOK
  <2>2. f[n] \in Seq(Descriptor) /\ coming[n + 1] \in Told
    BY <2>1, ElementOfSeq DEF Collects, SeatTypeOK
  <2>3. Newly(from, upto, n + 1) => coming[n + 1].fd \in Descriptor
    BY <2>2, ToldFields DEF Newly
  <2> QED BY <2>2, <2>3, AppendProperties
<1> HIDE DEF last
<1>2. g \in [0..(n + 1) -> Seq(Descriptor)] /\ g[0] = <<>> /\ g[n + 1] = last
  BY <1>1 DEF Collects
<1>3. \A k \in 0..n : g[k] = f[k]
  OBVIOUS
<1> HIDE DEF g
<1>4. ASSUME NEW k \in 1..(n + 1)
      PROVE  g[k] = IF Newly(from, upto, k) THEN Append(g[k - 1], coming[k].fd) ELSE g[k - 1]
  <2>1. k - 1 \in 0..n
    OBVIOUS
  <2>2. CASE k = n + 1
    <3>1. k - 1 = n
      BY <2>2
    <3> QED BY <1>2, <1>3, <2>1, <2>2, <3>1 DEF last
  <2>3. CASE k # n + 1
    <3>1. k \in 1..n /\ k \in 0..n
      BY <2>3
    <3> QED BY <1>3, <2>1, <3>1 DEF Collects
  <2> QED BY <2>2, <2>3
<1>5. Collects(g, from, upto, n + 1)
  BY <1>2, <1>4 DEF Collects
<1> QED BY <1>5

LEMMA CollectionExists ==
  ASSUME SeatTypeOK, NEW from, NEW upto
  PROVE  \E f : Collects(f, from, upto, Len(coming))
<1> DEFINE T == {n \in Nat : n <= Len(coming) => \E f : Collects(f, from, upto, n)}
<1>0. Len(coming) \in Nat
  BY LenProperties DEF SeatTypeOK
<1>t. T \in SUBSET Nat /\ \A n \in Nat : n \in T <=> (n <= Len(coming) => \E f : Collects(f, from, upto, n))
  OBVIOUS
<1> HIDE DEF T
<1>1. 0 \in T
  <2> DEFINE f == [k \in 0..0 |-> <<>>]
  <2>1. f \in [0..0 -> Seq(Descriptor)] /\ f[0] = <<>>
    BY EmptySeq
  <2>2. Collects(f, from, upto, 0)
    BY <2>1 DEF Collects
  <2> QED BY <1>t, <2>2
<1>2. ASSUME NEW n \in T PROVE n + 1 \in T
  <2>1. n \in Nat /\ n + 1 \in Nat
    BY <1>t
  <2>2. CASE ~(n + 1 <= Len(coming))
    BY <1>t, <2>1, <2>2
  <2>3. CASE n + 1 <= Len(coming)
    <3>1. n <= Len(coming)
      BY <1>0, <2>1, <2>3
    <3>2. PICK f : Collects(f, from, upto, n)
      BY <1>t, <2>1, <3>1
    <3>3. \E g : Collects(g, from, upto, n + 1)
      BY <2>1, <2>3, <3>2, CollectsMore
    <3> QED BY <1>t, <2>1, <3>3
  <2> QED BY <2>2, <2>3
<1>3. Len(coming) \in T
  BY <1>0, <1>1, <1>2, <1>t, Induction
<1> QED BY <1>0, <1>3, <1>t

LEMMA ArrivedCollects ==
  ASSUME SeatTypeOK, NEW from, NEW upto
  PROVE  \E c : /\ Arrived(from, upto) = c[Len(coming)] /\ c[0] = <<>>
                /\ \A k \in 1..Len(coming) :
                     c[k] = IF Newly(from, upto, k) THEN Append(c[k - 1], coming[k].fd) ELSE c[k - 1]
<1> DEFINE N == Len(coming)
           Eq(f) == f = [k \in 0..N |-> IF k = 0 THEN <<>>
                                        ELSE IF Newly(from, upto, k) THEN Append(f[k - 1], coming[k].fd)
                                        ELSE f[k - 1]]
           c == CHOOSE f : Eq(f)
<1>0. N \in Nat
  BY LenProperties DEF SeatTypeOK
<1>1. PICK f : Collects(f, from, upto, N)
  BY CollectionExists
<1>s. \A k \in 0..N : k = 0 \/ (k \in 1..N /\ k # 0)
  BY <1>0
<1>2. Eq(f)
  <2>1. f = [k \in 0..N |-> f[k]] /\ f[0] = <<>>
    BY <1>1 DEF Collects
  <2>2. \A k \in 0..N : f[k] = IF k = 0 THEN <<>>
                               ELSE IF Newly(from, upto, k) THEN Append(f[k - 1], coming[k].fd) ELSE f[k - 1]
    BY <1>1, <1>s, <2>1 DEF Collects
  <2> QED BY <2>1, <2>2, Zenon
<1>3. Eq(c)
  BY <1>2
<1>4. Arrived(from, upto) = c[N]
  BY DEF Arrived, Newly, Start
<1> HIDE DEF c
<1>5. c[0] = <<>> /\ \A k \in 1..N : c[k] = IF Newly(from, upto, k) THEN Append(c[k - 1], coming[k].fd) ELSE c[k - 1]
  <2>1. \A k \in 0..N : c[k] = IF k = 0 THEN <<>>
                               ELSE IF Newly(from, upto, k) THEN Append(c[k - 1], coming[k].fd) ELSE c[k - 1]
    BY <1>3, Zenon
  <2>2. 0 \in 0..N /\ \A k \in 1..N : k \in 0..N /\ k # 0
    BY <1>0
  <2>3. c[0] = <<>>
    BY <2>1, <2>2
  <2>4. ASSUME NEW k \in 1..N
        PROVE  c[k] = IF Newly(from, upto, k) THEN Append(c[k - 1], coming[k].fd) ELSE c[k - 1]
    <3>1. k \in 0..N /\ k # 0
      BY <2>2
    <3> QED BY <2>1, <3>1, Zenon
  <2> QED BY <2>3, <2>4
<1> QED BY <1>4, <1>5

LEMMA ArrivedMeets ==
  ASSUME SeatTypeOK, NEW from \in Nat, NEW upto \in Nat, from <= upto, NEW q \in Seq(Descriptor)
  PROVE  /\ q \o Arrived(from, upto) \in Seq(Descriptor)
         /\ Meets(q, coming, Begun(from)) => Meets(q \o Arrived(from, upto), coming, Begun(upto))
<1>0. Len(coming) \in Nat /\ \A m \in Told : m.len \in Nat
  BY ToldFields, LenProperties DEF SeatTypeOK
<1>1. PICK c : /\ Arrived(from, upto) = c[Len(coming)] /\ c[0] = <<>>
               /\ \A k \in 1..Len(coming) :
                    c[k] = IF Newly(from, upto, k) THEN Append(c[k - 1], coming[k].fd) ELSE c[k - 1]
  BY ArrivedCollects
<1> DEFINE Found(n) == Begun(from) \cup {k \in 1..n : Newly(from, upto, k)}
           Good(n) == /\ c[n] \in Seq(Descriptor)
                      /\ Meets(q, coming, Begun(from)) => Meets(q \o c[n], coming, Found(n))
           T == {n \in Nat : n <= Len(coming) => Good(n)}
<1>t. T \in SUBSET Nat /\ \A n \in Nat : n \in T <=> (n <= Len(coming) => Good(n))
  OBVIOUS
<1>f. /\ Found(0) = Begun(from)
      /\ \A n \in Nat : Found(n + 1) = Found(n) \cup (IF Newly(from, upto, n + 1) THEN {n + 1} ELSE {})
  <2>1. {k \in 1..0 : Newly(from, upto, k)} = {}
    OBVIOUS
  <2>2. ASSUME NEW n \in Nat
        PROVE  {k \in 1..(n + 1) : Newly(from, upto, k)}
                 = {k \in 1..n : Newly(from, upto, k)} \cup (IF Newly(from, upto, n + 1) THEN {n + 1} ELSE {})
    <3>1. \A k : k \in 1..(n + 1) <=> (k \in 1..n \/ k = n + 1)
      OBVIOUS
    <3> QED BY <3>1
  <2> QED BY <2>1, <2>2
<1>g. ASSUME NEW n \in Nat, n + 1 <= Len(coming), Newly(from, upto, n + 1), NEW k \in Found(n)
      PROVE  k < n + 1
  <2>1. CASE k \in 1..n
    BY <2>1
  <2>2. CASE k \in Begun(from)
    <3>1. n + 1 \in 1..Len(coming) /\ k \in 1..Len(coming) /\ Start(coming, k) < from
      BY <1>0, <1>g, <2>2 DEF Begun
    <3>2. Start(coming, n + 1) >= from
      BY <1>g DEF Newly
    <3>3. Start(coming, k) \in Nat /\ Start(coming, n + 1) \in Nat
          /\ (n + 1 <= k => Start(coming, n + 1) <= Start(coming, k))
      BY <1>0, <3>1, StartsAscend DEF SeatTypeOK
    <3> QED BY <1>0, <3>1, <3>2, <3>3
  <2> QED BY <2>1, <2>2
<1> HIDE DEF T, Found
<1>2. 0 \in T
  <2>1. c[0] \in Seq(Descriptor) /\ q \o c[0] = q
    BY <1>1, EmptySeq, ConcatEmptySeq
  <2> QED BY <1>f, <1>t, <2>1
<1>3. ASSUME NEW n \in T PROVE n + 1 \in T
  <2>1. n \in Nat /\ n + 1 \in Nat
    BY <1>t
  <2>2. CASE ~(n + 1 <= Len(coming))
    BY <1>t, <2>1, <2>2
  <2>3. CASE n + 1 <= Len(coming)
    <3>1. n <= Len(coming) /\ n + 1 \in 1..Len(coming) /\ n + 1 - 1 = n
      BY <1>0, <2>1, <2>3
    <3>2. Good(n)
      BY <1>t, <2>1, <3>1
    <3>3. c[n + 1] = IF Newly(from, upto, n + 1) THEN Append(c[n], coming[n + 1].fd) ELSE c[n]
      <4>1. PICK k \in 1..Len(coming) : k = n + 1 /\ k - 1 = n
        BY <2>1, <3>1
      <4>2. c[k] = IF Newly(from, upto, k) THEN Append(c[k - 1], coming[k].fd) ELSE c[k - 1]
        BY <1>1
      <4> QED BY <4>1, <4>2, Zenon
    <3>4. CASE ~Newly(from, upto, n + 1)
      <4>1. Found(n + 1) = Found(n) /\ c[n + 1] = c[n]
        BY <1>f, <2>1, <3>3, <3>4
      <4> QED BY <1>t, <2>1, <3>2, <4>1
    <3>5. CASE Newly(from, upto, n + 1)
      <4>1. coming[n + 1] \in Told /\ coming[n + 1].fd \in Descriptor
        BY <3>1, <3>5, ElementOfSeq, ToldFields DEF Newly, SeatTypeOK
      <4>2. c[n + 1] = Append(c[n], coming[n + 1].fd) /\ c[n + 1] \in Seq(Descriptor)
        BY <3>2, <3>3, <3>5, <4>1, AppendProperties
      <4>3. q \o c[n + 1] = Append(q \o c[n], coming[n + 1].fd) /\ q \o c[n] \in Seq(Descriptor)
        <5>1. c[n] \in Seq(Descriptor)
          BY <3>2
        <5> QED BY <4>1, <4>2, <5>1, ConcatAppend, ConcatProperties, SMTT(30)
      <4>4. Found(n + 1) = Found(n) \cup {n + 1}
        BY <1>f, <2>1, <3>5
      <4>5. ASSUME Meets(q, coming, Begun(from)) PROVE Meets(q \o c[n + 1], coming, Found(n + 1))
        <5>1. Meets(q \o c[n], coming, Found(n))
          BY <3>2, <4>5
        <5>2. \A k \in Found(n) : k < n + 1
          BY <1>g, <2>1, <2>3, <3>5
        <5>3. coming \in Seq(Told)
          BY DEF SeatTypeOK
        <5>4. Meets(Append(q \o c[n], coming[n + 1].fd), coming, Found(n) \cup {n + 1})
          BY <3>1, <4>1, <4>3, <5>1, <5>2, <5>3, MeetsAppend
        <5> QED BY <4>3, <4>4, <5>4
      <4> QED BY <1>t, <2>1, <4>2, <4>5
    <3> QED BY <3>4, <3>5
  <2> QED BY <2>2, <2>3
<1>4. Len(coming) \in T
  BY <1>0, <1>2, <1>3, <1>t, Induction
<1>5. Good(Len(coming))
  BY <1>0, <1>4, <1>t
<1>6. Found(Len(coming)) = Begun(upto)
  <2>1. \A k \in 1..Len(coming) : Start(coming, k) \in Nat
    BY <1>0, StartsAscend DEF SeatTypeOK
  <2> QED BY <2>1 DEF Found, Begun, Newly
<1> QED BY <1>1, <1>5, <1>6, ConcatProperties

-----------------------------------------------------------------------------
(* No more leaves or is read than there is, and a descriptor that waits has *)
(* its request unsent.                                                     *)

LEMMA FlushKeeps ==
  ASSUME SeatTypeOK, NEW rs \in Seq(Asked), sent <= Units(rs)
  PROVE  Flushed(rs) \in Nat /\ sent <= Flushed(rs) /\ Flushed(rs) <= Units(rs)
<1>1. Units(rs) \in Nat
  BY RequestUnits
<1> QED BY <1>1, FlushedIsNat DEF SeatTypeOK

LEMMA LastOfAppend ==
  ASSUME NEW S, NEW s \in Seq(S), NEW e \in S
  PROVE  Append(s, e) # <<>> /\ Last(Append(s, e)) = e
BY AppendProperties DEF Last

LEMMA LastOfTail ==
  ASSUME NEW S, NEW s \in Seq(S), Len(s) > 1
  PROVE  Tail(s) # <<>> /\ Last(Tail(s)) = Last(s)
<1>1. s # <<>> /\ Len(s) \in Nat
  BY LenProperties
<1>2. Len(Tail(s)) = Len(s) - 1 /\ \A i \in 1..Len(Tail(s)) : Tail(s)[i] = s[i + 1]
  BY <1>1, HeadTailProperties
<1> DEFINE n == Len(Tail(s))
<1>3. n \in Nat /\ n >= 1 /\ n + 1 = Len(s)
  <2>1. \A a, b \in Nat : b = a - 1 /\ a > 1 => b >= 1 /\ b + 1 = a
    OBVIOUS
  <2>2. Tail(s) \in Seq(S)
    BY <1>1, HeadTailProperties
  <2>3. n \in Nat
    BY <2>2, LenProperties
  <2> QED BY <1>1, <1>2, <2>1, <2>3
<1>4. Tail(s)[n] = s[n + 1]
  BY <1>2, <1>3
<1>5. Tail(s) # <<>>
  <2>1. Len(<<>>) = 0
    OBVIOUS
  <2> HIDE DEF n
  <2>2. n # 0
    BY <1>3
  <2> QED BY <2>1, <2>2 DEF n
<1> QED BY <1>3, <1>4, <1>5 DEF Last

ConnOK == SeatTypeOK /\ Within /\ Lasting

LEMMA OnlyOne ==
  ASSUME SeatTypeOK, requests # <<>>, ~(Len(requests) > 1)
  PROVE  Units(requests) = Last(requests).len /\ Last(requests) \in Asked /\ Last(requests) = Head(requests)
<1>1. Len(requests) = 1
  <2>1. Len(requests) \in Nat \ {0}
    BY EmptySeq DEF SeatTypeOK
  <2>2. \A n \in Nat \ {0} : ~(n > 1) => n = 1
    OBVIOUS
  <2> QED BY <2>1, <2>2
<1>2. requests = <<Head(requests)>> /\ Last(requests) = Head(requests) /\ Head(requests) \in Asked
  BY <1>1, RequestUnits DEF SeatTypeOK, Last
<1> QED BY <1>2, UnitsOfFew, AskedFields

LEMMA ServeLeavesLast ==
  ASSUME ConnOK, Serve, Holding
  PROVE  Len(requests) > 1 /\ Last(requests') = Last(requests) /\ requests' # <<>>
<1>1. Len(requests) > 1
  <2>1. SUFFICES ASSUME ~(Len(requests) > 1) PROVE FALSE
    OBVIOUS
  <2>2. Units(requests) = Last(requests).len /\ Last(requests) = Head(requests) /\ Head(requests) \in Asked
    BY <2>1, OnlyOne DEF ConnOK, Lasting
  <2>3. sent <= Units(requests) - Last(requests).len /\ Head(requests).len <= sent /\ Head(requests).len > 0
        /\ Head(requests).len \in Nat
    BY <2>2, AskedFields DEF ConnOK, Lasting, Serve
  <2> QED BY <2>2, <2>3 DEF ConnOK, SeatTypeOK
<1> QED BY <1>1, LastOfTail, ServeTells DEF ConnOK, SeatTypeOK

LEMMA PasteAsks ==
  ASSUME ConnOK, NEW here \in Turning, Paste(here)
  PROVE  \/ stage' = here /\ UNCHANGED <<requests, sent, back, clipVars>>
         \/ /\ data_source = Nil /\ selection_offer \in Holder
            /\ Request("receive", selection_offer, "pipe") \in Asked
            /\ Request("receive", selection_offer, "pipe").fd = "pipe" /\ Request("receive", selection_offer, "pipe").len = 2
            /\ requests' = Append(requests, Request("receive", selection_offer, "pipe"))
            /\ stage' = "handing" /\ back' = here
            /\ UNCHANGED <<sent, clipVars>>
<1>1. selection_offer \in Holder => Request("receive", selection_offer, "pipe") \in Asked
  BY Requests
<1>2. Request("receive", selection_offer, "pipe").fd = "pipe" /\ Request("receive", selection_offer, "pipe").len = 2
  BY NilApart DEF Request
<1> QED BY <1>1, <1>2 DEF Paste, ConnOK, SeatTypeOK

LEMMA KeyPressConn ==
  ASSUME ConnOK, NEW code, NEW here \in Turning, KeyPress(code, here)
  PROVE  sent' <= Units(requests') /\ Lasting'
<1>t. SeatTypeOK /\ sent <= Units(requests) /\ sent \in Nat /\ Units(requests) \in Nat
  BY RequestUnits DEF ConnOK, Within, SeatTypeOK
<1>h. here # "handing" /\ here # "gone"
  BY DEF Turning
<1>1. CASE OfferSelection(here)
  <2> DEFINE ask == Request("select", copies + 1, Nil)
  <2>1. /\ Cleared \in Seq(Asked) /\ requests' = Append(Cleared, ask) /\ requests' \in Seq(Asked) /\ ask \in Asked
        /\ data_source # Nil => Request("destroy", data_source, Nil) \in Asked
    BY <1>1, <1>t, OfferAsks
  <2>2. Units(Cleared) >= Units(requests) /\ Units(Cleared) \in Nat
    <3>1. CASE data_source = Nil
      BY <1>t, <3>1 DEF Cleared
    <3>2. CASE data_source # Nil
      <4>1. Units(Cleared) = Units(requests) + Request("destroy", data_source, Nil).len
        BY <2>1, <3>2, RequestUnits DEF Cleared, ConnOK, SeatTypeOK
      <4> QED BY <1>t, <2>1, <3>2, <4>1, AskedFields
    <3> QED BY <3>1, <3>2
  <2>3. Units(requests') = Units(Cleared) + ask.len /\ ask.len \in Nat
    BY <2>1, RequestUnits, AskedFields
  <2>4. sent <= Units(requests')
    BY <1>t, <2>2, <2>3
  <2>5. sent' <= Units(requests')
    BY <1>1, <1>t, <2>1, <2>4, FlushKeeps DEF OfferSelection
  <2> QED BY <1>1, <1>h, <2>5 DEF OfferSelection, Lasting, Holding
<1>2. CASE Paste(here)
  <2>1. CASE stage' = here /\ UNCHANGED <<requests, sent, back, clipVars>>
    BY <1>h, <1>t, <2>1 DEF Lasting, Holding
  <2> DEFINE ask == Request("receive", selection_offer, "pipe")
  <2>2. CASE ask \in Asked /\ ask.fd = "pipe" /\ ask.len = 2 /\ requests' = Append(requests, ask) /\ UNCHANGED <<sent, clipVars>>
    <3>1. Units(requests') = Units(requests) + 2 /\ requests' # <<>> /\ Last(requests') = ask
      BY <1>t, <2>2, RequestUnits, LastOfAppend DEF SeatTypeOK
    <3> HIDE DEF ask
    <3>2. sent' = sent
      BY <2>2
    <3> QED BY <1>t, <2>2, <3>1, <3>2, NilApart DEF Lasting
  <2> QED BY <1>2, <2>1, <2>2, PasteAsks
<1>3. CASE stage' = here /\ UNCHANGED <<requests, sent, back, clipVars>>
  BY <1>3, <1>h, <1>t DEF Lasting, Holding
<1> QED BY <1>1, <1>2, <1>3 DEF KeyPress

LEMMA TakenConn ==
  ASSUME ConnOK, NEW op, Taken(op)
  PROVE  got' <= Units(coming')
<1>1. Units(coming') = Units(coming) - Head(coming).len /\ got' = got - Head(coming).len /\ Head(coming).len \in Nat
      /\ Units(coming) \in Nat
  BY TakenTypes, ToldFields, EventUnits DEF ConnOK, SeatTypeOK
<1> QED BY <1>1 DEF ConnOK, Within, SeatTypeOK

LEMMA TellConn ==
  ASSUME ConnOK, NEW events \in Seq(Told), coming' = coming \o events, UNCHANGED got
  PROVE  got' <= Units(coming')
<1>1. Units(coming') = Units(coming) + Units(events) /\ Units(events) \in Nat /\ Units(coming) \in Nat
  BY EventUnits DEF ConnOK, SeatTypeOK
<1> QED BY <1>1 DEF ConnOK, Within, SeatTypeOK

\* A step that says what the requests come to.
LEMMA AskConn ==
  ASSUME ConnOK, NEW more \in Seq(Asked), requests' = requests \o more, UNCHANGED <<sent, stage>>, ~Holding
  PROVE  sent' <= Units(requests') /\ Lasting'
<1>1. Units(requests') = Units(requests) + Units(more) /\ Units(more) \in Nat /\ Units(requests) \in Nat
  BY RequestUnits DEF ConnOK, SeatTypeOK
<1> QED BY <1>1 DEF ConnOK, Within, SeatTypeOK, Lasting, Holding

LEMMA HandleConn ==
  ASSUME ConnOK, Handle
  PROVE  ConnOK'
<1>1. SeatTypeOK'
  BY HandleTypes DEF ConnOK
<1>2. got' <= Units(coming')
  BY TakenConn DEF Handle, HandleCapabilities, HandleKeymap, HandleRate, HandleKey, HandleLeave,
    HandleSelection, HandleSend, HandleCancelled, HandlePointer
<1>3. stage = "reading"
  BY DEF Handle, HandleCapabilities, HandleKeymap, HandleRate, HandleKey, HandleLeave,
    HandleSelection, HandleSend, HandleCancelled, HandlePointer, Taken
<1>4. sent' <= Units(requests') /\ Lasting'
  <2>0. ~Holding
    BY <1>3 DEF Holding
  <2>1. CASE UNCHANGED <<requests, sent, stage>>
    BY <2>0, <2>1 DEF ConnOK, Within, Lasting, Holding
  <2>2. ASSUME NEW r \in Asked, requests' = Append(requests, r), UNCHANGED <<sent, stage>>
        PROVE  sent' <= Units(requests') /\ Lasting'
    <3>1. <<r>> \in Seq(Asked) /\ requests' = requests \o <<r>>
      BY <2>2, AppendIsConcat DEF ConnOK, SeatTypeOK
    <3> QED BY <2>0, <2>2, <3>1, AskConn
  <2>3. CASE HandleCapabilities
    <3> DEFINE more == SetToSeq({Request("get", d, Nil) : d \in (Says \cup {"device"}) \ bound})
    <3>1. Says \subseteq Device
      BY <2>3, TakenTypes, ToldFields DEF HandleCapabilities, Says, ConnOK
    <3>2. (Says \cup {"device"}) \ bound \in SUBSET Device
      BY <3>1 DEF Device
    <3>3. more \in Seq(Gets)
      BY <3>2, GetsAreAsked
    <3>4. more \in Seq(Asked)
      BY <3>3, GetsAreGets, SeqMonotonic
    <3>5. requests' = requests \o more /\ UNCHANGED <<sent, stage>>
      BY <2>3 DEF HandleCapabilities
    <3> HIDE DEF more
    <3> QED BY <2>0, <3>4, <3>5, AskConn
  <2>4. CASE HandleKeymap \/ HandleRate \/ HandleLeave \/ HandleSend
    BY <2>1, <2>4 DEF HandleKeymap, HandleRate, HandleLeave, HandleSend, Quietly
  <2>5. CASE HandleKey
    <3>1. CASE Says.pressed
      BY <2>5, <3>1, KeyPressConn DEF HandleKey, Turning
    <3>2. CASE ~Says.pressed
      BY <2>1, <2>5, <3>2 DEF HandleKey, Quietly
    <3> QED BY <3>1, <3>2
  <2>6. CASE HandleSelection
    <3>1. selection_offer # Nil => Request("destroy_offer", selection_offer, Nil) \in Asked
      BY Requests DEF ConnOK, SeatTypeOK
    <3> QED BY <2>1, <2>2, <2>6, <3>1 DEF HandleSelection
  <2>7. CASE HandleCancelled
    <3>1. Says \in Nat
      BY <2>7, TakenTypes, ToldFields DEF HandleCancelled, Says, ConnOK
    <3>2. Request("destroy", Says, Nil) \in Asked
      BY <3>1, Requests
    <3> QED BY <2>1, <2>2, <2>7, <3>2 DEF HandleCancelled
  <2>8. CASE HandlePointer
    <3>1. Says \in Nat \cup {Nil}
      BY <2>8, TakenTypes, ToldFields DEF HandlePointer, Says, ConnOK
    <3>2. PICK want \in Shape : UNCHANGED requests \/
            (Says # Nil /\ requests' = Append(requests, Request("shape", <<pointer_serial', want>>, Nil)))
      BY <2>8 DEF HandlePointer
    <3>3. Says # Nil => Request("shape", <<pointer_serial', want>>, Nil) \in Asked
      BY <2>8, <3>1, Requests DEF HandlePointer
    <3>4. UNCHANGED <<sent, stage>>
      BY <2>8 DEF HandlePointer
    <3> QED BY <2>1, <2>2, <3>2, <3>3, <3>4
  <2> QED BY <2>3, <2>4, <2>5, <2>6, <2>7, <2>8 DEF Handle
<1> QED BY <1>1, <1>2, <1>4 DEF ConnOK, Within

LEMMA WorldConn ==
  ASSUME ConnOK, World
  PROVE  ConnOK'
<1>t. SeatTypeOK'
  BY WorldTypes DEF ConnOK, SeatTypeOK
<1>1. CASE Serve
  <2>1. got' <= Units(coming')
    BY <1>1, ServeTells, TellConn DEF ConnOK, Serve
  <2>2. /\ requests # <<>> /\ requests' = Tail(requests) /\ Head(requests) \in Asked
        /\ sent' = sent - Head(requests).len /\ Head(requests).len \in Nat /\ stage' = stage
    BY <1>1, ServeTells, AskedFields DEF ConnOK, Serve
  <2>3. Units(requests') = Units(requests) - Head(requests).len /\ Units(requests) \in Nat
    BY <2>2, RequestUnits DEF ConnOK, SeatTypeOK
  <2>4. sent' <= Units(requests')
    BY <2>2, <2>3 DEF ConnOK, Within, SeatTypeOK
  <2>5. Lasting'
    <3>1. SUFFICES ASSUME Holding' PROVE requests' # <<>> /\ Last(requests').fd # Nil /\ sent' <= Units(requests') - Last(requests').len
      BY DEF Lasting
    <3>2. Holding
      BY <2>2, <3>1 DEF Holding
    <3>3. Last(requests') = Last(requests) /\ requests' # <<>>
      BY <1>1, <3>2, ServeLeavesLast
    <3>4. Last(requests).fd # Nil /\ sent <= Units(requests) - Last(requests).len
      BY <3>2 DEF ConnOK, Lasting
    <3>5. Last(requests).len \in Nat
      BY <3>3, <1>t, AskedFields, LenProperties, EmptySeq, ElementOfSeq DEF Last, SeatTypeOK
    <3>6. sent - Head(requests).len <= Units(requests) - Head(requests).len - Last(requests).len
      BY <2>2, <2>3, <3>4, <3>5 DEF ConnOK, SeatTypeOK
    <3>7. sent' <= Units(requests') - Last(requests).len
      BY <2>2, <2>3, <3>6
    <3> QED BY <3>3, <3>4, <3>7
  <2> QED BY <1>t, <2>1, <2>4, <2>5 DEF ConnOK, Within
<1>2. ASSUME NEW deed, Stroke(deed) PROVE UNCHANGED <<requests, sent, stage, got>>
  BY <1>2 DEF Stroke
<1>3. ASSUME NEW events \in Seq(Told), coming' = coming \o events, UNCHANGED <<requests, sent, stage, got>>
      PROVE  ConnOK'
  BY <1>3, <1>t, TellConn DEF ConnOK, Within, Lasting, Holding
<1>4. ASSUME NEW m \in Told, Tell(<<m>>), UNCHANGED <<requests, sent, stage, got>> PROVE ConnOK'
  BY <1>3, <1>4, Singly DEF Tell
<1>5. ASSUME NEW code \in Code, Press(code) \/ LetGo(code) PROVE ConnOK'
  <2>1. \A p \in BOOLEAN : Sending("key", [code |-> code, pressed |-> p], Nil) \in Told
    BY Events
  <2> QED BY <1>2, <1>4, <1>5, <2>1 DEF Press, LetGo
<1>6. CASE Leave \/ NewKeymap \/ NewRate
  <2>1. strokes + 1 \in Nat /\ {0, 1} \subseteq Nat
    BY DEF ConnOK, SeatTypeOK
  <2>2. /\ Sending("leave", Nil, Nil) \in Told /\ \A n \in Nat : Sending("rate", n, Nil) \in Told
        /\ Sending("keymap", Nil, <<"keymap", strokes + 1>>) \in Told
    BY <2>1, Events
  <2> QED BY <1>2, <1>4, <1>6, <2>1, <2>2 DEF Leave, NewKeymap, NewRate
<1>7. CASE Enter
  <2>1. Sending("selection", owner, Nil) \in Told
    BY Events DEF ConnOK, SeatTypeOK
  <2> QED BY <1>2, <1>4, <1>7, <2>1 DEF Enter
<1>8. CASE OtherCopies
  BY <1>2, <1>3, <1>8, OtherTells DEF OtherCopies, ConnOK
<1>9. CASE OtherPastes
  <2>1. owner.n \in Nat /\ strokes + 1 \in Nat
    BY <1>9 DEF OtherPastes, ConnOK, SeatTypeOK, Holder
  <2>2. Sending("send", owner.n, <<"send", strokes + 1>>) \in Told
    BY <2>1, Events
  <2> QED BY <1>2, <1>4, <1>9, <2>2 DEF OtherPastes
<1>10. CASE Point
  <2>1. Sending("pointer", pointer_on', Nil) \in Told
    BY <1>t, Events DEF SeatTypeOK
  <2> QED BY <1>10, <1>2, <1>4, <2>1 DEF Point
<1> QED BY <1>1, <1>5, <1>6, <1>7, <1>8, <1>9, <1>10 DEF World

LEMMA RestConn ==
  ASSUME ConnOK, PollReturns \/ Repeat \/ Fill \/ HandOver \/ Stall \/ EndPaste \/ FinishTurn
  PROVE  ConnOK'
<1>t. SeatTypeOK /\ sent <= Units(requests) /\ got <= Units(coming) /\ sent \in Nat /\ got \in Nat
      /\ Units(requests) \in Nat /\ Units(coming) \in Nat
  BY RequestUnits, EventUnits DEF ConnOK, Within, SeatTypeOK
<1>1. CASE PollReturns
  <2>1. held_key' \in [code : Code, due : BOOLEAN] \cup {Nil}
    <3>1. \A h \in [code : Code, due : BOOLEAN] : [h EXCEPT !.due = TRUE] \in [code : Code, due : BOOLEAN]
      OBVIOUS
    <3> QED BY <1>1, <3>1 DEF PollReturns, ConnOK, SeatTypeOK
  <2>2. stage' = "repeating" /\ UNCHANGED <<connVars, clipVars, cursorVars, worldVars, back>>
    BY <1>1 DEF PollReturns
  <2>3. SeatTypeOK'
    BY <1>t, <2>1, <2>2 DEF SeatTypeOK, connVars, clipVars, cursorVars, worldVars
  <2> QED BY <1>t, <2>2, <2>3 DEF ConnOK, Within, Lasting, Holding, connVars
<1>2. CASE Repeat
  <2>1. held_key' \in [code : Code, due : BOOLEAN] \cup {Nil}
    <3>1. \A h \in [code : Code, due : BOOLEAN], b \in BOOLEAN : [h EXCEPT !.due = b] \in [code : Code, due : BOOLEAN]
      OBVIOUS
    <3>2. (period = 0) \in BOOLEAN
      OBVIOUS
    <3> QED BY <1>2, <3>1, <3>2 DEF Repeat, ConnOK, SeatTypeOK
  <2>2. KeyPress(held_key.code, "repeating") /\ UNCHANGED <<riding, coming, got, fds, cursorVars, worldVars>>
    BY <1>2 DEF Repeat
  <2>3. SeatTypeOK'
    BY <1>t, <2>1, <2>2, KeyPressTypes DEF SeatTypeOK, Turning, cursorVars, worldVars
  <2> QED BY <1>t, <2>2, <2>3, KeyPressConn DEF ConnOK, Within, Turning
<1>3. CASE Fill
  <2>1. got' \in Nat /\ got <= got' /\ got' <= Units(coming)
    BY <1>3, <1>t DEF Fill
  <2>2. fds' \in Seq(Descriptor)
    BY <1>3, <1>t, <2>1, ArrivedMeets DEF Fill, SeatTypeOK
  <2>3. stage' = "reading" /\ UNCHANGED <<requests, sent, riding, coming, back, keyVars, clipVars, cursorVars, worldVars>>
    BY <1>3 DEF Fill
  <2>4. SeatTypeOK'
    BY <1>t, <2>1, <2>2, <2>3 DEF SeatTypeOK, keyVars, clipVars, cursorVars, worldVars
  <2> QED BY <1>t, <2>1, <2>3, <2>4 DEF ConnOK, Within, Lasting, Holding
<1>4. CASE HandOver
  <2>1. requests # <<>> /\ Last(requests).fd # Nil
    BY <1>4 DEF HandOver, ConnOK, Lasting, Holding
  <2>2. Last(requests).fd \in Descriptor
    BY <2>1, LenProperties, EmptySeq, ElementOfSeq, AskedFields DEF ConnOK, SeatTypeOK, Last
  <2>3. riding' \in Seq(Descriptor)
    BY <1>4, <1>t, <2>2, AppendProperties DEF HandOver, SeatTypeOK
  <2>4. sent' \in Nat /\ sent' <= Units(requests)
    BY <1>4, <1>t, FlushKeeps DEF HandOver, SeatTypeOK
  <2>5. stage' \in {"asleep", "pasting"} /\ UNCHANGED <<requests, coming, got, fds, back, keyVars, clipVars, cursorVars, owner, pointer_on, strokes>>
    BY <1>4 DEF HandOver
  <2>6. SeatTypeOK'
    BY <1>t, <2>3, <2>4, <2>5 DEF SeatTypeOK, keyVars, clipVars, cursorVars
  <2> QED BY <1>t, <2>4, <2>5, <2>6 DEF ConnOK, Within, Lasting, Holding
<1>5. CASE Stall
  <2>1. stage = "handing" /\ stage' \in {"gone", back} /\ UNCHANGED <<connVars, back, keyVars, clipVars, cursorVars, worldVars>>
    BY <1>5 DEF Stall
  <2>2. SeatTypeOK'
    BY <1>t, <2>1 DEF SeatTypeOK, connVars, keyVars, clipVars, cursorVars, worldVars
  <2>3. Lasting
    BY DEF ConnOK
  <2> QED BY <1>t, <2>1, <2>2, <2>3 DEF ConnOK, Within, Lasting, Holding, connVars
<1>6. CASE EndPaste
  <2>1. stage' = back /\ UNCHANGED <<connVars, back, keyVars, clipVars, cursorVars, owner, pointer_on, strokes>>
    BY <1>6 DEF EndPaste
  <2>2. SeatTypeOK'
    BY <1>t, <2>1 DEF SeatTypeOK, connVars, keyVars, clipVars, cursorVars
  <2> QED BY <1>t, <2>1, <2>2 DEF ConnOK, Within, Lasting, Holding, connVars, SeatTypeOK
<1>7. CASE FinishTurn
  <2>1. PICK op \in {"nothing", "draw", "grow"} :
          /\ strokes' = IF op = "nothing" THEN strokes ELSE strokes + 1
          /\ requests' = CASE op = "draw" -> Append(requests, Request("draw", Nil, Nil))
                           [] op = "grow" -> Append(requests, Request("pool", Nil, "pool"))
                           [] OTHER       -> requests
          /\ stage' = IF op = "grow" THEN "handing" ELSE "asleep"
          /\ sent' = Flushed(IF op = "grow" THEN requests ELSE requests')
    BY <1>7 DEF FinishTurn
  <2>2. UNCHANGED <<riding, coming, got, fds, back, keyVars, clipVars, cursorVars, owner, pointer_on>>
    BY <1>7 DEF FinishTurn
  <2>3. strokes' \in Nat
    BY <1>t, <2>1 DEF SeatTypeOK
  <2> DEFINE draw == Request("draw", Nil, Nil)
             mem == Request("pool", Nil, "pool")
  <2>4. draw \in Asked /\ mem \in Asked /\ mem.fd = "pool" /\ mem.len = 2 /\ draw.len \in Nat
    BY Requests, AskedFields, NilApart DEF Request
  <2>5. CASE op = "nothing"
    <3>1. requests' = requests /\ stage' = "asleep" /\ sent' = Flushed(requests)
      BY <2>1, <2>5
    <3>2. sent' \in Nat /\ sent' <= Units(requests)
      BY <1>t, <3>1, FlushKeeps DEF SeatTypeOK
    <3>3. SeatTypeOK'
      BY <1>t, <2>2, <2>3, <3>1, <3>2 DEF SeatTypeOK, keyVars, clipVars, cursorVars
    <3> QED BY <1>t, <2>2, <3>1, <3>2, <3>3 DEF ConnOK, Within, Lasting, Holding
  <2>6. CASE op = "draw"
    <3>1. requests' = Append(requests, draw) /\ stage' = "asleep" /\ sent' = Flushed(requests')
      BY <2>1, <2>6
    <3>2. requests' \in Seq(Asked) /\ Units(requests') = Units(requests) + draw.len
      BY <1>t, <2>4, <3>1, RequestUnits DEF SeatTypeOK
    <3>3. sent' \in Nat /\ sent' <= Units(requests')
      <4>1. Units(requests) \in Nat /\ sent \in Nat /\ draw.len \in Nat /\ sent <= Units(requests)
        BY <1>t, <2>4, RequestUnits DEF SeatTypeOK, ConnOK, Within
      <4>2. sent <= Units(requests')
        BY <3>2, <4>1
      <4> QED BY <1>t, <3>1, <3>2, <4>1, <4>2, FlushKeeps
    <3>4. SeatTypeOK'
      BY <1>t, <2>2, <2>3, <3>1, <3>2, <3>3 DEF SeatTypeOK, keyVars, clipVars, cursorVars
    <3> QED BY <1>t, <2>2, <3>1, <3>3, <3>4 DEF ConnOK, Within, Lasting, Holding
  <2>7. CASE op = "grow"
    <3>1. requests' = Append(requests, mem) /\ stage' = "handing" /\ sent' = Flushed(requests)
      BY <2>1, <2>7
    <3>2. requests' \in Seq(Asked) /\ Units(requests') = Units(requests) + 2 /\ requests' # <<>> /\ Last(requests') = mem
      BY <1>t, <2>4, <3>1, RequestUnits, LastOfAppend, SMTT(30) DEF SeatTypeOK
    <3>3. sent' \in Nat /\ sent' <= Units(requests)
      BY <1>t, <3>1, FlushKeeps DEF SeatTypeOK
    <3>4. SeatTypeOK'
      BY <1>t, <2>2, <2>3, <3>1, <3>2, <3>3 DEF SeatTypeOK, keyVars, clipVars, cursorVars
    <3>5. sent' <= Units(requests') /\ sent' <= Units(requests') - 2
      BY <1>t, <3>2, <3>3
    <3>6. mem.fd # Nil
      BY <2>4, NilApart
    <3> HIDE DEF mem
    <3>7. Lasting'
      BY <2>4, <3>2, <3>5, <3>6 DEF Lasting
    <3> QED BY <1>t, <2>2, <3>4, <3>5, <3>7 DEF ConnOK, Within
  <2> QED BY <2>5, <2>6, <2>7
<1> QED BY <1>1, <1>2, <1>3, <1>4, <1>5, <1>6, <1>7

LEMMA NextConn == ConnOK /\ [SeatNext]_seatVars => ConnOK'
<1>1. ASSUME ConnOK, UNCHANGED seatVars PROVE ConnOK'
  BY <1>1 DEF ConnOK, SeatTypeOK, Within, Lasting, Holding, seatVars, connVars, keyVars, clipVars, cursorVars, worldVars
<1> QED BY <1>1, HandleConn, WorldConn, RestConn DEF SeatNext, Gone

LEMMA InitConn == SeatInit => ConnOK
<1> SUFFICES ASSUME SeatInit PROVE ConnOK
  OBVIOUS
<1>1. {"keyboard"} \in SUBSET Device /\ {"keyboard", "pointer"} \in SUBSET Device
  BY DEF Device
<1>2. PICK caps \in SUBSET Device : coming = <<Sending("capabilities", caps, Nil)>>
  BY <1>1 DEF SeatInit
<1>3. Sending("capabilities", caps, Nil) \in Told
  BY Events
<1>4. coming \in Seq(Told)
  BY <1>2, <1>3
<1>5. SeatTypeOK
  BY <1>4, EmptySeq DEF SeatInit, SeatTypeOK
<1>6. Units(requests) = 0 /\ Units(coming) \in Nat
  BY <1>4, EventUnits, UnitsOfFew DEF SeatInit
<1>7. Within
  BY <1>6 DEF Within, SeatInit
<1> QED BY <1>5, <1>7 DEF ConnOK, Lasting, Holding, SeatInit

-----------------------------------------------------------------------------
(* Every descriptor under way has its message, on the way out (Riding) and *)
(* on the way in (Fetched).                                                *)

Riding == Meets(riding, requests, HandedOver)
Fetched == Meets(fds, coming, Begun(got))

LEMMA ConcatAt ==
  ASSUME NEW S, NEW s \in Seq(S), NEW e \in Seq(S)
  PROVE  /\ s \o e \in Seq(S) /\ Len(s \o e) = Len(s) + Len(e) /\ Len(s) \in Nat /\ Len(e) \in Nat
         /\ \A i \in 1..Len(s) : (s \o e)[i] = s[i] /\ i \in 1..Len(s \o e)
         /\ \A k \in 1..Len(s \o e) :
              k \in 1..Len(s) \/ (k - Len(s) \in 1..Len(e) /\ (s \o e)[k] = e[k - Len(s)] /\ k > Len(s))
<1>1. /\ s \o e \in Seq(S) /\ Len(s \o e) = Len(s) + Len(e) /\ Len(s) \in Nat /\ Len(e) \in Nat
      /\ \A i \in 1..(Len(s) + Len(e)) : (s \o e)[i] = IF i <= Len(s) THEN s[i] ELSE e[i - Len(s)]
  BY ConcatProperties, LenProperties
<1>2. \A i \in 1..Len(s) : i \in 1..(Len(s) + Len(e)) /\ i <= Len(s)
  BY <1>1
<1>3. \A k \in 1..(Len(s) + Len(e)) : k \in 1..Len(s) \/ (k - Len(s) \in 1..Len(e) /\ ~(k <= Len(s)) /\ k > Len(s))
  BY <1>1
<1> QED BY <1>1, <1>2, <1>3

LEMMA TailAt ==
  ASSUME NEW S, NEW s \in Seq(S), s # <<>>
  PROVE  /\ Tail(s) \in Seq(S) /\ Len(Tail(s)) = Len(s) - 1 /\ Len(s) \in Nat /\ Len(s) > 0
         /\ Head(s) = s[1] /\ 1 \in 1..Len(s)
         /\ \A k \in 1..Len(Tail(s)) : Tail(s)[k] = s[k + 1] /\ k + 1 \in 1..Len(s) /\ k + 1 # 1
BY HeadTailProperties, LenProperties, EmptySeq

\* Requests asked for: none has let its descriptor go, and only the last one has one.
LEMMA AskMeets ==
  ASSUME ConnOK, Riding, ~Holding, NEW more \in Seq(Asked), requests' = requests \o more, UNCHANGED riding,
         \A i \in 1..Len(more) : more[i].fd # Nil => Holding' /\ i = Len(more),
         Holding' => more # <<>>
  PROVE  Riding'
<1>r. requests \in Seq(Asked)
  BY DEF ConnOK, SeatTypeOK
<1>1. /\ Len(requests') = Len(requests) + Len(more) /\ Len(requests) \in Nat /\ Len(more) \in Nat
      /\ \A i \in 1..Len(requests) : requests'[i] = requests[i] /\ i \in 1..Len(requests')
      /\ \A k \in 1..Len(requests') :
           k \in 1..Len(requests) \/ (k - Len(requests) \in 1..Len(more) /\ requests'[k] = more[k - Len(requests)] /\ k > Len(requests))
  BY <1>r, ConcatAt
<1>2. ASSUME NEW k \in HandedOver' PROVE k \in HandedOver
  <2>1. k \in 1..Len(requests') /\ requests'[k].fd # Nil /\ ~(Holding' /\ k = Len(requests'))
    BY <1>2 DEF HandedOver
  <2>2. CASE k \in 1..Len(requests)
    BY <1>1, <2>1, <2>2 DEF HandedOver
  <2>3. CASE k - Len(requests) \in 1..Len(more) /\ requests'[k] = more[k - Len(requests)]
    <3>1. Holding' /\ k - Len(requests) = Len(more)
      BY <2>1, <2>3
    <3> QED BY <1>1, <2>1, <3>1
  <2> QED BY <1>1, <2>1, <2>2, <2>3
<1>3. ASSUME NEW k \in HandedOver PROVE k \in HandedOver'
  <2>1. k \in 1..Len(requests) /\ requests[k].fd # Nil
    BY <1>3 DEF HandedOver
  <2>2. requests'[k].fd # Nil /\ k \in 1..Len(requests')
    BY <1>1, <2>1
  <2>3. Holding' => k # Len(requests')
    <3>1. SUFFICES ASSUME Holding' PROVE k # Len(requests')
      OBVIOUS
    <3>2. Len(more) # 0
      BY <3>1, EmptySeq
    <3> QED BY <1>1, <2>1, <3>2
  <2> QED BY <2>2, <2>3 DEF HandedOver
<1>4. HandedOver' = HandedOver
  BY <1>2, <1>3
<1>5. Meets(riding, requests \o more, HandedOver)
  BY <1>r, MeetsLonger DEF Riding
<1> QED BY <1>4, <1>5 DEF Riding

LEMMA RidingKept ==
  ASSUME Riding, UNCHANGED <<requests, riding>>, Holding' <=> Holding
  PROVE  Riding'
<1>1. HandedOver' = HandedOver
  BY DEF HandedOver
<1> QED BY <1>1 DEF Riding

LEMMA HandOverMeets ==
  ASSUME ConnOK, Riding, HandOver
  PROVE  Riding'
<1>1. Holding /\ ~Holding'
  BY DEF HandOver, Holding
<1>2. requests \in Seq(Asked) /\ riding \in Seq(Descriptor) /\ requests # <<>> /\ Last(requests).fd # Nil
  BY <1>1 DEF ConnOK, SeatTypeOK, Lasting
<1> DEFINE N == Len(requests)
<1>3. N \in 1..Len(requests) /\ N \in Nat /\ Last(requests) = requests[N]
  BY <1>2, LenProperties, EmptySeq DEF Last
<1>4. requests[N].fd \in Descriptor
  BY <1>2, <1>3, ElementOfSeq, AskedFields
<1>5. \A k \in HandedOver : k < N
  BY <1>1, <1>3 DEF HandedOver
<1>6. riding' = Append(riding, requests[N].fd) /\ requests' = requests
  BY <1>3 DEF HandOver
<1>7. HandedOver' = HandedOver \cup {N}
  BY <1>1, <1>2, <1>3, <1>6 DEF HandedOver
<1> HIDE DEF N
<1>8. Meets(Append(riding, requests[N].fd), requests, HandedOver \cup {N})
  BY <1>2, <1>3, <1>4, <1>5, MeetsAppend DEF Riding
<1> QED BY <1>6, <1>7, <1>8 DEF Riding

LEMMA ServeMeets ==
  ASSUME ConnOK, Riding, Serve
  PROVE  Riding' /\ (crossed' => crossed)
<1>r. requests \in Seq(Asked) /\ riding \in Seq(Descriptor) /\ requests # <<>>
  BY DEF ConnOK, SeatTypeOK, Serve
<1>1. /\ requests' = Tail(requests) /\ (Holding' <=> Holding)
      /\ riding' = IF Head(requests).fd = Nil \/ riding = <<>> THEN riding ELSE Tail(riding)
      /\ crossed' = (crossed \/ (Head(requests).fd # Nil /\ (riding = <<>> \/ Head(riding) # Head(requests).fd)))
  BY DEF Serve, Holding
<1>2. /\ Len(Tail(requests)) = Len(requests) - 1 /\ Len(requests) \in Nat /\ Len(requests) > 0
      /\ Head(requests) = requests[1] /\ 1 \in 1..Len(requests)
      /\ \A k \in 1..Len(Tail(requests)) : Tail(requests)[k] = requests[k + 1] /\ k + 1 \in 1..Len(requests) /\ k + 1 # 1
  BY <1>r, TailAt
<1>3. 1 \in HandedOver <=> Head(requests).fd # Nil
  <2>1. Holding => Len(requests) # 1
    BY ServeLeavesLast, <1>2
  <2> QED BY <1>2, <2>1 DEF HandedOver
<1>4. HandedOver' = {k \in 1..Len(Tail(requests)) : k + 1 \in HandedOver \ {1}}
  <2>1. \A k \in 1..Len(Tail(requests)) : k = Len(Tail(requests)) <=> k + 1 = Len(requests)
    BY <1>2
  <2> QED BY <1>1, <1>2, <2>1 DEF HandedOver
<1>5. CASE Head(requests).fd = Nil
  <2>1. 1 \notin HandedOver /\ HandedOver \ {1} = HandedOver
    BY <1>3, <1>5
  <2>2. Meets(riding, Tail(requests), HandedOver')
    BY <1>r, <1>4, <2>1, MeetsShift DEF Riding
  <2>3. riding' = riding
    BY <1>1, <1>5
  <2>4. Riding'
    BY <1>1, <2>2, <2>3 DEF Riding
  <2>5. crossed' = (crossed \/ FALSE)
    BY <1>1, <1>5
  <2> QED BY <2>4, <2>5
<1>6. CASE Head(requests).fd # Nil
  <2>1. 1 \in HandedOver /\ \A k \in HandedOver : 1 <= k
    BY <1>3, <1>6 DEF HandedOver
  <2>2. riding # <<>> /\ Head(riding) = requests[1].fd /\ Meets(Tail(riding), requests, HandedOver \ {1})
    BY <1>r, <2>1, MeetsTail DEF Riding
  <2>3. Tail(riding) \in Seq(Descriptor)
    BY <1>r, <2>2, HeadTailProperties
  <2>4. Meets(Tail(riding), Tail(requests), HandedOver')
    BY <1>r, <1>4, <2>2, <2>3, MeetsShift
  <2>5. riding' = Tail(riding)
    BY <1>1, <1>6, <2>2
  <2>6. Head(riding) = Head(requests).fd
    BY <1>2, <2>2
  <2>7. Riding'
    BY <1>1, <2>4, <2>5 DEF Riding
  <2>8. crossed' = (crossed \/ FALSE)
    BY <1>1, <2>2, <2>6
  <2> QED BY <2>7, <2>8
<1> QED BY <1>5, <1>6

LEMMA TellMeets ==
  ASSUME ConnOK, Fetched, NEW events \in Seq(Told), coming' = coming \o events, UNCHANGED <<got, fds>>
  PROVE  Fetched'
<1>1. coming \in Seq(Told) /\ got \in Nat /\ got <= Units(coming) /\ Units(coming) \in Nat /\ \A m \in Told : m.len \in Nat
  BY EventUnits, ToldFields DEF ConnOK, SeatTypeOK, Within
<1>2. /\ \A i \in 1..Len(coming) : coming'[i] = coming[i] /\ i \in 1..Len(coming')
      /\ \A k \in 1..Len(coming') : k \in 1..Len(coming) \/ k \in (Len(coming) + 1)..Len(coming')
  BY <1>1, ConcatAt
<1>3. /\ \A k \in 1..Len(coming) : Start(coming', k) = Start(coming, k)
      /\ \A k \in (Len(coming) + 1)..Len(coming') : Start(coming', k) >= Units(coming)
  BY <1>1, StartInConcat
<1>4. \A k \in (Len(coming) + 1)..Len(coming') : k \in 1..Len(coming')
  BY <1>1, LenProperties
<1>5. coming' \in Seq(Told)
  BY <1>1, ConcatProperties
<1>6. \A k \in 1..Len(coming') : Start(coming', k) \in Nat
  BY <1>1, <1>5, StartsAscend
<1>7. \A k \in (Len(coming) + 1)..Len(coming') : ~(Start(coming', k) < got)
  BY <1>1, <1>3, <1>4, <1>6
<1>8. Begun(got)' = Begun(got)
  BY <1>1, <1>2, <1>3, <1>7 DEF Begun
<1>9. Meets(fds, coming \o events, Begun(got))
  BY <1>1, MeetsLonger DEF Fetched
<1> QED BY <1>8, <1>9 DEF Fetched

LEMMA ReadKept ==
  ASSUME Fetched, UNCHANGED <<coming, got, fds>>
  PROVE  Fetched'
BY DEF Fetched, Begun

\* Taking a message off leaves what had begun of the rest.
LEMMA TakenBegun ==
  ASSUME ConnOK, NEW op, Taken(op)
  PROVE  /\ 1 \in Begun(got) <=> Head(coming).fd # Nil
         /\ Begun(got)' = {k \in 1..Len(Tail(coming)) : k + 1 \in Begun(got) \ {1}}
         /\ coming' = Tail(coming) /\ coming \in Seq(Told) /\ coming # <<>> /\ Head(coming) = coming[1]
<1>1. /\ coming \in Seq(Told) /\ got \in Nat /\ coming # <<>> /\ Head(coming) \in Told
      /\ coming' = Tail(coming) /\ got' = got - Head(coming).len /\ \A m \in Told : m.len \in Nat /\ m.len > 0
  BY TakenTypes, ToldFields DEF ConnOK, SeatTypeOK
<1>2. /\ Len(Tail(coming)) = Len(coming) - 1 /\ Len(coming) \in Nat /\ Len(coming) > 0
      /\ Head(coming) = coming[1] /\ 1 \in 1..Len(coming)
      /\ \A k \in 1..Len(Tail(coming)) : Tail(coming)[k] = coming[k + 1] /\ k + 1 \in 1..Len(coming) /\ k + 1 # 1
  BY <1>1, TailAt
<1>3. got > 0 /\ Head(coming).len \in Nat /\ got' = got - Head(coming).len
  BY <1>1 DEF Taken, Complete
<1>4. 1 \in Begun(got) <=> Head(coming).fd # Nil
  BY <1>2, <1>3, StartOfFirst DEF Begun
<1>5. \A k \in 1..Len(Tail(coming)) : Start(Tail(coming), k) = Start(coming, k + 1) - Head(coming).len
  BY <1>1, StartInTail
<1>6. \A k \in 1..Len(coming) : Start(coming, k) \in Nat
  BY <1>1, StartsAscend
<1>7. \A k \in 1..Len(Tail(coming)) : Start(Tail(coming), k) < got' <=> Start(coming, k + 1) < got
  BY <1>1, <1>2, <1>3, <1>5, <1>6
<1>8. Begun(got)' = {k \in 1..Len(Tail(coming)) : k + 1 \in Begun(got) \ {1}}
  BY <1>1, <1>2, <1>7 DEF Begun
<1> QED BY <1>1, <1>2, <1>4, <1>8

LEMMA TakenPlain ==
  ASSUME ConnOK, Fetched, NEW op, Taken(op), Head(coming).fd = Nil, UNCHANGED fds
  PROVE  Fetched'
<1>1. 1 \notin Begun(got) /\ Begun(got)' = {k \in 1..Len(Tail(coming)) : k + 1 \in Begun(got)}
  BY TakenBegun
<1>2. fds \in Seq(Descriptor) /\ coming \in Seq(Told) /\ coming # <<>> /\ coming' = Tail(coming)
  BY TakenBegun DEF ConnOK, SeatTypeOK
<1>3. Meets(fds, Tail(coming), Begun(got)')
  BY <1>1, <1>2, MeetsShift DEF Fetched
<1> QED BY <1>2, <1>3 DEF Fetched

LEMMA TakenWithFd ==
  ASSUME ConnOK, Fetched, NEW op, Taken(op), Head(coming).fd # Nil, TakeFd
  PROVE  Fetched' /\ (crossed' => crossed)
<1>1. 1 \in Begun(got) /\ Begun(got)' = {k \in 1..Len(Tail(coming)) : k + 1 \in Begun(got) \ {1}}
      /\ \A k \in Begun(got) : 1 <= k
  BY TakenBegun DEF Begun
<1>2. fds \in Seq(Descriptor) /\ coming \in Seq(Told) /\ coming # <<>> /\ coming' = Tail(coming) /\ Head(coming) = coming[1]
  BY TakenBegun DEF ConnOK, SeatTypeOK
<1>3. fds # <<>> /\ Head(fds) = coming[1].fd /\ Meets(Tail(fds), coming, Begun(got) \ {1})
  BY <1>1, <1>2, MeetsTail DEF Fetched
<1>4. Tail(fds) \in Seq(Descriptor)
  BY <1>2, <1>3, HeadTailProperties
<1>5. Meets(Tail(fds), Tail(coming), Begun(got)')
  BY <1>1, <1>2, <1>3, <1>4, MeetsShift
<1>6. fds' = Tail(fds) /\ crossed' = (crossed \/ FALSE)
  <2>1. fds' = Tail(fds)
    BY <1>3 DEF TakeFd
  <2>2. Head(fds) = Head(coming).fd
    BY <1>2, <1>3
  <2> QED BY <1>3, <2>1, <2>2 DEF TakeFd
<1> QED BY <1>2, <1>5, <1>6 DEF Fetched

Plain == {r \in Asked : r.fd = Nil}

LEMMA PlainMeets ==
  ASSUME ConnOK, Riding, ~Holding, NEW more \in Seq(Plain), requests' = requests \o more, UNCHANGED riding, ~Holding'
  PROVE  Riding'
<1>1. more \in Seq(Asked) /\ \A i \in 1..Len(more) : more[i].fd = Nil
  BY SeqMonotonic, ElementOfSeq DEF Plain
<1> QED BY <1>1, AskMeets

LEMMA AppendMeets ==
  ASSUME ConnOK, Riding, ~Holding, NEW r \in Asked, requests' = Append(requests, r), UNCHANGED riding, Holding' <=> r.fd # Nil
  PROVE  Riding'
<1>1. <<r>> \in Seq(Asked) /\ requests' = requests \o <<r>> /\ <<r>> # <<>>
  BY AppendIsConcat DEF ConnOK, SeatTypeOK
<1>2. \A i \in 1..Len(<<r>>) : <<r>>[i] = r /\ i = Len(<<r>>)
  OBVIOUS
<1> QED BY <1>1, <1>2, AskMeets

LEMMA KeyPressMeets ==
  ASSUME ConnOK, Riding, ~Holding, NEW code, NEW here \in Turning, KeyPress(code, here), UNCHANGED riding
  PROVE  Riding'
<1>h. here # "handing" /\ here # "gone"
  BY DEF Turning
<1>1. CASE OfferSelection(here)
  <2> DEFINE old == IF data_source = Nil THEN <<>> ELSE <<Request("destroy", data_source, Nil)>>
             new == <<Request("select", copies + 1, Nil)>>
  <2>1. \A n \in Nat : Request("destroy", n, Nil) \in Plain /\ Request("select", n, Nil) \in Plain
    BY Requests DEF Plain, Request
  <2>2. (data_source # Nil => data_source \in Nat) /\ copies + 1 \in Nat /\ requests \in Seq(Asked)
    BY DEF ConnOK, SeatTypeOK
  <2>3. old \in Seq(Plain) /\ new \in Seq(Plain)
    <3>1. \A r \in Plain : <<r>> \in Seq(Plain)
      OBVIOUS
    <3>2. <<>> \in Seq(Plain)
      OBVIOUS
    <3> QED BY <2>1, <2>2, <3>1, <3>2
  <2>4. requests' = (requests \o old) \o new /\ stage' = here
    BY <1>1 DEF OfferSelection
  <2> HIDE DEF old, new
  <2>5. old \in Seq(Asked) /\ new \in Seq(Asked) /\ old \o new \in Seq(Plain)
    BY <2>3, SeqMonotonic, ConcatProperties DEF Plain
  <2>6. requests' = requests \o (old \o new)
    BY <2>2, <2>4, <2>5, ConcatAssociative, SMTT(30)
  <2>7. ~Holding'
    BY <1>h, <2>4 DEF Holding
  <2> QED BY <2>5, <2>6, <2>7, PlainMeets
<1>2. CASE stage' = here /\ UNCHANGED <<requests, sent, back, clipVars>>
  <2>1. ~Holding'
    BY <1>2, <1>h DEF Holding
  <2> QED BY <1>2, <2>1, RidingKept
<1>3. CASE Paste(here)
  <2> DEFINE ask == Request("receive", selection_offer, "pipe")
  <2>1. CASE ask \in Asked /\ ask.fd = "pipe" /\ requests' = Append(requests, ask) /\ stage' = "handing"
    <3>1. Holding' /\ "pipe" # Nil
      BY <2>1, NilApart DEF Holding
    <3> HIDE DEF ask
    <3> QED BY <2>1, <3>1, AppendMeets
  <2> QED BY <1>2, <1>3, <2>1, PasteAsks
<1> QED BY <1>1, <1>2, <1>3 DEF KeyPress

\* The two streams go on as they do, unless something strays.
LEMMA MeetsOn ==
  ASSUME StreamsMeet, strayed => strayed',
         ~strayed /\ ~strayed' /\ Riding => Riding' /\ (crossed' => crossed),
         ~strayed /\ ~strayed' /\ Fetched => Fetched' /\ (crossed' => crossed)
  PROVE  StreamsMeet'
BY DEF StreamsMeet, Riding, Fetched

LEMMA HandleMeets ==
  ASSUME ConnOK, StreamsMeet, Handle
  PROVE  StreamsMeet'
<1>0. stage = "reading" /\ UNCHANGED riding /\ ~Holding
  BY DEF Handle, HandleCapabilities, HandleKeymap, HandleRate, HandleKey, HandleLeave,
    HandleSelection, HandleSend, HandleCancelled, HandlePointer, Taken, Holding
<1>t. \A op : Taken(op) => Head(coming) \in Told /\ Head(coming).op = op
               /\ (op \in {"keymap", "send"} <=> Head(coming).fd # Nil)
  BY TakenTypes, ToldFields DEF ConnOK
<1>p. ASSUME NEW op, Taken(op), op \notin {"keymap", "send"}, UNCHANGED fds, Fetched PROVE Fetched'
  BY <1>p, <1>t, TakenPlain
<1>k. ASSUME UNCHANGED <<requests, stage>>, Riding PROVE Riding'
  BY <1>k, <1>0, RidingKept DEF Holding
<1>a. ASSUME NEW r \in Asked, r.fd = Nil, requests' = Append(requests, r), UNCHANGED stage, Riding PROVE Riding'
  BY <1>a, <1>0, AppendMeets DEF Holding
<1>h. ASSUME NEW op, Taken(op), op \notin {"keymap", "send"}, UNCHANGED <<fds, crossed, strayed>>, Riding => Riding'
      PROVE  StreamsMeet'
  BY <1>h, <1>p, MeetsOn
<1>1. CASE HandleCapabilities
  <2> DEFINE more == SetToSeq({Request("get", d, Nil) : d \in (Says \cup {"device"}) \ bound})
  <2>1. Says \subseteq Device
    BY <1>1, TakenTypes, ToldFields DEF HandleCapabilities, Says, ConnOK
  <2>2. (Says \cup {"device"}) \ bound \in SUBSET Device
    BY <2>1 DEF Device
  <2>3. more \in Seq(Gets)
    BY <2>2, GetsAreAsked
  <2>4. more \in Seq(Plain)
    BY <2>3, GetsAreGets, SeqMonotonic DEF Plain
  <2>5. requests' = requests \o more /\ UNCHANGED <<stage, fds, crossed, strayed>> /\ Taken("capabilities")
    BY <1>1 DEF HandleCapabilities, historyVars
  <2> HIDE DEF more
  <2>6. ~Holding'
    BY <1>0, <2>5 DEF Holding
  <2> QED BY <1>0, <1>h, <2>4, <2>5, <2>6, PlainMeets
<1>2. CASE HandleKeymap
  <2>1. Taken("keymap") /\ TakeFd /\ UNCHANGED <<requests, stage, strayed>>
    BY <1>2 DEF HandleKeymap, Quietly
  <2>2. Head(coming).fd # Nil
    BY <1>t, <2>1
  <2> QED BY <1>k, <2>1, <2>2, TakenWithFd DEF StreamsMeet, Riding, Fetched
<1>3. CASE HandleRate \/ HandleLeave
  BY <1>3, <1>k, <1>h DEF HandleRate, HandleLeave, Quietly, historyVars
<1>4. CASE HandleKey
  <2>1. Taken("key") /\ UNCHANGED <<fds, crossed, strayed>>
    BY <1>4 DEF HandleKey, historyVars
  <2>2. CASE Says.pressed
    <3>1. KeyPress(Says.code, "reading") /\ "reading" \in Turning
      BY <1>4, <2>2 DEF HandleKey, Turning
    <3>2. Riding => Riding'
      BY <1>0, <3>1, KeyPressMeets
    <3> QED BY <1>h, <2>1, <3>2
  <2>3. CASE ~Says.pressed
    BY <1>4, <1>k, <1>h, <2>1, <2>3 DEF HandleKey, Quietly
  <2> QED BY <2>2, <2>3
<1>5. CASE HandleSelection
  <2>1. Taken("selection") /\ UNCHANGED <<fds, stage, crossed, strayed>>
    BY <1>5 DEF HandleSelection, historyVars
  <2>2. selection_offer # Nil => Request("destroy_offer", selection_offer, Nil) \in Asked
                                 /\ Request("destroy_offer", selection_offer, Nil).fd = Nil
    BY Requests DEF ConnOK, SeatTypeOK, Request
  <2>3. Riding => Riding'
    BY <1>5, <1>a, <1>k, <2>1, <2>2 DEF HandleSelection
  <2> QED BY <1>h, <2>1, <2>3
<1>6. CASE HandleSend
  <2>1. Taken("send") /\ UNCHANGED <<requests, stage>>
    BY <1>6 DEF HandleSend, Quietly
  <2>2. Head(coming).fd # Nil
    BY <1>t, <2>1
  <2>3. CASE strayed' = TRUE
    BY <2>3 DEF StreamsMeet
  <2>4. CASE TakeFd /\ UNCHANGED strayed
    BY <1>k, <2>1, <2>2, <2>4, TakenWithFd DEF StreamsMeet, Riding, Fetched
  <2> QED BY <1>6, <2>3, <2>4 DEF HandleSend
<1>7. CASE HandleCancelled
  <2>1. Taken("cancelled") /\ UNCHANGED <<fds, stage, crossed, strayed>>
    BY <1>7 DEF HandleCancelled, historyVars
  <2>2. Says \in Nat
    BY <2>1, TakenTypes, ToldFields DEF Says, ConnOK
  <2>3. Request("destroy", Says, Nil) \in Asked /\ Request("destroy", Says, Nil).fd = Nil
    BY <2>2, Requests DEF Request
  <2>4. Riding => Riding'
    BY <1>7, <1>a, <1>k, <2>1, <2>3 DEF HandleCancelled
  <2> QED BY <1>h, <2>1, <2>4
<1>8. CASE HandlePointer
  <2>1. Taken("pointer") /\ UNCHANGED <<fds, stage, crossed, strayed>>
    BY <1>8 DEF HandlePointer, historyVars
  <2>2. Says \in Nat \cup {Nil}
    BY <2>1, TakenTypes, ToldFields DEF Says, ConnOK
  <2>3. PICK want \in Shape : UNCHANGED requests \/
            (Says # Nil /\ requests' = Append(requests, Request("shape", <<pointer_serial', want>>, Nil)))
    BY <1>8 DEF HandlePointer
  <2>4. Says # Nil => Request("shape", <<pointer_serial', want>>, Nil) \in Asked
                      /\ Request("shape", <<pointer_serial', want>>, Nil).fd = Nil
    BY <1>8, <2>2, Requests DEF HandlePointer, Request
  <2>5. Riding => Riding'
    BY <1>a, <1>k, <2>1, <2>3, <2>4
  <2> QED BY <1>h, <2>1, <2>5
<1> QED BY <1>1, <1>2, <1>3, <1>4, <1>5, <1>6, <1>7, <1>8 DEF Handle

LEMMA WorldMeets ==
  ASSUME ConnOK, StreamsMeet, World
  PROVE  StreamsMeet'
<1>1. CASE Serve
  <2>1. News \in Seq(Told) /\ coming' = coming \o News /\ UNCHANGED <<got, fds, strayed>>
    BY <1>1, ServeTells DEF ConnOK, Serve
  <2>2. Riding => Riding' /\ (crossed' => crossed)
    BY <1>1, ServeMeets
  <2>3. Fetched => Fetched'
    BY <2>1, TellMeets
  <2> QED BY <2>1, <2>2, <2>3 DEF StreamsMeet, Riding, Fetched
<1>2. ASSUME NEW deed, Stroke(deed) PROVE UNCHANGED <<requests, riding, stage, got, fds, crossed, strayed>>
  BY <1>2 DEF Stroke, historyVars
<1>3. ASSUME NEW events \in Seq(Told), coming' = coming \o events, UNCHANGED <<requests, riding, stage, got, fds, crossed, strayed>>
      PROVE  StreamsMeet'
  <2>1. Riding => Riding'
    BY <1>3, RidingKept DEF Holding
  <2>2. Fetched => Fetched'
    BY <1>3, TellMeets
  <2> QED BY <1>3, <2>1, <2>2, MeetsOn
<1>4. ASSUME NEW m \in Told, Tell(<<m>>), UNCHANGED <<requests, riding, stage, got, fds, crossed, strayed>> PROVE StreamsMeet'
  BY <1>3, <1>4, Singly DEF Tell
<1>5. ASSUME NEW code \in Code, Press(code) \/ LetGo(code) PROVE StreamsMeet'
  <2>1. \A p \in BOOLEAN : Sending("key", [code |-> code, pressed |-> p], Nil) \in Told
    BY Events
  <2> QED BY <1>2, <1>4, <1>5, <2>1 DEF Press, LetGo
<1>6. CASE Leave \/ NewKeymap \/ NewRate
  <2>1. strokes + 1 \in Nat /\ {0, 1} \subseteq Nat
    BY DEF ConnOK, SeatTypeOK
  <2>2. /\ Sending("leave", Nil, Nil) \in Told /\ \A n \in Nat : Sending("rate", n, Nil) \in Told
        /\ Sending("keymap", Nil, <<"keymap", strokes + 1>>) \in Told
    BY <2>1, Events
  <2> QED BY <1>2, <1>4, <1>6, <2>1, <2>2 DEF Leave, NewKeymap, NewRate
<1>7. CASE Enter
  <2>1. Sending("selection", owner, Nil) \in Told
    BY Events DEF ConnOK, SeatTypeOK
  <2> QED BY <1>2, <1>4, <1>7, <2>1 DEF Enter
<1>8. CASE OtherCopies
  BY <1>2, <1>3, <1>8, OtherTells DEF OtherCopies, ConnOK
<1>9. CASE OtherPastes
  <2>1. owner.n \in Nat /\ strokes + 1 \in Nat
    BY <1>9 DEF OtherPastes, ConnOK, SeatTypeOK, Holder
  <2>2. Sending("send", owner.n, <<"send", strokes + 1>>) \in Told
    BY <2>1, Events
  <2> QED BY <1>2, <1>4, <1>9, <2>2 DEF OtherPastes
<1>10. CASE Point
  <2>1. pointer_on' \in Nat \cup {Nil}
    BY <1>10, WorldTypes DEF World, ConnOK, SeatTypeOK
  <2>2. Sending("pointer", pointer_on', Nil) \in Told
    BY <2>1, Events
  <2> QED BY <1>10, <1>2, <1>4, <2>2 DEF Point
<1> QED BY <1>1, <1>5, <1>6, <1>7, <1>8, <1>9, <1>10 DEF World

LEMMA RestMeets ==
  ASSUME ConnOK, StreamsMeet, PollReturns \/ Repeat \/ Fill \/ HandOver \/ Stall \/ EndPaste \/ FinishTurn
  PROVE  StreamsMeet'
<1>1. CASE PollReturns \/ EndPaste
  <2>1. UNCHANGED <<requests, riding, coming, got, fds, crossed, strayed>> /\ ~Holding /\ ~Holding'
    BY <1>1 DEF PollReturns, EndPaste, connVars, historyVars, Holding, ConnOK, SeatTypeOK
  <2> QED BY <2>1, RidingKept, ReadKept, MeetsOn
<1>2. CASE Repeat
  <2>1. UNCHANGED <<riding, coming, got, fds, crossed, strayed>> /\ ~Holding /\ KeyPress(held_key.code, "repeating")
    BY <1>2 DEF Repeat, historyVars, Holding
  <2>2. "repeating" \in Turning
    BY DEF Turning
  <2> QED BY <2>1, <2>2, KeyPressMeets, ReadKept, MeetsOn
<1>3. CASE Fill
  <2>1. UNCHANGED <<requests, riding, coming, crossed, strayed>> /\ ~Holding /\ ~Holding'
    BY <1>3 DEF Fill, historyVars, Holding
  <2>2. got \in Nat /\ Units(coming) \in Nat /\ got' \in got..Units(coming)
    BY <1>3, EventUnits DEF Fill, ConnOK, SeatTypeOK
  <2>3. got' \in Nat /\ got <= got' /\ fds \in Seq(Descriptor)
    BY <2>2 DEF ConnOK, SeatTypeOK
  <2>4. Meets(fds, coming, Begun(got)) => Meets(fds \o Arrived(got, got'), coming, Begun(got'))
    BY <2>2, <2>3, ArrivedMeets DEF ConnOK
  <2>5. fds' = fds \o Arrived(got, got')
    BY <1>3 DEF Fill
  <2>6. Begun(got)' = Begun(got')
    BY <2>1 DEF Begun
  <2>7. Fetched => Fetched'
    BY <2>1, <2>4, <2>5, <2>6 DEF Fetched
  <2> QED BY <2>1, <2>7, RidingKept, MeetsOn
<1>4. CASE HandOver
  <2>1. UNCHANGED <<coming, got, fds, crossed, strayed>>
    BY <1>4 DEF HandOver, historyVars
  <2> QED BY <1>4, <2>1, HandOverMeets, ReadKept, MeetsOn
<1>5. CASE Stall
  <2>1. UNCHANGED <<requests, riding, coming, got, fds, crossed>> /\ Holding
    BY <1>5 DEF Stall, connVars, Holding
  <2>2. CASE strayed' = TRUE
    BY <2>2 DEF StreamsMeet
  <2>3. CASE stage' = "gone" /\ UNCHANGED strayed
    <3>1. Holding'
      BY <2>3 DEF Holding
    <3> QED BY <2>1, <2>3, <3>1, RidingKept, ReadKept, MeetsOn
  <2> QED BY <1>5, <2>2, <2>3 DEF Stall
<1>6. CASE FinishTurn
  <2>1. UNCHANGED <<riding, coming, got, fds, crossed, strayed>> /\ ~Holding
    BY <1>6 DEF FinishTurn, historyVars, Holding
  <2> DEFINE draw == Request("draw", Nil, Nil)
             mem == Request("pool", Nil, "pool")
  <2>2. draw \in Asked /\ mem \in Asked /\ mem.fd # Nil /\ draw.fd = Nil
    BY Requests, NilApart DEF Request
  <2>3. \/ requests' = requests /\ stage' = "asleep"
        \/ requests' = Append(requests, draw) /\ stage' = "asleep"
        \/ requests' = Append(requests, mem) /\ stage' = "handing"
    BY <1>6 DEF FinishTurn
  <2> HIDE DEF draw, mem
  <2>4. CASE requests' = requests /\ stage' = "asleep"
    <3>1. ~Holding'
      BY <2>4 DEF Holding
    <3> QED BY <2>1, <2>4, <3>1, RidingKept, ReadKept, MeetsOn
  <2>5. CASE requests' = Append(requests, draw) /\ stage' = "asleep"
    <3>1. ~Holding'
      BY <2>5 DEF Holding
    <3> QED BY <2>1, <2>2, <2>5, <3>1, AppendMeets, ReadKept, MeetsOn
  <2>6. CASE requests' = Append(requests, mem) /\ stage' = "handing"
    <3>1. Holding'
      BY <2>6 DEF Holding
    <3> QED BY <2>1, <2>2, <2>6, <3>1, AppendMeets, ReadKept, MeetsOn
  <2> QED BY <2>3, <2>4, <2>5, <2>6
<1> QED BY <1>1, <1>2, <1>3, <1>4, <1>5, <1>6

LEMMA NextMeets == ConnOK /\ StreamsMeet /\ [SeatNext]_seatVars => StreamsMeet'
<1>1. ASSUME StreamsMeet, UNCHANGED seatVars PROVE StreamsMeet'
  BY <1>1 DEF StreamsMeet, HandedOver, Holding, Begun, seatVars, connVars, historyVars
<1> QED BY <1>1, HandleMeets, WorldMeets, RestMeets DEF SeatNext, Gone

LEMMA InitMeets == SeatInit => StreamsMeet
<1> SUFFICES ASSUME SeatInit PROVE StreamsMeet
  OBVIOUS
<1>1. riding = <<>> /\ requests = <<>> /\ fds = <<>> /\ got = 0 /\ crossed = FALSE
  BY DEF SeatInit
<1>2. HandedOver = {}
  BY <1>1 DEF HandedOver
<1>3. \A k \in 1..Len(coming) : Start(coming, k) \in Nat
  BY InitConn, StartsAscend, ToldFields DEF ConnOK, SeatTypeOK
<1>4. Begun(got) = {}
  BY <1>1, <1>3 DEF Begun
<1> QED BY <1>1, <1>2, <1>4, MeetsNone DEF StreamsMeet

-----------------------------------------------------------------------------
(* What is said to the client.                                             *)

LEMMA FreeNone == \A M : Free(<<>>, M)
BY RangeOfFew DEF Free

LEMMA FreeOne == \A m, M : Free(<<m>>, M) <=> m \notin M
<1> TAKE m, M
<1>1. Range(<<m>>) = {m}
  BY RangeOfFew
<1> QED BY <1>1 DEF Free

LEMMA FreeIn ==
  ASSUME NEW s, NEW M, \A m \in Range(s) : m \notin M
  PROVE  Free(s, M)
BY DEF Free

\* What carrying out a request says.
LEMMA NewsSays ==
  ASSUME SeatTypeOK, requests # <<>>, NEW m \in Range(News)
  PROVE  /\ m.op \in {"keymap", "rate", "selection"}
         /\ m.op = "selection" => /\ focused /\ Head(requests).op \in {"select", "destroy"}
                                  /\ m.arg = Nil \/ m.arg = Ours(Head(requests).arg)
                                  /\ m.arg # Nil => Head(requests).op = "select"
BY RangeOfFew DEF News, Sending

-----------------------------------------------------------------------------
(* Keys.                                                                   *)

Downs(code) == {m \in Told : m.op = "key" /\ m.arg.pressed => IsDown(code)}

KeyStands(code) ==
  /\ LastIn(coming, OfKey(code), Downs(code))
  /\ held_key # Nil /\ held_key.code = code /\ Free(coming, OfKey(code)) => IsDown(code)

LEMMA KeysStandIs ==
  /\ KeysStand <=> \A code \in Code : KeyStands(code)
  /\ KeysStand' <=> \A code \in Code : KeyStands(code)'
BY DEF KeysStand, KeyStands, Downs

\* What is said leaves this key alone, or is the last word on it.
LEMMA KeyTold ==
  ASSUME SeatTypeOK, NEW code \in Code, KeyStands(code), NEW events \in Seq(Told), coming' = coming \o events, UNCHANGED held_key,
         \/ Free(events, OfKey(code)) /\ (IsDown(code) => IsDown(code)')
         \/ LastIn(events, OfKey(code), Downs(code)') /\ ~Free(events, OfKey(code))
  PROVE  KeyStands(code)'
<1>1. coming \in Seq(Told)
  BY DEF SeatTypeOK
<1>2. /\ Free(coming', OfKey(code)) <=> Free(coming, OfKey(code)) /\ Free(events, OfKey(code))
      /\ LastIn(events, OfKey(code), Downs(code)') /\ (Free(events, OfKey(code)) => LastIn(coming, OfKey(code), Downs(code)'))
           => LastIn(coming', OfKey(code), Downs(code)')
  BY <1>1, LastInConcat
<1>k. OfKey(code)' = OfKey(code)
  BY DEF OfKey
<1>3. CASE Free(events, OfKey(code)) /\ (IsDown(code) => IsDown(code)')
  <2>1. LastIn(events, OfKey(code), Downs(code)')
    BY <1>3, LastInFree
  <2>2. Downs(code) \subseteq Downs(code)'
    BY <1>3 DEF Downs
  <2>3. LastIn(coming, OfKey(code), Downs(code)')
    BY <1>1, <2>2, LastInWider DEF KeyStands
  <2>4. LastIn(coming', OfKey(code), Downs(code)')
    BY <1>2, <2>1, <2>3
  <2>5. held_key' # Nil /\ held_key'.code = code /\ Free(coming', OfKey(code)) => IsDown(code)'
    BY <1>2, <1>3 DEF KeyStands
  <2> QED BY <1>k, <2>4, <2>5 DEF KeyStands
<1>4. CASE LastIn(events, OfKey(code), Downs(code)') /\ ~Free(events, OfKey(code))
  BY <1>2, <1>4, <1>k DEF KeyStands
<1> QED BY <1>3, <1>4

LEMMA KeysTold ==
  ASSUME SeatTypeOK, KeysStand, NEW events \in Seq(Told), coming' = coming \o events, UNCHANGED <<held_key, down>>,
         focused => focused', \A m \in Range(events) : m.op \notin {"key", "leave"}
  PROVE  KeysStand'
<1>1. \A code \in Code : Free(events, OfKey(code))
  BY FreeIn DEF OfKey
<1>2. \A code \in Code : IsDown(code) => IsDown(code)'
  BY DEF IsDown
<1>3. ASSUME NEW code \in Code PROVE KeyStands(code)'
  BY <1>1, <1>2, KeyTold, KeysStandIs
<1> QED BY <1>3, KeysStandIs

LEMMA KeysKept ==
  ASSUME KeysStand, UNCHANGED <<coming, focused, down>>, held_key' # Nil => held_key # Nil /\ held_key'.code = held_key.code
  PROVE  KeysStand'
<1>1. \A code \in Code : OfKey(code)' = OfKey(code) /\ Downs(code)' = Downs(code) /\ (IsDown(code)' <=> IsDown(code))
  BY DEF OfKey, Downs, IsDown
<1>2. ASSUME NEW code \in Code PROVE KeyStands(code)'
  <2>1. KeyStands(code)
    BY KeysStandIs
  <2> QED BY <1>1, <2>1 DEF KeyStands
<1>3. KeysStand' <=> \A code \in Code : KeyStands(code)'
  BY KeysStandIs
<1> QED BY <1>2, <1>3

LEMMA KeysTaken ==
  ASSUME SeatTypeOK, KeysStand, NEW op, Taken(op),
         \A code \in Code : held_key' # Nil /\ held_key'.code = code =>
            Head(coming) \in OfKey(code) \/ (held_key # Nil /\ held_key.code = code),
         Head(coming).op = "key" /\ ~Head(coming).arg.pressed => held_key' = Nil \/ held_key'.code # Head(coming).arg.code,
         Head(coming).op = "leave" => held_key' = Nil
  PROVE  KeysStand'
<1>1. coming \in Seq(Told) /\ coming # <<>> /\ coming' = Tail(coming) /\ Head(coming) \in Told /\ UNCHANGED <<focused, down>>
  BY TakenTypes DEF SeatTypeOK, Taken, worldVars
<1>2. \A code \in Code : OfKey(code)' = OfKey(code) /\ Downs(code)' = Downs(code) /\ (IsDown(code)' <=> IsDown(code))
  BY <1>1 DEF OfKey, Downs, IsDown
<1>3. ASSUME NEW code \in Code PROVE KeyStands(code)'
  <2>1. KeyStands(code)
    BY KeysStandIs
  <2>2. /\ LastIn(Tail(coming), OfKey(code), Downs(code))
        /\ Free(Tail(coming), OfKey(code)) /\ Head(coming) \in OfKey(code) => Head(coming) \in Downs(code)
        /\ Free(Tail(coming), OfKey(code)) /\ Head(coming) \notin OfKey(code) => Free(coming, OfKey(code))
    BY <1>1, <2>1, LastInTail DEF KeyStands
  <2>3. ASSUME held_key' # Nil, held_key'.code = code, Free(Tail(coming), OfKey(code)) PROVE IsDown(code)
    <3>1. CASE Head(coming) \in OfKey(code)
      <4>1. Head(coming) \in Downs(code)
        BY <2>2, <2>3, <3>1
      <4>2. Head(coming).op = "key" /\ Head(coming).arg.pressed
        BY <1>1, <2>3, <3>1 DEF OfKey
      <4> QED BY <4>1, <4>2 DEF Downs
    <3>2. CASE Head(coming) \notin OfKey(code)
      <4>1. Free(coming, OfKey(code)) /\ held_key # Nil /\ held_key.code = code
        BY <2>2, <2>3, <3>2
      <4> QED BY <2>1, <4>1 DEF KeyStands
    <3> QED BY <3>1, <3>2
  <2> QED BY <1>1, <1>2, <2>2, <2>3 DEF KeyStands
<1>4. KeysStand' <=> \A code \in Code : KeyStands(code)'
  BY KeysStandIs
<1> QED BY <1>3, <1>4

LEMMA HandleKeys ==
  ASSUME SeatTypeOK, KeysStand, Handle
  PROVE  KeysStand'
<1>1. ASSUME NEW op, Taken(op), op \notin {"key", "leave"}, UNCHANGED held_key PROVE KeysStand'
  <2>1. Head(coming).op = op
    BY <1>1, TakenTypes
  <2> QED BY <1>1, <2>1, KeysTaken
<1>2. CASE HandleKey
  <2>1. Taken("key") /\ Head(coming) \in Told /\ Head(coming).op = "key"
    BY <1>2, TakenTypes DEF HandleKey
  <2>2. Head(coming).arg.code \in Code /\ Head(coming) \in OfKey(Head(coming).arg.code)
    BY <2>1, ToldFields DEF OfKey
  <2>3. CASE Head(coming).arg.pressed
    <3>1. held_key' = [code |-> Head(coming).arg.code, due |-> FALSE] \/ held_key' = held_key
      BY <1>2, <2>3 DEF HandleKey, Says
    <3>2. \A code \in Code : held_key' # Nil /\ held_key'.code = code =>
            Head(coming) \in OfKey(code) \/ (held_key # Nil /\ held_key.code = code)
      BY <2>2, <3>1
    <3> QED BY <2>1, <2>3, <3>2, KeysTaken
  <2>4. CASE ~Head(coming).arg.pressed
    <3>1. held_key' = IF held_key # Nil THEN (IF held_key.code = Head(coming).arg.code THEN Nil ELSE held_key) ELSE Nil
      BY <1>2, <2>4 DEF HandleKey, Says
    <3>2. held_key' # Nil => held_key # Nil /\ held_key' = held_key /\ held_key.code # Head(coming).arg.code
      BY <3>1
    <3> QED BY <2>1, <2>4, <3>2, KeysTaken
  <2> QED BY <2>3, <2>4
<1>3. CASE HandleLeave
  <2>1. Taken("leave") /\ Head(coming).op = "leave" /\ held_key' = Nil
    BY <1>3, TakenTypes DEF HandleLeave
  <2> QED BY <2>1, KeysTaken
<1> QED BY <1>1, <1>2, <1>3 DEF Handle, HandleCapabilities, HandleKeymap, HandleRate,
    HandleSelection, HandleSend, HandleCancelled, HandlePointer

LEMMA WorldKeys ==
  ASSUME SeatTypeOK, KeysStand, World
  PROVE  KeysStand'
<1>0. UNCHANGED held_key
  BY DEF World, Serve, Press, LetGo, Leave, Enter, NewKeymap, NewRate, OtherCopies, OtherPastes, Point, Stroke, keyVars
<1>1. CASE Serve
  <2>1. News \in Seq(Told) /\ coming' = coming \o News /\ UNCHANGED <<focused, down>> /\ requests # <<>>
    BY <1>1, ServeTells DEF Serve
  <2>2. \A m \in Range(News) : m.op \notin {"key", "leave"}
    BY <2>1, NewsSays
  <2> QED BY <1>0, <2>1, <2>2, KeysTold
<1>2. ASSUME NEW m \in Told, Tell(<<m>>), m.op \notin {"key", "leave"}, focused => focused', UNCHANGED down PROVE KeysStand'
  <2>1. <<m>> \in Seq(Told) /\ Range(<<m>>) = {m}
    BY RangeOfFew, Singly
  <2> QED BY <1>0, <1>2, <2>1, KeysTold DEF Tell
<1>3. ASSUME NEW c \in Code, NEW p \in BOOLEAN, (Press(c) /\ p = TRUE) \/ (LetGo(c) /\ p = FALSE) PROVE KeysStand'
  <2> DEFINE m == Sending("key", [code |-> c, pressed |-> p], Nil)
  <2>1. m \in Told /\ m.op = "key" /\ m.arg.code = c /\ m.arg.pressed = p /\ <<m>> \in Seq(Told)
    BY Events, PressTells DEF Sending
  <2>2. coming' = coming \o <<m>> /\ focused /\ focused' /\ down' = IF p THEN down \cup {c} ELSE down \ {c}
    <3>1. CASE Press(c) /\ p = TRUE
      <4>1. coming' = coming \o <<m>>
        BY <3>1 DEF Press, Tell
      <4>2. focused /\ focused' /\ down' = down \cup {c}
        BY <3>1 DEF Press, Keyed
      <4> QED BY <3>1, <4>1, <4>2
    <3>2. CASE LetGo(c) /\ p = FALSE
      <4>1. coming' = coming \o <<m>>
        BY <3>2 DEF LetGo, Tell
      <4>2. focused /\ focused' /\ down' = down \ {c}
        BY <3>2 DEF LetGo, Keyed
      <4> QED BY <3>2, <4>1, <4>2
    <3> QED BY <1>3, <3>1, <3>2
  <2> HIDE DEF m
  <2>3. ASSUME NEW code \in Code PROVE KeyStands(code)'
    <3>1. KeyStands(code)
      BY KeysStandIs
    <3>2. CASE code = c
      <4>1. ~Free(<<m>>, OfKey(code))
        BY <2>1, <3>2, FreeOne DEF OfKey
      <4>2. m \in Downs(code)'
        BY <2>1, <2>2, <3>2 DEF Downs, IsDown
      <4>3. LastIn(<<m>>, OfKey(code), Downs(code)')
        BY <4>2, LastInOne
      <4> QED BY <1>0, <2>1, <2>2, <3>1, <4>1, <4>3, KeyTold
    <3>3. CASE code # c
      <4>1. Free(<<m>>, OfKey(code))
        BY <2>1, <3>3, FreeOne DEF OfKey
      <4>2. IsDown(code) => IsDown(code)'
        BY <2>2, <3>3 DEF IsDown
      <4> QED BY <1>0, <2>1, <2>2, <3>1, <4>1, <4>2, KeyTold
    <3> QED BY <3>2, <3>3
  <2>4. KeysStand' <=> \A code \in Code : KeyStands(code)'
    BY KeysStandIs
  <2> QED BY <2>3, <2>4
<1>4. CASE Leave
  <2> DEFINE m == Sending("leave", Nil, Nil)
  <2>1. m \in Told /\ m.op = "leave" /\ <<m>> \in Seq(Told) /\ coming' = coming \o <<m>>
    BY <1>4, Events, Singly DEF Sending, Leave, Tell
  <2> HIDE DEF m
  <2>2. ASSUME NEW code \in Code PROVE KeyStands(code)'
    <3>1. ~Free(<<m>>, OfKey(code)) /\ m \in Downs(code)'
      BY <2>1, FreeOne DEF OfKey, Downs
    <3>2. LastIn(<<m>>, OfKey(code), Downs(code)')
      BY <3>1, LastInOne
    <3>3. KeyStands(code)
      BY KeysStandIs
    <3> QED BY <1>0, <2>1, <3>1, <3>2, <3>3, KeyTold
  <2>4. KeysStand' <=> \A code \in Code : KeyStands(code)'
    BY KeysStandIs
  <2> QED BY <2>2, <2>4
<1>5. CASE Enter
  <2>1. Sending("selection", owner, Nil) \in Told /\ Sending("selection", owner, Nil).op = "selection"
    BY Events DEF SeatTypeOK, Sending
  <2> QED BY <1>2, <1>5, <2>1 DEF Enter
<1>6. CASE NewKeymap \/ NewRate
  <2>1. strokes + 1 \in Nat /\ {0, 1} \subseteq Nat
    BY DEF SeatTypeOK
  <2>2. /\ \A n \in Nat : Sending("rate", n, Nil) \in Told /\ Sending("rate", n, Nil).op = "rate"
        /\ Sending("keymap", Nil, <<"keymap", strokes + 1>>) \in Told
        /\ Sending("keymap", Nil, <<"keymap", strokes + 1>>).op = "keymap"
    BY <2>1, Events DEF Sending
  <2> QED BY <1>2, <1>6, <2>1, <2>2 DEF NewKeymap, NewRate
<1>7. CASE OtherCopies
  <2>1. /\ Warned \in Seq(Told) /\ OfSelection(owner') \in Seq(Told) /\ UNCHANGED <<focused, down>>
        /\ Warned \o OfSelection(owner') \in Seq(Told) /\ coming' = coming \o (Warned \o OfSelection(owner'))
    BY <1>7, OtherTells DEF OtherCopies
  <2>2. \A m \in Range(Warned) \cup Range(OfSelection(owner')) : m.op \in {"cancelled", "selection"}
    BY RangeOfFew DEF Warned, OfSelection, Sending
  <2>3. Range(Warned \o OfSelection(owner')) = Range(Warned) \cup Range(OfSelection(owner'))
    BY <2>1, RangeConcatenation
  <2> QED BY <1>0, <2>1, <2>2, <2>3, KeysTold
<1>8. CASE OtherPastes
  <2>1. owner.n \in Nat /\ strokes + 1 \in Nat
    BY <1>8 DEF OtherPastes, SeatTypeOK, Holder
  <2>2. /\ Sending("send", owner.n, <<"send", strokes + 1>>) \in Told
        /\ Sending("send", owner.n, <<"send", strokes + 1>>).op = "send"
    BY <2>1, Events DEF Sending
  <2> QED BY <1>2, <1>8, <2>2 DEF OtherPastes
<1>9. CASE Point
  <2>1. pointer_on' \in Nat \cup {Nil}
    BY <1>9, WorldTypes DEF World, SeatTypeOK
  <2>2. Sending("pointer", pointer_on', Nil) \in Told /\ Sending("pointer", pointer_on', Nil).op = "pointer"
    BY <2>1, Events DEF Sending
  <2> QED BY <1>2, <1>9, <2>2 DEF Point
<1>10. ASSUME NEW c \in Code, Press(c) \/ LetGo(c) PROVE KeysStand'
  <2>1. TRUE \in BOOLEAN /\ FALSE \in BOOLEAN
    OBVIOUS
  <2>2. CASE Press(c)
    BY <1>3, <2>1, <2>2
  <2>3. CASE LetGo(c)
    BY <1>3, <2>1, <2>3
  <2> QED BY <1>10, <2>2, <2>3
<1> QED BY <1>1, <1>10, <1>4, <1>5, <1>6, <1>7, <1>8, <1>9 DEF World

\* The steps of the client that handle no event.
ClientTurn == PollReturns \/ Repeat \/ Fill \/ HandOver \/ Stall \/ EndPaste \/ FinishTurn

LEMMA TurnKeeps ==
  ASSUME ClientTurn
  PROVE  UNCHANGED <<coming, owner, focused, down, pointer_on, shape, cursorVars, selection_offer>>
BY DEF ClientTurn, PollReturns, Repeat, Fill, HandOver, Stall, EndPaste, FinishTurn, connVars, clipVars, worldVars,
  KeyPress, OfferSelection, Paste

LEMMA NextKeys == SeatTypeOK /\ KeysStand /\ [SeatNext]_seatVars => KeysStand'
<1>1. ASSUME SeatTypeOK, KeysStand, ClientTurn PROVE KeysStand'
  <2>1. held_key' # Nil => held_key # Nil /\ held_key'.code = held_key.code
    <3>1. \A h \in [code : Code, due : BOOLEAN] : \A b : [h EXCEPT !.due = b].code = h.code
      OBVIOUS
    <3> QED BY <1>1, <3>1 DEF ClientTurn, PollReturns, Repeat, Fill, HandOver, Stall, EndPaste, FinishTurn, keyVars, SeatTypeOK
  <2> QED BY <1>1, <2>1, TurnKeeps, KeysKept
<1>2. ASSUME KeysStand, UNCHANGED seatVars PROVE KeysStand'
  BY <1>2, KeysKept DEF seatVars, connVars, keyVars, worldVars
<1> QED BY <1>1, <1>2, HandleKeys, WorldKeys DEF SeatNext, Gone, ClientTurn

-----------------------------------------------------------------------------
(* What the world says in a step.                                          *)

\* What is said of the selection, of the pointer and of a replaced source.
Speaks(events) ==
  /\ events \in Seq(Told) /\ coming' = coming \o events
  /\ \/ Free(events, Saying("selection")) /\ UNCHANGED <<owner, focused>>
     \/ focused' => /\ ~Free(events, Saying("selection"))
                    /\ LastIn(events, Saying("selection"), {m \in Told : m.arg = owner'})
  /\ \/ Free(events, Saying("pointer")) /\ UNCHANGED pointer_on
     \/ \E m \in Told : /\ events = <<m>> /\ m.op = "pointer" /\ m.arg = pointer_on'
                        /\ pointer_on' \in {pointer_on, Nil, strokes + 1} /\ strokes' = strokes + 1
  /\ \A m \in Range(events) : /\ m.op = "cancelled" => OtherCopies /\ owner = Ours(m.arg)
                              /\ m.op = "selection" => m.arg \in {Nil, owner'}

LEMMA SpeaksOfOther ==
  ASSUME NEW m \in Told, Tell(<<m>>), m.op \notin {"selection", "pointer", "cancelled"}, UNCHANGED <<owner, pointer_on>>,
         UNCHANGED focused \/ ~focused'
  PROVE  Speaks(<<m>>)
<1>1. Free(<<m>>, Saying("selection")) /\ Free(<<m>>, Saying("pointer"))
  BY FreeOne DEF Saying
<1>2. <<m>> \in Seq(Told) /\ coming' = coming \o <<m>> /\ Range(<<m>>) = {m}
  BY RangeOfFew, Singly DEF Tell
<1> QED BY <1>1, <1>2 DEF Speaks

LEMMA SpeaksOfSelection ==
  ASSUME SeatTypeOK, NEW to \in Holder \cup {Nil}
  PROVE  /\ OfSelection(to) \in Seq(Told) /\ Free(OfSelection(to), Saying("pointer"))
         /\ \A m \in Range(OfSelection(to)) : m.op = "selection" /\ m.arg = to
         /\ focused => /\ ~Free(OfSelection(to), Saying("selection"))
                       /\ LastIn(OfSelection(to), Saying("selection"), {m \in Told : m.arg = to})
<1> DEFINE m == Sending("selection", to, Nil)
<1>1. m \in Told /\ m.op = "selection" /\ m.arg = to
  BY Events DEF Sending
<1> HIDE DEF m
<1>2. OfSelection(to) = IF focused THEN <<m>> ELSE <<>>
  BY DEF OfSelection, m
<1>3. CASE focused
  <2>1. OfSelection(to) = <<m>> /\ Range(<<m>>) = {m} /\ <<m>> \in Seq(Told)
    BY <1>1, <1>2, <1>3, RangeOfFew, Singly
  <2>2. Free(<<m>>, Saying("pointer")) /\ ~Free(<<m>>, Saying("selection"))
    BY <1>1, FreeOne DEF Saying
  <2>3. LastIn(<<m>>, Saying("selection"), {k \in Told : k.arg = to})
    BY <1>1, LastInOne
  <2> QED BY <1>1, <2>1, <2>2, <2>3
<1>4. CASE ~focused
  <2>1. OfSelection(to) = <<>>
    BY <1>2, <1>4
  <2> QED BY <1>4, <2>1, RangeOfFew, FreeNone, EmptySeq
<1> QED BY <1>3, <1>4

LEMMA ServeSpeaks ==
  ASSUME SeatTypeOK, Serve
  PROVE  Speaks(News)
<1>0. /\ News \in Seq(Told) /\ coming' = coming \o News /\ requests # <<>> /\ Head(requests) \in Asked
      /\ UNCHANGED <<focused, pointer_on>>
  BY ServeTells DEF Serve
<1>1. Free(News, Saying("pointer"))
  BY <1>0, NewsSays, FreeIn DEF Saying
<1> DEFINE r == Head(requests)
<1>2. r.op \in {"select", "destroy"} => r.arg \in Nat /\ Ours(r.arg) \in Holder /\ Ours(r.arg) # Nil
  BY <1>0, AskedFields, Holders
<1>3. /\ r.op = "select" => owner' = Ours(r.arg) /\ News = OfSelection(Ours(r.arg))
      /\ r.op = "destroy" /\ owner = Ours(r.arg) => owner' = Nil /\ News = OfSelection(Nil)
      /\ r.op # "select" /\ ~(r.op = "destroy" /\ owner = Ours(r.arg)) => owner' = owner
  BY ServeTells DEF News, OfSelection
<1>4. CASE r.op = "select" \/ (r.op = "destroy" /\ owner = Ours(r.arg))
  <2>1. owner' \in Holder \cup {Nil} /\ News = OfSelection(owner')
    BY <1>2, <1>3, <1>4
  <2>2. /\ \A m \in Range(News) : m.op = "selection" /\ m.arg = owner'
        /\ focused => /\ ~Free(News, Saying("selection"))
                      /\ LastIn(News, Saying("selection"), {m \in Told : m.arg = owner'})
    BY <2>1, SpeaksOfSelection
  <2> QED BY <1>0, <1>1, <2>2 DEF Speaks
<1>5. CASE r.op # "select" /\ ~(r.op = "destroy" /\ owner = Ours(r.arg))
  <2>1. \A m \in Range(News) : m.op \in {"keymap", "rate"}
    BY <1>5, RangeOfFew DEF News, Sending
  <2>2. Free(News, Saying("selection"))
    BY <2>1, FreeIn DEF Saying
  <2> QED BY <1>0, <1>1, <1>3, <1>5, <2>1, <2>2 DEF Speaks
<1> QED BY <1>4, <1>5

LEMMA OthersSpeak ==
  ASSUME SeatTypeOK, OtherCopies
  PROVE  Speaks(Warned \o OfSelection(owner'))
<1>1. /\ Warned \in Seq(Told) /\ OfSelection(owner') \in Seq(Told)
      /\ Warned \o OfSelection(owner') \in Seq(Told) /\ coming' = coming \o (Warned \o OfSelection(owner'))
      /\ owner' \in Holder /\ UNCHANGED <<focused, pointer_on>>
  BY OtherTells DEF OtherCopies
<1>2. \A m \in Range(Warned) : m.op = "cancelled" /\ owner = Ours(m.arg)
  BY RangeOfFew DEF Warned, Sending, Ours, Holder, SeatTypeOK
<1>3. Free(Warned, Saying("pointer"))
  BY <1>2, FreeIn DEF Saying
<1>4. /\ Free(OfSelection(owner'), Saying("pointer"))
      /\ \A m \in Range(OfSelection(owner')) : m.op = "selection" /\ m.arg = owner'
      /\ focused => /\ ~Free(OfSelection(owner'), Saying("selection"))
                    /\ LastIn(OfSelection(owner'), Saying("selection"), {m \in Told : m.arg = owner'})
  BY <1>1, SpeaksOfSelection
<1> DEFINE all == Warned \o OfSelection(owner')
<1>5. Range(all) = Range(Warned) \cup Range(OfSelection(owner')) /\ Free(all, Saying("pointer"))
  BY <1>1, <1>3, <1>4, LastInConcat, RangeConcatenation
<1>6. focused => /\ ~Free(all, Saying("selection"))
                 /\ LastIn(all, Saying("selection"), {m \in Told : m.arg = owner'})
  BY <1>1, <1>4, LastInConcat
<1>7. \A m \in Range(all) : /\ m.op = "cancelled" => OtherCopies /\ owner = Ours(m.arg)
                            /\ m.op = "selection" => m.arg \in {Nil, owner'}
  BY <1>2, <1>4, <1>5
<1> HIDE DEF all
<1>8. all \in Seq(Told) /\ coming' = coming \o all /\ UNCHANGED <<focused, pointer_on>>
  BY <1>1 DEF all
<1>9. Speaks(all)
  BY <1>5, <1>6, <1>7, <1>8 DEF Speaks
<1> QED BY <1>9 DEF all

LEMMA WorldSpeaks ==
  ASSUME SeatTypeOK, World
  PROVE  \E events : Speaks(events)
<1>1. CASE Serve
  BY <1>1, ServeSpeaks
<1>2. CASE OtherCopies
  BY <1>2, OthersSpeak
<1>3. ASSUME NEW c \in Code, Press(c) \/ LetGo(c) PROVE \E events : Speaks(events)
  <2>1. ASSUME NEW p \in BOOLEAN, Tell(<<Sending("key", [code |-> c, pressed |-> p], Nil)>>) PROVE \E events : Speaks(events)
    <3>1. Sending("key", [code |-> c, pressed |-> p], Nil) \in Told /\ Sending("key", [code |-> c, pressed |-> p], Nil).op = "key"
      BY Events DEF Sending
    <3>2. UNCHANGED <<owner, pointer_on, focused>>
      BY <1>3 DEF Press, LetGo
    <3> QED BY <2>1, <3>1, <3>2, SpeaksOfOther
  <2>2. TRUE \in BOOLEAN /\ FALSE \in BOOLEAN
    OBVIOUS
  <2>3. CASE Press(c)
    BY <2>1, <2>2, <2>3 DEF Press
  <2>4. CASE LetGo(c)
    BY <2>1, <2>2, <2>4 DEF LetGo
  <2> QED BY <1>3, <2>3, <2>4
<1>4. CASE Leave
  <2>1. Sending("leave", Nil, Nil) \in Told /\ Sending("leave", Nil, Nil).op = "leave"
    BY Events DEF Sending
  <2> QED BY <1>4, <2>1, SpeaksOfOther DEF Leave
<1>5. CASE Enter
  <2> DEFINE m == Sending("selection", owner, Nil)
  <2>1. m \in Told /\ m.op = "selection" /\ m.arg = owner
    BY Events DEF Sending, SeatTypeOK
  <2>2. coming' = coming \o <<m>> /\ UNCHANGED <<owner, pointer_on>>
    BY <1>5 DEF Enter, Tell
  <2> HIDE DEF m
  <2>3. /\ ~Free(<<m>>, Saying("selection")) /\ Free(<<m>>, Saying("pointer"))
        /\ LastIn(<<m>>, Saying("selection"), {k \in Told : k.arg = owner'})
    BY <2>1, <2>2, FreeOne, LastInOne DEF Saying
  <2>4. <<m>> \in Seq(Told) /\ Range(<<m>>) = {m}
    BY <2>1, Singly, RangeOfFew
  <2>5. Speaks(<<m>>)
    BY <2>1, <2>2, <2>3, <2>4 DEF Speaks
  <2> QED BY <2>5
<1>6. CASE NewKeymap
  <2>1. strokes + 1 \in Nat
    BY DEF SeatTypeOK
  <2>2. /\ Sending("keymap", Nil, <<"keymap", strokes + 1>>) \in Told
        /\ Sending("keymap", Nil, <<"keymap", strokes + 1>>).op = "keymap"
    BY <2>1, Events DEF Sending
  <2> QED BY <1>6, <2>2, SpeaksOfOther DEF NewKeymap
<1>7. CASE NewRate
  <2>1. PICK rate \in {0, 1} : Tell(<<Sending("rate", rate, Nil)>>)
    BY <1>7 DEF NewRate
  <2>2. Sending("rate", rate, Nil) \in Told /\ Sending("rate", rate, Nil).op = "rate"
    BY Events DEF Sending
  <2> QED BY <1>7, <2>1, <2>2, SpeaksOfOther DEF NewRate
<1>8. CASE OtherPastes
  <2>1. owner.n \in Nat /\ strokes + 1 \in Nat
    BY <1>8 DEF OtherPastes, SeatTypeOK, Holder
  <2>2. /\ Sending("send", owner.n, <<"send", strokes + 1>>) \in Told
        /\ Sending("send", owner.n, <<"send", strokes + 1>>).op = "send"
    BY <2>1, Events DEF Sending
  <2> QED BY <1>8, <2>2, SpeaksOfOther DEF OtherPastes
<1>9. CASE Point
  <2> DEFINE m == Sending("pointer", pointer_on', Nil)
  <2>1. pointer_on' \in Nat \cup {Nil}
    BY <1>9, WorldTypes DEF World, SeatTypeOK
  <2>2. m \in Told /\ m.op = "pointer" /\ m.arg = pointer_on'
    BY <2>1, Events DEF Sending
  <2>3. /\ coming' = coming \o <<m>> /\ UNCHANGED <<owner, focused>> /\ strokes' = strokes + 1
        /\ pointer_on' \in {pointer_on, Nil, strokes + 1}
    BY <1>9 DEF Point, Tell, Stroke
  <2> HIDE DEF m
  <2>4. Free(<<m>>, Saying("selection")) /\ <<m>> \in Seq(Told) /\ Range(<<m>>) = {m}
    BY <2>2, FreeOne, Singly, RangeOfFew DEF Saying
  <2>5. Speaks(<<m>>)
    BY <2>2, <2>3, <2>4 DEF Speaks
  <2> QED BY <2>5
<1> QED BY <1>1, <1>2, <1>3, <1>4, <1>5, <1>6, <1>7, <1>8, <1>9 DEF World

\* An event that is handled, and what the client keeps of it.
LEMMA HandleTakes ==
  ASSUME SeatTypeOK, Handle
  PROVE  /\ coming \in Seq(Told) /\ coming # <<>> /\ coming' = Tail(coming) /\ coming' \in Seq(Told) /\ Head(coming) \in Told
         /\ Range(coming) = {Head(coming)} \cup Range(coming')
         /\ UNCHANGED <<owner, focused, down, pointer_on, shape, strokes, self_wait>>
         /\ selection_offer' = IF Head(coming).op = "selection" THEN Head(coming).arg ELSE selection_offer
         /\ Head(coming).op # "pointer" => UNCHANGED cursorVars
         /\ Head(coming).op = "pointer" <=> HandlePointer
         /\ Head(coming).op = "cancelled" <=> HandleCancelled
<1>1. ASSUME NEW op, Taken(op)
      PROVE  /\ coming \in Seq(Told) /\ coming # <<>> /\ coming' = Tail(coming) /\ coming' \in Seq(Told) /\ Head(coming) \in Told
             /\ Range(coming) = {Head(coming)} \cup Range(coming') /\ Head(coming).op = op
             /\ UNCHANGED <<owner, focused, down, pointer_on, shape, strokes>>
  <2>1. coming \in Seq(Told) /\ coming # <<>> /\ coming' = Tail(coming) /\ coming' \in Seq(Told) /\ Head(coming) \in Told
        /\ Head(coming).op = op
    BY <1>1, TakenTypes DEF SeatTypeOK
  <2> QED BY <1>1, <2>1, RangeOfTail DEF Taken, worldVars
<1>2. CASE HandleKey
  <2>1. Taken("key") /\ UNCHANGED <<cursorVars, historyVars>>
    BY <1>2 DEF HandleKey
  <2>2. selection_offer' = selection_offer
    BY <1>2 DEF HandleKey, Quietly, clipVars, KeyPress, OfferSelection, Paste
  <2>3. Head(coming).op = "key" /\ ~HandlePointer /\ ~HandleCancelled
    BY <1>1, <2>1 DEF HandlePointer, HandleCancelled, Taken
  <2> QED BY <1>1, <2>1, <2>2, <2>3 DEF historyVars
<1>3. CASE HandleSelection
  <2>1. Taken("selection") /\ UNCHANGED <<cursorVars, historyVars>> /\ selection_offer' = Head(coming).arg
    BY <1>3 DEF HandleSelection, Says
  <2>2. Head(coming).op = "selection" /\ ~HandlePointer /\ ~HandleCancelled
    BY <1>1, <2>1 DEF HandlePointer, HandleCancelled, Taken
  <2> QED BY <1>1, <2>1, <2>2 DEF historyVars
<1>4. CASE HandlePointer
  <2>1. Taken("pointer") /\ UNCHANGED <<clipVars, historyVars>>
    BY <1>4 DEF HandlePointer
  <2>2. Head(coming).op = "pointer" /\ ~HandleCancelled
    BY <1>1, <2>1 DEF HandleCancelled, Taken
  <2> QED BY <1>1, <1>4, <2>1, <2>2 DEF clipVars, historyVars
<1>5. CASE HandleCancelled
  <2>1. Taken("cancelled") /\ UNCHANGED <<cursorVars, selection_offer, historyVars>>
    BY <1>5 DEF HandleCancelled
  <2>2. Head(coming).op = "cancelled" /\ ~HandlePointer
    BY <1>1, <2>1 DEF HandlePointer, Taken
  <2> QED BY <1>1, <1>5, <2>1, <2>2 DEF historyVars
<1>6. ASSUME NEW op, Taken(op), op \notin {"selection", "pointer", "cancelled"}, UNCHANGED <<cursorVars, selection_offer, self_wait>>
      PROVE  /\ coming \in Seq(Told) /\ coming # <<>> /\ coming' = Tail(coming) /\ coming' \in Seq(Told) /\ Head(coming) \in Told
             /\ Range(coming) = {Head(coming)} \cup Range(coming')
             /\ UNCHANGED <<owner, focused, down, pointer_on, shape, strokes, self_wait>>
             /\ selection_offer' = IF Head(coming).op = "selection" THEN Head(coming).arg ELSE selection_offer
             /\ Head(coming).op # "pointer" => UNCHANGED cursorVars
             /\ Head(coming).op = "pointer" <=> HandlePointer
             /\ Head(coming).op = "cancelled" <=> HandleCancelled
  <2>1. Head(coming).op = op /\ ~HandlePointer /\ ~HandleCancelled
    BY <1>1, <1>6 DEF HandlePointer, HandleCancelled, Taken
  <2> QED BY <1>1, <1>6, <2>1
<1>7. CASE HandleCapabilities \/ HandleKeymap \/ HandleRate \/ HandleLeave \/ HandleSend
  BY <1>6, <1>7 DEF HandleCapabilities, HandleKeymap, HandleRate, HandleLeave, HandleSend, Quietly, clipVars, historyVars
<1> QED BY <1>2, <1>3, <1>4, <1>5, <1>7 DEF Handle

LEMMA WorldKeeps ==
  ASSUME SeatTypeOK, World
  PROVE  /\ UNCHANGED <<selection_offer, cursorVars, data_source, copies>>
         /\ strokes' \in {strokes, strokes + 1}
         /\ ~Serve => UNCHANGED <<requests, self_wait>>
         /\ ~Point => UNCHANGED pointer_on
         /\ ~Point /\ ~Serve => UNCHANGED shape
         /\ ~Serve /\ ~OtherCopies => UNCHANGED owner
BY DEF World, Serve, Press, LetGo, Leave, Enter, NewKeymap, NewRate, OtherCopies, OtherPastes, Point, Stroke, clipVars, historyVars

-----------------------------------------------------------------------------
(* The selection.                                                          *)

LEMMA NextSelection == SeatTypeOK /\ SelectionStands /\ [SeatNext]_seatVars => SelectionStands'
<1> DEFINE About == Saying("selection")
           True == {m \in Told : m.arg = owner}
<1>s. About' = About
  BY DEF Saying
<1>1. ASSUME SelectionStands, UNCHANGED <<coming, owner, focused, selection_offer>> PROVE SelectionStands'
  BY <1>1 DEF SelectionStands, Saying
<1>2. ASSUME SeatTypeOK, SelectionStands, Handle PROVE SelectionStands'
  <2>1. SUFFICES ASSUME focused
                 PROVE  /\ LastIn(coming', About, True)
                        /\ Free(coming', About) => selection_offer' = owner
    BY <1>2, HandleTakes DEF SelectionStands, Saying
  <2>2. LastIn(coming, About, True) /\ (Free(coming, About) => selection_offer = owner)
    BY <1>2, <2>1 DEF SelectionStands
  <2>3. /\ coming \in Seq(Told) /\ coming # <<>> /\ coming' = Tail(coming) /\ Head(coming) \in Told
        /\ selection_offer' = IF Head(coming).op = "selection" THEN Head(coming).arg ELSE selection_offer
    BY <1>2, HandleTakes
  <2>4. Head(coming) \in About <=> Head(coming).op = "selection"
    BY <2>3 DEF Saying
  <2> HIDE DEF About, True
  <2>5. /\ LastIn(Tail(coming), About, True)
        /\ Free(Tail(coming), About) /\ Head(coming) \in About => Head(coming) \in True
        /\ Free(Tail(coming), About) /\ Head(coming) \notin About => Free(coming, About)
    BY <2>2, <2>3, LastInTail
  <2>6. Head(coming) \in True => Head(coming).arg = owner
    BY DEF True
  <2> QED BY <2>2, <2>3, <2>4, <2>5, <2>6
<1>3. ASSUME SeatTypeOK, SelectionStands, World PROVE SelectionStands'
  <2>1. PICK events : Speaks(events)
    BY <1>3, WorldSpeaks
  <2>2. events \in Seq(Told) /\ coming \in Seq(Told) /\ coming' = coming \o events /\ UNCHANGED selection_offer
    BY <1>3, <2>1, WorldKeeps DEF Speaks, SeatTypeOK
  <2>3. /\ Free(coming', About) <=> Free(coming, About) /\ Free(events, About)
        /\ \A V : LastIn(events, About, V) /\ (Free(events, About) => LastIn(coming, About, V)) => LastIn(coming', About, V)
    BY <2>2, LastInConcat
  <2>4. CASE Free(events, About) /\ UNCHANGED <<owner, focused>>
    <3>1. \A V : LastIn(events, About, V)
      BY <2>2, <2>4, LastInFree
    <3> HIDE DEF About
    <3>2. focused => LastIn(coming', About, True) /\ (Free(coming', About) => selection_offer = owner)
      BY <1>3, <2>3, <2>4, <3>1 DEF SelectionStands, About
    <3> QED BY <1>s, <2>2, <2>4, <3>2 DEF SelectionStands, About
  <2>5. CASE focused' => ~Free(events, About) /\ LastIn(events, About, True')
    <3> HIDE DEF About
    <3>1. focused' => LastIn(coming', About, True') /\ ~Free(coming', About)
      BY <2>3, <2>5
    <3> QED BY <1>s, <3>1 DEF SelectionStands, About
  <2> QED BY <2>1, <2>4, <2>5 DEF Speaks
<1> QED BY <1>1, <1>2, <1>3, TurnKeeps DEF SeatNext, Gone, ClientTurn, seatVars, connVars, clipVars, worldVars

-----------------------------------------------------------------------------
(* The pointer.                                                            *)

LEMMA PointerTakes ==
  ASSUME HandlePointer
  PROVE  /\ pointer_inside' = (Head(coming).arg # Nil)
         /\ pointer_serial' = IF Head(coming).arg = Nil THEN pointer_serial ELSE Head(coming).arg
BY DEF HandlePointer, Says

LEMMA NextPointer == SeatTypeOK /\ PointerStands /\ [SeatNext]_seatVars => PointerStands'
<1> DEFINE About == Saying("pointer")
           True == {m \in Told : m.arg = pointer_on}
<1>s. About' = About
  BY DEF Saying
<1>1. ASSUME PointerStands, UNCHANGED <<coming, pointer_on, pointer_inside, pointer_serial>> PROVE PointerStands'
  BY <1>1 DEF PointerStands, Saying
<1>2. ASSUME SeatTypeOK, PointerStands, Handle PROVE PointerStands'
  <2>1. LastIn(coming, About, True)
        /\ (Free(coming, About) => /\ pointer_inside = (pointer_on # Nil)
                                   /\ pointer_on # Nil => pointer_serial = pointer_on)
    BY <1>2 DEF PointerStands
  <2>2. /\ coming \in Seq(Told) /\ coming # <<>> /\ coming' = Tail(coming) /\ Head(coming) \in Told /\ UNCHANGED pointer_on
        /\ Head(coming).op = "pointer" => HandlePointer
        /\ Head(coming).op # "pointer" => UNCHANGED <<pointer_inside, pointer_serial>>
    BY <1>2, HandleTakes DEF cursorVars
  <2>3. Head(coming) \in About <=> Head(coming).op = "pointer"
    BY <2>2 DEF Saying
  <2> HIDE DEF About, True
  <2>4. /\ LastIn(Tail(coming), About, True)
        /\ Free(Tail(coming), About) /\ Head(coming) \in About => Head(coming) \in True
        /\ Free(Tail(coming), About) /\ Head(coming) \notin About => Free(coming, About)
    BY <2>1, <2>2, LastInTail
  <2>5. ASSUME Free(Tail(coming), About)
        PROVE  pointer_inside' = (pointer_on # Nil) /\ (pointer_on # Nil => pointer_serial' = pointer_on)
    <3>1. CASE Head(coming) \in About
      <4>1. Head(coming).arg = pointer_on
        BY <2>4, <2>5, <3>1 DEF True
      <4> QED BY <2>2, <2>3, <3>1, <4>1, PointerTakes
    <3>2. CASE Head(coming) \notin About
      BY <2>1, <2>2, <2>3, <2>4, <2>5, <3>2
    <3> QED BY <3>1, <3>2
  <2>6. True' = True
    BY <2>2 DEF True
  <2> QED BY <1>s, <2>2, <2>4, <2>5, <2>6 DEF PointerStands, About, True
<1>3. ASSUME SeatTypeOK, PointerStands, World PROVE PointerStands'
  <2>1. PICK events : Speaks(events)
    BY <1>3, WorldSpeaks
  <2>2. events \in Seq(Told) /\ coming \in Seq(Told) /\ coming' = coming \o events /\ UNCHANGED <<pointer_inside, pointer_serial>>
    BY <1>3, <2>1, WorldKeeps DEF Speaks, SeatTypeOK, cursorVars
  <2>3. /\ Free(coming', About) <=> Free(coming, About) /\ Free(events, About)
        /\ \A V : LastIn(events, About, V) /\ (Free(events, About) => LastIn(coming, About, V)) => LastIn(coming', About, V)
    BY <2>2, LastInConcat
  <2>4. CASE Free(events, About) /\ UNCHANGED pointer_on
    <3>1. \A V : LastIn(events, About, V)
      BY <2>2, <2>4, LastInFree
    <3>2. LastIn(coming', About, True) /\ (Free(coming', About) => Free(coming, About))
      BY <1>3, <2>3, <2>4, <3>1 DEF PointerStands
    <3>3. LastIn(coming', About', True')
      BY <1>s, <2>4, <3>2
    <3> QED BY <1>3, <1>s, <2>2, <2>4, <3>2, <3>3 DEF PointerStands
  <2>5. CASE \E m \in Told : events = <<m>> /\ m.op = "pointer" /\ m.arg = pointer_on'
    <3>1. PICK m \in Told : events = <<m>> /\ m.op = "pointer" /\ m.arg = pointer_on'
      BY <2>5
    <3>2. ~Free(events, About) /\ LastIn(events, About, True')
      BY <3>1, FreeOne, LastInOne DEF Saying
    <3>3. LastIn(coming', About, True') /\ ~Free(coming', About)
      BY <2>3, <3>2
    <3> QED BY <1>s, <3>3 DEF PointerStands
  <2> QED BY <2>1, <2>4, <2>5 DEF Speaks
<1> QED BY <1>1, <1>2, <1>3, TurnKeeps DEF SeatNext, Gone, ClientTurn, seatVars, connVars, cursorVars, worldVars

-----------------------------------------------------------------------------
(* What the client asks for.                                               *)

Offered == (IF data_source = Nil THEN <<>> ELSE <<Request("destroy", data_source, Nil)>>) \o <<Request("select", copies + 1, Nil)>>

Aside(more) == (\A r \in Range(more) : r.op \in {"get", "draw", "pool", "destroy_offer"}) /\ UNCHANGED <<copies, data_source>>
Offers(more) == more = Offered /\ copies' = copies + 1 /\ data_source' = copies + 1
Pastes(more) ==
  /\ more = <<Request("receive", selection_offer, "pipe")>> /\ data_source = Nil /\ selection_offer \in Holder
  /\ UNCHANGED <<copies, data_source>>
Drops(more) ==
  /\ more = <<Request("destroy", data_source, Nil)>> /\ HandleCancelled /\ Head(coming).arg = data_source /\ data_source' = Nil
  /\ UNCHANGED copies
Wears(more) ==
  /\ HandlePointer /\ Head(coming).arg # Nil
  /\ more = <<Request("shape", <<pointer_serial', cursor_shape'>>, Nil)>> /\ cursor_shape' \in Shape
  /\ UNCHANGED <<copies, data_source>>

Asks(more) ==
  /\ more \in Seq(Asked) /\ requests' = requests \o more
  /\ Aside(more) \/ Offers(more) \/ Pastes(more) \/ Drops(more) \/ Wears(more)

LEMMA AsksNothing ==
  ASSUME SeatTypeOK, UNCHANGED <<requests, copies, data_source>>
  PROVE  Asks(<<>>)
<1>1. requests \o <<>> = requests /\ <<>> \in Seq(Asked)
  BY ConcatEmptySeq, EmptySeq DEF SeatTypeOK
<1> QED BY <1>1, RangeOfFew DEF Asks, Aside

LEMMA AsksAside ==
  ASSUME SeatTypeOK, NEW r \in Asked, r.op \in {"get", "draw", "pool", "destroy_offer"},
         requests' = Append(requests, r), UNCHANGED <<copies, data_source>>
  PROVE  Asks(<<r>>)
<1>1. <<r>> \in Seq(Asked) /\ requests \o <<r>> = Append(requests, r) /\ Range(<<r>>) = {r}
  BY AppendIsConcat, RangeOfFew DEF SeatTypeOK
<1> QED BY <1>1 DEF Asks, Aside

LEMMA OfferedIs ==
  ASSUME SeatTypeOK
  PROVE  /\ Offered \in Seq(Asked)
         /\ Range(Offered) = (IF data_source = Nil THEN {} ELSE {Request("destroy", data_source, Nil)})
                               \cup {Request("select", copies + 1, Nil)}
         /\ requests \o Offered = Append(Cleared, Request("select", copies + 1, Nil)) /\ Cleared \in Seq(Asked)
<1> DEFINE old == IF data_source = Nil THEN <<>> ELSE <<Request("destroy", data_source, Nil)>>
           new == <<Request("select", copies + 1, Nil)>>
<1>1. (data_source # Nil => data_source \in Nat) /\ copies + 1 \in Nat /\ requests \in Seq(Asked)
  BY DEF SeatTypeOK
<1>2. Request("select", copies + 1, Nil) \in Asked /\ (data_source # Nil => Request("destroy", data_source, Nil) \in Asked)
  BY <1>1, Requests
<1>3. old \in Seq(Asked) /\ new \in Seq(Asked)
  <2>1. \A r \in Asked : <<r>> \in Seq(Asked)
    OBVIOUS
  <2>2. <<>> \in Seq(Asked)
    OBVIOUS
  <2> QED BY <1>2, <2>1, <2>2
<1>4. requests \o old = Cleared
  BY <1>1, <1>2, ConcatEmptySeq, AppendIsConcat DEF Cleared
<1>5. Range(old) = (IF data_source = Nil THEN {} ELSE {Request("destroy", data_source, Nil)})
      /\ Range(new) = {Request("select", copies + 1, Nil)}
  BY RangeOfFew
<1> HIDE DEF old
<1>6. requests \o (old \o new) = (requests \o old) \o new /\ old \o new \in Seq(Asked) /\ requests \o old \in Seq(Asked)
  BY <1>1, <1>3, ConcatAssociative, ConcatProperties
<1>7. Cleared \o new = Append(Cleared, Request("select", copies + 1, Nil))
  BY <1>2, <1>4, <1>6, AppendIsConcat
<1>8. Range(old \o new) = Range(old) \cup Range(new)
  BY <1>3, RangeConcatenation, ZenonT(40)
<1>9. Offered = old \o new
  BY DEF Offered, old
<1> QED BY <1>4, <1>5, <1>6, <1>7, <1>8, <1>9

LEMMA KeyPressAsks ==
  ASSUME ConnOK, NEW code, NEW here \in Turning, KeyPress(code, here)
  PROVE  \E more : Asks(more)
<1>t. SeatTypeOK
  BY DEF ConnOK
<1>1. CASE OfferSelection(here)
  <2>1. requests' = Append(Cleared, Request("select", copies + 1, Nil))
    BY <1>1, <1>t, OfferAsks
  <2>2. Asks(Offered)
    BY <1>1, <1>t, <2>1, OfferedIs DEF Asks, Offers, OfferSelection
  <2> QED BY <2>2
<1>2. CASE stage' = here /\ UNCHANGED <<requests, sent, back, clipVars>>
  BY <1>2, <1>t, AsksNothing DEF clipVars
<1>3. CASE Paste(here)
  <2> DEFINE ask == Request("receive", selection_offer, "pipe")
  <2>1. CASE /\ data_source = Nil /\ selection_offer \in Holder /\ ask \in Asked
             /\ requests' = Append(requests, ask) /\ UNCHANGED clipVars
    <3>1. <<ask>> \in Seq(Asked) /\ requests \o <<ask>> = Append(requests, ask)
      BY <1>t, <2>1, AppendIsConcat DEF SeatTypeOK
    <3>2. Asks(<<ask>>)
      BY <2>1, <3>1 DEF Asks, Pastes, clipVars
    <3> QED BY <3>2
  <2> QED BY <1>2, <1>3, <2>1, PasteAsks
<1> QED BY <1>1, <1>2, <1>3 DEF KeyPress

LEMMA TurnAsks ==
  ASSUME ConnOK, ClientTurn
  PROVE  (\E more : Asks(more)) /\ UNCHANGED self_wait /\ strokes' \in {strokes, strokes + 1}
<1>t. SeatTypeOK
  BY DEF ConnOK
<1>0. UNCHANGED self_wait /\ strokes' \in {strokes, strokes + 1}
  BY DEF ClientTurn, PollReturns, Repeat, Fill, HandOver, Stall, EndPaste, FinishTurn, historyVars, worldVars
<1>1. CASE PollReturns \/ Fill \/ HandOver \/ Stall \/ EndPaste
  <2>1. UNCHANGED <<requests, copies, data_source>>
    BY <1>1 DEF PollReturns, Fill, HandOver, Stall, EndPaste, connVars, clipVars
  <2> QED BY <1>0, <1>t, <2>1, AsksNothing
<1>2. CASE Repeat
  <2>1. KeyPress(held_key.code, "repeating") /\ "repeating" \in Turning
    BY <1>2 DEF Repeat, Turning
  <2> QED BY <1>0, <2>1, KeyPressAsks
<1>3. CASE FinishTurn
  <2> DEFINE draw == Request("draw", Nil, Nil)
             mem == Request("pool", Nil, "pool")
  <2>1. draw \in Asked /\ mem \in Asked /\ mem.op = "pool" /\ draw.op = "draw"
    BY Requests DEF Request
  <2>2. /\ requests' = requests \/ requests' = Append(requests, draw) \/ requests' = Append(requests, mem)
        /\ UNCHANGED <<copies, data_source>>
    BY <1>3 DEF FinishTurn, clipVars
  <2> HIDE DEF draw, mem
  <2> QED BY <1>0, <1>t, <2>1, <2>2, AsksNothing, AsksAside
<1> QED BY <1>1, <1>2, <1>3 DEF ClientTurn

LEMMA HandleAsks ==
  ASSUME ConnOK, Handle
  PROVE  \E more : Asks(more)
<1>t. SeatTypeOK
  BY DEF ConnOK
<1>1. CASE HandleCapabilities
  <2> DEFINE more == SetToSeq({Request("get", d, Nil) : d \in (Says \cup {"device"}) \ bound})
  <2>1. Says \subseteq Device
    BY <1>1, <1>t, TakenTypes, ToldFields DEF HandleCapabilities, Says
  <2>2. (Says \cup {"device"}) \ bound \in SUBSET Device
    BY <2>1 DEF Device
  <2>3. more \in Seq(Gets)
    BY <2>2, GetsAreAsked
  <2>4. requests' = requests \o more /\ UNCHANGED <<copies, data_source>>
    BY <1>1 DEF HandleCapabilities, clipVars
  <2> HIDE DEF more
  <2>5. more \in Seq(Asked)
    BY <2>3, GetsAreGets, SeqMonotonic
  <2>6. \A r \in Range(more) : r.op = "get"
    <3>1. Range(more) = {more[k] : k \in 1..Len(more)}
      BY <2>3, RangeEquality
    <3> QED BY <2>3, <3>1, ElementOfSeq, GetsAreGets
  <2>7. Asks(more)
    BY <2>4, <2>5, <2>6 DEF Asks, Aside
  <2> QED BY <2>7
<1>2. CASE HandleKeymap \/ HandleRate \/ HandleLeave \/ HandleSend
  <2>1. UNCHANGED <<requests, copies, data_source>>
    BY <1>2 DEF HandleKeymap, HandleRate, HandleLeave, HandleSend, Quietly, clipVars
  <2> QED BY <1>t, <2>1, AsksNothing
<1>3. CASE HandleKey
  <2>1. CASE Says.pressed
    <3>1. KeyPress(Says.code, "reading") /\ "reading" \in Turning
      BY <1>3, <2>1 DEF HandleKey, Turning
    <3> QED BY <3>1, KeyPressAsks
  <2>2. CASE ~Says.pressed
    <3>1. UNCHANGED <<requests, copies, data_source>>
      BY <1>3, <2>2 DEF HandleKey, Quietly, clipVars
    <3> QED BY <1>t, <3>1, AsksNothing
  <2> QED BY <2>1, <2>2
<1>4. CASE HandleSelection
  <2> DEFINE ask == Request("destroy_offer", selection_offer, Nil)
  <2>1. selection_offer # Nil => ask \in Asked /\ ask.op = "destroy_offer"
    BY <1>t, Requests DEF SeatTypeOK, Request
  <2>2. /\ requests' = IF selection_offer = Nil THEN requests ELSE Append(requests, ask)
        /\ UNCHANGED <<copies, data_source>>
    BY <1>4 DEF HandleSelection
  <2> HIDE DEF ask
  <2> QED BY <1>t, <2>1, <2>2, AsksNothing, AsksAside
<1>5. CASE HandleCancelled
  <2>1. Says \in Nat /\ Says = Head(coming).arg
    BY <1>5, <1>t, TakenTypes, ToldFields DEF HandleCancelled, Says
  <2>2. CASE Says # data_source
    <3>1. UNCHANGED <<requests, copies, data_source>>
      BY <1>5, <2>2 DEF HandleCancelled
    <3> QED BY <1>t, <3>1, AsksNothing
  <2>3. CASE Says = data_source
    <3> DEFINE ask == Request("destroy", data_source, Nil)
    <3>1. ask \in Asked
      BY <2>1, <2>3, Requests
    <3>2. requests' = Append(requests, ask) /\ data_source' = Nil /\ UNCHANGED copies
      BY <1>5, <2>3 DEF HandleCancelled
    <3>3. <<ask>> \in Seq(Asked) /\ requests \o <<ask>> = Append(requests, ask)
      BY <1>t, <3>1, AppendIsConcat DEF SeatTypeOK
    <3>4. Asks(<<ask>>)
      BY <1>5, <2>1, <2>3, <3>2, <3>3 DEF Asks, Drops
    <3> QED BY <3>4
  <2> QED BY <2>2, <2>3
<1>6. CASE HandlePointer
  <2>1. Says \in Nat \cup {Nil} /\ Says = Head(coming).arg
    BY <1>6, <1>t, TakenTypes, ToldFields DEF HandlePointer, Says
  <2>2. UNCHANGED <<copies, data_source>>
    BY <1>6 DEF HandlePointer, clipVars
  <2> DEFINE ask == Request("shape", <<pointer_serial', cursor_shape'>>, Nil)
  <2>3. UNCHANGED requests \/ (Says # Nil /\ requests' = Append(requests, ask) /\ cursor_shape' \in Shape)
    BY <1>6 DEF HandlePointer
  <2>4. CASE UNCHANGED requests
    BY <1>t, <2>2, <2>4, AsksNothing
  <2>5. CASE Says # Nil /\ requests' = Append(requests, ask) /\ cursor_shape' \in Shape
    <3>1. pointer_serial' \in Nat
      BY <1>6, <2>1, <2>5 DEF HandlePointer
    <3>2. ask \in Asked
      BY <2>5, <3>1, Requests
    <3>3. <<ask>> \in Seq(Asked) /\ requests \o <<ask>> = Append(requests, ask)
      BY <1>t, <3>2, AppendIsConcat DEF SeatTypeOK
    <3>4. Asks(<<ask>>)
      BY <1>6, <2>1, <2>2, <2>5, <3>3 DEF Asks, Wears
    <3> QED BY <3>4
  <2> QED BY <2>3, <2>4, <2>5
<1> QED BY <1>1, <1>2, <1>3, <1>4, <1>5, <1>6 DEF Handle

\* What follows an event of a kind.
LEMMA FollowsTail ==
  ASSUME NEW S, NEW s \in Seq(S), s # <<>>, NEW A, NEW M, NEW V, Follows(s, A, M, V)
  PROVE  /\ Follows(Tail(s), A, M, V)
         /\ Head(s) \in A => \A m \in Range(Tail(s)) : m \in M => m \in V
<1>1. /\ Tail(s) \in Seq(S) /\ Len(Tail(s)) = Len(s) - 1 /\ Len(s) \in Nat /\ Len(s) > 0
      /\ Head(s) = s[1] /\ 1 \in 1..Len(s)
      /\ \A k \in 1..Len(Tail(s)) : Tail(s)[k] = s[k + 1] /\ k + 1 \in 1..Len(s) /\ k + 1 # 1
  BY TailAt
<1>2. ASSUME NEW j \in 1..Len(Tail(s)), NEW k \in 1..Len(Tail(s)), j < k, Tail(s)[j] \in A, Tail(s)[k] \in M
      PROVE  Tail(s)[k] \in V
  <2>1. j + 1 \in 1..Len(s) /\ k + 1 \in 1..Len(s) /\ j + 1 < k + 1
    BY <1>1, <1>2
  <2> QED BY <1>1, <1>2, <2>1 DEF Follows
<1>3. ASSUME Head(s) \in A, NEW m \in Range(Tail(s)), m \in M PROVE m \in V
  <2>0. Range(Tail(s)) = {Tail(s)[k] : k \in 1..Len(Tail(s))}
    BY <1>1, RangeEquality
  <2>1. PICK k \in 1..Len(Tail(s)) : m = Tail(s)[k]
    BY <2>0
  <2>2. k + 1 \in 1..Len(s) /\ 1 < k + 1 /\ m = s[k + 1]
    BY <1>1, <2>1
  <2> QED BY <1>1, <1>3, <2>2 DEF Follows
<1> QED BY <1>2, <1>3 DEF Follows

LEMMA FollowsConcat ==
  ASSUME NEW S, NEW s \in Seq(S), NEW e \in Seq(S), NEW A, NEW M, NEW V, Follows(s, A, M, V),
         \A m \in Range(e) : m \in M => m \in V
  PROVE  Follows(s \o e, A, M, V)
<1>1. /\ s \o e \in Seq(S) /\ Len(s \o e) = Len(s) + Len(e) /\ Len(s) \in Nat /\ Len(e) \in Nat
      /\ \A i \in 1..Len(s) : (s \o e)[i] = s[i] /\ i \in 1..Len(s \o e)
      /\ \A k \in 1..Len(s \o e) :
           k \in 1..Len(s) \/ (k - Len(s) \in 1..Len(e) /\ (s \o e)[k] = e[k - Len(s)] /\ k > Len(s))
  BY ConcatAt
<1>2. \A k \in 1..Len(e) : e[k] \in Range(e)
  BY RangeEquality
<1>3. ASSUME NEW j \in 1..Len(s \o e), NEW k \in 1..Len(s \o e), j < k, (s \o e)[j] \in A, (s \o e)[k] \in M
      PROVE  (s \o e)[k] \in V
  <2>1. CASE k \in 1..Len(s)
    <3>1. j \in 1..Len(s)
      BY <1>1, <1>3, <2>1
    <3> QED BY <1>1, <1>3, <2>1, <3>1 DEF Follows
  <2>2. CASE k - Len(s) \in 1..Len(e) /\ (s \o e)[k] = e[k - Len(s)]
    BY <1>2, <1>3, <2>2
  <2> QED BY <1>1, <2>1, <2>2
<1> QED BY <1>3 DEF Follows

-----------------------------------------------------------------------------
(* The cursor's shape.                                                     *)

CursorStands == SerialsCounted /\ PointersFollow /\ ShapeStands

LEMMA RangeTyped ==
  ASSUME SeatTypeOK
  PROVE  (\A r \in Range(requests) : r \in Asked) /\ (\A m \in Range(coming) : m \in Told)
<1>1. requests \in Seq(Asked) /\ coming \in Seq(Told)
  BY DEF SeatTypeOK
<1> QED BY <1>1, InRange

\* A request for a shape is the pointer's.
LEMMA AsksShapes ==
  ASSUME SeatTypeOK, NEW more, Asks(more)
  PROVE  /\ Range(requests') = Range(requests) \cup Range(more)
         /\ \A r \in Range(more) : r \in Asked /\ (r.op = "shape" => Wears(more) /\ r.arg[1] = Head(coming).arg)
<1>1. requests \in Seq(Asked) /\ more \in Seq(Asked) /\ requests' = requests \o more
  BY DEF Asks, SeatTypeOK
<1>2. Range(requests') = Range(requests) \cup Range(more)
  BY <1>1, RangeConcatenation
<1>3. \A r \in Range(more) : r \in Asked
  BY <1>1, InRange
<1>4. ASSUME NEW r \in Range(more), r.op = "shape" PROVE Wears(more) /\ r.arg[1] = Head(coming).arg
  <2>1. ~Aside(more)
    BY <1>4 DEF Aside
  <2>2. ~Offers(more)
    BY <1>4, OfferedIs DEF Offers, Request
  <2>3. ~Pastes(more) /\ ~Drops(more)
    BY <1>4, RangeOfFew DEF Pastes, Drops, Request
  <2>4. Wears(more)
    BY <2>1, <2>2, <2>3 DEF Asks
  <2>5. r = Request("shape", <<pointer_serial', cursor_shape'>>, Nil)
    BY <1>4, <2>4, RangeOfFew DEF Wears
  <2>6. pointer_serial' = Head(coming).arg
    BY <2>4, PointerTakes DEF Wears
  <2> QED BY <2>4, <2>5, <2>6 DEF Request
<1> QED BY <1>2, <1>3, <1>4

LEMMA HandleSerials ==
  ASSUME ConnOK, SerialsCounted, Handle
  PROVE  SerialsCounted'
<1>t. SeatTypeOK
  BY DEF ConnOK
<1>1. /\ Range(coming) = {Head(coming)} \cup Range(coming') /\ Head(coming) \in Told /\ UNCHANGED <<pointer_on, strokes>>
      /\ Head(coming).op = "pointer" <=> HandlePointer
      /\ Head(coming).op # "pointer" => pointer_serial' = pointer_serial
  BY <1>t, HandleTakes DEF cursorVars
<1>2. Head(coming).op = "pointer" /\ Head(coming).arg # Nil => Head(coming).arg <= strokes
  BY <1>1 DEF SerialsCounted
<1>3. pointer_serial' # Nil => pointer_serial' <= strokes
  BY <1>1, <1>2, PointerTakes DEF SerialsCounted
<1>4. PICK more : Asks(more)
  BY HandleAsks
<1>5. \A r \in Range(requests') : r.op = "shape" => r.arg[1] <= strokes
  BY <1>t, <1>1, <1>2, <1>4, AsksShapes DEF SerialsCounted, Wears
<1> QED BY <1>1, <1>3, <1>5 DEF SerialsCounted

LEMMA WorldSerials ==
  ASSUME SeatTypeOK, SerialsCounted, World
  PROVE  SerialsCounted'
<1>1. PICK events : Speaks(events)
  BY WorldSpeaks
<1>2. /\ UNCHANGED pointer_serial /\ strokes' \in {strokes, strokes + 1} /\ strokes \in Nat
      /\ coming \in Seq(Told) /\ events \in Seq(Told) /\ coming' = coming \o events
      /\ pointer_serial \in Nat \cup {Nil} /\ pointer_on \in Nat \cup {Nil}
  BY <1>1, WorldKeeps DEF Speaks, cursorVars, SeatTypeOK
<1>3. Range(coming') = Range(coming) \cup Range(events) /\ \A m \in Range(coming) : m \in Told
  BY <1>2, RangeConcatenation, InRange
<1>4. pointer_on' # Nil => pointer_on' <= strokes'
  BY <1>1, <1>2 DEF Speaks, SerialsCounted
<1>5. ASSUME NEW m \in Range(events), m.op = "pointer", m.arg # Nil PROVE m.arg <= strokes'
  <2>1. ~Free(events, Saying("pointer"))
    BY <1>2, <1>5, InRange DEF Free, Saying
  <2>2. PICK k \in Told : events = <<k>> /\ k.arg = pointer_on'
    BY <1>1, <2>1 DEF Speaks
  <2>3. m.arg = pointer_on'
    BY <1>5, <2>2, RangeOfFew
  <2> QED BY <1>4, <1>5, <2>3
<1>6. ASSUME NEW m \in Range(coming), m.op = "pointer", m.arg # Nil PROVE m.arg <= strokes'
  <2>1. m.arg \in Nat /\ m.arg <= strokes
    BY <1>3, <1>6, ToldFields DEF SerialsCounted
  <2> QED BY <1>2, <2>1
<1>7. \A r \in Range(requests') : r \in Range(requests) /\ r \in Asked
  <2>1. requests \in Seq(Asked) /\ (requests' = requests \/ (requests # <<>> /\ requests' = Tail(requests)))
    BY WorldKeeps, ServeTells DEF SeatTypeOK
  <2>2. \A r \in Range(requests) : r \in Asked
    BY <2>1, InRange
  <2> QED BY <2>1, <2>2, RangeOfTail
<1>8. \A r \in Range(requests') : r.op = "shape" => r.arg[1] <= strokes'
  <2>1. SUFFICES ASSUME NEW r \in Range(requests'), r.op = "shape" PROVE r.arg[1] <= strokes'
    OBVIOUS
  <2>2. r.arg[1] \in Nat /\ r.arg[1] <= strokes
    BY <1>7, <2>1, AskedFields DEF SerialsCounted
  <2> QED BY <1>2, <2>2
<1>9. pointer_serial' # Nil => pointer_serial' <= strokes'
  BY <1>2 DEF SerialsCounted
<1> QED BY <1>3, <1>4, <1>5, <1>6, <1>8, <1>9 DEF SerialsCounted

LEMMA TurnSerials ==
  ASSUME ConnOK, SerialsCounted, ClientTurn
  PROVE  SerialsCounted'
<1>t. SeatTypeOK
  BY DEF ConnOK
<1>1. /\ UNCHANGED <<coming, pointer_on, pointer_serial>> /\ strokes' \in {strokes, strokes + 1} /\ strokes \in Nat
      /\ pointer_serial \in Nat \cup {Nil} /\ pointer_on \in Nat \cup {Nil}
  BY TurnKeeps, TurnAsks DEF cursorVars, SeatTypeOK, ConnOK
<1>2. PICK more : Asks(more)
  BY TurnAsks
<1>3. ~HandlePointer
  BY DEF ClientTurn, PollReturns, Repeat, Fill, HandOver, Stall, EndPaste, FinishTurn, HandlePointer, Taken, Complete
<1>4. \A r \in Range(requests') : r \in Asked /\ (r.op = "shape" => r \in Range(requests))
  <2>1. \A r \in Range(requests) : r \in Asked
    BY <1>t, RangeTyped
  <2> QED BY <1>t, <1>2, <1>3, <2>1, AsksShapes DEF Wears
<1>5. \A r \in Range(requests') : r.op = "shape" => r.arg[1] <= strokes'
  <2>1. SUFFICES ASSUME NEW r \in Range(requests'), r.op = "shape" PROVE r.arg[1] <= strokes'
    OBVIOUS
  <2>2. r.arg[1] \in Nat /\ r.arg[1] <= strokes
    BY <1>4, <2>1, AskedFields DEF SerialsCounted
  <2> QED BY <1>1, <2>2
<1>6. \A m \in Range(coming) : m.op = "pointer" /\ m.arg # Nil => m.arg <= strokes'
  <2>1. SUFFICES ASSUME NEW m \in Range(coming), m.op = "pointer", m.arg # Nil PROVE m.arg <= strokes'
    OBVIOUS
  <2>2. m \in Told
    BY <1>t, RangeTyped
  <2>3. m.arg \in Nat /\ m.arg <= strokes
    BY <2>1, <2>2, ToldFields DEF SerialsCounted
  <2> QED BY <1>1, <2>3
<1> QED BY <1>1, <1>5, <1>6 DEF SerialsCounted

LEMMA PointingIs ==
  /\ Pointing = {m \in Told : m.op = "pointer" /\ m.arg = pointer_on}
  /\ Pointing' = {m \in Told : m.op = "pointer" /\ m.arg = pointer_on'}
  /\ UNCHANGED pointer_on => UNCHANGED Pointing
BY DEF Pointing, Saying

LEMMA HandleFollow ==
  ASSUME SeatTypeOK, PointersFollow, Handle
  PROVE  PointersFollow'
<1>1. /\ coming \in Seq(Told) /\ coming # <<>> /\ coming' = Tail(coming) /\ Head(coming) \in Told
      /\ Range(coming) = {Head(coming)} \cup Range(coming') /\ UNCHANGED pointer_on
      /\ Head(coming).op = "pointer" => HandlePointer
      /\ Head(coming).op # "pointer" => UNCHANGED pointer_serial
  BY HandleTakes DEF cursorVars
<1>2. UNCHANGED Pointing
  BY <1>1, PointingIs
<1>3. SUFFICES ASSUME pointer_on # Nil
               PROVE  /\ Follows(Tail(coming), Pointing, Saying("pointer"), Pointing)
                      /\ pointer_serial' = pointer_on => \A m \in Range(coming') : m.op = "pointer" => m.arg = pointer_on
  BY <1>1, <1>2 DEF PointersFollow, Saying
<1>4. /\ Follows(coming, Pointing, Saying("pointer"), Pointing)
      /\ pointer_serial = pointer_on => \A m \in Range(coming) : m.op = "pointer" => m.arg = pointer_on
  BY <1>3 DEF PointersFollow
<1>5. /\ Follows(Tail(coming), Pointing, Saying("pointer"), Pointing)
      /\ Head(coming) \in Pointing => \A m \in Range(Tail(coming)) : m \in Saying("pointer") => m \in Pointing
  BY <1>1, <1>4, FollowsTail
<1>6. \A m \in Range(coming') : m \in Told
  BY <1>1, RangeEquality, ElementOfSeq, HeadTailProperties
<1>7. ASSUME pointer_serial' = pointer_on, pointer_serial # pointer_on PROVE Head(coming) \in Pointing
  <2>1. HandlePointer /\ Head(coming).op = "pointer" /\ Head(coming).arg = pointer_on
    BY <1>1, <1>7, PointerTakes
  <2> QED BY <1>1, <2>1, PointingIs
<1>8. ASSUME pointer_serial' = pointer_on, NEW m \in Range(coming'), m.op = "pointer" PROVE m.arg = pointer_on
  <2>1. CASE pointer_serial = pointer_on
    BY <1>1, <1>4, <1>8, <2>1
  <2>2. CASE pointer_serial # pointer_on
    <3>1. m \in Pointing
      BY <1>1, <1>5, <1>6, <1>7, <1>8, <2>2 DEF Saying
    <3> QED BY <3>1, PointingIs
  <2> QED BY <2>1, <2>2
<1> QED BY <1>5, <1>8

LEMMA WorldFollow ==
  ASSUME SeatTypeOK, SerialsCounted, PointersFollow, World
  PROVE  PointersFollow'
<1>1. PICK events : Speaks(events)
  BY WorldSpeaks
<1>2. /\ UNCHANGED pointer_serial /\ strokes \in Nat
      /\ coming \in Seq(Told) /\ events \in Seq(Told) /\ coming' = coming \o events
      /\ pointer_serial \in Nat \cup {Nil} /\ pointer_on \in Nat \cup {Nil}
  BY <1>1, WorldKeeps DEF Speaks, cursorVars, SeatTypeOK
<1>3. /\ Range(coming') = Range(coming) \cup Range(events) /\ (\A m \in Range(coming) : m \in Told)
      /\ \A m \in Range(events) : m \in Told
  BY <1>2, RangeConcatenation, InRange
<1>4. SUFFICES ASSUME pointer_on' # Nil
               PROVE  /\ Follows(coming \o events, Pointing', Saying("pointer"), Pointing')
                      /\ pointer_serial = pointer_on' => \A m \in Range(coming') : m.op = "pointer" => m.arg = pointer_on'
  BY <1>2 DEF PointersFollow, Saying
<1>5. \A m \in Range(events) : m.op = "pointer" => m \in Pointing' /\ m.arg = pointer_on'
  <2>1. SUFFICES ASSUME NEW m \in Range(events), m.op = "pointer" PROVE m \in Pointing' /\ m.arg = pointer_on'
    OBVIOUS
  <2>2. ~Free(events, Saying("pointer"))
    BY <1>3, <2>1 DEF Free, Saying
  <2>3. PICK k \in Told : events = <<k>> /\ k.op = "pointer" /\ k.arg = pointer_on'
    BY <1>1, <2>2 DEF Speaks
  <2>4. m = k
    BY <2>1, <2>3, RangeOfFew
  <2> QED BY <2>3, <2>4, PointingIs
<1>6. CASE pointer_on' = pointer_on
  <2>1. UNCHANGED Pointing
    BY <1>6, PointingIs
  <2>2. /\ Follows(coming, Pointing, Saying("pointer"), Pointing)
        /\ pointer_serial = pointer_on => \A m \in Range(coming) : m.op = "pointer" => m.arg = pointer_on
    BY <1>4, <1>6 DEF PointersFollow
  <2>3. Follows(coming \o events, Pointing, Saying("pointer"), Pointing)
    BY <1>2, <1>5, <2>1, <2>2, FollowsConcat DEF Saying
  <2> QED BY <1>3, <1>5, <1>6, <2>1, <2>2, <2>3
<1>7. CASE pointer_on' # pointer_on
  <2>1. pointer_on' = strokes + 1
    BY <1>1, <1>4, <1>7 DEF Speaks
  <2>2. \A m \in Range(coming) : m \notin Pointing'
    <3>1. SUFFICES ASSUME NEW m \in Range(coming), m.op = "pointer", m.arg = strokes + 1 PROVE FALSE
      BY <2>1, PointingIs
    <3>2. m.arg # Nil
      BY <2>1, <3>1, <1>4
    <3>3. m.arg <= strokes
      BY <3>1, <3>2 DEF SerialsCounted
    <3> QED BY <1>2, <3>1, <3>3
  <2>3. Follows(coming, Pointing', Saying("pointer"), Pointing')
    <3>1. \A k \in 1..Len(coming) : coming[k] \in Range(coming)
      BY <1>2, RangeEquality
    <3> QED BY <2>2, <3>1 DEF Follows
  <2>4. Follows(coming \o events, Pointing', Saying("pointer"), Pointing')
    BY <1>2, <1>5, <2>3, FollowsConcat DEF Saying
  <2>5. pointer_serial # pointer_on'
    BY <1>2, <1>4, <2>1 DEF SerialsCounted
  <2> QED BY <2>4, <2>5
<1> QED BY <1>6, <1>7

LEMMA FollowKept ==
  ASSUME PointersFollow, UNCHANGED <<coming, pointer_on, pointer_serial>>
  PROVE  PointersFollow'
BY DEF PointersFollow, Pointing, Saying

LEMMA ShapesForIs ==
  /\ \A n : ShapesFor(n) = {r \in Asked : r.op = "shape" /\ r.arg[1] = n}
  /\ \A n : ShapesFor(n)' = ShapesFor(n)
BY DEF ShapesFor

Worn == {r \in Asked : r.arg[2] = cursor_shape}

\* Requests for no shape change nothing of it.
LEMMA ShapeKept ==
  ASSUME SeatTypeOK, ShapeStands, NEW more \in Seq(Asked), requests' = requests \o more, \A r \in Range(more) : r.op # "shape",
         UNCHANGED <<pointer_on, pointer_serial, cursor_shape, shape>>
  PROVE  ShapeStands'
<1>1. requests \in Seq(Asked) /\ \A n : Free(more, ShapesFor(n))
  BY FreeIn DEF ShapesFor, SeatTypeOK
<1>2. \A n : Free(requests', ShapesFor(n)) <=> Free(requests, ShapesFor(n))
  BY <1>1, LastInConcat
<1>3. \A n, V : LastIn(requests, ShapesFor(n), V) => LastIn(requests', ShapesFor(n), V)
  BY <1>1, LastInConcat, LastInFree
<1> QED BY <1>2, <1>3, ShapesForIs DEF ShapeStands

LEMMA HandleShape ==
  ASSUME ConnOK, PointersFollow, ShapeStands, Handle
  PROVE  ShapeStands'
<1>t. SeatTypeOK
  BY DEF ConnOK
<1>1. /\ Head(coming) \in Told /\ Head(coming) \in Range(coming) /\ UNCHANGED <<pointer_on, shape>>
      /\ Head(coming).op # "pointer" => UNCHANGED <<pointer_serial, cursor_shape>>
      /\ Head(coming).op = "pointer" <=> HandlePointer
  BY <1>t, HandleTakes DEF cursorVars
<1>2. CASE ~HandlePointer
  <2>1. PICK more : Asks(more)
    BY HandleAsks
  <2>2. more \in Seq(Asked) /\ requests' = requests \o more /\ \A r \in Range(more) : r.op # "shape"
    BY <1>t, <1>2, <2>1, AsksShapes DEF Asks, Wears
  <2> QED BY <1>1, <1>2, <1>t, <2>2, ShapeKept
<1>3. CASE HandlePointer
  <2> DEFINE n == Head(coming).arg
             worn == IF n \in {Nil, pointer_serial} THEN cursor_shape ELSE Nil
  <2>1. PICK want \in Shape :
          IF n = Nil \/ worn = want
          THEN cursor_shape' = worn /\ UNCHANGED requests
          ELSE cursor_shape' = want /\ requests' = Append(requests, Request("shape", <<pointer_serial', want>>, Nil))
    BY <1>3 DEF HandlePointer, Says
  <2>2. pointer_serial' = IF n = Nil THEN pointer_serial ELSE n
    BY <1>3, PointerTakes
  <2>3. n \in Nat \cup {Nil} /\ requests \in Seq(Asked) /\ Nil \notin Shape
    BY <1>1, <1>3, <1>t, ToldFields, NilApart DEF SeatTypeOK
  <2>4. CASE n = Nil \/ worn = want
    <3>1. n \in {Nil, pointer_serial}
      BY <2>3, <2>4
    <3>2. UNCHANGED <<pointer_on, pointer_serial, cursor_shape, shape, requests>>
      BY <1>1, <2>1, <2>2, <2>4, <3>1
    <3> QED BY <3>2 DEF ShapeStands, ShapesFor
  <2>5. CASE ~(n = Nil \/ worn = want)
    <3> DEFINE r == Request("shape", <<n, want>>, Nil)
    <3>1. n \in Nat /\ pointer_serial' = n /\ cursor_shape' = want /\ requests' = Append(requests, r)
      BY <2>1, <2>2, <2>3, <2>5
    <3>2. r \in Asked /\ r.op = "shape" /\ r.arg[1] = n /\ r.arg[2] = want
      BY <3>1, Requests DEF Request
    <3> HIDE DEF r, n, worn
    <3>3. <<r>> \in Seq(Asked) /\ requests' = requests \o <<r>>
      BY <2>3, <3>1, <3>2, AppendIsConcat
    <3>4. /\ \A M : Free(requests', M) <=> Free(requests, M) /\ Free(<<r>>, M)
          /\ \A M, V : LastIn(<<r>>, M, V) /\ (Free(<<r>>, M) => LastIn(requests, M, V)) => LastIn(requests', M, V)
      BY <2>3, <3>3, LastInConcat
    <3>5. SUFFICES ASSUME pointer_on # Nil PROVE ShapeStands'
      BY <1>1 DEF ShapeStands
    <3>6. CASE n = pointer_on
      <4>1. ~Free(<<r>>, ShapesFor(pointer_on)) /\ LastIn(<<r>>, ShapesFor(pointer_on), {k \in Asked : k.arg[2] = cursor_shape'})
        BY <3>1, <3>2, <3>6, FreeOne, LastInOne DEF ShapesFor
      <4>2. ~Free(requests', ShapesFor(pointer_on)) /\ LastIn(requests', ShapesFor(pointer_on), {k \in Asked : k.arg[2] = cursor_shape'})
        BY <3>4, <4>1
      <4> QED BY <1>1, <3>1, <3>6, <4>2, ShapesForIs DEF ShapeStands
    <3>7. CASE n # pointer_on
      <4>1. pointer_serial # pointer_on
        BY <1>1, <1>3, <3>5, <3>7 DEF PointersFollow, n
      <4>2. shape = Nil /\ Free(requests, ShapesFor(pointer_on))
        BY <3>5, <4>1 DEF ShapeStands
      <4>3. Free(<<r>>, ShapesFor(pointer_on))
        BY <3>2, <3>7, FreeOne DEF ShapesFor
      <4>4. Free(requests', ShapesFor(pointer_on))
        BY <3>4, <4>2, <4>3
      <4> QED BY <1>1, <3>1, <3>7, <4>2, <4>4, ShapesForIs DEF ShapeStands
    <3> QED BY <3>6, <3>7
  <2> QED BY <2>4, <2>5
<1> QED BY <1>2, <1>3

LEMMA WorldShape ==
  ASSUME SeatTypeOK, SerialsCounted, ShapeStands, World
  PROVE  ShapeStands'
<1>0. UNCHANGED <<pointer_serial, cursor_shape>> /\ requests \in Seq(Asked)
  BY WorldKeeps DEF cursorVars, SeatTypeOK
<1>1. CASE Serve
  <2> DEFINE r == Head(requests)
  <2>1. requests # <<>> /\ r \in Asked /\ requests' = Tail(requests) /\ UNCHANGED pointer_on
    BY <1>1, ServeTells DEF Serve
  <2>2. shape' = IF r.op = "shape" /\ pointer_on = r.arg[1] THEN r.arg[2] ELSE shape
    BY <1>1, <2>1, AskedFields DEF Serve
  <2>3. \A M : \A V : LastIn(requests, M, V) =>
            /\ LastIn(requests', M, V)
            /\ Free(requests', M) /\ r \in M => r \in V
            /\ Free(requests', M) /\ r \notin M => Free(requests, M)
    BY <1>0, <2>1, LastInTail
  <2>4. \A M : Free(requests, M) => Free(requests', M) /\ r \notin M
    BY <1>0, <2>1, RangeOfTail DEF Free
  <2>5. r \in ShapesFor(pointer_on) <=> r.op = "shape" /\ pointer_on = r.arg[1]
    BY <2>1 DEF ShapesFor
  <2> HIDE DEF r
  <2>6. SUFFICES ASSUME pointer_on # Nil PROVE ShapeStands'
    BY <2>1 DEF ShapeStands
  <2>7. CASE pointer_serial = pointer_on
    <3>1. LastIn(requests, ShapesFor(pointer_on), Worn) /\ (Free(requests, ShapesFor(pointer_on)) => shape = cursor_shape)
      BY <2>6, <2>7 DEF ShapeStands, Worn
    <3>2. /\ LastIn(requests', ShapesFor(pointer_on), Worn)
          /\ Free(requests', ShapesFor(pointer_on)) /\ r \in ShapesFor(pointer_on) => r \in Worn
          /\ Free(requests', ShapesFor(pointer_on)) /\ r \notin ShapesFor(pointer_on) => Free(requests, ShapesFor(pointer_on))
      BY <2>3, <3>1
    <3>3. Free(requests', ShapesFor(pointer_on)) => shape' = cursor_shape
      BY <2>2, <2>5, <3>1, <3>2 DEF Worn
    <3> QED BY <1>0, <2>1, <2>7, <3>2, <3>3, ShapesForIs DEF ShapeStands, Worn
  <2>8. CASE pointer_serial # pointer_on
    <3>1. shape = Nil /\ Free(requests, ShapesFor(pointer_on))
      BY <2>6, <2>8 DEF ShapeStands
    <3>2. shape' = Nil /\ Free(requests', ShapesFor(pointer_on))
      BY <2>2, <2>4, <2>5, <3>1
    <3> QED BY <1>0, <2>1, <2>8, <3>2, ShapesForIs DEF ShapeStands
  <2> QED BY <2>7, <2>8
<1>2. CASE Point
  <2>1. UNCHANGED requests
    BY <1>2, WorldKeeps DEF Point, Stroke
  <2>2. (pointer_on' = strokes + 1 /\ shape' = Nil) \/ pointer_on' = Nil \/ UNCHANGED <<pointer_on, shape>>
    BY <1>2 DEF Point
  <2>3. CASE UNCHANGED <<pointer_on, shape>>
    BY <1>0, <2>1, <2>3 DEF ShapeStands, ShapesFor
  <2>4. CASE pointer_on' = Nil
    BY <2>4 DEF ShapeStands
  <2>5. CASE pointer_on' = strokes + 1 /\ shape' = Nil
    <3>1. pointer_serial # strokes + 1
      <4>1. strokes + 1 # Nil /\ strokes \in Nat /\ pointer_serial \in Nat \cup {Nil}
        BY NilApart DEF SeatTypeOK
      <4> QED BY <4>1 DEF SerialsCounted
    <3>2. Free(requests, ShapesFor(strokes + 1))
      <4>1. SUFFICES ASSUME NEW r \in Range(requests), r \in ShapesFor(strokes + 1) PROVE FALSE
        BY FreeIn
      <4>2. strokes + 1 <= strokes /\ strokes \in Nat
        BY <4>1 DEF SerialsCounted, ShapesFor, SeatTypeOK
      <4> QED BY <4>2
    <3>3. Free(requests', ShapesFor(pointer_on'))
      BY <2>1, <2>5, <3>2
    <3>4. pointer_serial' # pointer_on'
      BY <1>0, <2>5, <3>1
    <3> QED BY <2>5, <3>3, <3>4, ShapesForIs DEF ShapeStands, ShapesFor
  <2> QED BY <2>2, <2>3, <2>4, <2>5
<1>3. CASE ~Serve /\ ~Point
  BY <1>0, <1>3, WorldKeeps DEF ShapeStands, ShapesFor
<1> QED BY <1>1, <1>2, <1>3

LEMMA NextCursor == ConnOK /\ CursorStands /\ [SeatNext]_seatVars => CursorStands'
<1>1. ASSUME ConnOK, CursorStands, Handle PROVE CursorStands'
  BY <1>1, HandleSerials, HandleFollow, HandleShape DEF CursorStands, ConnOK
<1>2. ASSUME ConnOK, CursorStands, World PROVE CursorStands'
  BY <1>2, WorldSerials, WorldFollow, WorldShape DEF CursorStands, ConnOK
<1>3. ASSUME ConnOK, CursorStands, ClientTurn PROVE CursorStands'
  <2>1. UNCHANGED <<coming, pointer_on, pointer_serial, cursor_shape, shape>>
    BY <1>3, TurnKeeps DEF cursorVars
  <2>2. PICK more : Asks(more)
    BY <1>3, TurnAsks
  <2>3. ~HandlePointer
    BY <1>3 DEF ClientTurn, PollReturns, Repeat, Fill, HandOver, Stall, EndPaste, FinishTurn, HandlePointer, Taken, Complete
  <2>4. more \in Seq(Asked) /\ requests' = requests \o more /\ \A r \in Range(more) : r.op # "shape"
    BY <1>3, <2>2, <2>3, AsksShapes DEF ConnOK, Asks, Wears
  <2>5. ShapeStands'
    BY <1>3, <2>1, <2>4, ShapeKept DEF CursorStands, ConnOK
  <2> QED BY <1>3, <2>1, <2>5, TurnSerials, FollowKept DEF CursorStands
<1>4. ASSUME CursorStands, UNCHANGED seatVars PROVE CursorStands'
  <2>1. UNCHANGED <<coming, requests, strokes, pointer_on, pointer_serial, cursor_shape, shape>>
    BY <1>4 DEF seatVars, connVars, cursorVars, worldVars
  <2>2. SerialsCounted' /\ ShapeStands' /\ PointersFollow'
    BY <1>4, <2>1, FollowKept DEF CursorStands, SerialsCounted, ShapeStands, ShapesFor
  <2> QED BY <2>2 DEF CursorStands
<1> QED BY <1>1, <1>2, <1>3, <1>4 DEF SeatNext, Gone, ClientTurn

-----------------------------------------------------------------------------
(* The client's sources and the owner of the selection.                    *)

Sources == SourcesCounted /\ SourcesOrdered /\ SourceStands /\ NoneWaits

LEMMA OursIs ==
  /\ \A n \in Nat : Ours(n) # Nil /\ Ours(n).by = "us" /\ Ours(n).n = n /\ IsSource(Ours(n))
  /\ \A h \in Holder : IsSource(h) <=> h.by = "us"
  /\ \A h \in Holder : h.n \in Nat /\ (h.by = "us" => h = Ours(h.n))
  /\ ~IsSource(Nil)
BY NilApart, Holders DEF Ours, IsSource, Holder

LEMMA SelectsIn ==
  ASSUME SeatTypeOK
  PROVE  Free(requests, Asking("select")) <=> \A r \in Range(requests) : r.op # "select"
BY RangeTyped DEF Free, Asking

LEMMA SourcesKept ==
  ASSUME SeatTypeOK, SeatTypeOK', Sources, UNCHANGED <<copies, data_source>>, self_wait' => self_wait,
         IsSource(selection_offer') => selection_offer'.n <= copies,
         \A r \in Range(requests') : r \in Range(requests) \/ r.op \notin {"select", "destroy", "receive"},
         \A r \in Range(requests) : r.op = "select" => r \in Range(requests'),
         Ascends(requests', Asking("select")),
         IsSource(owner') => owner' = owner,
         data_source # Nil /\ owner = Ours(data_source) =>
           owner' = owner \/ \E m \in Range(coming') : m.op = "cancelled" /\ m.arg = data_source,
         \A m \in Range(coming') : m \in Range(coming) \/
           /\ m.op = "cancelled" => owner = Ours(m.arg) /\ ~IsSource(owner')
           /\ m.op = "selection" /\ IsSource(m.arg) => m.arg.n <= copies,
         \A m \in Range(coming) : m.op = "cancelled" /\ m.arg = data_source => m \in Range(coming')
  PROVE  Sources'
<1>t. /\ copies \in Nat /\ data_source \in Nat \cup {Nil} /\ owner \in Holder \cup {Nil} /\ owner' \in Holder \cup {Nil}
      /\ (\A r \in Range(requests) : r \in Asked) /\ (\A r \in Range(requests') : r \in Asked)
      /\ \A m \in Range(coming) : m \in Told
  <2>1. requests' \in Seq(Asked)
    BY DEF SeatTypeOK
  <2>2. \A r \in Range(requests') : r \in Asked
    BY <2>1, InRange
  <2> QED BY <2>2, RangeTyped DEF SeatTypeOK
<1>m. \A m \in Range(coming') : m \in Told
  <2>1. coming' \in Seq(Told)
    BY DEF SeatTypeOK
  <2> QED BY <2>1, InRange
<1>o. \A m \in Told : m.op = "cancelled" => m.arg \in Nat /\ Ours(m.arg).n = m.arg /\ IsSource(Ours(m.arg))
  BY ToldFields, OursIs
<1>1. SourcesCounted'
  <2>1. ASSUME NEW m \in Range(coming'), m.op = "cancelled" PROVE m.arg <= copies
    BY <1>m, <1>o, <2>1 DEF Sources, SourcesCounted
  <2>2. ASSUME NEW m \in Range(coming'), m.op = "selection", IsSource(m.arg) PROVE m.arg.n <= copies
    BY <2>2 DEF Sources, SourcesCounted
  <2>3. ASSUME NEW r \in Range(requests')
        PROVE  /\ r.op \in {"select", "destroy"} => r.arg <= copies
               /\ r.op = "receive" /\ r.arg.by = "us" => r.arg.n <= copies
               /\ r.op = "destroy" => r.arg # data_source
    BY <2>3 DEF Sources, SourcesCounted
  <2>4. IsSource(owner') => owner'.n <= copies
    BY DEF Sources, SourcesCounted
  <2>5. data_source' # Nil => data_source' = copies'
    BY DEF Sources, SourcesCounted
  <2> QED BY <2>1, <2>2, <2>3, <2>4, <2>5 DEF SourcesCounted, IsSource
<1>2. SourcesOrdered'
  <2>1. ASSUME NEW r \in Range(requests'), r.op = "select", IsSource(owner') PROVE owner'.n < r.arg
    BY <2>1 DEF Sources, SourcesOrdered
  <2>2. ASSUME NEW m \in Range(coming'), m.op = "cancelled", IsSource(owner') PROVE m.arg < owner'.n
    BY <2>2 DEF Sources, SourcesOrdered
  <2>3. ASSUME NEW m \in Range(coming'), m.op = "cancelled", NEW r \in Range(requests'), r.op = "select" PROVE m.arg < r.arg
    <3>1. r \in Range(requests)
      BY <2>3
    <3>2. CASE m \in Range(coming)
      BY <2>3, <3>1, <3>2 DEF Sources, SourcesOrdered
    <3>3. CASE owner = Ours(m.arg)
      BY <1>m, <1>o, <2>3, <3>1, <3>3 DEF Sources, SourcesOrdered
    <3> QED BY <2>3, <3>2, <3>3
  <2>4. Asking("select")' = Asking("select")
    BY DEF Asking
  <2> QED BY <2>1, <2>2, <2>3, <2>4 DEF SourcesOrdered, IsSource
<1>3. SourceStands'
  <2>1. CASE data_source = Nil
    <3>1. ~IsSource(owner) /\ \A r \in Range(requests) : r.op # "select"
      BY <2>1, SelectsIn DEF Sources, SourceStands
    <3>2. \A r \in Range(requests') : r \notin Asking("select")
      BY <3>1 DEF Asking
    <3>3. Free(requests', Asking("select"))
      BY <3>2, FreeIn
    <3>4. ~IsSource(owner')
      BY <3>1
    <3> QED BY <2>1, <3>3, <3>4 DEF SourceStands, IsSource, Asking
  <2>2. CASE data_source # Nil
    <3>1. \/ owner = Ours(data_source)
          \/ \E r \in Range(requests) : r.op = "select" /\ r.arg = data_source
          \/ \E m \in Range(coming) : m.op = "cancelled" /\ m.arg = data_source
      BY <2>2 DEF Sources, SourceStands
    <3>2. \/ owner' = Ours(data_source)
          \/ \E r \in Range(requests') : r.op = "select" /\ r.arg = data_source
          \/ \E m \in Range(coming') : m.op = "cancelled" /\ m.arg = data_source
      BY <2>2, <3>1
    <3> QED BY <2>2, <3>2 DEF SourceStands, Ours
  <2> QED BY <2>1, <2>2
<1>4. NoneWaits'
  <2>1. ASSUME NEW q \in Range(requests'), q.op = "receive", q.arg.by = "us"
        PROVE  owner' # q.arg /\ \A r \in Range(requests') : r.op = "select" => r.arg # q.arg.n
    <3>1. q \in Range(requests) /\ IsSource(q.arg)
      BY <1>t, <2>1, AskedFields, OursIs
    <3>2. owner # q.arg /\ \A r \in Range(requests) : r.op = "select" => r.arg # q.arg.n
      BY <2>1, <3>1 DEF Sources, NoneWaits
    <3> QED BY <3>1, <3>2
  <2>2. ~self_wait'
    BY DEF Sources, NoneWaits
  <2> QED BY <2>1, <2>2 DEF NoneWaits
<1> QED BY <1>1, <1>2, <1>3, <1>4 DEF Sources

-----------------------------------------------------------------------------
(* Requests that the client adds.                                          *)

LEMMA AscendsMore ==
  ASSUME SeatTypeOK, Ascends(requests, Asking("select")), NEW more \in Seq(Asked), \A r \in Range(more) : r.op # "select"
  PROVE  Ascends(requests \o more, Asking("select"))
<1>1. Free(more, Asking("select"))
  BY FreeIn DEF Asking
<1> QED BY <1>1, AscendsConcat DEF SeatTypeOK

LEMMA ClientSources ==
  ASSUME SeatTypeOK, SeatTypeOK', Sources, NEW more, Asks(more), UNCHANGED <<owner, self_wait>>,
         IsSource(selection_offer') => selection_offer'.n <= copies,
         \A m \in Range(coming') : m \in Range(coming),
         \A m \in Range(coming) : m.op = "cancelled" /\ m.arg = data_source /\ UNCHANGED data_source => m \in Range(coming'),
         Drops(more) => data_source # Nil /\ \E m \in Range(coming) : m.op = "cancelled" /\ m.arg = data_source
  PROVE  Sources'
<1>t. /\ copies \in Nat /\ data_source \in Nat \cup {Nil} /\ owner \in Holder \cup {Nil}
      /\ (\A r \in Range(requests) : r \in Asked) /\ (\A m \in Range(coming) : m \in Told)
      /\ requests \in Seq(Asked)
  BY RangeTyped DEF SeatTypeOK
<1>a. /\ more \in Seq(Asked) /\ requests' = requests \o more
      /\ Range(requests') = Range(requests) \cup Range(more) /\ \A r \in Range(more) : r \in Asked
  BY AsksShapes DEF Asks
<1>s. Ascends(requests, Asking("select"))
  BY DEF Sources, SourcesOrdered
<1>i. IsSource(owner)' = IsSource(owner) /\ Asking("select")' = Asking("select")
  BY DEF IsSource, Asking
<1>1. CASE Aside(more) \/ Wears(more)
  <2>1. UNCHANGED <<copies, data_source>> /\ \A r \in Range(more) : r.op \notin {"select", "destroy", "receive"}
    BY <1>1, RangeOfFew DEF Aside, Wears, Request
  <2>2. Ascends(requests', Asking("select"))
    BY <1>a, <1>s, <2>1, AscendsMore
  <2> QED BY <1>a, <2>1, <2>2, SourcesKept
<1>2. CASE Offers(more)
  <2> DEFINE sel == Request("select", copies + 1, Nil)
             des == Request("destroy", data_source, Nil)
  <2>1. /\ copies' = copies + 1 /\ data_source' = copies + 1
        /\ Range(more) = (IF data_source = Nil THEN {} ELSE {des}) \cup {sel}
        /\ requests' = Append(Cleared, sel) /\ Cleared \in Seq(Asked)
    BY <1>2, <1>a, OfferedIs DEF Offers
  <2>2. /\ sel.op = "select" /\ sel.arg = copies + 1 /\ des.op = "destroy" /\ des.arg = data_source
        /\ sel \in Asked /\ sel \in Range(more) /\ (data_source # Nil => des \in Asked)
    BY <1>a, <2>1 DEF Request
  <2> HIDE DEF sel, des
  <2>3. \A r \in Range(requests') : r \in Range(requests) \/ r = sel \/ (data_source # Nil /\ r = des)
    BY <1>a, <2>1
  <2>c. /\ data_source # Nil => data_source = copies
        /\ IsSource(owner) => owner.n \in Nat /\ owner.n <= copies
        /\ \A r \in Range(requests) : /\ r.op \in {"select", "destroy"} => r.arg \in Nat /\ r.arg <= copies
                                      /\ r.op = "receive" => r.arg \in Holder /\ r.arg.n \in Nat
                                      /\ r.op = "receive" /\ r.arg.by = "us" => r.arg.n <= copies
                                      /\ r.op = "destroy" => r.arg # data_source
        /\ \A m \in Range(coming) : /\ m.op = "cancelled" => m.arg \in Nat /\ m.arg <= copies
                                    /\ m.op = "selection" /\ IsSource(m.arg) => m.arg.n \in Nat /\ m.arg.n <= copies
    BY <1>t, AskedFields, ToldFields, OursIs DEF Sources, SourcesCounted, IsSource
  <2>4. SourcesCounted'
    <3>1. data_source' # Nil => data_source' = copies'
      BY <2>1
    <3>2. IsSource(owner)' => owner'.n <= copies'
      BY <1>i, <1>t, <2>1, <2>c
    <3>3. IsSource(selection_offer') => selection_offer'.n <= copies'
      <4>1. IsSource(selection_offer') => selection_offer'.n \in Nat
        BY OursIs DEF SeatTypeOK, IsSource
      <4> QED BY <1>t, <2>1, <4>1
    <3>4. ASSUME NEW r \in Range(requests')
          PROVE  /\ r.op \in {"select", "destroy"} => r.arg <= copies'
                 /\ r.op = "receive" /\ r.arg.by = "us" => r.arg.n <= copies'
                 /\ r.op = "destroy" => r.arg # data_source'
      <4>1. CASE r \in Range(requests)
        BY <1>t, <2>1, <2>c, <4>1
      <4>2. CASE r = sel
        BY <1>t, <2>1, <2>2, <4>2
      <4>3. CASE data_source # Nil /\ r = des
        BY <1>t, <2>1, <2>2, <2>c, <4>3
      <4> QED BY <2>3, <4>1, <4>2, <4>3
    <3>5. ASSUME NEW m \in Range(coming')
          PROVE  /\ m.op = "cancelled" => m.arg <= copies'
                 /\ m.op = "selection" /\ IsSource(m.arg) => m.arg.n <= copies'
      BY <1>t, <2>1, <2>c
    <3> QED BY <3>1, <3>2, <3>3, <3>4, <3>5 DEF SourcesCounted, IsSource
  <2>5. SourcesOrdered'
    <3>1. Ascends(requests', Asking("select"))
      <4>1. Ascends(Cleared, Asking("select")) /\ \A r \in Range(Cleared) : r \in Range(requests) \/ r.op = "destroy"
        <5>1. CASE data_source = Nil
          BY <1>s, <5>1 DEF Cleared
        <5>2. CASE data_source # Nil
          <6>1. Cleared = Append(requests, des) /\ des \in Asked /\ des \notin Asking("select")
            BY <2>2, <5>2 DEF Cleared, des, Asking
          <6> QED BY <1>s, <1>t, <2>2, <6>1, AscendsAppend, RangeOfAppend
        <5> QED BY <5>1, <5>2
      <4>2. \A r \in Range(Cleared) : r \in Asking("select") => r.arg < sel.arg
        BY <1>t, <2>2, <2>c, <4>1 DEF Asking
      <4> QED BY <2>1, <2>2, <4>1, <4>2, AscendsAppend
    <3>2. ASSUME NEW r \in Range(requests'), r.op = "select" PROVE r \in Range(requests) \/ r.arg = copies + 1
      BY <2>2, <2>3, <3>2
    <3>3. ASSUME NEW r \in Range(requests'), r.op = "select", IsSource(owner) PROVE owner.n < r.arg
      <4>1. CASE r \in Range(requests)
        BY <3>3, <4>1 DEF Sources, SourcesOrdered
      <4>2. CASE r.arg = copies + 1
        BY <1>t, <2>c, <3>3, <4>2
      <4> QED BY <3>2, <3>3, <4>1, <4>2
    <3>4. ASSUME NEW m \in Range(coming'), m.op = "cancelled", IsSource(owner) PROVE m.arg < owner.n
      BY <3>4 DEF Sources, SourcesOrdered
    <3>5. ASSUME NEW m \in Range(coming'), m.op = "cancelled", NEW r \in Range(requests'), r.op = "select" PROVE m.arg < r.arg
      <4>1. CASE r \in Range(requests)
        BY <3>5, <4>1 DEF Sources, SourcesOrdered
      <4>2. CASE r.arg = copies + 1
        BY <1>t, <2>c, <3>5, <4>2
      <4> QED BY <3>2, <3>5, <4>1, <4>2
    <3> QED BY <1>i, <3>1, <3>3, <3>4, <3>5 DEF SourcesOrdered, IsSource
  <2>6. SourceStands'
    <3>1. data_source' # Nil /\ sel \in Range(requests') /\ sel.op = "select" /\ sel.arg = data_source'
      BY <1>a, <1>t, <2>1, <2>2, NilApart
    <3> QED BY <3>1 DEF SourceStands
  <2>7. NoneWaits'
    <3>1. ASSUME NEW q \in Range(requests'), q.op = "receive", q.arg.by = "us"
          PROVE  owner' # q.arg /\ \A r \in Range(requests') : r.op = "select" => r.arg # q.arg.n
      <4>1. q \in Range(requests) /\ q.arg.n \in Nat /\ q.arg.n <= copies
        BY <2>2, <2>3, <2>c, <3>1
      <4>2. owner # q.arg /\ \A r \in Range(requests) : r.op = "select" => r.arg # q.arg.n
        BY <3>1, <4>1 DEF Sources, NoneWaits
      <4>3. sel.arg # q.arg.n
        BY <1>t, <2>2, <4>1
      <4> QED BY <2>2, <2>3, <4>2, <4>3
    <3> QED BY <3>1 DEF NoneWaits, Sources
  <2> QED BY <2>4, <2>5, <2>6, <2>7 DEF Sources
<1>3. CASE Pastes(more)
  <2> DEFINE ask == Request("receive", selection_offer, "pipe")
  <2>1. /\ UNCHANGED <<copies, data_source>> /\ data_source = Nil /\ selection_offer \in Holder
        /\ Range(more) = {ask} /\ ask.op = "receive" /\ ask.arg = selection_offer
    BY <1>3, RangeOfFew DEF Pastes, Request
  <2> HIDE DEF ask
  <2>2. ~IsSource(owner) /\ \A r \in Range(requests) : r.op # "select"
    BY <2>1, SelectsIn DEF Sources, SourceStands
  <2>3. \A r \in Range(requests') : r \in Range(requests) \/ r = ask
    BY <1>a, <2>1
  <2>4. \A r \in Range(requests') : r.op # "select"
    BY <2>1, <2>2, <2>3
  <2>5. SourcesCounted'
    <3>1. ASSUME NEW r \in Range(requests')
          PROVE  /\ r.op \in {"select", "destroy"} => r.arg <= copies
                 /\ r.op = "receive" /\ r.arg.by = "us" => r.arg.n <= copies
                 /\ r.op = "destroy" => r.arg # data_source
      <4>1. CASE r \in Range(requests)
        BY <4>1 DEF Sources, SourcesCounted
      <4>2. CASE r = ask
        BY <2>1, <4>2, OursIs DEF Sources, SourcesCounted
      <4> QED BY <2>3, <4>1, <4>2
    <3> QED BY <1>i, <2>1, <3>1 DEF Sources, SourcesCounted, IsSource
  <2>6. SourcesOrdered'
    <3>1. Ascends(requests', Asking("select"))
      BY <1>a, <1>s, <2>1, AscendsMore
    <3>2. \A m \in Range(coming') : m.op = "cancelled" => (IsSource(owner) => m.arg < owner.n)
      BY DEF Sources, SourcesOrdered
    <3> QED BY <1>i, <2>4, <3>1, <3>2 DEF SourcesOrdered, IsSource
  <2>7. SourceStands'
    <3>1. Free(requests', Asking("select"))
      BY <2>4, FreeIn DEF Asking
    <3> QED BY <1>i, <2>1, <2>2, <3>1 DEF SourceStands, IsSource
  <2>8. NoneWaits'
    <3>1. ASSUME NEW q \in Range(requests'), q.op = "receive", q.arg.by = "us" PROVE owner # q.arg
      <4>1. CASE q \in Range(requests)
        BY <3>1, <4>1 DEF Sources, NoneWaits
      <4>2. CASE q = ask
        BY <2>1, <2>2, <3>1, <4>2, OursIs
      <4> QED BY <2>3, <3>1, <4>1, <4>2
    <3> QED BY <2>4, <3>1 DEF NoneWaits, Sources
  <2> QED BY <2>5, <2>6, <2>7, <2>8 DEF Sources
<1>4. CASE Drops(more)
  <2> DEFINE ask == Request("destroy", data_source, Nil)
  <2>1. /\ UNCHANGED copies /\ data_source' = Nil /\ data_source # Nil /\ data_source \in Nat
        /\ Range(more) = {ask} /\ ask.op = "destroy" /\ ask.arg = data_source
    BY <1>4, <1>t, RangeOfFew DEF Drops, Request
  <2> HIDE DEF ask
  <2>2. PICK m \in Range(coming) : m.op = "cancelled" /\ m.arg = data_source
    BY <1>4
  <2>3. data_source = copies
    BY <2>1 DEF Sources, SourcesCounted
  <2>4. ~IsSource(owner)
    <3>1. SUFFICES ASSUME IsSource(owner) PROVE FALSE
      OBVIOUS
    <3>2. data_source < owner.n /\ owner.n <= copies /\ owner.n \in Nat
      BY <1>t, <2>2, <3>1, OursIs DEF Sources, SourcesOrdered, SourcesCounted
    <3> QED BY <1>t, <2>3, <3>2
  <2>5. \A r \in Range(requests) : r.op # "select"
    <3>1. SUFFICES ASSUME NEW r \in Range(requests), r.op = "select" PROVE FALSE
      OBVIOUS
    <3>2. data_source < r.arg /\ r.arg <= copies /\ r.arg \in Nat
      BY <1>t, <2>2, <3>1, AskedFields DEF Sources, SourcesOrdered, SourcesCounted
    <3> QED BY <1>t, <2>3, <3>2
  <2>6. \A r \in Range(requests') : r \in Range(requests) \/ r = ask
    BY <1>a, <2>1
  <2>7. \A r \in Range(requests') : r.op # "select"
    BY <2>1, <2>5, <2>6
  <2>8. SourcesCounted'
    <3>1. ASSUME NEW r \in Range(requests')
          PROVE  /\ r.op \in {"select", "destroy"} => r.arg <= copies
                 /\ r.op = "receive" /\ r.arg.by = "us" => r.arg.n <= copies
                 /\ r.op = "destroy" => r.arg # Nil
      <4>1. r.op = "destroy" => r.arg \in Nat
        BY <1>a, <1>t, AskedFields
      <4>2. CASE r \in Range(requests)
        BY <4>1, <4>2, NilApart DEF Sources, SourcesCounted
      <4>3. CASE r = ask
        BY <1>t, <2>1, <2>3, <4>3
      <4> QED BY <2>6, <4>2, <4>3
    <3> QED BY <1>i, <2>1, <2>4, <3>1 DEF Sources, SourcesCounted, IsSource
  <2>9. SourcesOrdered'
    <3>1. Ascends(requests', Asking("select"))
      BY <1>a, <1>s, <2>1, AscendsMore
    <3> QED BY <1>i, <2>4, <2>7, <3>1 DEF SourcesOrdered, IsSource
  <2>10. SourceStands'
    <3>1. Free(requests', Asking("select"))
      BY <2>7, FreeIn DEF Asking
    <3> QED BY <1>i, <2>1, <2>4, <3>1 DEF SourceStands, IsSource
  <2>11. NoneWaits'
    <3>1. \A q \in Range(requests') : q.op = "receive" => q \in Range(requests)
      BY <2>1, <2>6
    <3> QED BY <2>7, <3>1 DEF NoneWaits, Sources
  <2> QED BY <2>8, <2>9, <2>10, <2>11 DEF Sources
<1> QED BY <1>1, <1>2, <1>3, <1>4 DEF Asks

LEMMA TurnSources ==
  ASSUME ConnOK, SeatTypeOK', Sources, ClientTurn
  PROVE  Sources'
<1>0. SeatTypeOK /\ UNCHANGED <<coming, owner, selection_offer, self_wait>>
  BY TurnKeeps, TurnAsks DEF ConnOK
<1>1. PICK more : Asks(more)
  BY TurnAsks
<1>2. ~Drops(more)
  <2>1. ASSUME HandleCancelled PROVE FALSE
    <3>1. Taken("cancelled")
      BY <2>1 DEF HandleCancelled
    <3>2. coming # <<>> /\ coming \in Seq(Told) /\ coming' = Tail(coming)
      BY <1>0, <3>1, TakenTypes DEF SeatTypeOK
    <3>3. Len(Tail(coming)) = Len(coming) - 1 /\ Len(coming) \in Nat
      BY <3>2, TailAt
    <3> QED BY <1>0, <3>2, <3>3
  <2> QED BY <2>1 DEF Drops
<1>3. IsSource(selection_offer') => selection_offer'.n <= copies
  BY <1>0 DEF Sources, SourcesCounted
<1> QED BY <1>0, <1>1, <1>2, <1>3, ClientSources

LEMMA HandleSources ==
  ASSUME ConnOK, SeatTypeOK', Sources, Handle
  PROVE  Sources'
<1>0. SeatTypeOK
  BY DEF ConnOK
<1> DEFINE h == Head(coming)
<1>1. /\ h \in Told /\ Range(coming) = {h} \cup Range(coming')
      /\ UNCHANGED <<owner, self_wait>>
      /\ selection_offer' = IF h.op = "selection" THEN h.arg ELSE selection_offer
      /\ h.op = "cancelled" <=> HandleCancelled
  BY <1>0, HandleTakes
<1>2. PICK more : Asks(more)
  BY HandleAsks
<1>3. h.op = "cancelled" => h.arg \in Nat /\ h.arg # Nil
  BY <1>1, ToldFields, NilApart
<1> HIDE DEF h
<1>4. IsSource(selection_offer') => selection_offer'.n <= copies
  BY <1>1 DEF Sources, SourcesCounted
<1>5. ASSUME NEW m \in Range(coming), m.op = "cancelled", m.arg = data_source, UNCHANGED data_source
      PROVE  m \in Range(coming')
  <2>1. SUFFICES ASSUME m = h PROVE FALSE
    BY <1>1
  <2>2. HandleCancelled /\ h.arg = data_source
    BY <1>1, <1>5, <2>1
  <2>3. data_source' = Nil
    BY <2>2 DEF HandleCancelled, Says, h
  <2> QED BY <1>1, <1>3, <1>5, <2>1, <2>2, <2>3
<1>6. Drops(more) => data_source # Nil /\ \E m \in Range(coming) : m.op = "cancelled" /\ m.arg = data_source
  <2>1. Drops(more) => HandleCancelled /\ h.arg = data_source
    BY DEF Drops, h
  <2> QED BY <1>1, <1>3, <2>1
<1> QED BY <1>0, <1>1, <1>2, <1>4, <1>5, <1>6, ClientSources

\* Carrying out a request other than the one that makes a source the owner.
LEMMA ServeSources ==
  ASSUME SeatTypeOK, SeatTypeOK', Sources, Serve, Head(requests).op # "select"
  PROVE  Sources'
<1> DEFINE r == Head(requests)
<1>1. /\ requests \in Seq(Asked) /\ requests # <<>> /\ r \in Asked /\ requests' = Tail(requests)
      /\ Range(requests) = {r} \cup Range(requests')
      /\ News \in Seq(Told) /\ coming \in Seq(Told) /\ coming' = coming \o News
  BY ServeTells, RangeOfTail DEF SeatTypeOK
<1>2. /\ UNCHANGED <<copies, data_source, selection_offer>>
      /\ owner' = IF r.op = "destroy" /\ owner = Ours(r.arg) THEN Nil ELSE owner
  BY ServeTells DEF Serve, clipVars
<1>3. self_wait' => self_wait
  BY <1>1 DEF Serve, Sources, NoneWaits
<1>4. \A m \in Range(News) : m.op \in {"keymap", "rate", "selection"} /\ (m.op = "selection" => m.arg = Nil)
  BY <1>1, NewsSays
<1>5. Range(coming') = Range(coming) \cup Range(News)
  BY <1>1, RangeConcatenation
<1> HIDE DEF r
<1>6. Ascends(requests', Asking("select"))
  BY <1>1, AscendsTail DEF Sources, SourcesOrdered
<1>7. data_source # Nil /\ owner = Ours(data_source) => owner' = owner
  <2>1. SUFFICES ASSUME data_source \in Nat, owner = Ours(data_source), r.op = "destroy", owner = Ours(r.arg) PROVE FALSE
    BY <1>2 DEF SeatTypeOK
  <2>2. r.arg \in Nat /\ r.arg # data_source
    BY <1>1, <2>1, AskedFields DEF Sources, SourcesCounted
  <2>3. Ours(data_source).n = data_source /\ Ours(r.arg).n = r.arg
    BY <2>1, <2>2, OursIs
  <2> QED BY <2>1, <2>2, <2>3
<1>8. IsSource(selection_offer') => selection_offer'.n <= copies
  BY <1>2 DEF Sources, SourcesCounted
<1>9. IsSource(owner') => owner' = owner
  BY <1>2, OursIs
<1>10. r.op # "select"
  BY DEF r
<1>11. /\ \A q \in Range(requests') : q \in Range(requests)
       /\ \A q \in Range(requests) : q.op = "select" => q \in Range(requests')
  BY <1>1, <1>10
<1>12. /\ \A m \in Range(coming') : m \in Range(coming) \/
             /\ m.op = "cancelled" => owner = Ours(m.arg) /\ ~IsSource(owner')
             /\ m.op = "selection" /\ IsSource(m.arg) => m.arg.n <= copies
       /\ \A m \in Range(coming) : m \in Range(coming')
  BY <1>4, <1>5, OursIs
<1> QED BY <1>2, <1>3, <1>6, <1>7, <1>8, <1>9, <1>11, <1>12, SourcesKept

\* A source becomes the owner: what was asked later has greater numbers.
LEMMA SelectSources ==
  ASSUME SeatTypeOK, SeatTypeOK', Sources, Serve, Head(requests).op = "select"
  PROVE  Sources'
<1> DEFINE s == Head(requests)
<1>1. /\ requests \in Seq(Asked) /\ requests # <<>> /\ s \in Asked /\ requests' = Tail(requests)
      /\ Range(requests) = {s} \cup Range(requests') /\ s.op = "select"
      /\ News \in Seq(Told) /\ coming \in Seq(Told) /\ coming' = coming \o News
      /\ owner' = Ours(s.arg)
  BY ServeTells, RangeOfTail DEF SeatTypeOK
<1>2. UNCHANGED <<copies, data_source, selection_offer, self_wait>>
  BY DEF Serve, clipVars
<1>3. \A m \in Range(News) : m.op \in {"keymap", "rate", "selection"} /\ (m.op = "selection" => m.arg = Nil \/ m.arg = Ours(s.arg))
  BY <1>1, NewsSays
<1>4. Range(coming') = Range(coming) \cup Range(News)
  BY <1>1, RangeConcatenation
<1>5. s \in Asking("select") /\ Asking("select")' = Asking("select")
  BY <1>1 DEF Asking
<1> HIDE DEF s
<1>6. /\ Ascends(requests', Asking("select"))
      /\ \A q \in Range(requests') : q \in Asking("select") => s.arg < q.arg
  <2>1. Ascends(requests, Asking("select")) /\ s = Head(requests)
    BY DEF Sources, SourcesOrdered, s
  <2> QED BY <1>1, <1>5, <2>1, AscendsTail
<1>7. /\ s.arg \in Nat /\ Ours(s.arg).n = s.arg /\ IsSource(Ours(s.arg)) /\ s.arg <= copies /\ copies \in Nat
      /\ s \in Range(requests)
  BY <1>1, AskedFields, OursIs DEF Sources, SourcesCounted, SeatTypeOK
<1>8. \A q \in Range(requests') : q \in Asked /\ q \in Range(requests) /\ (q.op = "select" => s.arg < q.arg)
  BY <1>1, <1>6, RangeTyped DEF Asking
<1>9. \A m \in Range(coming') : m.op = "cancelled" => m \in Range(coming)
  BY <1>3, <1>4
<1>10. SourcesCounted'
  <2>1. ASSUME NEW m \in Range(coming'), m.op = "selection", IsSource(m.arg) PROVE m.arg.n <= copies
    <3>1. CASE m \in Range(coming)
      BY <2>1, <3>1 DEF Sources, SourcesCounted
    <3>2. CASE m \in Range(News)
      BY <1>3, <1>7, <2>1, <3>2, OursIs
    <3> QED BY <1>4, <3>1, <3>2
  <2>2. \A m \in Range(coming') : m.op = "cancelled" => m.arg <= copies
    BY <1>9 DEF Sources, SourcesCounted
  <2>3. \A q \in Range(requests') : /\ q.op \in {"select", "destroy"} => q.arg <= copies
                                    /\ q.op = "receive" /\ q.arg.by = "us" => q.arg.n <= copies
                                    /\ q.op = "destroy" => q.arg # data_source
    BY <1>8 DEF Sources, SourcesCounted
  <2>4. owner'.n <= copies
    BY <1>1, <1>7
  <2>5. /\ data_source # Nil => data_source = copies
        /\ IsSource(selection_offer) => selection_offer.n <= copies
    BY DEF Sources, SourcesCounted
  <2> QED BY <1>2, <2>1, <2>2, <2>3, <2>4, <2>5 DEF SourcesCounted, IsSource
<1>11. SourcesOrdered'
  <2>1. \A q \in Range(requests') : q.op = "select" => owner'.n < q.arg
    BY <1>1, <1>7, <1>8
  <2>2. ASSUME NEW m \in Range(coming'), m.op = "cancelled"
        PROVE  m.arg < owner'.n /\ \A q \in Range(requests') : q.op = "select" => m.arg < q.arg
    <3>1. \A q \in Range(requests) : q.op = "select" => m.arg < q.arg
      BY <1>9, <2>2 DEF Sources, SourcesOrdered
    <3> QED BY <1>1, <1>7, <1>8, <3>1
  <2> QED BY <1>5, <1>6, <2>1, <2>2 DEF SourcesOrdered
<1>12. SourceStands'
  <2>1. data_source # Nil
    <3>1. SUFFICES ASSUME data_source = Nil PROVE FALSE
      OBVIOUS
    <3>2. Free(requests, Asking("select"))
      BY <3>1 DEF Sources, SourceStands
    <3> QED BY <1>5, <1>7, <3>2 DEF Free
  <2>2. data_source \in Nat /\ data_source = copies
    BY <2>1 DEF Sources, SourcesCounted, SeatTypeOK
  <2>3. \/ owner' = Ours(data_source)
        \/ \E q \in Range(requests') : q.op = "select" /\ q.arg = data_source
        \/ \E m \in Range(coming') : m.op = "cancelled" /\ m.arg = data_source
    <3>1. CASE owner = Ours(data_source)
      <4>1. data_source < s.arg
        BY <1>1, <1>7, <2>2, <3>1, OursIs DEF Sources, SourcesOrdered
      <4> QED BY <1>7, <2>2, <4>1
    <3>2. ASSUME NEW q \in Range(requests), q.op = "select", q.arg = data_source
          PROVE  owner' = Ours(data_source) \/ q \in Range(requests')
      BY <1>1, <3>2
    <3> QED BY <1>4, <2>1, <3>1, <3>2 DEF Sources, SourceStands
  <2> QED BY <1>2, <2>1, <2>3 DEF SourceStands, Ours
<1>13. NoneWaits'
  <2>1. ASSUME NEW q \in Range(requests'), q.op = "receive", q.arg.by = "us"
        PROVE  owner' # q.arg /\ \A r \in Range(requests') : r.op = "select" => r.arg # q.arg.n
    <3>1. \A r \in Range(requests) : r.op = "select" => r.arg # q.arg.n
      BY <1>8, <2>1 DEF Sources, NoneWaits
    <3>2. Ours(s.arg) # q.arg
      BY <1>1, <1>7, <3>1
    <3> QED BY <1>1, <1>8, <3>1, <3>2
  <2>2. ~self_wait'
    BY <1>2 DEF Sources, NoneWaits
  <2> QED BY <2>1, <2>2 DEF NoneWaits
<1> QED BY <1>10, <1>11, <1>12, <1>13 DEF Sources

LEMMA OtherSources ==
  ASSUME SeatTypeOK, SeatTypeOK', Sources, OtherCopies
  PROVE  Sources'
<1> DEFINE all == Warned \o OfSelection(owner')
<1>1. /\ UNCHANGED <<copies, data_source, selection_offer, requests, self_wait>>
      /\ owner' \in Holder /\ owner'.by = "other"
  BY OtherTells DEF OtherCopies, Stroke, clipVars, historyVars, Theirs
<1>2. /\ Warned \in Seq(Told) /\ OfSelection(owner') \in Seq(Told) /\ coming \in Seq(Told)
      /\ all \in Seq(Told) /\ coming' = coming \o all
  BY OtherTells DEF SeatTypeOK
<1>3. \A m \in Range(all) : /\ m.op = "cancelled" => owner = Ours(m.arg)
                            /\ m.op = "selection" => m.arg \in {Nil, owner'}
  BY OthersSpeak DEF Speaks
<1>4. Range(all) = Range(Warned) \cup Range(OfSelection(owner'))
  BY <1>2, RangeConcatenation
<1> HIDE DEF all
<1>5. Range(coming') = Range(coming) \cup Range(all)
  BY <1>2, RangeConcatenation
<1>6. ~IsSource(owner')
  BY <1>1 DEF IsSource
<1>7. ASSUME data_source # Nil, owner = Ours(data_source)
      PROVE  \E m \in Range(coming') : m.op = "cancelled" /\ m.arg = data_source
  <2>1. data_source \in Nat /\ owner # Nil /\ owner.by = "us" /\ owner.n = data_source
    BY <1>7, OursIs DEF SeatTypeOK
  <2>2. Range(Warned) = {Sending("cancelled", data_source, Nil)}
    BY <2>1, RangeOfFew DEF Warned
  <2>3. Sending("cancelled", data_source, Nil).op = "cancelled" /\ Sending("cancelled", data_source, Nil).arg = data_source
    BY DEF Sending
  <2> QED BY <1>4, <1>5, <2>2, <2>3
<1>8. IsSource(selection_offer') => selection_offer'.n <= copies
  BY <1>1 DEF Sources, SourcesCounted
<1>9. Ascends(requests', Asking("select"))
  BY <1>1 DEF Sources, SourcesOrdered
<1>10. \A m \in Range(coming') : m \in Range(coming) \/
         /\ m.op = "cancelled" => owner = Ours(m.arg) /\ ~IsSource(owner')
         /\ m.op = "selection" /\ IsSource(m.arg) => m.arg.n <= copies
  BY <1>3, <1>5, <1>6, OursIs
<1> QED BY <1>1, <1>5, <1>6, <1>7, <1>8, <1>9, <1>10, SourcesKept

LEMMA WorldSources ==
  ASSUME SeatTypeOK, SeatTypeOK', Sources, World
  PROVE  Sources'
<1>1. CASE Serve
  BY <1>1, ServeSources, SelectSources
<1>2. CASE OtherCopies
  BY <1>2, OtherSources
<1>3. CASE ~Serve /\ ~OtherCopies
  <2>1. UNCHANGED <<copies, data_source, selection_offer, requests, self_wait, owner>>
    BY <1>3, WorldKeeps
  <2>2. PICK events : Speaks(events)
    BY WorldSpeaks
  <2>3. events \in Seq(Told) /\ coming \in Seq(Told) /\ coming' = coming \o events
    BY <2>2 DEF Speaks, SeatTypeOK
  <2>4. Range(coming') = Range(coming) \cup Range(events)
    BY <2>3, RangeConcatenation
  <2>5. \A m \in Range(events) : m.op # "cancelled" /\ (m.op = "selection" => m.arg \in {Nil, owner})
    BY <1>3, <2>1, <2>2 DEF Speaks
  <2>6. /\ IsSource(selection_offer') => selection_offer'.n <= copies
        /\ IsSource(owner) => owner.n <= copies
        /\ Ascends(requests', Asking("select"))
    BY <2>1 DEF Sources, SourcesCounted, SourcesOrdered
  <2>7. \A m \in Range(coming') : m \in Range(coming) \/
          /\ m.op = "cancelled" => owner = Ours(m.arg) /\ ~IsSource(owner')
          /\ m.op = "selection" /\ IsSource(m.arg) => m.arg.n <= copies
    BY <2>4, <2>5, <2>6, OursIs
  <2> QED BY <2>1, <2>4, <2>6, <2>7, SourcesKept
<1> QED BY <1>1, <1>2, <1>3

LEMMA NextSources == ConnOK /\ Sources /\ [SeatNext]_seatVars => Sources'
<1> SUFFICES ASSUME ConnOK, Sources, [SeatNext]_seatVars PROVE Sources'
  OBVIOUS
<1>0. SeatTypeOK /\ SeatTypeOK'
  BY NextConn DEF ConnOK
<1>1. CASE ClientTurn
  BY <1>0, <1>1, TurnSources
<1>2. CASE Handle
  BY <1>0, <1>2, HandleSources
<1>3. CASE World
  BY <1>0, <1>3, WorldSources
<1>4. CASE UNCHANGED seatVars
  <2>1. UNCHANGED <<requests, coming, owner, copies, data_source, selection_offer, self_wait>>
    BY <1>4 DEF seatVars, connVars, clipVars, worldVars, historyVars
  <2> QED BY <2>1 DEF Sources, SourcesCounted, SourcesOrdered, SourceStands, NoneWaits, IsSource, Ours, Asking
<1> QED BY <1>1, <1>2, <1>3, <1>4 DEF SeatNext, ClientTurn, Gone

-----------------------------------------------------------------------------
(* The whole.                                                              *)

SeatIInv == ConnOK /\ StreamsMeet /\ KeysStand /\ SelectionStands /\ PointerStands /\ CursorStands /\ Sources

LEMMA InitSeat == SeatInit => SeatIInv
<1> SUFFICES ASSUME SeatInit PROVE SeatIInv
  OBVIOUS
<1>1. ConnOK /\ StreamsMeet
  BY InitConn, InitMeets
<1>2. PICK caps \in SUBSET Device : coming = <<Sending("capabilities", caps, Nil)>>
  BY DEF SeatInit, Device
<1> DEFINE m == Sending("capabilities", caps, Nil)
<1>3. /\ coming = <<m>> /\ m \in Told /\ m.op = "capabilities" /\ Range(coming) = {m} /\ coming \in Seq(Told)
  BY <1>2, Events, RangeOfFew, Singly DEF Sending
<1>4. requests = <<>> /\ Range(requests) = {} /\ \A M : Free(requests, M)
  BY RangeOfFew, FreeNone DEF SeatInit
<1>5. /\ held_key = Nil /\ data_source = Nil /\ selection_offer = Nil /\ owner = Nil /\ focused = FALSE /\ pointer_on = Nil
      /\ pointer_inside = FALSE /\ pointer_serial = Nil /\ self_wait = FALSE
  BY DEF SeatInit
<1> HIDE DEF m
<1>6. ASSUME NEW M, NEW V, m \notin M PROVE LastIn(coming, M, V)
  BY <1>3, <1>6, LastInOne
<1>7. KeysStand
  <2>1. ASSUME NEW code \in Code PROVE m \notin OfKey(code)
    BY <1>3 DEF OfKey
  <2> QED BY <1>5, <1>6, <2>1 DEF KeysStand
<1>8. SelectionStands
  BY <1>5 DEF SelectionStands
<1>9. PointerStands
  <2>1. m \notin Saying("pointer")
    BY <1>3 DEF Saying
  <2> QED BY <1>5, <1>6, <2>1 DEF PointerStands
<1>10. CursorStands
  BY <1>3, <1>4, <1>5 DEF CursorStands, SerialsCounted, PointersFollow, ShapeStands
<1>11. Sources
  <2>1. Ascends(requests, Asking("select"))
    BY <1>4 DEF Ascends
  <2> QED BY <1>3, <1>4, <1>5, <2>1 DEF Sources, SourcesCounted, SourcesOrdered, SourceStands, NoneWaits, IsSource
<1> QED BY <1>1, <1>7, <1>8, <1>9, <1>10, <1>11 DEF SeatIInv

LEMMA NextSeat == SeatIInv /\ [SeatNext]_seatVars => SeatIInv'
<1> SUFFICES ASSUME SeatIInv, [SeatNext]_seatVars PROVE SeatIInv'
  OBVIOUS
<1>1. SeatTypeOK /\ ConnOK /\ StreamsMeet /\ KeysStand /\ SelectionStands /\ PointerStands /\ CursorStands /\ Sources
  BY DEF SeatIInv, ConnOK
<1>2. ConnOK' /\ StreamsMeet' /\ KeysStand' /\ SelectionStands' /\ PointerStands' /\ CursorStands' /\ Sources'
  BY <1>1, NextConn, NextMeets, NextKeys, NextSelection, NextPointer, NextCursor, NextSources
<1> QED BY <1>2 DEF SeatIInv

LEMMA SeatSays == SeatIInv => SeatIsSound
<1> SUFFICES ASSUME SeatIInv PROVE SeatIsSound
  OBVIOUS
<1>1. SeatTypeOK /\ StreamsMeet /\ KeysStand /\ SelectionStands /\ PointerStands /\ CursorStands /\ Sources
  BY DEF SeatIInv, ConnOK
<1>2. DescriptorsMeetTheirMessages
  BY <1>1 DEF StreamsMeet, DescriptorsMeetTheirMessages
<1>3. ~self_wait
  BY <1>1 DEF Sources, NoneWaits
<1>4. ASSUME Quiet
      PROVE  /\ held_key # Nil => focused /\ held_key.code \in down
             /\ owner = (IF data_source # Nil THEN Ours(data_source) ELSE IF focused THEN selection_offer ELSE owner)
             /\ focused => selection_offer = owner
             /\ pointer_inside = (pointer_on # Nil)
             /\ pointer_inside => shape = cursor_shape
  <2>1. /\ Range(coming) = {} /\ Range(requests) = {}
        /\ \A M : Free(coming, M) /\ Free(requests, M)
    BY <1>4, RangeOfFew, FreeNone DEF Quiet
  <2>2. held_key # Nil => focused /\ held_key.code \in down
    <3>1. SUFFICES ASSUME held_key # Nil PROVE IsDown(held_key.code)
      BY DEF IsDown
    <3>2. held_key.code \in Code
      BY <1>1, <3>1 DEF SeatTypeOK
    <3> QED BY <1>1, <2>1, <3>1, <3>2 DEF KeysStand
  <2>3. focused => selection_offer = owner
    BY <1>1, <2>1 DEF SelectionStands
  <2>4. data_source # Nil => owner = Ours(data_source)
    BY <1>1, <2>1 DEF Sources, SourceStands
  <2>5. pointer_inside = (pointer_on # Nil) /\ (pointer_on # Nil => pointer_serial = pointer_on)
    BY <1>1, <2>1 DEF PointerStands
  <2>6. pointer_inside => shape = cursor_shape
    BY <1>1, <2>1, <2>5 DEF CursorStands, ShapeStands
  <2> QED BY <2>2, <2>3, <2>4, <2>5, <2>6
<1> QED BY <1>2, <1>3, <1>4 DEF SeatIsSound, SeatAgrees

\* The connection hands every message its own descriptor, and once all is told
\* the client is right about its keys, its cursor and the clipboard, and never
\* waits for itself (src/platform/conn.rs, src/native/clipboard.rs).
THEOREM SeatIsSoundHolds == SeatSpec => []SeatIsSound
<1>1. SeatInit => SeatIInv
  BY InitSeat
<1>2. SeatIInv /\ [SeatNext]_seatVars => SeatIInv'
  BY NextSeat
<1>3. SeatIInv => SeatIsSound
  BY SeatSays
<1> QED BY <1>1, <1>2, <1>3, PTL DEF SeatSpec
=============================================================================
