----------------------------- MODULE FramesProofs -----------------------------
(***************************************************************************)
(* The loops of the two shells (MCFrames), for any sizes, scales, objects, *)
(* names, texts and numbers of ticks.                                      *)
(***************************************************************************)
EXTENDS MCFrames, FiniteSetTheorems, TLAPS

-----------------------------------------------------------------------------
(* GTK's frames (GtkFrames).                                               *)

\* What the texture lacks is marked, and a bar that is up is stepped.
MarksTell ==
  /\ painted.body \/ marked.full
  /\ painted.bars \/ marked.meters \/ marked.full
  /\ raised => stepping

GtkIInv == GtkFramesTypeOK /\ MarksTell /\ GtkSteadies

\* A repaint marks what it takes from the texture.
LEMMA RepaintMarks ==
  ASSUME GtkFramesTypeOK, MarksTell, NEW body \in BOOLEAN, NEW bars \in BOOLEAN, Repaint(body, bars)
  PROVE  /\ painted' \in [size : Allocation \cup {0}, body : BOOLEAN, bars : BOOLEAN]
         /\ marked' \in [full : BOOLEAN, meters : BOOLEAN]
         /\ (painted.body \/ marked.full)' /\ (painted.bars \/ marked.meters \/ marked.full)'
         /\ painted'.size = painted.size
         /\ ~body => painted'.body = painted.body
         /\ ~bars => painted'.bars = painted.bars
<1>1. marked' = [full |-> marked.full \/ body, meters |-> marked.meters \/ bars]
  BY DEF Repaint
<1>2. painted' = [size |-> painted.size, body |-> painted.body /\ ~body, bars |-> painted.bars /\ ~bars]
  BY DEF Repaint, GtkFramesTypeOK
<1>3. marked' \in [full : BOOLEAN, meters : BOOLEAN]
  BY <1>1
<1>4. painted' \in [size : Allocation \cup {0}, body : BOOLEAN, bars : BOOLEAN]
  BY <1>2 DEF GtkFramesTypeOK
<1>5. (painted.body \/ marked.full)' /\ (painted.bars \/ marked.meters \/ marked.full)'
  BY <1>1, <1>2 DEF GtkFramesTypeOK, MarksTell
<1>6. painted'.size = painted.size
  BY <1>2
<1>7. painted.body \in BOOLEAN /\ painted.bars \in BOOLEAN
  BY DEF GtkFramesTypeOK
<1>8. ~body => painted'.body = painted.body
  BY <1>2, <1>7
<1>9. ~bars => painted'.bars = painted.bars
  BY <1>2, <1>7
<1> QED BY <1>3, <1>4, <1>5, <1>6, <1>8, <1>9

\* A turn of the bars leaves none up that is not due to fall.
LEMMA BarsKept ==
  ASSUME GtkFramesTypeOK, NEW folded \in BOOLEAN, NEW up \in BOOLEAN, StepBars(folded, up)
  PROVE  raised' \in BOOLEAN /\ stepping' \in BOOLEAN /\ audible' \in BOOLEAN /\ (raised' => stepping')
<1>1. raised' = up /\ stepping' = (raised \/ folded) /\ audible' = FALSE /\ (up = raised \/ up = folded)
  BY DEF StepBars
<1>2. raised \in BOOLEAN
  BY DEF GtkFramesTypeOK
<1> QED BY <1>1, <1>2

\* A paint leaves what it did not paint marked, and shows all of now once
\* there is a size and nothing was.
LEMMA PaintMarks ==
  ASSUME GtkFramesTypeOK, MarksTell, NEW full \in BOOLEAN, NEW bars \in BOOLEAN,
         marked.full => full, marked.meters => bars, Paint(full, bars)
  PROVE  /\ painted' \in [size : Allocation \cup {0}, body : BOOLEAN, bars : BOOLEAN]
         /\ marked' \in [full : BOOLEAN, meters : BOOLEAN]
         /\ (painted.body \/ marked.full)' /\ (painted.bars \/ marked.meters \/ marked.full)'
         /\ allocation # 0 => painted'.size = allocation /\ painted'.body /\ painted'.bars
<1> DEFINE now == allocation # 0 /\ (full \/ bars \/ painted.size # allocation)
<1>1. CASE now
  <2>1. painted' = [size |-> allocation, body |-> TRUE, bars |-> TRUE] /\ marked' = [full |-> FALSE, meters |-> FALSE]
    BY <1>1 DEF Paint
  <2> QED BY <2>1 DEF GtkFramesTypeOK
<1>2. CASE ~now
  <2>1. marked' = [full |-> full, meters |-> bars]
    BY <1>2 DEF Paint
  <2>2. painted' = [size |-> painted.size, body |-> painted.body /\ ~full, bars |-> painted.bars /\ ~bars]
    BY <1>2 DEF Paint, GtkFramesTypeOK
  <2>3. marked' \in [full : BOOLEAN, meters : BOOLEAN]
    BY <2>1
  <2>4. painted' \in [size : Allocation \cup {0}, body : BOOLEAN, bars : BOOLEAN]
    BY <2>2 DEF GtkFramesTypeOK
  <2>5. (painted.body \/ marked.full)' /\ (painted.bars \/ marked.meters \/ marked.full)'
    BY <2>1, <2>2 DEF GtkFramesTypeOK, MarksTell
  <2>6. allocation # 0 => painted'.size = allocation /\ painted'.body /\ painted'.bars
    BY <1>2, <2>2 DEF MarksTell
  <2> QED BY <2>3, <2>4, <2>5, <2>6
<1> QED BY <1>1, <1>2

LEMMA GtkFramesInitIInv == GtkFramesInit => GtkIInv
<1> SUFFICES ASSUME GtkFramesInit PROVE GtkIInv
  OBVIOUS
<1>1. painted = [size |-> 0, body |-> FALSE, bars |-> FALSE] /\ marked = [full |-> TRUE, meters |-> FALSE]
  BY DEF GtkFramesInit
<1>2. painted \in [size : Allocation \cup {0}, body : BOOLEAN, bars : BOOLEAN] /\ marked \in [full : BOOLEAN, meters : BOOLEAN]
  BY <1>1
<1>3. painted.bars \/ marked.meters \/ marked.full
  BY <1>1
<1>7. togglesLeft \in 0 .. BlinkToggles
  BY BlinkTogglesAssumption DEF GtkFramesInit
<1>4. GtkFramesTypeOK
  BY <1>2, <1>7 DEF GtkFramesInit, GtkFramesTypeOK
<1>5. MarksTell
  BY <1>1, <1>3 DEF GtkFramesInit, MarksTell
<1>6. GtkSteadies
  BY DEF GtkFramesInit, GtkSteadies, StillMeansDone, TimersServe
<1> QED BY <1>4, <1>5, <1>6 DEF GtkIInv

LEMMA GtkTickKeeps ==
  ASSUME GtkIInv, NEW due \in BOOLEAN, NEW folded \in BOOLEAN, NEW up \in BOOLEAN, NEW on \in SUBSET easing,
         Tick(due, folded, up, on)
  PROVE  GtkIInv'
<1> USE DEF GtkIInv
<1>1. raised' \in BOOLEAN /\ stepping' \in BOOLEAN /\ audible' \in BOOLEAN /\ (raised' => stepping')
  <2>1. CASE due /\ stepping
    BY <2>1, BarsKept DEF Tick
  <2>2. CASE ~(due /\ stepping)
    BY <2>2 DEF Tick, GtkFramesTypeOK, MarksTell
  <2> QED BY <2>1, <2>2
<1> DEFINE full == marked.full \/ easing # {}
           bars == marked.meters \/ (due /\ stepping /\ stepping')
<1>2. full \in BOOLEAN /\ bars \in BOOLEAN /\ (marked.full => full) /\ (marked.meters => bars)
  BY <1>1 DEF GtkFramesTypeOK
<1>3. Paint(full, bars)
  BY DEF Tick
<1>4. /\ painted' \in [size : Allocation \cup {0}, body : BOOLEAN, bars : BOOLEAN]
      /\ marked' \in [full : BOOLEAN, meters : BOOLEAN]
      /\ (painted.body \/ marked.full)' /\ (painted.bars \/ marked.meters \/ marked.full)'
      /\ allocation # 0 => painted'.size = allocation /\ painted'.body /\ painted'.bars
  <2> HIDE DEF full, bars
  <2> QED BY <1>2, <1>3, PaintMarks
<1>5. /\ easing' \subseteq easing
      /\ ticking' = (easing # {} \/ stepping') /\ watching' = (watching \/ ~stepping')
      /\ UNCHANGED <<sight, allocation, gtkTimerVars>>
  BY DEF Tick
<1>6. GtkFramesTypeOK'
  BY <1>1, <1>4, <1>5 DEF GtkFramesTypeOK, gtkTimerVars
<1>7. MarksTell'
  BY <1>1, <1>4 DEF MarksTell
<1>8. GtkSteadies'
  BY <1>1, <1>4, <1>5 DEF GtkFramesTypeOK, GtkSteadies, StillMeansDone, TimersServe, Current, gtkTimerVars
<1> QED BY <1>6, <1>7, <1>8

LEMMA GtkFramesNextIInv == GtkIInv /\ [GtkFramesNext]_gtkFramesVars => GtkIInv'
<1> SUFFICES ASSUME GtkIInv, [GtkFramesNext]_gtkFramesVars PROVE GtkIInv'
  OBVIOUS
<1> USE DEF GtkIInv
<1>1. ASSUME NEW edits \in BOOLEAN, NEW hovers \in BOOLEAN, GtkChange(edits, hovers) PROVE GtkIInv'
  <2>1. Repaint(TRUE, FALSE) /\ ticking'
    BY <1>1 DEF GtkChange, Redraw, RequestFrame
  <2> QED
    BY <1>1, <2>1, RepaintMarks
       DEF GtkChange, Redraw, RequestFrame, Arm, CaretBlinking, GtkFramesTypeOK, MarksTell, GtkSteadies, StillMeansDone, TimersServe
<1>2. ASSUME NEW overlay \in BOOLEAN, GtkKey(overlay) PROVE GtkIInv'
  <2>1. Repaint(TRUE, FALSE) /\ ticking' = TRUE /\ Arm
    BY <1>2 DEF GtkKey, Redraw, RequestFrame
  <2>2. /\ painted' \in [size : Allocation \cup {0}, body : BOOLEAN, bars : BOOLEAN]
        /\ marked' \in [full : BOOLEAN, meters : BOOLEAN]
        /\ (painted.body \/ marked.full)' /\ (painted.bars \/ marked.meters \/ marked.full)'
    BY <2>1, RepaintMarks
  <2>3. /\ UNCHANGED <<sight, allocation, watching, audible, stepping, raised, easing, behind>>
        /\ typing' = overlay /\ caret' = (overlay \/ caret)
        /\ togglesLeft' = IF overlay THEN BlinkToggles ELSE togglesLeft
    BY <1>2 DEF GtkKey, motionVars
  <2>4. saving' = (saving \/ behind') /\ blinking' = (blinking \/ (typing' /\ togglesLeft' > 0))
    BY <2>1 DEF Arm, CaretBlinking
  <2>5. togglesLeft' \in 0 .. BlinkToggles
    BY <2>3, BlinkTogglesAssumption DEF GtkFramesTypeOK
  <2>6. saving' \in BOOLEAN /\ blinking' \in BOOLEAN /\ caret' \in BOOLEAN /\ typing' \in BOOLEAN
    BY <2>3, <2>4 DEF GtkFramesTypeOK
  <2>7. TimersServe'
    BY <2>3, <2>4 DEF GtkFramesTypeOK, GtkSteadies, TimersServe
  <2> QED
    BY <2>1, <2>2, <2>3, <2>5, <2>6, <2>7 DEF GtkFramesTypeOK, MarksTell, GtkSteadies, StillMeansDone
<1>3. CASE FitKey
  BY <1>3 DEF FitKey, GtkFramesTypeOK, MarksTell, GtkSteadies, StillMeansDone, TimersServe, Current, clockVars, gtkTimerVars
<1>4. ASSUME NEW size \in Allocation, LayoutChanged(size) PROVE GtkIInv'
  BY <1>4 DEF LayoutChanged, RequestFrame, GtkFramesTypeOK, MarksTell, GtkSteadies, StillMeansDone, TimersServe, motionVars, gtkTimerVars
<1>5. CASE FocusLost
  <2> DEFINE hides == ~caret
  <2>1. Repaint(hides, FALSE) /\ ticking' = TRUE /\ Arm /\ hides \in BOOLEAN
    BY <1>5 DEF FocusLost, Redraw, RequestFrame
  <2>2. /\ painted' \in [size : Allocation \cup {0}, body : BOOLEAN, bars : BOOLEAN]
        /\ marked' \in [full : BOOLEAN, meters : BOOLEAN]
        /\ (painted.body \/ marked.full)' /\ (painted.bars \/ marked.meters \/ marked.full)'
    <3> HIDE DEF hides
    <3> QED BY <2>1, RepaintMarks
  <2>3. /\ UNCHANGED <<sight, allocation, watching, audible, stepping, raised, easing, typing, behind>>
        /\ caret' = TRUE /\ togglesLeft' = 0
    BY <1>5 DEF FocusLost, motionVars
  <2>4. saving' = (saving \/ behind') /\ blinking' = (blinking \/ (typing' /\ togglesLeft' > 0))
    BY <2>1 DEF Arm, CaretBlinking
  <2>5. togglesLeft' \in 0 .. BlinkToggles
    BY <2>3, BlinkTogglesAssumption
  <2>6. saving' \in BOOLEAN /\ blinking' \in BOOLEAN /\ caret' \in BOOLEAN
    BY <2>3, <2>4 DEF GtkFramesTypeOK
  <2>7. TimersServe'
    BY <2>3, <2>4 DEF GtkFramesTypeOK, GtkSteadies, TimersServe
  <2> QED
    BY <2>1, <2>2, <2>3, <2>5, <2>6, <2>7 DEF GtkFramesTypeOK, MarksTell, GtkSteadies, StillMeansDone
<1>6. ASSUME NEW failed \in BOOLEAN, AutosaveFires(failed) PROVE GtkIInv'
  <2>1. Repaint(failed, FALSE) /\ ticking'
    BY <1>6 DEF AutosaveFires, RequestFrame
  <2> QED
    BY <1>6, <2>1, RepaintMarks
       DEF AutosaveFires, RequestFrame, GtkFramesTypeOK, MarksTell, GtkSteadies, StillMeansDone, TimersServe, motionVars
<1>7. CASE BlinkFires
  <2>1. togglesLeft' \in 0 .. BlinkToggles
    BY <1>7, BlinkTogglesAssumption DEF BlinkFires, GtkFramesTypeOK
  <2>0. caret' \in BOOLEAN /\ blinking' \in BOOLEAN /\ (~caret' => blinking')
    <3>1. CASE typing /\ togglesLeft > 0
      <4>1. caret' = (togglesLeft' = 0 \/ ~caret) /\ blinking' = (typing /\ togglesLeft' > 0)
        BY <1>7, <3>1 DEF BlinkFires
      <4>2. togglesLeft' = 0 \/ togglesLeft' > 0
        BY <2>1
      <4> QED BY <3>1, <4>1, <4>2
    <3>2. CASE ~(typing /\ togglesLeft > 0)
      BY <1>7, <3>2 DEF BlinkFires, GtkFramesTypeOK
    <3> QED BY <3>1, <3>2
  <2> DEFINE blinks == caret' # caret
  <2>2. Repaint(blinks, FALSE) /\ blinks \in BOOLEAN /\ ticking' = (ticking \/ blinks)
    BY <1>7 DEF BlinkFires
  <2>3. /\ painted' \in [size : Allocation \cup {0}, body : BOOLEAN, bars : BOOLEAN]
        /\ marked' \in [full : BOOLEAN, meters : BOOLEAN]
        /\ (painted.body \/ marked.full)' /\ (painted.bars \/ marked.meters \/ marked.full)'
        /\ painted'.size = painted.size /\ painted'.bars = painted.bars
        /\ ~blinks => painted'.body = painted.body
    <3> HIDE DEF blinks
    <3> QED BY <2>2, RepaintMarks
  <2>4. /\ UNCHANGED <<sight, allocation, watching, audible, stepping, raised, easing, saving, behind, typing>>
        /\ ticking' \in BOOLEAN
    BY <1>7, <2>2 DEF BlinkFires, motionVars, GtkFramesTypeOK
  <2>5. GtkFramesTypeOK' /\ MarksTell'
    BY <2>0, <2>1, <2>3, <2>4 DEF GtkFramesTypeOK, MarksTell
  <2>6. GtkSteadies'
    <3> HIDE DEF blinks
    <3> QED BY <2>0, <2>2, <2>3, <2>4 DEF GtkFramesTypeOK, GtkSteadies, StillMeansDone, TimersServe, Current
  <2> QED BY <2>5, <2>6
<1>8. CASE DueTick
  BY <1>8, GtkTickKeeps DEF DueTick
<1>9. CASE EarlyTick
  BY <1>9, GtkTickKeeps DEF EarlyTick, GtkFramesTypeOK
<1>10. ASSUME NEW folded \in BOOLEAN, NEW up \in BOOLEAN, PeaksReadable(folded, up) PROVE GtkIInv'
  <2>1. StepBars(folded, up) /\ Repaint(FALSE, stepping') /\ ticking' /\ ~watching'
    BY <1>10 DEF PeaksReadable, RequestFrame
  <2>2. raised' \in BOOLEAN /\ stepping' \in BOOLEAN /\ audible' \in BOOLEAN /\ (raised' => stepping')
    BY <2>1, BarsKept
  <2>3. /\ painted' \in [size : Allocation \cup {0}, body : BOOLEAN, bars : BOOLEAN]
        /\ marked' \in [full : BOOLEAN, meters : BOOLEAN]
        /\ (painted.body \/ marked.full)' /\ (painted.bars \/ marked.meters \/ marked.full)'
    BY <2>1, <2>2, RepaintMarks
  <2> QED
    BY <1>10, <2>1, <2>2, <2>3
       DEF PeaksReadable, RequestFrame, GtkFramesTypeOK, MarksTell, GtkSteadies, StillMeansDone, TimersServe, gtkTimerVars
<1>11. CASE Sounds
  BY <1>11 DEF Sounds, GtkFramesTypeOK, MarksTell, GtkSteadies, StillMeansDone, TimersServe, Current, clockVars, gtkTimerVars
<1>12. CASE SightChanges
  BY <1>12 DEF SightChanges, GtkFramesTypeOK, MarksTell, GtkSteadies, StillMeansDone, TimersServe, Current, clockVars, motionVars,
               gtkTimerVars
<1>13. CASE UNCHANGED gtkFramesVars
  BY <1>13 DEF gtkFramesVars, GtkFramesTypeOK, MarksTell, GtkSteadies, StillMeansDone, TimersServe, Current, clockVars, motionVars,
               gtkTimerVars
<1> QED
  BY <1>1, <1>2, <1>3, <1>4, <1>5, <1>6, <1>7, <1>8, <1>9, <1>10, <1>11, <1>12, <1>13
     DEF GtkFramesNext, AutosaveStep, PeaksStep

\* A GTK window that asks for no frames shows all there is and can be woken,
\* and each timer runs as long as it has work, for any sizes and blinks.
THEOREM GtkSteadiesHolds == GtkFramesSpec => []GtkSteadies
<1>1. GtkIInv => GtkSteadies
  BY DEF GtkIInv
<1> QED BY <1>1, GtkFramesInitIInv, GtkFramesNextIInv, PTL DEF GtkFramesSpec

-----------------------------------------------------------------------------
(* GTK's copies of what the reducer holds (GtkMenu, GtkText).               *)

LEMMA SyncFollows ==
  ASSUME MenuIsOfNow, Sync
  PROVE  MenuIsOfNow'
BY DEF Sync, MenuIsOfNow

LEMMA MenuInit == GtkMenuInit => MenuIsOfNow
BY DEF GtkMenuInit, MenuIsOfNow

LEMMA MenuNext == MenuIsOfNow /\ [GtkMenuNext]_gtkMenuVars => MenuIsOfNow'
<1> SUFFICES ASSUME MenuIsOfNow, [GtkMenuNext]_gtkMenuVars
             PROVE  MenuIsOfNow'
  OBVIOUS
<1>1. CASE Sync
  BY <1>1, SyncFollows
<1>2. CASE UNCHANGED <<profiles, active, rows, names, checked>>
  BY <1>2 DEF MenuIsOfNow
<1>3. Sync \/ UNCHANGED <<profiles, active, rows, names, checked>>
  BY DEF GtkMenuNext, gtkMenuVars, ActivateRow, DragRow, DropOn, DragEnds, ReadPosted, CreateProfile,
         RenameProfile, DeleteProfile
<1> QED BY <1>1, <1>2, <1>3

\* What the bus holds ends with the editor's text while no key came between.
CopyIInv ==
  /\ told \in Seq(Nat) /\ text \in Nat /\ newest \in Nat
  /\ ~overtaken /\ copy # Closed => IF told = <<>> THEN copy = text ELSE told[Len(told)] = text

LEMMA CopyInit == GtkTextInit => CopyIInv
BY DEF GtkTextInit, CopyIInv

LEMMA CopyNext == CopyIInv /\ [GtkTextNext]_gtkTextVars => CopyIInv'
<1> SUFFICES ASSUME CopyIInv, [GtkTextNext]_gtkTextVars
             PROVE  CopyIInv'
  OBVIOUS
<1> USE DEF CopyIInv
<1>1. CASE OpenField
  <2>1. overtaken' = (told # <<>>) /\ text' = 0 /\ copy' = 0 /\ UNCHANGED <<newest, told>>
    BY <1>1 DEF OpenField
  <2>2. ~overtaken' => told = <<>>
    BY <2>1
  <2> QED BY <2>1, <2>2
<1>2. CASE CloseField
  BY <1>2 DEF CloseField
<1>3. CASE TypeKey
  <2>1. overtaken' = (told # <<>>) /\ text' = newest + 1 /\ newest' = newest + 1 /\ copy' = text' /\ told' = told
    BY <1>3 DEF TypeKey, Edited
  <2>2. ~overtaken' => told = <<>>
    BY <2>1
  <2> QED BY <2>1, <2>2
<1>4. ASSUME TellText, Edited, UNCHANGED <<copy, overtaken>>
      PROVE  CopyIInv'
  <2>1. text' \in Nat /\ newest' \in Nat
    BY <1>4 DEF Edited
  <2>2. CASE copy = Closed
    BY <1>4, <2>1, <2>2 DEF TellText
  <2>3. CASE copy # Closed
    <3>1. told' = Append(told, text')
      BY <1>4, <2>3 DEF TellText
    <3>2. told' \in Seq(Nat) /\ told' # <<>> /\ told'[Len(told')] = text'
      BY <2>1, <3>1
    <3> QED BY <1>4, <2>1, <3>2
  <2> QED BY <2>2, <2>3
<1>5. CASE CutKey \/ PasteLands
  BY <1>4, <1>5 DEF CutKey, PasteLands
<1>6. CASE PasteKey \/ PasteFails
  BY <1>6 DEF PasteKey, PasteFails
<1>7. CASE ReadTold
  <2>1. told[Len(told)] \in Nat
    BY <1>7 DEF ReadTold
  <2> QED BY <1>7, <2>1 DEF ReadTold
<1>8. CASE UNCHANGED gtkTextVars
  BY <1>8 DEF gtkTextVars
<1> QED BY <1>1, <1>2, <1>3, <1>5, <1>6, <1>7, <1>8 DEF GtkTextNext

\* A GTK window that asks for no frames shows all there is and can be woken; the
\* selector's list is the reducer's whenever GTK can call back, and a field's
\* copy is the editor's once the bus is read unless a key overtook a text on it:
\* for any sizes, blinks, names and texts, and however much the bus may hold.
THEOREM GtkIsSoundHolds == SceneSpec => []GtkIsSound
<1>1. SceneInit => GtkIInv /\ MenuIsOfNow /\ CopyIInv
  BY GtkFramesInitIInv, MenuInit, CopyInit DEF SceneInit
<1>2. ASSUME GtkIInv, MenuIsOfNow, CopyIInv, [SceneNext]_<<vars, gtkVars, scene>>
      PROVE  GtkIInv' /\ MenuIsOfNow' /\ CopyIInv'
  <2>1. [GtkFramesNext]_gtkFramesVars /\ [GtkMenuNext]_gtkMenuVars /\ [GtkTextNext]_gtkTextVars
    BY <1>2 DEF SceneNext, NativeStep, GtkStep, gtkVars
  <2> QED BY <1>2, <2>1, GtkFramesNextIInv, MenuNext, CopyNext
<1>3. GtkIInv /\ MenuIsOfNow /\ CopyIInv => GtkIsSound
  BY DEF GtkIsSound, GtkIInv, GtkMirrors, CopyIInv, CopyFollows, CopyIsTheText
<1> QED BY <1>1, <1>2, <1>3, PTL DEF SceneSpec

-----------------------------------------------------------------------------
(* The native loop (Frames). Events on their way are told by their places  *)
(* on the wire.                                                            *)

At(i, on) == i \in 1..Len(wire) /\ wire[i].on = on

NoneOf(on) == \A i \in 1..Len(wire) : ~At(i, on)

Events == [on : {"toplevel", "configure", "scale", "edit", "hover", "done", "release", "delete"},
           arg : Nat]

Buffer == [obj : Nat, busy : BOOLEAN, owed : 0..2, body : BOOLEAN, bars : BOOLEAN]

Frame == [buffer : Nat, callback : Nat, destroyed : Seq(Nat), size : Nat, window : Nat,
          destination : Nat, whole : BOOLEAN]

Live == {slots[1].obj, slots[2].obj} \ {0}

\* What the commit on its way destroys.
Going == IF request = None THEN {} ELSE {request.destroyed[i] : i \in 1..Len(request.destroyed)}

FramesTypeOK ==
  /\ wire \in Seq(Events)
  /\ asked \in Nat /\ width \in Nat /\ scale \in Nat /\ preferred \in Nat
  /\ callback \in Nat /\ dying \subseteq Nat \ {0}
  /\ slots \in [Slot -> Buffer]
  /\ dirty \in [full : BOOLEAN, meters : BOOLEAN]
  /\ pending \in BOOLEAN
  /\ request \in Frame \cup {None} /\ screen \in Frame \cup {None}

\* The client's objects and those it has destroyed have ids of their own.
IdsApart ==
  /\ slots[1].obj = slots[2].obj => slots[1].obj = 0
  /\ slots[1].obj = 0 <=> slots[2].obj = 0
  /\ callback \notin Live
  /\ dying \cap (Live \cup {callback}) = {}

\* One commit, one callback and one answer at a time.
OneFrame ==
  /\ request # None => /\ request.callback = callback /\ callback # 0
                       /\ request.buffer \in Live
                       /\ Going \subseteq dying
                       /\ \A i, j \in 1..Len(request.destroyed) : request.destroyed[i] = request.destroyed[j] => i = j
                       /\ answering = {}
  /\ answering # {} => answering = {callback} /\ callback # 0
  /\ \A i \in 1..Len(wire) : At(i, "done") =>
       /\ wire[i].arg = callback /\ callback # 0
       /\ request = None /\ answering = {}
       /\ \A j \in 1..Len(wire) : At(j, "done") => j = i

\* The compositor holds buffers of the client's, which are busy, and not yet the
\* one on its way.
HeldAreKnown ==
  /\ held \subseteq Live \cup Going
  /\ request # None => request.buffer \notin held
  /\ HeldIsBusy

\* A release is of a buffer that is still busy or destroyed, comes before the end
\* of its id, and comes once.
ReleasesFit ==
  \A i \in 1..Len(wire) : At(i, "release") =>
    /\ wire[i].arg \notin held
    /\ request # None => request.buffer # wire[i].arg
    /\ \A s \in Slot : slots[s].obj = wire[i].arg => slots[s].busy
    /\ wire[i].arg \in Live \cup dying
    /\ \A j \in 1..Len(wire) : At(j, "delete") /\ wire[j].arg = wire[i].arg => i < j
    /\ \A j \in 1..Len(wire) : At(j, "release") /\ wire[j].arg = wire[i].arg => j = i

\* An id comes to its end once, after the client has destroyed the object, or
\* right after the answer that ends a callback.
DeletesFit ==
  \A i \in 1..Len(wire) : At(i, "delete") =>
    /\ wire[i].arg \notin Live /\ wire[i].arg \notin Going
    /\ \/ wire[i].arg \in dying
       \/ wire[i].arg = callback /\ callback # 0 /\ \E j \in 1..Len(wire) : At(j, "done") /\ j < i
    /\ \A j \in 1..Len(wire) : At(j, "delete") /\ wire[j].arg = wire[i].arg => j = i

\* Every destroyed object comes to its end, all of them before the next answer
\* but the callback it ends: at most one is left by the next frame.
DyingEnd ==
  /\ \A o \in dying : o \in Going \/ \E i \in 1..Len(wire) : At(i, "delete") /\ wire[i].arg = o
  /\ \A i, j \in 1..Len(wire) : At(i, "done") /\ At(j, "delete") /\ i < j => wire[j].arg = callback
  /\ \A i \in 1..Len(wire) : At(i, "done") => \E j \in 1..Len(wire) : At(j, "delete") /\ i < j
  /\ callback = 0 => \A o, p \in dying : o = p

IdsIInv == IdsApart /\ OneFrame /\ HeldAreKnown /\ ReleasesFit /\ DeletesFit /\ DyingEnd

\* A buffer without the body of now owes it all, or the next frame does.
BodyIsOwed == \A s \in Slot : slots[s].body \/ slots[s].owed = All \/ dirty.full

FramesWhole == (request # None => request.whole) /\ (screen # None => screen.whole)

\* The frame the client has committed last.
Committed == IF request = None THEN screen ELSE request

\* What the wire says last of a size and a scale is what the compositor asks for.
LastOnWire(on, is) ==
  \A i \in 1..Len(wire) :
    At(i, on) /\ (\A j \in 1..Len(wire) : At(j, on) => j <= i) => wire[i].arg = is

SizesTell ==
  /\ LastOnWire("toplevel", asked)
  /\ NoneOf("toplevel") => asked = 0 \/ width = asked
  /\ \A i \in 1..Len(wire) : At(i, "toplevel") => \E j \in 1..Len(wire) : At(j, "configure") /\ i < j
  /\ asked = 0 => ~configured /\ NoneOf("configure")
  /\ LastOnWire("scale", preferred)
  /\ NoneOf("scale") => scale = preferred

\* A configure that is not acked is painted in full, and the frame committed last
\* tells the window's size when none is left.
FrameTells ==
  /\ pending => dirty.full
  /\ configured /\ ~pending /\ NoneOf("configure") => Committed # None /\ Committed.window = width
  /\ configured /\ ~dirty.full => Committed # None /\ Committed.size = width * scale

BarsAreDue == lit => meters # "off"

-----------------------------------------------------------------------------

LEMMA OneMore ==
  ASSUME NEW S, NEW x, IsFiniteSet(S)
  PROVE  /\ IsFiniteSet(S \cup {x})
         /\ Cardinality(S) \in Nat /\ Cardinality(S \cup {x}) \in Nat
         /\ Cardinality(S \cup {x}) <= Cardinality(S) + 1
<1>1. Cardinality(S) \in Nat
  BY FS_CardinalityType
<1>2. /\ IsFiniteSet(S \cup {x})
      /\ Cardinality(S \cup {x}) = IF x \in S THEN Cardinality(S) ELSE Cardinality(S) + 1
  BY FS_AddElement
<1> QED BY <1>1, <1>2

LEMMA FiveLeaveOne ==
  ASSUME NEW a, NEW b, NEW c, NEW d, NEW e
  PROVE  \E o \in Object : o \notin {a, b, c, d, e}
<1> SUFFICES ASSUME Object \subseteq {a, b, c, d, e}
             PROVE  FALSE
  OBVIOUS
<1>1. PICK S1 : S1 = {a}
  OBVIOUS
<1>2. IsFiniteSet(S1) /\ Cardinality(S1) = 1
  BY <1>1, FS_Singleton
<1>3. PICK S2 : /\ S2 = S1 \cup {b} /\ IsFiniteSet(S2) /\ Cardinality(S2) \in Nat
                 /\ Cardinality(S2) <= Cardinality(S1) + 1
  BY <1>2, OneMore
<1>4. PICK S3 : /\ S3 = S2 \cup {c} /\ IsFiniteSet(S3) /\ Cardinality(S3) \in Nat
                 /\ Cardinality(S3) <= Cardinality(S2) + 1
  BY <1>3, OneMore
<1>5. PICK S4 : /\ S4 = S3 \cup {d} /\ IsFiniteSet(S4) /\ Cardinality(S4) \in Nat
                 /\ Cardinality(S4) <= Cardinality(S3) + 1
  BY <1>4, OneMore
<1>6. PICK S5 : /\ S5 = S4 \cup {e} /\ IsFiniteSet(S5) /\ Cardinality(S5) \in Nat
                 /\ Cardinality(S5) <= Cardinality(S4) + 1
  BY <1>5, OneMore
<1>7. Object \subseteq S5
  BY <1>1, <1>3, <1>4, <1>5, <1>6
<1>8. IsFiniteSet(Object) /\ Cardinality(Object) <= Cardinality(S5)
  BY <1>6, <1>7, FS_Subset
<1>9. Cardinality(Object) \in Nat
  BY <1>8, FS_CardinalityType
<1> QED BY <1>2, <1>3, <1>4, <1>5, <1>6, <1>8, <1>9, ObjectAssumption

\* new_id finds an id while no more than five are taken.
LEMMA NewIdIsNew ==
  ASSUME NEW a, NEW b, NEW c, NEW d, NEW e, NEW taken, taken \subseteq {a, b, c, d, e, 0}
  PROVE  NewId(taken) \in Object /\ NewId(taken) \notin taken /\ NewId(taken) \in Nat \ {0}
<1>1. PICK o \in Object : o \notin {a, b, c, d, e}
  BY FiveLeaveOne
<1>2. o \notin taken
  BY <1>1, ObjectAssumption
<1> QED BY <1>2, ObjectAssumption DEF NewId

LEMMA Appended ==
  ASSUME wire \in Seq(Events), NEW events \in Seq(Events), wire' = wire \o events
  PROVE  /\ wire' \in Seq(Events)
         /\ Len(wire') = Len(wire) + Len(events) /\ Len(wire) \in Nat /\ Len(events) \in Nat
         /\ \A i \in 1..Len(wire) : wire'[i] = wire[i] /\ i \in 1..Len(wire')
         /\ \A i \in 1..Len(wire') : i \in 1..Len(wire) \/ (i - Len(wire) \in 1..Len(events) /\ wire'[i] = events[i - Len(wire)])
         /\ \A i \in 1..Len(events) : Len(wire) + i \in 1..Len(wire') /\ wire'[Len(wire) + i] = events[i]
OBVIOUS

LEMMA Taken ==
  ASSUME wire \in Seq(Events), wire # <<>>, wire' = Tail(wire)
  PROVE  /\ wire' \in Seq(Events)
         /\ Len(wire) \in Nat \ {0} /\ Len(wire') = Len(wire) - 1
         /\ wire[1] = Head(wire) /\ 1 \in 1..Len(wire)
         /\ \A i \in 1..Len(wire') : wire'[i] = wire[i + 1] /\ i + 1 \in 1..Len(wire)
         /\ \A i \in 2..Len(wire) : i - 1 \in 1..Len(wire') /\ wire'[i - 1] = wire[i]
<1>1. Len(wire) > 0 /\ Len(wire) \in Nat
  OBVIOUS
<1>2. Tail(wire) \in Seq(Events) /\ Len(Tail(wire)) = Len(wire) - 1
  OBVIOUS
<1>3. \A i \in 1..Len(wire) - 1 : Tail(wire)[i] = wire[i + 1]
  OBVIOUS
<1>4. wire[1] = Head(wire)
  OBVIOUS
<1> QED BY <1>1, <1>2, <1>3, <1>4

Traced == {"done", "release", "delete"}

\* The same events of those kinds are on the wire, d places further up.
Shifted(kinds, d) ==
  \A on \in kinds :
    /\ \A i : At(i, on)' => At(i + d, on) /\ wire'[i] = wire[i + d]
    /\ \A i : At(i, on) => At(i - d, on)' /\ wire'[i - d] = wire[i]

SlotsStand == \A s \in Slot : slots'[s].obj = slots[s].obj /\ slots'[s].busy = slots[s].busy

\* As long as no object is made, destroyed, held or answered for, theirs is a
\* matter of the wire alone.
LEMMA IdsStand ==
  ASSUME FramesTypeOK, IdsIInv, NEW d \in {0, 1}, Shifted(Traced, d), SlotsStand,
         UNCHANGED <<callback, dying, request, answering, held>>
  PROVE  IdsIInv'
<1> USE DEF IdsIInv
<1>1. \A i, on : At(i, on) => i \in Nat
  BY DEF At
<1>2. \A i, on : At(i, on)' => i \in Int
  BY DEF At
<1>3. /\ \A i : At(i, "done")' => At(i + d, "done") /\ wire'[i] = wire[i + d]
      /\ \A i : At(i, "release")' => At(i + d, "release") /\ wire'[i] = wire[i + d]
      /\ \A i : At(i, "delete")' => At(i + d, "delete") /\ wire'[i] = wire[i + d]
  BY DEF Shifted, Traced
<1>4. /\ \A i : At(i, "done") => At(i - d, "done")' /\ wire'[i - d] = wire[i]
      /\ \A i : At(i, "release") => At(i - d, "release")' /\ wire'[i - d] = wire[i]
      /\ \A i : At(i, "delete") => At(i - d, "delete")' /\ wire'[i - d] = wire[i]
  BY DEF Shifted, Traced
<1>5. Live' = Live /\ Going' = Going
  BY DEF SlotsStand, Live, Going, Slot
<1>6. \A i, on : At(i, on) => i \in 1..Len(wire)
  BY DEF At
<1>7. \A i, on : At(i, on)' => i \in 1..Len(wire')
  BY DEF At
<1> HIDE DEF Live, Going
<1>8. IdsApart'
  BY <1>5 DEF IdsApart, SlotsStand, Slot
<1>9. OneFrame'
  <2>1. \A i : At(i, "done")' => /\ wire'[i].arg = callback' /\ callback' # 0 /\ request' = None /\ answering' = {}
                                 /\ \A j : At(j, "done")' => j = i
    BY <1>1, <1>2, <1>3, <1>6 DEF OneFrame
  <2> QED BY <1>5, <2>1 DEF OneFrame
<1>10. HeldAreKnown'
  BY <1>5 DEF HeldAreKnown, HeldIsBusy, SlotsStand
<1>11. ReleasesFit'
  <2> SUFFICES ASSUME NEW i, At(i, "release")'
               PROVE  /\ wire'[i].arg \notin held
                      /\ request # None => request.buffer # wire'[i].arg
                      /\ \A s \in Slot : slots'[s].obj = wire'[i].arg => slots'[s].busy
                      /\ wire'[i].arg \in Live \cup dying
                      /\ \A j : At(j, "delete")' /\ wire'[j].arg = wire'[i].arg => i < j
                      /\ \A j : At(j, "release")' /\ wire'[j].arg = wire'[i].arg => j = i
    BY <1>5 DEF ReleasesFit
  <2>1. At(i + d, "release") /\ wire'[i] = wire[i + d] /\ i \in Int
    BY <1>2, <1>3
  <2>2. /\ \A j : At(j, "delete") /\ wire[j].arg = wire[i + d].arg => i + d < j
        /\ \A j : At(j, "release") /\ wire[j].arg = wire[i + d].arg => j = i + d
    BY <1>6, <2>1 DEF ReleasesFit
  <2>3. \A j : At(j, "delete")' /\ wire'[j].arg = wire'[i].arg => i < j
    BY <1>2, <1>3, <2>1, <2>2
  <2>4. \A j : At(j, "release")' /\ wire'[j].arg = wire'[i].arg => j = i
    BY <1>2, <1>3, <2>1, <2>2
  <2>5. /\ wire'[i].arg \notin held
        /\ request # None => request.buffer # wire'[i].arg
        /\ \A s \in Slot : slots[s].obj = wire'[i].arg => slots[s].busy
        /\ wire'[i].arg \in Live \cup dying
    BY <1>6, <2>1 DEF ReleasesFit
  <2> QED BY <2>3, <2>4, <2>5 DEF SlotsStand
<1>12. DeletesFit'
  <2> SUFFICES ASSUME NEW i, At(i, "delete")'
               PROVE  /\ wire'[i].arg \notin Live /\ wire'[i].arg \notin Going
                      /\ \/ wire'[i].arg \in dying
                         \/ wire'[i].arg = callback /\ callback # 0 /\ \E j : At(j, "done")' /\ j < i
                      /\ \A j : At(j, "delete")' /\ wire'[j].arg = wire'[i].arg => j = i
    BY <1>5, <1>7 DEF DeletesFit
  <2>1. At(i + d, "delete") /\ wire'[i] = wire[i + d] /\ i \in Int
    BY <1>2, <1>3
  <2>2. \A j : At(j, "delete") /\ wire[j].arg = wire[i + d].arg => j = i + d
    BY <1>6, <2>1 DEF DeletesFit
  <2>3. \A j : At(j, "delete")' /\ wire'[j].arg = wire'[i].arg => j = i
    BY <1>2, <1>3, <2>1, <2>2
  <2>4. wire'[i].arg \notin Live /\ wire'[i].arg \notin Going
    BY <1>6, <2>1 DEF DeletesFit
  <2>5. ASSUME wire'[i].arg \notin dying
        PROVE  wire'[i].arg = callback /\ callback # 0 /\ \E j : At(j, "done")' /\ j < i
    <3>1. wire'[i].arg = callback /\ callback # 0 /\ \E j \in 1..Len(wire) : At(j, "done") /\ j < i + d
      BY <1>6, <2>1, <2>5 DEF DeletesFit
    <3>2. PICK j \in 1..Len(wire) : At(j, "done") /\ j < i + d
      BY <3>1
    <3>3. At(j - d, "done")' /\ j - d < i
      BY <1>4, <2>1, <3>2
    <3> QED BY <3>1, <3>3
  <2> QED BY <2>3, <2>4, <2>5
<1>13. DyingEnd'
  <2>1. \A o \in dying : o \in Going \/ \E i : At(i, "delete")' /\ wire'[i].arg = o
    BY <1>4 DEF DyingEnd
  <2>2. \A i, j : At(i, "done") /\ At(j, "delete") /\ i < j => wire[j].arg = callback
    BY <1>6 DEF DyingEnd
  <2>3. ASSUME NEW i, NEW j, At(i, "done")', At(j, "delete")', i < j PROVE wire'[j].arg = callback
    <3>1. At(i + d, "done") /\ At(j + d, "delete") /\ i \in Int /\ j \in Int /\ wire'[j] = wire[j + d]
      BY <1>2, <1>3, <2>3
    <3>2. i + d < j + d
      BY <2>3, <3>1
    <3> QED BY <2>2, <3>1, <3>2
  <2>4. ASSUME NEW i, At(i, "done")' PROVE \E j : At(j, "delete")' /\ i < j
    <3>1. At(i + d, "done") /\ i \in Int
      BY <1>2, <1>3, <2>4
    <3>2. PICK j \in 1..Len(wire) : At(j, "delete") /\ i + d < j
      BY <1>6, <3>1 DEF DyingEnd
    <3>3. At(j - d, "delete")' /\ i < j - d
      BY <1>4, <3>1, <3>2
    <3> QED BY <3>3
  <2>5. \A o \in dying' : o \in Going' \/ \E i \in 1..Len(wire') : At(i, "delete")' /\ wire'[i].arg = o
    BY <1>5, <1>7, <2>1
  <2>6. \A i \in 1..Len(wire') : At(i, "done")' => \E j \in 1..Len(wire') : At(j, "delete")' /\ i < j
    BY <1>7, <2>4
  <2> QED BY <2>3, <2>5, <2>6 DEF DyingEnd
<1> QED BY <1>8, <1>9, <1>10, <1>11, <1>12, <1>13

LEMMA ShiftedBySending ==
  ASSUME FramesTypeOK, NEW kinds, NEW events \in Seq(Events), wire' = wire \o events,
         \A i \in 1..Len(events) : events[i].on \notin kinds
  PROVE  Shifted(kinds, 0)
<1>1. /\ \A i \in 1..Len(wire) : wire'[i] = wire[i] /\ i \in 1..Len(wire')
      /\ \A i \in 1..Len(wire') : i \in 1..Len(wire) \/ (i - Len(wire) \in 1..Len(events) /\ wire'[i] = events[i - Len(wire)])
  BY Appended DEF FramesTypeOK
<1> SUFFICES ASSUME NEW on \in kinds
             PROVE  /\ \A i : At(i, on)' => At(i + 0, on) /\ wire'[i] = wire[i + 0]
                    /\ \A i : At(i, on) => At(i - 0, on)' /\ wire'[i - 0] = wire[i]
  BY DEF Shifted
<1>2. ASSUME NEW i, At(i, on)' PROVE At(i + 0, on) /\ wire'[i] = wire[i + 0]
  BY <1>1, <1>2 DEF At
<1>3. ASSUME NEW i, At(i, on) PROVE At(i - 0, on)' /\ wire'[i - 0] = wire[i]
  BY <1>1, <1>3 DEF At
<1> QED BY <1>2, <1>3

LEMMA ShiftedByTaking ==
  ASSUME FramesTypeOK, NEW kinds, wire # <<>>, wire' = Tail(wire), Head(wire).on \notin kinds
  PROVE  Shifted(kinds, 1)
<1>1. /\ Len(wire) \in Nat \ {0} /\ Len(wire') = Len(wire) - 1
      /\ wire[1] = Head(wire)
      /\ \A i \in 1..Len(wire') : wire'[i] = wire[i + 1] /\ i + 1 \in 1..Len(wire)
      /\ \A i \in 2..Len(wire) : i - 1 \in 1..Len(wire') /\ wire'[i - 1] = wire[i]
  BY Taken DEF FramesTypeOK
<1> SUFFICES ASSUME NEW on \in kinds
             PROVE  /\ \A i : At(i, on)' => At(i + 1, on) /\ wire'[i] = wire[i + 1]
                    /\ \A i : At(i, on) => At(i - 1, on)' /\ wire'[i - 1] = wire[i]
  BY DEF Shifted
<1>2. ASSUME NEW i, At(i, on)' PROVE At(i + 1, on) /\ wire'[i] = wire[i + 1]
  BY <1>1, <1>2 DEF At
<1>3. ASSUME NEW i, At(i, on) PROVE At(i - 1, on)' /\ wire'[i - 1] = wire[i]
  <2>1. i # 1
    BY <1>1, <1>3 DEF At
  <2>2. i \in 2..Len(wire)
    BY <1>1, <1>3, <2>1 DEF At
  <2> QED BY <1>1, <1>3, <2>2 DEF At
<1> QED BY <1>2, <1>3

LEMMA ShiftedByNothing ==
  ASSUME FramesTypeOK, NEW kinds, wire' = wire
  PROVE  Shifted(kinds, 0)
BY DEF Shifted, At, FramesTypeOK

LEMMA ReceiveIds ==
  ASSUME FramesTypeOK, IdsIInv, Receive
  PROVE  IdsIInv'
<1> USE DEF IdsIInv
<1> DEFINE ends == [i \in 1..Len(request.destroyed) |-> Event("delete", request.destroyed[i])]
<1>1. /\ request # None /\ request' = None /\ wire' = wire \o ends
      /\ held' = (held \ Going) \cup {request.buffer}
      /\ answering' = answering \cup {request.callback}
      /\ UNCHANGED <<slots, callback, dying>>
  BY DEF Receive, paintVars, Going
<1>2. request.destroyed \in Seq(Nat) /\ Len(request.destroyed) \in Nat
  BY <1>1 DEF FramesTypeOK, Frame
<1>3. ends \in Seq(Events) /\ Len(ends) = Len(request.destroyed)
      /\ \A i \in 1..Len(ends) : ends[i].on = "delete" /\ ends[i].arg = request.destroyed[i]
  BY <1>2 DEF Event, Events
<1> HIDE DEF ends
<1>4. /\ Len(wire) \in Nat
      /\ \A i \in 1..Len(wire) : wire'[i] = wire[i] /\ i \in 1..Len(wire')
      /\ \A i \in 1..Len(wire') : i \in 1..Len(wire) \/ (i - Len(wire) \in 1..Len(ends) /\ wire'[i] = ends[i - Len(wire)])
      /\ \A i \in 1..Len(ends) : Len(wire) + i \in 1..Len(wire') /\ wire'[Len(wire) + i] = ends[i]
  BY <1>1, <1>3, Appended DEF FramesTypeOK
<1>5. \A i \in 1..Len(ends) : request.destroyed[i] \in Going
  BY <1>1, <1>3 DEF Going
<1>6. /\ Going' = {} /\ Live' = Live
      /\ request.buffer \in Live /\ Going \subseteq dying /\ answering = {} /\ callback # 0 /\ request.callback = callback
      /\ \A i, j \in 1..Len(ends) : request.destroyed[i] = request.destroyed[j] => i = j
      /\ dying \cap Live = {}
  BY <1>1, <1>3 DEF OneFrame, Going, Live, IdsApart
<1>7. \A i : ~At(i, "done")
  BY <1>1 DEF OneFrame, At
<1>8. \A i, on : At(i, on)' /\ on # "delete" => At(i, on) /\ wire'[i] = wire[i]
  BY <1>3, <1>4 DEF At
<1>9. \A i, on : At(i, on) => At(i, on)' /\ wire'[i] = wire[i]
  BY <1>4 DEF At
<1>10. \A i : At(i, "delete")' => \/ At(i, "delete") /\ wire'[i] = wire[i]
                                  \/ /\ i > Len(wire) /\ i - Len(wire) \in 1..Len(ends) /\ i \in Int
                                     /\ wire'[i].arg = request.destroyed[i - Len(wire)]
  BY SMTT(30), <1>3, <1>4 DEF At
<1>11. \A i, on : At(i, on) => i \in 1..Len(wire) /\ i <= Len(wire) /\ i \in Int
  BY <1>4 DEF At
<1> HIDE DEF Live, Going
<1>12. IdsApart'
  BY <1>1, <1>6 DEF IdsApart
<1>13. OneFrame'
  BY <1>1, <1>6, <1>7, <1>8 DEF OneFrame
<1>14. HeldAreKnown'
  BY <1>1, <1>6 DEF HeldAreKnown, HeldIsBusy
<1>15. ReleasesFit'
  <2> SUFFICES ASSUME NEW i, At(i, "release")'
               PROVE  /\ wire'[i].arg \notin held'
                      /\ \A s \in Slot : slots[s].obj = wire'[i].arg => slots[s].busy
                      /\ wire'[i].arg \in Live \cup dying
                      /\ \A j : At(j, "delete")' /\ wire'[j].arg = wire'[i].arg => i < j
                      /\ \A j : At(j, "release")' /\ wire'[j].arg = wire'[i].arg => j = i
    BY <1>1, <1>6 DEF ReleasesFit
  <2>1. At(i, "release") /\ wire'[i] = wire[i] /\ i \in 1..Len(wire)
    BY <1>8, <1>11
  <2>2. /\ wire[i].arg \notin held /\ wire[i].arg # request.buffer
        /\ \A s \in Slot : slots[s].obj = wire[i].arg => slots[s].busy
        /\ wire[i].arg \in Live \cup dying
        /\ \A j : At(j, "delete") /\ wire[j].arg = wire[i].arg => i < j
        /\ \A j : At(j, "release") /\ wire[j].arg = wire[i].arg => j = i
    BY <1>1, <1>11, <2>1 DEF ReleasesFit
  <2>3. \A j : At(j, "delete")' /\ wire'[j].arg = wire'[i].arg => i < j
    BY <1>4, <1>10, <2>1, <2>2
  <2>4. \A j : At(j, "release")' /\ wire'[j].arg = wire'[i].arg => j = i
    BY <1>8, <2>1, <2>2
  <2> QED BY <1>1, <2>1, <2>2, <2>3, <2>4
<1>16. DeletesFit'
  <2> SUFFICES ASSUME NEW i, At(i, "delete")'
               PROVE  /\ wire'[i].arg \notin Live
                      /\ wire'[i].arg \in dying
                      /\ \A j : At(j, "delete")' /\ wire'[j].arg = wire'[i].arg => j = i
    BY <1>1, <1>6 DEF DeletesFit
  <2>1. CASE At(i, "delete") /\ wire'[i] = wire[i]
    <3>1. /\ wire[i].arg \notin Live /\ wire[i].arg \notin Going /\ wire[i].arg \in dying
          /\ \A j : At(j, "delete") /\ wire[j].arg = wire[i].arg => j = i
      BY <1>7, <1>11, <2>1 DEF DeletesFit
    <3> QED BY <1>5, <1>10, <2>1, <3>1
  <2>2. CASE i > Len(wire) /\ i - Len(wire) \in 1..Len(ends) /\ i \in Int /\ wire'[i].arg = request.destroyed[i - Len(wire)]
    <3>1. wire'[i].arg \in Going /\ wire'[i].arg \in dying /\ wire'[i].arg \notin Live
      BY <1>5, <1>6, <2>2
    <3>2. ASSUME NEW j, At(j, "delete")', wire'[j].arg = wire'[i].arg PROVE j = i
      <4>1. CASE At(j, "delete") /\ wire'[j] = wire[j]
        BY <1>11, <3>1, <3>2, <4>1 DEF DeletesFit
      <4>2. CASE j > Len(wire) /\ j - Len(wire) \in 1..Len(ends) /\ j \in Int /\ wire'[j].arg = request.destroyed[j - Len(wire)]
        <5>1. j - Len(wire) = i - Len(wire)
          BY <1>6, <2>2, <3>2, <4>2
        <5> QED BY <1>4, <2>2, <4>2, <5>1
      <4> QED BY <1>10, <3>2, <4>1, <4>2
    <3> QED BY <3>1, <3>2
  <2> QED BY <1>10, <2>1, <2>2
<1>17. DyingEnd'
  <2>1. ASSUME NEW o \in dying PROVE \E i : At(i, "delete")' /\ wire'[i].arg = o
    <3>1. CASE o \in Going
      <4>1. PICK k \in 1..Len(ends) : o = request.destroyed[k]
        BY <1>1, <1>3, <3>1 DEF Going
      <4>2. PICK i : i = Len(wire) + k
        OBVIOUS
      <4>3. At(i, "delete")' /\ wire'[i].arg = o
        BY <1>3, <1>4, <4>1, <4>2 DEF At
      <4> QED BY <4>3
    <3>2. CASE o \notin Going
      BY <1>9, <3>2 DEF DyingEnd
    <3> QED BY <3>1, <3>2
  <2>2. \A i, on : At(i, on)' => i \in 1..Len(wire')
    BY DEF At
  <2>3. \A i : ~At(i, "done")'
    BY <1>7, <1>8
  <2> QED BY <1>1, <1>6, <2>1, <2>2, <2>3 DEF DyingEnd
<1> QED BY <1>12, <1>13, <1>14, <1>15, <1>16, <1>17

\* One more event, after all there are.
LEMMA OneSent ==
  ASSUME FramesTypeOK, NEW e \in Events, wire' = Append(wire, e)
  PROVE  /\ wire' \in Seq(Events) /\ Len(wire) \in Nat /\ Len(wire') = Len(wire) + 1
         /\ \A i, on : At(i, on) => At(i, on)' /\ wire'[i] = wire[i] /\ i \in 1..Len(wire)
         /\ \A i, on : At(i, on)' => i \in 1..Len(wire') /\ ((At(i, on) /\ wire'[i] = wire[i]) \/ (i = Len(wire) + 1 /\ wire'[i] = e /\ e.on = on))
         /\ \A i : i = Len(wire) + 1 => At(i, e.on)' /\ wire'[i] = e
<1>1. /\ wire' \in Seq(Events) /\ Len(wire) \in Nat /\ Len(wire') = Len(wire) + 1
      /\ \A i \in 1..Len(wire) : wire'[i] = wire[i]
      /\ wire'[Len(wire) + 1] = e
  BY DEF FramesTypeOK
<1>2. \A i, on : At(i, on) => At(i, on)' /\ wire'[i] = wire[i] /\ i \in 1..Len(wire)
  BY <1>1 DEF At
<1>3. ASSUME NEW i, NEW on, At(i, on)'
      PROVE  i \in 1..Len(wire') /\ ((At(i, on) /\ wire'[i] = wire[i]) \/ (i = Len(wire) + 1 /\ wire'[i] = e /\ e.on = on))
  <2>1. i \in 1..Len(wire') /\ wire'[i].on = on
    BY <1>3 DEF At
  <2>2. i \in 1..Len(wire) \/ i = Len(wire) + 1
    BY <1>1, <2>1
  <2>3. CASE i \in 1..Len(wire)
    BY <1>1, <2>1, <2>3 DEF At
  <2>4. CASE i = Len(wire) + 1
    BY <1>1, <2>1, <2>4
  <2> QED BY <2>1, <2>2, <2>3, <2>4
<1>4. \A i : i = Len(wire) + 1 => At(i, e.on)' /\ wire'[i] = e
  BY <1>1 DEF At
<1> QED BY <1>1, <1>2, <1>3, <1>4

LEMMA ReleaseIds ==
  ASSUME FramesTypeOK, IdsIInv, NEW o \in Nat, Release(o)
  PROVE  IdsIInv'
<1> USE DEF IdsIInv
<1> DEFINE e == Event("release", o)
<1>1. /\ o \in held /\ wire' = Append(wire, e) /\ held' = held \ {o}
      /\ UNCHANGED <<request, answering, slots, callback, dying>>
  BY DEF Release, paintVars
<1>2. e \in Events /\ e.on = "release" /\ e.arg = o
  BY DEF Event, Events
<1> HIDE DEF e
<1>3. /\ Len(wire) \in Nat /\ Len(wire') = Len(wire) + 1
      /\ \A i, on : At(i, on) => At(i, on)' /\ wire'[i] = wire[i] /\ i \in 1..Len(wire)
      /\ \A i, on : At(i, on)' => i \in 1..Len(wire') /\ ((At(i, on) /\ wire'[i] = wire[i]) \/ (i = Len(wire) + 1 /\ wire'[i] = e /\ e.on = on))
  BY <1>1, <1>2, OneSent
<1>4. Live' = Live /\ Going' = Going
  BY <1>1 DEF Live, Going
<1> HIDE DEF Live, Going
<1>5. /\ o \in Live \cup Going /\ (request # None => request.buffer # o)
      /\ \A s \in Slot : slots[s].obj = o => slots[s].busy
  <2>1. o \in Nat \ {0}
    <3>1. 0 \notin Live /\ Going \subseteq dying
      BY DEF Live, OneFrame, Going
    <3> QED BY <1>1, <3>1 DEF HeldAreKnown, FramesTypeOK
  <2> QED BY <1>1, <2>1 DEF HeldAreKnown, HeldIsBusy
<1>6. \A i : At(i, "done")' \/ At(i, "delete")' => (At(i, "done") <=> At(i, "done")') /\ (At(i, "delete") <=> At(i, "delete")') /\ wire'[i] = wire[i] /\ i \in 1..Len(wire)
  BY <1>2, <1>3
<1>7. \A i : At(i, "delete") => wire[i].arg # o
  BY <1>3, <1>5 DEF DeletesFit
<1>8. \A i : At(i, "release") => wire[i].arg # o
  BY <1>1, <1>3 DEF ReleasesFit
<1>9. IdsApart' /\ HeldAreKnown'
  BY <1>1, <1>4 DEF IdsApart, HeldAreKnown, HeldIsBusy
<1>10. OneFrame'
  BY <1>1, <1>3, <1>4, <1>6 DEF OneFrame
<1>11. ReleasesFit'
  <2> SUFFICES ASSUME NEW i, At(i, "release")'
               PROVE  /\ wire'[i].arg \notin held'
                      /\ request # None => request.buffer # wire'[i].arg
                      /\ \A s \in Slot : slots[s].obj = wire'[i].arg => slots[s].busy
                      /\ wire'[i].arg \in Live \cup dying
                      /\ \A j : At(j, "delete")' /\ wire'[j].arg = wire'[i].arg => i < j
                      /\ \A j : At(j, "release")' /\ wire'[j].arg = wire'[i].arg => j = i
    BY <1>1, <1>4 DEF ReleasesFit
  <2>1. CASE At(i, "release") /\ wire'[i] = wire[i]
    <3>1. /\ wire[i].arg \notin held /\ (request # None => request.buffer # wire[i].arg)
          /\ \A s \in Slot : slots[s].obj = wire[i].arg => slots[s].busy
          /\ wire[i].arg \in Live \cup dying
          /\ \A j : At(j, "delete") /\ wire[j].arg = wire[i].arg => i < j
          /\ \A j : At(j, "release") /\ wire[j].arg = wire[i].arg => j = i
      BY <1>3, <2>1 DEF ReleasesFit
    <3>2. \A j : At(j, "delete")' /\ wire'[j].arg = wire'[i].arg => i < j
      BY <1>6, <2>1, <3>1
    <3>3. \A j : At(j, "release")' /\ wire'[j].arg = wire'[i].arg => j = i
      BY <1>2, <1>3, <1>8, <2>1, <3>1
    <3> QED BY <1>1, <2>1, <3>1, <3>2, <3>3
  <2>2. CASE i = Len(wire) + 1 /\ wire'[i] = e
    <3>1. wire'[i].arg = o
      BY <1>2, <2>2
    <3>2. \A j : At(j, "delete")' => wire'[j].arg # o
      BY <1>6, <1>7
    <3>3. \A j : At(j, "release")' /\ wire'[j].arg = o => j = i
      BY <1>3, <1>8, <2>2
    <3>4. o \in Live \cup dying
      BY <1>5 DEF OneFrame, Going
    <3> QED BY <1>1, <1>5, <3>1, <3>2, <3>3, <3>4
  <2> QED BY <1>3, <2>1, <2>2
<1>12. DeletesFit'
  <2> SUFFICES ASSUME NEW i, At(i, "delete")'
               PROVE  /\ wire'[i].arg \notin Live /\ wire'[i].arg \notin Going
                      /\ \/ wire'[i].arg \in dying
                         \/ wire'[i].arg = callback /\ callback # 0 /\ \E j : At(j, "done")' /\ j < i
                      /\ \A j : At(j, "delete")' /\ wire'[j].arg = wire'[i].arg => j = i
    BY <1>1, <1>3, <1>4 DEF DeletesFit
  <2>1. At(i, "delete") /\ wire'[i] = wire[i] /\ i \in 1..Len(wire)
    BY <1>6
  <2> QED BY <1>3, <1>6, <2>1 DEF DeletesFit
<1>13. DyingEnd'
  <2>1. \A p \in dying : p \in Going \/ \E i : At(i, "delete")' /\ wire'[i].arg = p
    BY <1>3 DEF DyingEnd
  <2>2. \A i, j : At(i, "done")' /\ At(j, "delete")' /\ i < j => wire'[j].arg = callback
    BY <1>6 DEF DyingEnd
  <2>3. \A i : At(i, "done")' => \E j : At(j, "delete")' /\ i < j
    BY <1>3, <1>6 DEF DyingEnd
  <2> QED BY ZenonT(60), <1>1, <1>3, <1>4, <2>1, <2>2, <2>3 DEF DyingEnd
<1> QED BY <1>9, <1>10, <1>11, <1>12, <1>13

\* The answer of a callback is followed by the end of its id.
LEMMA AnswerIds ==
  ASSUME FramesTypeOK, IdsIInv, NEW o \in Nat, Answer(o)
  PROVE  IdsIInv'
<1> USE DEF IdsIInv
<1> DEFINE two == <<Event("done", o), Event("delete", o)>>
<1>1. /\ o \in answering /\ wire' = wire \o two /\ answering' = answering \ {o}
      /\ UNCHANGED <<request, held, slots, callback, dying>>
  BY DEF Answer, paintVars
<1>2. /\ two \in Seq(Events) /\ Len(two) = 2 /\ two[1].on = "done" /\ two[2].on = "delete"
      /\ two[1].arg = o /\ two[2].arg = o
  BY DEF Event, Events
<1> HIDE DEF two
<1>3. /\ Len(wire) \in Nat /\ Len(wire') = Len(wire) + 2
      /\ \A i \in 1..Len(wire) : wire'[i] = wire[i] /\ i \in 1..Len(wire')
      /\ \A i \in 1..Len(wire') : i \in 1..Len(wire) \/ (i - Len(wire) \in 1..Len(two) /\ wire'[i] = two[i - Len(wire)])
      /\ \A i \in 1..Len(two) : Len(wire) + i \in 1..Len(wire') /\ wire'[Len(wire) + i] = two[i]
  BY <1>1, <1>2, Appended DEF FramesTypeOK
<1>4. PICK last : last = Len(wire) + 1
  OBVIOUS
<1>5. \A i, on : At(i, on) => At(i, on)' /\ wire'[i] = wire[i] /\ i \in 1..Len(wire) /\ i < last
  BY <1>3, <1>4 DEF At
<1>6. ASSUME NEW i, NEW on, At(i, on)'
      PROVE  /\ i \in 1..Len(wire') /\ i \in Int
             /\ \/ At(i, on) /\ wire'[i] = wire[i]
                \/ i = last /\ on = "done" /\ wire'[i].arg = o
                \/ i = last + 1 /\ on = "delete" /\ wire'[i].arg = o
  <2>1. i \in 1..Len(wire') /\ wire'[i].on = on
    BY <1>6 DEF At
  <2>2. i \in 1..Len(wire) \/ i = last \/ i = last + 1
    BY <1>3, <1>4, <2>1
  <2>3. /\ i = last => wire'[i] = two[1]
        /\ i = last + 1 => wire'[i] = two[2]
    BY <1>2, <1>3, <1>4
  <2> QED BY <1>2, <1>3, <2>1, <2>2, <2>3 DEF At
<1>7. /\ At(last, "done")' /\ wire'[last].arg = o
      /\ At(last + 1, "delete")' /\ wire'[last + 1].arg = o
  BY <1>2, <1>3, <1>4 DEF At
<1>8. /\ Live' = Live /\ Going' = Going
      /\ o = callback /\ callback # 0 /\ answering' = {} /\ request = None
      /\ \A i : ~At(i, "done")
  BY <1>1 DEF Live, Going, OneFrame, At
<1>9. o \notin Live /\ Going = {} /\ o \notin dying
  BY <1>8 DEF IdsApart, Going
<1> HIDE DEF Live, Going
<1>10. \A i : At(i, "delete") => wire[i].arg # o /\ wire[i].arg \in dying
  BY <1>5, <1>8, <1>9 DEF DeletesFit
<1>11. IdsApart' /\ HeldAreKnown'
  BY <1>1, <1>8 DEF IdsApart, HeldAreKnown, HeldIsBusy
<1>12. OneFrame'
  <2>1. \A i : At(i, "done")' => i = last /\ wire'[i].arg = o
    BY <1>6, <1>8
  <2> QED BY <1>1, <1>8, <2>1 DEF OneFrame
<1>13. ReleasesFit'
  <2> SUFFICES ASSUME NEW i, At(i, "release")'
               PROVE  /\ wire'[i].arg \notin held
                      /\ \A s \in Slot : slots[s].obj = wire'[i].arg => slots[s].busy
                      /\ wire'[i].arg \in Live \cup dying
                      /\ \A j : At(j, "delete")' /\ wire'[j].arg = wire'[i].arg => i < j
                      /\ \A j : At(j, "release")' /\ wire'[j].arg = wire'[i].arg => j = i
    BY <1>1, <1>8 DEF ReleasesFit
  <2>1. At(i, "release") /\ wire'[i] = wire[i]
    BY <1>6
  <2>2. /\ wire[i].arg \notin held
        /\ \A s \in Slot : slots[s].obj = wire[i].arg => slots[s].busy
        /\ wire[i].arg \in Live \cup dying
        /\ \A j : At(j, "delete") /\ wire[j].arg = wire[i].arg => i < j
        /\ \A j : At(j, "release") /\ wire[j].arg = wire[i].arg => j = i
    BY <1>5, <2>1 DEF ReleasesFit
  <2>3. \A j : At(j, "delete")' /\ wire'[j].arg = wire'[i].arg => i < j
    BY <1>6, <1>9, <2>1, <2>2
  <2>4. \A j : At(j, "release")' /\ wire'[j].arg = wire'[i].arg => j = i
    BY <1>6, <2>1, <2>2
  <2> QED BY <2>1, <2>2, <2>3, <2>4
<1>14. DeletesFit'
  <2> SUFFICES ASSUME NEW i, At(i, "delete")'
               PROVE  /\ wire'[i].arg \notin Live
                      /\ \/ wire'[i].arg \in dying
                         \/ wire'[i].arg = callback /\ \E j : At(j, "done")' /\ j < i
                      /\ \A j : At(j, "delete")' /\ wire'[j].arg = wire'[i].arg => j = i
    BY <1>1, <1>6, <1>8, <1>9 DEF DeletesFit
  <2>1. CASE At(i, "delete") /\ wire'[i] = wire[i]
    <3>1. wire[i].arg \notin Live /\ \A j : At(j, "delete") /\ wire[j].arg = wire[i].arg => j = i
      BY <1>5, <2>1 DEF DeletesFit
    <3> QED BY <1>6, <1>10, <2>1, <3>1
  <2>2. CASE i = last + 1 /\ wire'[i].arg = o
    <3>1. \A j : At(j, "delete")' /\ wire'[j].arg = o => j = i
      BY <1>6, <1>10, <2>2
    <3>2. last < i
      BY <1>3, <1>4, <2>2
    <3> QED BY <1>7, <1>8, <1>9, <2>2, <3>1, <3>2
  <2> QED BY <1>6, <2>1, <2>2
<1>15. DyingEnd'
  <2>1. \A p \in dying : \E i : At(i, "delete")' /\ wire'[i].arg = p
    BY <1>5, <1>9 DEF DyingEnd
  <2>2. \A i, j : At(i, "done")' /\ At(j, "delete")' /\ i < j => wire'[j].arg = callback
    BY <1>5, <1>6, <1>8
  <2>3. last < last + 1
    BY <1>3, <1>4
  <2>4. \A i : At(i, "done")' => \E j : At(j, "delete")' /\ i < j
    BY <1>6, <1>7, <1>8, <2>3
  <2> QED BY ZenonT(60), <1>1, <1>6, <1>8, <2>1, <2>2, <2>4 DEF DyingEnd
<1> QED BY <1>11, <1>12, <1>13, <1>14, <1>15

LEMMA HeadTaken ==
  ASSUME FramesTypeOK, NEW on, Take(on)
  PROVE  /\ At(1, on) /\ wire[1] = Head(wire) /\ Head(wire) \in Events /\ wire' \in Seq(Events)
         /\ \A i, k : At(i, k) => i \in 1..Len(wire) /\ i \in Int /\ i >= 1
         /\ \A i, k : At(i, k)' => /\ i \in 1..Len(wire') /\ i \in Int /\ i >= 1
                                   /\ At(i + 1, k) /\ wire'[i] = wire[i + 1]
         /\ \A i, k : At(i, k) /\ i # 1 => At(i - 1, k)' /\ wire'[i - 1] = wire[i]
<1>1. /\ Len(wire) \in Nat \ {0} /\ Len(wire') = Len(wire) - 1
      /\ wire[1] = Head(wire) /\ 1 \in 1..Len(wire) /\ wire' \in Seq(Events)
      /\ \A i \in 1..Len(wire') : wire'[i] = wire[i + 1] /\ i + 1 \in 1..Len(wire)
      /\ \A i \in 2..Len(wire) : i - 1 \in 1..Len(wire') /\ wire'[i - 1] = wire[i]
  BY Taken DEF Take, FramesTypeOK
<1>2. At(1, on)
  BY <1>1 DEF At, Take
<1>3. Head(wire) \in Events
  BY <1>1 DEF FramesTypeOK
<1>4. \A i, k : At(i, k) => i \in 1..Len(wire) /\ i \in Int /\ i >= 1
  BY <1>1 DEF At
<1>5. \A i, k : At(i, k)' => /\ i \in 1..Len(wire') /\ i \in Int /\ i >= 1
                             /\ At(i + 1, k) /\ wire'[i] = wire[i + 1]
  BY <1>1 DEF At
<1>6. ASSUME NEW i, NEW k, At(i, k), i # 1 PROVE At(i - 1, k)' /\ wire'[i - 1] = wire[i]
  <2>1. i \in 2..Len(wire)
    BY <1>1, <1>6 DEF At
  <2> QED BY <1>1, <1>6, <2>1 DEF At
<1> QED BY <1>1, <1>2, <1>3, <1>4, <1>5, <1>6

LEMMA ReadDoneIds ==
  ASSUME FramesTypeOK, IdsIInv, ReadDone
  PROVE  IdsIInv'
<1> USE DEF IdsIInv
<1>1. Take("done")
  BY DEF ReadDone
<1>2. /\ At(1, "done") /\ wire[1] = Head(wire)
      /\ \A i, k : At(i, k) => i \in 1..Len(wire) /\ i \in Int /\ i >= 1
      /\ \A i, k : At(i, k)' => /\ i \in 1..Len(wire') /\ i \in Int /\ i >= 1
                                /\ At(i + 1, k) /\ wire'[i] = wire[i + 1]
      /\ \A i, k : At(i, k) /\ i # 1 => At(i - 1, k)' /\ wire'[i - 1] = wire[i]
  BY <1>1, HeadTaken
<1>3. /\ Head(wire).arg = callback /\ callback # 0 /\ request = None /\ answering = {}
      /\ \A j : At(j, "done") => j = 1
  BY <1>2 DEF OneFrame
<1>4. /\ callback' = 0 /\ dying' = dying \cup {callback}
      /\ UNCHANGED <<slots, request, answering, held>>
  BY <1>1, <1>3 DEF ReadDone, Take, compositorVars
<1>5. Live' = Live /\ Going = {} /\ Going' = {} /\ callback \notin Live /\ callback \notin dying /\ 0 \notin Live
  BY <1>3, <1>4 DEF Live, Going, IdsApart
<1> HIDE DEF Live, Going
<1>6. \A i : ~At(i, "done")'
  BY <1>2, <1>3
<1>7. \A i : At(i, "delete") => i > 1 /\ i # 1
  <2>1. \A i : At(i, "delete") => i # 1
    BY <1>2 DEF At
  <2> QED BY <1>2, <2>1
<1>8. dying = {}
  <2> SUFFICES ASSUME NEW o \in dying
               PROVE  FALSE
    OBVIOUS
  <2>1. PICK i \in 1..Len(wire) : At(i, "delete") /\ wire[i].arg = o
    BY <1>5 DEF DyingEnd
  <2>2. wire[i].arg = callback
    BY <1>2, <1>7, <2>1 DEF DyingEnd
  <2> QED BY <1>5, <2>1, <2>2
<1>9. IdsApart' /\ HeldAreKnown'
  <2>1. IdsApart'
    BY <1>3, <1>4, <1>5, <1>8 DEF IdsApart
  <2>2. HeldAreKnown'
    BY <1>3, <1>4, <1>5 DEF HeldAreKnown, HeldIsBusy
  <2> QED BY <2>1, <2>2
<1>10. OneFrame'
  BY <1>3, <1>4, <1>6 DEF OneFrame
<1>11. ReleasesFit'
  <2> SUFFICES ASSUME NEW i, At(i, "release")'
               PROVE  /\ wire'[i].arg \notin held
                      /\ \A s \in Slot : slots[s].obj = wire'[i].arg => slots[s].busy
                      /\ wire'[i].arg \in Live \cup dying
                      /\ \A j : At(j, "delete")' /\ wire'[j].arg = wire'[i].arg => i < j
                      /\ \A j : At(j, "release")' /\ wire'[j].arg = wire'[i].arg => j = i
    BY <1>3, <1>4, <1>5 DEF ReleasesFit
  <2>1. At(i + 1, "release") /\ wire'[i] = wire[i + 1] /\ i \in Int
    BY <1>2
  <2>2. /\ wire[i + 1].arg \notin held
        /\ \A s \in Slot : slots[s].obj = wire[i + 1].arg => slots[s].busy
        /\ wire[i + 1].arg \in Live \cup dying
        /\ \A j : At(j, "delete") /\ wire[j].arg = wire[i + 1].arg => i + 1 < j
        /\ \A j : At(j, "release") /\ wire[j].arg = wire[i + 1].arg => j = i + 1
    BY <1>2, <2>1 DEF ReleasesFit
  <2>3. \A j : At(j, "delete")' /\ wire'[j].arg = wire'[i].arg => i < j
    BY <1>2, <2>1, <2>2
  <2>4. \A j : At(j, "release")' /\ wire'[j].arg = wire'[i].arg => j = i
    BY <1>2, <2>1, <2>2
  <2> QED BY <2>1, <2>2, <2>3, <2>4
<1>12. DeletesFit'
  <2> SUFFICES ASSUME NEW i, At(i, "delete")'
               PROVE  /\ wire'[i].arg \notin Live
                      /\ wire'[i].arg \in dying \cup {callback}
                      /\ \A j : At(j, "delete")' /\ wire'[j].arg = wire'[i].arg => j = i
    BY <1>4, <1>5 DEF DeletesFit
  <2>1. At(i + 1, "delete") /\ wire'[i] = wire[i + 1] /\ i \in Int
    BY <1>2
  <2>2. /\ wire[i + 1].arg \notin Live
        /\ wire[i + 1].arg \in dying \cup {callback}
        /\ \A j : At(j, "delete") /\ wire[j].arg = wire[i + 1].arg => j = i + 1
    BY <1>2, <2>1 DEF DeletesFit
  <2>3. \A j : At(j, "delete")' /\ wire'[j].arg = wire'[i].arg => j = i
    BY <1>2, <2>1, <2>2
  <2> QED BY <2>1, <2>2, <2>3
<1>13. DyingEnd'
  <2>1. PICK j \in 1..Len(wire) : At(j, "delete") /\ 1 < j
    BY <1>2 DEF DyingEnd
  <2>2. wire[j].arg = callback
    BY <1>2, <2>1 DEF DyingEnd
  <2>3. At(j - 1, "delete")' /\ wire'[j - 1].arg = callback
    BY <1>2, <1>7, <2>1, <2>2
  <2>4. \A o \in dying' : \E i \in 1..Len(wire') : At(i, "delete")' /\ wire'[i].arg = o
    BY <1>2, <1>4, <1>8, <2>3
  <2> QED BY <1>4, <1>6, <1>8, <2>4 DEF DyingEnd
<1> QED BY <1>9, <1>10, <1>11, <1>12, <1>13

LEMMA ReadReleaseIds ==
  ASSUME FramesTypeOK, IdsIInv, ReadRelease
  PROVE  IdsIInv'
<1> USE DEF IdsIInv
<1>1. Take("release")
  BY DEF ReadRelease
<1>2. /\ At(1, "release") /\ wire[1] = Head(wire)
      /\ \A i, k : At(i, k) => i \in 1..Len(wire) /\ i \in Int /\ i >= 1
      /\ \A i, k : At(i, k)' => /\ i \in 1..Len(wire') /\ i \in Int /\ i >= 1
                                /\ At(i + 1, k) /\ wire'[i] = wire[i + 1]
      /\ \A i, k : At(i, k) /\ i # 1 => At(i - 1, k)' /\ wire'[i - 1] = wire[i]
  BY <1>1, HeadTaken
<1> DEFINE o == Head(wire).arg
<1>3. UNCHANGED <<callback, dying, request, answering, held>>
  BY <1>1 DEF ReadRelease, Take, compositorVars
<1>4. \A s \in Slot : /\ slots'[s].obj = slots[s].obj
                      /\ slots'[s].busy <=> slots[s].busy /\ slots[s].obj # o
  BY DEF ReadRelease, FramesTypeOK, Buffer
<1> HIDE DEF o
<1>5. Live' = Live /\ Going' = Going
  BY <1>3, <1>4 DEF Live, Going, Slot
<1>6. /\ o \notin held /\ (request # None => request.buffer # o)
      /\ \A j : At(j, "release") /\ wire[j].arg = o => j = 1
  BY <1>2 DEF ReleasesFit, o
<1>7. \A i : At(i, "done") \/ At(i, "delete") => i # 1
  BY <1>2 DEF At
<1> HIDE DEF Live, Going
<1>8. IdsApart'
  BY <1>3, <1>4, <1>5 DEF IdsApart, Slot
<1>9. HeldAreKnown'
  BY <1>3, <1>4, <1>5, <1>6 DEF HeldAreKnown, HeldIsBusy
<1>10. OneFrame'
  <2>1. \A i : At(i, "done")' => /\ wire'[i].arg = callback /\ callback # 0
                                 /\ request = None /\ answering = {}
                                 /\ \A j : At(j, "done")' => j = i
    BY <1>2 DEF OneFrame
  <2> QED BY <1>3, <1>5, <2>1 DEF OneFrame
<1>11. ReleasesFit'
  <2> SUFFICES ASSUME NEW i, At(i, "release")'
               PROVE  /\ wire'[i].arg \notin held
                      /\ request # None => request.buffer # wire'[i].arg
                      /\ \A s \in Slot : slots'[s].obj = wire'[i].arg => slots'[s].busy
                      /\ wire'[i].arg \in Live \cup dying
                      /\ \A j : At(j, "delete")' /\ wire'[j].arg = wire'[i].arg => i < j
                      /\ \A j : At(j, "release")' /\ wire'[j].arg = wire'[i].arg => j = i
    BY <1>3, <1>5 DEF ReleasesFit
  <2>1. At(i + 1, "release") /\ wire'[i] = wire[i + 1] /\ i \in Int /\ i >= 1
    BY <1>2
  <2>2. /\ wire[i + 1].arg \notin held /\ (request # None => request.buffer # wire[i + 1].arg)
        /\ \A s \in Slot : slots[s].obj = wire[i + 1].arg => slots[s].busy
        /\ wire[i + 1].arg \in Live \cup dying
        /\ \A j : At(j, "delete") /\ wire[j].arg = wire[i + 1].arg => i + 1 < j
        /\ \A j : At(j, "release") /\ wire[j].arg = wire[i + 1].arg => j = i + 1
    BY <1>2, <2>1 DEF ReleasesFit
  <2>3. wire[i + 1].arg # o
    BY <1>6, <2>1
  <2>4. \A j : At(j, "delete")' /\ wire'[j].arg = wire'[i].arg => i < j
    BY <1>2, <2>1, <2>2
  <2>5. \A j : At(j, "release")' /\ wire'[j].arg = wire'[i].arg => j = i
    BY SMTT(30), <1>2, <2>1, <2>2
  <2> QED BY <1>4, <2>1, <2>2, <2>3, <2>4, <2>5
<1>12. DeletesFit'
  <2> SUFFICES ASSUME NEW i, At(i, "delete")'
               PROVE  /\ wire'[i].arg \notin Live /\ wire'[i].arg \notin Going
                      /\ \/ wire'[i].arg \in dying
                         \/ wire'[i].arg = callback /\ callback # 0 /\ \E j : At(j, "done")' /\ j < i
                      /\ \A j : At(j, "delete")' /\ wire'[j].arg = wire'[i].arg => j = i
    BY <1>2, <1>3, <1>5 DEF DeletesFit
  <2>1. At(i + 1, "delete") /\ wire'[i] = wire[i + 1] /\ i \in Int
    BY <1>2
  <2>2. /\ wire[i + 1].arg \notin Live /\ wire[i + 1].arg \notin Going
        /\ \A j : At(j, "delete") /\ wire[j].arg = wire[i + 1].arg => j = i + 1
    BY <1>2, <2>1 DEF DeletesFit
  <2>3. \A j : At(j, "delete")' /\ wire'[j].arg = wire'[i].arg => j = i
    BY <1>2, <2>1, <2>2
  <2>4. ASSUME wire'[i].arg \notin dying
        PROVE  wire'[i].arg = callback /\ callback # 0 /\ \E j : At(j, "done")' /\ j < i
    <3>1. PICK j \in 1..Len(wire) : wire[i + 1].arg = callback /\ callback # 0 /\ At(j, "done") /\ j < i + 1
      BY <1>2, <2>1, <2>4 DEF DeletesFit
    <3>2. At(j, "done") /\ j # 1 /\ j \in Int
      BY <1>7, <3>1
    <3>3. At(j - 1, "done")'
      BY <1>2, <3>2
    <3>4. j - 1 < i
      BY <2>1, <3>1, <3>2
    <3> QED BY <2>1, <3>1, <3>3, <3>4
  <2> QED BY <2>1, <2>2, <2>3, <2>4
<1>13. DyingEnd'
  <2>1. \A p \in dying : p \in Going \/ \E i : At(i, "delete")' /\ wire'[i].arg = p
    BY <1>2, <1>7 DEF DyingEnd
  <2>2. ASSUME NEW i, NEW j, At(i, "done")', At(j, "delete")', i < j PROVE wire'[j].arg = callback
    <3>1. At(i + 1, "done") /\ At(j + 1, "delete") /\ i + 1 < j + 1 /\ wire'[j] = wire[j + 1]
      BY <1>2, <2>2
    <3> QED BY <1>2, <3>1 DEF DyingEnd
  <2>3. ASSUME NEW i, At(i, "done")' PROVE \E j : At(j, "delete")' /\ i < j
    <3>1. At(i + 1, "done") /\ i \in Int
      BY <1>2, <2>3
    <3>2. PICK j \in 1..Len(wire) : At(j, "delete") /\ i + 1 < j
      BY <1>2, <3>1 DEF DyingEnd
    <3>3. At(j - 1, "delete")' /\ i < j - 1
      BY <1>2, <1>7, <3>1, <3>2
    <3> QED BY <3>3
  <2>4. \A p \in dying' : p \in Going' \/ \E i \in 1..Len(wire') : At(i, "delete")' /\ wire'[i].arg = p
    BY <1>2, <1>3, <1>5, <2>1
  <2>5. \A i \in 1..Len(wire') : At(i, "done")' => \E j \in 1..Len(wire') : At(j, "delete")' /\ i < j
    BY <1>2, <2>3
  <2> QED BY <1>3, <2>2, <2>4, <2>5 DEF DyingEnd
<1> QED BY <1>8, <1>9, <1>10, <1>11, <1>12, <1>13

LEMMA ReadDeleteIds ==
  ASSUME FramesTypeOK, IdsIInv, ReadDelete
  PROVE  IdsIInv'
<1> USE DEF IdsIInv
<1>1. Take("delete")
  BY DEF ReadDelete
<1>2. /\ At(1, "delete") /\ wire[1] = Head(wire)
      /\ \A i, k : At(i, k) => i \in 1..Len(wire) /\ i \in Int /\ i >= 1
      /\ \A i, k : At(i, k)' => /\ i \in 1..Len(wire') /\ i \in Int /\ i >= 1
                                /\ At(i + 1, k) /\ wire'[i] = wire[i + 1]
      /\ \A i, k : At(i, k) /\ i # 1 => At(i - 1, k)' /\ wire'[i - 1] = wire[i]
  BY <1>1, HeadTaken
<1> DEFINE o == Head(wire).arg
<1>3. /\ dying' = dying \ {o}
      /\ UNCHANGED <<slots, callback, request, answering, held>>
  BY <1>1 DEF ReadDelete, Take, compositorVars
<1> HIDE DEF o
<1>4. Live' = Live /\ Going' = Going
  BY <1>3 DEF Live, Going
<1>5. /\ o \notin Live /\ o \notin Going
      /\ \A j : At(j, "delete") /\ wire[j].arg = o => j = 1
  BY <1>2 DEF DeletesFit, o
<1>6. \A i : At(i, "done") => i # 1
  BY <1>2 DEF At
<1>7. \A i : At(i, "release") => wire[i].arg # o
  BY <1>2 DEF ReleasesFit, o
<1> HIDE DEF Live, Going
<1>8. IdsApart'
  BY <1>3, <1>4 DEF IdsApart
<1>9. HeldAreKnown'
  BY <1>3, <1>4 DEF HeldAreKnown, HeldIsBusy
<1>10. OneFrame'
  <2>1. \A i : At(i, "done")' => /\ wire'[i].arg = callback /\ callback # 0
                                 /\ request = None /\ answering = {}
                                 /\ \A j : At(j, "done")' => j = i
    BY <1>2 DEF OneFrame
  <2>2. request # None => Going \subseteq dying'
    BY <1>3, <1>5 DEF OneFrame
  <2> QED BY <1>3, <1>4, <2>1, <2>2 DEF OneFrame
<1>11. ReleasesFit'
  <2> SUFFICES ASSUME NEW i, At(i, "release")'
               PROVE  /\ wire'[i].arg \notin held
                      /\ request # None => request.buffer # wire'[i].arg
                      /\ \A s \in Slot : slots[s].obj = wire'[i].arg => slots[s].busy
                      /\ wire'[i].arg \in Live \cup dying'
                      /\ \A j : At(j, "delete")' /\ wire'[j].arg = wire'[i].arg => i < j
                      /\ \A j : At(j, "release")' /\ wire'[j].arg = wire'[i].arg => j = i
    BY <1>3, <1>4 DEF ReleasesFit
  <2>1. At(i + 1, "release") /\ wire'[i] = wire[i + 1] /\ i \in Int /\ i >= 1
    BY <1>2
  <2>2. /\ wire[i + 1].arg \notin held /\ (request # None => request.buffer # wire[i + 1].arg)
        /\ \A s \in Slot : slots[s].obj = wire[i + 1].arg => slots[s].busy
        /\ wire[i + 1].arg \in Live \cup dying
        /\ \A j : At(j, "delete") /\ wire[j].arg = wire[i + 1].arg => i + 1 < j
        /\ \A j : At(j, "release") /\ wire[j].arg = wire[i + 1].arg => j = i + 1
    BY <1>2, <2>1 DEF ReleasesFit
  <2>3. wire[i + 1].arg # o
    BY <1>7, <2>1
  <2>4. \A j : At(j, "delete")' /\ wire'[j].arg = wire'[i].arg => i < j
    BY <1>2, <2>1, <2>2
  <2>5. \A j : At(j, "release")' /\ wire'[j].arg = wire'[i].arg => j = i
    BY <1>2, <2>1, <2>2
  <2> QED BY <1>3, <2>1, <2>2, <2>3, <2>4, <2>5
<1>12. DeletesFit'
  <2> SUFFICES ASSUME NEW i, At(i, "delete")'
               PROVE  /\ wire'[i].arg \notin Live /\ wire'[i].arg \notin Going
                      /\ \/ wire'[i].arg \in dying'
                         \/ wire'[i].arg = callback /\ callback # 0 /\ \E j : At(j, "done")' /\ j < i
                      /\ \A j : At(j, "delete")' /\ wire'[j].arg = wire'[i].arg => j = i
    BY <1>2, <1>3, <1>4 DEF DeletesFit
  <2>1. At(i + 1, "delete") /\ wire'[i] = wire[i + 1] /\ i \in Int /\ i >= 1
    BY <1>2
  <2>2. /\ wire[i + 1].arg \notin Live /\ wire[i + 1].arg \notin Going
        /\ \A j : At(j, "delete") /\ wire[j].arg = wire[i + 1].arg => j = i + 1
    BY <1>2, <2>1 DEF DeletesFit
  <2>3. \A j : At(j, "delete")' /\ wire'[j].arg = wire'[i].arg => j = i
    BY SMTT(30), <1>2, <2>1, <2>2
  <2>4. wire[i + 1].arg # o
    BY <1>5, <2>1
  <2>5. ASSUME wire'[i].arg \notin dying'
        PROVE  wire'[i].arg = callback /\ callback # 0 /\ \E j : At(j, "done")' /\ j < i
    <3>1. PICK j \in 1..Len(wire) : wire[i + 1].arg = callback /\ callback # 0 /\ At(j, "done") /\ j < i + 1
      BY <1>2, <1>3, <2>1, <2>4, <2>5 DEF DeletesFit
    <3>2. At(j - 1, "done")' /\ j - 1 < i
      BY <1>2, <1>6, <2>1, <3>1
    <3> QED BY <2>1, <3>1, <3>2
  <2> QED BY <2>1, <2>2, <2>3, <2>5
<1>13. DyingEnd'
  <2>1. \A p \in dying' : p \in Going \/ \E i : At(i, "delete")' /\ wire'[i].arg = p
    <3> SUFFICES ASSUME NEW p \in dying', p \notin Going
                 PROVE  \E i : At(i, "delete")' /\ wire'[i].arg = p
      OBVIOUS
    <3>1. PICK i \in 1..Len(wire) : At(i, "delete") /\ wire[i].arg = p
      BY <1>3 DEF DyingEnd
    <3>2. i # 1
      BY <1>2, <1>3, <3>1 DEF o
    <3> QED BY <1>2, <3>1, <3>2
  <2>2. ASSUME NEW i, NEW j, At(i, "done")', At(j, "delete")', i < j PROVE wire'[j].arg = callback
    <3>1. At(i + 1, "done") /\ At(j + 1, "delete") /\ i + 1 < j + 1 /\ wire'[j] = wire[j + 1]
      BY <1>2, <2>2
    <3> QED BY <1>2, <3>1 DEF DyingEnd
  <2>3. ASSUME NEW i, At(i, "done")' PROVE \E j : At(j, "delete")' /\ i < j
    <3>1. At(i + 1, "done") /\ i \in Int /\ i >= 1
      BY <1>2, <2>3
    <3>2. PICK j \in 1..Len(wire) : At(j, "delete") /\ i + 1 < j
      BY <1>2, <3>1 DEF DyingEnd
    <3>3. At(j - 1, "delete")' /\ i < j - 1
      BY <1>2, <3>1, <3>2
    <3> QED BY <3>3
  <2>4. \A p \in dying' : p \in Going' \/ \E i \in 1..Len(wire') : At(i, "delete")' /\ wire'[i].arg = p
    BY <1>2, <1>3, <1>4, <2>1
  <2>5. \A i \in 1..Len(wire') : At(i, "done")' => \E j \in 1..Len(wire') : At(j, "delete")' /\ i < j
    BY <1>2, <2>3
  <2>6. callback' = 0 => \A p, q \in dying' : p = q
    BY <1>3 DEF DyingEnd
  <2> QED BY <1>3, <2>2, <2>4, <2>5, <2>6 DEF DyingEnd
<1> QED BY <1>8, <1>9, <1>10, <1>11, <1>12, <1>13

\* Without a callback nothing of a frame is under way, and at most one destroyed
\* object is left.
LEMMA NothingUnderWay ==
  ASSUME IdsIInv, callback = 0
  PROVE  /\ request = None /\ answering = {} /\ Going = {}
         /\ \A i : ~At(i, "done")
         /\ \E d : dying \subseteq {d}
<1> USE DEF IdsIInv
<1>1. request = None /\ answering = {} /\ Going = {}
  BY DEF OneFrame, Going
<1>2. \A i : ~At(i, "done")
  BY DEF OneFrame, At
<1>3. \E d : dying \subseteq {d}
  <2>1. CASE dying = {}
    BY <2>1
  <2>2. CASE dying # {}
    BY <2>2 DEF DyingEnd
  <2> QED BY <2>1, <2>2
<1> QED BY <1>1, <1>2, <1>3

SameObjects(buffers) ==
  /\ buffers \in [Slot -> Buffer]
  /\ \A s \in Slot : buffers[s].obj = slots[s].obj /\ buffers[s].busy = slots[s].busy

\* A frame in buffers that are there already: the first that is not busy.
LEMMA RepaintIds ==
  ASSUME FramesTypeOK, IdsIInv, callback = 0, NEW slot \in Slot, ~slots[slot].busy,
         slots[1].obj # 0,
         \A s \in Slot : /\ slots'[s].obj = slots[s].obj
                         /\ slots'[s].busy <=> slots[s].busy \/ s = slot,
         callback' \notin Live \cup dying \cup {0}, request' # None,
         request'.buffer = slots[slot].obj, request'.callback = callback', request'.destroyed = <<>>,
         UNCHANGED <<wire, held, answering, dying>>
  PROVE  IdsIInv'
<1> USE DEF IdsIInv
<1>1. /\ request = None /\ answering = {} /\ Going = {}
      /\ \A i : ~At(i, "done")
  BY NothingUnderWay
<1>2. Live' = Live /\ Going' = {} /\ slots[1].obj \in Live /\ slots[2].obj \in Live /\ slots[1].obj # slots[2].obj
  BY DEF Live, Going, Slot, IdsApart
<1>3. \A i, k : At(i, k)' <=> At(i, k)
  BY DEF At
<1>4. slots[slot].obj \in Live /\ slots[slot].obj \notin held
  BY <1>2 DEF Slot, HeldAreKnown, HeldIsBusy, Live
<1> HIDE DEF Live, Going
<1>5. IdsApart'
  BY <1>2 DEF IdsApart, Slot
<1>6. OneFrame'
  BY <1>1, <1>2, <1>3, <1>4 DEF OneFrame
<1>7. HeldAreKnown'
  <2>1. HeldIsBusy'
    BY <1>2 DEF HeldAreKnown, HeldIsBusy, Slot
  <2> QED BY <1>1, <1>2, <1>4, <2>1 DEF HeldAreKnown
<1>8. ReleasesFit'
  <2> SUFFICES ASSUME NEW i \in 1..Len(wire), At(i, "release")
               PROVE  /\ wire[i].arg \notin held
                      /\ slots[slot].obj # wire[i].arg
                      /\ \A s \in Slot : slots[s].obj = wire[i].arg => slots'[s].busy
                      /\ wire[i].arg \in Live \cup dying
                      /\ \A j \in 1..Len(wire) : At(j, "delete") /\ wire[j].arg = wire[i].arg => i < j
                      /\ \A j \in 1..Len(wire) : At(j, "release") /\ wire[j].arg = wire[i].arg => j = i
    BY <1>2, <1>3 DEF ReleasesFit
  <2> QED BY <1>4 DEF ReleasesFit
<1>9. DeletesFit'
  BY <1>1, <1>2, <1>3 DEF DeletesFit
<1>10. DyingEnd'
  BY <1>1, <1>2, <1>3 DEF DyingEnd
<1> QED BY <1>5, <1>6, <1>7, <1>8, <1>9, <1>10

\* A frame in new buffers: those that were there are destroyed.
LEMMA RebuildIds ==
  ASSUME FramesTypeOK, IdsIInv, callback = 0,
         slots'[1].obj \notin Live \cup dying \cup {0},
         slots'[2].obj \notin Live \cup dying \cup {0, slots'[1].obj},
         callback' \notin Live \cup dying \cup {0, slots'[1].obj, slots'[2].obj},
         slots'[1].busy, request' # None,
         request'.buffer = slots'[1].obj, request'.callback = callback',
         request'.destroyed = IF slots[1].obj # 0 THEN <<slots[1].obj, slots[2].obj>> ELSE <<>>,
         dying' = dying \cup Live,
         UNCHANGED <<wire, held, answering>>
  PROVE  IdsIInv'
<1> USE DEF IdsIInv
<1>1. /\ request = None /\ answering = {} /\ Going = {}
      /\ \A i : ~At(i, "done")
  BY NothingUnderWay
<1>2. /\ Live' = {slots'[1].obj, slots'[2].obj}
      /\ Going' = Live
      /\ \A i, j \in 1..Len(request'.destroyed) : request'.destroyed[i] = request'.destroyed[j] => i = j
  <2>1. Live' = {slots'[1].obj, slots'[2].obj}
    BY DEF Live
  <2>2. CASE slots[1].obj = 0
    BY <2>1, <2>2 DEF Live, Going, IdsApart
  <2>3. CASE slots[1].obj # 0
    <3>1. slots[1].obj # slots[2].obj /\ slots[2].obj # 0
      BY <2>3 DEF IdsApart
    <3>2. 1..Len(request'.destroyed) = {1, 2} /\ request'.destroyed[1] = slots[1].obj /\ request'.destroyed[2] = slots[2].obj
      BY <2>3
    <3>3. Going' = {slots[1].obj, slots[2].obj}
      BY <3>2 DEF Going
    <3> QED BY <2>1, <2>3, <3>1, <3>2, <3>3 DEF Live
  <2> QED BY <2>2, <2>3
<1>3. \A i, k : At(i, k)' <=> At(i, k)
  BY DEF At
<1>4. held \subseteq Live /\ 0 \notin Live
  BY <1>1 DEF HeldAreKnown, Live
<1> HIDE DEF Live, Going
<1>5. IdsApart'
  BY <1>2 DEF IdsApart
<1>6. OneFrame'
  BY <1>1, <1>2, <1>3 DEF OneFrame
<1>7. HeldAreKnown'
  <2>1. HeldIsBusy'
    BY <1>2, <1>4 DEF HeldIsBusy, Slot
  <2> QED BY <1>2, <1>4, <2>1 DEF HeldAreKnown
<1>8. ReleasesFit'
  <2> SUFFICES ASSUME NEW i \in 1..Len(wire), At(i, "release")
               PROVE  /\ wire[i].arg \notin held
                      /\ slots'[1].obj # wire[i].arg
                      /\ \A s \in Slot : slots'[s].obj = wire[i].arg => slots'[s].busy
                      /\ wire[i].arg \in Live' \cup dying'
                      /\ \A j \in 1..Len(wire) : At(j, "delete") /\ wire[j].arg = wire[i].arg => i < j
                      /\ \A j \in 1..Len(wire) : At(j, "release") /\ wire[j].arg = wire[i].arg => j = i
    BY <1>2, <1>3 DEF ReleasesFit
  <2>1. wire[i].arg \in Live \cup dying
    BY DEF ReleasesFit
  <2> QED BY <2>1 DEF ReleasesFit, Slot
<1>9. DeletesFit'
  <2> SUFFICES ASSUME NEW i \in 1..Len(wire), At(i, "delete")
               PROVE  /\ wire[i].arg \notin Live' /\ wire[i].arg \notin Live
                      /\ wire[i].arg \in dying'
                      /\ \A j \in 1..Len(wire) : At(j, "delete") /\ wire[j].arg = wire[i].arg => j = i
    BY <1>2, <1>3 DEF DeletesFit
  <2>1. wire[i].arg \in dying
    BY DEF DeletesFit
  <2> QED BY <1>2, <2>1 DEF DeletesFit
<1>10. DyingEnd'
  <2>1. \A o \in dying : \E i \in 1..Len(wire) : At(i, "delete") /\ wire[i].arg = o
    BY <1>1 DEF DyingEnd
  <2> QED BY <1>1, <1>2, <1>3, <2>1 DEF DyingEnd
<1> QED BY <1>5, <1>6, <1>7, <1>8, <1>9, <1>10

Made(buffers) == IF Rebuilds THEN FreshSlots ELSE buffers

Painted(made, slot, full) ==
  LET charged == Charged(made, IF full THEN All ELSE Meters)
  IN  [charged EXCEPT ![slot] = Paid(charged[slot])]

\* What Present does when it finds a free buffer.
Paints(made, slot, full) ==
  /\ slots' = Painted(made, slot, full)
  /\ dims' = DeviceSize
  /\ dying' = dying \cup {Destroyed[i] : i \in 1..Len(Destroyed)}
  /\ callback' = NewId(Used \cup {made[s].obj : s \in Slot})
  /\ request' = [buffer |-> slots'[slot].obj, callback |-> callback',
                 destroyed |-> Destroyed,
                 size |-> DeviceSize,
                 window |-> IF pending THEN width ELSE Shown.window,
                 destination |-> IF Rebuilds THEN width ELSE Shown.destination,
                 whole |-> slots'[slot].body /\ slots'[slot].bars]
  /\ pending' = FALSE
  /\ dirty' = [full |-> FALSE, meters |-> FALSE]

LEMMA PresentPaints ==
  ASSUME NEW buffers, NEW full, NEW bars, Present(buffers, full, bars)
  PROVE  \/ Skip(buffers, full, bars)
         \/ \E slot \in Slot : /\ ~Made(buffers)[slot].busy
                               /\ Rebuilds => slot = 1
                               /\ Paints(Made(buffers), slot, full)
<1> DEFINE made == Made(buffers)
           free == {s \in Slot : ~made[s].busy}
           slot == IF 1 \in free THEN 1 ELSE 2
<1>1. CASE free = {}
  BY <1>1 DEF Present, Skipped, Made
<1>2. CASE free # {}
  <2>1. slot \in Slot /\ slot \in free
    BY <1>2 DEF Slot
  <2>2. Rebuilds => slot = 1
    BY DEF Made, FreshSlots, Slot
  <2>3. Paints(made, slot, full)
    BY <1>2 DEF Present, Paints, Made, Painted
  <2> HIDE DEF made, slot
  <2>4. ~made[slot].busy
    BY <2>1
  <2> QED BY <2>1, <2>2, <2>3, <2>4 DEF made
<1> QED BY <1>1, <1>2

LEMMA PaintedSlots ==
  ASSUME NEW made \in [Slot -> Buffer], NEW slot \in Slot, NEW full \in BOOLEAN
  PROVE  /\ Painted(made, slot, full) \in [Slot -> Buffer]
         /\ \A s \in Slot \ {slot} :
              LET now == Painted(made, slot, full)[s]
              IN  /\ now.obj = made[s].obj /\ now.busy = made[s].busy /\ now.body = made[s].body
                  /\ now.owed = Wider(made[s].owed, IF full THEN All ELSE Meters)
         /\ LET now == Painted(made, slot, full)[slot]
            IN  /\ now.obj = made[slot].obj /\ now.busy /\ now.bars
                /\ now.body <=> made[slot].body \/ full \/ made[slot].owed = All
<1> DEFINE charged == Charged(made, IF full THEN All ELSE Meters)
<1>1. \A a, b \in 0..2 : Wider(a, b) \in 0..2
  BY DEF Wider
<1>2. (IF full THEN All ELSE Meters) \in 0..2
  BY DEF All, Meters
<1>3. /\ charged \in [Slot -> Buffer]
      /\ \A s \in Slot : /\ charged[s].obj = made[s].obj /\ charged[s].busy = made[s].busy
                         /\ charged[s].body = made[s].body
                         /\ charged[s].owed = Wider(made[s].owed, IF full THEN All ELSE Meters)
  BY <1>1, <1>2 DEF Charged, Buffer
<1>4. Painted(made, slot, full) = [charged EXCEPT ![slot] = Paid(charged[slot])]
  BY DEF Painted
<1> HIDE DEF charged
<1>5. charged[slot] \in Buffer
  BY <1>3
<1> DEFINE paid == Paid(charged[slot])
<1>6. /\ paid.obj = charged[slot].obj /\ paid.busy /\ paid.bars /\ paid.owed = 0
      /\ paid.body <=> charged[slot].body \/ charged[slot].owed = All
      /\ paid \in Buffer
  <2> HIDE DEF charged
  <2>1. /\ paid.obj = charged[slot].obj /\ paid.busy /\ paid.bars /\ paid.owed = 0
        /\ paid.body = (charged[slot].body \/ charged[slot].owed = All)
    BY <1>5 DEF Paid, Buffer, Nothing
  <2>2. PICK b \in BOOLEAN : b = (charged[slot].body \/ charged[slot].owed = All)
    OBVIOUS
  <2>3. PICK c : c = charged[slot]
    OBVIOUS
  <2>4. paid = [c EXCEPT !.owed = Nothing, !.busy = TRUE, !.bars = TRUE, !.body = b]
    BY <2>2, <2>3, Zenon DEF Paid
  <2> HIDE DEF paid
  <2>5. 0 \in 0..2
    OBVIOUS
  <2>6. c \in [obj : Nat, busy : BOOLEAN, owed : 0..2, body : BOOLEAN, bars : BOOLEAN]
    BY <1>5, <2>3 DEF Buffer
  <2>7. paid \in [obj : Nat, busy : BOOLEAN, owed : 0..2, body : BOOLEAN, bars : BOOLEAN]
    BY <2>4, <2>5, <2>6 DEF Nothing
  <2> QED BY <2>1, <2>7 DEF Buffer
<1> HIDE DEF paid
<1>7. /\ Painted(made, slot, full) \in [Slot -> Buffer]
      /\ Painted(made, slot, full)[slot] = paid
      /\ \A s \in Slot \ {slot} : Painted(made, slot, full)[s] = charged[s]
  BY <1>3, <1>4, <1>6 DEF paid
<1>8. made[slot].owed \in 0..2
  BY DEF Buffer
<1>9. charged[slot].owed = All <=> full \/ made[slot].owed = All
  BY <1>3, <1>8 DEF Wider, All, Meters
<1> QED BY <1>3, <1>6, <1>7, <1>9

LEMMA FreshAreNew ==
  ASSUME FramesTypeOK, IdsIInv, callback = 0
  PROVE  /\ FreshSlots \in [Slot -> Buffer]
         /\ FreshSlots[1].obj \notin Live \cup dying \cup {0}
         /\ FreshSlots[2].obj \notin Live \cup dying \cup {0, FreshSlots[1].obj}
         /\ \A s \in Slot : FreshSlots[s].owed = All /\ ~FreshSlots[s].busy
         /\ LET cb == NewId(Used \cup {FreshSlots[s].obj : s \in Slot})
            IN  cb \in Nat /\ cb \notin Live \cup dying \cup {0, FreshSlots[1].obj, FreshSlots[2].obj}
         /\ LET cb == NewId(Used \cup {slots[s].obj : s \in Slot})
            IN  cb \in Nat /\ cb \notin Live \cup dying \cup {0}
<1>1. PICK d : dying \subseteq {d}
  BY NothingUnderWay
<1>2. Used \subseteq {slots[1].obj, slots[2].obj, d, 0} /\ Live \cup dying \subseteq Used
  BY <1>1 DEF Used, Slot, Live
<1> DEFINE first == NewId(Used) second == NewId(Used \cup {first})
<1>3. ASSUME NEW taken, NEW f, NEW g, taken \subseteq Used \cup {f, g, 0}
      PROVE  NewId(taken) \notin taken /\ NewId(taken) \in Nat \ {0}
  <2>1. taken \subseteq {slots[1].obj, slots[2].obj, d, f, g, 0}
    BY <1>2, <1>3
  <2> QED BY <2>1, NewIdIsNew
<1> HIDE DEF first, second
<1>4. /\ first \notin Used /\ first \in Nat \ {0}
      /\ second \notin Used \cup {first} /\ second \in Nat \ {0}
  BY <1>3 DEF first, second
<1>5. /\ FreshSlots \in [Slot -> Buffer]
      /\ FreshSlots[1].obj = first /\ FreshSlots[2].obj = second
      /\ \A s \in Slot : FreshSlots[s].owed = All /\ ~FreshSlots[s].busy
  BY <1>4 DEF first, second, FreshSlots, Slot, Buffer, All
<1>6. LET cb == NewId(Used \cup {FreshSlots[s].obj : s \in Slot})
      IN  cb \in Nat /\ cb \notin Live \cup dying \cup {0, FreshSlots[1].obj, FreshSlots[2].obj}
  <2> DEFINE taken == Used \cup {FreshSlots[s].obj : s \in Slot}
  <2>1. taken \subseteq Used \cup {first, second, 0}
    BY <1>5 DEF Slot
  <2>2. first \in taken /\ second \in taken /\ Live \cup dying \subseteq taken
    BY <1>2, <1>5 DEF Slot
  <2> HIDE DEF taken
  <2>3. NewId(taken) \notin taken /\ NewId(taken) \in Nat \ {0}
    BY <1>3, <2>1
  <2> QED BY <1>5, <2>2, <2>3 DEF taken
<1>7. LET cb == NewId(Used \cup {slots[s].obj : s \in Slot})
      IN  cb \in Nat /\ cb \notin Live \cup dying \cup {0}
  <2> DEFINE taken == Used \cup {slots[s].obj : s \in Slot}
  <2>1. taken \subseteq Used \cup {0} /\ Live \cup dying \subseteq taken
    BY <1>2 DEF Slot, Used
  <2> HIDE DEF taken
  <2>2. NewId(taken) \notin taken /\ NewId(taken) \in Nat \ {0}
    BY <1>3, <2>1
  <2> QED BY <2>1, <2>2 DEF taken
<1> QED BY <1>2, <1>4, <1>5, <1>6, <1>7

LEMMA SkipIds ==
  ASSUME FramesTypeOK, IdsIInv, NEW buffers, SameObjects(buffers), NEW full, NEW bars,
         Skip(buffers, full, bars), UNCHANGED <<wire, held, answering>>
  PROVE  IdsIInv'
<1>1. Shifted(Traced, 0)
  BY ShiftedByNothing
<1>2. SlotsStand
  BY DEF Skip, SameObjects, SlotsStand
<1>3. UNCHANGED <<callback, dying, request, answering, held>>
  BY DEF Skip
<1> QED BY <1>1, <1>2, <1>3, IdsStand

LEMMA PaintsAFrame ==
  ASSUME FramesTypeOK, NEW made \in [Slot -> Buffer], NEW slot \in Slot, NEW full \in BOOLEAN,
         Paints(made, slot, full), callback' \in Nat
  PROVE  request' \in Frame /\ request' # None
<1>1. slots' \in [Slot -> Buffer]
  BY PaintedSlots DEF Paints
<1>2. Destroyed \in Seq(Nat)
  BY DEF Destroyed, FramesTypeOK, Slot, Buffer
<1>3. Shown.window \in Nat /\ Shown.destination \in Nat
  <2>1. CASE screen = None
    BY <2>1 DEF Shown
  <2>2. CASE screen # None
    BY <2>2 DEF Shown, FramesTypeOK, Frame
  <2> QED BY <2>1, <2>2
<1>4. DeviceSize \in Nat /\ width \in Nat
  BY DEF DeviceSize, FramesTypeOK
<1>5. slots'[slot].obj \in Nat /\ (slots'[slot].body /\ slots'[slot].bars) \in BOOLEAN
  BY <1>1 DEF Buffer
<1>6. request' \in Frame
  BY <1>2, <1>3, <1>4, <1>5 DEF Paints, Frame
<1> QED BY <1>6, NoneAssumption DEF Frame

LEMMA PresentIds ==
  ASSUME FramesTypeOK, IdsIInv, callback = 0, NEW buffers, SameObjects(buffers),
         NEW full \in BOOLEAN, NEW bars, Present(buffers, full, bars), UNCHANGED <<wire, held, answering>>
  PROVE  IdsIInv'
<1>1. CASE Skip(buffers, full, bars)
  BY <1>1, SkipIds
<1>2. ASSUME NEW slot \in Slot, ~Made(buffers)[slot].busy, Rebuilds => slot = 1,
             Paints(Made(buffers), slot, full)
      PROVE  IdsIInv'
  <2>1. Made(buffers) \in [Slot -> Buffer]
    BY FreshAreNew DEF Made, SameObjects
  <2>2. \A s \in Slot : /\ slots'[s].obj = Made(buffers)[s].obj
                        /\ slots'[s].busy <=> Made(buffers)[s].busy \/ s = slot
    BY <1>2, <2>1, PaintedSlots DEF Paints
  <2>3. /\ request' # None
        /\ request'.buffer = slots'[slot].obj /\ request'.callback = callback'
        /\ request'.destroyed = Destroyed
        /\ callback' = NewId(Used \cup {Made(buffers)[s].obj : s \in Slot})
        /\ dying' = dying \cup {Destroyed[i] : i \in 1..Len(Destroyed)}
    <3>1. {Made(buffers)[s].obj : s \in Slot} \in {{FreshSlots[s].obj : s \in Slot}, {slots[s].obj : s \in Slot}}
      BY DEF Made, SameObjects
    <3>2. callback' \in Nat
      BY <1>2, <3>1, FreshAreNew DEF Paints
    <3>3. request' # None
      BY <1>2, <2>1, <3>2, PaintsAFrame
    <3> QED BY <1>2, <3>3 DEF Paints
  <2>4. CASE Rebuilds
    <3>1. Made(buffers) = FreshSlots /\ slot = 1
      BY <1>2, <2>4 DEF Made
    <3>2. /\ Destroyed = IF slots[1].obj # 0 THEN <<slots[1].obj, slots[2].obj>> ELSE <<>>
          /\ {Destroyed[i] : i \in 1..Len(Destroyed)} = Live
      BY <2>4 DEF Destroyed, Live, IdsIInv, IdsApart
    <3>3. /\ slots'[1].obj \notin Live \cup dying \cup {0}
          /\ slots'[2].obj \notin Live \cup dying \cup {0, slots'[1].obj}
          /\ callback' \notin Live \cup dying \cup {0, slots'[1].obj, slots'[2].obj}
      BY <2>2, <2>3, <3>1, FreshAreNew DEF Slot
    <3>4. slots'[1].busy
      BY <2>2, <3>1
    <3> HIDE DEF Live
    <3> QED BY <2>3, <3>1, <3>2, <3>3, <3>4, RebuildIds
  <2>5. CASE ~Rebuilds
    <3>1. /\ Made(buffers) = buffers /\ slots[1].obj # 0
          /\ Destroyed = <<>> /\ dying' = dying
      BY <2>3, <2>5 DEF Made, Rebuilds, Destroyed
    <3>2. {Made(buffers)[s].obj : s \in Slot} = {slots[s].obj : s \in Slot}
      BY <3>1 DEF SameObjects
    <3>3. callback' \notin Live \cup dying \cup {0}
      BY <2>3, <3>2, FreshAreNew
    <3>4. \A s \in Slot : slots'[s].obj = slots[s].obj /\ (slots'[s].busy <=> slots[s].busy \/ s = slot)
      BY <2>2, <3>1 DEF SameObjects
    <3>5. ~slots[slot].busy
      BY <1>2, <3>1 DEF SameObjects
    <3> QED BY <2>3, <3>1, <3>3, <3>4, <3>5, RepaintIds
  <2> QED BY <2>4, <2>5
<1> QED BY <1>1, <1>2, PresentPaints

Faded(redrawn, moved) ==
  [s \in Slot |-> [slots[s] EXCEPT !.body = @ /\ ~redrawn, !.bars = @ /\ ~moved]]

\* The frame, or none, at the end of a turn.
LEMMA FinishPresents ==
  ASSUME FramesTypeOK, NEW edited, NEW folded, NEW up, NEW on, Finish(edited, folded, up, on)
  PROVE  /\ \E redrawn, moved \in BOOLEAN :
              LET full == dirty.full \/ redrawn
                  bars == dirty.meters \/ moved
              IN  \/ callback = 0 /\ configured /\ Present(Faded(redrawn, moved), full, bars)
                  \/ /\ ~(callback = 0 /\ configured /\ (full \/ bars))
                     /\ Skip(Faded(redrawn, moved), full, bars)
         /\ UNCHANGED <<wire, asked, preferred, held, answering, screen, hidden, configured, width, scale>>
<1>1. PICK redrawn \in BOOLEAN : redrawn = (mail \/ fading)
  OBVIOUS
<1>2. PICK moved \in BOOLEAN : moved = (meters' = "armed" /\ (roused \/ meters = "ripe"))
  OBVIOUS
<1>3. /\ LET full == dirty.full \/ redrawn
             bars == dirty.meters \/ moved
         IN  IF callback = 0 /\ configured /\ (full \/ bars)
             THEN Present(Faded(redrawn, moved), full, bars)
             ELSE Skip(Faded(redrawn, moved), full, bars)
      /\ UNCHANGED <<wire, asked, preferred, held, answering, screen, hidden, configured, width, scale>>
  BY <1>1, <1>2, Zenon DEF Finish, Faded
<1> QED BY <1>3

LEMMA FadedStand ==
  ASSUME FramesTypeOK, NEW redrawn \in BOOLEAN, NEW moved \in BOOLEAN
  PROVE  /\ SameObjects(Faded(redrawn, moved))
         /\ \A s \in Slot : /\ Faded(redrawn, moved)[s].owed = slots[s].owed
                            /\ Faded(redrawn, moved)[s].body <=> slots[s].body /\ ~redrawn
<1>1. \A s \in Slot : slots[s] \in Buffer
  BY DEF FramesTypeOK
<1>2. \A s \in Slot : Faded(redrawn, moved)[s] \in Buffer
  BY <1>1 DEF Faded, Buffer
<1>3. Faded(redrawn, moved) \in [Slot -> Buffer]
  BY <1>2 DEF Faded
<1> QED BY <1>1, <1>3 DEF Faded, SameObjects, Buffer

LEMMA FinishIds ==
  ASSUME FramesTypeOK, IdsIInv, NEW edited, NEW folded, NEW up, NEW on, Finish(edited, folded, up, on)
  PROVE  IdsIInv'
<1>1. PICK redrawn \in BOOLEAN, moved \in BOOLEAN :
        LET full == dirty.full \/ redrawn
            bars == dirty.meters \/ moved
        IN  \/ callback = 0 /\ configured /\ Present(Faded(redrawn, moved), full, bars)
            \/ Skip(Faded(redrawn, moved), full, bars)
  BY FinishPresents
<1>2. SameObjects(Faded(redrawn, moved))
  BY FadedStand
<1>3. (dirty.full \/ redrawn) \in BOOLEAN /\ UNCHANGED <<wire, held, answering>>
  BY FinishPresents
<1> QED BY <1>1, <1>2, <1>3, PresentIds, SkipIds

-----------------------------------------------------------------------------
LEMMA RedrawnDoes ==
  ASSUME FramesTypeOK, NEW change \in BOOLEAN, Redrawn(change)
  PROVE  /\ dirty' \in [full : BOOLEAN, meters : BOOLEAN]
         /\ dirty'.full <=> dirty.full \/ change
         /\ SameObjects(slots')
         /\ \A s \in Slot : /\ slots'[s].owed = slots[s].owed
                            /\ slots'[s].body <=> slots[s].body /\ ~change
<1>1. \A s \in Slot : slots[s] \in Buffer
  BY DEF FramesTypeOK
<1>2. \A s \in Slot : slots'[s] \in Buffer
  BY <1>1 DEF Redrawn, Buffer
<1>3. slots' \in [Slot -> Buffer]
  BY <1>2 DEF Redrawn
<1>4. \A s \in Slot : /\ slots'[s].obj = slots[s].obj /\ slots'[s].busy = slots[s].busy
                      /\ slots'[s].owed = slots[s].owed
                      /\ slots'[s].body <=> slots[s].body /\ ~change
  BY <1>1 DEF Redrawn, Buffer
<1>5. dirty' \in [full : BOOLEAN, meters : BOOLEAN] /\ (dirty'.full <=> dirty.full \/ change)
  BY DEF Redrawn, FramesTypeOK
<1> QED BY <1>3, <1>4, <1>5 DEF SameObjects

LEMMA SendsTypes ==
  ASSUME FramesTypeOK, NEW events \in Seq(Events), wire' = wire \o events
  PROVE  wire' \in Seq(Events)
BY DEF FramesTypeOK

LEMMA CompositorTypes ==
  ASSUME FramesTypeOK, IdsIInv, CompositorStep
  PROVE  FramesTypeOK'
<1> USE DEF FramesTypeOK
<1>1. ASSUME NEW w \in Width, Configure(w) PROVE FramesTypeOK'
  <2>1. <<Event("toplevel", w), Event("configure", 0)>> \in Seq(Events) /\ w \in Nat
    BY WidthAssumption DEF Event, Events
  <2> QED BY <1>1, <2>1, SendsTypes DEF Configure, Sends, windowVars, paintVars
<1>2. ASSUME NEW s \in Scale, PreferScale(s) PROVE FramesTypeOK'
  <2>1. <<Event("scale", s)>> \in Seq(Events) /\ s \in Nat
    BY ScaleAssumption DEF Event, Events
  <2> QED BY <1>2, <2>1, SendsTypes DEF PreferScale, Sends, windowVars, paintVars
<1>3. ASSUME Receive PROVE FramesTypeOK'
  <2> DEFINE ends == [i \in 1..Len(request.destroyed) |-> Event("delete", request.destroyed[i])]
  <2>1. request \in Frame
    BY <1>3 DEF Receive
  <2>2. request.destroyed \in Seq(Nat)
    BY <2>1 DEF Frame
  <2>3. ends \in Seq(Events)
    BY <2>2 DEF Event, Events
  <2>4. wire' = wire \o ends
    BY <1>3 DEF Receive
  <2> HIDE DEF ends
  <2>5. wire' \in Seq(Events)
    BY <2>3, <2>4, SendsTypes
  <2> QED BY <1>3, <2>1, <2>5 DEF Receive, windowVars, paintVars
<1>4. ASSUME NEW o \in Object, Release(o) PROVE FramesTypeOK'
  <2>1. Event("release", o) \in Events
    BY ObjectAssumption DEF Event, Events
  <2>2. wire' \in Seq(Events)
    BY <1>4, <2>1 DEF Release
  <2> QED BY <1>4, <2>2 DEF Release, windowVars, paintVars
<1>5. ASSUME NEW o \in Object, Answer(o) PROVE FramesTypeOK'
  <2>1. <<Event("done", o), Event("delete", o)>> \in Seq(Events)
    BY ObjectAssumption DEF Event, Events
  <2>2. wire' \in Seq(Events)
    BY <1>5, <2>1, SendsTypes DEF Answer
  <2> QED BY <1>5, <2>2 DEF Answer, windowVars, paintVars
<1>6. ASSUME Hide PROVE FramesTypeOK'
  BY <1>6 DEF Hide, windowVars, paintVars
<1> QED BY <1>1, <1>2, <1>3, <1>4, <1>5, <1>6 DEF CompositorStep

LEMMA ReadTypes ==
  ASSUME FramesTypeOK, IdsIInv, Read
  PROVE  FramesTypeOK'
<1>1. ASSUME NEW on, Take(on)
      PROVE  wire' \in Seq(Events) /\ Head(wire).arg \in Nat
             /\ UNCHANGED <<asked, preferred, request, screen>>
  <2>1. wire' \in Seq(Events) /\ Head(wire) \in Events
    BY <1>1, HeadTaken
  <2> QED BY <1>1, <2>1 DEF Take, compositorVars, Events
<1>2. CASE ReadToplevel
  <2>1. (width' # width) \in BOOLEAN
    OBVIOUS
  <2>2. slots' \in [Slot -> Buffer] /\ dirty' \in [full : BOOLEAN, meters : BOOLEAN]
    BY <1>2, <2>1, RedrawnDoes DEF ReadToplevel, SameObjects
  <2> QED BY <1>1, <1>2, <2>2 DEF ReadToplevel, FramesTypeOK
<1>3. CASE ReadConfigure
  <2>1. slots' \in [Slot -> Buffer] /\ dirty' \in [full : BOOLEAN, meters : BOOLEAN]
    BY <1>3, RedrawnDoes DEF ReadConfigure, SameObjects
  <2> QED BY <1>1, <1>3, <2>1 DEF ReadConfigure, FramesTypeOK
<1>4. CASE ReadScale
  <2>1. (scale' # scale) \in BOOLEAN
    OBVIOUS
  <2>2. slots' \in [Slot -> Buffer] /\ dirty' \in [full : BOOLEAN, meters : BOOLEAN]
    BY <1>4, <2>1, RedrawnDoes DEF ReadScale, SameObjects
  <2> QED BY <1>1, <1>4, <2>2 DEF ReadScale, FramesTypeOK
<1>5. CASE ReadDone
  <2>1. callback' \in Nat /\ dying' \subseteq Nat \ {0}
    <3>1. CASE callback # 0 /\ Head(wire).arg = callback
      <4>1. callback' = 0 /\ dying' = dying \cup {callback}
        BY <1>5, <3>1 DEF ReadDone
      <4>2. callback \in Nat \ {0} /\ dying \subseteq Nat \ {0}
        BY <3>1 DEF FramesTypeOK
      <4> QED BY <4>1, <4>2
    <3>2. CASE ~(callback # 0 /\ Head(wire).arg = callback)
      BY <1>5, <3>2 DEF ReadDone, FramesTypeOK
    <3> QED BY <3>1, <3>2
  <2> QED BY <1>1, <1>5, <2>1 DEF ReadDone, FramesTypeOK, windowVars
<1>6. CASE ReadRelease
  <2>1. \A s \in Slot : slots[s] \in Buffer
    BY DEF FramesTypeOK
  <2>2. \A s \in Slot : slots'[s] \in Buffer
    BY <1>6, <2>1 DEF ReadRelease, Buffer
  <2>3. slots' \in [Slot -> Buffer]
    BY <1>6, <2>2 DEF ReadRelease
  <2> QED BY <1>1, <1>6, <2>3 DEF ReadRelease, FramesTypeOK, windowVars
<1>7. CASE ReadDelete
  BY <1>1, <1>7 DEF ReadDelete, FramesTypeOK, windowVars
<1>8. CASE ReadInput
  <2>1. slots' \in [Slot -> Buffer] /\ dirty' \in [full : BOOLEAN, meters : BOOLEAN]
    BY <1>8, RedrawnDoes DEF ReadInput, SameObjects
  <2> QED BY <1>1, <1>8, <2>1 DEF ReadInput, FramesTypeOK, windowVars
<1> QED BY <1>2, <1>3, <1>4, <1>5, <1>6, <1>7, <1>8 DEF Read

LEMMA FinishTypes ==
  ASSUME FramesTypeOK, IdsIInv, NEW edited, NEW folded, NEW up, NEW on, Finish(edited, folded, up, on)
  PROVE  FramesTypeOK'
<1>1. PICK redrawn \in BOOLEAN, moved \in BOOLEAN :
        LET full == dirty.full \/ redrawn
            bars == dirty.meters \/ moved
        IN  \/ callback = 0 /\ configured /\ Present(Faded(redrawn, moved), full, bars)
            \/ Skip(Faded(redrawn, moved), full, bars)
  BY FinishPresents
<1> DEFINE buffers == Faded(redrawn, moved)
           full == dirty.full \/ redrawn
           bars == dirty.meters \/ moved
<1>2. SameObjects(buffers) /\ full \in BOOLEAN /\ bars \in BOOLEAN
  BY FadedStand
<1>3. UNCHANGED <<wire, asked, preferred, screen, width, scale>>
  BY FinishPresents
<1>4. CASE Skip(buffers, full, bars)
  BY <1>2, <1>3, <1>4 DEF Skip, FramesTypeOK, SameObjects
<1>5. ASSUME callback = 0, NEW slot \in Slot, ~Made(buffers)[slot].busy, Rebuilds => slot = 1,
             Paints(Made(buffers), slot, full)
      PROVE  FramesTypeOK'
  <2> HIDE DEF buffers, full, bars
  <2>1. Made(buffers) \in [Slot -> Buffer]
    BY <1>2, <1>5, FreshAreNew DEF Made, SameObjects
  <2>2. {Made(buffers)[s].obj : s \in Slot} \in {{FreshSlots[s].obj : s \in Slot}, {slots[s].obj : s \in Slot}}
    BY <1>2 DEF Made, SameObjects
  <2>3. callback' \in Nat
    BY <1>5, <2>2, FreshAreNew DEF Paints
  <2>4. request' \in Frame
    BY <1>2, <1>5, <2>1, <2>3, PaintsAFrame
  <2>5. slots' \in [Slot -> Buffer]
    BY <1>2, <1>5, <2>1, PaintedSlots DEF Paints
  <2>6. dying' \subseteq Nat \ {0}
    <3>1. {Destroyed[i] : i \in 1..Len(Destroyed)} \subseteq Nat \ {0}
      BY DEF Destroyed, FramesTypeOK, Slot, Buffer, IdsIInv, IdsApart
    <3> QED BY <1>5, <3>1 DEF Paints, FramesTypeOK
  <2>7. dirty' \in [full : BOOLEAN, meters : BOOLEAN] /\ pending' \in BOOLEAN
    BY <1>5 DEF Paints
  <2> QED BY <1>3, <2>3, <2>4, <2>5, <2>6, <2>7 DEF FramesTypeOK
<1> HIDE DEF buffers, full, bars
<1> QED BY <1>1, <1>2, <1>4, <1>5, PresentPaints DEF buffers, full, bars

LEMMA WakeTypes ==
  ASSUME FramesTypeOK, NEW failed \in BOOLEAN, Wake(failed)
  PROVE  FramesTypeOK'
<1>1. slots' \in [Slot -> Buffer] /\ dirty' \in [full : BOOLEAN, meters : BOOLEAN]
  BY RedrawnDoes DEF Wake, SameObjects
<1> QED BY <1>1 DEF Wake, FramesTypeOK, compositorVars, windowVars

LEMMA AsideTypes ==
  ASSUME FramesTypeOK, (\E on \in Unasked : Input(on)) \/ Sound \/ Post \/ Pass
  PROVE  FramesTypeOK'
<1>1. ASSUME NEW on, Input(on) PROVE FramesTypeOK'
  <2>1. <<Event(on, 0)>> \in Seq(Events)
    BY <1>1 DEF Input, Event, Events
  <2> QED BY <1>1, <2>1, SendsTypes DEF Input, Sends, FramesTypeOK, compositorVars, windowVars, paintVars
<1>2. ASSUME Sound \/ Post \/ Pass PROVE FramesTypeOK'
  BY <1>2 DEF Sound, Post, Pass, FramesTypeOK, compositorVars, windowVars, paintVars
<1> QED BY <1>1, <1>2

LEMMA FramesTypes ==
  ASSUME FramesTypeOK, IdsIInv, [Next]_vars
  PROVE  FramesTypeOK'
<1>1. CASE UNCHANGED vars
  BY <1>1 DEF vars, FramesTypeOK, compositorVars, windowVars, paintVars
<1>2. CASE Turn
  BY <1>2, WakeTypes, ReadTypes, FinishTypes DEF Turn, EndTurn
<1> QED BY <1>1, <1>2, CompositorTypes, AsideTypes DEF Next

-----------------------------------------------------------------------------
\* A step that only sends what is not traced.
LEMMA SendingIds ==
  ASSUME FramesTypeOK, IdsIInv, NEW events \in Seq(Events), wire' = wire \o events,
         \A i \in 1..Len(events) : events[i].on \notin Traced,
         UNCHANGED <<slots, callback, dying, request, answering, held>>
  PROVE  IdsIInv'
<1>1. Shifted(Traced, 0) /\ SlotsStand
  BY ShiftedBySending DEF SlotsStand
<1> QED BY <1>1, IdsStand

LEMMA CompositorIds ==
  ASSUME FramesTypeOK, IdsIInv, CompositorStep
  PROVE  IdsIInv'
<1>1. ASSUME NEW w \in Width, Configure(w) PROVE IdsIInv'
  <2> DEFINE events == <<Event("toplevel", w), Event("configure", 0)>>
  <2>1. events \in Seq(Events) /\ \A i \in 1..Len(events) : events[i].on \notin Traced
    BY WidthAssumption DEF Event, Events, Traced
  <2>2. wire' = wire \o events /\ UNCHANGED <<slots, callback, dying, request, answering, held>>
    BY <1>1 DEF Configure, Sends, paintVars
  <2> HIDE DEF events
  <2> QED BY <2>1, <2>2, SendingIds
<1>2. ASSUME NEW s \in Scale, PreferScale(s) PROVE IdsIInv'
  <2> DEFINE events == <<Event("scale", s)>>
  <2>1. events \in Seq(Events) /\ \A i \in 1..Len(events) : events[i].on \notin Traced
    BY ScaleAssumption DEF Event, Events, Traced
  <2>2. wire' = wire \o events /\ UNCHANGED <<slots, callback, dying, request, answering, held>>
    BY <1>2 DEF PreferScale, Sends, paintVars
  <2> HIDE DEF events
  <2> QED BY <2>1, <2>2, SendingIds
<1>3. ASSUME Hide PROVE IdsIInv'
  <2>1. Shifted(Traced, 0) /\ SlotsStand
    BY <1>3, ShiftedByNothing DEF Hide, SlotsStand, paintVars
  <2> QED BY <1>3, <2>1, IdsStand DEF Hide, paintVars
<1>4. Object \subseteq Nat
  BY ObjectAssumption
<1> QED BY <1>1, <1>2, <1>3, <1>4, ReceiveIds, ReleaseIds, AnswerIds DEF CompositorStep

LEMMA ReadIds ==
  ASSUME FramesTypeOK, IdsIInv, Read
  PROVE  IdsIInv'
<1>1. ASSUME NEW on \in {"toplevel", "configure", "scale", "edit", "hover"}, Take(on), SlotsStand,
             UNCHANGED <<callback, dying>>
      PROVE  IdsIInv'
  <2>1. Shifted(Traced, 1)
    BY <1>1, ShiftedByTaking DEF Take, Traced
  <2> QED BY <1>1, <2>1, IdsStand DEF Take, compositorVars
<1>2. ASSUME NEW change \in BOOLEAN, Redrawn(change) PROVE SlotsStand
  BY <1>2, RedrawnDoes DEF SlotsStand, SameObjects
<1>3. CASE ReadToplevel
  <2>1. SlotsStand
    BY <1>2, <1>3 DEF ReadToplevel
  <2> QED BY <1>1, <1>3, <2>1 DEF ReadToplevel
<1>4. CASE ReadConfigure
  <2>1. SlotsStand
    BY <1>2, <1>4 DEF ReadConfigure
  <2> QED BY <1>1, <1>4, <2>1 DEF ReadConfigure
<1>5. CASE ReadScale
  <2>1. SlotsStand
    BY <1>2, <1>5 DEF ReadScale
  <2> QED BY <1>1, <1>5, <2>1 DEF ReadScale
<1>6. CASE ReadInput
  <2>1. SlotsStand
    BY <1>2, <1>6 DEF ReadInput
  <2> QED BY <1>1, <1>6, <2>1 DEF ReadInput
<1> QED BY <1>3, <1>4, <1>5, <1>6, ReadDoneIds, ReadReleaseIds, ReadDeleteIds DEF Read

LEMMA AsideIds ==
  ASSUME FramesTypeOK, IdsIInv, (\E on \in Unasked : Input(on)) \/ Sound \/ Post \/ Pass
  PROVE  IdsIInv'
<1>1. ASSUME NEW on, Input(on) PROVE IdsIInv'
  <2> DEFINE events == <<Event(on, 0)>>
  <2>1. events \in Seq(Events) /\ \A i \in 1..Len(events) : events[i].on \notin Traced
    BY <1>1 DEF Input, Event, Events, Traced
  <2>2. wire' = wire \o events /\ UNCHANGED <<slots, callback, dying, request, answering, held>>
    BY <1>1 DEF Input, Sends, compositorVars, paintVars
  <2> HIDE DEF events
  <2> QED BY <2>1, <2>2, SendingIds
<1>2. ASSUME Sound \/ Post \/ Pass PROVE IdsIInv'
  <2>1. UNCHANGED <<wire, slots, callback, dying, request, answering, held>>
    BY <1>2 DEF Sound, Post, Pass, compositorVars, paintVars
  <2>2. Shifted(Traced, 0) /\ SlotsStand
    BY <2>1, ShiftedByNothing DEF SlotsStand
  <2> QED BY <2>1, <2>2, IdsStand
<1> QED BY <1>1, <1>2

LEMMA FramesIds ==
  ASSUME FramesTypeOK, IdsIInv, [Next]_vars
  PROVE  IdsIInv'
<1>1. CASE UNCHANGED vars
  <2>1. UNCHANGED <<wire, slots, callback, dying, request, answering, held>>
    BY <1>1 DEF vars, compositorVars, paintVars
  <2>2. Shifted(Traced, 0) /\ SlotsStand
    BY <2>1, ShiftedByNothing DEF SlotsStand
  <2> QED BY <2>1, <2>2, IdsStand
<1>2. ASSUME NEW failed \in BOOLEAN, Wake(failed) PROVE IdsIInv'
  <2>1. UNCHANGED <<wire, callback, dying, request, answering, held>>
    BY <1>2 DEF Wake, compositorVars
  <2>2. SlotsStand
    BY <1>2, RedrawnDoes DEF Wake, SlotsStand, SameObjects
  <2> QED BY <2>1, <2>2, ShiftedByNothing, IdsStand
<1>3. CASE Turn
  BY <1>2, <1>3, ReadIds, FinishIds DEF Turn, EndTurn
<1> QED BY <1>1, <1>3, CompositorIds, AsideIds DEF Next

-----------------------------------------------------------------------------
\* The end of a turn, by its cases: no frame, or one painted into a buffer that
\* is free.
LEMMA FinishPaints ==
  ASSUME FramesTypeOK, IdsIInv, NEW edited, NEW folded, NEW up, NEW on, Finish(edited, folded, up, on)
  PROVE  /\ \E redrawn, moved \in BOOLEAN :
              LET buffers == Faded(redrawn, moved)
                  full    == dirty.full \/ redrawn
                  bars    == dirty.meters \/ moved
              IN  \/ Skip(buffers, full, bars)
                  \/ /\ callback = 0 /\ configured /\ request = None
                     /\ \E slot \in Slot :
                          /\ ~Made(buffers)[slot].busy /\ Made(buffers) \in [Slot -> Buffer]
                          /\ Paints(Made(buffers), slot, full)
                          /\ request' \in Frame /\ request' # None
         /\ UNCHANGED <<wire, asked, preferred, screen, configured, width, scale>>
<1>1. PICK redrawn \in BOOLEAN, moved \in BOOLEAN :
        LET full == dirty.full \/ redrawn
            bars == dirty.meters \/ moved
        IN  \/ callback = 0 /\ configured /\ Present(Faded(redrawn, moved), full, bars)
            \/ Skip(Faded(redrawn, moved), full, bars)
  BY FinishPresents
<1> DEFINE buffers == Faded(redrawn, moved)
           full == dirty.full \/ redrawn
           bars == dirty.meters \/ moved
<1>2. SameObjects(buffers) /\ full \in BOOLEAN /\ bars \in BOOLEAN
  BY FadedStand
<1>3. UNCHANGED <<wire, asked, preferred, screen, configured, width, scale>>
  BY FinishPresents
<1>4. ASSUME callback = 0, NEW slot \in Slot, ~Made(buffers)[slot].busy, Rebuilds => slot = 1,
             Paints(Made(buffers), slot, full)
      PROVE  Made(buffers) \in [Slot -> Buffer] /\ request' \in Frame /\ request' # None /\ request = None
  <2> HIDE DEF buffers, full, bars
  <2>1. Made(buffers) \in [Slot -> Buffer]
    BY <1>2, <1>4, FreshAreNew DEF Made, SameObjects
  <2>2. {Made(buffers)[s].obj : s \in Slot} \in {{FreshSlots[s].obj : s \in Slot}, {slots[s].obj : s \in Slot}}
    BY <1>2 DEF Made, SameObjects
  <2>3. callback' \in Nat
    BY <1>4, <2>2, FreshAreNew DEF Paints
  <2> QED BY <1>2, <1>4, <2>1, <2>3, PaintsAFrame, NothingUnderWay
<1> HIDE DEF buffers, full, bars
<1>5. \/ Skip(buffers, full, bars)
      \/ /\ callback = 0 /\ configured
         /\ \E slot \in Slot : /\ ~Made(buffers)[slot].busy
                               /\ Rebuilds => slot = 1
                               /\ Paints(Made(buffers), slot, full)
  BY <1>1, <1>2, PresentPaints DEF buffers, full, bars
<1>6. \/ Skip(buffers, full, bars)
      \/ /\ callback = 0 /\ configured /\ request = None
         /\ \E slot \in Slot : /\ ~Made(buffers)[slot].busy /\ Made(buffers) \in [Slot -> Buffer]
                               /\ Paints(Made(buffers), slot, full)
                               /\ request' \in Frame /\ request' # None
  BY <1>4, <1>5
<1> QED BY <1>3, <1>6 DEF buffers, full, bars

LEMMA BodyStands ==
  ASSUME BodyIsOwed, FramesWhole,
         dirty' = dirty, \A s \in Slot : slots'[s].body = slots[s].body /\ slots'[s].owed = slots[s].owed,
         \/ UNCHANGED <<request, screen>>
         \/ request' = None /\ screen' = request
  PROVE  BodyIsOwed' /\ FramesWhole'
<1>1. BodyIsOwed'
  BY DEF BodyIsOwed
<1>2. FramesWhole'
  BY DEF FramesWhole
<1> QED BY <1>1, <1>2

LEMMA BodyRedrawn ==
  ASSUME FramesTypeOK, BodyIsOwed, FramesWhole, NEW change \in BOOLEAN, Redrawn(change), UNCHANGED <<request, screen>>
  PROVE  BodyIsOwed' /\ FramesWhole'
<1>1. BodyIsOwed'
  BY RedrawnDoes DEF BodyIsOwed
<1>2. FramesWhole'
  BY DEF FramesWhole
<1> QED BY <1>1, <1>2

LEMMA BodyFinishes ==
  ASSUME FramesTypeOK, IdsIInv, BodyIsOwed, FramesWhole,
         NEW edited, NEW folded, NEW up, NEW on, Finish(edited, folded, up, on)
  PROVE  BodyIsOwed' /\ FramesWhole'
<1>1. PICK redrawn \in BOOLEAN, moved \in BOOLEAN :
        LET buffers == Faded(redrawn, moved)
            full    == dirty.full \/ redrawn
            bars    == dirty.meters \/ moved
        IN  \/ Skip(buffers, full, bars)
            \/ \E slot \in Slot : /\ Made(buffers) \in [Slot -> Buffer]
                                  /\ Paints(Made(buffers), slot, full)
  BY FinishPaints
<1> DEFINE buffers == Faded(redrawn, moved)
           full == dirty.full \/ redrawn
           bars == dirty.meters \/ moved
<1>2. \A s \in Slot : buffers[s].owed = slots[s].owed /\ (buffers[s].body <=> slots[s].body /\ ~redrawn)
  BY FadedStand
<1>3. UNCHANGED screen
  BY FinishPaints
<1>4. \A s \in Slot : buffers[s].body \/ buffers[s].owed = All \/ full
  BY <1>2 DEF BodyIsOwed
<1>5. full \in BOOLEAN
  OBVIOUS
<1> HIDE DEF buffers, full, bars
<1>6. CASE Skip(buffers, full, bars)
  <2>1. slots' = buffers /\ dirty'.full = full /\ request' = request
    BY <1>6 DEF Skip
  <2>2. BodyIsOwed'
    BY <1>4, <2>1 DEF BodyIsOwed
  <2>3. FramesWhole'
    BY <1>3, <2>1 DEF FramesWhole
  <2> QED BY <2>2, <2>3
<1>7. ASSUME NEW slot \in Slot, Made(buffers) \in [Slot -> Buffer], Paints(Made(buffers), slot, full)
      PROVE  BodyIsOwed' /\ FramesWhole'
  <2> DEFINE made == Made(buffers)
  <2>1. \A s \in Slot : made[s].body \/ made[s].owed = All \/ full
    BY <1>4 DEF Made, FreshSlots
  <2>2. \A s \in Slot : made[s].owed \in 0..2
    BY <1>7 DEF Buffer
  <2> HIDE DEF made
  <2>3. slots' = Painted(made, slot, full) /\ made \in [Slot -> Buffer]
    BY <1>7 DEF Paints, made
  <2>4. slots'[slot].body /\ slots'[slot].bars
    BY <1>5, <2>1, <2>3, PaintedSlots
  <2>5. \A s \in Slot \ {slot} : slots'[s].body \/ slots'[s].owed = All
    <3> SUFFICES ASSUME NEW s \in Slot \ {slot}
                 PROVE  slots'[s].body \/ slots'[s].owed = All
      OBVIOUS
    <3>1. /\ slots'[s].body = made[s].body
          /\ slots'[s].owed = Wider(made[s].owed, IF full THEN All ELSE Meters)
      BY <1>5, <2>3, PaintedSlots
    <3>2. made[s].owed \in 0..2 /\ (made[s].body \/ made[s].owed = All \/ full)
      BY <2>1, <2>2
    <3>3. made[s].owed = All \/ full => Wider(made[s].owed, IF full THEN All ELSE Meters) = All
      BY <3>2 DEF Wider, All, Meters
    <3> QED BY <3>1, <3>2, <3>3
  <2>6. BodyIsOwed'
    BY <2>4, <2>5 DEF BodyIsOwed
  <2>7. request'.whole
    BY <1>7, <2>4 DEF Paints
  <2> QED BY <1>3, <2>6, <2>7 DEF FramesWhole
<1> QED BY <1>1, <1>6, <1>7 DEF buffers, full, bars

LEMMA FramesBodies ==
  ASSUME FramesTypeOK, IdsIInv, BodyIsOwed, FramesWhole, [Next]_vars
  PROVE  BodyIsOwed' /\ FramesWhole'
<1>1. ASSUME UNCHANGED <<slots, dirty>>,
             UNCHANGED <<request, screen>> \/ (request' = None /\ screen' = request)
      PROVE  BodyIsOwed' /\ FramesWhole'
  BY <1>1, BodyStands
<1>2. CASE UNCHANGED vars
  BY <1>1, <1>2 DEF vars, paintVars, compositorVars
<1>3. CASE CompositorStep
  BY <1>1, <1>3 DEF CompositorStep, Configure, PreferScale, Receive, Release, Answer, Hide, paintVars
<1>4. CASE (\E on \in Unasked : Input(on)) \/ Sound \/ Post \/ Pass
  BY <1>1, <1>4 DEF Input, Sound, Post, Pass, paintVars, compositorVars
<1>5. ASSUME NEW failed \in BOOLEAN, Wake(failed) PROVE BodyIsOwed' /\ FramesWhole'
  BY <1>5, BodyRedrawn DEF Wake, compositorVars
<1>6. CASE Read
  <2>1. UNCHANGED <<request, screen>>
    BY <1>6 DEF Read, ReadToplevel, ReadConfigure, ReadScale, ReadDone, ReadRelease, ReadDelete, ReadInput,
                Take, compositorVars
  <2>2. CASE ReadToplevel \/ ReadConfigure \/ ReadScale \/ ReadInput
    <3>1. \E change \in BOOLEAN : Redrawn(change)
      <4>1. (width' # width) \in BOOLEAN /\ (scale' # scale) \in BOOLEAN /\ TRUE \in BOOLEAN
        OBVIOUS
      <4> QED BY <2>2, <4>1 DEF ReadToplevel, ReadConfigure, ReadScale, ReadInput
    <3> QED BY <2>1, <3>1, BodyRedrawn
  <2>3. CASE ReadDone \/ ReadDelete
    BY <1>1, <2>1, <2>3 DEF ReadDone, ReadDelete
  <2>4. CASE ReadRelease
    <3>1. \A s \in Slot : slots'[s].body = slots[s].body /\ slots'[s].owed = slots[s].owed
      BY <2>4 DEF ReadRelease, FramesTypeOK, Buffer
    <3>2. dirty' = dirty
      BY <2>4 DEF ReadRelease
    <3> QED BY <2>1, <3>1, <3>2, BodyStands
  <2> QED BY <1>6, <2>2, <2>3, <2>4 DEF Read
<1>7. CASE Turn
  BY <1>5, <1>6, <1>7, BodyFinishes DEF Turn, EndTurn
<1> QED BY <1>2, <1>3, <1>4, <1>7 DEF Next

-----------------------------------------------------------------------------
\* The events that tell the window's size and scale.
OfSize == {"toplevel", "configure", "scale"}

LEMMA LastShifted ==
  ASSUME FramesTypeOK, NEW on, NEW d \in {0, 1}, Shifted({on}, d), NEW is, LastOnWire(on, is)
  PROVE  /\ LastOnWire(on, is)'
         /\ NoneOf(on)' <=> NoneOf(on)
<1>1. \A i : At(i, on)' => At(i + d, on) /\ wire'[i] = wire[i + d] /\ i \in Int
  BY DEF Shifted, At
<1>2. \A i : At(i, on) => At(i - d, on)' /\ wire'[i - d] = wire[i] /\ i \in Int
  BY DEF Shifted, At
<1>3. ASSUME NEW i, At(i, on)', \A j : At(j, on)' => j <= i
      PROVE  wire'[i].arg = is
  <2>1. At(i + d, on) /\ i + d \in 1..Len(wire)
    BY <1>1, <1>3 DEF At
  <2>2. ASSUME NEW j \in 1..Len(wire), At(j, on) PROVE j <= i + d
    <3>1. At(j - d, on)' /\ j \in Int
      BY <1>2, <2>2
    <3>2. j - d <= i /\ i \in Int
      BY <1>1, <1>3, <3>1
    <3> QED BY <3>1, <3>2
  <2>3. wire[i + d].arg = is
    BY <2>1, <2>2 DEF LastOnWire
  <2> QED BY <1>1, <1>3, <2>3
<1>4. (is' = is) => LastOnWire(on, is)'
  BY <1>3 DEF LastOnWire, At
<1>5. NoneOf(on)' <=> NoneOf(on)
  BY <1>1, <1>2 DEF NoneOf, At
<1> QED BY <1>4, <1>5

LEMMA SizesShifted ==
  ASSUME FramesTypeOK, NEW d \in {0, 1}, Shifted(OfSize, d), SizesTell,
         UNCHANGED <<asked, preferred, width, scale, configured>>
  PROVE  SizesTell' /\ (NoneOf("configure")' <=> NoneOf("configure"))
<1>1. Shifted({"toplevel"}, d) /\ Shifted({"configure"}, d) /\ Shifted({"scale"}, d)
  BY DEF Shifted, OfSize
<1>2. PICK a, p : a = asked /\ p = preferred
  OBVIOUS
<1>3. /\ LastOnWire("toplevel", a)' /\ (NoneOf("toplevel")' <=> NoneOf("toplevel"))
      /\ LastOnWire("scale", p)' /\ (NoneOf("scale")' <=> NoneOf("scale"))
  BY <1>1, <1>2, LastShifted DEF SizesTell
<1>4. NoneOf("configure")' <=> NoneOf("configure")
  <2>1. \A i, k : At(i, k)' => i \in Int
    BY DEF At
  <2> QED BY <1>1, <2>1 DEF Shifted, NoneOf, At
<1>5. ASSUME NEW i, At(i, "toplevel")' PROVE \E j \in 1..Len(wire') : At(j, "configure")' /\ i < j
  <2>1. At(i + d, "toplevel") /\ i \in Int /\ i + d \in 1..Len(wire)
    BY <1>1, <1>5 DEF Shifted, At
  <2>2. PICK j \in 1..Len(wire) : At(j, "configure") /\ i + d < j
    BY <2>1 DEF SizesTell
  <2>3. At(j - d, "configure")' /\ i < j - d
    BY <1>1, <2>1, <2>2 DEF Shifted
  <2> QED BY <2>3 DEF At
<1>6. asked' = a /\ preferred' = p
  BY <1>2
<1>7. LastOnWire("toplevel", asked)' /\ LastOnWire("scale", preferred)'
  BY <1>3, <1>6 DEF LastOnWire, At
<1> QED BY <1>3, <1>4, <1>5, <1>7 DEF SizesTell

LEMMA ConfigureSizes ==
  ASSUME FramesTypeOK, SizesTell, NEW w \in Width, Configure(w)
  PROVE  SizesTell' /\ ~NoneOf("configure")'
<1> DEFINE events == <<Event("toplevel", w), Event("configure", 0)>>
<1>1. /\ events \in Seq(Events) /\ Len(events) = 2
      /\ events[1].on = "toplevel" /\ events[1].arg = w /\ events[2].on = "configure"
      /\ w \in Nat \ {0}
  BY WidthAssumption DEF Event, Events
<1>2. wire' = wire \o events /\ asked' = w /\ UNCHANGED <<preferred, width, scale, configured>>
  BY DEF Configure, Sends, windowVars
<1> HIDE DEF events
<1>3. /\ Len(wire) \in Nat /\ Len(wire') = Len(wire) + 2
      /\ \A i \in 1..Len(wire) : wire'[i] = wire[i]
      /\ wire'[Len(wire) + 1] = events[1] /\ wire'[Len(wire) + 2] = events[2]
  <2>1. /\ Len(wire') = Len(wire) + Len(events) /\ Len(wire) \in Nat
        /\ \A i \in 1..Len(wire) : wire'[i] = wire[i]
        /\ \A i \in 1..Len(events) : Len(wire) + i \in 1..Len(wire') /\ wire'[Len(wire) + i] = events[i]
    BY <1>1, <1>2, Appended DEF FramesTypeOK
  <2>2. 1 \in 1..Len(events) /\ 2 \in 1..Len(events)
    BY <1>1
  <2> QED BY <1>1, <2>1, <2>2
<1>4. PICK n : n = Len(wire)
  OBVIOUS
<1>5. At(n + 1, "toplevel")' /\ At(n + 2, "configure")' /\ wire'[n + 1].arg = w
  BY <1>1, <1>3, <1>4 DEF At
<1>6. \A i, on : At(i, on)' => i \in Int /\ i <= n + 2
  BY <1>3, <1>4 DEF At
<1>7. \A i : At(i, "toplevel")' => i <= n + 1
  BY <1>1, <1>3, <1>4 DEF At
<1>8. PICK p : p = preferred
  OBVIOUS
<1>9. LastOnWire("scale", p)' /\ (NoneOf("scale")' <=> NoneOf("scale"))
  <2>1. Shifted({"scale"}, 0)
    <3>1. \A i \in 1..Len(events) : events[i].on \notin {"scale"}
      BY <1>1
    <3> QED BY <1>1, <1>2, <3>1, ShiftedBySending
  <2> QED BY <1>8, <2>1, LastShifted DEF SizesTell
<1>10. LastOnWire("scale", preferred)'
  BY <1>2, <1>8, <1>9 DEF LastOnWire, At
<1>11. LastOnWire("toplevel", asked)'
  <2> SUFFICES ASSUME NEW i \in 1..Len(wire'), At(i, "toplevel")',
                      \A j \in 1..Len(wire') : At(j, "toplevel")' => j <= i
               PROVE  wire'[i].arg = asked'
    BY DEF LastOnWire
  <2>1. n + 1 <= i /\ i <= n + 1 /\ i \in Int /\ n \in Nat
    BY <1>3, <1>4, <1>5, <1>7
  <2>2. i = n + 1
    BY <2>1
  <2> QED BY <1>2, <1>5, <2>2
<1>12. ~NoneOf("toplevel")' /\ ~NoneOf("configure")'
  BY <1>5 DEF NoneOf, At
<1>13. \A i \in 1..Len(wire') : At(i, "toplevel")' => \E j \in 1..Len(wire') : At(j, "configure")' /\ i < j
  <2> SUFFICES ASSUME NEW i \in 1..Len(wire'), At(i, "toplevel")'
               PROVE  \E j \in 1..Len(wire') : At(j, "configure")' /\ i < j
    OBVIOUS
  <2>1. n + 2 \in 1..Len(wire') /\ i < n + 2
    BY <1>3, <1>4, <1>7
  <2> QED BY <1>5, <2>1
<1>14. asked' # 0
  BY <1>1, <1>2
<1> QED BY <1>2, <1>9, <1>10, <1>11, <1>12, <1>13, <1>14 DEF SizesTell

LEMMA PreferSizes ==
  ASSUME FramesTypeOK, SizesTell, NEW s \in Scale, PreferScale(s)
  PROVE  SizesTell' /\ (NoneOf("configure")' <=> NoneOf("configure"))
<1> DEFINE e == Event("scale", s)
<1>1. e \in Events /\ e.on = "scale" /\ e.arg = s
  BY ScaleAssumption DEF Event, Events
<1>2. wire' = wire \o <<e>> /\ preferred' = s /\ UNCHANGED <<asked, width, scale, configured>>
  BY DEF PreferScale, Sends, windowVars
<1> HIDE DEF e
<1>3. /\ Len(wire) \in Nat /\ Len(wire') = Len(wire) + 1
      /\ \A i \in 1..Len(wire) : wire'[i] = wire[i]
      /\ wire'[Len(wire) + 1] = e
  BY <1>1, <1>2 DEF FramesTypeOK
<1>4. PICK n, a : n = Len(wire) /\ a = asked
  OBVIOUS
<1>5. At(n + 1, "scale")' /\ wire'[n + 1].arg = s
  BY <1>1, <1>3, <1>4 DEF At
<1>6. LastOnWire("scale", preferred)'
  <2> SUFFICES ASSUME NEW i \in 1..Len(wire'), At(i, "scale")',
                      \A j \in 1..Len(wire') : At(j, "scale")' => j <= i
               PROVE  wire'[i].arg = preferred'
    BY DEF LastOnWire
  <2>1. n + 1 <= i /\ i <= n + 1 /\ i \in Int /\ n \in Nat
    BY <1>3, <1>4, <1>5
  <2>2. i = n + 1
    BY <2>1
  <2> QED BY <1>2, <1>5, <2>2
<1>7. Shifted({"toplevel"}, 0) /\ Shifted({"configure"}, 0)
  <2>1. <<e>> \in Seq(Events) /\ \A i \in 1..Len(<<e>>) : <<e>>[i].on = "scale"
    BY <1>1
  <2> QED BY <1>2, <2>1, ShiftedBySending
<1>8. LastOnWire("toplevel", a)' /\ (NoneOf("toplevel")' <=> NoneOf("toplevel"))
  BY <1>4, <1>7, LastShifted DEF SizesTell
<1>9. LastOnWire("toplevel", asked)'
  BY <1>2, <1>4, <1>8 DEF LastOnWire, At
<1>10. ~NoneOf("scale")'
  BY <1>5 DEF NoneOf, At
<1>11. \A i : (At(i, "configure")' <=> At(i, "configure")) /\ (At(i, "toplevel")' <=> At(i, "toplevel"))
  <2>1. \A i, k : At(i, k)' => i \in Int
    BY DEF At
  <2>2. \A i, k : At(i, k) => i \in Int
    BY DEF At
  <2> QED BY <1>7, <2>1, <2>2 DEF Shifted
<1>12. NoneOf("configure")' <=> NoneOf("configure")
  BY <1>11 DEF NoneOf, At
<1>13. \A i \in 1..Len(wire') : At(i, "toplevel")' => \E j \in 1..Len(wire') : At(j, "configure")' /\ i < j
  <2> SUFFICES ASSUME NEW i \in 1..Len(wire'), At(i, "toplevel")'
               PROVE  \E j \in 1..Len(wire') : At(j, "configure")' /\ i < j
    OBVIOUS
  <2>1. At(i, "toplevel") /\ i \in 1..Len(wire)
    BY <1>11 DEF At
  <2>2. PICK j \in 1..Len(wire) : At(j, "configure") /\ i < j
    BY <2>1 DEF SizesTell
  <2> QED BY <1>11, <2>2 DEF At
<1> QED BY <1>2, <1>6, <1>8, <1>9, <1>10, <1>12, <1>13 DEF SizesTell

\* What taking one of them leaves.
LEMMA HeadSizes ==
  ASSUME FramesTypeOK, SizesTell, NEW on, Take(on)
  PROVE  /\ wire[1].on = on /\ At(1, on)
         /\ \A i, k : At(i, k)' => At(i + 1, k) /\ wire'[i] = wire[i + 1] /\ i \in Int /\ i >= 1
         /\ \A i, k : At(i, k) /\ i # 1 => At(i - 1, k)' /\ wire'[i - 1] = wire[i]
         /\ \A k, is : LastOnWire(k, is) => /\ LastOnWire(k, is)'
                                            /\ NoneOf(k)' /\ k = on => wire[1].arg = is
         /\ \A k : k # on => (NoneOf(k)' <=> NoneOf(k))
         /\ \A k : NoneOf(k) => NoneOf(k)'
         /\ \A i \in 1..Len(wire') : At(i, "toplevel")' => \E j \in 1..Len(wire') : At(j, "configure")' /\ i < j
<1>1. /\ At(1, on)
      /\ \A i, k : At(i, k) => i \in 1..Len(wire) /\ i \in Int /\ i >= 1
      /\ \A i, k : At(i, k)' => /\ i \in 1..Len(wire') /\ i \in Int /\ i >= 1
                                /\ At(i + 1, k) /\ wire'[i] = wire[i + 1]
      /\ \A i, k : At(i, k) /\ i # 1 => At(i - 1, k)' /\ wire'[i - 1] = wire[i]
  BY HeadTaken
<1>2. \A k : At(1, k) => k = on
  BY <1>1 DEF At
<1>3. ASSUME NEW k, NEW is, LastOnWire(k, is)
      PROVE  LastOnWire(k, is)' /\ (NoneOf(k)' /\ k = on => wire[1].arg = is)
  <2>1. ASSUME NEW i \in 1..Len(wire'), At(i, k)', \A j \in 1..Len(wire') : At(j, k)' => j <= i
        PROVE  wire'[i].arg = is
    <3>1. At(i + 1, k) /\ i + 1 \in 1..Len(wire) /\ i \in Int /\ i >= 1
      BY <1>1, <2>1
    <3>2. ASSUME NEW j \in 1..Len(wire), At(j, k) PROVE j <= i + 1
      <4>1. CASE j = 1
        BY <3>1, <4>1
      <4>2. CASE j # 1
        <5>1. At(j - 1, k)' /\ j - 1 \in 1..Len(wire')
          BY <1>1, <3>2, <4>2
        <5> QED BY <2>1, <3>1, <5>1
      <4> QED BY <4>1, <4>2
    <3> QED BY <1>1, <1>3, <2>1, <3>1, <3>2 DEF LastOnWire
  <2>2. LastOnWire(k, is)'
    BY <2>1 DEF LastOnWire
  <2>3. ASSUME NoneOf(k)', k = on PROVE wire[1].arg = is
    <3>1. \A j : At(j, k) => j = 1
      BY <1>1, <2>3 DEF NoneOf
    <3>2. 1 \in 1..Len(wire) /\ At(1, k)
      BY <1>1, <2>3
    <3>3. \A j \in 1..Len(wire) : At(j, k) => j <= 1
      BY <3>1
    <3> QED BY <1>3, <3>2, <3>3 DEF LastOnWire
  <2> QED BY <2>2, <2>3
<1>4. \A k : k # on => (NoneOf(k)' <=> NoneOf(k))
  BY <1>1, <1>2 DEF NoneOf
<1>5. \A k : NoneOf(k) => NoneOf(k)'
  BY <1>1 DEF NoneOf
<1>6. ASSUME NEW i \in 1..Len(wire'), At(i, "toplevel")'
      PROVE  \E j \in 1..Len(wire') : At(j, "configure")' /\ i < j
  <2>1. At(i + 1, "toplevel") /\ i + 1 \in 1..Len(wire) /\ i \in Int /\ i >= 1
    BY <1>1, <1>6
  <2>2. PICK j \in 1..Len(wire) : At(j, "configure") /\ i + 1 < j
    BY <2>1 DEF SizesTell
  <2>3. At(j - 1, "configure")' /\ j - 1 \in 1..Len(wire') /\ i < j - 1
    BY <1>1, <2>1, <2>2
  <2> QED BY <2>3
<1>7. wire[1].on = on
  BY <1>1 DEF At
<1> QED BY <1>1, <1>3, <1>4, <1>5, <1>6, <1>7

LEMMA TellsStand ==
  ASSUME FrameTells, NoneOf("configure")' => NoneOf("configure"),
         UNCHANGED <<width, scale, configured, pending>>, Committed' = Committed, dirty.full => dirty'.full
  PROVE  FrameTells'
BY DEF FrameTells

\* Only the kinds that tell of sizes matter, as long as the window's stay.
LEMMA ShiftStands ==
  ASSUME FramesTypeOK, SizesTell, FrameTells, NEW d \in {0, 1}, Shifted(OfSize, d),
         UNCHANGED <<asked, preferred, width, scale, configured, pending>>,
         Committed' = Committed, dirty.full => dirty'.full
  PROVE  SizesTell' /\ FrameTells'
BY SizesShifted, TellsStand

LEMMA SendingStands ==
  ASSUME FramesTypeOK, SizesTell, FrameTells, NEW events \in Seq(Events), wire' = wire \o events,
         \A i \in 1..Len(events) : events[i].on \notin OfSize,
         UNCHANGED <<asked, preferred, width, scale, configured, pending, dirty>>,
         Committed' = Committed
  PROVE  SizesTell' /\ FrameTells'
<1>1. Shifted(OfSize, 0)
  BY ShiftedBySending
<1> QED BY <1>1, ShiftStands

LEMMA CompositorSizes ==
  ASSUME FramesTypeOK, SizesTell, FrameTells, CompositorStep
  PROVE  SizesTell' /\ FrameTells'
<1>1. ASSUME NEW w \in Width, Configure(w) PROVE SizesTell' /\ FrameTells'
  BY <1>1, ConfigureSizes, TellsStand DEF Configure, windowVars, Committed
<1>2. ASSUME NEW s \in Scale, PreferScale(s) PROVE SizesTell' /\ FrameTells'
  BY <1>2, PreferSizes, TellsStand DEF PreferScale, windowVars, Committed
<1>3. CASE Receive
  <2> DEFINE ends == [i \in 1..Len(request.destroyed) |-> Event("delete", request.destroyed[i])]
  <2>1. request \in Frame /\ request # None
    BY <1>3 DEF Receive, FramesTypeOK
  <2>2. request.destroyed \in Seq(Nat)
    BY <2>1 DEF Frame
  <2>3. ends \in Seq(Events) /\ \A i \in 1..Len(ends) : ends[i].on \notin OfSize
    BY <2>2 DEF Event, Events, OfSize
  <2>4. wire' = wire \o ends /\ UNCHANGED <<asked, preferred, width, scale, configured, pending, dirty>>
    BY <1>3 DEF Receive, windowVars
  <2>5. Committed' = Committed
    BY <1>3 DEF Receive, Committed
  <2> HIDE DEF ends
  <2> QED BY <2>3, <2>4, <2>5, SendingStands
<1>4. ASSUME NEW o \in Object, Release(o) PROVE SizesTell' /\ FrameTells'
  <2>1. <<Event("release", o)>> \in Seq(Events) /\ \A i \in 1..1 : <<Event("release", o)>>[i].on \notin OfSize
    BY ObjectAssumption DEF Event, Events, OfSize
  <2>2. wire' = wire \o <<Event("release", o)>>
    BY <1>4, <2>1 DEF Release, FramesTypeOK
  <2> QED BY <1>4, <2>1, <2>2, SendingStands DEF Release, windowVars, Committed
<1>5. ASSUME NEW o \in Object, Answer(o) PROVE SizesTell' /\ FrameTells'
  <2> DEFINE two == <<Event("done", o), Event("delete", o)>>
  <2>1. two \in Seq(Events) /\ \A i \in 1..Len(two) : two[i].on \notin OfSize
    BY ObjectAssumption DEF Event, Events, OfSize
  <2>2. wire' = wire \o two
    BY <1>5 DEF Answer
  <2> HIDE DEF two
  <2> QED BY <1>5, <2>1, <2>2, SendingStands DEF Answer, windowVars, Committed
<1>6. CASE Hide
  <2>1. Shifted(OfSize, 0)
    BY <1>6, ShiftedByNothing DEF Hide
  <2> QED BY <1>6, <2>1, ShiftStands DEF Hide, windowVars, Committed
<1> QED BY <1>1, <1>2, <1>3, <1>4, <1>5, <1>6 DEF CompositorStep

LEMMA ReadSizes ==
  ASSUME FramesTypeOK, SizesTell, FrameTells, Read
  PROVE  SizesTell' /\ FrameTells'
<1>1. ASSUME NEW on, Take(on)
      PROVE  UNCHANGED <<asked, preferred>> /\ Committed' = Committed /\ Head(wire) = wire[1]
  BY <1>1, HeadTaken DEF Take, compositorVars, Committed
<1>2. PICK a, p : a = asked /\ p = preferred
  OBVIOUS
<1>3. LastOnWire("toplevel", a) /\ LastOnWire("scale", p)
  BY <1>2 DEF SizesTell
<1>4. ASSUME UNCHANGED <<asked, preferred>>, LastOnWire("toplevel", a)', LastOnWire("scale", p)'
      PROVE  LastOnWire("toplevel", asked)' /\ LastOnWire("scale", preferred)'
  BY <1>2, <1>4 DEF LastOnWire, At
<1>5. CASE ReadToplevel
  <2>1. Take("toplevel") /\ (width' # width) \in BOOLEAN
    BY <1>5 DEF ReadToplevel
  <2>2. /\ width' = wire[1].arg /\ UNCHANGED <<configured, scale, pending>>
        /\ dirty'.full <=> dirty.full \/ width' # width
    BY <1>1, <1>5, <2>1, RedrawnDoes DEF ReadToplevel
  <2>3. NoneOf("toplevel")' => width' = a
    BY <1>3, <2>1, <2>2, HeadSizes
  <2>4. /\ LastOnWire("toplevel", asked)' /\ LastOnWire("scale", preferred)'
        /\ NoneOf("configure")' <=> NoneOf("configure")
        /\ NoneOf("scale")' <=> NoneOf("scale")
        /\ \A i \in 1..Len(wire') : At(i, "toplevel")' => \E j \in 1..Len(wire') : At(j, "configure")' /\ i < j
    BY <1>1, <1>3, <1>4, <2>1, HeadSizes
  <2>5. SizesTell'
    BY <1>1, <1>2, <2>1, <2>2, <2>3, <2>4 DEF SizesTell
  <2>6. ~NoneOf("configure")
    <3>1. At(1, "toplevel") /\ 1 \in 1..Len(wire)
      BY <2>1, HeadSizes DEF At
    <3> QED BY <3>1 DEF SizesTell, NoneOf
  <2>7. FrameTells'
    BY <1>1, <2>1, <2>2, <2>4, <2>6 DEF FrameTells
  <2> QED BY <2>5, <2>7
<1>6. CASE ReadConfigure
  <2>1. Take("configure")
    BY <1>6 DEF ReadConfigure
  <2>2. pending' = TRUE /\ configured' = TRUE /\ UNCHANGED <<width, scale>> /\ dirty'.full
    BY <1>6, RedrawnDoes DEF ReadConfigure
  <2>3. asked # 0
    <3>1. ~NoneOf("configure")
      BY <2>1, HeadSizes DEF NoneOf, At
    <3> QED BY <3>1 DEF SizesTell
  <2>4. /\ LastOnWire("toplevel", asked)' /\ LastOnWire("scale", preferred)'
        /\ NoneOf("toplevel")' <=> NoneOf("toplevel")
        /\ NoneOf("scale")' <=> NoneOf("scale")
        /\ \A i \in 1..Len(wire') : At(i, "toplevel")' => \E j \in 1..Len(wire') : At(j, "configure")' /\ i < j
    BY <1>1, <1>3, <1>4, <2>1, HeadSizes
  <2>5. SizesTell'
    BY <1>1, <2>1, <2>2, <2>3, <2>4 DEF SizesTell
  <2>6. FrameTells'
    BY <2>2 DEF FrameTells
  <2> QED BY <2>5, <2>6
<1>7. CASE ReadScale
  <2>1. Take("scale") /\ (scale' # scale) \in BOOLEAN
    BY <1>7 DEF ReadScale
  <2>2. /\ scale' = wire[1].arg /\ UNCHANGED <<configured, width, pending>>
        /\ dirty'.full <=> dirty.full \/ scale' # scale
    BY <1>1, <1>7, <2>1, RedrawnDoes DEF ReadScale
  <2>3. NoneOf("scale")' => scale' = p
    BY <1>3, <2>1, <2>2, HeadSizes
  <2>4. /\ LastOnWire("toplevel", asked)' /\ LastOnWire("scale", preferred)'
        /\ NoneOf("configure")' <=> NoneOf("configure")
        /\ NoneOf("toplevel")' <=> NoneOf("toplevel")
        /\ \A i \in 1..Len(wire') : At(i, "toplevel")' => \E j \in 1..Len(wire') : At(j, "configure")' /\ i < j
    BY <1>1, <1>3, <1>4, <2>1, HeadSizes
  <2>5. SizesTell'
    BY <1>1, <1>2, <2>1, <2>2, <2>3, <2>4 DEF SizesTell
  <2>6. FrameTells'
    BY <1>1, <2>1, <2>2, <2>4 DEF FrameTells
  <2> QED BY <2>5, <2>6
<1>8. CASE ReadDone \/ ReadRelease \/ ReadDelete \/ ReadInput
  <2>1. PICK on \in {"done", "release", "delete", "edit", "hover"} : Take(on)
    BY <1>8 DEF ReadDone, ReadRelease, ReadDelete, ReadInput
  <2>2. Shifted(OfSize, 1)
    BY <2>1, ShiftedByTaking DEF Take, OfSize
  <2>3. UNCHANGED <<width, scale, configured, pending>>
    BY <1>8 DEF ReadDone, ReadRelease, ReadDelete, ReadInput, windowVars
  <2>4. dirty.full => dirty'.full
    BY <1>8, RedrawnDoes DEF ReadDone, ReadRelease, ReadDelete, ReadInput
  <2> QED BY <1>1, <2>1, <2>2, <2>3, <2>4, ShiftStands
<1> QED BY <1>5, <1>6, <1>7, <1>8 DEF Read

LEMMA FinishSizes ==
  ASSUME FramesTypeOK, IdsIInv, SizesTell, FrameTells,
         NEW edited, NEW folded, NEW up, NEW on, Finish(edited, folded, up, on)
  PROVE  SizesTell' /\ FrameTells'
<1>1. PICK redrawn \in BOOLEAN, moved \in BOOLEAN :
        LET buffers == Faded(redrawn, moved)
            full    == dirty.full \/ redrawn
            bars    == dirty.meters \/ moved
        IN  \/ Skip(buffers, full, bars)
            \/ /\ request = None /\ request' # None
               /\ \E slot \in Slot : Paints(Made(buffers), slot, full)
  BY FinishPaints
<1>2. UNCHANGED <<wire, asked, preferred, screen, configured, width, scale>>
  BY FinishPaints
<1>3. Shifted(OfSize, 0)
  BY <1>2, ShiftedByNothing
<1>4. ASSUME Skip(Faded(redrawn, moved), dirty.full \/ redrawn, dirty.meters \/ moved)
      PROVE  SizesTell' /\ FrameTells'
  <2>1. dirty.full => dirty'.full
    BY <1>4 DEF Skip
  <2>2. request' = request /\ pending' = pending
    BY <1>4 DEF Skip
  <2> QED BY <1>2, <1>3, <2>1, <2>2, ShiftStands DEF Committed
<1>5. ASSUME request = None, request' # None, NEW slot, NEW made, NEW full, Paints(made, slot, full)
      PROVE  SizesTell' /\ FrameTells'
  <2>1. SizesTell' /\ (NoneOf("configure")' <=> NoneOf("configure"))
    BY <1>2, <1>3, SizesShifted
  <2>2. /\ Committed' = request' /\ request'.size = width * scale
        /\ request'.window = IF pending THEN width ELSE Shown.window
        /\ ~pending'
    BY <1>5 DEF Paints, Committed, DeviceSize
  <2>3. configured /\ ~pending /\ NoneOf("configure") => Shown.window = width
    BY <1>5 DEF FrameTells, Committed, Shown
  <2>4. FrameTells'
    BY <1>2, <1>5, <2>1, <2>2, <2>3 DEF FrameTells
  <2> QED BY <2>1, <2>4
<1> QED BY <1>1, <1>4, <1>5

LEMMA FramesSizes ==
  ASSUME FramesTypeOK, IdsIInv, SizesTell, FrameTells, [Next]_vars
  PROVE  SizesTell' /\ FrameTells'
<1>1. ASSUME UNCHANGED <<wire, asked, preferred, width, scale, configured, pending, request, screen>>,
             dirty.full => dirty'.full
      PROVE  SizesTell' /\ FrameTells'
  <2>1. Shifted(OfSize, 0)
    BY <1>1, ShiftedByNothing
  <2> QED BY <1>1, <2>1, ShiftStands DEF Committed
<1>2. CASE UNCHANGED vars
  BY <1>1, <1>2 DEF vars, windowVars, compositorVars
<1>3. ASSUME NEW on, Input(on) PROVE SizesTell' /\ FrameTells'
  <2> DEFINE events == <<Event(on, 0)>>
  <2>1. events \in Seq(Events) /\ \A i \in 1..Len(events) : events[i].on \notin OfSize
    BY <1>3 DEF Input, Event, Events, OfSize
  <2>2. /\ wire' = wire \o events
        /\ UNCHANGED <<asked, preferred, width, scale, configured, pending, dirty, request, screen>>
    BY <1>3 DEF Input, Sends, compositorVars, windowVars
  <2> HIDE DEF events
  <2> QED BY <2>1, <2>2, SendingStands DEF Committed
<1>4. CASE Sound \/ Post \/ Pass
  BY <1>1, <1>4 DEF Sound, Post, Pass, windowVars, compositorVars
<1>5. ASSUME NEW failed \in BOOLEAN, Wake(failed) PROVE SizesTell' /\ FrameTells'
  BY <1>1, <1>5, RedrawnDoes DEF Wake, windowVars, compositorVars
<1>6. CASE Turn
  BY <1>5, <1>6, ReadSizes, FinishSizes DEF Turn, EndTurn
<1> QED BY <1>2, <1>3, <1>4, <1>6, CompositorSizes DEF Next

FramesIInv == FramesTypeOK /\ IdsIInv /\ BodyIsOwed /\ FramesWhole /\ SizesTell /\ FrameTells

LEMMA FramesInit ==
  ASSUME Init
  PROVE  FramesIInv
<1>1. /\ wire = <<>> /\ request = None /\ screen = None /\ held = {} /\ answering = {}
      /\ callback = 0 /\ dying = {} /\ asked = 0 /\ preferred = 1 /\ scale = 1
      /\ ~configured /\ ~pending /\ dirty = [full |-> TRUE, meters |-> FALSE]
      /\ \A s \in Slot : slots[s].obj = 0
      /\ slots = [s \in Slot |-> [obj |-> 0, busy |-> FALSE, owed |-> Nothing, body |-> FALSE, bars |-> FALSE]]
  BY DEF Init
<1>2. FramesTypeOK
  <2>1. width \in Nat /\ pending \in BOOLEAN
    BY WidthAssumption DEF Init
  <2>2. slots \in [Slot -> Buffer]
    BY <1>1 DEF Buffer, Nothing
  <2>3. wire \in Seq(Events)
    BY <1>1
  <2> QED BY <1>1, <2>1, <2>2, <2>3 DEF FramesTypeOK
<1>3. Live = {} /\ Going = {}
  BY <1>1 DEF Live, Going, Slot
<1>4. \A i, on : ~At(i, on)
  BY <1>1 DEF At
<1> HIDE DEF Live, Going
<1>5. IdsIInv
  <2>1. IdsApart
    BY <1>1, <1>3 DEF IdsApart, Slot
  <2>2. HeldAreKnown
    BY <1>1, <1>3 DEF HeldAreKnown, HeldIsBusy
  <2> QED BY <1>1, <1>4, <2>1, <2>2 DEF IdsIInv, OneFrame, ReleasesFit, DeletesFit, DyingEnd
<1>6. BodyIsOwed /\ FramesWhole
  BY <1>1 DEF BodyIsOwed, FramesWhole
<1>7. SizesTell /\ FrameTells
  BY <1>1, <1>4 DEF SizesTell, FrameTells, LastOnWire, NoneOf
<1> QED BY <1>2, <1>5, <1>6, <1>7 DEF FramesIInv

LEMMA FramesNext ==
  ASSUME FramesIInv, [Next]_vars
  PROVE  FramesIInv'
<1> USE DEF FramesIInv
<1>1. FramesTypeOK'
  BY FramesTypes
<1>2. IdsIInv'
  BY FramesIds
<1>3. BodyIsOwed' /\ FramesWhole'
  BY FramesBodies
<1>4. SizesTell' /\ FrameTells'
  BY FramesSizes
<1> QED BY <1>1, <1>2, <1>3, <1>4

LEMMA FramesInvariant == Spec => []FramesIInv
<1>1. Init => FramesIInv
  BY FramesInit
<1>2. FramesIInv /\ [Next]_vars => FramesIInv'
  BY FramesNext
<1> QED BY <1>1, <1>2, PTL DEF Spec

\* At rest the screen shows a frame of the size and at the scale the compositor
\* asked for last, and the configure is acked.
THEOREM SettledSizeHolds == Spec => []SettledSize
<1>1. FramesIInv => SettledSize
  <2> SUFFICES ASSUME FramesIInv, Settled PROVE ~pending /\ screen # None /\ screen.window = asked
                                                /\ screen.size = asked * preferred
    BY DEF SettledSize
  <2>1. /\ wire = <<>> /\ Committed = screen /\ configured /\ ~dirty.full
        /\ \A on : NoneOf(on)
    BY DEF Settled, Committed, NoneOf
  <2>2. width = asked /\ scale = preferred
    BY <2>1 DEF FramesIInv, SizesTell
  <2> QED BY <2>1, <2>2 DEF FramesIInv, FrameTells
<1> QED BY <1>1, FramesInvariant, PTL

\* No object's id is used twice: the two buffers, the frame callback and what is
\* destroyed and not deleted are all told apart, so an event is never taken for
\* another object's.
THEOREM IdsStayApart == Spec => []IdsApart
<1>1. FramesIInv => IdsApart
  BY DEF FramesIInv, IdsIInv
<1> QED BY <1>1, FramesInvariant, PTL

\* A window that was configured has acked the configure, with a frame, or is
\* about to.
FirstIsAcked == configured => pending \/ request # None \/ screen # None

LEMMA FirstFrameNext ==
  ASSUME FramesTypeOK, IdsIInv, FirstIsAcked, [Next]_vars
  PROVE  FirstIsAcked' /\ (request' # None /\ screen = None /\ request = None => pending)
<1>1. ASSUME UNCHANGED <<request, pending, configured, screen>>
      PROVE  FirstIsAcked' /\ (request' # None /\ screen = None /\ request = None => pending)
  BY <1>1 DEF FirstIsAcked
<1>2. CASE UNCHANGED vars
  BY <1>1, <1>2 DEF vars, compositorVars, windowVars
<1>3. CASE CompositorStep
  <2>1. CASE Receive
    BY <2>1 DEF Receive, FirstIsAcked, windowVars
  <2>2. CASE CompositorStep /\ ~Receive
    BY <1>1, <2>2 DEF CompositorStep, Configure, PreferScale, Release, Answer, Hide, windowVars
  <2> QED BY <1>3, <2>1, <2>2
<1>4. CASE (\E on \in Unasked : Input(on)) \/ Sound \/ Post \/ Pass \/ \E failed \in BOOLEAN : Wake(failed)
  BY <1>1, <1>4 DEF Input, Sound, Post, Pass, Wake, compositorVars, windowVars
<1>5. CASE Read
  <2>1. CASE ReadConfigure
    BY <2>1 DEF ReadConfigure, Take, FirstIsAcked, compositorVars
  <2>2. CASE Read /\ ~ReadConfigure
    BY <1>1, <2>2 DEF Read, ReadToplevel, ReadScale, ReadDone, ReadRelease, ReadDelete, ReadInput, Take,
                      compositorVars, windowVars
  <2> QED BY <1>5, <2>1, <2>2
<1>6. ASSUME NEW edited, NEW folded, NEW up, NEW on, Finish(edited, folded, up, on)
      PROVE  FirstIsAcked' /\ (request' # None /\ screen = None /\ request = None => pending)
  <2>1. (pending' = pending /\ request' = request) \/ (configured /\ request' # None)
    BY <1>6, FinishPaints DEF Skip
  <2>2. configured' = configured /\ screen' = screen
    BY <1>6, FinishPaints
  <2> QED BY <1>1, <2>1, <2>2 DEF FirstIsAcked
<1> QED BY <1>2, <1>3, <1>4, <1>5, <1>6 DEF Next, Turn, EndTurn

\* No frame goes out before the first configure, which it acks: the loop turns
\* for the buses and the clock before the compositor has said anything.
THEOREM FirstFrameAcksHolds == Spec => FirstFrameAcks
<1>1. Init => FirstIsAcked
  BY DEF Init, FirstIsAcked
<1>2. FramesIInv /\ FirstIsAcked /\ [Next]_vars => FirstIsAcked'
  BY FirstFrameNext DEF FramesIInv
<1>3. FramesIInv /\ FirstIsAcked /\ [Next]_vars => [request' # None /\ screen = None /\ request = None => pending]_vars
  BY FirstFrameNext DEF FramesIInv
<1> QED BY <1>1, <1>2, <1>3, FramesInvariant, PTL DEF Spec, FirstFrameAcks

LEMMA BarsNext ==
  ASSUME BarsAreDue, [Next]_vars
  PROVE  BarsAreDue'
<1>1. ASSUME UNCHANGED lit, UNCHANGED meters \/ meters' = "ripe" PROVE BarsAreDue'
  BY <1>1 DEF BarsAreDue
<1>2. CASE UNCHANGED vars
  BY <1>1, <1>2 DEF vars, timerVars
<1>3. CASE CompositorStep
  BY <1>1, <1>3 DEF CompositorStep, Configure, PreferScale, Receive, Release, Answer, Hide, timerVars
<1>4. CASE (\E on \in Unasked : Input(on)) \/ Sound \/ Post \/ Pass
  BY <1>1, <1>4 DEF Input, Sound, Post, Pass, Ripens, timerVars
<1>5. CASE Read \/ \E failed \in BOOLEAN : Wake(failed)
  BY <1>1, <1>5 DEF Read, ReadToplevel, ReadConfigure, ReadScale, ReadDone, ReadRelease, ReadDelete, ReadInput,
                    Wake, timerVars
<1>6. ASSUME NEW edited, NEW folded, NEW up, NEW on, Finish(edited, folded, up, on) PROVE BarsAreDue'
  <2>1. CASE roused \/ meters = "ripe"
    <3>1. /\ up \in {folded, lit} /\ lit' = up
          /\ meters' = IF lit \/ folded THEN "armed" ELSE "off"
      BY <1>6, <2>1 DEF Finish, StepMeters
    <3>2. CASE lit \/ folded
      BY <3>1, <3>2 DEF BarsAreDue
    <3>3. CASE ~(lit \/ folded)
      <4>1. up = folded \/ up = lit
        BY <3>1
      <4>2. ~up
        BY <3>3, <4>1, Zenon
      <4>3. ~lit'
        BY <3>1, <4>2, Zenon
      <4> QED BY <4>3 DEF BarsAreDue
    <3> QED BY <3>2, <3>3
  <2>2. CASE ~(roused \/ meters = "ripe")
    BY <1>1, <1>6, <2>2 DEF Finish, StepMeters
  <2> QED BY <2>1, <2>2
<1> QED BY <1>2, <1>3, <1>4, <1>5, <1>6 DEF Next, Turn, EndTurn

\* The client never paints into a buffer the compositor holds or is about to,
\* every frame it commits shows the body and the meters of when it is painted,
\* and a bar that is up is due to fall, whatever wakes the loop and whatever
\* does not.
THEOREM FramesAreSoundHolds == Spec => []FramesAreSound
<1>1. FramesIInv => FramesAreWhole
  BY DEF FramesIInv, IdsIInv, HeldAreKnown, FramesWhole, FramesAreWhole
<1>2. Init => BarsAreDue
  BY DEF Init, BarsAreDue
<1>3. BarsAreDue /\ [Next]_vars => BarsAreDue'
  BY BarsNext
<1>4. BarsAreDue => BarsFall
  BY DEF BarsAreDue, BarsFall
<1>5. FramesIInv /\ BarsAreDue => FramesAreSound
  BY <1>1, <1>4 DEF FramesAreSound
<1> QED BY <1>2, <1>3, <1>5, FramesInvariant, PTL DEF Spec

=============================================================================
