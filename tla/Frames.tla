-------------------------------- MODULE Frames --------------------------------
(***************************************************************************)
(* The loop of the native window and its frames (src/native/app.rs): a     *)
(* turn sleeps in poll, reads what the compositor sent, drains the buses,  *)
(* steps what moves and presents a frame when one is owed and the last one *)
(* has been answered. Two buffers alternate; the compositor holds one from *)
(* a commit until it says otherwise, and destroyed objects keep their ids  *)
(* until it says so too.                                                   *)
(*                                                                         *)
(* A width stands for both sides, a scale for the one the fractional       *)
(* protocol prefers. Deadlines are off, armed or ripe. What the pixels     *)
(* show is kept per buffer as whether its body and its meters are those of *)
(* now, and what is painted as a record of the frame.                      *)
(***************************************************************************)
EXTENDS Naturals, Sequences, FiniteSets

CONSTANTS
  Object,   \* ids of the client's objects; 0 is none
  Width,    \* widths the compositor may ask for
  Scale,    \* scales it may prefer
  MaxWire,  \* events on their way to the client that it did not ask for
  None      \* no frame

\* Six ids at least: two buffers, two that were destroyed, a callback and the last
\* one, which is how many are in use at once.
ASSUME ObjectAssumption == /\ Object \subseteq Nat \ {0}
                           /\ IsFiniteSet(Object) => Cardinality(Object) > 5
ASSUME WidthAssumption == Width \subseteq Nat \ {0} /\ Width # {}
ASSUME ScaleAssumption == Scale \subseteq Nat \ {0} /\ 1 \in Scale
ASSUME NoneAssumption ==
  None \notin [buffer : Nat, callback : Nat, destroyed : Seq(Nat), size : Nat, window : Nat,
               destination : Nat, whole : BOOLEAN]

VARIABLES
  \* The compositor.
  wire,       \* its events on the socket, oldest first
  asked,      \* the width of its latest configure
  preferred,  \* the scale it prefers
  held,       \* the buffers it may be sampling
  answering,  \* the frame callbacks it has not answered
  request,    \* the commit on its way to it
  screen,     \* the frame it shows
  hidden,     \* whether the window is out of sight, which stops the answers
  \* The client.
  at,         \* "asleep" in poll, "reading" the socket, "turning" once it has
  roused,     \* whether the peak pool was readable when poll returned
  configured, width, scale,
  pending,    \* a configure that is not acked
  dirty,      \* what the next frame must repaint
  slots,      \* the two buffers
  dims,       \* their size in device pixels
  lastPainted,  \* the buffer of the last frame
  callback,   \* frame_callback
  dying,      \* ids of destroyed objects that are not deleted
  save, unsaved,  \* autosave_due, and whether the disk lacks an edit
  meters,     \* meters_due, "off" at rest
  lit,        \* whether a bar is up
  pool,       \* whether the peak pool holds an audible peak
  fading,     \* whether a ring or the press mark is moving
  mail        \* whether a bus holds a message

compositorVars == <<asked, preferred, held, answering, request, screen, hidden>>
windowVars == <<configured, width, scale, pending>>
paintVars == <<slots, dims, lastPainted, callback, dying>>
idleVars == <<pool, mail>>
timerVars == <<save, unsaved, meters, lit, fading>>

vars == <<wire, compositorVars, at, roused, windowVars, dirty, paintVars,
          idleVars, timerVars>>

-----------------------------------------------------------------------------
Slot == {1, 2}

Nothing == 0
Meters  == 1
All     == 2

Event(on, arg) == [on |-> on, arg |-> arg]

\* What the compositor sends without being asked.
Unasked == {"toplevel", "configure", "scale", "edit", "hover"}

Init ==
  /\ wire = <<>>
  /\ asked = 0 /\ preferred = 1
  /\ held = {} /\ answering = {}
  /\ request = None /\ screen = None
  /\ hidden = FALSE
  /\ at = "asleep" /\ roused = FALSE
  /\ configured = FALSE
  /\ width \in Width /\ scale = 1
  /\ pending = FALSE
  /\ dirty = [full |-> TRUE, meters |-> FALSE]
  /\ slots = [s \in Slot |-> [obj |-> 0, busy |-> FALSE, owed |-> Nothing,
                              body |-> FALSE, bars |-> FALSE]]
  /\ dims = 0 /\ lastPainted = 1
  /\ callback = 0 /\ dying = {}
  /\ save = "off" /\ unsaved = FALSE
  /\ meters = "off" /\ lit = FALSE /\ pool = FALSE
  /\ fading = FALSE
  /\ mail = FALSE

-----------------------------------------------------------------------------
(* The compositor, and the rest of what happens around the loop.           *)

Sends(events) ==
  /\ Len(wire) + Len(events) <= MaxWire
  /\ wire' = wire \o events

\* A configure is a toplevel event with the size and a surface event that
\* closes it; a read may end between the two.
Configure(w) ==
  /\ Sends(<<Event("toplevel", w), Event("configure", 0)>>)
  /\ asked' = w
  /\ UNCHANGED <<preferred, held, answering, request, screen, hidden, at, roused,
                 windowVars, dirty, paintVars, idleVars, timerVars>>

PreferScale(s) ==
  /\ s # preferred
  /\ Sends(<<Event("scale", s)>>)
  /\ preferred' = s
  /\ UNCHANGED <<asked, held, answering, request, screen, hidden, at, roused,
                 windowVars, dirty, paintVars, idleVars, timerVars>>

\* A gesture that edits the state, or one that only moves the hover.
Input(on) ==
  /\ on \in {"edit", "hover"}
  /\ Sends(<<Event(on, 0)>>)
  /\ UNCHANGED <<compositorVars, at, roused, windowVars, dirty, paintVars,
                 idleVars, timerVars>>

\* The requests of a frame are taken in order: buffers that were destroyed
\* are gone, then the new one is shown and its callback waits for an answer.
Receive ==
  /\ request # None
  /\ wire' = wire \o [i \in 1..Len(request.destroyed) |->
                        Event("delete", request.destroyed[i])]
  /\ held' = (held \ {request.destroyed[i] : i \in 1..Len(request.destroyed)})
               \cup {request.buffer}
  /\ answering' = answering \cup {request.callback}
  /\ screen' = request
  /\ request' = None
  /\ UNCHANGED <<asked, preferred, hidden, at, roused, windowVars, dirty,
                 paintVars, idleVars, timerVars>>

\* A buffer that has been copied, or replaced, may be drawn into again.
Release(o) ==
  /\ o \in held
  /\ wire' = Append(wire, Event("release", o))
  /\ held' = held \ {o}
  /\ UNCHANGED <<asked, preferred, answering, request, screen, hidden, at, roused,
                 windowVars, dirty, paintVars, idleVars, timerVars>>

\* The answer to a frame callback also ends the callback.
Answer(o) ==
  /\ ~hidden
  /\ o \in answering
  /\ wire' = wire \o <<Event("done", o), Event("delete", o)>>
  /\ answering' = answering \ {o}
  /\ UNCHANGED <<asked, preferred, held, request, screen, hidden, at, roused,
                 windowVars, dirty, paintVars, idleVars, timerVars>>

Hide ==
  /\ hidden' = ~hidden
  /\ UNCHANGED <<wire, asked, preferred, held, answering, request, screen, at,
                 roused, windowVars, dirty, paintVars, idleVars, timerVars>>

Sound ==
  /\ ~pool
  /\ pool' = TRUE
  /\ UNCHANGED <<wire, compositorVars, at, roused, windowVars, dirty, paintVars,
                 mail, timerVars>>

Post ==
  /\ ~mail
  /\ mail' = TRUE
  /\ UNCHANGED <<wire, compositorVars, at, roused, windowVars, dirty, paintVars,
                 pool, timerVars>>

Ripens(timer) == timer = "armed" /\ timer' = "ripe"

Pass ==
  /\ \/ Ripens(save) /\ UNCHANGED meters
     \/ Ripens(meters) /\ UNCHANGED save
  /\ UNCHANGED <<wire, compositorVars, at, roused, windowVars, dirty, paintVars,
                 idleVars, unsaved, lit, fading>>

-----------------------------------------------------------------------------
(* A turn of the loop.                                                     *)

\* The whole picture has changed: neither buffer shows it.
Redrawn(change) ==
  /\ dirty' = [dirty EXCEPT !.full = @ \/ change]
  /\ slots' = [s \in Slot |-> [slots[s] EXCEPT !.body = @ /\ ~change]]

\* What ends the wait. The meters are waited for only while no frame callback
\* is out, the peak pool only while they rest.
PeaksReady == meters = "off" /\ pool

\* Broken variant of Due: every deadline and bus waits for the frame callback.
DueWhenAnswered ==
  \/ wire # <<>>
  \/ callback = 0 /\ (mail \/ PeaksReady \/ "ripe" \in {save, meters})

Due ==
  \/ wire # <<>>
  \/ mail
  \/ PeaksReady
  \/ save = "ripe"
  \/ callback = 0 /\ meters = "ripe"

\* poll returns: a ripe save is written, which shows only when it fails. A socket
\* that is readable has an event to give.
Wake(failed) ==
  /\ at = "asleep"
  /\ Due
  /\ failed => save = "ripe"
  /\ at' = IF wire = <<>> THEN "turning" ELSE "reading"
  /\ roused' = PeaksReady
  /\ IF save = "ripe" THEN save' = "off" /\ unsaved' = FALSE
                      ELSE UNCHANGED <<save, unsaved>>
  /\ Redrawn(failed)
  /\ UNCHANGED <<wire, compositorVars, windowVars, dims, lastPainted, callback, dying, idleVars,
                 meters, lit, fading>>

\* One event, by its kind. A read ends after any of them, where its last whole
\* event is.
Take(on) ==
  /\ at \in {"reading", "turning"}
  /\ wire # <<>>
  /\ Head(wire).on = on
  /\ wire' = Tail(wire)
  /\ at' = "turning"
  /\ UNCHANGED <<compositorVars, roused, idleVars>>

ReadToplevel ==
  /\ Take("toplevel")
  /\ width' = Head(wire).arg
  /\ Redrawn(width' # width)
  /\ UNCHANGED <<configured, scale, pending, dims, lastPainted, callback, dying, timerVars>>

\* A newer configure replaces one that is not acked.
ReadConfigure ==
  /\ Take("configure")
  /\ pending' = TRUE
  /\ configured' = TRUE
  /\ Redrawn(TRUE)
  /\ UNCHANGED <<width, scale, dims, lastPainted, callback, dying, timerVars>>

\* Broken variant of ReadScale: a new scale waits for something to repaint.
ReadScaleQuietly ==
  /\ Take("scale")
  /\ scale' = Head(wire).arg
  /\ UNCHANGED <<configured, width, pending, dirty, slots, dims, lastPainted, callback,
                 dying, timerVars>>

ReadScale ==
  /\ Take("scale")
  /\ scale' = Head(wire).arg
  /\ Redrawn(scale' # scale)
  /\ UNCHANGED <<configured, width, pending, dims, lastPainted, callback, dying, timerVars>>

ReadDone ==
  /\ Take("done")
  /\ IF callback # 0 /\ Head(wire).arg = callback
     THEN callback' = 0 /\ dying' = dying \cup {callback}
     ELSE UNCHANGED <<callback, dying>>
  /\ UNCHANGED <<windowVars, dirty, slots, dims, lastPainted, timerVars>>

\* A release of a buffer that has been destroyed since is no one's.
ReadRelease ==
  /\ Take("release")
  /\ slots' = [s \in Slot |->
                 [slots[s] EXCEPT !.busy = @ /\ slots[s].obj # Head(wire).arg]]
  /\ UNCHANGED <<windowVars, dirty, dims, lastPainted, callback, dying, timerVars>>

ReadDelete ==
  /\ Take("delete")
  /\ dying' = dying \ {Head(wire).arg}
  /\ UNCHANGED <<windowVars, dirty, slots, dims, lastPainted, callback, timerVars>>

\* The input handlers: an edit reaches the reducer, a hover starts a ring.
ReadInput ==
  /\ \/ Take("edit") /\ unsaved' = TRUE /\ UNCHANGED fading
     \/ Take("hover") /\ fading' = TRUE /\ UNCHANGED unsaved
  /\ Redrawn(TRUE)
  /\ UNCHANGED <<windowVars, dims, lastPainted, callback, dying, save, meters, lit>>

-----------------------------------------------------------------------------
(* The end of a turn: what is to be painted, and painting it.              *)

DeviceSize == width * scale

\* ensure_buffers: fresh ones when there are none, or they have another size.
Rebuilds == slots[1].obj = 0 \/ dims # DeviceSize

Used == {slots[s].obj : s \in Slot} \cup {callback} \cup dying

\* new_id: an id the compositor has deleted, or one never used.
NewId(taken) == CHOOSE o \in Object : o \notin taken

FreshSlots ==
  LET first  == NewId(Used)
      second == NewId(Used \cup {first})
  IN  [s \in Slot |-> [obj |-> IF s = 1 THEN first ELSE second, busy |-> FALSE,
                       owed |-> All, body |-> FALSE, bars |-> FALSE]]

Destroyed ==
  IF Rebuilds /\ slots[1].obj # 0 THEN <<slots[1].obj, slots[2].obj>> ELSE <<>>

Wider(a, b) == IF a < b THEN b ELSE a

\* Broken variants of Charged: a buffer the compositor holds is spared, and
\* debts add up.
ChargedIfFree(buffers, change) ==
  [s \in Slot |-> IF buffers[s].busy THEN buffers[s]
                  ELSE [buffers[s] EXCEPT !.owed = Wider(@, change)]]

\* take_owed: both buffers are charged with the change, one is paid.
Charged(buffers, change) ==
  [s \in Slot |-> [buffers[s] EXCEPT !.owed = Wider(@, change)]]

Paid(buffer) ==
  [buffer EXCEPT !.owed = Nothing, !.busy = TRUE, !.bars = TRUE,
                 !.body = @ \/ buffer.owed = All]

Shown == IF screen = None THEN [window |-> 0, destination |-> 0] ELSE screen

\* The turn's changes are settled only by a frame.
Skip(buffers, full, bars) ==
  /\ slots' = buffers
  /\ dirty' = [full |-> full, meters |-> bars]
  /\ UNCHANGED <<dims, lastPainted, callback, dying, request, pending>>

Skipped(buffers, full, bars) == Skip(buffers, full, bars)

\* paint into the first free buffer and commit it, with the ack and the
\* window's size when a configure waits for them. The viewport is told its
\* destination when the buffers are made. With both buffers held nothing is
\* painted, and all stays owed.
Present(buffers, full, bars) ==
  LET made    == IF Rebuilds THEN FreshSlots ELSE buffers
      free    == {s \in Slot : ~made[s].busy}
      charged == Charged(made, IF full THEN All ELSE Meters)
      slot    == IF 1 \in free THEN 1 ELSE 2
      painted == [charged EXCEPT ![slot] = Paid(charged[slot])]
      cb      == NewId(Used \cup {made[s].obj : s \in Slot})
  IN  IF free = {}
      THEN Skipped(buffers, full, bars)
      ELSE /\ slots' = painted
           /\ dims' = DeviceSize
           /\ lastPainted' = slot
           /\ dying' = dying \cup {Destroyed[i] : i \in 1..Len(Destroyed)}
           /\ callback' = cb
           /\ request' = [buffer |-> painted[slot].obj, callback |-> cb,
                          destroyed |-> Destroyed,
                          size |-> DeviceSize,
                          window |-> IF pending THEN width ELSE Shown.window,
                          destination |-> IF Rebuilds THEN width ELSE Shown.destination,
                          whole |-> painted[slot].body /\ painted[slot].bars]
           /\ pending' = FALSE
           /\ dirty' = [full |-> FALSE, meters |-> FALSE]

\* Broken variant of StepMeters: only a fresh peak keeps them stepping.
StepMetersOnPeaks(folded, up) ==
  IF roused \/ meters = "ripe"
  THEN /\ folded => pool
       /\ up \in {folded, lit}
       /\ folded => up
       /\ lit' = up
       /\ meters' = IF folded THEN "armed" ELSE "off"
       /\ pool' = FALSE
  ELSE ~folded /\ up = lit /\ UNCHANGED <<meters, lit, pool>>

\* The bars step when they are due or a peak has woken the loop: each falls,
\* the readings are folded in (unless they are stale or no row shows them),
\* and they are due again while one moved.
StepMeters(folded, up) ==
  IF roused \/ meters = "ripe"
  THEN /\ folded => pool
       /\ up \in {folded, lit}
       /\ folded => up
       /\ lit' = up
       /\ meters' = IF lit \/ folded THEN "armed" ELSE "off"
       /\ pool' = FALSE
  ELSE ~folded /\ up = lit /\ UNCHANGED <<meters, lit, pool>>

\* The buses are drained, which may leave an edit, then meters and fades are
\* stepped, a save is armed on the first edit the disk does not have, and a
\* frame goes out if one is owed and none is being answered.
Finish(edited, folded, up, on) ==
  /\ at = "turning"
  /\ edited => mail
  /\ on => fading
  /\ mail' = FALSE
  /\ StepMeters(folded, up)
  /\ fading' = on
  /\ unsaved' = (unsaved \/ edited)
  /\ save' = IF save = "off" /\ unsaved' THEN "armed" ELSE save
  /\ LET redrawn == mail \/ fading
         moved   == meters' = "armed" /\ (roused \/ meters = "ripe")
         full    == dirty.full \/ redrawn
         bars    == dirty.meters \/ moved
         buffers == [s \in Slot |-> [slots[s] EXCEPT !.body = @ /\ ~redrawn,
                                                     !.bars = @ /\ ~moved]]
     IN  IF callback = 0 /\ configured /\ (full \/ bars)
         THEN Present(buffers, full, bars)
         ELSE Skip(buffers, full, bars)
  /\ at' = "asleep"
  /\ roused' = FALSE
  /\ UNCHANGED <<wire, asked, preferred, held, answering, screen, hidden,
                 configured, width, scale>>

-----------------------------------------------------------------------------
Read ==
  \/ ReadToplevel
  \/ ReadConfigure
  \/ ReadScale
  \/ ReadDone
  \/ ReadRelease
  \/ ReadDelete
  \/ ReadInput

EndTurn == \E edited, folded, up, on \in BOOLEAN : Finish(edited, folded, up, on)

Turn ==
  \/ \E failed \in BOOLEAN : Wake(failed)
  \/ Read
  \/ EndTurn

CompositorStep ==
  \/ \E w \in Width : Configure(w)
  \/ \E s \in Scale : PreferScale(s)
  \/ Receive
  \/ \E o \in Object : Release(o) \/ Answer(o)
  \/ Hide

Next ==
  \/ CompositorStep
  \/ \E on \in Unasked : Input(on)
  \/ Sound
  \/ Post
  \/ Pass
  \/ Turn

\* The loop never stops turning (one read is of a bounded buffer, so a turn
\* ends however much is sent), time passes, and the compositor takes what it is
\* sent and lets go of what it does not show; it answers while the window is
\* in sight.
Fairness ==
  /\ WF_vars(Turn)
  /\ WF_vars(EndTurn)
  /\ WF_vars(Pass /\ save' # save)
  /\ WF_vars(Receive)
  /\ WF_vars(\E o \in Object : Answer(o))
  /\ WF_vars(\E o \in Object : Release(o))

Spec == Init /\ [][Next]_vars /\ Fairness

-----------------------------------------------------------------------------
(* Properties.                                                             *)

\* "two buffers in one pool, alternated so a frame is never painted into memory
\* the compositor is still sampling": a buffer the compositor holds, or is
\* about to, is not a free one, whatever was destroyed, deleted and made
\* again under its id.
HeldIsBusy ==
  \A s \in Slot :
    slots[s].obj # 0 /\ (slots[s].obj \in held \/ (request # None /\ request.buffer = slots[s].obj))
      => slots[s].busy

\* "Each buffer therefore carries its own debt": every frame shows the body and
\* the meters as they are when it is painted, not as they were when its buffer
\* was painted last.
FramesAreWhole ==
  /\ HeldIsBusy
  /\ request # None => request.whole
  /\ screen # None => screen.whole

\* Once the loop sleeps with nothing owed and nothing on its way, the frame on
\* screen has the size, in logical and in device pixels, of the last configure
\* and scale, which is acked.
Settled == at = "asleep" /\ wire = <<>> /\ request = None /\ configured /\ ~dirty.full

SettledSize ==
  Settled => /\ ~pending
             /\ screen # None
             /\ screen.window = asked
             /\ screen.size = asked * preferred

\* No frame goes out before the first configure, which it acks.
FirstFrameAcks == [][request' # None /\ screen = None /\ request = None => pending]_vars

\* A bar that is up is due to fall.
BarsFall == at = "asleep" /\ lit => meters # "off"

\* What is painted is all there is to see, and what moves is painted again.
FramesAreSound == FramesAreWhole /\ BarsFall

\* "a kill or a crash would drop the whole session's edits": an edit is written
\* even in a window whose frames are never answered.
EditsAreSaved == unsaved ~> ~unsaved

\* Messages are taken in a window that cannot paint.
MailIsTaken == mail ~> ~mail

\* What has changed is shown, as long as the window is in sight: "The next
\* release wakes us", and so does the answer to the last frame.
LastFrame == slots[lastPainted]

ChangesAreShown ==
  (configured /\ ~(LastFrame.body /\ LastFrame.bars))
    ~> ((LastFrame.body /\ LastFrame.bars) \/ hidden)

\* Whatever the compositor does, the loop gets to all of it: no wait for a
\* frame or a buffer holds up the saves, the messages or the last picture.
LoopKeepsUp == EditsAreSaved /\ MailIsTaken /\ ChangesAreShown

=============================================================================
