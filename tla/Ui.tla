--------------------------------- MODULE Ui ----------------------------------
(***************************************************************************)
(* Input and overlays: ui/input.rs and ui/mod.rs over the part of the      *)
(* reducer (state.rs) that the dialogs and the palette live in. An event   *)
(* is mapped against the projection of the state as it is (the shell lays  *)
(* it out anew for each), changes the transient state in ui, and sends     *)
(* messages that the reducer takes one after the other: one action an      *)
(* event, from the event to the state after the last of its messages.      *)
(*                                                                         *)
(* The pointer is where it hits something: an event names the target it    *)
(* lands on, out of those the layout has at that moment. The full reducer  *)
(* is module Mixer; the geometry of the targets is module Layout.          *)
(***************************************************************************)
EXTENDS Palette

CONSTANTS
  Source,       \* the streams that may come up: [id, kind, default, muted, target]
  Room,         \* how many rows of the palette a window can have room for
  Clipboard,    \* what a paste may bring
  Default,      \* the name the last profile that is deleted gives way to
  Toggles,      \* caret toggles in a blink run
  MaxProfiles   \* bound: profiles made

ASSUME TogglesAssumption == Toggles \in Nat \ {0}
ASSUME RoomAssumption == Room \subseteq Nat \ {0}
ASSUME TextAssumption == Clipboard \subseteq Seq(Char) /\ Default \in Seq(Char)
ASSUME OverlayAssumption == None \notin [query : Seq(Char), selected : Nat, scroll : Nat]

VARIABLES
  app,    \* the reducer's profiles, active, streams, modal and palette
  ui,     \* the transient state
  sent    \* the messages of the last event

uiVars == <<app, ui, sent>>

-----------------------------------------------------------------------------
(* The reducer: what a message does to the state.                          *)

Msg(op, of, to) == [op |-> op, of |-> of, to |-> to]

OpenPalette == [query |-> <<>>, selected |-> 0, scroll |-> 0]

Dialog(op, old, name) == [op |-> op, old |-> old, name |-> name]

RowsOf(a) == IF a.palette = None THEN <<>> ELSE PaletteRows(a.profiles, a.streams, a.palette.query)

StreamIds(a) == {s.id : s \in a.streams}

WithStream(a, id, Change(_)) ==
  [a EXCEPT !.streams = {IF s.id = id THEN Change(s) ELSE s : s \in a.streams}]

\* A dialog owns focus, and the palette is not stacked on it.
Toggled(a) ==
  CASE a.palette # None                    -> [a EXCEPT !.palette = None]
    [] a.palette = None /\ a.modal = None  -> [a EXCEPT !.palette = OpenPalette]
    [] OTHER                               -> a

Queried(a, query) ==
  IF a.palette = None THEN a ELSE [a EXCEPT !.palette = [OpenPalette EXCEPT !.query = query]]

\* The selection moves within the rows there are, and the window with it.
Selected(a, Step(_, _)) ==
  LET count == Len(RowsOf(a))
      at    == Step(a.palette.selected, count - 1)
  IN CASE a.palette = None -> a
       [] a.palette # None /\ count = 0 ->
            [a EXCEPT !.palette.selected = 0, !.palette.scroll = 0]
       [] OTHER ->
            [a EXCEPT !.palette.selected = at,
                      !.palette.scroll = ScrollIntoView(a.palette.scroll, at, VisibleRows)]

ScrolledTo(a, row) == IF a.palette = None THEN a ELSE [a EXCEPT !.palette.scroll = row]

Opened(a, op, name) ==
  CASE op = "create"           -> [a EXCEPT !.modal = Dialog("create", None, <<>>)]
    [] op # "create" /\ Contains(a.profiles, name) ->
         [a EXCEPT !.modal = Dialog(op, name, IF op = "rename" THEN name ELSE <<>>)]
    [] OTHER                   -> a

Named(a, text) ==
  IF a.modal = None \/ a.modal.op = "delete" THEN a ELSE [a EXCEPT !.modal.name = text]

\* The name without the blanks around it.
Trimmed(text) ==
  LET solid == {i \in DOMAIN text : text[i] # Space}
  IN IF solid = {} THEN <<>>
     ELSE SubSeq(text, CHOOSE i \in solid : \A j \in solid : i <= j,
                       CHOOSE i \in solid : \A j \in solid : j <= i)

Created(a, name) ==
  [a EXCEPT !.modal = None, !.active = name,
            !.profiles = IF Contains(a.profiles, name) THEN a.profiles ELSE Append(a.profiles, name)]

\* The active mark follows the name.
Renamed(a, old, name) ==
  [a EXCEPT !.modal = None,
            !.active = IF a.active = old THEN name ELSE a.active,
            !.profiles = ReplaceAll(a.profiles, old, name)]

\* Broken variant of Removed: the dialog stays.
RemovedKeeping(a, name) ==
  LET rest == RemoveFirst(a.profiles, name)
  IN [a EXCEPT !.profiles = IF rest = <<>> THEN <<Default>> ELSE rest]

\* A name is one profile's. Deleting the last profile brings the default back.
Removed(a, name) ==
  LET rest == RemoveFirst(a.profiles, name)
      left == IF rest = <<>> THEN <<Default>> ELSE rest
  IN [a EXCEPT !.modal = None, !.profiles = left,
               !.active = IF a.active = name THEN left[1] ELSE a.active]

\* A blank name and a name that is taken keep the dialog open.
Confirmed(a) ==
  LET name == Trimmed(a.modal.name) IN
  CASE a.modal = None -> a
    [] a.modal # None /\ a.modal.op = "delete" -> Removed(a, a.modal.old)
    [] a.modal # None /\ a.modal.op # "delete" /\ name = <<>> -> a
    [] a.modal # None /\ a.modal.op = "create" /\ name # <<>> -> Created(a, name)
    [] a.modal # None /\ a.modal.op = "rename" /\ name # <<>> ->
         CASE name = a.modal.old                               -> [a EXCEPT !.modal = None]
           [] name # a.modal.old /\ Contains(a.profiles, name) -> a
           [] OTHER                                            -> Renamed(a, a.modal.old, name)

\* A profile dropped before or after another one: what stood behind it has moved
\* up by one once it is out.
Reordered(a, name, target, before) ==
  LET src     == SelectInSeq(a.profiles, LAMBDA n : n = name)
      at      == SelectInSeq(a.profiles, LAMBDA n : n = target)
      desired == IF before THEN at ELSE at + 1
      insert  == IF src < desired THEN desired - 1 ELSE desired
  IN IF name = target \/ ~Contains(a.profiles, name) \/ ~Contains(a.profiles, target) THEN a
     ELSE [a EXCEPT !.profiles = InsertAt(RemoveAt(@, src), insert, name)]

Reduced(a, m) ==
  CASE m.op = "toggle"  -> Toggled(a)
    [] m.op = "query"   -> Queried(a, m.of)
    [] m.op = "prev"    -> Selected(a, LAMBDA at, last : IF at = 0 THEN last ELSE at - 1)
    [] m.op = "next"    -> Selected(a, LAMBDA at, last : IF at >= last THEN 0 ELSE at + 1)
    [] m.op = "scroll"  -> ScrolledTo(a, m.of)
    [] m.op \in {"create", "rename", "delete"} -> Opened(a, m.op, m.of)
    [] m.op = "name"    -> Named(a, m.of)
    [] m.op = "confirm" -> Confirmed(a)
    [] m.op = "dismiss" -> [a EXCEPT !.modal = None]
    [] m.op = "apply"   -> IF Contains(a.profiles, m.of) THEN [a EXCEPT !.active = m.of] ELSE a
    [] m.op = "before"  -> Reordered(a, m.of, m.to, TRUE)
    [] m.op = "after"   -> Reordered(a, m.of, m.to, FALSE)
    [] m.op \in {"mute", "unmute"} -> WithStream(a, m.of, LAMBDA s : [s EXCEPT !.muted = ~s.muted])
    [] m.op = "pin"     -> WithStream(a, m.of, LAMBDA s : [s EXCEPT !.target = m.to])
    [] m.op = "unpin"   -> WithStream(a, m.of, LAMBDA s : [s EXCEPT !.target = None])
    [] m.op = "reset"   -> [a EXCEPT !.streams = {[s EXCEPT !.target = None] : s \in a.streams}]
    [] m.op = "stream" -> [a EXCEPT !.streams = {x \in @ : x.id # m.of.id} \cup {m.of}]
    [] m.op = "gone"   -> [a EXCEPT !.streams = {x \in @ : x.id # m.of}]
    [] m.op \in {"volume", "default"} -> a   \* told to the server, whose echo brings it

\* What an event sends, one message after the other.
Sends(messages) == sent' = messages

\* The reducer takes them in that order; an event sends two at most.
Taken(a, messages) ==
  CASE messages = <<>>    -> a
    [] Len(messages) = 1  -> Reduced(a, messages[1])
    [] OTHER              -> Reduced(Reduced(a, messages[1]), messages[2])

Reduces ==
  /\ app' = Taken(app, sent')
  /\ Len(app'.profiles) <= MaxProfiles

\* A row of the palette sends its command.
Activated(c) == Msg(c.verb, c.of, c.to)

-----------------------------------------------------------------------------
(* What the pointer can land on, of a projection of the state.             *)

Target(on, of) == <<on, of>>

Nothing == Target("nothing", None)

\* Every row has a fader and a mute button, a device the heading that makes
\* it the default, and an app a pin for each sink once there are two.
ColumnTargets(a) ==
  LET sinks == {s \in a.streams : s.kind = "sink"}
      pins(s) == IF s.kind # "app" \/ Cardinality(sinks) < 2 THEN {}
                 ELSE {Target("button", IF s.target = k.id THEN Msg("unpin", s.id, None)
                                                          ELSE Msg("pin", s.id, k.id)) : k \in sinks}
      heading(s) == IF s.kind = "app" THEN {} ELSE {Target("button", Msg("default", s.id, None))}
  IN UNION {{Target("slider", s.id), Target("mute", s.id)} \cup pins(s) \cup heading(s) : s \in a.streams}

MenuTargets(a, u) ==
  IF ~u.menu THEN {}
  ELSE {Target("profile", n) : n \in ToSet(a.profiles)} \cup {Target("button", Msg("create", None, None))}

\* The rows of the palette that are on screen, counted from 0 in the list.
Window(a, u) ==
  LET total == Len(RowsOf(a))
      first == FirstVisible(total, u.room, a.palette.scroll, a.palette.selected)
  IN first .. first + Capacity(total, u.room) - 1

PaletteTargets(a, u) == {Target("query", None)} \cup {Target("row", i) : i \in Window(a, u)}

DialogTargets(a) ==
  {Target("confirm", None), Target("cancel", None)}
  \cup (IF a.modal.op = "delete" THEN {} ELSE {Target("name", None)})

\* An overlay's backdrop covers everything it does not put there itself.
OpenColumns(a) == a.modal = None /\ a.palette = None

OverlayTargets(a, u) ==
  (IF a.modal # None THEN DialogTargets(a) ELSE PaletteTargets(a, u)) \cup {Target("backdrop", None)}

Targets(a, u) ==
  IF OpenColumns(a) THEN ColumnTargets(a) \cup MenuTargets(a, u) \cup {Target("selector", None), Nothing}
  ELSE OverlayTargets(a, u)

\* Whether the focused overlay has a field on screen.
HasField(a, u) ==
  \/ u.focus = "palette" /\ a.palette # None
  \/ u.focus = "modal" /\ a.modal # None /\ a.modal.op # "delete"

-----------------------------------------------------------------------------
(* The transient state.                                                    *)

Focused(u) == u.focus # "body"

Woken(u) == [u EXCEPT !.visible = TRUE, !.left = Toggles]

\* What tells the reducer of an edit: nothing, if no overlay has the focus.
EditorMessage(u) ==
  CASE u.focus = "palette" -> <<Msg("query", u.editor.text, None)>>
    [] u.focus = "modal"   -> <<Msg("name", u.editor.text, None)>>
    [] OTHER               -> <<>>

Told(u, tell) == IF tell THEN EditorMessage(u) ELSE <<>>

\* The editing keys: the field each leaves, and whether it reports a change.
EditKeys(f) ==
  {<<Inserted(f, c), InsertTakes(f, c)>> : c \in Char}
  \cup {<<Backspaced(f), TRUE>>, <<DeletedAhead(f), TRUE>>, <<AllSelected(f), FALSE>>}
  \cup UNION {{<<MovedLeft(f, shift), FALSE>>, <<MovedRight(f, shift), FALSE>>,
               <<MovedHome(f, shift), FALSE>>, <<MovedEnd(f, shift), FALSE>>} : shift \in BOOLEAN}

Volume(id) == <<Msg("volume", id, None)>>

-----------------------------------------------------------------------------
(* Keys.                                                                   *)

\* Ctrl+K with the mixer in focus.
OpenPaletteKey ==
  /\ ui.focus = "body"
  /\ ui' = Woken([ui EXCEPT !.focus = "palette", !.editor = Cleared])
  /\ Sends(<<Msg("toggle", None, None)>>)

\* M mutes the row under the pointer.
MuteKey ==
  /\ ui.focus = "body"
  /\ ui.hover[1] \in {"slider", "mute"}
  /\ Sends(<<Msg("mute", ui.hover[2], None)>>)
  /\ UNCHANGED ui

Escape ==
  /\ Focused(ui)
  /\ ui' = [ui EXCEPT !.focus = "body"]
  /\ Sends(<<IF ui.focus = "palette" THEN Msg("toggle", None, None) ELSE Msg("dismiss", None, None)>>)

\* Enter in the palette runs the row that is highlighted, if any row is.
RunCommand ==
  /\ ui.focus = "palette"
  /\ ui' = [ui EXCEPT !.focus = "body"]
  /\ LET rows == RowsOf(app)
         row  == rows[ShownSelected(Len(rows), app.palette.selected) + 1]
     IN Sends((IF rows = <<>> THEN <<>> ELSE <<Activated(row)>>) \o <<Msg("toggle", None, None)>>)

ConfirmKey ==
  /\ ui.focus = "modal"
  /\ ui' = Woken(ui)
  /\ Sends(<<Msg("confirm", None, None)>>)

Arrow ==
  /\ ui.focus = "palette"
  /\ ui' = Woken(ui)
  /\ \E op \in {"prev", "next"} : Sends(<<Msg(op, None, None)>>)

Edit ==
  /\ Focused(ui)
  /\ \E k \in EditKeys(ui.editor) :
       /\ ui' = Woken([ui EXCEPT !.editor = k[1]])
       /\ Sends(Told(ui', k[2]))

Cut ==
  /\ Focused(ui)
  /\ Selects(ui.editor)
  /\ ui' = [ui EXCEPT !.editor = WithoutSelection(ui.editor)]
  /\ Sends(EditorMessage(ui'))

Paste(text) ==
  /\ Focused(ui)
  /\ ui' = [ui EXCEPT !.editor = Pasted(ui.editor, text)]
  /\ Sends(Told(ui', PasteFits(ui.editor, text)))

KeyStep ==
  \/ OpenPaletteKey \/ MuteKey \/ Escape \/ RunCommand \/ ConfirmKey \/ Arrow \/ Edit \/ Cut
  \/ \E text \in Clipboard : Paste(text)

-----------------------------------------------------------------------------
(* The pointer.                                                            *)

\* Broken variant of MovedBy: a fader follows the row under the pointer.
MovedByHover(to) ==
  IF ui.drag.is = "slider" /\ to[1] = "slider" THEN Volume(to[2]) ELSE <<>>

\* What a fader in the hand says: nothing once its row is gone.
MovedBy(to) ==
  IF ui.drag.is = "slider" /\ ui.drag.of \in StreamIds(app) THEN Volume(ui.drag.of) ELSE <<>>

\* A motion, a drag's too. A text drag follows the field it began in.
Motion(to, at) ==
  /\ ui' = [ui EXCEPT !.hover = to,
             !.editor = IF ui.drag.is = "text" /\ HasField(app, ui) THEN Dragged(@, at) ELSE @]
  /\ Sends(MovedBy(to))

NoDrag == [is |-> "none", of |-> None]

Grip(is, of) == [is |-> is, of |-> of]

PressSlider(id) ==
  /\ OpenColumns(app) /\ id \in StreamIds(app)
  /\ ui' = [ui EXCEPT !.drag = Grip("slider", id)]
  /\ Sends(Volume(id))

PressSelector ==
  /\ OpenColumns(app)
  /\ ui' = [ui EXCEPT !.menu = ~@]
  /\ Sends(<<>>)

\* Nothing is applied until the release tells a click from a reorder.
PressProfile(name) ==
  /\ OpenColumns(app) /\ ui.menu /\ name \in ToSet(app.profiles)
  /\ ui' = [ui EXCEPT !.drag = Grip("profile", name)]
  /\ Sends(<<>>)

\* The chain of clicks is the time's and the pointer's: any count may come.
PressField(on, at, clicks) ==
  /\ IF on = "query" THEN app.modal = None /\ app.palette # None
                     ELSE app.modal # None /\ app.modal.op # "delete"
  /\ ui' = Woken([ui EXCEPT !.focus = IF on = "query" THEN "palette" ELSE "modal",
                   !.editor = Clicked(@, at, clicks), !.drag = Grip("text", None)])
  /\ Sends(<<>>)

PressRow(i) ==
  /\ app.modal = None /\ app.palette # None /\ i \in Window(app, ui)
  /\ ui' = [ui EXCEPT !.focus = "body"]
  /\ Sends(<<Activated(RowsOf(app)[i + 1]), Msg("toggle", None, None)>>)

\* Confirm and Cancel leave the focus where it is.
PressDialogButton(on) ==
  /\ app.modal # None
  /\ Sends(<<IF on = "confirm" THEN Msg("confirm", None, None) ELSE Msg("dismiss", None, None)>>)
  /\ UNCHANGED ui

\* Pressing beside an overlay's fields dismisses it.
PressBackdrop ==
  /\ ~OpenColumns(app)
  /\ ui' = [ui EXCEPT !.focus = "body"]
  /\ Sends(<<IF app.modal # None THEN Msg("dismiss", None, None) ELSE Msg("toggle", None, None)>>)

PressButton(m) ==
  /\ OpenColumns(app) /\ Target("button", m) \in ColumnTargets(app) \cup MenuTargets(app, ui)
  /\ Sends(<<m>>)
  /\ UNCHANGED ui

PressMute(id) ==
  /\ OpenColumns(app) /\ id \in StreamIds(app)
  /\ Sends(<<Msg("mute", id, None)>>)
  /\ UNCHANGED ui

PressNothing ==
  /\ OpenColumns(app)
  /\ ui' = [ui EXCEPT !.menu = FALSE]
  /\ Sends(<<>>)

\* A profile let go of over its own row is applied, over another one moved
\* before or after it, and off the menu left alone.
Dropped(over, before) ==
  CASE ui.drag.is # "profile" \/ ~ui.menu \/ over = None -> <<>>
    [] ui.drag.is = "profile" /\ ui.menu /\ over = ui.drag.of -> <<Msg("apply", over, None)>>
    [] OTHER -> <<Msg(IF before THEN "before" ELSE "after", ui.drag.of, over)>>

Release(over, before) ==
  /\ ui.drag # NoDrag
  /\ ui' = [ui EXCEPT !.drag = NoDrag, !.menu = @ /\ Dropped(over, before) = <<>>]
  /\ Sends(Dropped(over, before))

\* The wheel over the palette, in whole rows: it is held to the list.
Wheel(rows) ==
  LET total == Len(RowsOf(app))
      first == FirstVisible(total, ui.room, app.palette.scroll, app.palette.selected)
      last  == total - Capacity(total, ui.room)
      next  == Smaller(Larger(first + rows, 0), last)
  IN /\ app.palette # None
     /\ Sends(IF next = first THEN <<>> ELSE <<Msg("scroll", next, None)>>)
     /\ UNCHANGED ui

PointerStep ==
  \/ \E to \in Targets(app, ui) \cup {Nothing}, at \in 0 .. Len(ui.editor.text) : Motion(to, at)
  \/ \E id \in StreamIds(app) : PressSlider(id) \/ PressMute(id)
  \/ PressSelector
  \/ \E name \in ToSet(app.profiles) : PressProfile(name)
  \/ \E on \in {"query", "name"}, at \in 0 .. Len(ui.editor.text), clicks \in 1 .. 3 : PressField(on, at, clicks)
  \/ app.palette # None /\ \E i \in Window(app, ui) : PressRow(i)
  \/ \E on \in {"confirm", "cancel"} : PressDialogButton(on)
  \/ PressBackdrop
  \/ \E t \in ColumnTargets(app) \cup MenuTargets(app, ui) : t[1] = "button" /\ PressButton(t[2])
  \/ PressNothing
  \/ \E over \in ToSet(app.profiles) \cup {None}, before \in BOOLEAN : Release(over, before)
  \/ \E rows \in {-1, 1} : Wheel(rows)

-----------------------------------------------------------------------------
(* Everything else: the worker, the clock and the window.                  *)

\* A stream comes up or changes.
StreamCame(s) ==
  /\ Sends(<<Msg("stream", s, None)>>)
  /\ UNCHANGED ui

\* A row leaves: a device or a ping at once, an app's with its ghost.
StreamGone(id) ==
  /\ Sends(<<Msg("gone", id, None)>>)
  /\ UNCHANGED ui

\* One step of the blink: off focus the caret settles shown with a full run
\* ready, and the last toggle of a run lands shown.
Blink ==
  /\ ui' = CASE ~Focused(ui) -> [ui EXCEPT !.visible = TRUE, !.left = Toggles]
             [] Focused(ui) /\ ui.left = 0 -> [ui EXCEPT !.visible = TRUE]
             [] OTHER -> [ui EXCEPT !.left = @ - 1, !.visible = ui.left = 1 \/ ~@]
  /\ Sends(<<>>)

\* The window lost the keyboard.
RestCaret ==
  /\ ui' = [ui EXCEPT !.visible = TRUE, !.left = 0]
  /\ Sends(<<>>)

Resize(room) ==
  /\ ui' = [ui EXCEPT !.room = room]
  /\ Sends(<<>>)

UiInit ==
  /\ app = [profiles |-> <<Default>>, active |-> Default, streams |-> {}, modal |-> None, palette |-> None]
  /\ \E room \in Room :
       ui = [focus |-> "body", editor |-> Cleared, menu |-> FALSE, drag |-> NoDrag, hover |-> Nothing,
             visible |-> TRUE, left |-> Toggles, room |-> room]
  /\ sent = <<>>

UiStep ==
  \/ KeyStep
  \/ PointerStep
  \/ \E s \in Source : StreamCame(s)
  \/ \E id \in StreamIds(app) : StreamGone(id)
  \/ Blink
  \/ RestCaret
  \/ \E room \in Room : Resize(room)

UiNext == UiStep /\ Reduces

UiSpec == UiInit /\ [][UiNext]_uiVars

-----------------------------------------------------------------------------
(* Properties.                                                             *)

\* Caret and anchor stand in the field's text and the text fits it, after any
\* sequence of keys, clicks, drags, cuts and pastes in whatever overlay.
FieldStaysSound == FieldSound(ui.editor)

\* The palette is open only with the keyboard in it, so that Escape and Enter
\* always find their way back to the mixer, and the reducer filters by what
\* the field shows. Both hold as long as Ctrl+K is not pressed behind a dialog,
\* which the code lets through to open the palette under it. A character that
\* takes the place of a selection in a full field is refused after the selection
\* has gone, and the reducer hears of neither: a full query is left out.
PaletteTakesKeys ==
  app.palette # None =>
    /\ ui.focus = "palette"
    /\ Bytes(app.palette.query) < MaxBytes => app.palette.query = ui.editor.text

\* Two overlays are never open together.
OneOverlay == app.palette = None \/ app.modal = None

\* A dialog that renames or deletes a profile names one there is: nothing
\* behind it can take the profile away.
DialogNamesAProfile ==
  app.modal # None /\ app.modal.op # "create" => Contains(app.profiles, app.modal.old)

\* The row Enter would run is one of those on screen, whatever rows come and
\* go under the selection, however far the wheel went and the window shrank.
HighlightShown ==
  app.palette # None /\ RowsOf(app) # <<>> =>
    /\ ShownSelected(Len(RowsOf(app)), app.palette.selected) \in Window(app, ui)
    /\ Window(app, ui) \subseteq 0 .. Len(RowsOf(app)) - 1

\* A fader in the hand speaks for the row it was taken by, as long as that
\* row is there, and for no other one.
DragsKeepTheirRow ==
  [][\A i \in DOMAIN sent' : sent'[i].op = "volume" =>
       sent'[i].of = ui'.drag.of /\ ui'.drag.is = "slider" /\ sent'[i].of \in StreamIds(app)]_uiVars

=============================================================================
