-------------------------------- MODULE MCUi ---------------------------------
(***************************************************************************)
(* Small instances of the input mapping: two letters and a blank, of which *)
(* one is wide in the dialogs, an app and two sinks that come and go, a    *)
(* palette that shows two rows of at most four.                            *)
(***************************************************************************)
EXTENDS Ui

VARIABLE scene

\* A verb and a subject, told apart by their first letters.
Written ==
  [v \in {"create", "apply", "rename", "delete", "default", "mute", "unmute", "unpin", "pin", "reset"} |->
     CASE v \in {"create", "rename", "delete"} -> <<"a", " ">>
       [] v \in {"mute", "unmute", "pin"} -> <<"b", " ">>
       [] OTHER -> <<"b", "a", " ">>]

Streams == 1 :> <<"a">> @@ 2 :> <<"b">> @@ 3 :> <<"a", "b">>

Row(id, kind) == [id |-> id, kind |-> kind, default |-> FALSE, muted |-> FALSE, target |-> None]

ComingRows == {Row(1, "sink"), Row(2, "sink"), Row(3, "app")}

Pastes == {<<"a", "a">>}

DefaultName == <<"a">>

\* Ctrl+K with no dialog open. Behind one it makes the scene go astray.
OpensAtHand == app.modal = None /\ OpenPaletteKey

\* The palette over rows that come and go, typed in at the end only.
ListStep ==
  \/ OpensAtHand \/ Escape \/ RunCommand \/ Arrow \/ PressBackdrop
  \/ Edit /\ ui'.editor.cursor = Len(ui'.editor.text) /\ ui'.editor.anchor = None
  \/ app.palette # None /\ \E i \in Window(app, ui) : PressRow(i)
  \/ \E rows \in {-1, 1} : Wheel(rows)
  \/ \E s \in Source : StreamCame(s)
  \/ \E id \in StreamIds(app) : StreamGone(id)
  \/ \E room \in Room : Resize(room)

\* Everything a field takes, in the palette and in a dialog.
FieldStep ==
  \/ OpensAtHand \/ Escape \/ Edit \/ Cut \/ Blink \/ RestCaret
  \/ \E text \in Clipboard : Paste(text)
  \/ \E on \in {"query", "name"}, at \in 0 .. Len(ui.editor.text), clicks \in 1 .. 3 : PressField(on, at, clicks)
  \/ \E at \in 0 .. Len(ui.editor.text) : Motion(Nothing, at)
  \/ Release(None, FALSE)
  \/ PressSelector \/ PressButton(Msg("create", None, None))

\* Profiles made, renamed, deleted, applied and moved, by menu and palette.
DialogStep ==
  \/ OpensAtHand \/ Escape \/ RunCommand \/ Arrow \/ ConfirmKey \/ PressBackdrop
  \/ Edit /\ ui'.editor.cursor = Len(ui'.editor.text) /\ ui'.editor.anchor \in {None, 0} /\ ui.focus = "modal"
  \/ \E on \in {"confirm", "cancel"} : PressDialogButton(on)
  \/ PressField("name", Len(ui.editor.text), 1)
  \/ PressSelector \/ PressNothing
  \/ \E name \in ToSet(app.profiles) : PressProfile(name)
  \/ \E over \in ToSet(app.profiles) \cup {None}, before \in BOOLEAN : Release(over, before)
  \/ PressButton(Msg("create", None, None))

\* What is left of the overlays' order then.
AstrayStep ==
  \/ OpenPaletteKey \/ Escape \/ RunCommand \/ Arrow \/ ConfirmKey \/ PressBackdrop
  \/ \E on \in {"confirm", "cancel"} : PressDialogButton(on)
  \/ PressSelector \/ PressNothing
  \/ PressButton(Msg("create", None, None))

\* Faders in the hand while rows and the palette come and go.
DragStep ==
  \/ OpensAtHand \/ Escape \/ MuteKey
  \/ \E to \in Targets(app, ui) \cup {Nothing} : Motion(to, 0)
  \/ \E id \in StreamIds(app) : PressSlider(id) \/ PressMute(id) \/ StreamGone(id)
  \/ \E t \in ColumnTargets(app) \cup MenuTargets(app, ui) : t[1] = "button" /\ PressButton(t[2])
  \/ PressBackdrop
  \/ Release(None, FALSE)
  \/ \E s \in Source : StreamCame(s)

vars == <<uiVars, scene>>

SceneInit == UiInit /\ scene \in {"list", "fields", "dialogs", "drags"}

SceneStep ==
  \/ /\ UNCHANGED scene
     /\ \/ scene = "list" /\ ListStep
        \/ scene = "fields" /\ FieldStep
        \/ scene = "dialogs" /\ DialogStep
        \/ scene = "drags" /\ DragStep
        \/ scene = "astray" /\ AstrayStep
  \/ /\ scene = "dialogs" /\ app.modal # None
     /\ OpenPaletteKey
     /\ scene' = "astray"

SceneNext == SceneStep /\ Reduces

SceneSpec == SceneInit /\ [][SceneNext]_vars

\* Until Ctrl+K has been pressed behind a dialog, the palette and the keyboard
\* go together (see PaletteTakesKeys).
PaletteTakesKeysAtHand == scene # "astray" => PaletteTakesKeys

\* The reducer's overlays, the keyboard's focus and what is on screen go
\* together, whatever order keys, presses and rows come in.
OverlaysAgree ==
  PaletteTakesKeysAtHand /\ OneOverlay /\ DialogNamesAProfile /\ HighlightShown

=============================================================================
