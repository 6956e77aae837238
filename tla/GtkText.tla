-------------------------------- MODULE GtkText --------------------------------
(***************************************************************************)
(* A text field in the GTK shell (src/gtk_shell/app.rs): the editor in the *)
(* UI state and the copy of its text in the reducer's overlay. A typed key *)
(* is reduced at once, a cut or a paste is told over the message bus, and  *)
(* a paste lands when GDK has read the clipboard.                          *)
(*                                                                         *)
(* A text is a version number: every edit makes a new one, 0 is the empty  *)
(* text. The field is the palette's; a dialog's goes the same ways once it *)
(* has the focus (how it gets it is in module Ui).                         *)
(***************************************************************************)
EXTENDS Naturals, Sequences

CONSTANTS
  MaxText,   \* bound: edits
  MaxTold,   \* bound: messages on the bus
  Closed     \* the copy of an overlay that is not open

ASSUME ClosedAssumption == Closed \notin Nat

VARIABLES
  text,     \* the version the editor holds
  newest,   \* the latest version made
  copy,     \* the overlay's copy while it is open with the focus, or Closed
  asking,   \* whether a paste waits for GDK
  told,     \* the texts on the bus, oldest first
  overtaken \* whether a key has been reduced ahead of a text on the bus

gtkTextVars == <<text, newest, copy, asking, told, overtaken>>

-----------------------------------------------------------------------------
GtkTextInit ==
  /\ text = 0 /\ newest = 0
  /\ copy = Closed
  /\ asking = FALSE /\ told = <<>> /\ overtaken = FALSE

Edited ==
  /\ newest < MaxText
  /\ newest' = newest + 1
  /\ text' = newest'

\* Ctrl+K in the body empties the editor and opens the palette.
OpenField ==
  /\ copy = Closed
  /\ text' = 0 /\ copy' = 0
  /\ overtaken' = (told # <<>>)
  /\ UNCHANGED <<newest, asking, told>>

CloseField ==
  /\ copy # Closed
  /\ copy' = Closed
  /\ UNCHANGED <<text, newest, asking, told, overtaken>>

\* A key that changes the text is reduced in the same callback.
TypeKey ==
  /\ copy # Closed
  /\ Edited
  /\ copy' = text'
  /\ overtaken' = (told # <<>>)
  /\ UNCHANGED <<asking, told>>

\* editor_text_message: none without an overlay that has the focus.
TellText ==
  IF copy = Closed THEN UNCHANGED told
  ELSE Len(told) < MaxTold /\ told' = Append(told, text')

\* A cut of a selection, which takes a text to select.
CutKey ==
  /\ copy # Closed
  /\ text # 0
  /\ Edited
  /\ TellText
  /\ UNCHANGED <<copy, asking, overtaken>>

PasteKey ==
  /\ copy # Closed
  /\ asking' = TRUE
  /\ UNCHANGED <<text, newest, copy, told, overtaken>>

\* A turn or more later the text goes to the editor as it is by then, which may
\* be that of no overlay or of one opened since.
PasteLands ==
  /\ asking
  /\ asking' = FALSE
  /\ Edited
  /\ TellText
  /\ UNCHANGED <<copy, overtaken>>

\* The clipboard held no text, or nothing of it fits.
PasteFails ==
  /\ asking
  /\ asking' = FALSE
  /\ UNCHANGED <<text, newest, copy, told, overtaken>>

\* A batch off the bus is reduced in order; an overlay that has closed takes none.
ReadTold ==
  /\ told # <<>>
  /\ told' = <<>>
  /\ copy' = IF copy = Closed THEN Closed ELSE told[Len(told)]
  /\ UNCHANGED <<text, newest, asking, overtaken>>

GtkTextNext ==
  \/ OpenField
  \/ CloseField
  \/ TypeKey
  \/ CutKey
  \/ PasteKey
  \/ PasteLands
  \/ PasteFails
  \/ ReadTold

GtkTextSpec == GtkTextInit /\ [][GtkTextNext]_gtkTextVars

-----------------------------------------------------------------------------
(* Properties.                                                             *)

\* "the message then carries what the editor now holds": once the bus is read
\* the overlay has the editor's text.
CopyIsTheText == copy # Closed /\ told = <<>> => copy = text

\* So it has unless a key, or the palette opened again, came between the edit and
\* the reading of its message.
CopyFollows == ~overtaken => CopyIsTheText

=============================================================================
