------------------------------- MODULE Editor --------------------------------
(***************************************************************************)
(* The text field of the overlays: ui/editor.rs. A field is a record of    *)
(* its text, the caret and the anchor a selection started from; positions  *)
(* count characters, the capacity counts bytes. A character is a model     *)
(* value that is narrow or Wide (two bytes), part of a word or not.        *)
(***************************************************************************)
EXTENDS Integers, FiniteSets, SequencesExt

CONSTANTS
  Char,       \* the characters that can be typed or pasted
  Wide,       \* those that take two bytes
  WordChar,   \* those a double click takes together
  MaxBytes,   \* capacity of a field
  None

ASSUME CharAssumption == Wide \subseteq Char /\ WordChar \subseteq Char
ASSUME MaxBytesAssumption == MaxBytes \in Nat
ASSUME NoneAssumption == None \notin Nat

Bytes(text) == Len(text) + Cardinality({i \in DOMAIN text : text[i] \in Wide})

Smaller(a, b) == IF a <= b THEN a ELSE b

Larger(a, b) == IF a <= b THEN b ELSE a

Cleared == [text |-> <<>>, cursor |-> 0, anchor |-> None]

\* An anchor at the caret is not a selection.
Selects(f) == f.anchor # None /\ f.anchor # f.cursor

Start(f) == Smaller(f.anchor, f.cursor)

Stop(f) == Larger(f.anchor, f.cursor)

\* The text with the characters from..to-1 replaced by s.
Spliced(text, from, to, s) == SubSeq(text, 1, from) \o s \o SubSeq(text, to + 1, Len(text))

WithoutSelection(f) ==
  [text |-> Spliced(f.text, Start(f), Stop(f), <<>>), cursor |-> Start(f), anchor |-> None]

Deleted(f) == IF Selects(f) THEN WithoutSelection(f) ELSE f

\* Broken variant of Inserted: the caret moves past a character that did not fit.
InsertedRegardless(f, c) ==
  LET d == Deleted(f) IN
  IF Bytes(d.text \o <<c>>) > MaxBytes
  THEN [d EXCEPT !.cursor = d.cursor + 1, !.anchor = None]
  ELSE [text |-> Spliced(d.text, d.cursor, d.cursor, <<c>>), cursor |-> d.cursor + 1, anchor |-> None]

\* The selection goes first, then the character if there is room for it.
Inserted(f, c) ==
  LET d == Deleted(f) IN
  IF Bytes(d.text \o <<c>>) > MaxBytes
  THEN [d EXCEPT !.anchor = None]
  ELSE [text |-> Spliced(d.text, d.cursor, d.cursor, <<c>>), cursor |-> d.cursor + 1, anchor |-> None]

\* What insert returns, which is what decides whether state hears of the edit.
InsertTakes(f, c) == Bytes(Deleted(f).text \o <<c>>) <= MaxBytes

PasteFits(f, s) == Bytes(Deleted(f).text \o s) <= MaxBytes

\* All or nothing.
Pasted(f, s) ==
  LET d == Deleted(f) IN
  IF PasteFits(f, s)
  THEN [text |-> Spliced(d.text, d.cursor, d.cursor, s), cursor |-> d.cursor + Len(s), anchor |-> None]
  ELSE f

Backspaced(f) ==
  IF Selects(f) THEN WithoutSelection(f)
  ELSE IF f.cursor > 0
    THEN [text |-> Spliced(f.text, f.cursor - 1, f.cursor, <<>>), cursor |-> f.cursor - 1, anchor |-> None]
    ELSE [f EXCEPT !.anchor = None]

DeletedAhead(f) ==
  IF Selects(f) THEN WithoutSelection(f)
  ELSE IF f.cursor < Len(f.text)
    THEN [f EXCEPT !.text = Spliced(f.text, f.cursor, f.cursor + 1, <<>>), !.anchor = None]
    ELSE [f EXCEPT !.anchor = None]

\* Extending a selection drops the anchor where the caret was, once.
Anchored(f) == IF f.anchor = None THEN f.cursor ELSE f.anchor

Moved(f, to, extend) ==
  [f EXCEPT !.cursor = to, !.anchor = IF extend THEN Anchored(f) ELSE None]

\* Without shift a selection collapses to its start instead of moving.
MovedLeft(f, shift) ==
  IF ~shift /\ Selects(f) THEN Moved(f, Start(f), FALSE)
  ELSE Moved(f, Larger(f.cursor - 1, 0), shift)

MovedRight(f, shift) ==
  IF ~shift /\ Selects(f) THEN Moved(f, Stop(f), FALSE)
  ELSE Moved(f, Smaller(f.cursor + 1, Len(f.text)), shift)

MovedHome(f, shift) == Moved(f, 0, shift)

MovedEnd(f, shift) == Moved(f, Len(f.text), shift)

AllSelected(f) == [f EXCEPT !.anchor = 0, !.cursor = Len(f.text)]

\* The run of characters of one kind around a position, as the positions
\* before its first and after its last character.
WordAt(text, at) ==
  LET pos     == Smaller(at, Len(text) - 1) + 1
      kind(i) == text[i] \in WordChar
      run     == {r \in (1 .. pos) \X (pos .. Len(text)) : \A k \in r[1] .. r[2] : kind(k) = kind(pos)}
      widest  == CHOOSE r \in run : \A other \in run : r[1] <= other[1] /\ r[2] >= other[2]
  IN IF text = <<>> THEN <<0, 0>> ELSE <<widest[1] - 1, widest[2]>>

\* One click places the caret, two take the word, more take everything.
Clicked(f, at, count) ==
  CASE count = 1 -> Moved(f, Smaller(at, Len(f.text)), FALSE)
    [] count = 2 -> [f EXCEPT !.anchor = WordAt(f.text, at)[1], !.cursor = WordAt(f.text, at)[2]]
    [] OTHER     -> AllSelected(f)

Dragged(f, to) == Moved(f, Smaller(to, Len(f.text)), TRUE)

\* The field is whole: caret and anchor stand in the text, which fits.
FieldSound(f) ==
  /\ f.cursor \in 0 .. Len(f.text)
  /\ f.anchor \in {None} \cup (0 .. Len(f.text))
  /\ Bytes(f.text) <= MaxBytes

=============================================================================
