------------------------------ MODULE UiProofs -------------------------------
(***************************************************************************)
(* The field, the overlays and the faders, for any characters, names, rows *)
(* and clipboards. The first sections are about the field's operators, the *)
(* next about the palette's list, then come the reducer's messages and the *)
(* events that send them.                                                  *)
(***************************************************************************)
EXTENDS MCUi, TLAPS, FiniteSetTheorems, SequenceTheorems, WellFoundedInduction

-----------------------------------------------------------------------------
(* Least and greatest positions.                                           *)

LessThan == {pair \in Nat \X Nat : pair[1] < pair[2]}

LEMMA LessThanWellFounded == IsWellFoundedOn(LessThan, Nat)
BY NatLessThanWellFounded DEF OpToRel, LessThan

LEMMA LeastExists ==
  ASSUME NEW S, S \subseteq Nat, S # {}
  PROVE  \E x \in S : \A y \in S : x <= y
<1>1. \E x \in S : \A y \in S : ~ (<<y, x>> \in LessThan)
  BY LessThanWellFounded, WFMin, Zenon
<1>2. \A x, y \in Nat : ~ (<<y, x>> \in LessThan) => x <= y
  BY DEF LessThan
<1> QED BY <1>1, <1>2

\* The greatest is the one whose distance to a bound is least.
LEMMA GreatestExists ==
  ASSUME NEW n \in Nat, NEW S, S \subseteq 0 .. n, S # {}
  PROVE  \E x \in S : \A y \in S : y <= x
<1> DEFINE D == {n - x : x \in S}
<1>1. D \subseteq Nat /\ D # {}
  <2>1. \A x \in S : n - x \in Nat
    OBVIOUS
  <2> QED BY <2>1
<1>2. PICK d \in D : \A e \in D : d <= e
  BY <1>1, LeastExists
<1>3. PICK x \in S : d = n - x
  OBVIOUS
<1>4. \A y \in S : n - y \in D
  OBVIOUS
<1> HIDE DEF D
<1> QED BY <1>2, <1>3, <1>4

-----------------------------------------------------------------------------
(* The field: what its text weighs, and where caret and anchor may be.     *)

Text == Seq(Char)

\* The positions of the wide characters.
WideAt(t) == {i \in DOMAIN t : t[i] \in Wide}

LEMMA WideIsFinite ==
  ASSUME NEW t \in Text
  PROVE  IsFiniteSet(WideAt(t)) /\ Cardinality(WideAt(t)) \in Nat
<1>1. IsFiniteSet(1 .. Len(t)) /\ WideAt(t) \in SUBSET (1 .. Len(t))
  BY FS_Interval DEF WideAt, Text
<1> QED BY <1>1, FS_Subset, FS_CardinalityType

LEMMA BytesAre ==
  ASSUME NEW t \in Text
  PROVE  Bytes(t) \in Nat /\ Bytes(t) = Len(t) + Cardinality(WideAt(t)) /\ Bytes(t) >= Len(t)
BY WideIsFinite DEF Bytes, WideAt, Text

\* One text after another weighs what both weigh.
LEMMA BytesOfConcat ==
  ASSUME NEW s \in Text, NEW t \in Text
  PROVE  s \o t \in Text /\ Bytes(s \o t) = Bytes(s) + Bytes(t)
<1> DEFINE Behind == {Len(s) + i : i \in WideAt(t)}
           f == [i \in WideAt(t) |-> Len(s) + i]
<1>1. s \o t \in Text /\ Len(s \o t) = Len(s) + Len(t)
  BY DEF Text
<1>2. WideAt(s \o t) = WideAt(s) \cup Behind
  <2>1. \A i \in 1 .. Len(s) : (s \o t)[i] = s[i]
    BY DEF Text
  <2>2. \A i \in 1 .. Len(t) : (s \o t)[Len(s) + i] = t[i]
    BY DEF Text
  <2>3. DOMAIN (s \o t) = 1 .. Len(s) + Len(t) /\ DOMAIN s = 1 .. Len(s) /\ DOMAIN t = 1 .. Len(t)
        /\ Len(s) \in Nat /\ Len(t) \in Nat
    BY <1>1 DEF Text
  <2>4. ASSUME NEW i \in WideAt(s \o t) PROVE i \in WideAt(s) \cup Behind
    <3>1. CASE i \in 1 .. Len(s)
      BY <2>1, <2>3, <2>4, <3>1 DEF WideAt
    <3>2. CASE i \in Len(s) + 1 .. Len(s) + Len(t)
      <4>1. i - Len(s) \in 1 .. Len(t) /\ i = Len(s) + (i - Len(s))
        BY <2>3, <3>2
      <4>2. i - Len(s) \in WideAt(t)
        BY <2>2, <2>3, <2>4, <4>1 DEF WideAt
      <4> QED BY <4>1, <4>2
    <3> QED BY <2>3, <2>4, <3>1, <3>2 DEF WideAt
  <2>5. WideAt(s) \subseteq WideAt(s \o t)
    BY <2>1, <2>3 DEF WideAt
  <2>6. Behind \subseteq WideAt(s \o t)
    BY <2>2, <2>3 DEF WideAt
  <2> QED BY <2>4, <2>5, <2>6
<1>3. f \in Bijection(WideAt(t), Behind)
  <2>1. f \in [WideAt(t) -> Behind] /\ \A b \in Behind : \E i \in WideAt(t) : f[i] = b
    OBVIOUS
  <2>2. WideAt(t) \subseteq Nat /\ Len(s) \in Nat
    BY DEF WideAt, Text
  <2>3. \A i, j \in WideAt(t) : f[i] = f[j] => i = j
    BY <2>2
  <2> QED BY <2>1, <2>3 DEF Bijection, Injection, Surjection, IsInjective
<1>4. IsFiniteSet(Behind) /\ Cardinality(Behind) = Cardinality(WideAt(t))
  BY <1>3, WideIsFinite, FS_Bijection DEF ExistsBijection
<1>5. WideAt(s) \cap Behind = {}
  BY DEF WideAt, Text
<1> HIDE DEF Behind
<1>6. Cardinality(WideAt(s \o t)) = Cardinality(WideAt(s)) + Cardinality(WideAt(t))
  BY <1>2, <1>4, <1>5, WideIsFinite, FS_Union, FS_EmptySet
<1>7. /\ Bytes(s) = Len(s) + Cardinality(WideAt(s)) /\ Bytes(t) = Len(t) + Cardinality(WideAt(t))
      /\ Bytes(s \o t) = Len(s \o t) + Cardinality(WideAt(s \o t))
  BY <1>1, BytesAre
<1>8. Len(s) \in Nat /\ Len(t) \in Nat /\ Cardinality(WideAt(s)) \in Nat /\ Cardinality(WideAt(t)) \in Nat
  BY WideIsFinite DEF Text
<1> QED BY <1>1, <1>6, <1>7, <1>8

LEMMA EmptyWeighsNothing == <<>> \in Text /\ Bytes(<<>>) = 0
<1>1. WideAt(<<>>) = {} /\ <<>> \in Text /\ Len(<<>>) = 0
  BY DEF WideAt, Text
<1>2. Bytes(<<>>) = Len(<<>>) + Cardinality({})
  BY <1>1, BytesAre
<1>3. Cardinality({}) = 0
  BY FS_EmptySet
<1> QED BY <1>1, <1>2, <1>3

\* A character weighs two at most.
LEMMA CharWeighs ==
  ASSUME NEW c \in Char
  PROVE  <<c>> \in Text /\ Bytes(<<c>>) \in 1 .. 2
<1>1. <<c>> \in Text /\ Len(<<c>>) = 1 /\ WideAt(<<c>>) \in SUBSET {1}
  BY DEF Text, WideAt
<1>2. Cardinality(WideAt(<<c>>)) <= 1
  <2>1. IsFiniteSet({1}) /\ Cardinality({1}) = 1
    BY FS_Singleton
  <2>2. Cardinality(WideAt(<<c>>)) <= Cardinality({1})
    BY <1>1, <2>1, FS_Subset
  <2> QED BY <2>1, <2>2
<1>3. Bytes(<<c>>) = 1 + Cardinality(WideAt(<<c>>)) /\ Cardinality(WideAt(<<c>>)) \in Nat
  BY <1>1, BytesAre, WideIsFinite
<1> QED BY <1>1, <1>2, <1>3

\* What is cut out weighs what the rest is lighter by.
LEMMA SplicedWeighs ==
  ASSUME NEW t \in Text, NEW s \in Text, NEW from \in 0 .. Len(t), NEW to \in from .. Len(t)
  PROVE  /\ Spliced(t, from, to, s) \in Text
         /\ Len(Spliced(t, from, to, s)) = Len(t) - (to - from) + Len(s)
         /\ Bytes(Spliced(t, from, to, s)) <= Bytes(t) - (to - from) + Bytes(s)
         /\ from = to => Bytes(Spliced(t, from, to, s)) = Bytes(t) + Bytes(s)
<1> DEFINE a == SubSeq(t, 1, from)
           b == SubSeq(t, from + 1, to)
           c == SubSeq(t, to + 1, Len(t))
<1>1. /\ a \in Text /\ Len(a) = from
      /\ b \in Text /\ Len(b) = to - from
      /\ c \in Text /\ Len(c) = Len(t) - to
      /\ Len(t) \in Nat /\ Len(s) \in Nat
  BY DEF Text
<1>2. t = (a \o b) \o c
  <2>1. a \o b = SubSeq(t, 1, to)
    BY <1>1, ConcatAdjacentSubSeq DEF Text
  <2>2. SubSeq(t, 1, to) \o c = SubSeq(t, 1, Len(t))
    <3>1. /\ 1 \in 1 .. Len(t) + 1 /\ to \in 1 - 1 .. Len(t) /\ Len(t) \in to .. Len(t)
          /\ t \in Seq(Char)
      BY <1>1 DEF Text
    <3> QED BY <3>1, ConcatAdjacentSubSeq
  <2>3. SubSeq(t, 1, Len(t)) = t
    BY SubSeqFull DEF Text
  <2> QED BY <2>1, <2>2, <2>3
<1>3. Spliced(t, from, to, s) = (a \o s) \o c
  BY DEF Spliced
<1> HIDE DEF a, b, c
<1>4. a \o b \in Text /\ Bytes(a \o b) = Bytes(a) + Bytes(b) /\ a \o s \in Text /\ Bytes(a \o s) = Bytes(a) + Bytes(s)
  BY <1>1, BytesOfConcat
<1>5. /\ Bytes(t) = Bytes(a \o b) + Bytes(c)
      /\ (a \o s) \o c \in Text /\ Bytes((a \o s) \o c) = Bytes(a \o s) + Bytes(c)
  BY <1>1, <1>2, <1>4, BytesOfConcat
<1>6. Len((a \o s) \o c) = Len(a) + Len(s) + Len(c)
  <2>1. Len(a \o s) = Len(a) + Len(s)
    BY <1>1, ConcatProperties DEF Text
  <2>2. Len((a \o s) \o c) = Len(a \o s) + Len(c)
    BY <1>1, <1>4, ConcatProperties DEF Text
  <2> QED BY <2>1, <2>2
<1>7. /\ Bytes(a) \in Nat /\ Bytes(b) \in Nat /\ Bytes(c) \in Nat /\ Bytes(s) \in Nat
      /\ Bytes(b) >= to - from
  BY <1>1, BytesAre
<1>8. from = to => Bytes(b) = 0
  <2>1. from = to => b = <<>>
    BY <1>1 DEF Text
  <2> QED BY <2>1, EmptyWeighsNothing
<1>9. /\ Bytes(Spliced(t, from, to, s)) = Bytes(a) + Bytes(s) + Bytes(c)
      /\ Bytes(t) = Bytes(a) + Bytes(b) + Bytes(c)
      /\ Len(Spliced(t, from, to, s)) = from + Len(s) + (Len(t) - to)
  BY <1>1, <1>3, <1>4, <1>5, <1>6
<1>10. Spliced(t, from, to, s) \in Text
  BY <1>3, <1>5
<1>11. from \in Nat /\ to \in Nat
  BY <1>1
<1>12. Len(Spliced(t, from, to, s)) = Len(t) - (to - from) + Len(s)
  BY <1>1, <1>9, <1>11
<1>13. /\ Bytes(Spliced(t, from, to, s)) <= Bytes(t) - (to - from) + Bytes(s)
       /\ from = to => Bytes(Spliced(t, from, to, s)) = Bytes(t) + Bytes(s)
  BY <1>7, <1>8, <1>9, <1>11
<1> QED BY <1>10, <1>12, <1>13

Field == [text : Text, cursor : Nat, anchor : Nat \cup {None}]

SoundField(f) == f \in Field /\ FieldSound(f)

LEMMA FieldIs ==
  ASSUME NEW f, SoundField(f)
  PROVE  /\ f = [text |-> f.text, cursor |-> f.cursor, anchor |-> f.anchor]
         /\ f.text \in Text /\ Len(f.text) \in Nat
         /\ f.cursor \in 0 .. Len(f.text)
         /\ f.anchor \in {None} \cup (0 .. Len(f.text))
         /\ Bytes(f.text) \in Nat /\ Bytes(f.text) <= MaxBytes
<1>1. f \in Field /\ FieldSound(f)
  BY DEF SoundField
<1>2. f.text \in Text /\ f = [text |-> f.text, cursor |-> f.cursor, anchor |-> f.anchor]
  BY <1>1 DEF Field
<1>3. Len(f.text) \in Nat /\ Bytes(f.text) \in Nat
  BY <1>2, BytesAre DEF Text
<1> QED BY <1>1, <1>2, <1>3 DEF FieldSound

LEMMA FieldOf ==
  ASSUME NEW t \in Text, NEW c \in 0 .. Len(t), NEW a \in {None} \cup (0 .. Len(t)), Bytes(t) <= MaxBytes
  PROVE  SoundField([text |-> t, cursor |-> c, anchor |-> a])
<1>1. Len(t) \in Nat
  BY DEF Text
<1>2. [text |-> t, cursor |-> c, anchor |-> a] \in Field
  BY <1>1 DEF Field
<1>3. FieldSound([text |-> t, cursor |-> c, anchor |-> a])
  BY DEF FieldSound
<1> QED BY <1>2, <1>3 DEF SoundField

\* A field that lost its selection, or had none.
LEMMA DeletedIsSound ==
  ASSUME NEW f, SoundField(f)
  PROVE  /\ SoundField(Deleted(f))
         /\ Selects(f) => /\ Deleted(f) = WithoutSelection(f)
                          /\ Bytes(Deleted(f).text) < Bytes(f.text)
         /\ ~Selects(f) => Deleted(f) = f
         /\ Start(f) \in 0 .. Len(f.text) \/ ~Selects(f)
<1>1. CASE ~Selects(f)
  BY <1>1 DEF Deleted
<1>2. CASE Selects(f)
  <2>1. /\ f.text \in Text /\ Len(f.text) \in Nat /\ f.cursor \in 0 .. Len(f.text)
        /\ f.anchor \in 0 .. Len(f.text) /\ f.anchor # f.cursor
        /\ Bytes(f.text) \in Nat /\ Bytes(f.text) <= MaxBytes
    BY <1>2, BytesAre DEF SoundField, Field, FieldSound, Selects, Text
  <2>2. Start(f) \in 0 .. Len(f.text) /\ Stop(f) \in Start(f) .. Len(f.text) /\ Start(f) < Stop(f)
    BY <2>1 DEF Start, Stop, Smaller, Larger
  <2> DEFINE left == Spliced(f.text, Start(f), Stop(f), <<>>)
  <2>3. /\ left \in Text /\ Len(left) = Len(f.text) - (Stop(f) - Start(f))
        /\ Bytes(left) <= Bytes(f.text) - (Stop(f) - Start(f))
        /\ Bytes(left) \in Nat
    <3>1. Len(<<>>) = 0 /\ Bytes(<<>>) = 0 /\ <<>> \in Text
      BY EmptyWeighsNothing
    <3>2. /\ left \in Text /\ Len(left) = Len(f.text) - (Stop(f) - Start(f)) + Len(<<>>)
          /\ Bytes(left) <= Bytes(f.text) - (Stop(f) - Start(f)) + Bytes(<<>>)
      BY <2>1, <2>2, <3>1, SplicedWeighs
    <3>3. Bytes(left) \in Nat
      BY <3>2, BytesAre
    <3> QED BY <2>1, <2>2, <3>1, <3>2, <3>3
  <2>4. Deleted(f) = [text |-> left, cursor |-> Start(f), anchor |-> None]
    BY <1>2 DEF Deleted, WithoutSelection
  <2> HIDE DEF left
  <2>5. SoundField(Deleted(f))
    BY <2>1, <2>2, <2>3, <2>4, MaxBytesAssumption DEF SoundField, Field, FieldSound
  <2>6. Bytes(Deleted(f).text) < Bytes(f.text)
    BY <2>1, <2>2, <2>3, <2>4
  <2> QED BY <1>2, <2>2, <2>5, <2>6 DEF Deleted
<1> QED BY <1>1, <1>2

\* What is put in where the caret is, if there is room for it.
LEMMA PutInIsSound ==
  ASSUME NEW f, SoundField(f), NEW s \in Text, Bytes(f.text \o s) <= MaxBytes
  PROVE  SoundField([text |-> Spliced(f.text, f.cursor, f.cursor, s), cursor |-> f.cursor + Len(s),
                     anchor |-> None])
<1>1. /\ f.text \in Text /\ Len(f.text) \in Nat /\ Len(s) \in Nat /\ f.cursor \in 0 .. Len(f.text)
      /\ Bytes(f.text) \in Nat /\ Bytes(s) \in Nat
  BY BytesAre DEF SoundField, Field, FieldSound, Text
<1> DEFINE put == Spliced(f.text, f.cursor, f.cursor, s)
<1>2. f.cursor \in f.cursor .. Len(f.text)
  BY <1>1
<1>3. put \in Text /\ Len(put) = Len(f.text) - (f.cursor - f.cursor) + Len(s) /\ Bytes(put) = Bytes(f.text) + Bytes(s)
  BY <1>1, <1>2, SplicedWeighs
<1>4. Bytes(put) <= MaxBytes
  BY <1>1, <1>3, BytesOfConcat
<1> HIDE DEF put
<1>5. f.cursor + Len(s) \in 0 .. Len(put)
  BY <1>1, <1>3
<1>6. \A t : t = put => SoundField([text |-> t, cursor |-> f.cursor + Len(s), anchor |-> None])
  BY <1>3, <1>4, <1>5, FieldOf
<1> QED BY <1>6 DEF put

\* A character that is refused leaves the text as it was, or took the place of a
\* selection in a full field.
LEMMA InsertedIsSound ==
  ASSUME NEW f, SoundField(f), NEW c \in Char
  PROVE  /\ SoundField(Inserted(f, c))
         /\ InsertTakes(f, c) \/ Inserted(f, c).text = f.text \/ Bytes(f.text) >= MaxBytes
<1> DEFINE d == Deleted(f)
<1>1. SoundField(d) /\ (Selects(f) => Bytes(d.text) < Bytes(f.text)) /\ (~Selects(f) => d = f)
  BY DeletedIsSound
<1>2. <<c>> \in Text /\ Bytes(<<c>>) \in 1 .. 2 /\ Len(<<c>>) = 1
  BY CharWeighs
<1>3. /\ d \in Field /\ d.text \in Text /\ Bytes(d.text) \in Nat /\ Bytes(f.text) \in Nat
      /\ Bytes(d.text \o <<c>>) = Bytes(d.text) + Bytes(<<c>>)
  BY <1>1, <1>2, BytesAre, BytesOfConcat DEF SoundField, Field
<1> HIDE DEF d
<1>4. CASE Bytes(d.text \o <<c>>) > MaxBytes
  <2>1. Inserted(f, c) = [d EXCEPT !.anchor = None] /\ InsertTakes(f, c) = (Bytes(d.text \o <<c>>) <= MaxBytes)
    BY <1>4 DEF Inserted, InsertTakes, d
  <2>2. SoundField(Inserted(f, c)) /\ Inserted(f, c).text = d.text
    BY <1>1, <2>1 DEF SoundField, Field, FieldSound
  <2>3. Selects(f) => Bytes(f.text) >= MaxBytes
    BY <1>1, <1>2, <1>3, <1>4, MaxBytesAssumption
  <2> QED BY <1>1, <2>2, <2>3
<1>5. CASE ~(Bytes(d.text \o <<c>>) > MaxBytes)
  <2>1. Bytes(d.text \o <<c>>) <= MaxBytes
    BY <1>2, <1>3, <1>5, MaxBytesAssumption
  <2>2. Inserted(f, c) = [text |-> Spliced(d.text, d.cursor, d.cursor, <<c>>), cursor |-> d.cursor + Len(<<c>>),
                          anchor |-> None]
    BY <1>2, <1>5 DEF Inserted, d
  <2>3. InsertTakes(f, c)
    BY <2>1 DEF InsertTakes, d
  <2> QED BY <1>1, <1>2, <2>1, <2>2, <2>3, PutInIsSound
<1> QED BY <1>4, <1>5

LEMMA PastedIsSound ==
  ASSUME NEW f, SoundField(f), NEW s \in Text
  PROVE  /\ SoundField(Pasted(f, s))
         /\ PasteFits(f, s) \/ Pasted(f, s) = f
<1>1. SoundField(Deleted(f))
  BY DeletedIsSound
<1>2. CASE PasteFits(f, s)
  BY <1>1, <1>2, PutInIsSound DEF Pasted, PasteFits
<1>3. CASE ~PasteFits(f, s)
  BY <1>3 DEF Pasted
<1> QED BY <1>2, <1>3

LEMMA CutIsSound ==
  ASSUME NEW f, SoundField(f), NEW from \in 0 .. Len(f.text), NEW to \in from .. Len(f.text),
         NEW cursor \in 0 .. Len(f.text) - (to - from)
  PROVE  SoundField([text |-> Spliced(f.text, from, to, <<>>), cursor |-> cursor, anchor |-> None])
<1> DEFINE left == Spliced(f.text, from, to, <<>>)
<1>1. /\ f.text \in Text /\ Len(f.text) \in Nat /\ Bytes(f.text) \in Nat /\ Bytes(f.text) <= MaxBytes
  BY BytesAre DEF SoundField, Field, FieldSound, Text
<1>2. Len(<<>>) = 0 /\ Bytes(<<>>) = 0 /\ <<>> \in Text
  BY EmptyWeighsNothing
<1>3. /\ left \in Text /\ Len(left) = Len(f.text) - (to - from) + Len(<<>>)
      /\ Bytes(left) <= Bytes(f.text) - (to - from) + Bytes(<<>>)
  BY <1>1, <1>2, SplicedWeighs
<1>4. Bytes(left) \in Nat
  BY <1>3, BytesAre
<1> HIDE DEF left
<1>5. Bytes(left) <= MaxBytes /\ cursor \in 0 .. Len(left) /\ cursor \in Nat
  BY <1>1, <1>2, <1>3, <1>4, MaxBytesAssumption
<1>6. \A t : t = left => SoundField([text |-> t, cursor |-> cursor, anchor |-> None])
  BY <1>3, <1>5, FieldOf
<1> QED BY <1>6 DEF left

LEMMA ErasedIsSound ==
  ASSUME NEW f, SoundField(f)
  PROVE  SoundField(Backspaced(f)) /\ SoundField(DeletedAhead(f))
<1>1. f \in Field /\ Len(f.text) \in Nat /\ f.cursor \in 0 .. Len(f.text)
  BY DEF SoundField, Field, FieldSound, Text
<1>2. Selects(f) => SoundField(WithoutSelection(f))
  BY DeletedIsSound
<1>3. SoundField([f EXCEPT !.anchor = None])
  BY DEF SoundField, Field, FieldSound
<1>4. f.cursor > 0 => SoundField([text |-> Spliced(f.text, f.cursor - 1, f.cursor, <<>>), cursor |-> f.cursor - 1,
                                  anchor |-> None])
  BY <1>1, CutIsSound
<1>5. f.cursor < Len(f.text) =>
        SoundField([f EXCEPT !.text = Spliced(f.text, f.cursor, f.cursor + 1, <<>>), !.anchor = None])
  <2>1. f.cursor < Len(f.text) =>
          SoundField([text |-> Spliced(f.text, f.cursor, f.cursor + 1, <<>>), cursor |-> f.cursor, anchor |-> None])
    BY <1>1, CutIsSound
  <2> DEFINE left == Spliced(f.text, f.cursor, f.cursor + 1, <<>>)
  <2>2. [f EXCEPT !.text = left, !.anchor = None] = [text |-> left, cursor |-> f.cursor, anchor |-> None]
    <3> HIDE DEF left
    <3> DEFINE g == [f EXCEPT !.text = left]
    <3>1. g = [text |-> left, cursor |-> f.cursor, anchor |-> f.anchor]
      BY FieldIs
    <3> HIDE DEF g
    <3>2. [g EXCEPT !.anchor = None] = [text |-> left, cursor |-> f.cursor, anchor |-> None]
      BY <3>1
    <3> QED BY <3>2 DEF g
  <2> QED BY <2>1, <2>2
<1> QED BY <1>2, <1>3, <1>4, <1>5 DEF Backspaced, DeletedAhead

\* The caret goes elsewhere, and the text stays.
LEMMA MovedIsSound ==
  ASSUME NEW f, SoundField(f), NEW to \in 0 .. Len(f.text), NEW extend \in BOOLEAN
  PROVE  SoundField(Moved(f, to, extend)) /\ Moved(f, to, extend).text = f.text
<1> DEFINE kept == IF extend THEN Anchored(f) ELSE None
<1>1. kept \in {None} \cup (0 .. Len(f.text))
  BY FieldIs DEF Anchored
<1>2. Moved(f, to, extend) = [text |-> f.text, cursor |-> to, anchor |-> kept]
  <2> HIDE DEF kept
  <2> DEFINE g == [f EXCEPT !.cursor = to]
  <2>1. g = [text |-> f.text, cursor |-> to, anchor |-> f.anchor]
    BY FieldIs
  <2>2. [f EXCEPT !.cursor = to, !.anchor = kept] = [text |-> f.text, cursor |-> to, anchor |-> kept]
    <3> HIDE DEF g
    <3>1. [g EXCEPT !.anchor = kept] = [text |-> f.text, cursor |-> to, anchor |-> kept]
      BY <2>1
    <3> QED BY <3>1 DEF g
  <2> QED BY <2>2 DEF Moved, kept
<1> HIDE DEF kept
<1>3. f.text \in Text /\ Bytes(f.text) <= MaxBytes
  BY FieldIs
<1> QED BY <1>1, <1>2, <1>3, FieldOf

LEMMA AllSelectedIsSound ==
  ASSUME NEW f, SoundField(f)
  PROVE  SoundField(AllSelected(f)) /\ AllSelected(f).text = f.text
<1>1. AllSelected(f) = [text |-> f.text, cursor |-> Len(f.text), anchor |-> 0]
  <2> DEFINE g == [f EXCEPT !.anchor = 0]
  <2>1. g = [text |-> f.text, cursor |-> f.cursor, anchor |-> 0]
    BY FieldIs
  <2> HIDE DEF g
  <2>2. [g EXCEPT !.cursor = Len(f.text)] = [text |-> f.text, cursor |-> Len(f.text), anchor |-> 0]
    BY <2>1
  <2> QED BY <2>2 DEF AllSelected, g
<1>2. Len(f.text) \in 0 .. Len(f.text) /\ 0 \in 0 .. Len(f.text) /\ f.text \in Text /\ Bytes(f.text) <= MaxBytes
  BY FieldIs
<1> QED BY <1>1, <1>2, FieldOf

\* The run of characters of one kind around a position has a first and a last.
LEMMA WordAtStands ==
  ASSUME NEW t \in Text, NEW at \in Nat
  PROVE  WordAt(t, at)[1] \in 0 .. Len(t) /\ WordAt(t, at)[2] \in 0 .. Len(t)
<1>1. CASE t = <<>>
  BY <1>1 DEF WordAt
<1>2. CASE t # <<>>
  <2> DEFINE pos == Smaller(at, Len(t) - 1) + 1
             kind(i) == t[i] \in WordChar
             run == {r \in (1 .. pos) \X (pos .. Len(t)) : \A k \in r[1] .. r[2] : kind(k) = kind(pos)}
             down == {i \in 1 .. pos : \A k \in i .. pos : kind(k) = kind(pos)}
             up == {j \in pos .. Len(t) : \A k \in pos .. j : kind(k) = kind(pos)}
  <2>1. Len(t) \in Nat /\ Len(t) > 0
    BY <1>2 DEF Text
  <2>2. pos \in 1 .. Len(t)
    BY <2>1 DEF Smaller
  <2> HIDE DEF pos, kind
  <2>3. down \subseteq Nat /\ down # {} /\ up \subseteq 0 .. Len(t) /\ up # {}
    <3>1. pos \in down /\ pos \in up
      BY <2>2
    <3>2. down \subseteq Nat /\ up \subseteq 0 .. Len(t)
      BY <2>1, <2>2
    <3> QED BY <3>1, <3>2
  <2>20. \E i \in down : \A x \in down : i <= x
    <3> HIDE DEF down
    <3> QED BY <2>3, LeastExists
  <2>21. \E j \in up : \A x \in up : x <= j
    <3> HIDE DEF up
    <3> QED BY <2>1, <2>3, GreatestExists
  <2>4. PICK i \in down : \A x \in down : i <= x
    BY <2>20
  <2>5. PICK j \in up : \A x \in up : x <= j
    BY <2>21
  <2>6. <<i, j>> \in run
    BY <2>1, <2>2
  <2>7. \A r \in run : r[1] \in down /\ r[2] \in up
    BY <2>1, <2>2
  <2>8. \E r \in run : \A other \in run : r[1] <= other[1] /\ r[2] >= other[2]
    BY <2>2, <2>4, <2>5, <2>6, <2>7
  <2> DEFINE widest == CHOOSE r \in run : \A other \in run : r[1] <= other[1] /\ r[2] >= other[2]
  <2>9. widest \in run
    BY <2>8
  <2>10. WordAt(t, at) = <<widest[1] - 1, widest[2]>>
    BY <1>2 DEF WordAt, pos, kind
  <2> QED BY <2>1, <2>2, <2>9, <2>10
<1> QED BY <1>1, <1>2

LEMMA ClickedIsSound ==
  ASSUME NEW f, SoundField(f), NEW at \in Nat, NEW count
  PROVE  SoundField(Clicked(f, at, count)) /\ Clicked(f, at, count).text = f.text
<1> DEFINE near == Smaller(at, Len(f.text))
           first == WordAt(f.text, at)[1]
           last == WordAt(f.text, at)[2]
           word == [f EXCEPT !.anchor = first, !.cursor = last]
<1>1. near \in 0 .. Len(f.text)
  BY FieldIs DEF Smaller
<1>2. SoundField(Moved(f, near, FALSE)) /\ Moved(f, near, FALSE).text = f.text
  <2> HIDE DEF near
  <2> QED BY <1>1, MovedIsSound
<1>3. SoundField(word) /\ word.text = f.text
  <2>1. first \in 0 .. Len(f.text) /\ last \in 0 .. Len(f.text)
    BY FieldIs, WordAtStands
  <2> HIDE DEF first, last
  <2> DEFINE g == [f EXCEPT !.anchor = first]
  <2>2. g = [text |-> f.text, cursor |-> f.cursor, anchor |-> first]
    BY FieldIs
  <2>3. word = [text |-> f.text, cursor |-> last, anchor |-> first]
    <3> HIDE DEF g
    <3>1. [g EXCEPT !.cursor = last] = [text |-> f.text, cursor |-> last, anchor |-> first]
      BY <2>2
    <3> QED BY <3>1 DEF g
  <2> HIDE DEF g, word
  <2>4. f.text \in Text /\ Bytes(f.text) <= MaxBytes
    BY FieldIs
  <2> QED BY <2>1, <2>3, <2>4, FieldOf
<1>4. SoundField(AllSelected(f)) /\ AllSelected(f).text = f.text
  BY AllSelectedIsSound
<1>5. Clicked(f, at, count) \in {Moved(f, near, FALSE), word, AllSelected(f)}
  BY DEF Clicked
<1> QED BY <1>2, <1>3, <1>4, <1>5

LEMMA DraggedIsSound ==
  ASSUME NEW f, SoundField(f), NEW at \in Nat
  PROVE  SoundField(Dragged(f, at)) /\ Dragged(f, at).text = f.text
<1>1. Smaller(at, Len(f.text)) \in 0 .. Len(f.text)
  BY FieldIs DEF Smaller
<1> QED BY <1>1, MovedIsSound DEF Dragged

LEMMA ClearedIsSound == SoundField(Cleared) /\ Cleared.text = <<>>
<1>1. Len(<<>>) = 0 /\ Bytes(<<>>) = 0 /\ <<>> \in Text
  BY EmptyWeighsNothing
<1> QED BY <1>1, MaxBytesAssumption DEF Cleared, SoundField, Field, FieldSound

\* A key that reports no change left the text as it was, or found the field full.
LEMMA KeysAreSound ==
  ASSUME NEW f, SoundField(f), NEW k \in EditKeys(f)
  PROVE  /\ SoundField(k[1])
         /\ k[2] \/ k[1].text = f.text \/ Bytes(f.text) >= MaxBytes
<1>1. Len(f.text) \in Nat /\ f.cursor \in 0 .. Len(f.text) /\ f.anchor \in {None} \cup (0 .. Len(f.text))
  BY FieldIs
<1>2. CASE \E c \in Char : k = <<Inserted(f, c), InsertTakes(f, c)>>
  BY <1>2, InsertedIsSound
<1>3. CASE k \in {<<Backspaced(f), TRUE>>, <<DeletedAhead(f), TRUE>>}
  <2>1. CASE k = <<Backspaced(f), TRUE>>
    BY <2>1, ErasedIsSound
  <2>2. CASE k = <<DeletedAhead(f), TRUE>>
    BY <2>2, ErasedIsSound
  <2> QED BY <1>3, <2>1, <2>2
<1>4. CASE k = <<AllSelected(f), FALSE>>
  BY <1>4, AllSelectedIsSound
<1>5. ASSUME NEW shift \in BOOLEAN,
             k \in {<<MovedLeft(f, shift), FALSE>>, <<MovedRight(f, shift), FALSE>>,
                    <<MovedHome(f, shift), FALSE>>, <<MovedEnd(f, shift), FALSE>>}
      PROVE  SoundField(k[1]) /\ k[1].text = f.text
  <2>1. Selects(f) => Start(f) \in 0 .. Len(f.text) /\ Stop(f) \in 0 .. Len(f.text)
    BY <1>1 DEF Selects, Start, Stop, Smaller, Larger
  <2>2. /\ Larger(f.cursor - 1, 0) \in 0 .. Len(f.text)
        /\ Smaller(f.cursor + 1, Len(f.text)) \in 0 .. Len(f.text)
        /\ 0 \in 0 .. Len(f.text) /\ Len(f.text) \in 0 .. Len(f.text)
    BY <1>1 DEF Larger, Smaller
  <2>3. k[1] \in {MovedLeft(f, shift), MovedRight(f, shift), MovedHome(f, shift), MovedEnd(f, shift)}
    <3>1. \/ k = <<MovedLeft(f, shift), FALSE>> \/ k = <<MovedRight(f, shift), FALSE>>
          \/ k = <<MovedHome(f, shift), FALSE>> \/ k = <<MovedEnd(f, shift), FALSE>>
      BY <1>5
    <3>2. \A x : <<x, FALSE>>[1] = x
      OBVIOUS
    <3> QED BY <3>1, <3>2
  <2>4. CASE k[1] = MovedLeft(f, shift)
    <3>1. \/ Selects(f) /\ k[1] = Moved(f, Start(f), FALSE)
          \/ k[1] = Moved(f, Larger(f.cursor - 1, 0), shift)
      BY <2>4 DEF MovedLeft
    <3>2. CASE Selects(f) /\ k[1] = Moved(f, Start(f), FALSE)
      BY <2>1, <3>2, MovedIsSound
    <3>3. CASE k[1] = Moved(f, Larger(f.cursor - 1, 0), shift)
      BY <2>2, <3>3, MovedIsSound
    <3> QED BY <3>1, <3>2, <3>3
  <2>5. CASE k[1] = MovedRight(f, shift)
    <3>1. \/ Selects(f) /\ k[1] = Moved(f, Stop(f), FALSE)
          \/ k[1] = Moved(f, Smaller(f.cursor + 1, Len(f.text)), shift)
      BY <2>5 DEF MovedRight
    <3>2. CASE Selects(f) /\ k[1] = Moved(f, Stop(f), FALSE)
      BY <2>1, <3>2, MovedIsSound
    <3>3. CASE k[1] = Moved(f, Smaller(f.cursor + 1, Len(f.text)), shift)
      BY <2>2, <3>3, MovedIsSound
    <3> QED BY <3>1, <3>2, <3>3
  <2>6. CASE k[1] \in {MovedHome(f, shift), MovedEnd(f, shift)}
    BY <2>2, <2>6, MovedIsSound DEF MovedHome, MovedEnd
  <2> QED BY <2>3, <2>4, <2>5, <2>6
<1> QED BY <1>2, <1>3, <1>4, <1>5 DEF EditKeys

-----------------------------------------------------------------------------
(* What an event leaves of the transient state.                            *)

UiSet(u) ==
  [focus : {"body", "palette", "modal"}, editor : Field, menu : BOOLEAN, drag : {u.drag}, hover : {u.hover},
   visible : BOOLEAN, left : {u.left}, room : Room]

UiOk(u) == u \in UiSet(u) /\ FieldSound(u.editor)

LEMMA KeyKeepsUi ==
  ASSUME UiOk(ui), KeyStep
  PROVE  UiOk(ui')
<1>1. ui \in UiSet(ui) /\ SoundField(ui.editor)
  BY DEF UiOk, UiSet, SoundField
<1>2. CASE OpenPaletteKey
  <2>1. SoundField(Cleared)
    BY ClearedIsSound
  <2> QED BY <1>1, <1>2, <2>1 DEF OpenPaletteKey, Woken, UiOk, UiSet, SoundField
<1>3. CASE MuteKey
  BY <1>1, <1>3 DEF MuteKey, UiOk
<1>4. CASE Escape
  BY <1>1, <1>4 DEF Escape, UiOk, UiSet, SoundField
<1>5. CASE RunCommand
  BY <1>1, <1>5 DEF RunCommand, UiOk, UiSet, SoundField
<1>6. CASE ConfirmKey
  BY <1>1, <1>6 DEF ConfirmKey, Woken, UiOk, UiSet, SoundField
<1>7. CASE Arrow
  BY <1>1, <1>7 DEF Arrow, Woken, UiOk, UiSet, SoundField
<1>8. CASE Edit
  <2>1. PICK k \in EditKeys(ui.editor) : ui' = Woken([ui EXCEPT !.editor = k[1]])
    BY <1>8 DEF Edit
  <2>2. SoundField(k[1])
    BY <1>1, KeysAreSound
  <2> QED BY <1>1, <2>1, <2>2 DEF Woken, UiOk, UiSet, SoundField
<1>9. CASE Cut
  <2>1. SoundField(WithoutSelection(ui.editor))
    BY <1>1, <1>9, DeletedIsSound DEF Cut
  <2> QED BY <1>1, <1>9, <2>1 DEF Cut, UiOk, UiSet, SoundField
<1>10. CASE \E text \in Clipboard : Paste(text)
  <2>1. PICK text \in Clipboard : Paste(text)
    BY <1>10
  <2>2. SoundField(Pasted(ui.editor, text))
    BY <1>1, PastedIsSound, TextAssumption DEF Text
  <2> QED BY <1>1, <2>1, <2>2 DEF Paste, UiOk, UiSet, SoundField
<1> QED BY <1>2, <1>3, <1>4, <1>5, <1>6, <1>7, <1>8, <1>9, <1>10 DEF KeyStep

LEMMA PointerKeepsUi ==
  ASSUME UiOk(ui), PointerStep
  PROVE  UiOk(ui')
<1>1. ui \in UiSet(ui) /\ SoundField(ui.editor) /\ Len(ui.editor.text) \in Nat
  BY FieldIs DEF UiOk, UiSet, SoundField
<1>2. ASSUME NEW to, NEW at \in 0 .. Len(ui.editor.text), Motion(to, at)
      PROVE  UiOk(ui')
  <2>1. SoundField(Dragged(ui.editor, at))
    BY <1>1, DraggedIsSound
  <2> QED BY <1>1, <1>2, <2>1 DEF Motion, UiOk, UiSet, SoundField
<1>3. ASSUME NEW id, PressSlider(id) \/ PressMute(id)
      PROVE  UiOk(ui')
  BY <1>1, <1>3 DEF PressSlider, PressMute, UiOk, UiSet, SoundField
<1>4. CASE PressSelector
  BY <1>1, <1>4 DEF PressSelector, UiOk, UiSet, SoundField
<1>5. ASSUME NEW name, PressProfile(name)
      PROVE  UiOk(ui')
  BY <1>1, <1>5 DEF PressProfile, UiOk, UiSet, SoundField
<1>6. ASSUME NEW on, NEW at \in 0 .. Len(ui.editor.text), NEW clicks, PressField(on, at, clicks)
      PROVE  UiOk(ui')
  <2>1. SoundField(Clicked(ui.editor, at, clicks))
    BY <1>1, ClickedIsSound
  <2> QED BY <1>1, <1>6, <2>1 DEF PressField, Woken, UiOk, UiSet, SoundField
<1>7. ASSUME NEW i, PressRow(i)
      PROVE  UiOk(ui')
  BY <1>1, <1>7 DEF PressRow, UiOk, UiSet, SoundField
<1>8. ASSUME NEW on, PressDialogButton(on)
      PROVE  UiOk(ui')
  BY <1>1, <1>8 DEF PressDialogButton, UiOk
<1>9. CASE PressBackdrop
  BY <1>1, <1>9 DEF PressBackdrop, UiOk, UiSet, SoundField
<1>10. ASSUME NEW m, PressButton(m)
       PROVE  UiOk(ui')
  BY <1>1, <1>10 DEF PressButton, UiOk
<1>11. CASE PressNothing
  BY <1>1, <1>11 DEF PressNothing, UiOk, UiSet, SoundField
<1>12. ASSUME NEW over, NEW before, Release(over, before)
       PROVE  UiOk(ui')
  BY <1>1, <1>12 DEF Release, UiOk, UiSet, SoundField
<1>13. ASSUME NEW rows, Wheel(rows)
       PROVE  UiOk(ui')
  BY <1>1, <1>13 DEF Wheel, UiOk
<1> QED BY <1>2, <1>3, <1>4, <1>5, <1>6, <1>7, <1>8, <1>9, <1>10, <1>11, <1>12, <1>13 DEF PointerStep

LEMMA EventKeepsUi ==
  ASSUME UiOk(ui), UiStep
  PROVE  UiOk(ui')
<1>1. ui \in UiSet(ui) /\ SoundField(ui.editor)
  BY DEF UiOk, UiSet, SoundField
<1>2. CASE KeyStep
  BY <1>2, KeyKeepsUi
<1>3. CASE PointerStep
  BY <1>3, PointerKeepsUi
<1>4. ASSUME NEW s, StreamCame(s) \/ StreamGone(s)
      PROVE  UiOk(ui')
  BY <1>1, <1>4 DEF StreamCame, StreamGone, UiOk
<1>5. CASE Blink
  BY <1>1, <1>5 DEF Blink, UiOk, UiSet, SoundField
<1>6. CASE RestCaret
  BY <1>1, <1>6 DEF RestCaret, UiOk, UiSet, SoundField
<1>7. ASSUME NEW room \in Room, Resize(room)
      PROVE  UiOk(ui')
  BY <1>1, <1>7 DEF Resize, UiOk, UiSet, SoundField
<1> QED BY <1>2, <1>3, <1>4, <1>5, <1>6, <1>7 DEF UiStep

UiStands == UiOk(ui)

LEMMA UiStandsAlways == UiSpec => []UiStands
<1>1. UiInit => UiStands
  <2>1. SoundField(Cleared)
    BY ClearedIsSound
  <2> QED BY <2>1 DEF UiInit, UiStands, UiOk, UiSet, SoundField
<1>2. UiStands /\ [UiNext]_uiVars => UiStands'
  <2> SUFFICES ASSUME UiStands, [UiNext]_uiVars PROVE UiStands'
    OBVIOUS
  <2>1. CASE UiNext
    BY <2>1, EventKeepsUi DEF UiNext, UiStands
  <2>2. CASE UNCHANGED uiVars
    BY <2>2 DEF uiVars, UiOk, UiStands
  <2> QED BY <2>1, <2>2
<1> QED BY <1>1, <1>2, PTL DEF UiSpec

\* Whatever is typed, clicked, dragged, cut or pasted, caret and anchor stand in
\* the field's text and the text fits the field.
THEOREM FieldHolds == UiSpec => []FieldStaysSound
<1>1. UiStands => FieldStaysSound
  BY DEF UiStands, UiOk, FieldStaysSound
<1> QED BY UiStandsAlways, <1>1, PTL

-----------------------------------------------------------------------------
(* The palette's list: positions in order, and commands with their verbs.  *)

\* Sorted for positions, without its operator.
Ranked(S) == [n \in 1 .. Cardinality(S) |-> CHOOSE x \in S : Cardinality({y \in S : y < x}) = n - 1]

\* Every rank up to the number of positions is that of one of them.
LEMMA RanksAreTaken ==
  ASSUME NEW S \in SUBSET Nat, IsFiniteSet(S), NEW n \in 1 .. Cardinality(S)
  PROVE  \E x \in S : Cardinality({y \in S : y < x}) = n - 1
<1> DEFINE Below(x) == {y \in S : y < x}
           Ranks == 0 .. Cardinality(S) - 1
           rank == [x \in S |-> Cardinality(Below(x))]
<1>1. Cardinality(S) \in Nat
  BY FS_CardinalityType
<1>2. ASSUME NEW T \in SUBSET S, NEW U \in SUBSET T
      PROVE  /\ Cardinality(T) \in Nat /\ Cardinality(U) \in Nat /\ Cardinality(U) <= Cardinality(T)
             /\ Cardinality(T) = Cardinality(U) => T = U
  <2>1. IsFiniteSet(T)
    BY FS_Subset
  <2> QED BY <2>1, FS_Subset, FS_CardinalityType
<1>3. ASSUME NEW x \in S
      PROVE  Cardinality(Below(x)) \in Ranks
  <2>1. Below(x) \in SUBSET S /\ x \notin Below(x)
    OBVIOUS
  <2>2. Cardinality(Below(x)) <= Cardinality(S) /\ Cardinality(Below(x)) \in Nat
        /\ Cardinality(S) # Cardinality(Below(x))
    BY <1>2, <2>1
  <2> QED BY <1>1, <2>2
<1>4. ASSUME NEW x \in S, NEW z \in S, x < z
      PROVE  Cardinality(Below(x)) # Cardinality(Below(z))
  <2>1. x \in Nat /\ z \in Nat
    OBVIOUS
  <2>2. \A y \in Nat : y < x => y < z
    BY <1>4, <2>1
  <2>3. Below(x) \in SUBSET Below(z)
    BY <2>2
  <2>4. Below(z) \in SUBSET S /\ x \in Below(z) /\ x \notin Below(x)
    BY <1>4, <2>1
  <2> QED BY <1>2, <2>3, <2>4
<1>5. \A x, z \in S : x = z \/ x < z \/ z < x
  OBVIOUS
<1> HIDE DEF Below
<1>6. rank \in Injection(S, Ranks)
  <2>1. rank \in [S -> Ranks]
    BY <1>3
  <2>2. \A x, z \in S : rank[x] = rank[z] => x = z
    BY <1>4, <1>5
  <2> QED BY <2>1, <2>2 DEF Injection, IsInjective
<1>7. IsFiniteSet(Ranks) /\ Cardinality(Ranks) = Cardinality(S)
  <2>1. \A b \in Int : IsFiniteSet(0 .. b) /\ Cardinality(0 .. b) = IF 0 > b THEN 0 ELSE b - 0 + 1
    BY FS_Interval
  <2>2. Cardinality(S) - 1 \in Int
    BY <1>1
  <2> QED BY <1>1, <2>1, <2>2
<1>8. rank \in Surjection(S, Ranks)
  <2> HIDE DEF rank, Ranks
  <2> QED BY <1>6, <1>7, FS_Injection
<1>9. n - 1 \in Ranks
  BY <1>1
<1>10. PICK x \in S : rank[x] = n - 1
  BY <1>8, <1>9 DEF Surjection
<1> QED BY <1>10 DEF Below

LEMMA RankedIs ==
  ASSUME NEW S \in SUBSET Nat, IsFiniteSet(S)
  PROVE  Ranked(S) \in Seq(S)
<1>1. Cardinality(S) \in Nat
  BY FS_CardinalityType
<1>2. \A n \in 1 .. Cardinality(S) : Ranked(S)[n] \in S
  BY RanksAreTaken DEF Ranked
<1>3. Ranked(S) \in [1 .. Cardinality(S) -> S]
  BY <1>2 DEF Ranked
<1> QED BY <1>1, <1>3

Verbs == {"create", "apply", "rename", "delete", "default", "mute", "unmute", "unpin", "pin", "reset"}

\* A list of commands, whatever they are about.
Spoken(s) == \E S : s \in Seq(S) /\ \A c \in S : c.verb \in Verbs

LEMMA SpokenIs ==
  ASSUME NEW s, Spoken(s)
  PROVE  Len(s) \in Nat /\ DOMAIN s = 1 .. Len(s) /\ \A i \in 1 .. Len(s) : s[i].verb \in Verbs
<1>1. PICK S : s \in Seq(S) /\ \A c \in S : c.verb \in Verbs
  BY DEF Spoken
<1> QED BY <1>1

LEMMA SpokenOf ==
  ASSUME NEW n \in Nat, NEW s, s = [i \in 1 .. n |-> s[i]], \A i \in 1 .. n : s[i].verb \in Verbs
  PROVE  Spoken(s)
<1> DEFINE S == {s[i] : i \in 1 .. n}
<1>1. s \in [1 .. n -> S] /\ \A c \in S : c.verb \in Verbs
  OBVIOUS
<1> HIDE DEF S
<1>2. s \in Seq(S)
  BY <1>1
<1> QED BY <1>1, <1>2 DEF Spoken

LEMMA SpokenConcat ==
  ASSUME NEW s, Spoken(s), NEW t, Spoken(t)
  PROVE  Spoken(s \o t)
<1>1. PICK S : s \in Seq(S) /\ \A c \in S : c.verb \in Verbs
  BY DEF Spoken
<1>2. PICK T : t \in Seq(T) /\ \A c \in T : c.verb \in Verbs
  BY DEF Spoken
<1>3. s \in Seq(S \cup T) /\ t \in Seq(S \cup T)
  BY <1>1, <1>2
<1>4. s \o t \in Seq(S \cup T)
  BY <1>3
<1> QED BY <1>1, <1>2, <1>4 DEF Spoken

LEMMA EmptyIsSpoken == Spoken(<<>>)
<1> DEFINE S == {}
<1>1. <<>> \in Seq(S) /\ \A c \in S : c.verb \in Verbs
  OBVIOUS
<1> HIDE DEF S
<1> QED BY <1>1 DEF Spoken

LEMMA OneIsSpoken ==
  ASSUME NEW verb \in Verbs, NEW of, NEW to
  PROVE  Spoken(<<Command(verb, of, to)>>)
<1> DEFINE S == {Command(verb, of, to)}
<1>1. <<Command(verb, of, to)>> \in Seq(S) /\ \A c \in S : c.verb \in Verbs
  BY DEF Command
<1> HIDE DEF S
<1> QED BY <1>1 DEF Spoken

\* The lists the commands are made of.
LEMMA NamesAreSpoken ==
  ASSUME NEW names \in Seq(Text), NEW verb \in Verbs
  PROVE  Spoken(Each(names, LAMBDA n : Command(verb, n, None)))
<1> DEFINE s == [i \in 1 .. Len(names) |-> Command(verb, names[i], None)]
<1>1. \A i \in 1 .. Len(names) : s[i].verb \in Verbs
  BY DEF Command
<1>2. s = [i \in 1 .. Len(names) |-> s[i]] /\ Len(names) \in Nat
  OBVIOUS
<1>3. Each(names, LAMBDA n : Command(verb, n, None)) = s
  BY DEF Each
<1> HIDE DEF s
<1> QED BY <1>1, <1>2, <1>3, SpokenOf

LEMMA DefaultsAreSpoken ==
  ASSUME NEW devices, IsFiniteSet(devices)
  PROVE  Spoken(DefaultCommands(devices))
<1> DEFINE S == {s \in devices : ~s.default}
           s == [i \in 1 .. Cardinality(S) |-> Command("default", ById(S)[i].id, None)]
<1>1. Cardinality(S) \in Nat
  <2>1. S \in SUBSET devices
    OBVIOUS
  <2> HIDE DEF S
  <2> QED BY <2>1, FS_Subset, FS_CardinalityType
<1> HIDE DEF S
<1>2. \A i \in 1 .. Cardinality(S) : s[i].verb \in Verbs
  BY DEF Command, Verbs
<1>3. s = [i \in 1 .. Cardinality(S) |-> s[i]]
  OBVIOUS
<1>4. DefaultCommands(devices) = s
  BY DEF DefaultCommands, Each, S, ById, Sorted
<1> HIDE DEF s
<1> QED BY <1>1, <1>2, <1>3, <1>4, SpokenOf

LEMMA MutesAreSpoken ==
  ASSUME NEW streams, IsFiniteSet(streams)
  PROVE  Spoken(MuteCommands(streams))
<1> DEFINE n == Cardinality(streams)
           s == [i \in 1 .. n |-> Command(IF ById(streams)[i].muted THEN "unmute" ELSE "mute",
                                          ById(streams)[i].id, None)]
<1>1. n \in Nat
  BY FS_CardinalityType
<1>2. \A i \in 1 .. n : s[i].verb \in Verbs
  BY DEF Command, Verbs
<1>3. s = [i \in 1 .. n |-> s[i]]
  OBVIOUS
<1>4. MuteCommands(streams) = s
  BY DEF MuteCommands, Each, ById, Sorted
<1> HIDE DEF s, n
<1> QED BY <1>1, <1>2, <1>3, <1>4, SpokenOf

LEMMA RoutesAreFinite ==
  ASSUME NEW apps, IsFiniteSet(apps), NEW sinks, IsFiniteSet(sinks)
  PROVE  IsFiniteSet(Routes(apps, sinks))
<1> DEFINE A == {x \in apps : x.target # None}
           P == {p \in apps \X sinks : p[1].target # p[2].id}
           cleared == [a \in A |-> <<a.id, None>>]
           pinned == [r \in P |-> <<r[1].id, r[2].id>>]
<1>1. IsFiniteSet(A) /\ IsFiniteSet(P)
  <2>1. A \in SUBSET apps /\ P \in SUBSET (apps \X sinks) /\ IsFiniteSet(apps \X sinks)
    BY FS_Product
  <2> HIDE DEF A, P
  <2> QED BY <2>1, FS_Subset
<1> HIDE DEF A, P
<1>2. cleared \in Surjection(A, {<<a.id, None>> : a \in A})
  BY DEF Surjection
<1>3. pinned \in Surjection(P, {<<r[1].id, r[2].id>> : r \in P})
  BY DEF Surjection
<1> HIDE DEF cleared, pinned
<1>4. IsFiniteSet({<<a.id, None>> : a \in A}) /\ IsFiniteSet({<<r[1].id, r[2].id>> : r \in P})
  BY <1>1, <1>2, <1>3, FS_Surjection
<1> QED BY <1>4, FS_Union DEF Routes, A, P

LEMMA RoutesAreSpoken ==
  ASSUME NEW apps, IsFiniteSet(apps), NEW sinks, IsFiniteSet(sinks)
  PROVE  Spoken(RouteCommands(apps, sinks))
<1> DEFINE R == Routes(apps, sinks)
           order == Sorted(R, RouteBefore)
           s == [i \in 1 .. Cardinality(R) |->
                   Command(IF order[i][2] = None THEN "unpin" ELSE "pin", order[i][1], order[i][2])]
           reset == IF \E a \in apps : a.target # None THEN <<Command("reset", None, None)>> ELSE <<>>
<1>1. Cardinality(R) \in Nat
  BY RoutesAreFinite, FS_CardinalityType
<1>2. \A i \in 1 .. Cardinality(R) : s[i].verb \in Verbs
  BY DEF Command, Verbs
<1>3. s = [i \in 1 .. Cardinality(R) |-> s[i]]
  OBVIOUS
<1>4. Each(order, LAMBDA r : Command(IF r[2] = None THEN "unpin" ELSE "pin", r[1], r[2])) = s
  BY DEF Each, Sorted
<1>5. Spoken(s)
  <2> HIDE DEF s, R
  <2> QED BY <1>1, <1>2, <1>3, SpokenOf
<1>6. Spoken(reset)
  BY OneIsSpoken, EmptyIsSpoken DEF Verbs
<1>7. RouteCommands(apps, sinks) \in {<<>>, reset \o s}
  BY <1>4 DEF RouteCommands
<1> HIDE DEF reset, s
<1> QED BY <1>5, <1>6, <1>7, SpokenConcat, EmptyIsSpoken

LEMMA CommandsAreSpoken ==
  ASSUME NEW names \in Seq(Text), NEW streams, IsFiniteSet(streams)
  PROVE  Spoken(BuildCommands(names, streams))
<1> DEFINE sinks == OfKind(streams, "sink")
           sources == OfKind(streams, "source")
           apps == OfKind(streams, "app")
           c1 == <<Command("create", None, None)>>
           c2 == Each(names, LAMBDA n : Command("apply", n, None))
           c3 == Each(names, LAMBDA n : Command("rename", n, None))
           c4 == Each(names, LAMBDA n : Command("delete", n, None))
           c5 == DefaultCommands(sinks)
           c6 == DefaultCommands(sources)
           c7 == MuteCommands(sinks)
           c8 == MuteCommands(sources)
           c9 == MuteCommands(apps)
           c10 == RouteCommands(apps, sinks)
<1>1. IsFiniteSet(sinks) /\ IsFiniteSet(sources) /\ IsFiniteSet(apps)
  <2>1. sinks \in SUBSET streams /\ sources \in SUBSET streams /\ apps \in SUBSET streams
    BY DEF OfKind
  <2> HIDE DEF sinks, sources, apps
  <2> QED BY <2>1, FS_Subset
<1>2. Spoken(c1) /\ Spoken(c2) /\ Spoken(c3) /\ Spoken(c4)
  <2>1. {"create", "apply", "rename", "delete"} \subseteq Verbs
    BY DEF Verbs
  <2>2. Spoken(c1)
    BY <2>1, OneIsSpoken
  <2>3. Spoken(c2)
    BY <2>1, NamesAreSpoken
  <2>4. Spoken(c3)
    BY <2>1, NamesAreSpoken
  <2>5. Spoken(c4)
    BY <2>1, NamesAreSpoken
  <2> QED BY <2>2, <2>3, <2>4, <2>5
<1>3. BuildCommands(names, streams)
        = ((((((((c1 \o c2) \o c3) \o c4) \o c5) \o c6) \o c7) \o c8) \o c9) \o c10
  BY DEF BuildCommands
<1> HIDE DEF sinks, sources, apps, c1, c2, c3, c4
<1>4. Spoken(c5) /\ Spoken(c6)
  BY <1>1, DefaultsAreSpoken
<1>5. Spoken(c7) /\ Spoken(c8) /\ Spoken(c9)
  BY <1>1, MutesAreSpoken
<1>6. Spoken(c10)
  BY <1>1, RoutesAreSpoken
<1> HIDE DEF c5, c6, c7, c8, c9, c10
<1>7. Spoken(((c1 \o c2) \o c3) \o c4)
  BY <1>2, SpokenConcat
<1> DEFINE d == ((c1 \o c2) \o c3) \o c4
<1> HIDE DEF d
<1>8. Spoken((d \o c5) \o c6)
  BY <1>4, <1>7, SpokenConcat DEF d
<1> DEFINE e == (d \o c5) \o c6
<1> HIDE DEF e
<1>9. Spoken(((e \o c7) \o c8) \o c9)
  BY <1>5, <1>8, SpokenConcat DEF e
<1>10. Spoken((((e \o c7) \o c8) \o c9) \o c10)
  BY <1>6, <1>9, SpokenConcat
<1> QED BY <1>3, <1>10 DEF d, e

LEMMA FilteredAreSpoken ==
  ASSUME NEW commands, Spoken(commands), NEW query
  PROVE  Spoken(FilterCommands(commands, query))
<1> DEFINE tier == [i \in DOMAIN commands |-> ScoreMatch(Label(commands[i]), query)]
           At(t) == {i \in DOMAIN commands : tier[i] = t}
           order == Ranked(At(0)) \o Ranked(At(1)) \o Ranked(At(2))
           kept == [n \in 1 .. Len(order) |-> commands[order[n]]]
<1>1. Len(commands) \in Nat /\ DOMAIN commands = 1 .. Len(commands)
      /\ \A i \in 1 .. Len(commands) : commands[i].verb \in Verbs
  BY SpokenIs
<1>2. FilterCommands(commands, query)
        = IF query = <<>> THEN commands ELSE Each(order, LAMBDA i : commands[i])
  BY DEF FilterCommands, Sorted, Ranked
<1> HIDE DEF tier
<1>3. ASSUME NEW t \in 0 .. 2
      PROVE  Ranked(At(t)) \in Seq(DOMAIN commands)
  <2>1. At(t) \in SUBSET (1 .. Len(commands)) /\ At(t) \in SUBSET Nat
    BY <1>1
  <2>2. IsFiniteSet(1 .. Len(commands))
    BY <1>1, FS_Interval
  <2> HIDE DEF At
  <2>3. IsFiniteSet(At(t))
    BY <2>1, <2>2, FS_Subset
  <2>4. Ranked(At(t)) \in Seq(At(t))
    BY <2>1, <2>3, RankedIs
  <2> QED BY <1>1, <2>1, <2>4
<1> HIDE DEF At
<1>4. order \in Seq(DOMAIN commands)
  <2>1. Ranked(At(0)) \in Seq(DOMAIN commands) /\ Ranked(At(1)) \in Seq(DOMAIN commands)
        /\ Ranked(At(2)) \in Seq(DOMAIN commands)
    BY <1>3
  <2> QED BY <2>1
<1> HIDE DEF order
<1>5. Each(order, LAMBDA i : commands[i]) = kept
  BY <1>4 DEF Each
<1>6. Len(order) \in Nat /\ \A n \in 1 .. Len(order) : kept[n].verb \in Verbs
  BY <1>1, <1>4
<1>7. kept = [n \in 1 .. Len(order) |-> kept[n]]
  OBVIOUS
<1> HIDE DEF kept
<1>8. Spoken(kept)
  BY <1>6, <1>7, SpokenOf
<1> QED BY <1>2, <1>5, <1>8

\* A row of the palette says one of the commands' verbs.
LEMMA RowsAreSpoken ==
  ASSUME NEW names \in Seq(Text), NEW streams, IsFiniteSet(streams), NEW query
  PROVE  Spoken(PaletteRows(names, streams, query))
<1> DEFINE kept == FilterCommands(BuildCommands(names, streams), query)
           n == Smaller(Len(kept), MaxVisible)
<1>1. Spoken(kept)
  BY CommandsAreSpoken, FilteredAreSpoken
<1>2. PaletteRows(names, streams, query) = SubSeq(kept, 1, n)
  BY DEF PaletteRows
<1> HIDE DEF kept
<1>3. PICK S : kept \in Seq(S) /\ \A c \in S : c.verb \in Verbs
  BY <1>1 DEF Spoken
<1>4. n \in 0 .. Len(kept) /\ Len(kept) \in Nat
  BY <1>3, RowsAssumption DEF Smaller
<1> HIDE DEF n
<1>5. SubSeq(kept, 1, n) \in Seq(S)
  BY <1>3, <1>4
<1> QED BY <1>2, <1>3, <1>5 DEF Spoken

-----------------------------------------------------------------------------
(* The window of the list.                                                 *)

LEMMA WindowHolds ==
  ASSUME NEW total \in Nat \ {0}, NEW room \in Nat \ {0}, NEW scroll \in Nat, NEW selected \in Nat,
         NEW first, first = FirstVisible(total, room, scroll, selected)
  PROVE  /\ ShownSelected(total, selected) \in first .. first + Capacity(total, room) - 1
         /\ first .. first + Capacity(total, room) - 1 \subseteq 0 .. total - 1
         /\ first \in Nat /\ first + Capacity(total, room) <= total
<1> DEFINE cap == Capacity(total, room)
           at == ShownSelected(total, selected)
           held == Smaller(Smaller(scroll, Larger(total - VisibleRows, 0)), total - cap)
<1>1. cap \in 1 .. total
  BY RowsAssumption DEF Capacity, Smaller
<1>2. at \in 0 .. total - 1
  BY DEF ShownSelected, Smaller, Larger
<1>3. held \in 0 .. total - cap
  BY <1>1, RowsAssumption DEF Smaller, Larger
<1>4. first = ScrollIntoView(held, at, cap)
  BY DEF FirstVisible
<1> HIDE DEF cap, at, held
<1>5. first \in Nat /\ first <= at /\ at < first + cap /\ first + cap <= total
  BY <1>1, <1>2, <1>3, <1>4 DEF ScrollIntoView, Larger
<1> QED BY <1>1, <1>2, <1>5 DEF cap, at

\* Of an empty list nothing is on screen.
LEMMA NothingToShow ==
  ASSUME NEW room \in Nat \ {0}, NEW scroll \in Nat, NEW selected \in Nat
  PROVE  /\ Capacity(0, room) = 0
         /\ FirstVisible(0, room, scroll, selected) = 0
<1>1. Capacity(0, room) = 0
  BY RowsAssumption DEF Capacity, Smaller
<1>2. ShownSelected(0, selected) = 0
  BY DEF ShownSelected, Smaller, Larger
<1>3. Smaller(Smaller(scroll, Larger(0 - VisibleRows, 0)), 0) = 0
  BY RowsAssumption DEF Smaller, Larger
<1> QED BY <1>1, <1>2, <1>3 DEF FirstVisible, ScrollIntoView, Larger

-----------------------------------------------------------------------------
(* The reducer: sequences of names, then a message at a time.              *)

LEMMA RemoveAtIs ==
  ASSUME NEW T, NEW s \in Seq(T), NEW k \in 1 .. Len(s)
  PROVE  /\ RemoveAt(s, k) \in Seq(T) /\ Len(RemoveAt(s, k)) = Len(s) - 1
         /\ \A i \in 1 .. Len(s) - 1 : RemoveAt(s, k)[i] = IF i < k THEN s[i] ELSE s[i + 1]
<1> DEFINE a == SubSeq(s, 1, k - 1)
           b == SubSeq(s, k + 1, Len(s))
<1>1. /\ a \in Seq(T) /\ Len(a) = k - 1 /\ \A i \in 1 .. k - 1 : a[i] = s[i]
      /\ b \in Seq(T) /\ Len(b) = Len(s) - k /\ \A i \in 1 .. Len(s) - k : b[i] = s[k + i]
  OBVIOUS
<1>2. RemoveAt(s, k) = a \o b
  BY DEF RemoveAt
<1> HIDE DEF a, b
<1>3. /\ a \o b \in Seq(T) /\ Len(a \o b) = Len(a) + Len(b)
      /\ \A i \in 1 .. Len(a) + Len(b) : (a \o b)[i] = IF i <= Len(a) THEN a[i] ELSE b[i - Len(a)]
  BY <1>1, ConcatProperties
<1>4. ASSUME NEW i \in 1 .. Len(s) - 1
      PROVE  (a \o b)[i] = IF i < k THEN s[i] ELSE s[i + 1]
  <2>1. CASE i < k
    BY <1>1, <1>3, <2>1
  <2>2. CASE ~(i < k)
    <3>1. i - (k - 1) \in 1 .. Len(s) - k /\ k + (i - (k - 1)) = i + 1 /\ ~(i <= k - 1)
      BY <2>2
    <3>2. b[i - (k - 1)] = s[i + 1]
      BY <1>1, <3>1
    <3>3. i \in 1 .. Len(a) + Len(b)
      BY <1>1
    <3>4. (a \o b)[i] = b[i - (k - 1)]
      BY <1>1, <1>3, <3>1, <3>3
    <3> QED BY <2>2, <3>2, <3>4
  <2> QED BY <2>1, <2>2
<1> QED BY <1>1, <1>2, <1>3, <1>4

LEMMA InsertAtIs ==
  ASSUME NEW T, NEW s \in Seq(T), NEW e \in T, NEW k \in 1 .. Len(s) + 1
  PROVE  /\ InsertAt(s, k, e) \in Seq(T) /\ Len(InsertAt(s, k, e)) = Len(s) + 1
         /\ InsertAt(s, k, e)[k] = e
         /\ \A i \in 1 .. Len(s) : InsertAt(s, k, e)[IF i < k THEN i ELSE i + 1] = s[i]
<1> DEFINE a == SubSeq(s, 1, k - 1)
           b == SubSeq(s, k, Len(s))
           c == a \o <<e>>
<1>1. /\ a \in Seq(T) /\ Len(a) = k - 1 /\ \A i \in 1 .. k - 1 : a[i] = s[i]
      /\ b \in Seq(T) /\ Len(b) = Len(s) - k + 1 /\ \A i \in 1 .. Len(s) - k + 1 : b[i] = s[k + i - 1]
  OBVIOUS
<1>2. InsertAt(s, k, e) = c \o b
  BY DEF InsertAt
<1> HIDE DEF a, b
<1>3. /\ c \in Seq(T) /\ Len(c) = k /\ \A i \in 1 .. k : c[i] = IF i < k THEN a[i] ELSE e
  <2>1. <<e>> \in Seq(T) /\ Len(<<e>>) = 1 /\ <<e>>[1] = e
    OBVIOUS
  <2> QED BY <1>1, <2>1
<1> HIDE DEF c
<1>4. /\ c \o b \in Seq(T) /\ Len(c \o b) = Len(c) + Len(b)
      /\ \A i \in 1 .. Len(c) + Len(b) : (c \o b)[i] = IF i <= Len(c) THEN c[i] ELSE b[i - Len(c)]
  BY <1>1, <1>3, ConcatProperties
<1>5. ASSUME NEW i \in 1 .. Len(s)
      PROVE  (c \o b)[IF i < k THEN i ELSE i + 1] = s[i]
  <2>1. CASE i < k
    BY <1>1, <1>3, <1>4, <2>1
  <2>2. CASE ~(i < k)
    <3>1. i + 1 - k \in 1 .. Len(s) - k + 1 /\ k + (i + 1 - k) - 1 = i /\ i + 1 \in 1 .. k + (Len(s) - k + 1)
          /\ ~(i + 1 <= k)
      BY <2>2
    <3> QED BY <1>1, <1>3, <1>4, <2>2, <3>1
  <2> QED BY <2>1, <2>2
<1>6. (c \o b)[k] = e
  BY <1>1, <1>3, <1>4
<1> QED BY <1>1, <1>2, <1>3, <1>4, <1>5, <1>6

\* Where a name is first: SelectInSeq without its operator.
Place(s, name) == CHOOSE x \in {i \in 1 .. Len(s) : s[i] = name} : \A y \in {i \in 1 .. Len(s) : s[i] = name} : x <= y

LEMMA FirstPlace ==
  ASSUME NEW s \in Seq(Text), NEW name, Contains(s, name)
  PROVE  /\ Place(s, name) \in 1 .. Len(s) /\ s[Place(s, name)] = name
         /\ SelectInSeq(s, LAMBDA n : n = name) = Place(s, name)
<1> DEFINE I == {i \in 1 .. Len(s) : s[i] = name}
<1>1. I # {} /\ I \subseteq Nat
  BY DEF Contains
<1>2. SelectInSeq(s, LAMBDA n : n = name) = Place(s, name)
  BY <1>1 DEF SelectInSeq, Min, Place
<1>3. \E x \in I : \A y \in I : x <= y
  <2> HIDE DEF I
  <2> QED BY <1>1, LeastExists
<1>4. Place(s, name) \in I
  BY <1>3 DEF Place
<1> QED BY <1>2, <1>4

LEMMA RemovedFirst ==
  ASSUME NEW s \in Seq(Text), NEW name
  PROVE  RemoveFirst(s, name) \in Seq(Text)
<1>1. CASE Contains(s, name)
  <2>1. Place(s, name) \in 1 .. Len(s)
    BY <1>1, FirstPlace
  <2>2. RemoveFirst(s, name) = RemoveAt(s, Place(s, name))
    <3>1. {i \in 1 .. Len(s) : s[i] = name} # {}
      BY <1>1 DEF Contains
    <3> QED BY <1>1, <3>1 DEF RemoveFirst, Contains, SelectInSeq, Min, Place
  <2> QED BY <2>1, <2>2, RemoveAtIs
<1>2. CASE ~Contains(s, name)
  BY <1>2 DEF RemoveFirst, Contains
<1> QED BY <1>1, <1>2

\* A name put elsewhere, and the others as they were.
LEMMA MovedNames ==
  ASSUME NEW s \in Seq(Text), NEW k \in 1 .. Len(s), NEW insert \in 1 .. Len(s),
         NEW moved, moved = InsertAt(RemoveAt(s, k), insert, s[k])
  PROVE  moved \in Seq(Text) /\ \A name : Contains(s, name) => Contains(moved, name)
<1> DEFINE r == RemoveAt(s, k)
           e == s[k]
<1>1. r \in Seq(Text) /\ Len(r) = Len(s) - 1 /\ \A i \in 1 .. Len(s) - 1 : r[i] = IF i < k THEN s[i] ELSE s[i + 1]
  BY RemoveAtIs
<1>2. moved = InsertAt(r, insert, e)
  OBVIOUS
<1> HIDE DEF r
<1>3. e \in Text /\ insert \in 1 .. Len(r) + 1
  BY <1>1
<1> HIDE DEF e
<1>4. /\ moved \in Seq(Text) /\ Len(moved) = Len(s) /\ moved[insert] = e
      /\ \A i \in 1 .. Len(s) - 1 : moved[IF i < insert THEN i ELSE i + 1] = r[i]
  <2>1. /\ InsertAt(r, insert, e) \in Seq(Text) /\ Len(InsertAt(r, insert, e)) = Len(r) + 1
        /\ InsertAt(r, insert, e)[insert] = e
        /\ \A i \in 1 .. Len(r) : InsertAt(r, insert, e)[IF i < insert THEN i ELSE i + 1] = r[i]
    BY <1>1, <1>3, InsertAtIs
  <2>2. Len(r) = Len(s) - 1 /\ Len(s) \in Nat
    BY <1>1
  <2>3. Len(r) + 1 = Len(s)
    BY <2>2
  <2> QED BY <1>2, <2>1, <2>2, <2>3
<1>5. ASSUME NEW j \in 1 .. Len(s)
      PROVE  \E i \in 1 .. Len(moved) : moved[i] = s[j]
  <2>1. CASE j = k
    BY <1>4, <2>1 DEF e
  <2>2. CASE j < k
    <3>1. j \in 1 .. Len(s) - 1 /\ r[j] = s[j]
      BY <1>1, <2>2
    <3> QED BY <1>4, <3>1
  <2>3. CASE j > k
    <3>1. j - 1 \in 1 .. Len(s) - 1 /\ ~(j - 1 < k) /\ (j - 1) + 1 = j
      BY <2>3
    <3>2. r[j - 1] = s[j]
      BY <1>1, <3>1
    <3> QED BY <1>4, <3>1, <3>2
  <2> QED BY <2>1, <2>2, <2>3
<1> QED BY <1>4, <1>5 DEF Contains

\* A name without the blanks around it is still one.
LEMMA TrimmedIs ==
  ASSUME NEW t \in Text
  PROVE  Trimmed(t) \in Text
<1> DEFINE solid == {i \in DOMAIN t : t[i] # Space}
           first == CHOOSE i \in solid : \A j \in solid : i <= j
           last == CHOOSE i \in solid : \A j \in solid : j <= i
<1>1. CASE solid = {}
  BY <1>1, EmptyWeighsNothing DEF Trimmed
<1>2. CASE solid # {}
  <2>1. solid \subseteq Nat /\ solid \subseteq 0 .. Len(t) /\ Len(t) \in Nat /\ solid \subseteq 1 .. Len(t)
    BY DEF Text
  <2>2. Trimmed(t) = SubSeq(t, first, last)
    BY <1>2 DEF Trimmed
  <2> HIDE DEF solid
  <2>3. first \in solid
    BY <1>2, <2>1, LeastExists
  <2>4. last \in solid
    BY <1>2, <2>1, GreatestExists
  <2>5. first \in 1 .. Len(t) /\ last \in 1 .. Len(t)
    BY <2>1, <2>3, <2>4
  <2> HIDE DEF first, last
  <2> QED BY <2>2, <2>5 DEF Text
<1> QED BY <1>1, <1>2

DialogSet == [op : {"create", "rename", "delete"}, old : {None} \cup Text, name : Text]

PaletteSet == [query : Text, selected : Nat, scroll : Nat]

AppSet(a) ==
  [profiles : Seq(Text), active : {a.active}, streams : {a.streams}, modal : {None} \cup DialogSet,
   palette : {None} \cup PaletteSet]

NamesOne(a) == a.modal # None /\ a.modal.op # "create" => Contains(a.profiles, a.modal.old)

\* What the overlays' part of the state is made of.
AppOk(a) == a \in AppSet(a) /\ IsFiniteSet(a.streams) /\ NamesOne(a)


Quiet(b, a) == b.palette = a.palette /\ (a.modal = None => b.modal = None)

LEMMA ToggledIs ==
  ASSUME NEW a, AppOk(a)
  PROVE  /\ AppOk(Toggled(a)) /\ Toggled(a).modal = a.modal
         /\ a.palette # None => Toggled(a).palette = None
         /\ a.palette = None /\ a.modal = None => Toggled(a).palette = OpenPalette
         /\ a.palette = None /\ a.modal # None => Toggled(a).palette = None
<1>1. OpenPalette \in PaletteSet
  BY EmptyWeighsNothing DEF OpenPalette, PaletteSet
<1> QED BY <1>1 DEF AppOk, AppSet, NamesOne, Toggled

LEMMA QueriedIs ==
  ASSUME NEW a, AppOk(a), NEW query \in Text
  PROVE  /\ AppOk(Queried(a, query)) /\ Queried(a, query).modal = a.modal
         /\ a.palette = None => Queried(a, query).palette = None
         /\ a.palette # None => Queried(a, query).palette # None /\ Queried(a, query).palette.query = query
<1>1. [OpenPalette EXCEPT !.query = query] = [query |-> query, selected |-> 0, scroll |-> 0]
  BY DEF OpenPalette
<1>2. [OpenPalette EXCEPT !.query = query] \in PaletteSet
  BY <1>1 DEF PaletteSet
<1>3. None \notin PaletteSet
  BY OverlayAssumption DEF PaletteSet, Text
<1> QED BY <1>1, <1>2, <1>3 DEF AppOk, AppSet, NamesOne, Queried

LEMMA ScrolledIs ==
  ASSUME NEW a, AppOk(a), NEW row \in Nat
  PROVE  /\ AppOk(ScrolledTo(a, row)) /\ ScrolledTo(a, row).modal = a.modal
         /\ a.palette = None => ScrolledTo(a, row).palette = None
         /\ a.palette # None => /\ ScrolledTo(a, row).palette # None
                                /\ ScrolledTo(a, row).palette.query = a.palette.query
<1>1. None \notin PaletteSet
  BY OverlayAssumption DEF PaletteSet, Text
<1>2. CASE a.palette = None
  BY <1>2 DEF ScrolledTo
<1>3. CASE a.palette # None
  <2> DEFINE p == [a.palette EXCEPT !.scroll = row]
  <2>1. p \in PaletteSet /\ p.query = a.palette.query
    BY <1>3 DEF AppOk, AppSet, PaletteSet
  <2>2. ScrolledTo(a, row) = [a EXCEPT !.palette = p]
    BY <1>3 DEF ScrolledTo
  <2> HIDE DEF p
  <2> QED BY <1>1, <1>3, <2>1, <2>2 DEF AppOk, AppSet, NamesOne
<1> QED BY <1>2, <1>3


LEMMA RowsOfAre ==
  ASSUME NEW a, AppOk(a)
  PROVE  Spoken(RowsOf(a)) /\ Len(RowsOf(a)) \in Nat
<1>1. CASE a.palette = None
  BY <1>1, EmptyIsSpoken, SpokenIs DEF RowsOf
<1>2. CASE a.palette # None
  <2>1. Spoken(PaletteRows(a.profiles, a.streams, a.palette.query))
    BY RowsAreSpoken DEF AppOk, AppSet
  <2> QED BY <1>2, <2>1, SpokenIs DEF RowsOf
<1> QED BY <1>1, <1>2

LEMMA ArrowIs ==
  ASSUME NEW a, AppOk(a), NEW m, m.op \in {"prev", "next"}, NEW b, b = Reduced(a, m)
  PROVE  /\ AppOk(b) /\ b.modal = a.modal
         /\ a.palette = None => b.palette = None
         /\ a.palette # None => b.palette # None /\ b.palette.query = a.palette.query
<1> DEFINE count == Len(RowsOf(a))
           sel == a.palette.selected
           at == IF m.op = "prev" THEN IF sel = 0 THEN count - 1 ELSE sel - 1
                 ELSE IF sel >= count - 1 THEN 0 ELSE sel + 1
           scroll == ScrollIntoView(a.palette.scroll, at, VisibleRows)
           home == [a.palette EXCEPT !.selected = 0, !.scroll = 0]
           there == [a.palette EXCEPT !.selected = at, !.scroll = scroll]
<1>1. None \notin PaletteSet
  BY OverlayAssumption DEF PaletteSet, Text
<1>2. b = CASE a.palette = None -> a
            [] a.palette # None /\ count = 0 -> [a EXCEPT !.palette.selected = 0, !.palette.scroll = 0]
            [] OTHER -> [a EXCEPT !.palette.selected = at, !.palette.scroll = scroll]
  <2>1. CASE m.op = "prev"
    BY <2>1 DEF Reduced, Selected
  <2>2. CASE m.op = "next"
    BY <2>2 DEF Reduced, Selected
  <2> QED BY <2>1, <2>2
<1>3. CASE a.palette = None
  BY <1>2, <1>3
<1>4. CASE a.palette # None
  <2>1. a.palette \in PaletteSet /\ a.palette.selected \in Nat /\ a.palette.scroll \in Nat
    BY <1>4 DEF AppOk, AppSet, PaletteSet
  <2>2. count \in Nat
    BY RowsOfAre
  <2>3. [a EXCEPT !.palette.selected = 0, !.palette.scroll = 0] = [a EXCEPT !.palette = home]
    BY DEF AppOk, AppSet
  <2>4. [a EXCEPT !.palette.selected = at, !.palette.scroll = scroll] = [a EXCEPT !.palette = there]
    <3> HIDE DEF at, scroll
    <3> QED BY DEF AppOk, AppSet
  <2>5. home \in PaletteSet /\ home.query = a.palette.query
    BY <2>1 DEF PaletteSet
  <2>6. count # 0 => at \in Nat /\ scroll \in Nat
    <3>1. count # 0 => at \in Nat
      BY <2>1, <2>2
    <3> HIDE DEF at, count
    <3> QED BY <2>1, <3>1, RowsAssumption DEF ScrollIntoView, Larger
  <2>7. count # 0 => there \in PaletteSet /\ there.query = a.palette.query
    <3> HIDE DEF at, scroll, count
    <3> QED BY <2>1, <2>6 DEF PaletteSet
  <2>8. b = [a EXCEPT !.palette = IF count = 0 THEN home ELSE there]
    <3> HIDE DEF at, scroll, count, home, there
    <3> QED BY <1>2, <1>4, <2>3, <2>4
  <2> DEFINE p == IF count = 0 THEN home ELSE there
  <2>9. p \in PaletteSet /\ p.query = a.palette.query
    <3> HIDE DEF home, there, count
    <3> QED BY <2>5, <2>7
  <2> HIDE DEF p, count, home, there, at, scroll
  <2>10. b = [a EXCEPT !.palette = p]
    BY <2>8 DEF p
  <2> QED BY <1>1, <1>4, <2>9, <2>10 DEF AppOk, AppSet, NamesOne
<1> QED BY <1>3, <1>4


LEMMA OpenedIs ==
  ASSUME NEW a, AppOk(a), NEW op \in {"create", "rename", "delete"}, NEW name
  PROVE  AppOk(Opened(a, op, name)) /\ Opened(a, op, name).palette = a.palette
<1>1. a \in AppSet(a) /\ IsFiniteSet(a.streams) /\ a.profiles \in Seq(Text) /\ NamesOne(a)
  BY DEF AppOk, AppSet
<1>2. CASE op = "create"
  <2> DEFINE d == Dialog("create", None, <<>>)
  <2>1. d \in DialogSet /\ d.op = "create"
    BY EmptyWeighsNothing DEF Dialog, DialogSet
  <2>2. Opened(a, op, name) = [a EXCEPT !.modal = d]
    BY <1>2 DEF Opened
  <2> HIDE DEF d
  <2> QED BY <1>1, <2>1, <2>2 DEF AppOk, AppSet, NamesOne
<1>3. CASE op # "create" /\ Contains(a.profiles, name)
  <2> DEFINE typed == IF op = "rename" THEN name ELSE <<>>
             d == Dialog(op, name, typed)
  <2>1. name \in Text
    BY <1>1, <1>3 DEF Contains
  <2>2. typed \in Text
    BY <2>1, EmptyWeighsNothing
  <2>3. Opened(a, op, name) = [a EXCEPT !.modal = d]
    BY <1>3 DEF Opened
  <2> HIDE DEF typed
  <2>4. d \in DialogSet /\ d.old = name
    BY <1>3, <2>1, <2>2 DEF Dialog, DialogSet
  <2> HIDE DEF d
  <2> QED BY <1>1, <1>3, <2>3, <2>4 DEF AppOk, AppSet, NamesOne
<1>4. CASE op # "create" /\ ~Contains(a.profiles, name)
  BY <1>4 DEF Opened
<1> QED BY <1>2, <1>3, <1>4

LEMMA NamedIs ==
  ASSUME NEW a, AppOk(a), NEW text \in Text
  PROVE  AppOk(Named(a, text)) /\ Quiet(Named(a, text), a)
<1>1. CASE a.modal = None \/ a.modal.op = "delete"
  BY <1>1 DEF Named, Quiet
<1>2. CASE ~(a.modal = None \/ a.modal.op = "delete")
  <2> DEFINE d == [a.modal EXCEPT !.name = text]
  <2>1. a.modal \in DialogSet
    BY <1>2 DEF AppOk, AppSet
  <2>2. d \in DialogSet /\ d.op = a.modal.op /\ d.old = a.modal.old
    BY <2>1 DEF DialogSet
  <2>3. Named(a, text) = [a EXCEPT !.modal = d]
    BY <1>2 DEF Named
  <2> HIDE DEF d
  <2> QED BY <1>2, <2>2, <2>3 DEF AppOk, AppSet, NamesOne, Quiet
<1> QED BY <1>1, <1>2

\* A dialog that is through leaves no dialog.
LEMMA ConfirmedIs ==
  ASSUME NEW a, AppOk(a)
  PROVE  AppOk(Confirmed(a)) /\ Quiet(Confirmed(a), a)
<1>1. a \in AppSet(a) /\ IsFiniteSet(a.streams) /\ a.profiles \in Seq(Text)
  BY DEF AppOk, AppSet
<1>2. CASE a.modal = None
  BY <1>2 DEF Confirmed, Quiet
<1>3. CASE a.modal # None
  <2> DEFINE name == Trimmed(a.modal.name)
             old == a.modal.old
  <2>1. a.modal \in DialogSet
    BY <1>3 DEF AppOk, AppSet
  <2>2. name \in Text /\ a.modal.op \in {"create", "rename", "delete"}
    BY <2>1, TrimmedIs DEF DialogSet
  <2>3. Confirmed(a) \in {a, [a EXCEPT !.modal = None], Removed(a, old), Created(a, name), Renamed(a, old, name)}
    BY <1>3, <2>2 DEF Confirmed
  <2> HIDE DEF name, old
  <2>4. CASE Confirmed(a) = a
    BY <2>4 DEF Quiet
  <2>5. CASE Confirmed(a) = [a EXCEPT !.modal = None]
    BY <1>1, <2>5 DEF AppOk, AppSet, NamesOne, Quiet
  <2>6. CASE Confirmed(a) = Removed(a, old)
    <3> DEFINE rest == RemoveFirst(a.profiles, old)
               left == IF rest = <<>> THEN <<Default>> ELSE rest
               active == IF a.active = old THEN left[1] ELSE a.active
    <3>1. rest \in Seq(Text)
      BY <1>1, RemovedFirst
    <3>2. left \in Seq(Text)
      <4> HIDE DEF rest
      <4> QED BY <3>1, TextAssumption DEF Text
    <3>3. Removed(a, old) = [a EXCEPT !.modal = None, !.profiles = left, !.active = active]
      BY DEF Removed
    <3> HIDE DEF rest, left, active
    <3> QED BY <1>1, <2>6, <3>2, <3>3 DEF AppOk, AppSet, NamesOne, Quiet
  <2>7. CASE Confirmed(a) = Created(a, name)
    <3> DEFINE names == IF Contains(a.profiles, name) THEN a.profiles ELSE Append(a.profiles, name)
    <3>1. names \in Seq(Text)
      BY <1>1, <2>2
    <3>2. Created(a, name) = [a EXCEPT !.modal = None, !.active = name, !.profiles = names]
      BY DEF Created
    <3> HIDE DEF names
    <3> QED BY <1>1, <2>7, <3>1, <3>2 DEF AppOk, AppSet, NamesOne, Quiet
  <2>8. CASE Confirmed(a) = Renamed(a, old, name)
    <3> DEFINE names == ReplaceAll(a.profiles, old, name)
               active == IF a.active = old THEN name ELSE a.active
    <3>1. names \in Seq(Text)
      BY <1>1, <2>2 DEF ReplaceAll
    <3>2. Renamed(a, old, name) = [a EXCEPT !.modal = None, !.active = active, !.profiles = names]
      BY DEF Renamed
    <3> HIDE DEF names, active
    <3> QED BY <1>1, <2>8, <3>1, <3>2 DEF AppOk, AppSet, NamesOne, Quiet
  <2> QED BY <2>3, <2>4, <2>5, <2>6, <2>7, <2>8
<1> QED BY <1>2, <1>3

LEMMA ReorderedIs ==
  ASSUME NEW a, AppOk(a), NEW name, NEW target, NEW before \in BOOLEAN
  PROVE  AppOk(Reordered(a, name, target, before)) /\ Quiet(Reordered(a, name, target, before), a)
<1>1. a \in AppSet(a) /\ IsFiniteSet(a.streams) /\ a.profiles \in Seq(Text) /\ NamesOne(a)
  BY DEF AppOk, AppSet
<1>2. CASE name = target \/ ~Contains(a.profiles, name) \/ ~Contains(a.profiles, target)
  BY <1>2 DEF Reordered, Quiet
<1>3. CASE ~(name = target \/ ~Contains(a.profiles, name) \/ ~Contains(a.profiles, target))
  <2> DEFINE s == a.profiles
             src == Place(s, name)
             at == Place(s, target)
             desired == IF before THEN at ELSE at + 1
             insert == IF src < desired THEN desired - 1 ELSE desired
             moved == InsertAt(RemoveAt(s, src), insert, s[src])
  <2>1. /\ SelectInSeq(s, LAMBDA n : n = name) = src /\ src \in 1 .. Len(s) /\ s[src] = name
        /\ SelectInSeq(s, LAMBDA n : n = target) = at /\ at \in 1 .. Len(s) /\ s[at] = target
    BY <1>1, <1>3, FirstPlace
  <2>2. Reordered(a, name, target, before) = [a EXCEPT !.profiles = moved]
    BY <1>3, <2>1 DEF Reordered
  <2>3. Len(s) \in Nat
    BY <1>1
  <2> HIDE DEF src, at
  <2>4. insert \in 1 .. Len(s)
    BY <2>1, <2>3
  <2> HIDE DEF insert
  <2>5. moved \in Seq(Text) /\ \A n : Contains(s, n) => Contains(moved, n)
    <3>1. s \in Seq(Text) /\ src \in 1 .. Len(s) /\ moved = InsertAt(RemoveAt(s, src), insert, s[src])
      BY <1>1, <2>1
    <3> HIDE DEF moved, s
    <3> QED BY <2>4, <3>1, MovedNames
  <2> HIDE DEF moved
  <2> QED BY <1>1, <2>2, <2>5 DEF AppOk, AppSet, NamesOne, Quiet
<1> QED BY <1>2, <1>3


\* Messages about streams leave profiles, dialog and palette alone.
LEMMA StreamsChanged ==
  ASSUME NEW a, AppOk(a), NEW streams, IsFiniteSet(streams), NEW b, b = [a EXCEPT !.streams = streams]
  PROVE  AppOk(b) /\ Quiet(b, a)
BY DEF AppOk, AppSet, NamesOne, Quiet

LEMMA StreamMessageIs ==
  ASSUME NEW a, AppOk(a), NEW m, m.op \in {"mute", "unmute", "pin", "unpin", "reset", "stream", "gone"}
  PROVE  AppOk(Reduced(a, m)) /\ Quiet(Reduced(a, m), a)
<1> DEFINE S == a.streams
<1>1. IsFiniteSet(S)
  BY DEF AppOk
<1>2. CASE m.op \in {"mute", "unmute"}
  <2> DEFINE f == [s \in S |-> IF s.id = m.of THEN [s EXCEPT !.muted = ~s.muted] ELSE s]
             T == {IF s.id = m.of THEN [s EXCEPT !.muted = ~s.muted] ELSE s : s \in S}
  <2>1. f \in Surjection(S, T)
    BY DEF Surjection
  <2>2. Reduced(a, m) = [a EXCEPT !.streams = T]
    BY <1>2 DEF Reduced, WithStream
  <2> HIDE DEF f, T
  <2> QED BY <1>1, <2>1, <2>2, FS_Surjection, StreamsChanged
<1>3. CASE m.op = "pin"
  <2> DEFINE f == [s \in S |-> IF s.id = m.of THEN [s EXCEPT !.target = m.to] ELSE s]
             T == {IF s.id = m.of THEN [s EXCEPT !.target = m.to] ELSE s : s \in S}
  <2>1. f \in Surjection(S, T)
    BY DEF Surjection
  <2>2. Reduced(a, m) = [a EXCEPT !.streams = T]
    BY <1>3 DEF Reduced, WithStream
  <2> HIDE DEF f, T
  <2> QED BY <1>1, <2>1, <2>2, FS_Surjection, StreamsChanged
<1>4. CASE m.op = "unpin"
  <2> DEFINE f == [s \in S |-> IF s.id = m.of THEN [s EXCEPT !.target = None] ELSE s]
             T == {IF s.id = m.of THEN [s EXCEPT !.target = None] ELSE s : s \in S}
  <2>1. f \in Surjection(S, T)
    BY DEF Surjection
  <2>2. Reduced(a, m) = [a EXCEPT !.streams = T]
    BY <1>4 DEF Reduced, WithStream
  <2> HIDE DEF f, T
  <2> QED BY <1>1, <2>1, <2>2, FS_Surjection, StreamsChanged
<1>5. CASE m.op = "reset"
  <2> DEFINE f == [s \in S |-> [s EXCEPT !.target = None]]
             T == {[s EXCEPT !.target = None] : s \in S}
  <2>1. f \in Surjection(S, T)
    BY DEF Surjection
  <2>2. Reduced(a, m) = [a EXCEPT !.streams = T]
    BY <1>5 DEF Reduced
  <2> HIDE DEF f, T
  <2> QED BY <1>1, <2>1, <2>2, FS_Surjection, StreamsChanged
<1>6. CASE m.op \in {"stream", "gone"}
  <2> DEFINE T == IF m.op = "stream" THEN {x \in S : x.id # m.of.id} \cup {m.of} ELSE {x \in S : x.id # m.of}
             K == IF m.op = "stream" THEN {x \in S : x.id # m.of.id} ELSE {x \in S : x.id # m.of}
  <2>1. K \in SUBSET S /\ (T = K \/ T = K \cup {m.of})
    OBVIOUS
  <2>2. Reduced(a, m) = [a EXCEPT !.streams = T]
    <3>1. CASE m.op = "stream"
      BY <3>1 DEF Reduced
    <3>2. CASE m.op = "gone"
      BY <3>2 DEF Reduced
    <3> QED BY <1>6, <3>1, <3>2
  <2> HIDE DEF T, K
  <2>3. IsFiniteSet(K)
    BY <1>1, <2>1, FS_Subset
  <2>4. IsFiniteSet(T)
    BY <2>1, <2>3, FS_AddElement
  <2> QED BY <2>2, <2>4, StreamsChanged
<1> QED BY <1>2, <1>3, <1>4, <1>5, <1>6

\* The messages that leave the palette alone and open no dialog.
Calm == {"name", "confirm", "dismiss", "apply", "before", "after", "mute", "unmute", "pin", "unpin", "reset",
         "stream", "gone", "volume", "default"}

LEMMA CalmIs ==
  ASSUME NEW a, AppOk(a), NEW m, m.op \in Calm, m.op = "name" => m.of \in Text
  PROVE  AppOk(Reduced(a, m)) /\ Quiet(Reduced(a, m), a)
<1>1. a \in AppSet(a) /\ IsFiniteSet(a.streams) /\ NamesOne(a)
  BY DEF AppOk
<1>2. CASE m.op \in {"mute", "unmute", "pin", "unpin", "reset", "stream", "gone"}
  BY <1>2, StreamMessageIs
<1>3. CASE m.op = "name"
  <2>1. Reduced(a, m) = Named(a, m.of)
    BY <1>3 DEF Reduced
  <2> QED BY <1>3, <2>1, NamedIs
<1>4. CASE m.op = "confirm"
  <2>1. Reduced(a, m) = Confirmed(a)
    BY <1>4 DEF Reduced
  <2> QED BY <2>1, ConfirmedIs
<1>5. CASE m.op = "dismiss"
  <2>1. Reduced(a, m) = [a EXCEPT !.modal = None]
    BY <1>5 DEF Reduced
  <2> QED BY <1>1, <2>1 DEF AppOk, AppSet, NamesOne, Quiet
<1>6. CASE m.op = "apply"
  <2>1. Reduced(a, m) \in {a, [a EXCEPT !.active = m.of]}
    BY <1>6 DEF Reduced
  <2> QED BY <1>1, <2>1 DEF AppOk, AppSet, NamesOne, Quiet
<1>7. CASE m.op \in {"before", "after"}
  <2>1. Reduced(a, m) \in {Reordered(a, m.of, m.to, TRUE), Reordered(a, m.of, m.to, FALSE)}
    BY <1>7 DEF Reduced
  <2> QED BY <2>1, ReorderedIs
<1>8. CASE m.op \in {"volume", "default"}
  <2>1. Reduced(a, m) = a
    BY <1>8 DEF Reduced
  <2> QED BY <2>1 DEF Quiet
<1> QED BY <1>2, <1>3, <1>4, <1>5, <1>6, <1>7, <1>8 DEF Calm

\* A command leaves the palette alone.
LEMMA CommandIs ==
  ASSUME NEW a, AppOk(a), NEW m, m.op \in Verbs
  PROVE  AppOk(Reduced(a, m)) /\ Reduced(a, m).palette = a.palette
<1>1. CASE m.op \in {"create", "rename", "delete"}
  <2>1. Reduced(a, m) = Opened(a, m.op, m.of)
    BY <1>1 DEF Reduced
  <2> QED BY <1>1, <2>1, OpenedIs
<1>2. CASE m.op \notin {"create", "rename", "delete"}
  <2>1. m.op \in Calm /\ m.op # "name"
    BY <1>2 DEF Verbs, Calm
  <2> QED BY <2>1, CalmIs DEF Quiet
<1> QED BY <1>1, <1>2


-----------------------------------------------------------------------------
(* The events by what they say and where they leave the keyboard.          *)

Off == Msg("toggle", None, None)

SameText == ui'.editor.text = ui.editor.text

\* Without an opinion of its own on whether the palette has the keyboard.
Steady ==
  \/ ui'.focus = ui.focus
  \/ ui.focus # "palette" /\ ui'.focus # "palette"
  \/ app.modal # None /\ ui'.focus # "palette"
  \/ app.palette # None /\ ui'.focus = "palette"

\* A volume is said of the row the fader in the hand was taken by.
OfTheHand(m) == m.of = ui'.drag.of /\ ui'.drag.is = "slider" /\ m.of \in StreamIds(app)

CalmEvent ==
  /\ Steady /\ SameText
  /\ \/ sent' = <<>>
     \/ \E m : sent' = <<m>> /\ m.op \in Calm \ {"name"} /\ (m.op = "volume" => OfTheHand(m))

ListEvent ==
  /\ ui'.focus = ui.focus /\ SameText
  /\ \E m : sent' = <<m>> /\ (m.op \in {"prev", "next"} \/ (m.op = "scroll" /\ m.of \in Nat))

EditEvent ==
  /\ ui.focus \in {"palette", "modal"} /\ ui'.focus = ui.focus
  /\ \/ sent' = EditorMessage(ui')
     \/ sent' = <<>> /\ (SameText \/ Bytes(ui.editor.text) >= MaxBytes)

CloseEvent ==
  /\ ui.focus = "palette" \/ app.palette # None
  /\ ui'.focus = "body"
  /\ \/ sent' = <<Off>>
     \/ app.palette # None /\ \E m : m.op \in Verbs /\ sent' = <<m, Off>>

OpenEvent == ui.focus = "body" /\ ui'.focus = "palette" /\ ui'.editor.text = <<>> /\ sent' = <<Off>>

CreateEvent ==
  /\ OpenColumns(app) /\ ui'.focus = ui.focus /\ SameText
  /\ \E m : sent' = <<m>> /\ m.op = "create"

\* The kinds of events there are.
KindOfEvent == CalmEvent \/ ListEvent \/ EditEvent \/ CloseEvent \/ CreateEvent

LEMMA PairOf ==
  ASSUME NEW x, NEW y
  PROVE  <<x>> \o <<y>> = <<x, y>>
<1> DEFINE S == {x, y}
           s == <<x>>
           t == <<y>>
           u == <<x, y>>
<1>1. s \in Seq(S) /\ Len(s) = 1 /\ s[1] = x
  OBVIOUS
<1>2. t \in Seq(S) /\ Len(t) = 1 /\ t[1] = y
  OBVIOUS
<1>3. u \in Seq(S) /\ Len(u) = 2 /\ u[1] = x /\ u[2] = y
  OBVIOUS
<1> HIDE DEF S, s, t, u
<1>4. /\ s \o t \in Seq(S) /\ Len(s \o t) = 1 + 1
      /\ \A i \in 1 .. 1 + 1 : (s \o t)[i] = IF i <= 1 THEN s[i] ELSE t[i - 1]
  BY <1>1, <1>2, ConcatProperties
<1>5. Len(s \o t) = Len(u) /\ \A i \in 1 .. Len(s \o t) : (s \o t)[i] = u[i]
  BY <1>1, <1>2, <1>3, <1>4
<1> DEFINE v == s \o t
<1>6. v \in Seq(S) /\ u \in Seq(S) /\ Len(v) = Len(u) /\ \A i \in 1 .. Len(v) : v[i] = u[i]
  BY <1>3, <1>4, <1>5
<1> HIDE DEF v
<1>7. v = u
  BY <1>6, SeqEqual
<1> QED BY <1>7 DEF s, t, u, v

LEMMA RowSays ==
  ASSUME NEW a, AppOk(a), NEW i \in 1 .. Len(RowsOf(a))
  PROVE  a.palette # None /\ Activated(RowsOf(a)[i]).op \in Verbs
<1>1. Spoken(RowsOf(a)) /\ Len(RowsOf(a)) \in Nat
  BY RowsOfAre
<1>2. RowsOf(a)[i].verb \in Verbs
  BY <1>1, SpokenIs
<1>3. a.palette # None
  <2>1. CASE a.palette = None
    <3>1. RowsOf(a) = <<>>
      BY <2>1 DEF RowsOf
    <3> QED BY <3>1
  <2> QED BY <2>1
<1> QED BY <1>2, <1>3 DEF Activated, Msg

\* Ctrl+K, and every other event.
OtherKey ==
  \/ MuteKey \/ Escape \/ RunCommand \/ ConfirmKey \/ Arrow \/ Edit \/ Cut
  \/ \E text \in Clipboard : Paste(text)

OtherStep ==
  \/ OtherKey
  \/ PointerStep
  \/ \E s \in Source : StreamCame(s)
  \/ \E id \in StreamIds(app) : StreamGone(id)
  \/ Blink
  \/ RestCaret
  \/ \E room \in Room : Resize(room)

LEMMA UiStepIs == UiStep <=> OpenPaletteKey \/ OtherStep
BY DEF UiStep, OtherStep, KeyStep, OtherKey

LEMMA OpenSays ==
  ASSUME UiOk(ui), OpenPaletteKey
  PROVE  OpenEvent
<1>1. ui' = [ui EXCEPT !.focus = "palette", !.editor = Cleared, !.visible = TRUE, !.left = Toggles]
  BY DEF OpenPaletteKey, Woken
<1>2. ui'.focus = "palette" /\ ui'.editor.text = <<>>
  BY <1>1 DEF UiOk, UiSet, Cleared
<1> QED BY <1>2 DEF OpenPaletteKey, OpenEvent, Sends, Off

LEMMA KeySays ==
  ASSUME UiOk(ui), AppOk(app), OtherKey
  PROVE  KindOfEvent
<1>1. ui \in UiSet(ui) /\ SoundField(ui.editor) /\ ui.focus \in {"body", "palette", "modal"}
  BY DEF UiOk, UiSet, SoundField
<1>3. CASE MuteKey
  <2>1. sent' = <<Msg("mute", ui.hover[2], None)>> /\ ui' = ui
    BY <1>3 DEF MuteKey, Sends
  <2>2. Msg("mute", ui.hover[2], None).op = "mute"
    BY DEF Msg
  <2>3. CalmEvent
    BY <2>1, <2>2 DEF CalmEvent, Steady, SameText, Calm
  <2> QED BY <2>3 DEF KindOfEvent
<1>4. CASE Escape
  <2>1. ui'.focus = "body" /\ SameText
    BY <1>1, <1>4 DEF Escape, UiSet, SameText
  <2>2. CASE ui.focus = "palette"
    <3>1. sent' = <<Off>>
      BY <1>4, <2>2 DEF Escape, Sends, Off
    <3> QED BY <2>1, <2>2, <3>1 DEF KindOfEvent, CloseEvent
  <2>3. CASE ui.focus # "palette"
    <3>1. sent' = <<Msg("dismiss", None, None)>> /\ Msg("dismiss", None, None).op = "dismiss"
      BY <1>4, <2>3 DEF Escape, Sends, Msg
    <3>2. Steady
      BY <2>1, <2>3 DEF Steady
    <3>3. CalmEvent
      BY <2>1, <3>1, <3>2 DEF CalmEvent, Calm
    <3> QED BY <3>3 DEF KindOfEvent
  <2> QED BY <2>2, <2>3
<1>5. CASE RunCommand
  <2> DEFINE rows == RowsOf(app)
             at == ShownSelected(Len(rows), app.palette.selected)
  <2>1. ui.focus = "palette" /\ ui'.focus = "body"
    BY <1>1, <1>5 DEF RunCommand, UiSet
  <2>2. sent' = (IF rows = <<>> THEN <<>> ELSE <<Activated(rows[at + 1])>>) \o <<Off>>
    BY <1>5 DEF RunCommand, Sends, Off
  <2>3. CASE rows = <<>>
    <3>1. sent' = <<Off>>
      BY <2>2, <2>3
    <3> QED BY <2>1, <3>1 DEF KindOfEvent, CloseEvent
  <2>4. CASE rows # <<>>
    <3> DEFINE row == Activated(rows[at + 1])
    <3>1. sent' = <<row, Off>>
      <4>1. sent' = <<row>> \o <<Off>>
        BY <2>2, <2>4
      <4> HIDE DEF row
      <4> QED BY <4>1, PairOf
    <3>2. Len(rows) \in Nat /\ Len(rows) # 0 /\ app.palette # None
      <4>1. PICK S : rows \in Seq(S)
        BY RowsOfAre DEF Spoken
      <4> QED BY <2>4, <4>1 DEF RowsOf
    <3>3. app.palette.selected \in Nat
      BY <3>2 DEF AppOk, AppSet, PaletteSet
    <3>4. at + 1 \in 1 .. Len(rows)
      BY <3>2, <3>3 DEF ShownSelected, Smaller, Larger
    <3> HIDE DEF at
    <3>5. Activated(rows[at + 1]).op \in Verbs
      BY <3>4, RowSays
    <3> QED BY <2>1, <3>1, <3>2, <3>5 DEF KindOfEvent, CloseEvent
  <2> QED BY <2>3, <2>4
<1>6. CASE ConfirmKey
  <2>1. ui'.focus = ui.focus /\ SameText
    BY <1>1, <1>6 DEF ConfirmKey, Woken, UiSet, SameText
  <2>2. sent' = <<Msg("confirm", None, None)>> /\ Msg("confirm", None, None).op = "confirm"
    BY <1>6 DEF ConfirmKey, Sends, Msg
  <2>3. CalmEvent
    BY <2>1, <2>2 DEF CalmEvent, Calm, Steady
  <2> QED BY <2>3 DEF KindOfEvent
<1>7. CASE Arrow
  <2>1. ui'.focus = ui.focus /\ SameText
    BY <1>1, <1>7 DEF Arrow, Woken, UiSet, SameText
  <2>2. PICK op \in {"prev", "next"} : sent' = <<Msg(op, None, None)>>
    BY <1>7 DEF Arrow, Sends
  <2>3. Msg(op, None, None).op \in {"prev", "next"}
    BY DEF Msg
  <2>4. ListEvent
    BY <2>1, <2>2, <2>3 DEF ListEvent
  <2> QED BY <2>4 DEF KindOfEvent
<1>8. CASE Edit
  <2>1. PICK k \in EditKeys(ui.editor) : ui' = Woken([ui EXCEPT !.editor = k[1]]) /\ sent' = Told(ui', k[2])
    BY <1>8 DEF Edit, Sends
  <2>2. k[2] \/ k[1].text = ui.editor.text \/ Bytes(ui.editor.text) >= MaxBytes
    BY <1>1, KeysAreSound
  <2>3. ui'.focus = ui.focus /\ ui'.editor = k[1]
    BY <1>1, <2>1 DEF Woken, UiSet
  <2>4. ui.focus \in {"palette", "modal"}
    BY <1>1, <1>8 DEF Edit, Focused
  <2>5. sent' = EditorMessage(ui') \/ (sent' = <<>> /\ ~k[2])
    BY <2>1 DEF Told
  <2>6. EditEvent
    BY <2>2, <2>3, <2>4, <2>5 DEF EditEvent, SameText
  <2> QED BY <2>6 DEF KindOfEvent
<1>9. CASE Cut
  <2>1. ui'.focus = ui.focus /\ sent' = EditorMessage(ui')
    BY <1>1, <1>9 DEF Cut, UiSet, Sends
  <2>2. ui.focus \in {"palette", "modal"}
    BY <1>1, <1>9 DEF Cut, Focused
  <2>3. EditEvent
    BY <2>1, <2>2 DEF EditEvent
  <2> QED BY <2>3 DEF KindOfEvent
<1>10. CASE \E text \in Clipboard : Paste(text)
  <2>1. PICK text \in Clipboard : Paste(text)
    BY <1>10
  <2>2. PasteFits(ui.editor, text) \/ Pasted(ui.editor, text) = ui.editor
    BY <1>1, PastedIsSound, TextAssumption DEF Text
  <2>3. ui'.focus = ui.focus /\ ui'.editor = Pasted(ui.editor, text) /\ sent' = Told(ui', PasteFits(ui.editor, text))
    BY <1>1, <2>1 DEF Paste, UiSet, Sends
  <2>4. ui.focus \in {"palette", "modal"}
    BY <1>1, <2>1 DEF Paste, Focused
  <2>5. sent' = EditorMessage(ui') \/ (sent' = <<>> /\ ~PasteFits(ui.editor, text))
    BY <2>3 DEF Told
  <2>6. EditEvent
    BY <2>2, <2>3, <2>4, <2>5 DEF EditEvent, SameText
  <2> QED BY <2>6 DEF KindOfEvent
<1> QED BY <1>3, <1>4, <1>5, <1>6, <1>7, <1>8, <1>9, <1>10 DEF OtherKey


\* What a button says.
LEMMA ButtonsSay ==
  ASSUME NEW a, NEW u, NEW m, Target("button", m) \in ColumnTargets(a) \cup MenuTargets(a, u)
  PROVE  m.op \in {"pin", "unpin", "default", "create"}
<1> DEFINE sinks == {s \in a.streams : s.kind = "sink"}
           pin(s, k) == IF s.target = k.id THEN Msg("unpin", s.id, None) ELSE Msg("pin", s.id, k.id)
<1>1. \A x, y, v, w : <<x, v>> = <<y, w>> => x = y /\ v = w
  OBVIOUS
<1>2. CASE Target("button", m) \in ColumnTargets(a)
  <2>1. PICK s \in a.streams :
          \/ Target("button", m) \in {Target("slider", s.id), Target("mute", s.id)}
          \/ \E k \in sinks : Target("button", m) = Target("button", pin(s, k))
          \/ Target("button", m) = Target("button", Msg("default", s.id, None))
    BY <1>2 DEF ColumnTargets
  <2>2. Target("button", m) \notin {Target("slider", s.id), Target("mute", s.id)}
    BY <1>1 DEF Target
  <2>3. (\E k \in sinks : m = pin(s, k)) \/ m = Msg("default", s.id, None)
    BY <1>1, <2>1, <2>2 DEF Target
  <2> QED BY <2>3 DEF Msg
<1>3. CASE Target("button", m) \in MenuTargets(a, u)
  <2>1. (\E n \in ToSet(a.profiles) : Target("button", m) = Target("profile", n))
        \/ Target("button", m) = Target("button", Msg("create", None, None))
    BY <1>3 DEF MenuTargets
  <2>2. m = Msg("create", None, None)
    BY <1>1, <2>1 DEF Target
  <2> QED BY <2>2 DEF Msg
<1> QED BY <1>2, <1>3

LEMMA RowOnScreen ==
  ASSUME NEW a, AppOk(a), a.palette # None, NEW u, UiOk(u)
  PROVE  /\ \A i \in Window(a, u) : i + 1 \in 1 .. Len(RowsOf(a))
         /\ RowsOf(a) # <<>> => /\ ShownSelected(Len(RowsOf(a)), a.palette.selected) \in Window(a, u)
                                /\ Window(a, u) \subseteq 0 .. Len(RowsOf(a)) - 1
         /\ FirstVisible(Len(RowsOf(a)), u.room, a.palette.scroll, a.palette.selected) \in Nat
         /\ Len(RowsOf(a)) - Capacity(Len(RowsOf(a)), u.room) \in Nat
<1> DEFINE total == Len(RowsOf(a))
           first == FirstVisible(total, u.room, a.palette.scroll, a.palette.selected)
           cap == Capacity(total, u.room)
<1>1. /\ total \in Nat /\ u.room \in Nat \ {0}
      /\ a.palette.scroll \in Nat /\ a.palette.selected \in Nat
  BY RowsOfAre, RoomAssumption DEF AppOk, AppSet, PaletteSet, UiOk, UiSet
<1>2. Window(a, u) = first .. first + cap - 1
  BY DEF Window
<1>3. RowsOf(a) # <<>> => total # 0
  <2>1. PICK S : RowsOf(a) \in Seq(S)
    BY RowsOfAre DEF Spoken
  <2> QED BY <2>1
<1>4. CASE total = 0
  <2>1. cap = 0 /\ first = 0
    BY <1>1, <1>4, NothingToShow
  <2> HIDE DEF total, first, cap
  <2>2. Window(a, u) = {}
    BY <1>2, <2>1
  <2> QED BY <1>3, <1>4, <2>1, <2>2 DEF total, first, cap
<1>5. CASE total # 0
  <2>1. total \in Nat \ {0}
    BY <1>1, <1>5
  <2> HIDE DEF total
  <2>2. /\ ShownSelected(total, a.palette.selected) \in first .. first + cap - 1
        /\ first .. first + cap - 1 \subseteq 0 .. total - 1
        /\ first \in Nat /\ first + cap <= total
    BY <1>1, <2>1, WindowHolds
  <2>3. cap \in Nat
    BY <1>1, <2>1, RowsAssumption DEF Capacity, Smaller
  <2> HIDE DEF first, cap
  <2>4. \A i \in Window(a, u) : i + 1 \in 1 .. total
    BY <1>2, <2>1, <2>2
  <2>5. total - cap \in Nat
    BY <2>1, <2>2, <2>3
  <2> QED BY <1>2, <2>2, <2>4, <2>5 DEF total, first, cap
<1> QED BY <1>4, <1>5

\* Where nothing is said, or nothing that the overlays hear of.
LEMMA SaysNothing ==
  ASSUME Steady, SameText, sent' = <<>>
  PROVE  KindOfEvent
BY DEF KindOfEvent, CalmEvent

LEMMA SaysCalmly ==
  ASSUME Steady, SameText, NEW m, sent' = <<m>>, m.op \in Calm \ {"name", "volume"}
  PROVE  KindOfEvent
BY DEF KindOfEvent, CalmEvent

LEMMA SaysVolume ==
  ASSUME Steady, SameText, NEW id \in StreamIds(app), sent' = Volume(id), ui'.drag.of = id, ui'.drag.is = "slider"
  PROVE  KindOfEvent
<1> DEFINE m == Msg("volume", id, None)
<1>1. sent' = <<m>> /\ m.op = "volume" /\ m.of = id
  BY DEF Volume, Msg
<1> HIDE DEF m
<1>2. m.op \in Calm \ {"name"} /\ OfTheHand(m)
  BY <1>1 DEF Calm, OfTheHand
<1>3. CalmEvent
  BY <1>1, <1>2 DEF CalmEvent
<1> QED BY <1>3 DEF KindOfEvent


LEMMA MotionSays ==
  ASSUME UiOk(ui), NEW to, NEW at \in 0 .. Len(ui.editor.text), Motion(to, at)
  PROVE  KindOfEvent
<1>1. ui \in UiSet(ui) /\ SoundField(ui.editor) /\ Len(ui.editor.text) \in Nat
  BY FieldIs DEF UiOk, UiSet, SoundField
<1>2. Dragged(ui.editor, at).text = ui.editor.text
  BY <1>1, DraggedIsSound
<1>3. ui'.focus = ui.focus /\ ui'.drag = ui.drag /\ SameText
  BY <1>1, <1>2 DEF Motion, UiSet, SameText
<1>4. Steady
  BY <1>3 DEF Steady
<1>5. CASE ui.drag.is = "slider" /\ ui.drag.of \in StreamIds(app)
  <2>1. sent' = Volume(ui.drag.of)
    BY <1>5 DEF Motion, Sends, MovedBy
  <2> QED BY <1>3, <1>4, <1>5, <2>1, SaysVolume
<1>6. CASE ~(ui.drag.is = "slider" /\ ui.drag.of \in StreamIds(app))
  <2>1. sent' = <<>>
    BY <1>6 DEF Motion, Sends, MovedBy
  <2> QED BY <1>3, <1>4, <2>1, SaysNothing
<1> QED BY <1>5, <1>6

LEMMA PressSays ==
  ASSUME UiOk(ui), AppOk(app)
  PROVE  /\ \A id \in StreamIds(app) : PressSlider(id) \/ PressMute(id) => KindOfEvent
         /\ PressSelector \/ PressNothing => KindOfEvent
         /\ \A name : PressProfile(name) => KindOfEvent
         /\ \A at \in 0 .. Len(ui.editor.text) : \A on, clicks : PressField(on, at, clicks) => KindOfEvent
<1>1. ui \in UiSet(ui) /\ SoundField(ui.editor) /\ Len(ui.editor.text) \in Nat
  BY FieldIs DEF UiOk, UiSet, SoundField
<1>2. ASSUME NEW id \in StreamIds(app), PressSlider(id)
      PROVE  KindOfEvent
  <2>1. ui'.focus = ui.focus /\ ui'.drag = Grip("slider", id) /\ SameText
    BY <1>1, <1>2 DEF PressSlider, UiSet, SameText
  <2>2. Steady /\ ui'.drag.of = id /\ ui'.drag.is = "slider" /\ sent' = Volume(id)
    BY <1>2, <2>1 DEF Steady, Grip, PressSlider, Sends
  <2> QED BY <2>1, <2>2, SaysVolume
<1>3. ASSUME NEW id, PressMute(id)
      PROVE  KindOfEvent
  <2> DEFINE m == Msg("mute", id, None)
  <2>1. sent' = <<m>> /\ Steady /\ SameText /\ m.op = "mute"
    BY <1>3 DEF PressMute, Sends, Steady, SameText, Msg
  <2> HIDE DEF m
  <2> QED BY <2>1, SaysCalmly DEF Calm
<1>4. ASSUME PressSelector \/ PressNothing
      PROVE  KindOfEvent
  <2>1. ui'.focus = ui.focus /\ SameText /\ sent' = <<>>
    BY <1>1, <1>4 DEF PressSelector, PressNothing, UiSet, SameText, Sends
  <2> QED BY <2>1, SaysNothing DEF Steady
<1>5. ASSUME NEW name, PressProfile(name)
      PROVE  KindOfEvent
  <2>1. ui'.focus = ui.focus /\ SameText /\ sent' = <<>>
    BY <1>1, <1>5 DEF PressProfile, UiSet, SameText, Sends
  <2> QED BY <2>1, SaysNothing DEF Steady
<1>6. ASSUME NEW on, NEW at \in 0 .. Len(ui.editor.text), NEW clicks, PressField(on, at, clicks)
      PROVE  KindOfEvent
  <2> DEFINE editor == Clicked(ui.editor, at, clicks)
             focus == IF on = "query" THEN "palette" ELSE "modal"
  <2>1. editor.text = ui.editor.text
    BY <1>1, ClickedIsSound
  <2>2. ui' = [ui EXCEPT !.focus = focus, !.editor = editor, !.drag = Grip("text", None),
                         !.visible = TRUE, !.left = Toggles]
    BY <1>6 DEF PressField, Woken
  <2> HIDE DEF editor, focus
  <2>3. ui'.focus = focus /\ SameText /\ sent' = <<>>
    BY <1>1, <1>6, <2>1, <2>2 DEF UiSet, SameText, PressField, Sends
  <2>4. Steady
    BY <1>6, <2>3 DEF Steady, PressField, focus
  <2> QED BY <2>3, <2>4, SaysNothing
<1> QED BY <1>2, <1>3, <1>4, <1>5, <1>6

LEMMA ChoiceSays ==
  ASSUME UiOk(ui), AppOk(app)
  PROVE  /\ app.palette # None => \A i \in Window(app, ui) : PressRow(i) => KindOfEvent
         /\ \A on : PressDialogButton(on) => KindOfEvent
         /\ PressBackdrop => KindOfEvent
         /\ \A m : PressButton(m) => KindOfEvent
<1>1. ui \in UiSet(ui)
  BY DEF UiOk, UiSet
<1>2. ASSUME app.palette # None, NEW i \in Window(app, ui), PressRow(i)
      PROVE  KindOfEvent
  <2> DEFINE m == Activated(RowsOf(app)[i + 1])
  <2>1. i + 1 \in 1 .. Len(RowsOf(app))
    BY <1>2, RowOnScreen
  <2>2. m.op \in Verbs
    BY <2>1, RowSays
  <2>3. ui'.focus = "body" /\ sent' = <<m, Off>>
    BY <1>1, <1>2 DEF PressRow, UiSet, Sends, Off
  <2> HIDE DEF m
  <2>4. CloseEvent
    BY <1>2, <2>2, <2>3 DEF CloseEvent
  <2> QED BY <2>4 DEF KindOfEvent
<1>3. ASSUME NEW on, PressDialogButton(on)
      PROVE  KindOfEvent
  <2> DEFINE m == IF on = "confirm" THEN Msg("confirm", None, None) ELSE Msg("dismiss", None, None)
  <2>1. sent' = <<m>> /\ Steady /\ SameText
    BY <1>3 DEF PressDialogButton, Sends, Steady, SameText
  <2>2. m.op \in {"confirm", "dismiss"}
    BY DEF Msg
  <2> HIDE DEF m
  <2> QED BY <2>1, <2>2, SaysCalmly DEF Calm
<1>4. ASSUME PressBackdrop
      PROVE  KindOfEvent
  <2>1. ui'.focus = "body" /\ SameText
    BY <1>1, <1>4 DEF PressBackdrop, UiSet, SameText
  <2>2. CASE app.modal # None
    <3> DEFINE m == Msg("dismiss", None, None)
    <3>1. sent' = <<m>> /\ m.op = "dismiss"
      BY <1>4, <2>2 DEF PressBackdrop, Sends, Msg
    <3>2. Steady
      BY <2>1, <2>2 DEF Steady
    <3> HIDE DEF m
    <3> QED BY <2>1, <3>1, <3>2, SaysCalmly DEF Calm
  <2>3. CASE app.modal = None
    <3>1. sent' = <<Off>> /\ app.palette # None
      BY <1>4, <2>3 DEF PressBackdrop, Sends, Off, OpenColumns
    <3> QED BY <2>1, <3>1 DEF KindOfEvent, CloseEvent
  <2> QED BY <2>2, <2>3
<1>5. ASSUME NEW m, PressButton(m)
      PROVE  KindOfEvent
  <2>1. sent' = <<m>> /\ ui' = ui /\ OpenColumns(app)
    BY <1>5 DEF PressButton, Sends
  <2>2. m.op \in {"pin", "unpin", "default", "create"}
    BY <1>5, ButtonsSay DEF PressButton
  <2>3. CASE m.op = "create"
    BY <2>1, <2>3 DEF KindOfEvent, CreateEvent, SameText
  <2>4. CASE m.op # "create"
    BY <2>1, <2>2, <2>4, SaysCalmly DEF Calm, Steady, SameText
  <2> QED BY <2>3, <2>4
<1> QED BY <1>2, <1>3, <1>4, <1>5

LEMMA DropSays ==
  ASSUME UiOk(ui), AppOk(app)
  PROVE  /\ \A over, before : Release(over, before) => KindOfEvent
         /\ \A rows \in {-1, 1} : Wheel(rows) => KindOfEvent
<1>1. ui \in UiSet(ui)
  BY DEF UiOk, UiSet
<1>2. ASSUME NEW over, NEW before, Release(over, before)
      PROVE  KindOfEvent
  <2>1. ui'.focus = ui.focus /\ SameText /\ sent' = Dropped(over, before)
    BY <1>1, <1>2 DEF Release, UiSet, SameText, Sends
  <2>2. Steady
    BY <2>1 DEF Steady
  <2> DEFINE m == IF over = ui.drag.of THEN Msg("apply", over, None)
                  ELSE Msg(IF before THEN "before" ELSE "after", ui.drag.of, over)
  <2>3. Dropped(over, before) = <<>> \/ Dropped(over, before) = <<m>>
    BY DEF Dropped
  <2>4. m.op \in {"apply", "before", "after"}
    BY DEF Msg
  <2> HIDE DEF m
  <2>5. CASE Dropped(over, before) = <<>>
    BY <2>1, <2>2, <2>5, SaysNothing
  <2>6. CASE Dropped(over, before) = <<m>>
    BY <2>1, <2>2, <2>4, <2>6, SaysCalmly DEF Calm
  <2> QED BY <2>3, <2>5, <2>6
<1>3. ASSUME NEW rows \in {-1, 1}, Wheel(rows)
      PROVE  KindOfEvent
  <2> DEFINE total == Len(RowsOf(app))
             first == FirstVisible(total, ui.room, app.palette.scroll, app.palette.selected)
             last == total - Capacity(total, ui.room)
             next == Smaller(Larger(first + rows, 0), last)
             m == Msg("scroll", next, None)
  <2>1. ui'.focus = ui.focus /\ SameText /\ Steady
    BY <1>3 DEF Wheel, SameText, Steady
  <2>2. sent' = <<>> \/ sent' = <<m>>
    BY <1>3 DEF Wheel, Sends
  <2>3. first \in Nat /\ last \in Nat
    BY <1>3, RowOnScreen DEF Wheel
  <2> HIDE DEF total, first, last
  <2>4. next \in Nat
    BY <2>3 DEF Smaller, Larger
  <2> HIDE DEF next
  <2>5. m.op = "scroll" /\ m.of \in Nat
    BY <2>4 DEF Msg
  <2> HIDE DEF m
  <2>6. CASE sent' = <<>>
    BY <2>1, <2>6, SaysNothing
  <2>7. CASE sent' = <<m>>
    BY <2>1, <2>5, <2>7 DEF KindOfEvent, ListEvent
  <2> QED BY <2>2, <2>6, <2>7
<1> QED BY <1>2, <1>3

LEMMA EventSays ==
  ASSUME UiOk(ui), AppOk(app), OtherStep
  PROVE  KindOfEvent
<1>1. ui \in UiSet(ui) /\ Len(ui.editor.text) \in Nat
  BY FieldIs DEF UiOk, UiSet, SoundField
<1>2. CASE OtherKey
  BY <1>2, KeySays
<1>3. CASE PointerStep
  <2>1. ASSUME NEW to, NEW at \in 0 .. Len(ui.editor.text), Motion(to, at)
        PROVE  KindOfEvent
    BY <2>1, MotionSays
  <2>2. CASE \E id \in StreamIds(app) : PressSlider(id) \/ PressMute(id)
    BY <2>2, PressSays
  <2>3. CASE PressSelector \/ PressNothing
    BY <2>3, PressSays
  <2>4. ASSUME NEW name, PressProfile(name)
        PROVE  KindOfEvent
    BY <2>4, PressSays
  <2>5. ASSUME NEW at \in 0 .. Len(ui.editor.text), NEW on, NEW clicks, PressField(on, at, clicks)
        PROVE  KindOfEvent
    BY <2>5, PressSays
  <2>6. CASE app.palette # None /\ \E i \in Window(app, ui) : PressRow(i)
    BY <2>6, ChoiceSays
  <2>7. ASSUME NEW on, PressDialogButton(on)
        PROVE  KindOfEvent
    BY <2>7, ChoiceSays
  <2>8. CASE PressBackdrop
    BY <2>8, ChoiceSays
  <2>9. ASSUME NEW m, PressButton(m)
        PROVE  KindOfEvent
    BY <2>9, ChoiceSays
  <2>10. ASSUME NEW over, NEW before, Release(over, before)
         PROVE  KindOfEvent
    BY <2>10, DropSays
  <2>11. ASSUME NEW rows \in {-1, 1}, Wheel(rows)
         PROVE  KindOfEvent
    BY <2>11, DropSays
  <2> QED BY <1>3, <2>1, <2>2, <2>3, <2>4, <2>5, <2>6, <2>7, <2>8, <2>9, <2>10, <2>11 DEF PointerStep
<1>4. ASSUME NEW s, StreamCame(s)
      PROVE  KindOfEvent
  <2> DEFINE m == Msg("stream", s, None)
  <2>1. sent' = <<m>> /\ Steady /\ SameText /\ m.op = "stream"
    BY <1>4 DEF StreamCame, Sends, Steady, SameText, Msg
  <2> HIDE DEF m
  <2> QED BY <2>1, SaysCalmly DEF Calm
<1>5. ASSUME NEW id, StreamGone(id)
      PROVE  KindOfEvent
  <2> DEFINE m == Msg("gone", id, None)
  <2>1. sent' = <<m>> /\ Steady /\ SameText /\ m.op = "gone"
    BY <1>5 DEF StreamGone, Sends, Steady, SameText, Msg
  <2> HIDE DEF m
  <2> QED BY <2>1, SaysCalmly DEF Calm
<1>6. ASSUME Blink \/ RestCaret
      PROVE  KindOfEvent
  <2>1. ui'.focus = ui.focus /\ SameText /\ sent' = <<>>
    BY <1>1, <1>6 DEF Blink, RestCaret, UiSet, SameText, Sends
  <2> QED BY <2>1, SaysNothing DEF Steady
<1>7. ASSUME NEW room, Resize(room)
      PROVE  KindOfEvent
  <2>1. ui'.focus = ui.focus /\ SameText /\ sent' = <<>>
    BY <1>1, <1>7 DEF Resize, UiSet, SameText, Sends
  <2> QED BY <2>1, SaysNothing DEF Steady
<1> QED BY <1>2, <1>3, <1>4, <1>5, <1>6, <1>7 DEF OtherStep

-----------------------------------------------------------------------------
(* What the reducer makes of them.                                         *)

LEMMA TakenIs ==
  ASSUME NEW a
  PROVE  /\ Taken(a, <<>>) = a
         /\ \A m : Taken(a, <<m>>) = Reduced(a, m)
         /\ \A m, n : Taken(a, <<m, n>>) = Reduced(Reduced(a, m), n)
<1>1. \A m : <<m>> # <<>> /\ Len(<<m>>) = 1 /\ <<m>>[1] = m
  OBVIOUS
<1>2. \A m, n : <<m, n>> # <<>> /\ Len(<<m, n>>) = 2 /\ <<m, n>>[1] = m /\ <<m, n>>[2] = n
  OBVIOUS
<1> QED BY <1>1, <1>2 DEF Taken

Apart(a) == a.palette = None \/ a.modal = None

\* The palette is open with the keyboard in it, and filters by the field's text.
Agrees(a, u) ==
  /\ a.palette # None <=> u.focus = "palette"
  /\ a.palette # None /\ Bytes(a.palette.query) < MaxBytes => a.palette.query = u.editor.text

LEMMA OffIs ==
  ASSUME NEW a, AppOk(a), Apart(a)
  PROVE  AppOk(Reduced(a, Off)) /\ Apart(Reduced(a, Off)) /\ Reduced(a, Off) = Toggled(a)
<1>1. Reduced(a, Off) = Toggled(a)
  BY DEF Reduced, Off, Msg
<1> QED BY <1>1, ToggledIs DEF Apart

\* A command from a row, and the palette closes.
LEMMA CommandThenOff ==
  ASSUME NEW a, AppOk(a), a.palette # None, NEW m, m.op \in Verbs
  PROVE  LET b == Reduced(Reduced(a, m), Off) IN AppOk(b) /\ b.palette = None
<1> DEFINE c == Reduced(a, m)
<1>1. AppOk(c) /\ c.palette # None
  BY CommandIs
<1> HIDE DEF c
<1>2. Reduced(c, Off) = Toggled(c)
  BY DEF Reduced, Off, Msg
<1>3. AppOk(Toggled(c)) /\ Toggled(c).palette = None
  BY <1>1, ToggledIs
<1> QED BY <1>2, <1>3 DEF c

LEMMA EditorSays ==
  ASSUME NEW u, UiOk(u)
  PROVE  /\ u.editor.text \in Text
         /\ u.focus = "palette" => EditorMessage(u) = <<Msg("query", u.editor.text, None)>>
         /\ u.focus = "modal" => EditorMessage(u) = <<Msg("name", u.editor.text, None)>>
BY DEF UiOk, UiSet, Field, EditorMessage

LEMMA CalmKeeps ==
  ASSUME AppOk(app), Apart(app), CalmEvent, app' = Taken(app, sent')
  PROVE  AppOk(app') /\ Apart(app') /\ (Agrees(app, ui) => Agrees(app', ui'))
<1>1. AppOk(app') /\ Quiet(app', app)
  <2>1. CASE sent' = <<>>
    BY <2>1, TakenIs DEF Quiet
  <2>2. ASSUME NEW m, sent' = <<m>>, m.op \in Calm \ {"name"}
        PROVE  AppOk(app') /\ Quiet(app', app)
    <3>1. app' = Reduced(app, m)
      BY <2>2, TakenIs
    <3> QED BY <2>2, <3>1, CalmIs
  <2> QED BY <2>1, <2>2 DEF CalmEvent
<1>2. app'.palette = app.palette /\ Apart(app')
  BY <1>1 DEF Quiet, Apart
<1>3. ASSUME Agrees(app, ui)
      PROVE  ui.focus = "palette" <=> ui'.focus = "palette"
  BY <1>3 DEF Agrees, Apart, CalmEvent, Steady
<1>4. ui'.editor.text = ui.editor.text
  BY DEF CalmEvent, SameText
<1> QED BY <1>1, <1>2, <1>3, <1>4 DEF Agrees

LEMMA ListKeeps ==
  ASSUME AppOk(app), Apart(app), ListEvent, app' = Taken(app, sent')
  PROVE  AppOk(app') /\ Apart(app') /\ (Agrees(app, ui) => Agrees(app', ui'))
<1>1. PICK m : sent' = <<m>> /\ (m.op \in {"prev", "next"} \/ (m.op = "scroll" /\ m.of \in Nat))
  BY DEF ListEvent
<1>2. app' = Reduced(app, m)
  BY <1>1, TakenIs
<1>3. /\ AppOk(app') /\ app'.modal = app.modal
      /\ app.palette = None => app'.palette = None
      /\ app.palette # None => app'.palette # None /\ app'.palette.query = app.palette.query
  <2>1. CASE m.op \in {"prev", "next"}
    BY <1>2, <2>1, ArrowIs
  <2>2. CASE m.op = "scroll" /\ m.of \in Nat
    <3>1. Reduced(app, m) = ScrolledTo(app, m.of)
      BY <2>2 DEF Reduced
    <3> QED BY <1>2, <2>2, <3>1, ScrolledIs
  <2> QED BY <1>1, <2>1, <2>2
<1> QED BY <1>3 DEF ListEvent, SameText, Agrees, Apart

LEMMA EditKeeps ==
  ASSUME UiOk(ui), UiOk(ui'), AppOk(app), Apart(app), EditEvent, app' = Taken(app, sent')
  PROVE  AppOk(app') /\ Apart(app') /\ (Agrees(app, ui) => Agrees(app', ui'))
<1> DEFINE text == ui'.editor.text
<1>1. /\ text \in Text
      /\ ui'.focus = "palette" => EditorMessage(ui') = <<Msg("query", text, None)>>
      /\ ui'.focus = "modal" => EditorMessage(ui') = <<Msg("name", text, None)>>
  BY EditorSays
<1>2. ui'.focus = ui.focus /\ ui.focus \in {"palette", "modal"}
  BY DEF EditEvent
<1>3. CASE sent' = <<>> /\ (SameText \/ Bytes(ui.editor.text) >= MaxBytes)
  <2>1. app' = app
    BY <1>3, TakenIs
  <2>2. Bytes(ui.editor.text) \in Nat
    BY EditorSays, BytesAre
  <2>3. Agrees(app, ui) => Agrees(app', ui')
    BY <1>2, <1>3, <2>1, <2>2, MaxBytesAssumption DEF Agrees, SameText
  <2> QED BY <2>1, <2>3
<1>4. CASE sent' = EditorMessage(ui') /\ ui.focus = "palette"
  <2> DEFINE m == Msg("query", text, None)
  <2>1. app' = Reduced(app, m)
    BY <1>1, <1>2, <1>4, TakenIs
  <2>2. Reduced(app, m) = Queried(app, text)
    BY DEF Reduced, Msg
  <2> HIDE DEF m
  <2>3. /\ AppOk(app') /\ app'.modal = app.modal
        /\ app.palette = None => app'.palette = None
        /\ app.palette # None => app'.palette # None /\ app'.palette.query = text
    BY <1>1, <2>1, <2>2, QueriedIs
  <2> QED BY <1>2, <2>3 DEF Agrees, Apart
<1>5. CASE sent' = EditorMessage(ui') /\ ui.focus = "modal"
  <2> DEFINE m == Msg("name", text, None)
  <2>1. app' = Reduced(app, m)
    BY <1>1, <1>2, <1>5, TakenIs
  <2>2. m.op \in Calm /\ m.of \in Text
    BY <1>1 DEF Msg, Calm
  <2> HIDE DEF m
  <2>3. AppOk(app') /\ Quiet(app', app)
    BY <2>1, <2>2, CalmIs
  <2> QED BY <1>2, <1>5, <2>3 DEF Agrees, Apart, Quiet
<1> QED BY <1>2, <1>3, <1>4, <1>5 DEF EditEvent

LEMMA CloseKeeps ==
  ASSUME AppOk(app), Apart(app), CloseEvent, app' = Taken(app, sent')
  PROVE  AppOk(app') /\ Apart(app') /\ (Agrees(app, ui) => Agrees(app', ui'))
<1>1. CASE sent' = <<Off>>
  <2>1. app' = Toggled(app) /\ AppOk(app') /\ Apart(app')
    BY <1>1, TakenIs, OffIs
  <2>2. app.palette # None => app'.palette = None
    BY <2>1, ToggledIs
  <2> QED BY <2>1, <2>2 DEF Agrees, CloseEvent
<1>2. ASSUME NEW m, app.palette # None, m.op \in Verbs, sent' = <<m, Off>>
      PROVE  AppOk(app') /\ app'.palette = None
  <2>1. app' = Reduced(Reduced(app, m), Off)
    <3>1. \A p, q : Taken(app, <<p, q>>) = Reduced(Reduced(app, p), q)
      BY TakenIs
    <3>2. Taken(app, <<m, Off>>) = Reduced(Reduced(app, m), Off)
      BY <3>1
    <3> QED BY <1>2, <3>1
  <2> QED BY <1>2, <2>1, CommandThenOff
<1>3. CASE sent' # <<Off>>
  <2>1. AppOk(app') /\ app'.palette = None /\ ui'.focus = "body"
    BY <1>2, <1>3 DEF CloseEvent
  <2> QED BY <2>1 DEF Agrees, Apart
<1> QED BY <1>1, <1>3

LEMMA CreateKeeps ==
  ASSUME AppOk(app), Apart(app), CreateEvent, app' = Taken(app, sent')
  PROVE  AppOk(app') /\ Apart(app') /\ (Agrees(app, ui) => Agrees(app', ui'))
<1>1. PICK m : sent' = <<m>> /\ m.op = "create"
  BY DEF CreateEvent
<1>2. app' = Reduced(app, m)
  BY <1>1, TakenIs
<1>3. AppOk(app') /\ app'.palette = app.palette
  BY <1>1, <1>2, CommandIs DEF Verbs
<1>4. app.palette = None /\ ui'.focus = ui.focus
  BY DEF CreateEvent, OpenColumns
<1> QED BY <1>3, <1>4 DEF Agrees, Apart

LEMMA OpenKeeps ==
  ASSUME AppOk(app), Apart(app), OpenEvent, app' = Taken(app, sent')
  PROVE  AppOk(app') /\ Apart(app') /\ (Agrees(app, ui) /\ app.modal = None => Agrees(app', ui'))
<1>1. app' = Toggled(app) /\ AppOk(app') /\ Apart(app')
  <2>1. Taken(app, <<Off>>) = Reduced(app, Off)
    BY TakenIs
  <2>2. app' = Reduced(app, Off)
    BY <2>1 DEF OpenEvent
  <2> QED BY <2>2, OffIs
<1>2. ASSUME Agrees(app, ui), app.modal = None
      PROVE  Agrees(app', ui')
  <2>1. app'.palette = OpenPalette
    BY <1>1, <1>2, ToggledIs DEF Agrees, OpenEvent
  <2>2. OpenPalette \in PaletteSet /\ OpenPalette.query = <<>>
    BY EmptyWeighsNothing DEF OpenPalette, PaletteSet
  <2>3. OpenPalette # None
    BY <2>2, OverlayAssumption DEF PaletteSet, Text
  <2> QED BY <2>1, <2>2, <2>3 DEF Agrees, OpenEvent
<1> QED BY <1>1, <1>2


LEMMA KindKeeps ==
  ASSUME UiOk(ui), UiOk(ui'), AppOk(app), Apart(app), KindOfEvent, app' = Taken(app, sent')
  PROVE  AppOk(app') /\ Apart(app') /\ (Agrees(app, ui) => Agrees(app', ui'))
BY CalmKeeps, ListKeeps, EditKeeps, CloseKeeps, CreateKeeps DEF KindOfEvent

-----------------------------------------------------------------------------
(* The overlays and the faders, in every run of the input mapping.         *)

OverlaysStand == UiOk(ui) /\ AppOk(app) /\ Apart(app)

LEMMA OverlaysStart == UiInit => OverlaysStand
<1> SUFFICES ASSUME UiInit PROVE OverlaysStand
  OBVIOUS
<1>1. UiOk(ui)
  BY ClearedIsSound DEF UiInit, UiOk, UiSet, SoundField
<1>2. app.streams = {} /\ app.modal = None /\ app.palette = None /\ app.profiles = <<Default>>
  BY DEF UiInit
<1>3. <<Default>> \in Seq(Text)
  BY TextAssumption DEF Text
<1>4. app \in AppSet(app)
  BY <1>2, <1>3 DEF UiInit, AppSet
<1>5. IsFiniteSet(app.streams)
  BY <1>2, FS_EmptySet
<1> QED BY <1>1, <1>2, <1>4, <1>5 DEF OverlaysStand, AppOk, NamesOne, Apart

LEMMA OverlaysStep ==
  ASSUME OverlaysStand, UiNext
  PROVE  OverlaysStand'
<1>1. UiOk(ui) /\ AppOk(app) /\ Apart(app) /\ app' = Taken(app, sent') /\ UiStep
  BY DEF OverlaysStand, UiNext, Reduces
<1>2. UiOk(ui')
  BY <1>1, EventKeepsUi
<1>3. CASE OpenPaletteKey
  BY <1>1, <1>2, <1>3, OpenSays, OpenKeeps DEF OverlaysStand
<1>4. CASE OtherStep
  <2>1. KindOfEvent
    BY <1>1, <1>4, EventSays
  <2> QED BY <1>1, <1>2, <2>1, KindKeeps DEF OverlaysStand
<1> QED BY <1>1, <1>3, <1>4, UiStepIs

LEMMA OverlaysStandAlways == UiSpec => []OverlaysStand
<1>1. OverlaysStand /\ [UiNext]_uiVars => OverlaysStand'
  <2> SUFFICES ASSUME OverlaysStand, [UiNext]_uiVars PROVE OverlaysStand'
    OBVIOUS
  <2>1. CASE UiNext
    BY <2>1, OverlaysStep
  <2>2. CASE UNCHANGED uiVars
    BY <2>2 DEF uiVars, OverlaysStand
  <2> QED BY <2>1, <2>2
<1> QED BY OverlaysStart, <1>1, PTL DEF UiSpec

LEMMA OverlaysAre == OverlaysStand => OneOverlay /\ DialogNamesAProfile /\ HighlightShown
<1> SUFFICES ASSUME OverlaysStand PROVE OneOverlay /\ DialogNamesAProfile /\ HighlightShown
  OBVIOUS
<1>1. UiOk(ui) /\ AppOk(app) /\ Apart(app)
  BY DEF OverlaysStand
<1>2. HighlightShown
  BY <1>1, RowOnScreen DEF HighlightShown
<1> QED BY <1>1, <1>2 DEF Apart, OneOverlay, AppOk, NamesOne, DialogNamesAProfile

\* Two overlays are never open together, a dialog names a profile there is, and
\* what Enter would run is on screen, whatever keys, presses, rows and sizes come
\* in whatever order, Ctrl+K behind a dialog included.
THEOREM OverlaysHold == UiSpec => [](OneOverlay /\ DialogNamesAProfile /\ HighlightShown)
BY OverlaysStandAlways, OverlaysAre, PTL

HandSpeaks ==
  \A i \in DOMAIN sent' : sent'[i].op = "volume" =>
    sent'[i].of = ui'.drag.of /\ ui'.drag.is = "slider" /\ sent'[i].of \in StreamIds(app)

LEMMA KindSpeaks ==
  ASSUME UiOk(ui'), KindOfEvent \/ OpenEvent
  PROVE  HandSpeaks
<1>1. DOMAIN <<>> = {} /\ \A m : DOMAIN <<m>> = {1} /\ <<m>>[1] = m
  OBVIOUS
<1>2. ASSUME sent' = <<>>
      PROVE  HandSpeaks
  BY <1>1, <1>2 DEF HandSpeaks
<1>3. ASSUME NEW m, sent' = <<m>>, m.op = "volume" => OfTheHand(m)
      PROVE  HandSpeaks
  BY <1>1, <1>3 DEF HandSpeaks, OfTheHand
<1>4. Off.op = "toggle"
  BY DEF Off, Msg
<1>5. CASE CalmEvent
  BY <1>2, <1>3, <1>5 DEF CalmEvent
<1>6. CASE ListEvent
  BY <1>3, <1>6 DEF ListEvent
<1>7. CASE EditEvent
  <2>1. sent' = <<>> \/ sent' = EditorMessage(ui')
    BY <1>7 DEF EditEvent
  <2>2. \/ EditorMessage(ui') = <<Msg("query", ui'.editor.text, None)>>
        \/ EditorMessage(ui') = <<Msg("name", ui'.editor.text, None)>>
    BY <1>7, EditorSays DEF EditEvent
  <2>3. Msg("query", ui'.editor.text, None).op # "volume" /\ Msg("name", ui'.editor.text, None).op # "volume"
    BY DEF Msg
  <2> QED BY <1>2, <1>3, <2>1, <2>2, <2>3
<1>8. CASE CloseEvent
  <2>1. CASE sent' = <<Off>>
    BY <1>3, <1>4, <2>1
  <2>2. ASSUME NEW m, m.op \in Verbs, sent' = <<m, Off>>
        PROVE  HandSpeaks
    <3>1. m.op # "volume"
      BY <2>2 DEF Verbs
    <3>2. DOMAIN sent' = {1, 2} /\ sent'[1] = m /\ sent'[2] = Off
      BY <2>2
    <3> QED BY <1>4, <3>1, <3>2 DEF HandSpeaks
  <2> QED BY <1>8, <2>1, <2>2 DEF CloseEvent
<1>9. CASE CreateEvent
  BY <1>3, <1>9 DEF CreateEvent
<1>10. CASE OpenEvent
  BY <1>3, <1>4, <1>10 DEF OpenEvent
<1> QED BY <1>5, <1>6, <1>7, <1>8, <1>9, <1>10 DEF KindOfEvent

\* A fader in the hand speaks for the row it was taken by while that row is there.
THEOREM DragsHold == UiSpec => DragsKeepTheirRow
<1>1. OverlaysStand /\ [UiNext]_uiVars => [HandSpeaks]_uiVars
  <2> SUFFICES ASSUME OverlaysStand, UiNext PROVE HandSpeaks
    OBVIOUS
  <2>1. UiOk(ui) /\ AppOk(app) /\ UiStep
    BY DEF OverlaysStand, UiNext
  <2>2. UiOk(ui')
    BY <2>1, EventKeepsUi
  <2>3. KindOfEvent \/ OpenEvent
    BY <2>1, UiStepIs, OpenSays, EventSays
  <2> QED BY <2>2, <2>3, KindSpeaks
<1>2. [HandSpeaks]_uiVars => [\A i \in DOMAIN sent' : sent'[i].op = "volume" =>
        sent'[i].of = ui'.drag.of /\ ui'.drag.is = "slider" /\ sent'[i].of \in StreamIds(app)]_uiVars
  BY DEF HandSpeaks
<1> QED BY OverlaysStandAlways, <1>1, <1>2, PTL DEF UiSpec, DragsKeepTheirRow

-----------------------------------------------------------------------------
(* The palette and the keyboard, until Ctrl+K is pressed behind a dialog.  *)

HandsOn == OverlaysStand /\ Agrees(app, ui)

OpensBehindADialog == app.modal # None /\ OpenPaletteKey

LEMMA AgreeingTakesKeys == HandsOn => PaletteTakesKeys
BY DEF HandsOn, Agrees, PaletteTakesKeys

LEMMA AgreesAtFirst == UiInit => Agrees(app, ui)
BY DEF UiInit, Agrees

LEMMA AgreesStep ==
  ASSUME OverlaysStand, Agrees(app, ui), OtherStep \/ OpensAtHand, Reduces
  PROVE  Agrees(app', ui')
<1>1. UiOk(ui) /\ AppOk(app) /\ Apart(app) /\ app' = Taken(app, sent')
  BY DEF OverlaysStand, Reduces
<1>2. CASE OtherStep
  <2>1. UiOk(ui') /\ KindOfEvent
    BY <1>1, <1>2, EventKeepsUi, EventSays, UiStepIs
  <2> QED BY <1>1, <2>1, KindKeeps
<1>3. CASE OpensAtHand
  <2>1. OpenEvent /\ app.modal = None
    BY <1>1, <1>3, OpenSays DEF OpensAtHand
  <2> QED BY <1>1, <2>1, OpenKeeps
<1> QED BY <1>2, <1>3

\* As long as Ctrl+K is not pressed behind a dialog, an open palette has the
\* keyboard and filters by what the field shows.
THEOREM PaletteKeepsTheKeyboard == UiSpec /\ [][~OpensBehindADialog]_uiVars => []PaletteTakesKeys
<1>1. UiInit => HandsOn
  BY OverlaysStart, AgreesAtFirst DEF HandsOn
<1>2. HandsOn /\ [UiNext]_uiVars /\ [~OpensBehindADialog]_uiVars => HandsOn'
  <2> SUFFICES ASSUME HandsOn, [UiNext]_uiVars, [~OpensBehindADialog]_uiVars PROVE HandsOn'
    OBVIOUS
  <2>1. OverlaysStand /\ Agrees(app, ui)
    BY DEF HandsOn
  <2>2. CASE UNCHANGED uiVars
    BY <2>1, <2>2 DEF uiVars, OverlaysStand, HandsOn
  <2>3. CASE UiNext /\ ~OpensBehindADialog
    <3>1. OtherStep \/ OpensAtHand
      BY <2>3, UiStepIs DEF UiNext, OpensAtHand, OpensBehindADialog
    <3>2. Agrees(app', ui')
      BY <2>1, <2>3, <3>1, AgreesStep DEF UiNext
    <3> QED BY <2>1, <2>3, <3>2, OverlaysStep DEF HandsOn
  <2> QED BY <2>2, <2>3
<1> QED BY <1>1, <1>2, AgreeingTakesKeys, PTL DEF UiSpec

-----------------------------------------------------------------------------
(* The scenes are runs of the input mapping.                               *)

LEMMA PlaceInField == UiOk(ui) => Len(ui.editor.text) \in Nat /\ 0 \in 0 .. Len(ui.editor.text)
                                  /\ Len(ui.editor.text) \in 0 .. Len(ui.editor.text)
<1> SUFFICES ASSUME UiOk(ui) PROVE Len(ui.editor.text) \in Nat
  OBVIOUS
<1> QED BY FieldIs DEF UiOk, SoundField

LEMMA ButtonStep ==
  ASSUME NEW m, PressButton(m)
  PROVE  OtherStep
<1> DEFINE t == Target("button", m)
<1>1. t \in ColumnTargets(app) \cup MenuTargets(app, ui)
  BY DEF PressButton
<1>2. t[1] = "button" /\ t[2] = m
  BY DEF Target
<1> HIDE DEF t
<1> QED BY <1>1, <1>2 DEF OtherStep, PointerStep

LEMMA ListStepIs == ListStep => OtherStep \/ OpensAtHand
BY DEF ListStep, OtherStep, OtherKey, PointerStep

LEMMA FieldStepIs == UiOk(ui) /\ FieldStep => OtherStep \/ OpensAtHand
<1> SUFFICES ASSUME UiOk(ui), FieldStep PROVE OtherStep \/ OpensAtHand
  OBVIOUS
<1>1. CASE OpensAtHand \/ Escape \/ Edit \/ Cut \/ Blink \/ RestCaret
  BY <1>1 DEF OtherStep, OtherKey
<1>2. CASE \E text \in Clipboard : Paste(text)
  BY <1>2 DEF OtherStep, OtherKey
<1>3. CASE \E on \in {"query", "name"}, at \in 0 .. Len(ui.editor.text), clicks \in 1 .. 3 :
             PressField(on, at, clicks)
  BY <1>3 DEF OtherStep, PointerStep
<1>4. CASE \E at \in 0 .. Len(ui.editor.text) : Motion(Nothing, at)
  <2>1. PointerStep
    BY <1>4 DEF PointerStep
  <2> QED BY <2>1 DEF OtherStep
<1>5. CASE Release(None, FALSE)
  <2>1. PointerStep
    BY <1>5 DEF PointerStep
  <2> QED BY <2>1 DEF OtherStep
<1>6. CASE PressSelector
  BY <1>6 DEF OtherStep, PointerStep
<1>7. CASE PressButton(Msg("create", None, None))
  BY <1>7, ButtonStep
<1> QED BY <1>1, <1>2, <1>3, <1>4, <1>5, <1>6, <1>7 DEF FieldStep

LEMMA DialogStepIs == UiOk(ui) /\ DialogStep => OtherStep \/ OpensAtHand
<1> SUFFICES ASSUME UiOk(ui), DialogStep PROVE OtherStep \/ OpensAtHand
  OBVIOUS
<1>1. CASE OpensAtHand \/ Escape \/ RunCommand \/ Arrow \/ ConfirmKey \/ Edit
  BY <1>1 DEF OtherStep, OtherKey
<1>2. CASE PressBackdrop \/ PressSelector \/ PressNothing
  BY <1>2 DEF OtherStep, PointerStep
<1>3. CASE \E on \in {"confirm", "cancel"} : PressDialogButton(on)
  BY <1>3 DEF OtherStep, PointerStep
<1>4. CASE PressField("name", Len(ui.editor.text), 1)
  <2>1. PointerStep
    BY <1>4, PlaceInField DEF PointerStep
  <2> QED BY <2>1 DEF OtherStep
<1>5. CASE \E name \in ToSet(app.profiles) : PressProfile(name)
  BY <1>5 DEF OtherStep, PointerStep
<1>6. CASE \E over \in ToSet(app.profiles) \cup {None}, before \in BOOLEAN : Release(over, before)
  BY <1>6 DEF OtherStep, PointerStep
<1>7. CASE PressButton(Msg("create", None, None))
  BY <1>7, ButtonStep
<1> QED BY <1>1, <1>2, <1>3, <1>4, <1>5, <1>6, <1>7 DEF DialogStep

LEMMA DragStepIs == UiOk(ui) /\ DragStep => OtherStep \/ OpensAtHand
<1> SUFFICES ASSUME UiOk(ui), DragStep PROVE OtherStep \/ OpensAtHand
  OBVIOUS
<1>1. CASE OpensAtHand \/ Escape \/ MuteKey
  BY <1>1 DEF OtherStep, OtherKey
<1>2. CASE \E to \in Targets(app, ui) \cup {Nothing} : Motion(to, 0)
  <2>1. PointerStep
    BY <1>2, PlaceInField DEF PointerStep
  <2> QED BY <2>1 DEF OtherStep
<1>3. CASE \E id \in StreamIds(app) : PressSlider(id) \/ PressMute(id)
  BY <1>3 DEF OtherStep, PointerStep
<1>4. CASE \E id \in StreamIds(app) : StreamGone(id)
  BY <1>4 DEF OtherStep
<1>5. CASE \E s \in Source : StreamCame(s)
  BY <1>5 DEF OtherStep
<1>6. CASE \E t \in ColumnTargets(app) \cup MenuTargets(app, ui) : t[1] = "button" /\ PressButton(t[2])
  BY <1>6, ButtonStep
<1>7. CASE PressBackdrop
  BY <1>7 DEF OtherStep, PointerStep
<1>8. CASE Release(None, FALSE)
  <2>1. PointerStep
    BY <1>8 DEF PointerStep
  <2> QED BY <2>1 DEF OtherStep
<1> QED BY <1>1, <1>2, <1>3, <1>4, <1>5, <1>6, <1>7, <1>8 DEF DragStep

LEMMA AstrayStepIs == AstrayStep => OtherStep \/ OpenPaletteKey
<1> SUFFICES ASSUME AstrayStep PROVE OtherStep \/ OpenPaletteKey
  OBVIOUS
<1>1. CASE OpenPaletteKey \/ Escape \/ RunCommand \/ Arrow \/ ConfirmKey
  BY <1>1 DEF OtherStep, OtherKey
<1>2. CASE PressBackdrop \/ PressSelector \/ PressNothing
  BY <1>2 DEF OtherStep, PointerStep
<1>3. CASE \E on \in {"confirm", "cancel"} : PressDialogButton(on)
  BY <1>3 DEF OtherStep, PointerStep
<1>4. CASE PressButton(Msg("create", None, None))
  BY <1>4, ButtonStep
<1> QED BY <1>1, <1>2, <1>3, <1>4 DEF AstrayStep

LEMMA SceneStepIs ==
  ASSUME UiOk(ui), SceneStep
  PROVE  /\ UiStep
         /\ scene' # "astray" => scene # "astray" /\ (OtherStep \/ OpensAtHand)
<1>1. OpensAtHand => OpenPaletteKey
  BY DEF OpensAtHand
<1>2. CASE OpenPaletteKey /\ scene' = "astray"
  BY <1>2, UiStepIs
<1>3. CASE UNCHANGED scene /\ scene = "astray" /\ AstrayStep
  BY <1>3, AstrayStepIs, UiStepIs
<1>4. CASE UNCHANGED scene /\ scene # "astray" /\ (ListStep \/ FieldStep \/ DialogStep \/ DragStep)
  <2>1. OtherStep \/ OpensAtHand
    BY <1>4, ListStepIs, FieldStepIs, DialogStepIs, DragStepIs
  <2> QED BY <1>1, <1>4, <2>1, UiStepIs
<1> QED BY <1>2, <1>3, <1>4 DEF SceneStep

\* What the four scenes and what follows a stray Ctrl+K do is the input mapping's.
THEOREM ScenesAreRuns == SceneSpec => UiSpec
<1>1. SceneInit => UiInit
  BY DEF SceneInit
<1>2. UiStands /\ [SceneNext]_vars => [UiNext]_uiVars
  <2> SUFFICES ASSUME UiStands, [SceneNext]_vars PROVE [UiNext]_uiVars
    OBVIOUS
  <2>1. CASE SceneNext
    BY <2>1, SceneStepIs DEF SceneNext, UiNext, UiStands
  <2>2. CASE UNCHANGED vars
    BY <2>2 DEF vars
  <2> QED BY <2>1, <2>2
<1>3. UiStands /\ [UiNext]_uiVars => UiStands'
  <2> SUFFICES ASSUME UiStands, [UiNext]_uiVars PROVE UiStands'
    OBVIOUS
  <2>1. CASE UiNext
    BY <2>1, EventKeepsUi DEF UiNext, UiStands
  <2>2. CASE UNCHANGED uiVars
    BY <2>2 DEF uiVars, UiStands
  <2> QED BY <2>1, <2>2
<1>4. UiInit => UiStands
  BY OverlaysStart DEF OverlaysStand, UiStands
<1> QED BY <1>1, <1>2, <1>3, <1>4, PTL DEF SceneSpec, UiSpec

SceneStands == scene # "astray" => Agrees(app, ui)

\* The palette and the keyboard go together, two overlays are never open, a
\* dialog names a profile there is and what Enter would run is on screen, in
\* whatever order keys, presses and rows come.
THEOREM ScenesAgree == SceneSpec => []OverlaysAgree
<1>1. SceneInit => SceneStands
  BY AgreesAtFirst DEF SceneInit, SceneStands
<1>2. OverlaysStand /\ SceneStands /\ [SceneNext]_vars => SceneStands'
  <2> SUFFICES ASSUME OverlaysStand, SceneStands, [SceneNext]_vars, scene' # "astray"
               PROVE  Agrees(app', ui')
    BY DEF SceneStands
  <2>1. CASE SceneNext
    <3>1. scene # "astray" /\ (OtherStep \/ OpensAtHand)
      BY <2>1, SceneStepIs DEF SceneNext, OverlaysStand
    <3>2. Agrees(app, ui)
      BY <3>1 DEF SceneStands
    <3> QED BY <2>1, <3>1, <3>2, AgreesStep DEF SceneNext
  <2>2. CASE UNCHANGED vars
    BY <2>2 DEF vars, uiVars, SceneStands
  <2> QED BY <2>1, <2>2
<1>3. OverlaysStand /\ SceneStands => OverlaysAgree
  BY OverlaysAre, AgreeingTakesKeys DEF HandsOn, SceneStands, PaletteTakesKeysAtHand, OverlaysAgree
<1> QED BY ScenesAreRuns, OverlaysStandAlways, <1>1, <1>2, <1>3, PTL DEF SceneSpec

=============================================================================
