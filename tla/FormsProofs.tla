----------------------------- MODULE FormsProofs -----------------------------
(***************************************************************************)
(* Two of the forms data takes on the screen, and the one on the disk.     *)
(*                                                                         *)
(* The machine that reads a text scalar by scalar breaks it where the rules *)
(* of UAX #29 say, whatever the tables and however long the text. What the  *)
(* rules see of a text by looking back, the machine carries: Carried says   *)
(* what each of its flags stands for, and one lemma for each kind of run    *)
(* says how the run grows by a scalar.                                     *)
(*                                                                         *)
(* And whatever the clock says when a turn of the loop comes, the bars of   *)
(* the meters, the rings and the mark are where time has taken them: each   *)
(* step begins where the one before it ended, and a clock that stands means *)
(* that nothing it times is under way.                                     *)
(*                                                                         *)
(* The state file is whole wherever kills and power cuts fall: what a save *)
(* writes is under no name but the temporary one in any directory the disk *)
(* may come back to, and is on the disk before it is renamed. So what was  *)
(* set aside stays, and the file keeps the promise of SavedState, if the   *)
(* codec brings a document back exactly, which TLC checks of the codec.    *)
(***************************************************************************)
EXTENDS Graphemes, Moving, Store, TLAPS, SequenceTheorems

\* The machine's state says of the text read what the rules look back for.
Carried ==
  IF text = <<>> THEN state = Fresh
  ELSE /\ state.prev = gcb(text[Len(text)])
       /\ state.ri_run \in 0 .. Len(text)
       /\ state.prev = "RegionalIndicator" <=> state.ri_run # 0
       /\ \A j \in Len(text) + 1 - state.ri_run .. Len(text) : gcb(text[j]) = "RegionalIndicator"
       /\ state.ri_run # Len(text) => gcb(text[Len(text) - state.ri_run]) # "RegionalIndicator"
       /\ state.ep_then_extend <=> Pictured(text, Len(text))
       /\ state.zwj_after_ep <=> state.prev = "Zwj" /\ Len(text) > 1 /\ Pictured(text, Len(text) - 1)
       /\ state.incb_run <=> Conjunct(text, Len(text))
       /\ state.incb_linker <=> Linked(text, Len(text))

TypeOK ==
  /\ text \in Seq(Scalar)
  /\ state \in BreakState
  /\ start \in 0 .. Len(text)
  /\ clusters \in Seq(Nat \X Nat)
  /\ done \in BOOLEAN

\* The clusters that are closed end where two scalars are not joined.
Closed == \A i \in 1 .. Len(text) - 1 : (\E k \in DOMAIN clusters : clusters[k][2] = i) <=> ~Joined(text, i)

\* A cluster that is closed has something after it, until the text is over.
Within == \A k \in DOMAIN clusters : clusters[k][2] \in 1 .. Len(text) /\ (~done => clusters[k][2] < Len(text))

\* The cluster that is accumulated is not empty.
Open == ~done /\ text # <<>> => start < Len(text)

IInv == TypeOK /\ (~done => Carried) /\ Tile /\ Closed /\ Within /\ Open

-----------------------------------------------------------------------------
(* The tables.                                                             *)

\* Every scalar has a break property.
LEMMA GcbTyped == ASSUME NEW c PROVE gcb(c) \in Gcb
<1>1. CASE search(GCB_RANGES, c) = NoValue
  BY <1>1 DEF gcb, Gcb
<1>2. CASE search(GCB_RANGES, c) # NoValue
  <2>1. PICK k \in Covering(GCB_RANGES, c) : search(GCB_RANGES, c) = GCB_RANGES[k][3]
    BY <1>2 DEF search
  <2>2. k \in DOMAIN GCB_RANGES
    BY <2>1 DEF Covering
  <2> QED BY <1>2, <2>1, <2>2, TablesAssumption DEF gcb
<1> QED BY <1>1, <1>2

\* And a conjunct property, or none.
LEMMA IncbTyped == ASSUME NEW c PROVE incb(c) \in Incb \cup {NoValue}
<1>1. CASE search(INCB_RANGES, c) = NoValue
  BY <1>1 DEF incb
<1>2. CASE search(INCB_RANGES, c) # NoValue
  <2>1. PICK k \in Covering(INCB_RANGES, c) : search(INCB_RANGES, c) = INCB_RANGES[k][3]
    BY <1>2 DEF search
  <2>2. k \in DOMAIN INCB_RANGES
    BY <2>1 DEF Covering
  <2> QED BY <1>2, <2>1, <2>2, TablesAssumption DEF incb
<1> QED BY <1>1, <1>2

\* No value of the tables is the one that stands for none.
LEMMA NoValueApart == NoValue \notin Gcb /\ NoValue \notin Incb
BY TablesAssumption

\* A search says whether a scalar is pictographic.
LEMMA PictTyped == ASSUME NEW c PROVE is_extended_pictographic(c) \in BOOLEAN
BY DEF is_extended_pictographic

-----------------------------------------------------------------------------
(* Runs.                                                                   *)

\* What a text says up to a scalar does not change with what follows.
LEMMA Appended ==
  ASSUME NEW t \in Seq(Scalar), NEW c \in Scalar
  PROVE  /\ Append(t, c) \in Seq(Scalar) /\ Len(Append(t, c)) = Len(t) + 1
         /\ \A i \in 1 .. Len(t) : Append(t, c)[i] = t[i]
         /\ Append(t, c)[Len(t) + 1] = c
OBVIOUS

\* The same, of each run.
LEMMA PicturedStays ==
  ASSUME NEW t \in Seq(Scalar), NEW c \in Scalar, NEW i \in 1 .. Len(t)
  PROVE  Pictured(Append(t, c), i) <=> Pictured(t, i)
<1>1. PICK u : u = Append(t, c)
  OBVIOUS
<1>2. \A j \in 1 .. i : u[j] = t[j]
  BY <1>1, Appended
<1>3. Pictured(u, i) <=> Pictured(t, i)
  BY <1>2 DEF Pictured
<1> QED BY <1>1, <1>3

LEMMA LinkedStays ==
  ASSUME NEW t \in Seq(Scalar), NEW c \in Scalar, NEW i \in 1 .. Len(t)
  PROVE  Linked(Append(t, c), i) <=> Linked(t, i)
<1>1. PICK u : u = Append(t, c)
  OBVIOUS
<1>2. \A j \in 1 .. i : u[j] = t[j]
  BY <1>1, Appended
<1>3. Linked(u, i) <=> Linked(t, i)
  BY SMTT(30), <1>2 DEF Linked
<1> QED BY <1>1, <1>3

LEMMA PairedStays ==
  ASSUME NEW t \in Seq(Scalar), NEW c \in Scalar, NEW i \in 1 .. Len(t)
  PROVE  Paired(Append(t, c), i) <=> Paired(t, i)
<1>1. PICK u : u = Append(t, c)
  OBVIOUS
<1>2. \A j \in 1 .. i : u[j] = t[j]
  BY <1>1, Appended
<1>3. \A k \in 1 .. i : k = 1 \/ u[k - 1] = t[k - 1]
  BY <1>2
<1>4. Paired(u, i) <=> Paired(t, i)
  BY <1>2, <1>3 DEF Paired
<1> QED BY <1>1, <1>4

\* Two scalars of a text stay joined or apart.
LEMMA JoinedStays ==
  ASSUME NEW t \in Seq(Scalar), NEW c \in Scalar, NEW i \in 1 .. Len(t) - 1
  PROVE  Joined(Append(t, c), i) <=> Joined(t, i)
<1>1. Append(t, c)[i] = t[i] /\ Append(t, c)[i + 1] = t[i + 1]
  BY Appended
<1>2. Linked(Append(t, c), i) <=> Linked(t, i)
  BY LinkedStays
<1>3. Paired(Append(t, c), i) <=> Paired(t, i)
  BY PairedStays
<1>4. i > 1 => (Pictured(Append(t, c), i - 1) <=> Pictured(t, i - 1))
  BY PicturedStays
<1> QED BY <1>1, <1>2, <1>3, <1>4 DEF Joined

\* An emoji and its modifiers grow by a modifier, and start anew with an emoji.
LEMMA PicturedGrows ==
  ASSUME NEW t \in Seq(Scalar), NEW c \in Scalar
  PROVE  Pictured(Append(t, c), Len(t) + 1)
           <=> is_extended_pictographic(c) \/ (gcb(c) = "Extend" /\ t # <<>> /\ Pictured(t, Len(t)))
<1>1. PICK u, n : u = Append(t, c) /\ n = Len(t)
  OBVIOUS
<1>2. n \in Nat /\ u[n + 1] = c /\ \A j \in 1 .. n : u[j] = t[j]
  BY <1>1, Appended
<1>3. t = <<>> <=> n = 0
  BY <1>1
<1>4. ASSUME is_extended_pictographic(c) PROVE Pictured(u, n + 1)
  <2>1. n + 1 \in 1 .. n + 1 /\ \A j \in n + 1 + 1 .. n + 1 : gcb(u[j]) = "Extend"
    BY <1>2
  <2> QED BY <1>2, <1>4, <2>1 DEF Pictured
<1>5. ASSUME gcb(c) = "Extend", n # 0, Pictured(t, n) PROVE Pictured(u, n + 1)
  <2>1. PICK k \in 1 .. n : is_extended_pictographic(t[k]) /\ \A j \in k + 1 .. n : gcb(t[j]) = "Extend"
    BY <1>5 DEF Pictured
  <2>2. k \in 1 .. n + 1 /\ is_extended_pictographic(u[k]) /\ \A j \in k + 1 .. n + 1 : gcb(u[j]) = "Extend"
    BY <1>2, <1>5, <2>1
  <2> QED BY <2>2 DEF Pictured
<1>6. ASSUME Pictured(u, n + 1), ~is_extended_pictographic(c)
      PROVE  gcb(c) = "Extend" /\ n # 0 /\ Pictured(t, n)
  <2>1. PICK k \in 1 .. n + 1 : is_extended_pictographic(u[k]) /\ \A j \in k + 1 .. n + 1 : gcb(u[j]) = "Extend"
    BY <1>6 DEF Pictured
  <2>2. k \in 1 .. n
    BY <1>2, <1>6, <2>1
  <2>3. n + 1 \in k + 1 .. n + 1 /\ \A j \in k + 1 .. n : j \in k + 1 .. n + 1 /\ j \in 1 .. n
    BY <1>2, <2>2
  <2>4. gcb(c) = "Extend" /\ is_extended_pictographic(t[k]) /\ \A j \in k + 1 .. n : gcb(t[j]) = "Extend"
    BY <1>2, <2>1, <2>2, <2>3
  <2> QED BY <2>2, <2>4 DEF Pictured
<1> QED BY <1>1, <1>3, <1>4, <1>5, <1>6

\* A conjunct grows by what extends or links it, and starts anew with a
\* consonant.
LEMMA ConjunctGrows ==
  ASSUME NEW t \in Seq(Scalar), NEW c \in Scalar
  PROVE  Conjunct(Append(t, c), Len(t) + 1)
           <=> incb(c) = "Consonant" \/ (incb(c) \in {"Extend", "Linker"} /\ t # <<>> /\ Conjunct(t, Len(t)))
<1>1. PICK u, n : u = Append(t, c) /\ n = Len(t)
  OBVIOUS
<1>2. n \in Nat /\ u[n + 1] = c /\ \A j \in 1 .. n : u[j] = t[j]
  BY <1>1, Appended
<1>3. t = <<>> <=> n = 0
  BY <1>1
<1>4. ASSUME incb(c) = "Consonant" PROVE Conjunct(u, n + 1)
  <2>1. n + 1 \in 1 .. n + 1 /\ \A j \in n + 1 + 1 .. n + 1 : incb(u[j]) \in {"Extend", "Linker"}
    BY <1>2
  <2> QED BY <1>2, <1>4, <2>1 DEF Conjunct
<1>5. ASSUME incb(c) \in {"Extend", "Linker"}, n # 0, Conjunct(t, n) PROVE Conjunct(u, n + 1)
  <2>1. PICK k \in 1 .. n : incb(t[k]) = "Consonant" /\ \A j \in k + 1 .. n : incb(t[j]) \in {"Extend", "Linker"}
    BY <1>5 DEF Conjunct
  <2>2. k \in 1 .. n + 1 /\ incb(u[k]) = "Consonant" /\ \A j \in k + 1 .. n + 1 : incb(u[j]) \in {"Extend", "Linker"}
    BY <1>2, <1>5, <2>1
  <2> QED BY <2>2 DEF Conjunct
<1>6. ASSUME Conjunct(u, n + 1), incb(c) # "Consonant"
      PROVE  incb(c) \in {"Extend", "Linker"} /\ n # 0 /\ Conjunct(t, n)
  <2>1. PICK k \in 1 .. n + 1 : incb(u[k]) = "Consonant" /\ \A j \in k + 1 .. n + 1 : incb(u[j]) \in {"Extend", "Linker"}
    BY <1>6 DEF Conjunct
  <2>2. k \in 1 .. n
    BY <1>2, <1>6, <2>1
  <2>3. n + 1 \in k + 1 .. n + 1 /\ \A j \in k + 1 .. n : j \in k + 1 .. n + 1 /\ j \in 1 .. n
    BY <1>2, <2>2
  <2>4. incb(c) \in {"Extend", "Linker"} /\ incb(t[k]) = "Consonant" /\ \A j \in k + 1 .. n : incb(t[j]) \in {"Extend", "Linker"}
    BY <1>2, <2>1, <2>2, <2>3
  <2> QED BY <2>2, <2>4 DEF Conjunct
<1> QED BY <1>1, <1>3, <1>4, <1>5, <1>6

\* A conjunct is linked from its first linker on.
LEMMA LinkedGrows ==
  ASSUME NEW t \in Seq(Scalar), NEW c \in Scalar
  PROVE  Linked(Append(t, c), Len(t) + 1)
           <=> \/ incb(c) = "Linker" /\ t # <<>> /\ Conjunct(t, Len(t))
               \/ incb(c) = "Extend" /\ t # <<>> /\ Linked(t, Len(t))
<1>1. PICK u, n : u = Append(t, c) /\ n = Len(t)
  OBVIOUS
<1>2. n \in Nat /\ u[n + 1] = c /\ \A j \in 1 .. n : u[j] = t[j]
  BY <1>1, Appended
<1>3. t = <<>> <=> n = 0
  BY <1>1
<1>4. ASSUME incb(c) = "Linker", n # 0, Conjunct(t, n) PROVE Linked(u, n + 1)
  <2>1. PICK k \in 1 .. n : incb(t[k]) = "Consonant" /\ \A j \in k + 1 .. n : incb(t[j]) \in {"Extend", "Linker"}
    BY <1>4 DEF Conjunct
  <2>2. k \in 1 .. n + 1 /\ incb(u[k]) = "Consonant" /\ \A j \in k + 1 .. n + 1 : incb(u[j]) \in {"Extend", "Linker"}
    BY <1>2, <1>4, <2>1
  <2>3. n + 1 \in k + 1 .. n + 1 /\ incb(u[n + 1]) = "Linker"
    BY <1>2, <1>4, <2>1
  <2> QED BY <2>2, <2>3 DEF Linked
<1>5. ASSUME incb(c) = "Extend", n # 0, Linked(t, n) PROVE Linked(u, n + 1)
  <2>1. PICK k \in 1 .. n : /\ incb(t[k]) = "Consonant" /\ \A j \in k + 1 .. n : incb(t[j]) \in {"Extend", "Linker"}
                            /\ \E j \in k + 1 .. n : incb(t[j]) = "Linker"
    BY <1>5 DEF Linked
  <2>2. k \in 1 .. n + 1 /\ incb(u[k]) = "Consonant" /\ \A j \in k + 1 .. n + 1 : incb(u[j]) \in {"Extend", "Linker"}
    BY <1>2, <1>5, <2>1
  <2>3. PICK j \in k + 1 .. n : incb(t[j]) = "Linker"
    BY <2>1
  <2>4. j \in k + 1 .. n + 1 /\ incb(u[j]) = "Linker"
    BY <1>2, <2>1, <2>3
  <2> QED BY <2>2, <2>4 DEF Linked
<1>6. ASSUME Linked(u, n + 1)
      PROVE  \/ incb(c) = "Linker" /\ n # 0 /\ Conjunct(t, n)
             \/ incb(c) = "Extend" /\ n # 0 /\ Linked(t, n)
  <2>1. PICK k \in 1 .. n + 1 : /\ incb(u[k]) = "Consonant" /\ \A j \in k + 1 .. n + 1 : incb(u[j]) \in {"Extend", "Linker"}
                                /\ \E j \in k + 1 .. n + 1 : incb(u[j]) = "Linker"
    BY <1>6 DEF Linked
  <2>2. PICK j \in k + 1 .. n + 1 : incb(u[j]) = "Linker"
    BY <2>1
  <2>3. k \in 1 .. n
    BY <1>2, <2>1, <2>2
  <2>4. n + 1 \in k + 1 .. n + 1 /\ \A l \in k + 1 .. n : l \in k + 1 .. n + 1 /\ l \in 1 .. n
    BY <1>2, <2>3
  <2>5. incb(c) \in {"Extend", "Linker"} /\ incb(t[k]) = "Consonant" /\ \A l \in k + 1 .. n : incb(t[l]) \in {"Extend", "Linker"}
    BY <1>2, <2>1, <2>3, <2>4
  <2>6. n # 0
    BY <1>2, <2>3
  <2>7. Conjunct(t, n)
    BY <2>3, <2>5 DEF Conjunct
  <2>8. CASE incb(c) = "Linker"
    BY <2>6, <2>7, <2>8
  <2>9. CASE incb(c) = "Extend"
    <3>1. j \in k + 1 .. n
      BY <1>2, <2>2, <2>3, <2>9
    <3>2. incb(t[j]) = "Linker"
      BY <1>2, <2>2, <2>4, <3>1
    <3> QED BY <2>3, <2>5, <2>6, <2>9, <3>1, <3>2 DEF Linked
  <2> QED BY <2>5, <2>8, <2>9
<1> QED BY <1>1, <1>3, <1>4, <1>5, <1>6

\* An odd number of indicators ends at the end of a run of odd length.
LEMMA PairedIsOdd ==
  ASSUME NEW t, NEW n \in Nat \ {0}, NEW r \in 0 .. n,
         \A j \in n + 1 - r .. n : gcb(t[j]) = "RegionalIndicator",
         r # n => gcb(t[n - r]) # "RegionalIndicator"
  PROVE  Paired(t, n) <=> r % 2 = 1
<1>1. ASSUME r % 2 = 1 PROVE Paired(t, n)
  <2>1. n + 1 - r \in 1 .. n /\ (n + 1) - (n + 1 - r) = r /\ (n + 1 - r) - 1 = n - r
    BY <1>1
  <2>2. n + 1 - r = 1 \/ gcb(t[(n + 1 - r) - 1]) # "RegionalIndicator"
    BY <2>1
  <2> QED BY <1>1, <2>1, <2>2 DEF Paired
<1>2. ASSUME Paired(t, n) PROVE r % 2 = 1
  <2>1. PICK k \in 1 .. n : /\ \A j \in k .. n : gcb(t[j]) = "RegionalIndicator"
                            /\ k = 1 \/ gcb(t[k - 1]) # "RegionalIndicator"
                            /\ (n + 1 - k) % 2 = 1
    BY <1>2 DEF Paired
  <2>2. ~(k < n + 1 - r)
    <3>1. SUFFICES ASSUME k < n + 1 - r PROVE FALSE
      OBVIOUS
    <3>2. r # n /\ n - r \in k .. n
      BY <2>1, <3>1
    <3> QED BY <2>1, <3>2
  <2>3. ~(k > n + 1 - r)
    <3>1. SUFFICES ASSUME k > n + 1 - r PROVE FALSE
      OBVIOUS
    <3>2. k # 1 /\ k - 1 \in n + 1 - r .. n
      BY <2>1, <3>1
    <3> QED BY <2>1, <3>2
  <2>4. n + 1 - k = r
    BY <2>2, <2>3
  <2> QED BY <2>1, <2>4
<1> QED BY <1>1, <1>2

-----------------------------------------------------------------------------
(* The machine.                                                            *)

\* What the machine answers of the next scalar is what the rules say.
LEMMA BreakIsApart ==
  ASSUME IInv, ~done, text # <<>>, NEW c \in Scalar
  PROVE  breaks_before(state, c) <=> ~Joined(Append(text, c), Len(text))
<1>1. PICK t, n, u : t = text /\ n = Len(text) /\ u = Append(text, c)
  OBVIOUS
<1>2. PICK a, b, s : a = gcb(t[n]) /\ b = gcb(c) /\ s = state
  OBVIOUS
<1>3. n \in Nat \ {0} /\ t \in Seq(Scalar) /\ n \in 1 .. Len(t)
  BY <1>1 DEF IInv, TypeOK
<1>4. u[n] = t[n] /\ u[n + 1] = c
  BY <1>1, <1>3, Appended
<1>5. s.prev = a /\ s.prev # NoValue
  BY <1>1, <1>2, GcbTyped, NoValueApart DEF IInv, Carried
<1>6. a = "RegionalIndicator" => (Paired(u, n) <=> s.ri_run % 2 = 1)
  <2>1. /\ s.ri_run \in 0 .. n
        /\ \A j \in n + 1 - s.ri_run .. n : gcb(t[j]) = "RegionalIndicator"
        /\ s.ri_run # n => gcb(t[n - s.ri_run]) # "RegionalIndicator"
    BY <1>1, <1>2 DEF IInv, Carried
  <2>2. PICK r : r = s.ri_run
    OBVIOUS
  <2>3. Paired(t, n) <=> r % 2 = 1
    BY <1>3, <2>1, <2>2, PairedIsOdd
  <2>4. Paired(u, n) <=> Paired(t, n)
    BY <1>1, <1>3, PairedStays
  <2> QED BY <2>2, <2>3, <2>4
<1>7. a # "RegionalIndicator" => ~Paired(u, n)
  <2>1. \A k \in 1 .. n : n \in k .. n
    BY <1>3
  <2> QED BY <1>2, <1>4, <2>1 DEF Paired
<1>8. s.ri_run \in Nat /\ (s.ri_run % 2 = 1 <=> s.ri_run % 2 # 0)
  BY <1>2 DEF IInv, TypeOK, BreakState
<1>9. (s.incb_run /\ s.incb_linker) <=> Linked(u, n)
  <2>1. Linked(u, n) <=> Linked(t, n)
    BY <1>1, <1>3, LinkedStays
  <2>2. Linked(t, n) => Conjunct(t, n)
    BY DEF Linked, Conjunct
  <2>3. (s.incb_run <=> Conjunct(t, n)) /\ (s.incb_linker <=> Linked(t, n))
    BY <1>1, <1>2 DEF IInv, Carried
  <2> QED BY <2>1, <2>2, <2>3
<1>10. s.zwj_after_ep <=> a = "Zwj" /\ n > 1 /\ Pictured(u, n - 1)
  <2>1. s.zwj_after_ep <=> a = "Zwj" /\ n > 1 /\ Pictured(t, n - 1)
    BY <1>1, <1>2, <1>5 DEF IInv, Carried
  <2>2. n > 1 => (Pictured(u, n - 1) <=> Pictured(t, n - 1))
    BY <1>1, <1>3, PicturedStays
  <2> QED BY <2>1, <2>2
<1>11. a \in Gcb /\ b \in Gcb
  BY <1>2, GcbTyped
<1>12. breaks_before(s, c) <=>
         should_break(a, b, is_extended_pictographic(c), s.ri_run, s.zwj_after_ep,
                      s.incb_run /\ s.incb_linker /\ incb(c) = "Consonant")
  BY <1>2, <1>5 DEF breaks_before
<1>13. PICK odd \in BOOLEAN, link \in BOOLEAN, zwj \in BOOLEAN :
         /\ odd <=> s.ri_run % 2 = 1
         /\ link <=> (s.incb_run /\ s.incb_linker /\ incb(c) = "Consonant")
         /\ zwj <=> s.zwj_after_ep
  OBVIOUS
<1>14. should_break(a, b, is_extended_pictographic(c), s.ri_run, s.zwj_after_ep,
                    s.incb_run /\ s.incb_linker /\ incb(c) = "Consonant")
         <=> IF a = "Cr" /\ b = "Lf" THEN FALSE
             ELSE IF a \in Breaks \/ b \in Breaks THEN TRUE
             ELSE /\ ~(a = "L" /\ b \in {"L", "V", "Lv", "Lvt"})
                  /\ ~(a \in {"Lv", "V"} /\ b \in {"V", "T"})
                  /\ ~(a \in {"Lvt", "T"} /\ b = "T")
                  /\ b \notin {"Extend", "Zwj", "SpacingMark"}
                  /\ a # "Prepend"
                  /\ ~link
                  /\ ~(a = "Zwj" /\ is_extended_pictographic(c) /\ zwj)
                  /\ (a = "RegionalIndicator" /\ b = "RegionalIndicator" => ~odd)
  BY <1>8, <1>13, Zenon DEF should_break, Breaks
<1>15. Joined(u, n)
         <=> \/ a = "Cr" /\ b = "Lf"
             \/ /\ a \notin Breaks /\ b \notin Breaks
                /\ \/ a = "L" /\ b \in {"L", "V", "Lv", "Lvt"}
                   \/ a \in {"Lv", "V"} /\ b \in {"V", "T"}
                   \/ a \in {"Lvt", "T"} /\ b = "T"
                   \/ b \in {"Extend", "Zwj", "SpacingMark"} \/ a = "Prepend"
                   \/ link
                   \/ a = "Zwj" /\ zwj /\ is_extended_pictographic(c)
                   \/ b = "RegionalIndicator" /\ a = "RegionalIndicator" /\ odd
  BY <1>2, <1>4, <1>6, <1>7, <1>9, <1>10, <1>13 DEF Joined
<1>16. breaks_before(s, c) <=> ~Joined(u, n)
  BY <1>12, <1>14, <1>15
<1> QED BY <1>1, <1>2, <1>16

\* A text of one scalar or more has a last one.
LEMMA TextStarts ==
  ASSUME TypeOK
  PROVE  /\ Len(text) \in Nat /\ (text = <<>> <=> Len(text) = 0)
         /\ text # <<>> => Len(text) \in 1 .. Len(text)
BY DEF TypeOK

\* The machine carries past a scalar what the rules see of the longer text.
LEMMA TakeCarries ==
  ASSUME IInv, NEW c \in Scalar, Scan(c)
  PROVE  Carried'
<1>1. PICK t, n, u, s : t = text /\ n = Len(text) /\ u = Append(text, c) /\ s = state
  OBVIOUS
<1>2. PICK g, ep, ci : g = gcb(c) /\ ep = is_extended_pictographic(c) /\ ci = incb(c)
  OBVIOUS
<1>3. text' = u /\ state' = advance(s, g, ep, ci)
  BY <1>1, <1>2 DEF Scan
<1>4. n \in Nat /\ t \in Seq(Scalar) /\ (t = <<>> <=> n = 0)
  BY <1>1 DEF IInv, TypeOK
<1>5. u \in Seq(Scalar) /\ Len(u) = n + 1 /\ u[n + 1] = c /\ \A j \in 1 .. n : u[j] = t[j]
  BY <1>1, <1>4, Appended
<1>6. g \in Gcb /\ g # NoValue /\ ci \in Incb \cup {NoValue} /\ ep \in BOOLEAN /\ (ep => g = "Other")
  BY <1>2, GcbTyped, IncbTyped, PictTyped, NoValueApart, TablesAssumption
<1>7. PICK v : v = advance(s, g, ep, ci)
  OBVIOUS
<1>8. s \in BreakState /\ (n = 0 => s = Fresh) /\ (n # 0 => s.prev = gcb(t[n]))
  BY <1>1, <1>4 DEF IInv, TypeOK, Carried, Scan
<1>9. u # <<>>
  BY <1>4, <1>5
<1>10. v.prev = gcb(u[n + 1])
  BY <1>2, <1>5, <1>7 DEF advance, ep_then_extend_past
<1>11. /\ v.ri_run \in 0 .. n + 1
       /\ v.prev = "RegionalIndicator" <=> v.ri_run # 0
       /\ \A j \in n + 1 + 1 - v.ri_run .. n + 1 : gcb(u[j]) = "RegionalIndicator"
       /\ v.ri_run # n + 1 => gcb(u[n + 1 - v.ri_run]) # "RegionalIndicator"
  <2>0. v.prev = g
    BY <1>7 DEF advance, ep_then_extend_past
  <2>1. CASE g # "RegionalIndicator"
    <3>1. v.ri_run = 0
      BY <1>7, <2>1 DEF advance, ep_then_extend_past
    <3> QED BY <1>2, <1>4, <1>5, <2>0, <2>1, <3>1
  <2>2. CASE g = "RegionalIndicator" /\ s.prev # "RegionalIndicator"
    <3>1. v.ri_run = 1
      BY <1>7, <2>2 DEF advance, ep_then_extend_past
    <3>2. n # 0 => gcb(u[n]) # "RegionalIndicator"
      <4>1. n # 0 => n \in 1 .. n
        BY <1>4
      <4> QED BY <1>5, <1>8, <2>2, <4>1
    <3>3. \A j \in n + 1 + 1 - 1 .. n + 1 : j = n + 1
      BY <1>4
    <3>4. (n + 1) - 1 = n /\ (1 # n + 1 => n # 0) /\ 1 \in 0 .. n + 1
      BY <1>4
    <3>5. \A j \in n + 1 + 1 - 1 .. n + 1 : gcb(u[j]) = "RegionalIndicator"
      BY <1>2, <1>5, <2>2, <3>3
    <3>6. n + 1 - v.ri_run = n /\ n + 1 + 1 - v.ri_run = n + 1 + 1 - 1
      BY <1>4, <3>1
    <3>7. v.ri_run # n + 1 => gcb(u[n + 1 - v.ri_run]) # "RegionalIndicator"
      BY <3>1, <3>2, <3>4, <3>6, Zenon
    <3>8. \A j \in n + 1 + 1 - v.ri_run .. n + 1 : gcb(u[j]) = "RegionalIndicator"
      BY <3>5, <3>6
    <3> QED BY <2>0, <2>2, <3>1, <3>4, <3>7, <3>8
  <2>3. CASE g = "RegionalIndicator" /\ s.prev = "RegionalIndicator"
    <3>1. PICK r : r = s.ri_run
      OBVIOUS
    <3>2. v.ri_run = r + 1
      BY <1>7, <2>3, <3>1 DEF advance, ep_then_extend_past
    <3>3. n # 0
      BY <1>8, <2>3, NoValueApart DEF Fresh, Gcb
    <3>4. /\ r \in 0 .. n
          /\ \A j \in n + 1 - r .. n : gcb(t[j]) = "RegionalIndicator"
          /\ r # n => gcb(t[n - r]) # "RegionalIndicator"
      BY <1>1, <1>4, <3>1, <3>3 DEF IInv, Carried, Scan
    <3>5. \A j \in n + 1 + 1 - (r + 1) .. n + 1 : gcb(u[j]) = "RegionalIndicator"
      <4>1. SUFFICES ASSUME NEW j \in n + 1 + 1 - (r + 1) .. n + 1 PROVE gcb(u[j]) = "RegionalIndicator"
        OBVIOUS
      <4>2. CASE j = n + 1
        BY <1>2, <1>5, <2>3, <4>2
      <4>3. CASE j # n + 1
        <5>1. j \in n + 1 - r .. n /\ j \in 1 .. n
          BY <1>4, <3>4, <4>1, <4>3
        <5> QED BY <1>5, <3>4, <5>1
      <4> QED BY <4>2, <4>3
    <3>6. r + 1 # n + 1 => gcb(u[n + 1 - (r + 1)]) # "RegionalIndicator"
      <4>1. r # n => n - r \in 1 .. n /\ n + 1 - (r + 1) = n - r
        BY <1>4, <3>4
      <4> QED BY <1>4, <1>5, <3>4, <4>1
    <3>7. r + 1 \in 0 .. n + 1 /\ r + 1 # 0
      BY <1>4, <3>4
    <3> QED BY <2>0, <2>3, <3>2, <3>5, <3>6, <3>7
  <2> QED BY <2>1, <2>2, <2>3
<1>12. v.ep_then_extend <=> Pictured(u, n + 1)
  <2>1. Pictured(u, n + 1) <=> ep \/ (g = "Extend" /\ n # 0 /\ Pictured(t, n))
    BY <1>1, <1>2, <1>4, PicturedGrows
  <2>2. s.ep_then_extend <=> n # 0 /\ Pictured(t, n)
    BY <1>1, <1>4, <1>8 DEF IInv, Carried, Scan, Fresh
  <2>3. v.ep_then_extend <=> ep \/ (g = "Extend" /\ s.ep_then_extend)
    BY <1>7 DEF advance, ep_then_extend_past
  <2> QED BY <2>1, <2>2, <2>3
<1>13. v.zwj_after_ep <=> v.prev = "Zwj" /\ n + 1 > 1 /\ Pictured(u, n)
  <2>1. n # 0 => (Pictured(u, n) <=> Pictured(t, n))
    <3>1. n # 0 => n \in 1 .. Len(t)
      BY <1>1, <1>4
    <3> QED BY <1>1, <1>4, <3>1, PicturedStays
  <2>2. s.ep_then_extend <=> n # 0 /\ Pictured(t, n)
    BY <1>1, <1>4, <1>8 DEF IInv, Carried, Scan, Fresh
  <2>3. (v.zwj_after_ep <=> ~ep /\ g = "Zwj" /\ s.ep_then_extend) /\ v.prev = g
    BY <1>7 DEF advance, ep_then_extend_past
  <2>4. n + 1 > 1 <=> n # 0
    BY <1>4
  <2> QED BY <1>6, <2>1, <2>2, <2>3, <2>4
<1>14. v.incb_run <=> Conjunct(u, n + 1)
  <2>1. Conjunct(u, n + 1) <=> ci = "Consonant" \/ (ci \in {"Extend", "Linker"} /\ n # 0 /\ Conjunct(t, n))
    BY <1>1, <1>2, <1>4, ConjunctGrows
  <2>2. s.incb_run <=> n # 0 /\ Conjunct(t, n)
    BY <1>1, <1>4, <1>8 DEF IInv, Carried, Scan, Fresh
  <2>3. v.incb_run <=> ci = "Consonant" \/ (ci # NoValue /\ s.incb_run)
    BY <1>7 DEF advance, ep_then_extend_past
  <2>4. ci # NoValue => ci \in {"Consonant", "Extend", "Linker"}
    BY <1>6 DEF Incb
  <2>5. ci \in {"Extend", "Linker"} => ci # NoValue
    BY NoValueApart DEF Incb
  <2> QED BY <2>1, <2>2, <2>3, <2>4, <2>5
<1>15. v.incb_linker <=> Linked(u, n + 1)
  <2>1. Linked(u, n + 1) <=> (ci = "Linker" /\ n # 0 /\ Conjunct(t, n)) \/ (ci = "Extend" /\ n # 0 /\ Linked(t, n))
    BY <1>1, <1>2, <1>4, LinkedGrows
  <2>2. s.incb_run <=> n # 0 /\ Conjunct(t, n)
    BY <1>1, <1>4, <1>8 DEF IInv, Carried, Scan, Fresh
  <2>3. s.incb_linker <=> n # 0 /\ Linked(t, n)
    BY <1>1, <1>4, <1>8 DEF IInv, Carried, Scan, Fresh
  <2>4. Linked(t, n) => Conjunct(t, n)
    BY DEF Linked, Conjunct
  <2>5. v.incb_linker <=> (ci = "Linker" /\ (s.incb_linker \/ s.incb_run)) \/ (ci = "Extend" /\ s.incb_linker)
    BY <1>7 DEF advance, ep_then_extend_past
  <2> QED BY <2>1, <2>2, <2>3, <2>4, <2>5
<1>16. (n + 1) - 1 = n
  BY <1>4
<1> QED BY <1>3, <1>5, <1>7, <1>9, <1>10, <1>11, <1>12, <1>13, <1>14, <1>15, <1>16 DEF Carried

\* A step of the machine keeps the types.
LEMMA StepTyped ==
  ASSUME IInv, GraphemeNext
  PROVE  TypeOK'
<1>1. CASE \E c \in Scalar : Scan(c)
  <2>1. PICK c \in Scalar : Scan(c)
    BY <1>1
  <2>2. text' \in Seq(Scalar) /\ Len(text') = Len(text) + 1
    BY <2>1, Appended DEF IInv, TypeOK, Scan
  <2>3. state' \in BreakState
    <3>1. PICK g, ep, ci, s : /\ g = gcb(c) /\ ep = is_extended_pictographic(c) /\ ci = incb(c) /\ s = state
      OBVIOUS
    <3>2. g \in Gcb /\ ep \in BOOLEAN /\ s \in BreakState
      BY <3>1, GcbTyped, PictTyped DEF IInv, TypeOK
    <3>3. advance(s, g, ep, ci) \in BreakState
      <4>1. /\ s.ri_run \in Nat /\ s.ep_then_extend \in BOOLEAN
            /\ s.incb_run \in BOOLEAN /\ s.incb_linker \in BOOLEAN
        BY <3>2 DEF BreakState
      <4>2. PICK r, p, z, run, link :
              /\ r = IF g # "RegionalIndicator" THEN 0 ELSE IF s.prev = "RegionalIndicator" THEN s.ri_run + 1 ELSE 1
              /\ p = (ep \/ (g = "Extend" /\ s.ep_then_extend))
              /\ z = (~ep /\ g = "Zwj" /\ s.ep_then_extend)
              /\ run = (ci = "Consonant" \/ (ci # NoValue /\ s.incb_run))
              /\ link = CASE ci = "Linker" -> s.incb_linker \/ s.incb_run
                          [] ci = "Extend" -> s.incb_linker
                          [] OTHER         -> FALSE
        OBVIOUS
      <4>3. r \in Nat
        BY <4>1, <4>2
      <4>4. p \in BOOLEAN /\ z \in BOOLEAN /\ run \in BOOLEAN
        BY <4>2
      <4>5. link \in BOOLEAN
        BY <4>1, <4>2
      <4>6. advance(s, g, ep, ci) =
              [prev |-> g, ri_run |-> r, ep_then_extend |-> p, zwj_after_ep |-> z, incb_run |-> run, incb_linker |-> link]
        BY <4>2, Zenon DEF advance, ep_then_extend_past
      <4> QED BY <3>2, <4>3, <4>4, <4>5, <4>6 DEF BreakState
    <3> QED BY <2>1, <3>1, <3>3 DEF Scan
  <2>4. start' \in 0 .. Len(text') /\ clusters' \in Seq(Nat \X Nat)
    <3>1. Len(text) \in Nat /\ start \in 0 .. Len(text) /\ clusters \in Seq(Nat \X Nat)
      BY DEF IInv, TypeOK
    <3>2. <<start, Len(text)>> \in Nat \X Nat
      BY <3>1
    <3>3. Append(clusters, <<start, Len(text)>>) \in Seq(Nat \X Nat)
      BY <3>1, <3>2
    <3>4. CASE breaks_before(state, c)
      <4>1. start' = Len(text) /\ clusters' = Append(clusters, <<start, Len(text)>>)
        BY <2>1, <3>4 DEF Scan
      <4> QED BY <2>2, <3>1, <3>3, <4>1
    <3>5. CASE ~breaks_before(state, c)
      <4>1. start' = start /\ clusters' = clusters
        BY <2>1, <3>5 DEF Scan
      <4> QED BY <2>2, <3>1, <4>1
    <3> QED BY <3>4, <3>5
  <2> QED BY <2>1, <2>2, <2>3, <2>4 DEF IInv, TypeOK, Scan
<1>2. CASE End
  <2>1. Len(text) \in Nat /\ start \in 0 .. Len(text) /\ clusters \in Seq(Nat \X Nat)
    BY DEF IInv, TypeOK
  <2>2. <<start, Len(text)>> \in Nat \X Nat
    BY <2>1
  <2>3. Append(clusters, <<start, Len(text)>>) \in Seq(Nat \X Nat)
    BY <2>1, <2>2
  <2>4. clusters' \in Seq(Nat \X Nat)
    BY <1>2, <2>1, <2>3 DEF End
  <2> QED BY <1>2, <2>1, <2>4 DEF IInv, TypeOK, End
<1>3. CASE Begin
  <2>1. text' = <<>> /\ state' = Fresh /\ start' = 0 /\ clusters' = <<>> /\ done' = FALSE
    BY <1>3 DEF Begin
  <2>2. Fresh \in BreakState
    BY DEF Fresh, BreakState
  <2>3. <<>> \in Seq(Scalar) /\ <<>> \in Seq(Nat \X Nat)
    OBVIOUS
  <2>4. 0 \in 0 .. Len(text') /\ FALSE \in BOOLEAN
    BY <2>1
  <2>5. text' \in Seq(Scalar) /\ clusters' \in Seq(Nat \X Nat)
    BY <2>1, <2>3
  <2>6. start' \in 0 .. Len(text') /\ done' \in BOOLEAN
    BY <2>1, <2>4
  <2> QED BY <2>1, <2>2, <2>5, <2>6 DEF TypeOK
<1> QED BY <1>1, <1>2, <1>3 DEF GraphemeNext

\* One more cluster is closed, and the others are as they were.
LEMMA Closing ==
  ASSUME NEW cs \in Seq(Nat \X Nat), NEW e \in Nat \X Nat
  PROVE  /\ Append(cs, e) \in Seq(Nat \X Nat) /\ Len(Append(cs, e)) = Len(cs) + 1
         /\ DOMAIN Append(cs, e) = 1 .. Len(cs) + 1 /\ DOMAIN cs = 1 .. Len(cs) /\ Len(cs) \in Nat
         /\ Append(cs, e)[Len(cs) + 1] = e
         /\ \A k \in DOMAIN cs : Append(cs, e)[k] = cs[k]
         /\ Append(cs, e) # <<>>
<1>1. Append(cs, e) \in Seq(Nat \X Nat) /\ Len(Append(cs, e)) = Len(cs) + 1 /\ Len(cs) \in Nat
  OBVIOUS
<1>2. DOMAIN Append(cs, e) = 1 .. Len(cs) + 1 /\ DOMAIN cs = 1 .. Len(cs)
  BY <1>1
<1>3. Append(cs, e)[Len(cs) + 1] = e /\ \A k \in 1 .. Len(cs) : Append(cs, e)[k] = cs[k]
  OBVIOUS
<1>4. Append(cs, e) # <<>>
  <2>1. SUFFICES ASSUME Append(cs, e) = <<>> PROVE FALSE
    OBVIOUS
  <2>2. Len(Append(cs, e)) = 0
    BY <2>1
  <2> QED BY <1>1, <2>2
<1> QED BY <1>1, <1>2, <1>3, <1>4

\* Clusters that follow each other from the start of the text to a place in it.
InLine(cs, to) ==
  /\ \A k \in DOMAIN cs : cs[k][1] < cs[k][2]
  /\ \A k \in DOMAIN cs : cs[k][1] = IF k = 1 THEN 0 ELSE cs[k - 1][2]
  /\ cs = <<>> => to = 0
  /\ cs # <<>> => cs[Len(cs)][2] = to

\* Closing the cluster that is accumulated keeps the clusters in line.
LEMMA TileGrows ==
  ASSUME NEW cs \in Seq(Nat \X Nat), NEW from \in Nat, NEW to \in Nat, from < to, InLine(cs, from),
         NEW ds, ds = Append(cs, <<from, to>>)
  PROVE  InLine(ds, to) /\ ds # <<>>
<1>1. PICK e, n : e = <<from, to>> /\ n = Len(cs)
  OBVIOUS
<1>2. e \in Nat \X Nat /\ e[1] = from /\ e[2] = to
  BY <1>1
<1>3. /\ DOMAIN ds = 1 .. n + 1 /\ DOMAIN cs = 1 .. n /\ n \in Nat /\ Len(ds) = n + 1
      /\ ds[n + 1] = e /\ ds # <<>> /\ \A k \in 1 .. n : ds[k] = cs[k]
  BY SMTT(30), <1>1, <1>2, Closing
<1>4. cs = <<>> <=> n = 0
  BY <1>1
<1>5. ASSUME NEW k \in 1 .. n + 1
      PROVE  ds[k][1] < ds[k][2] /\ ds[k][1] = IF k = 1 THEN 0 ELSE ds[k - 1][2]
  <2>1. CASE k = n + 1
    <3>1. n # 0 => n \in 1 .. n /\ k - 1 = n /\ k # 1
      BY <1>3, <2>1
    <3>2. n = 0 => k = 1
      BY <2>1
    <3> QED BY <1>1, <1>2, <1>3, <1>4, <2>1, <3>1, <3>2 DEF InLine
  <2>2. CASE k # n + 1
    <3>1. k \in 1 .. n /\ (k # 1 => k - 1 \in 1 .. n)
      BY <1>3, <2>2
    <3> QED BY <1>3, <3>1 DEF InLine
  <2> QED BY <2>1, <2>2
<1> QED BY <1>2, <1>3, <1>5 DEF InLine

\* A step of the machine keeps what it says of the clusters.
LEMMA TakeKeeps ==
  ASSUME IInv, TypeOK', NEW c \in Scalar, Scan(c)
  PROVE  IInv'
<1>1. PICK t, n, u : t = text /\ n = Len(text) /\ u = Append(text, c)
  OBVIOUS
<1>2. PICK cs, from : cs = clusters /\ from = start
  OBVIOUS
<1>3. ~done /\ ~done' /\ text' = u /\ n \in Nat /\ t \in Seq(Scalar) /\ cs \in Seq(Nat \X Nat) /\ from \in 0 .. n
  BY <1>1, <1>2 DEF Scan, IInv, TypeOK
<1>4. Len(u) = n + 1 /\ (t = <<>> <=> n = 0)
  BY <1>1, <1>3, Appended
<1>5. Carried'
  BY TakeCarries
<1>6. n = 0 => ~breaks_before(state, c)
  BY <1>1, <1>3, <1>4 DEF IInv, Carried, breaks_before, Fresh
<1>7. n # 0 => (breaks_before(state, c) <=> ~Joined(u, n))
  BY <1>1, <1>3, <1>4, BreakIsApart
<1>8. \A i \in 1 .. n - 1 : (\E k \in DOMAIN cs : cs[k][2] = i) <=> ~Joined(u, i)
  <2>1. \A i \in 1 .. n - 1 : Joined(u, i) <=> Joined(t, i)
    BY <1>1, <1>3, JoinedStays
  <2> QED BY <1>1, <1>2, <1>3, <2>1 DEF IInv, Closed
<1>9. \A k \in DOMAIN cs : cs[k][2] \in 1 .. n /\ cs[k][2] < n
  BY <1>1, <1>2, <1>3 DEF IInv, Within
<1>10. InLine(cs, from)
  BY <1>2, <1>3 DEF IInv, Tile, InLine
<1>11. n # 0 => from < n
  BY <1>1, <1>2, <1>3, <1>4 DEF IInv, Open
<1>12. CASE breaks_before(state, c)
  <2>1. PICK ds : ds = Append(cs, <<from, n>>)
    OBVIOUS
  <2>2. clusters' = ds /\ start' = n
    BY <1>1, <1>2, <1>12, <2>1 DEF Scan
  <2>3. n # 0 /\ from < n /\ from \in Nat
    BY <1>3, <1>6, <1>11, <1>12
  <2>4. InLine(ds, n) /\ ds # <<>>
    BY <1>3, <1>10, <2>1, <2>3, TileGrows
  <2>5. Tile'
    BY <1>3, <2>2, <2>4 DEF Tile, InLine
  <2>6. /\ DOMAIN ds = 1 .. Len(cs) + 1 /\ DOMAIN cs = 1 .. Len(cs) /\ Len(cs) \in Nat
        /\ ds[Len(cs) + 1] = <<from, n>> /\ \A k \in DOMAIN cs : ds[k] = cs[k]
    <3>1. <<from, n>> \in Nat \X Nat
      BY <1>3, <2>3
    <3> QED BY <1>3, <2>1, <3>1, Closing
  <2>7. ds[Len(cs) + 1][2] = n /\ Len(cs) + 1 \in DOMAIN ds
    BY <2>6
  <2>8. \A k \in DOMAIN ds : k = Len(cs) + 1 \/ k \in DOMAIN cs
    BY <2>6
  <2>9. \A k \in DOMAIN ds : ds[k][2] \in 1 .. n
    <3>1. SUFFICES ASSUME NEW k \in DOMAIN ds PROVE ds[k][2] \in 1 .. n
      OBVIOUS
    <3>2. CASE k = Len(cs) + 1
      BY <1>3, <2>3, <2>7, <3>2
    <3>3. CASE k \in DOMAIN cs
      BY <1>9, <2>6, <3>3
    <3> QED BY <2>8, <3>2, <3>3
  <2>10. Within'
    <3>1. \A k \in DOMAIN ds : ds[k][2] \in 1 .. n + 1 /\ ds[k][2] < n + 1
      BY <1>3, <2>9
    <3> QED BY <1>3, <1>4, <2>2, <3>1 DEF Within
  <2>11. \A i \in 1 .. n : (\E k \in DOMAIN ds : ds[k][2] = i) <=> ~Joined(u, i)
    <3>1. SUFFICES ASSUME NEW i \in 1 .. n PROVE (\E k \in DOMAIN ds : ds[k][2] = i) <=> ~Joined(u, i)
      OBVIOUS
    <3>2. CASE i = n
      BY <1>7, <1>12, <2>3, <2>7, <3>2
    <3>3. CASE i # n
      <4>1. i \in 1 .. n - 1
        BY <1>3, <3>3
      <4>2. (\E k \in DOMAIN ds : ds[k][2] = i) => \E k \in DOMAIN cs : cs[k][2] = i
        BY <2>6, <2>7, <2>8, <3>3
      <4>3. (\E k \in DOMAIN cs : cs[k][2] = i) => \E k \in DOMAIN ds : ds[k][2] = i
        BY <2>6
      <4> QED BY <1>8, <4>1, <4>2, <4>3
    <3> QED BY <3>2, <3>3
  <2>12. Closed'
    <3>1. (n + 1) - 1 = n
      BY <1>3
    <3> QED BY <1>3, <1>4, <2>2, <2>11, <3>1 DEF Closed
  <2>13. Open'
    BY <1>3, <1>4, <2>2 DEF Open
  <2> QED BY <1>5, <2>5, <2>10, <2>12, <2>13 DEF IInv
<1>13. CASE ~breaks_before(state, c)
  <2>1. clusters' = cs /\ start' = from
    BY <1>2, <1>13 DEF Scan
  <2>2. Tile'
    BY <1>3, <1>10, <2>1 DEF Tile, InLine
  <2>3. Within'
    <3>1. \A k \in DOMAIN cs : cs[k][2] \in 1 .. n + 1 /\ cs[k][2] < n + 1
      BY <1>3, <1>9
    <3> QED BY <1>3, <1>4, <2>1, <3>1 DEF Within
  <2>4. \A i \in 1 .. n : (\E k \in DOMAIN cs : cs[k][2] = i) <=> ~Joined(u, i)
    <3>1. SUFFICES ASSUME NEW i \in 1 .. n PROVE (\E k \in DOMAIN cs : cs[k][2] = i) <=> ~Joined(u, i)
      OBVIOUS
    <3>2. CASE i = n
      <4>1. Joined(u, n)
        BY <1>7, <1>13, <3>1, <3>2
      <4>2. ~\E k \in DOMAIN cs : cs[k][2] = n
        BY <1>3, <1>9
      <4> QED BY <3>2, <4>1, <4>2
    <3>3. CASE i # n
      <4>1. i \in 1 .. n - 1
        BY <1>3, <3>3
      <4> QED BY <1>8, <4>1
    <3> QED BY <3>2, <3>3
  <2>5. Closed'
    <3>1. (n + 1) - 1 = n
      BY <1>3
    <3> QED BY <1>3, <1>4, <2>1, <2>4, <3>1 DEF Closed
  <2>6. Open'
    BY <1>3, <1>4, <2>1 DEF Open
  <2> QED BY <1>5, <2>2, <2>3, <2>5, <2>6 DEF IInv
<1> QED BY <1>12, <1>13

\* The end of a text closes its last cluster.
LEMMA EndKeeps ==
  ASSUME IInv, TypeOK', End
  PROVE  IInv'
<1>1. PICK t, n, cs, from : t = text /\ n = Len(text) /\ cs = clusters /\ from = start
  OBVIOUS
<1>2. /\ ~done /\ done' /\ text' = t /\ start' = from /\ n \in Nat /\ cs \in Seq(Nat \X Nat)
      /\ from \in 0 .. n /\ (t = <<>> <=> n = 0) /\ t \in Seq(Scalar)
  BY <1>1 DEF End, IInv, TypeOK
<1>3. InLine(cs, from)
  BY <1>1, <1>2 DEF IInv, Tile, InLine
<1>4. \A k \in DOMAIN cs : cs[k][2] \in 1 .. n /\ cs[k][2] < n
  BY <1>1, <1>2 DEF IInv, Within
<1>5. \A i \in 1 .. n - 1 : (\E k \in DOMAIN cs : cs[k][2] = i) <=> ~Joined(t, i)
  BY <1>1 DEF IInv, Closed
<1>6. Open'
  BY <1>2 DEF Open
<1>7. CASE n = 0
  <2>1. from = 0 /\ ~(from < n) /\ clusters' = cs
    BY <1>1, <1>2, <1>7 DEF End
  <2>2. cs = <<>>
    <3>1. SUFFICES ASSUME cs # <<>> PROVE FALSE
      OBVIOUS
    <3>2. Len(cs) \in DOMAIN cs
      BY <1>2, <3>1
    <3> QED BY <1>4, <1>7, <3>2
  <2>3. DOMAIN cs = {}
    BY <2>2
  <2>4. Tile'
    BY <1>2, <2>1, <2>2, <2>3 DEF Tile
  <2>5. Closed' /\ Within'
    BY <1>1, <1>2, <1>4, <1>5, <1>7, <2>1, <2>3 DEF Closed, Within
  <2> QED BY <1>2, <1>6, <2>4, <2>5 DEF IInv
<1>8. CASE n # 0
  <2>1. from < n /\ from \in Nat
    BY <1>1, <1>2, <1>8 DEF IInv, Open
  <2>2. PICK ds : ds = Append(cs, <<from, n>>)
    OBVIOUS
  <2>3. clusters' = ds
    BY <1>1, <2>1, <2>2 DEF End
  <2>4. InLine(ds, n) /\ ds # <<>>
    BY <1>2, <1>3, <2>1, <2>2, TileGrows
  <2>5. Tile'
    BY <1>1, <1>2, <2>3, <2>4 DEF Tile, InLine
  <2>6. /\ DOMAIN ds = 1 .. Len(cs) + 1 /\ DOMAIN cs = 1 .. Len(cs) /\ Len(cs) \in Nat
        /\ ds[Len(cs) + 1] = <<from, n>> /\ \A k \in DOMAIN cs : ds[k] = cs[k]
    <3>1. <<from, n>> \in Nat \X Nat
      BY <1>2, <2>1
    <3> QED BY <1>2, <2>2, <3>1, Closing
  <2>7. ds[Len(cs) + 1][2] = n /\ Len(cs) + 1 \in DOMAIN ds
    BY <2>6
  <2>8. \A k \in DOMAIN ds : k = Len(cs) + 1 \/ k \in DOMAIN cs
    BY <2>6
  <2>9. \A k \in DOMAIN ds : ds[k][2] \in 1 .. n
    <3>1. SUFFICES ASSUME NEW k \in DOMAIN ds PROVE ds[k][2] \in 1 .. n
      OBVIOUS
    <3>2. CASE k = Len(cs) + 1
      BY <1>2, <1>8, <2>7, <3>2
    <3>3. CASE k \in DOMAIN cs
      BY <1>4, <2>6, <3>3
    <3> QED BY <2>8, <3>2, <3>3
  <2>10. Within'
    BY <1>1, <1>2, <2>3, <2>9 DEF Within
  <2>11. \A i \in 1 .. n - 1 : (\E k \in DOMAIN ds : ds[k][2] = i) <=> ~Joined(t, i)
    <3>1. SUFFICES ASSUME NEW i \in 1 .. n - 1 PROVE (\E k \in DOMAIN ds : ds[k][2] = i) <=> ~Joined(t, i)
      OBVIOUS
    <3>2. i # n
      BY <1>2
    <3>3. (\E k \in DOMAIN ds : ds[k][2] = i) => \E k \in DOMAIN cs : cs[k][2] = i
      BY <2>6, <2>7, <2>8, <3>2
    <3>4. (\E k \in DOMAIN cs : cs[k][2] = i) => \E k \in DOMAIN ds : ds[k][2] = i
      BY <2>6
    <3> QED BY <1>5, <3>3, <3>4
  <2>12. Closed'
    BY <1>1, <1>2, <2>3, <2>11 DEF Closed
  <2> QED BY <1>2, <1>6, <2>5, <2>10, <2>12 DEF IInv
<1> QED BY <1>7, <1>8

\* A text that begins has no clusters and nothing to carry.
LEMMA BeginKeeps ==
  ASSUME text' = <<>>, state' = Fresh, start' = 0, clusters' = <<>>, done' = FALSE, TypeOK'
  PROVE  IInv'
<1>1. Len(text') = 0 /\ DOMAIN clusters' = {}
  OBVIOUS
<1>2. Carried'
  BY DEF Carried
<1>3. Tile'
  BY <1>1 DEF Tile
<1>4. Closed' /\ Within' /\ Open'
  BY <1>1 DEF Closed, Within, Open
<1> QED BY <1>2, <1>3, <1>4 DEF IInv

\* Reading a text begins with the invariant.
LEMMA GraphemeInitInv == GraphemeInit => IInv
<1> SUFFICES ASSUME GraphemeInit PROVE IInv
  OBVIOUS
<1>1. text = <<>> /\ state = Fresh /\ start = 0 /\ clusters = <<>> /\ done = FALSE
  BY DEF GraphemeInit
<1>2. Fresh \in BreakState
  BY DEF Fresh, BreakState
<1>3. <<>> \in Seq(Scalar) /\ <<>> \in Seq(Nat \X Nat)
  OBVIOUS
<1>4. Len(text) = 0 /\ DOMAIN clusters = {}
  BY <1>1
<1>5. text \in Seq(Scalar) /\ clusters \in Seq(Nat \X Nat)
  BY <1>1, <1>3
<1>6. start \in 0 .. Len(text)
  BY <1>1, <1>4
<1>7. done \in BOOLEAN
  BY <1>1
<1>8. TypeOK
  BY <1>1, <1>2, <1>5, <1>6, <1>7 DEF TypeOK
<1>9. Carried
  BY <1>1 DEF Carried
<1>10. Tile /\ Closed /\ Within /\ Open
  BY <1>1, <1>4 DEF Tile, Closed, Within, Open
<1> QED BY <1>8, <1>9, <1>10 DEF IInv

\* Every step keeps it.
LEMMA GraphemeStep == IInv /\ [GraphemeNext]_graphemeVars => IInv'
<1> SUFFICES ASSUME IInv, [GraphemeNext]_graphemeVars PROVE IInv'
  OBVIOUS
<1>1. CASE GraphemeNext
  <2>1. TypeOK'
    BY <1>1, StepTyped
  <2>2. ASSUME NEW c \in Scalar, Scan(c) PROVE IInv'
    BY <2>1, <2>2, TakeKeeps
  <2>3. ASSUME End PROVE IInv'
    BY <2>1, <2>3, EndKeeps
  <2>4. ASSUME Begin PROVE IInv'
    BY <2>1, <2>4, BeginKeeps DEF Begin
  <2> QED BY <1>1, <2>2, <2>3, <2>4 DEF GraphemeNext
<1>2. CASE UNCHANGED graphemeVars
  BY <1>2 DEF graphemeVars, IInv, TypeOK, Carried, Tile, Closed, Within, Open
<1> QED BY <1>1, <1>2

\* The ends of the clusters that are closed, with both ends of the text, are
\* the boundaries of the rules.
LEMMA EdgesAreBoundaries == IInv => BreaksAsTheRulesSay
<1> SUFFICES ASSUME IInv PROVE BreaksAsTheRulesSay
  OBVIOUS
<1>1. PICK n : n = Len(text) /\ n \in Nat
  BY DEF IInv, TypeOK
<1>2. ASSUME NEW k \in DOMAIN clusters PROVE clusters[k][2] \in Boundaries(text)
  <2>1. PICK i : i = clusters[k][2] /\ i \in 1 .. n
    BY <1>1 DEF IInv, Within
  <2>2. CASE i = n
    BY <1>1, <2>1, <2>2 DEF Boundaries
  <2>3. CASE i # n
    <3>1. i \in 1 .. n - 1
      BY <1>1, <2>1, <2>3
    <3> QED BY <1>1, <2>1, <3>1 DEF Boundaries, IInv, Closed
  <2> QED BY <2>2, <2>3
<1>3. ASSUME NEW i \in Boundaries(text)
      PROVE  i \in {clusters[k][2] : k \in DOMAIN clusters} \cup {0, Len(text)}
  BY <1>1 DEF Boundaries, IInv, Closed
<1>4. {0, Len(text)} \subseteq Boundaries(text)
  BY DEF Boundaries
<1>5. {clusters[k][2] : k \in DOMAIN clusters} \cup {0, Len(text)} = Boundaries(text)
  BY <1>2, <1>3, <1>4
<1> QED BY <1>5 DEF BreaksAsTheRulesSay, IInv

\* Whatever the tables and the text, the clusters that are yielded are the ones
\* of the rules GB3 to GB999, and leave no scalar out.
THEOREM BreaksHold == GraphemeSpec => []BreaksAsTheRulesSay
<1>1. GraphemeSpec => []IInv
  BY GraphemeInitInv, GraphemeStep, PTL DEF GraphemeSpec
<1> QED BY <1>1, EdgesAreBoundaries, PTL
-----------------------------------------------------------------------------
(* What moves: the invariant.                                              *)

Strengths == 0 .. Fade

Bars == {bar \in Seq(Nat) : Len(bar) <= MAX_CHANNELS}

MovingTypeOK ==
  /\ now \in Nat
  /\ live \in SUBSET Row
  /\ bars \in [Row -> Bars]
  /\ crest \in [Row -> Seq(Nat)]
  /\ last_step \in Nat \cup {Never} /\ meters_due \in Nat \cup {Never}
  /\ pointed \in Row \cup {Nobody}
  /\ DOMAIN rings \in SUBSET Row /\ rings \in [DOMAIN rings -> Strengths]
  /\ ring_clock \in Nat \cup {Never} /\ mark_clock \in Nat \cup {Never}
  /\ mark \in 0 .. Mark
  /\ fades \in [going : BOOLEAN, lit : Row \cup {Nobody}, at : Nat]
  /\ begun \in [Row -> [value : Strengths, at : Nat]]
  /\ struck \in Nat

\* Bars that are up fall a whole interval after they last did.
DueAfterStep ==
  /\ last_step # Never => last_step <= now
  /\ \A r \in Row : bars[r] # <<>> => last_step # Never
  /\ (\E r \in Row : Up(bars[r])) => meters_due # Never /\ meters_due >= last_step + Interval

\* A clock runs while what it times does, from when that was last stepped.
ClocksRun ==
  /\ fades.at <= now /\ struck <= fades.at
  /\ \A r \in Row : begun[r].at <= fades.at
  /\ ring_clock = (IF Under(fades.lit) THEN fades.at ELSE Never)
  /\ IF mark_clock = Never THEN mark \in {0, Mark} ELSE mark_clock = fades.at

MovingIInv == MovingTypeOK /\ DueAfterStep /\ ClocksRun /\ BarsFollowTime /\ FadesFollowTime /\ StillIsDone

-----------------------------------------------------------------------------
(* The ladder.                                                             *)

\* Whatever the height and the level, up to as many bars as there are channels.
LEMMA LadderWhole ==
  ASSUME NEW height \in Nat \ {0}, NEW level \in Nat, NEW count \in 1 .. MAX_CHANNELS
  PROVE  LadderIsWhole(height, level, count)
<1> DEFINE total == segments_for(height)
           Lit(n) == segment_coverage(lit_fraction(level), total, n)
<1>1. total = (height + 3) \div 4 /\ total \in Nat \ {0} /\ 4 * total < height + 4 /\ height <= 4 * total
  BY DEF segments_for, Larger, CELL_PITCH
<1>2. cell_span(height, 0).bottom = height /\ cell_span(height, total - 1).top = 0
  BY <1>1 DEF cell_span, Larger, CELL_PITCH, CELL_HEIGHT, CELL_GAP
<1>3. segment_tier(total - 1, total) = 3
  <2> HIDE DEF total
  <2> QED BY <1>1 DEF segment_tier
<1>4. \A n \in 0 .. total - 1 : cell_span(height, n).bottom - cell_span(height, n).top \in 1 .. CELL_PITCH
  BY <1>1 DEF cell_span, Larger, CELL_PITCH, CELL_HEIGHT, CELL_GAP
<1>5. ASSUME NEW n \in 1 .. total - 1
      PROVE  cell_span(height, n).bottom = cell_span(height, n - 1).top - CELL_GAP
  BY <1>1 DEF cell_span, Larger, CELL_PITCH, CELL_HEIGHT, CELL_GAP
<1>6. ASSUME NEW n \in 1 .. total - 1, Lit(n) > 0
      PROVE  Lit(n - 1) = Top
  <2> DEFINE lit == lit_fraction(level) * total
  <2>1. Top \in Nat \ {0}
    BY PaceAssumption
  <2>2. lit_fraction(level) \in Nat
    BY <2>1 DEF lit_fraction, Between
  <2>3. lit \in Int
    BY <1>1, <2>2
  <2>4. n * Top \in Int /\ (n - 1) * Top = n * Top - Top
    BY <2>1
  <2> HIDE DEF lit, total
  <2>5. lit - n * Top > 0
    BY <1>6, <2>1, <2>3, <2>4 DEF segment_coverage, Between, lit
  <2> QED BY <2>1, <2>3, <2>4, <2>5 DEF segment_coverage, Between, lit
<1>7. PICK width \in Nat \ {0} : /\ count * width + count - 1 <= METER_WIDTH
                             /\ \A n : bar_span(count, n) = [left |-> n * (width + 1), right |-> n * (width + 1) + width]
  <2>1. (METER_WIDTH - (count - 1)) \div count \in 1 .. 18 /\ count * ((METER_WIDTH - (count - 1)) \div count) <= METER_WIDTH - (count - 1)
    BY DEF MAX_CHANNELS, METER_WIDTH
  <2> QED BY <2>1 DEF bar_span, Larger, METER_WIDTH
<1>8. ASSUME NEW n \in 0 .. count - 1
      PROVE  bar_span(count, n).right \in 1 .. METER_WIDTH
  <2>1. bar_span(count, n).right = n * width + n + width
    BY <1>7
  <2>2. (count - 1) * width = count * width - width
    BY <1>7
  <2>3. n * width \in Nat /\ (count - 1 - n) * width \in Nat /\ (count - 1) * width = n * width + (count - 1 - n) * width
    BY <1>7
  <2> QED BY <1>7, <2>1, <2>2, <2>3 DEF METER_WIDTH
<1>9. ASSUME NEW n \in 1 .. count - 1
      PROVE  bar_span(count, n).left = bar_span(count, n - 1).right + 1
  <2>1. n * (width + 1) = (n - 1) * (width + 1) + (width + 1)
    BY <1>7
  <2> QED BY <1>7, <2>1
<1> QED BY <1>2, <1>3, <1>4, <1>5, <1>6, <1>8, <1>9 DEF LadderIsWhole

\* So the ladders that are drawn are.
LEMMA LaddersWhole == MovingTypeOK => LaddersAreWhole
<1> SUFFICES ASSUME MovingTypeOK, NEW r \in Row, NEW height \in Height, NEW level \in Levels(bars[r])
             PROVE  LadderIsWhole(height, level, bar_count(bars[r]))
  BY DEF LaddersAreWhole, MovingTypeOK
<1>1. bars[r] \in Seq(Nat) /\ Len(bars[r]) \in Nat /\ Len(bars[r]) <= MAX_CHANNELS
  BY DEF MovingTypeOK, Bars
<1>2. bar_count(bars[r]) \in 1 .. MAX_CHANNELS
  <2>1. bars[r] # <<>> => Len(bars[r]) # 0
    BY <1>1
  <2>2. bar_count(bars[r]) = 2 \/ (bars[r] # <<>> /\ bar_count(bars[r]) = Len(bars[r]))
    BY DEF bar_count, ASSUMED_CHANNELS
  <2> QED BY SMTT(30), <1>1, <2>1, <2>2 DEF MAX_CHANNELS
<1>3. level \in Nat
  BY <1>1 DEF Levels
<1>4. height \in Nat \ {0}
  BY HeightAssumption
<1> QED BY <1>2, <1>3, <1>4, LadderWhole


-----------------------------------------------------------------------------
(* The operators.                                                          *)

\* A ring that goes on where it was is as far as the two stretches take it.
LEMMA TowardGoesOn ==
  ASSUME NEW value \in Int, NEW target \in Int, NEW s \in Nat, NEW t \in Nat
  PROVE  Toward(Toward(value, target, s), target, t) = Toward(value, target, s + t)
BY DEF Toward, Larger, Smaller

\* One that is where it is going stays.
LEMMA TowardStays ==
  ASSUME NEW target \in Int, NEW s \in Nat
  PROVE  Toward(target, target, s) = target
BY DEF Toward, Larger

\* And none is stronger than full.
LEMMA TowardTyped ==
  ASSUME NEW value \in Strengths, NEW target \in Strengths, NEW s \in Nat
  PROVE  Toward(value, target, s) \in Strengths
BY PaceAssumption DEF Toward, Larger, Smaller, Strengths

\* What a ring goes to is a strength.
LEMMA FullTyped == ASSUME NEW r, NEW lit PROVE Full(r, lit) \in Strengths
BY PaceAssumption DEF Full, Strengths

\* What it stands at is.
LEMMA StrengthTyped == ASSUME MovingTypeOK, NEW r PROVE Strength(r) \in Strengths
BY PaceAssumption DEF MovingTypeOK, Strength, Strengths

\* A row has at most as many bars as there are channels.
LEMMA BarTyped ==
  ASSUME MovingTypeOK, NEW r \in Row
  PROVE  /\ bars[r] \in Seq(Nat) /\ Len(bars[r]) \in Nat /\ Len(bars[r]) <= MAX_CHANNELS
         /\ DOMAIN bars[r] = 1 .. Len(bars[r])
BY DEF MovingTypeOK, Bars

-----------------------------------------------------------------------------
(* Stepping the bars.                                                      *)

\* No clock is ahead.
LEMMA ElapsedTyped ==
  ASSUME MovingTypeOK, NEW clock \in Nat \cup {Never}, clock # Never => clock <= now
  PROVE  Elapsed(clock) \in Nat
BY NeverAssumption DEF MovingTypeOK, Elapsed

\* What has fallen is as many bars, each as much lower as time says.
LEMMA DecayedTyped ==
  ASSUME NEW bar \in Bars, NEW elapsed \in Nat
  PROVE  /\ decayed(bar, elapsed) \in Bars /\ DOMAIN decayed(bar, elapsed) = DOMAIN bar
         /\ \A c \in DOMAIN bar : bar[c] \in Nat /\ decayed(bar, elapsed)[c] = Larger(bar[c] - elapsed, 0)
<1> DEFINE fallen == decayed(bar, elapsed)
<1>1. Len(bar) \in Nat /\ DOMAIN bar = 1 .. Len(bar) /\ \A c \in 1 .. Len(bar) : bar[c] \in Nat
  BY DEF Bars
<1>2. fallen = [c \in 1 .. Len(bar) |-> Larger(bar[c] - elapsed, 0)]
  BY <1>1 DEF decayed
<1>3. \A c \in 1 .. Len(bar) : Larger(bar[c] - elapsed, 0) \in Nat
  BY <1>1 DEF Larger
<1>4. fallen \in Seq(Nat) /\ Len(fallen) = Len(bar)
  BY <1>1, <1>2, <1>3
<1> QED BY <1>1, <1>2, <1>4 DEF Bars

\* What has been read into bars is as many as were read, none lower.
LEMMA FoldTyped ==
  ASSUME NEW bar \in Bars, NEW peaks \in Bars
  PROVE  /\ fold_peaks(bar, peaks) \in Bars /\ DOMAIN fold_peaks(bar, peaks) = DOMAIN peaks
         /\ \A c \in DOMAIN peaks :
              /\ peaks[c] \in Nat
              /\ fold_peaks(bar, peaks)[c] = IF c \in DOMAIN bar THEN Larger(bar[c], peaks[c]) ELSE peaks[c]
<1> DEFINE risen == fold_peaks(bar, peaks)
           Most(c) == IF c \in DOMAIN bar THEN Larger(bar[c], peaks[c]) ELSE peaks[c]
<1>1. Len(peaks) \in Nat /\ DOMAIN peaks = 1 .. Len(peaks) /\ \A c \in 1 .. Len(peaks) : peaks[c] \in Nat
  BY DEF Bars
<1>2. \A c \in DOMAIN bar : bar[c] \in Nat
  BY DEF Bars
<1>3. risen = [c \in 1 .. Len(peaks) |-> Most(c)]
  BY <1>1 DEF fold_peaks
<1>4. \A c \in 1 .. Len(peaks) : Most(c) \in Nat
  BY <1>1, <1>2 DEF Larger
<1>5. risen \in Seq(Nat) /\ Len(risen) = Len(peaks)
  <2> HIDE DEF Most
  <2> QED BY <1>1, <1>3, <1>4
<1> QED BY <1>1, <1>3, <1>5 DEF Bars

\* No bars.
LEMMA NothingIn == ASSUME NEW bar \in Seq(Nat), DOMAIN bar = {} PROVE bar = <<>>
<1>1. Len(bar) \in Nat /\ DOMAIN bar = 1 .. Len(bar)
  OBVIOUS
<1>2. Len(bar) = 0
  BY <1>1
<1> QED BY <1>2

\* What is read can be shown.
LEMMA PeaksTyped == Peaks \subseteq Bars
BY PeaksAssumption DEF Bars

\* What a bar shows after a step, of what it showed and of what it read.
LEMMA SteppedIs ==
  ASSUME MovingTypeOK, DueAfterStep, NEW bar \in Bars, NEW peaks \in Peaks
  PROVE  /\ Elapsed(last_step) \in Nat /\ peaks \in Bars
         /\ Stepped(bar, peaks) \in Bars
         /\ peaks = <<>> => Stepped(bar, peaks) = decayed(bar, Elapsed(last_step))
         /\ peaks # <<>> => Stepped(bar, peaks) = fold_peaks(decayed(bar, Elapsed(last_step)), peaks)
<1>1. Elapsed(last_step) \in Nat
  BY ElapsedTyped DEF MovingTypeOK, DueAfterStep
<1>2. peaks \in Bars
  BY PeaksTyped
<1>3. decayed(bar, Elapsed(last_step)) \in Bars
  BY <1>1, DecayedTyped
<1>4. fold_peaks(decayed(bar, Elapsed(last_step)), peaks) \in Bars
  BY <1>2, <1>3, FoldTyped
<1> QED BY <1>1, <1>2, <1>3, <1>4 DEF Stepped

\* A step keeps what a bar shows: the most it has read, fallen since.
LEMMA StepFollows ==
  ASSUME MovingTypeOK, DueAfterStep, BarsFollowTime, NEW r \in Row, NEW peaks \in Peaks
  PROVE  LET bar == Stepped(bars[r], peaks)
             most == Crests(crest[r], peaks)
         IN /\ most \in Seq(Nat) /\ DOMAIN bar = DOMAIN most
            /\ \A c \in DOMAIN bar : bar[c] = Larger(most[c] - now, 0)
<1> DEFINE elapsed == Elapsed(last_step)
           fallen == decayed(bars[r], elapsed)
           most == Crests(crest[r], peaks)
<1>1. now \in Nat /\ bars[r] \in Bars /\ crest[r] \in Seq(Nat) /\ DOMAIN bars[r] = DOMAIN crest[r]
  BY DEF MovingTypeOK, BarsFollowTime
<1>2. /\ elapsed \in Nat /\ peaks \in Bars
      /\ peaks = <<>> => Stepped(bars[r], peaks) = fallen
      /\ peaks # <<>> => Stepped(bars[r], peaks) = fold_peaks(fallen, peaks)
  BY <1>1, SteppedIs
<1>3. fallen \in Bars /\ DOMAIN fallen = DOMAIN bars[r]
  BY <1>1, <1>2, DecayedTyped
<1>4. \A c \in DOMAIN crest[r] : crest[r][c] \in Nat
  BY <1>1
<1>5. ASSUME NEW c \in DOMAIN bars[r]
      PROVE  fallen[c] = Larger(crest[r][c] - now, 0)
  <2>1. bars[r] # <<>>
    BY <1>1, <1>5
  <2>2. last_step \in Nat /\ last_step <= now /\ elapsed = now - last_step
    BY <2>1, NeverAssumption DEF MovingTypeOK, DueAfterStep, Elapsed
  <2>3. bars[r][c] = Larger(crest[r][c] - last_step, 0) /\ crest[r][c] \in Nat
    BY <1>1, <1>4, <1>5 DEF BarsFollowTime
  <2>4. fallen[c] = Larger(bars[r][c] - elapsed, 0)
    BY <1>1, <1>2, DecayedTyped
  <2> QED BY SMTT(30), <1>1, <2>2, <2>3, <2>4 DEF Larger
<1>6. CASE peaks = <<>>
  BY <1>1, <1>2, <1>3, <1>5, <1>6 DEF Crests
<1>7. CASE peaks # <<>>
  <2> DEFINE Most(c) == IF c \in DOMAIN crest[r] THEN Larger(crest[r][c], peaks[c] + now) ELSE peaks[c] + now
  <2>1. Len(peaks) \in Nat /\ DOMAIN peaks = 1 .. Len(peaks) /\ \A c \in DOMAIN peaks : peaks[c] \in Nat
    BY <1>2 DEF Bars
  <2>2. most = [c \in 1 .. Len(peaks) |-> Most(c)]
    BY <1>7, <2>1 DEF Crests
  <2>3. \A c \in 1 .. Len(peaks) : Most(c) \in Nat
    BY <1>1, <1>4, <2>1 DEF Larger
  <2>4. most \in Seq(Nat) /\ DOMAIN most = DOMAIN peaks
    <3> HIDE DEF Most
    <3> QED BY <2>1, <2>2, <2>3
  <2>5. /\ DOMAIN Stepped(bars[r], peaks) = DOMAIN peaks
        /\ \A c \in DOMAIN peaks :
             Stepped(bars[r], peaks)[c] = IF c \in DOMAIN fallen THEN Larger(fallen[c], peaks[c]) ELSE peaks[c]
    BY <1>2, <1>3, <1>7, FoldTyped
  <2>6. ASSUME NEW c \in DOMAIN peaks
        PROVE  Stepped(bars[r], peaks)[c] = Larger(most[c] - now, 0)
    <3>1. most[c] = Most(c) /\ peaks[c] \in Nat
      BY <2>1, <2>2
    <3>2. CASE c \in DOMAIN crest[r]
      BY <1>1, <1>3, <1>4, <1>5, <2>5, <3>1, <3>2 DEF Larger
    <3>3. CASE c \notin DOMAIN crest[r]
      BY <1>1, <1>3, <2>5, <3>1, <3>3 DEF Larger
    <3> QED BY <3>2, <3>3
  <2> QED BY <2>4, <2>5, <2>6
<1> QED BY <1>6, <1>7

\* Bars that a step leaves where they were were down, if it was time to step.
LEMMA StepComesDown ==
  ASSUME MovingTypeOK, DueAfterStep, NEW r \in Row, NEW peaks \in Peaks, ~Moves(bars[r], peaks),
         meters_due # Never => now >= meters_due
  PROVE  ~Up(Stepped(bars[r], peaks))
<1> DEFINE elapsed == Elapsed(last_step)
           fallen == decayed(bars[r], elapsed)
<1>1. fallen = bars[r] /\ Stepped(bars[r], peaks) = bars[r]
  BY DEF Moves
<1>2. bars[r] \in Bars
  BY DEF MovingTypeOK
<1> SUFFICES ASSUME NEW c \in DOMAIN bars[r], bars[r][c] > 0
             PROVE  FALSE
  BY <1>1 DEF Up
<1>3. meters_due # Never /\ meters_due >= last_step + Interval /\ bars[r] # <<>>
  BY <1>2 DEF Up, DueAfterStep
<1>4. last_step # Never
  BY <1>3 DEF DueAfterStep
<1>5. now \in Nat /\ last_step \in Nat /\ meters_due \in Nat /\ elapsed = now - last_step /\ last_step <= now
  BY <1>3, <1>4 DEF MovingTypeOK, Elapsed, DueAfterStep
<1>6. elapsed \in Nat \ {0}
  BY <1>3, <1>5, PaceAssumption
<1>7. bars[r][c] \in Nat /\ fallen[c] = Larger(bars[r][c] - elapsed, 0)
  BY <1>2, <1>6, DecayedTyped
<1> QED BY <1>1, <1>6, <1>7 DEF Larger

-----------------------------------------------------------------------------
(* The steps.                                                              *)

\* At the start nothing moves.
LEMMA InitInv == MovingInit => MovingIInv
<1> SUFFICES ASSUME MovingInit PROVE MovingIInv
  OBVIOUS
<1> USE DEF MovingInit
<1>1. <<>> \in Bars /\ <<>> \in Seq(Nat) /\ DOMAIN <<>> = {}
  BY DEF Bars, MAX_CHANNELS
<1>2. MovingTypeOK
  BY <1>1, PaceAssumption DEF MovingTypeOK, Strengths
<1>3. \A r \in Row : bars[r] = <<>> /\ crest[r] = <<>>
  OBVIOUS
<1>4. DueAfterStep /\ BarsFollowTime
  BY <1>1, <1>3 DEF DueAfterStep, BarsFollowTime, Up
<1>5. \A r \in Row : Strength(r) = 0 /\ Full(r, Nobody) = 0
  BY NobodyAssumption DEF Strength, Full
<1>6. ~Under(Nobody)
  BY <1>5 DEF Under
<1>7. ClocksRun /\ StillIsDone
  BY <1>6 DEF ClocksRun, StillIsDone
<1>8. FadesFollowTime
  BY <1>5, TowardStays DEF FadesFollowTime
<1> QED BY <1>2, <1>4, <1>7, <1>8 DEF MovingIInv

\* A step of the bars leaves them where time has taken them, and due.
LEMMA StepMetersKeeps ==
  ASSUME MovingIInv, NEW readings \in [Row -> Peaks], StepMeters(readings),
         meters_due # Never => now >= meters_due
  PROVE  /\ bars' \in [Row -> Bars] /\ crest' \in [Row -> Seq(Nat)] /\ last_step' = now
         /\ meters_due' \in Nat \cup {Never} /\ live' = live
         /\ \A r \in Row : /\ bars'[r] # <<>> => r \in live
                          /\ DOMAIN bars'[r] = DOMAIN crest'[r]
                          /\ \A c \in DOMAIN bars'[r] : bars'[r][c] = Larger(crest'[r][c] - now, 0)
         /\ (\E r \in Row : Up(bars'[r])) => meters_due' # Never /\ meters_due' >= now + Interval
<1> DEFINE heard == [r \in Row |-> IF readings_stale \/ r \notin live THEN <<>> ELSE readings[r]]
<1>1. heard \in [Row -> Peaks]
  BY PeaksAssumption
<1>2. /\ bars' = [r \in Row |-> Stepped(bars[r], heard[r])]
      /\ crest' = [r \in Row |-> Crests(crest[r], heard[r])]
      /\ last_step' = now /\ live' = live
      /\ meters_due' = IF \E r \in Row : Moves(bars[r], heard[r]) THEN now + Interval ELSE Never
  BY DEF StepMeters
<1>3. \A r \in Row : r \notin live => heard[r] = <<>>
  OBVIOUS
<1> HIDE DEF heard
<1>4. now \in Nat /\ Interval \in Nat
  BY PaceAssumption DEF MovingIInv, MovingTypeOK
<1>5. ASSUME NEW r \in Row
      PROVE  /\ bars'[r] \in Bars /\ crest'[r] \in Seq(Nat)
             /\ bars'[r] # <<>> => r \in live
             /\ DOMAIN bars'[r] = DOMAIN crest'[r]
             /\ \A c \in DOMAIN bars'[r] : bars'[r][c] = Larger(crest'[r][c] - now, 0)
  <2>1. bars'[r] = Stepped(bars[r], heard[r]) /\ crest'[r] = Crests(crest[r], heard[r]) /\ heard[r] \in Peaks
    BY <1>1, <1>2
  <2>2. bars[r] \in Bars
    BY DEF MovingIInv, MovingTypeOK
  <2>3. bars'[r] \in Bars
    BY <2>1, <2>2, SteppedIs DEF MovingIInv
  <2>4. ASSUME r \notin live PROVE bars'[r] = <<>>
    <3>1. bars[r] = <<>> /\ heard[r] = <<>>
      BY <1>3, <2>4 DEF MovingIInv, BarsFollowTime
    <3>2. bars'[r] = decayed(bars[r], Elapsed(last_step)) /\ Elapsed(last_step) \in Nat
      BY <2>1, <2>2, <3>1, SteppedIs DEF MovingIInv
    <3>3. bars'[r] \in Seq(Nat) /\ DOMAIN bars'[r] = {}
      <4>1. DOMAIN decayed(bars[r], Elapsed(last_step)) = DOMAIN bars[r]
        BY <2>2, <3>2, DecayedTyped
      <4>2. DOMAIN bars[r] = {}
        BY <3>1
      <4> QED BY <2>3, <3>2, <4>1, <4>2 DEF Bars
    <3> QED BY <3>3, NothingIn
  <2> QED BY <2>1, <2>3, <2>4, StepFollows DEF MovingIInv
<1>6. ASSUME NEW r \in Row, Up(bars'[r])
      PROVE  meters_due' # Never /\ meters_due' >= now + Interval
  <2>1. bars'[r] = Stepped(bars[r], heard[r]) /\ heard[r] \in Peaks
    BY <1>1, <1>2
  <2>2. Moves(bars[r], heard[r])
    BY <1>6, <2>1, StepComesDown DEF MovingIInv
  <2>3. \E s \in Row : Moves(bars[s], heard[s])
    BY <2>2
  <2>4. meters_due' = now + Interval
    BY <1>2, <2>3
  <2> QED BY <1>4, <2>4, NeverAssumption
<1>7. bars' \in [Row -> Bars] /\ crest' \in [Row -> Seq(Nat)]
  BY <1>2, <1>5
<1>8. meters_due' \in Nat \cup {Never}
  BY <1>2, <1>4
<1> QED BY <1>2, <1>5, <1>6, <1>7, <1>8

\* So does a turn, whether it steps them or not.
LEMMA MetersKeep ==
  ASSUME MovingIInv, NEW readings \in [Row -> Peaks],
         IF IF meters_due = Never THEN \E r \in Row : readings[r] # <<>> ELSE now >= meters_due
         THEN StepMeters(readings) ELSE MetersWait,
         now' = now
  PROVE  /\ live' \in SUBSET Row /\ bars' \in [Row -> Bars] /\ crest' \in [Row -> Seq(Nat)]
         /\ last_step' \in Nat \cup {Never} /\ meters_due' \in Nat \cup {Never}
         /\ DueAfterStep' /\ BarsFollowTime'
<1>1. CASE StepMeters(readings) /\ (meters_due # Never => now >= meters_due)
  <2>1. now \in Nat /\ now # Never /\ live \in SUBSET Row
    BY NeverAssumption DEF MovingIInv, MovingTypeOK
  <2>2. /\ bars' \in [Row -> Bars] /\ crest' \in [Row -> Seq(Nat)] /\ last_step' = now
        /\ meters_due' \in Nat \cup {Never} /\ live' = live
        /\ \A r \in Row : /\ bars'[r] # <<>> => r \in live
                         /\ DOMAIN bars'[r] = DOMAIN crest'[r]
                         /\ \A c \in DOMAIN bars'[r] : bars'[r][c] = Larger(crest'[r][c] - now, 0)
        /\ (\E r \in Row : Up(bars'[r])) => meters_due' # Never /\ meters_due' >= now + Interval
    BY <1>1, StepMetersKeeps
  <2>3. DueAfterStep'
    BY <2>1, <2>2 DEF DueAfterStep
  <2>4. BarsFollowTime'
    BY <2>2 DEF BarsFollowTime
  <2> QED BY <2>1, <2>2, <2>3, <2>4
<1>2. CASE MetersWait
  BY <1>2 DEF MetersWait, meterVars, MovingIInv, MovingTypeOK, DueAfterStep, BarsFollowTime
<1> QED BY <1>1, <1>2

\* Dropping rows drops what is known of them.
LEMMA ReprojectKeeps ==
  ASSUME MovingIInv, NEW rows \in SUBSET Row, Reproject(rows)
  PROVE  MovingIInv'
<1>1. <<>> \in Bars /\ <<>> \in Seq(Nat) /\ DOMAIN <<>> = {} /\ ~Up(<<>>)
  BY DEF Bars, MAX_CHANNELS, Up
<1>2. /\ live' = rows /\ now' = now /\ last_step' = last_step /\ meters_due' = meters_due
      /\ UNCHANGED fadeVars
      /\ \A r \in Row : /\ bars'[r] = IF r \in rows THEN bars[r] ELSE <<>>
                       /\ crest'[r] = IF r \in rows THEN crest[r] ELSE <<>>
  BY DEF Reproject
<1>3. bars' \in [Row -> Bars] /\ crest' \in [Row -> Seq(Nat)]
  BY <1>1 DEF Reproject, MovingIInv, MovingTypeOK
<1>4. MovingTypeOK'
  BY <1>2, <1>3 DEF MovingIInv, MovingTypeOK, fadeVars
<1>5. DueAfterStep'
  BY <1>1, <1>2 DEF MovingIInv, DueAfterStep
<1>6. BarsFollowTime'
  BY <1>1, <1>2 DEF MovingIInv, BarsFollowTime
<1>7. ClocksRun' /\ FadesFollowTime' /\ StillIsDone'
  BY <1>2 DEF MovingIInv, ClocksRun, FadesFollowTime, StillIsDone, fadeVars, Under, Strength
<1> QED BY <1>4, <1>5, <1>6, <1>7 DEF MovingIInv

\* A turn of the rings takes each as far as the time since the last.
LEMMA RingsMove ==
  ASSUME MovingIInv, NEW lit \in Row \cup {Nobody}, HaloAdvance(lit)
  PROVE  /\ DOMAIN rings' \in SUBSET Row /\ rings' \in [DOMAIN rings' -> Strengths]
         /\ Elapsed(ring_clock) \in Nat
         /\ \A r \in Row : Strength(r)' = Toward(Strength(r), Full(r, lit), Elapsed(ring_clock))
         /\ ring_clock' = IF \E r \in Row : Strength(r)' # Full(r, lit) THEN now ELSE Never
<1> DEFINE step == Elapsed(ring_clock)
           tracked == DOMAIN rings \cup ({lit} \ {Nobody})
           on(r) == Toward(Strength(r), Full(r, lit), step)
           next == [r \in tracked |-> on(r)]
           kept == {r \in tracked : next[r] > 0 \/ r = lit}
<1>1. DOMAIN rings \in SUBSET Row /\ tracked \in SUBSET Row
  BY DEF MovingIInv, MovingTypeOK
<1>2. step \in Nat
  BY ElapsedTyped DEF MovingIInv, MovingTypeOK, ClocksRun
<1>3. \A r \in Row : on(r) \in Strengths
  BY <1>2, StrengthTyped, FullTyped, TowardTyped DEF MovingIInv
<1>4. rings' = [r \in kept |-> next[r]] /\ ring_clock' = IF \E r \in tracked : next[r] # Full(r, lit) THEN now ELSE Never
  BY DEF HaloAdvance
<1>5. \A r \in tracked : next[r] = on(r)
  OBVIOUS
<1> HIDE DEF next, on, step
<1>6. ASSUME NEW r \in Row \ tracked
      PROVE  on(r) = 0 /\ Full(r, lit) = 0
  <2>1. Strength(r) = 0 /\ Full(r, lit) = 0
    BY <1>6, NobodyAssumption DEF Strength, Full
  <2> QED BY <1>2, <2>1, TowardStays DEF on, step
<1>7. kept \in SUBSET Row /\ DOMAIN rings' = kept
  BY <1>1, <1>4
<1>8. rings' \in [DOMAIN rings' -> Strengths]
  BY <1>1, <1>3, <1>4, <1>5, <1>7
<1>9. ASSUME NEW r \in Row
      PROVE  Strength(r)' = on(r)
  <2>1. on(r) \in Nat
    BY <1>3, PaceAssumption DEF Strengths
  <2>2. CASE r \in kept
    BY <1>4, <1>5, <1>7, <2>2 DEF Strength
  <2>3. CASE r \notin kept
    <3>1. on(r) = 0
      BY <1>5, <1>6, <2>1, <2>3
    <3> QED BY <1>7, <2>3, <3>1 DEF Strength
  <2> QED BY <2>2, <2>3
<1>10. (\E r \in Row : Strength(r)' # Full(r, lit)) <=> (\E r \in tracked : next[r] # Full(r, lit))
  BY <1>1, <1>5, <1>6, <1>9
<1> QED BY <1>2, <1>4, <1>7, <1>8, <1>9, <1>10 DEF on, step

\* A step of the rings and the mark.
LEMMA FadesKeep ==
  ASSUME MovingIInv, StepFades, now' = now
  PROVE  /\ pointed' = pointed /\ DOMAIN rings' \in SUBSET Row /\ rings' \in [DOMAIN rings' -> Strengths]
         /\ ring_clock' \in Nat \cup {Never} /\ mark_clock' \in Nat \cup {Never} /\ mark' \in 0 .. Mark
         /\ fades' \in [going : BOOLEAN, lit : Row \cup {Nobody}, at : Nat]
         /\ begun' \in [Row -> [value : Strengths, at : Nat]] /\ struck' \in Nat
         /\ ClocksRun' /\ FadesFollowTime' /\ StillIsDone'
<1> DEFINE step == Elapsed(ring_clock)
           turned(r) == Full(r, fades.lit) # Full(r, pointed)
           From(r) == IF turned(r) THEN [value |-> Strength(r), at |-> IF Under(fades.lit) THEN fades.at ELSE now]
                      ELSE begun[r]
<1>1. /\ now \in Nat /\ pointed \in Row \cup {Nobody} /\ pointed' = pointed /\ mark \in 0 .. Mark /\ Mark \in Nat
      /\ fades.lit \in Row \cup {Nobody} /\ fades.at \in Nat /\ fades.at <= now /\ struck \in Nat /\ struck <= fades.at
      /\ now # Never /\ fades.at # Never /\ mark_clock \in Nat \cup {Never}
  BY PaceAssumption, NeverAssumption DEF MovingIInv, MovingTypeOK, ClocksRun, StepFades
<1>2. /\ DOMAIN rings' \in SUBSET Row /\ rings' \in [DOMAIN rings' -> Strengths]
      /\ step \in Nat
      /\ \A r \in Row : Strength(r)' = Toward(Strength(r), Full(r, pointed), step)
      /\ ring_clock' = IF \E r \in Row : Strength(r)' # Full(r, pointed) THEN now ELSE Never
  BY <1>1, RingsMove DEF StepFades
<1>3. fades' = [going |-> HaloMoves(pointed) \/ mark > 0, lit |-> pointed, at |-> now]
  BY DEF StepFades
<1>4. fades' \in [going : BOOLEAN, lit : Row \cup {Nobody}, at : Nat] /\ fades'.lit = pointed /\ fades'.at = now
  BY <1>1, <1>3 DEF HaloMoves
<1>5. \A r \in Row : /\ begun[r] \in [value : Strengths, at : Nat] /\ begun[r].value \in Int
                   /\ begun[r].at \in Nat /\ begun[r].at <= fades.at
  BY PaceAssumption DEF MovingIInv, MovingTypeOK, ClocksRun, Strengths
<1>6. \A r \in Row : Strength(r) \in Strengths
  BY StrengthTyped DEF MovingIInv
<1>7. \A r : Full(r, pointed) \in Int
  BY PaceAssumption DEF Full
<1>8. begun' = [r \in Row |-> From(r)]
  <2>1. CASE fades.lit = pointed
    <3>1. begun' = begun /\ begun = [r \in Row |-> begun[r]]
      BY <2>1 DEF StepFades, MovingIInv, MovingTypeOK
    <3> QED BY <2>1, <3>1
  <2>2. CASE fades.lit # pointed
    BY <2>2 DEF StepFades
  <2> QED BY <2>1, <2>2
<1>9. \A r \in Row : begun'[r] = From(r)
  BY <1>8
<1>10. \A r \in Row : From(r) \in [value : Strengths, at : Nat] /\ From(r).at <= now
  BY <1>1, <1>5, <1>6
<1>11. begun' \in [Row -> [value : Strengths, at : Nat]]
  BY <1>8, <1>10
<1>12. Under(pointed)' <=> \E r \in Row : Strength(r)' # Full(r, pointed)
  BY <1>1 DEF Under, Full
<1>13. ring_clock' = IF Under(fades.lit)' THEN fades'.at ELSE Never
  <2>1. Under(fades.lit)' <=> \E r \in Row : Strength(r)' # Full(r, pointed)
    BY <1>4 DEF Under, Full
  <2> QED BY <1>2, <1>4, <2>1
<1>14. ASSUME NEW r \in Row
       PROVE  Strength(r)' = Toward(From(r).value, Full(r, pointed), now - From(r).at)
  <2>1. Strength(r) = Toward(begun[r].value, Full(r, fades.lit), fades.at - begun[r].at)
    BY DEF MovingIInv, FadesFollowTime
  <2>2. Strength(r)' = Toward(Strength(r), Full(r, pointed), step)
    BY <1>2
  <2>3. CASE Under(fades.lit)
    <3>1. step = now - fades.at
      BY <1>1, <2>3 DEF MovingIInv, ClocksRun, Elapsed
    <3>2. CASE turned(r)
      BY <2>2, <2>3, <3>1, <3>2
    <3>3. CASE ~turned(r)
      <4>1. Strength(r) = Toward(begun[r].value, Full(r, pointed), fades.at - begun[r].at) /\ From(r) = begun[r]
        BY <2>1, <3>3
      <4>2. begun[r].value \in Int /\ Full(r, pointed) \in Int /\ begun[r].at \in Nat
        BY <1>5, <1>7
      <4>3. fades.at - begun[r].at \in Nat /\ step \in Nat /\ (fades.at - begun[r].at) + step = now - begun[r].at
        BY <1>1, <1>2, <1>5, <3>1, <4>2
      <4>4. Toward(Toward(begun[r].value, Full(r, pointed), fades.at - begun[r].at), Full(r, pointed), step)
              = Toward(begun[r].value, Full(r, pointed), (fades.at - begun[r].at) + step)
        <5> HIDE DEF step
        <5> QED BY <4>2, <4>3, TowardGoesOn
      <4>5. Strength(r)' = Toward(begun[r].value, Full(r, pointed), (fades.at - begun[r].at) + step)
        BY <2>2, <4>1, <4>4
      <4> QED BY <4>1, <4>3, <4>5
    <3> QED BY <3>2, <3>3
  <2>4. CASE ~Under(fades.lit)
    <3>1. step = 0
      BY <2>4 DEF MovingIInv, ClocksRun, Elapsed
    <3>2. Strength(r) = Full(r, fades.lit)
      BY <2>4 DEF Under
    <3>3. CASE turned(r)
      <4>1. From(r) = [value |-> Strength(r), at |-> now]
        BY <2>4, <3>3
      <4> QED BY <1>1, <2>2, <3>1, <4>1
    <3>4. CASE ~turned(r)
      <4>1. From(r) = begun[r] /\ Full(r, pointed) = Full(r, fades.lit) /\ begun[r].value \in Int /\ begun[r].at \in Nat
        BY <1>5, <3>4
      <4>2. Full(r, pointed) \in Int
        BY <1>7
      <4>3. Strength(r)' = Full(r, pointed)
        BY <2>2, <3>1, <3>2, <4>1, <4>2, TowardStays
      <4>4. Toward(begun[r].value, Full(r, pointed), fades.at - begun[r].at) = Full(r, pointed)
        BY <2>1, <3>2, <4>1
      <4>5. fades.at - begun[r].at \in Nat /\ now - fades.at \in Nat
            /\ (fades.at - begun[r].at) + (now - fades.at) = now - begun[r].at
        BY <1>1, <1>5, <4>1
      <4>6. Toward(begun[r].value, Full(r, pointed), now - begun[r].at) = Toward(Full(r, pointed), Full(r, pointed), now - fades.at)
        <5>1. Toward(Toward(begun[r].value, Full(r, pointed), fades.at - begun[r].at), Full(r, pointed), now - fades.at)
                = Toward(begun[r].value, Full(r, pointed), (fades.at - begun[r].at) + (now - fades.at))
          BY <4>1, <4>2, <4>5, TowardGoesOn
        <5> QED BY <4>4, <4>5, <5>1
      <4> QED BY <4>1, <4>2, <4>3, <4>5, <4>6, TowardStays
    <3> QED BY <3>3, <3>4
  <2> QED BY <2>3, <2>4
<1> HIDE DEF From, step, turned
<1>15. /\ mark_clock' = now /\ mark' = Larger(mark - Elapsed(mark_clock), 0)
       /\ struck' = IF mark_clock = Never THEN now ELSE struck
  BY DEF StepFades, MarkAdvance
<1>16. /\ mark' \in 0 .. Mark /\ struck' \in Nat /\ struck' <= now
       /\ mark' > 0 => mark' = Mark - (now - struck')
       /\ mark = 0 => mark' = 0
  <2>1. CASE mark_clock = Never
    <3>1. mark' = mark /\ struck' = now
      BY <1>1, <1>15, <2>1 DEF Elapsed, Larger
    <3>2. mark \in {0, Mark}
      BY <2>1 DEF MovingIInv, ClocksRun
    <3> QED BY <1>1, <3>1, <3>2
  <2>2. CASE mark_clock # Never
    <3>1. mark_clock = fades.at /\ mark' = Larger(mark - (now - fades.at), 0) /\ struck' = struck
      BY <1>15, <2>2 DEF Elapsed, MovingIInv, ClocksRun
    <3>2. mark > 0 => mark = Mark - (fades.at - struck)
      BY <2>2 DEF MovingIInv, FadesFollowTime
    <3> QED BY <1>1, <3>1, <3>2 DEF Larger
  <2> QED BY <2>1, <2>2
<1>17. ClocksRun'
  <2>1. fades'.at <= now' /\ struck' <= fades'.at
    BY <1>1, <1>4, <1>16
  <2>2. \A r \in Row : begun'[r].at <= fades'.at
    BY <1>4, <1>9, <1>10
  <2>3. mark_clock' # Never /\ mark_clock' = fades'.at
    BY <1>1, <1>4, <1>15
  <2> QED BY <1>13, <2>1, <2>2, <2>3 DEF ClocksRun
<1>18. FadesFollowTime'
  <2>1. \A r \in Row : Strength(r)' = Toward(begun'[r].value, Full(r, fades'.lit), fades'.at - begun'[r].at)
    BY <1>4, <1>9, <1>14
  <2>2. \A r : Full(r, fades.lit)' = Full(r, fades'.lit)
    BY DEF Full
  <2>3. mark' > 0 => mark' = Mark - (fades'.at - struck')
    BY <1>4, <1>16
  <2> QED BY <2>1, <2>2, <2>3 DEF FadesFollowTime, Toward
<1>19. StillIsDone'
  <2> SUFFICES ASSUME ~fades'.going PROVE ~Under(fades.lit)' /\ mark' = 0
    BY DEF StillIsDone
  <2>1. ring_clock' = Never /\ ~(mark > 0)
    BY <1>3 DEF HaloMoves
  <2>2. mark' = 0
    BY <1>1, <1>16, <2>1
  <2>3. ~Under(fades.lit)'
    BY <1>1, <1>4, <1>13, <2>1
  <2> QED BY <2>2, <2>3
<1>20. ring_clock' \in Nat \cup {Never} /\ mark_clock' \in Nat \cup {Never}
  BY <1>1, <1>2, <1>15
<1> QED BY <1>1, <1>2, <1>4, <1>11, <1>16, <1>17, <1>18, <1>19, <1>20

\* A whole turn.
LEMMA TurnKeeps ==
  ASSUME MovingIInv, NEW readings \in [Row -> Peaks], MoveTurn(readings)
  PROVE  MovingIInv'
<1>1. /\ live' \in SUBSET Row /\ bars' \in [Row -> Bars] /\ crest' \in [Row -> Seq(Nat)]
      /\ last_step' \in Nat \cup {Never} /\ meters_due' \in Nat \cup {Never}
      /\ DueAfterStep' /\ BarsFollowTime'
  BY MetersKeep DEF MoveTurn
<1>2. /\ pointed' = pointed /\ DOMAIN rings' \in SUBSET Row /\ rings' \in [DOMAIN rings' -> Strengths]
      /\ ring_clock' \in Nat \cup {Never} /\ mark_clock' \in Nat \cup {Never} /\ mark' \in 0 .. Mark
      /\ fades' \in [going : BOOLEAN, lit : Row \cup {Nobody}, at : Nat]
      /\ begun' \in [Row -> [value : Strengths, at : Nat]] /\ struck' \in Nat
      /\ ClocksRun' /\ FadesFollowTime' /\ StillIsDone'
  BY FadesKeep DEF MoveTurn
<1>3. now' \in Nat /\ pointed' \in Row \cup {Nobody}
  BY <1>2 DEF MoveTurn, MovingIInv, MovingTypeOK
<1>4. MovingTypeOK'
  BY <1>1, <1>2, <1>3 DEF MovingTypeOK
<1> QED BY <1>1, <1>2, <1>4 DEF MovingIInv

\* Every step.
LEMMA NextKeeps == MovingIInv /\ [MovingNext]_movingVars => MovingIInv'
<1> SUFFICES ASSUME MovingIInv, [MovingNext]_movingVars PROVE MovingIInv'
  OBVIOUS
<1>1. CASE Pass
  <2>1. now \in Nat /\ now' = now + 1 /\ UNCHANGED <<meterVars, fadeVars>>
    BY <1>1 DEF Pass, MovingIInv, MovingTypeOK
  <2>2. MovingTypeOK'
    BY <2>1 DEF MovingIInv, MovingTypeOK, meterVars, fadeVars
  <2>3. DueAfterStep'
    BY <2>1 DEF MovingIInv, MovingTypeOK, DueAfterStep, meterVars
  <2>4. ClocksRun'
    <3>1. fades'.at <= now'
      BY <2>1 DEF MovingIInv, MovingTypeOK, ClocksRun, fadeVars
    <3>2. Under(fades.lit)' = Under(fades.lit)
      BY <2>1 DEF Under, Strength, Full, fadeVars
    <3> QED BY <2>1, <3>1, <3>2 DEF MovingIInv, ClocksRun, fadeVars
  <2>5. BarsFollowTime' /\ FadesFollowTime' /\ StillIsDone'
    BY <2>1 DEF MovingIInv, BarsFollowTime, FadesFollowTime, StillIsDone, Under, Strength, meterVars, fadeVars
  <2> QED BY <2>2, <2>3, <2>4, <2>5 DEF MovingIInv
<1>2. CASE \E readings \in [Row -> Peaks] : MoveTurn(readings)
  BY <1>2, TurnKeeps
<1>3. CASE \E rows \in SUBSET Row : Reproject(rows)
  BY <1>3, ReprojectKeeps
<1>4. CASE MoveTurn([r \in Row |-> <<>>])
  <2>1. [r \in Row |-> <<>>] \in [Row -> Peaks]
    BY PeaksAssumption
  <2> QED BY <1>4, <2>1, TurnKeeps
<1>5. ASSUME NEW r \in Row \cup {Nobody}, Point(r) PROVE MovingIInv'
  <2>1. /\ pointed' = r
        /\ UNCHANGED <<now, meterVars, rings, ring_clock, mark, mark_clock, fades, begun, struck>>
    BY <1>5 DEF Point
  <2>2. MovingTypeOK'
    BY <2>1, SMTT(30) DEF MovingIInv, MovingTypeOK, meterVars
  <2>3. DueAfterStep'
    BY <2>1 DEF MovingIInv, DueAfterStep, meterVars
  <2>4. ClocksRun' /\ BarsFollowTime' /\ FadesFollowTime' /\ StillIsDone'
    BY <2>1 DEF MovingIInv, ClocksRun, BarsFollowTime, FadesFollowTime, StillIsDone, Under, Strength, meterVars
  <2> QED BY <2>2, <2>3, <2>4 DEF MovingIInv
<1>6. CASE Strike
  <2>1. /\ mark' = Mark /\ mark_clock' = Never
        /\ UNCHANGED <<now, meterVars, pointed, rings, ring_clock, fades, begun, struck>>
    BY <1>6 DEF Strike
  <2>2. MovingTypeOK'
    BY <2>1, PaceAssumption, SMTT(30) DEF MovingIInv, MovingTypeOK, meterVars
  <2>3. DueAfterStep'
    BY <2>1 DEF MovingIInv, DueAfterStep, meterVars
  <2>4. ClocksRun' /\ BarsFollowTime' /\ FadesFollowTime' /\ StillIsDone'
    BY <2>1 DEF MovingIInv, ClocksRun, BarsFollowTime, FadesFollowTime, StillIsDone, Under, Strength, meterVars
  <2> QED BY <2>2, <2>3, <2>4 DEF MovingIInv
<1>7. CASE UNCHANGED movingVars
  BY <1>7 DEF movingVars, meterVars, fadeVars, MovingIInv, MovingTypeOK, DueAfterStep, ClocksRun, BarsFollowTime,
     FadesFollowTime, StillIsDone, Under, Strength, Elapsed
<1> QED BY <1>1, <1>2, <1>3, <1>4, <1>5, <1>6, <1>7 DEF MovingNext, MetersMove, FadesMove

\* However the turns of the loop fall: each ladder is whole, each bar shows the
\* loudest it has read as far down as time has taken it and is due to fall while
\* it is up, each ring and the mark are where time has taken them, and a turn
\* that asks for no more frames leaves nothing half-way.
THEOREM MovingSound == MovingSpec => []MovingIsSound
<1>1. MovingIInv => MovingIsSound
  BY LaddersWhole DEF MovingIInv, MovingIsSound, DueAfterStep, BarsComeDown
<1> QED BY <1>1, InitInv, NextKeeps, PTL DEF MovingSpec

-----------------------------------------------------------------------------
(* The state file. One process is on the directory: Whose.                 *)

Saving == {"create", "write", "sync", "rename"}

Directories == [Name -> Inode \cup {None}]

StoreTypes ==
  /\ dir \in Directories
  /\ journal \in Seq(Directories) /\ journal # <<>> /\ journal[Len(journal)] = dir
  /\ data = [i \in Inode |-> [is |-> data[i].is, safe |-> data[i].safe]]
  /\ pc \in [Proc -> {"off", "aside", "run"} \cup Saving]
  /\ mem = [q \in Proc |-> mem[q]] /\ dirty = [q \in Proc |-> dirty[q]]
  /\ out = [q \in Proc |-> out[q]] /\ tmp = [q \in Proc |-> tmp[q]]

\* A name leads to contents that are on the disk.
Safely(d, name) == d[name] # None /\ data[d[name]].safe

\* No directory a power cut may come back to has under the temporary name
\* what it, or one before it, has under another.
TmpApart ==
  \A k \in DOMAIN journal : \A j \in 1 .. k :
    journal[k]["tmp"] # None => journal[j]["state"] # journal[k]["tmp"] /\ journal[j]["bad"] # journal[k]["tmp"]

StatesSafe == \A k \in DOMAIN journal : journal[k]["state"] # None => data[journal[k]["state"]].safe

\* The state name never comes back to what it left.
StateLeavesOnce ==
  \A a, c \in DOMAIN journal : \A b \in a .. c :
    journal[a]["state"] = journal[c]["state"] /\ journal[c]["state"] # None => journal[b]["state"] = journal[c]["state"]

\* What is being saved goes to the file of the temporary name.
TmpInHand ==
  /\ pc[Whose] \in {"write", "sync", "rename"} => tmp[Whose] = dir["tmp"] /\ dir["tmp"] # None
  /\ pc[Whose] = "rename" => data[tmp[Whose]].safe
  /\ pc[Whose] = "aside" => dir["state"] # None

\* What could not be read is in every directory there may be.
Holds(d, name) == Safely(d, name) /\ data[d[name]].is = unread

UnreadStands ==
  unread # None =>
    /\ \A k \in DOMAIN journal : Holds(journal[k], "state") \/ Holds(journal[k], "bad")
    /\ pc[Whose] \notin {"off", "aside"} => Holds(dir, "bad")

DiskStands == StoreTypes /\ TmpApart /\ StatesSafe /\ StateLeavesOnce /\ TmpInHand /\ UnreadStands

\* What the state's name leads to: no file, or one with its contents.
FileOf(d, contents) == IF d["state"] = None THEN <<>> ELSE <<contents[d["state"]].is>>

Current == FileOf(dir, data)

Files == {FileOf(journal[k], data) : k \in DOMAIN journal}

WholeOrNone == {<<>>} \cup {<<file>> : file \in WholeFile}

SessionHolds ==
  /\ pc[Whose] = "off" <=> mem[Whose] = None
  /\ pc[Whose] # "off" => mem[Whose] \in AnyDoc \ {None}
  /\ pc[Whose] = "aside" => mem[Whose] = FreshDoc
  /\ pc[Whose] \notin Saving => out[Whose] = <<>>
  /\ pc[Whose] \in Saving => out[Whose] \in Encoded
  /\ pc[Whose] \in {"sync", "rename"} => data[tmp[Whose]].is = out[Whose]

FileStands == Files \subseteq WholeOrNone /\ SessionHolds

-----------------------------------------------------------------------------

\* A directory operation adds a directory that a power cut may come back to.
LEMMA Enters ==
  ASSUME StoreTypes, NEW d \in Directories, Enter(d)
  PROVE  /\ Len(journal) \in Nat \ {0} /\ DOMAIN journal = 1 .. Len(journal) /\ dir' = d
         /\ journal' \in Seq(Directories) /\ journal' # <<>> /\ journal'[Len(journal')] = d
         /\ DOMAIN journal' = 1 .. Len(journal) + 1 /\ journal'[Len(journal) + 1] = d
         /\ \A k \in DOMAIN journal : journal'[k] = journal[k] /\ k \in DOMAIN journal'
<1>1. journal \in Seq(Directories) /\ journal # <<>> /\ journal' = Append(journal, d) /\ dir' = d
  BY DEF StoreTypes, Enter
<1>2. /\ Len(journal) \in Nat \ {0} /\ DOMAIN journal = 1 .. Len(journal)
      /\ Append(journal, d) \in Seq(Directories) /\ Len(Append(journal, d)) = Len(journal) + 1
      /\ \A k \in 1 .. Len(journal) : Append(journal, d)[k] = journal[k]
      /\ Append(journal, d)[Len(journal) + 1] = d
  BY <1>1
<1>3. DOMAIN Append(journal, d) = 1 .. Len(journal) + 1
  BY <1>2
<1>4. Append(journal, d) # <<>>
  BY <1>2
<1> QED BY <1>1, <1>2, <1>3, <1>4

\* The journal keeps its order with a directory whose temporary name is new.
LEMMA EntersApart ==
  ASSUME StoreTypes, TmpApart, StateLeavesOnce, NEW d \in Directories, Enter(d),
         d["tmp"] # None => \A j \in DOMAIN journal : journal[j]["state"] # d["tmp"] /\ journal[j]["bad"] # d["tmp"],
         d["tmp"] # None => d["state"] # d["tmp"] /\ d["bad"] # d["tmp"],
         d["state"] \in {None, dir["state"]} \/ \A j \in DOMAIN journal : journal[j]["state"] # d["state"]
  PROVE  TmpApart' /\ StateLeavesOnce'
<1> DEFINE n == Len(journal)
<1>1. /\ n \in Nat \ {0} /\ DOMAIN journal = 1 .. n /\ journal[n] = dir
      /\ DOMAIN journal' = 1 .. n + 1 /\ journal'[n + 1] = d
      /\ \A k \in DOMAIN journal : journal'[k] = journal[k]
  BY Enters DEF StoreTypes
<1> HIDE DEF n
<1>2. TmpApart'
  <2> SUFFICES ASSUME NEW k \in DOMAIN journal', NEW j \in 1 .. k, journal'[k]["tmp"] # None
               PROVE  journal'[j]["state"] # journal'[k]["tmp"] /\ journal'[j]["bad"] # journal'[k]["tmp"]
    BY DEF TmpApart
  <2>1. CASE k \in DOMAIN journal
    <3>1. j \in DOMAIN journal
      BY <1>1, <2>1
    <3> QED BY <1>1, <2>1, <3>1 DEF TmpApart
  <2>2. CASE k = n + 1
    <3>1. j \in DOMAIN journal \/ j = n + 1
      BY <1>1, <2>2
    <3> QED BY <1>1, <2>2, <3>1
  <2> QED BY <1>1, <2>1, <2>2
<1>3. StateLeavesOnce'
  <2> SUFFICES ASSUME NEW a \in DOMAIN journal', NEW c \in DOMAIN journal', NEW b \in a .. c,
                      journal'[a]["state"] = journal'[c]["state"], journal'[c]["state"] # None
               PROVE  journal'[b]["state"] = journal'[c]["state"]
    BY DEF StateLeavesOnce
  <2>1. CASE c \in DOMAIN journal
    <3>1. a \in DOMAIN journal /\ b \in DOMAIN journal
      BY <1>1, <2>1
    <3> QED BY <1>1, <2>1, <3>1 DEF StateLeavesOnce
  <2>2. CASE c = n + 1 /\ a = n + 1
    <3>1. b = n + 1
      BY <1>1, <2>2
    <3> QED BY <2>2, <3>1
  <2>3. CASE c = n + 1 /\ a \in DOMAIN journal
    <3>1. d["state"] = journal[n]["state"] /\ journal[a]["state"] = journal[n]["state"]
      BY <1>1, <2>3
    <3>2. CASE b = n + 1
      BY <2>3, <3>2
    <3>3. CASE b # n + 1
      <4>1. n \in DOMAIN journal /\ b \in a .. n /\ b \in DOMAIN journal
        BY <1>1, <2>3, <3>3
      <4>2. journal[b]["state"] = journal[n]["state"]
        BY <1>1, <2>3, <3>1, <4>1 DEF StateLeavesOnce
      <4> QED BY <1>1, <2>3, <3>1, <4>1, <4>2
    <3> QED BY <3>2, <3>3
  <2> QED BY <1>1, <2>1, <2>2, <2>3
<1> QED BY <1>2, <1>3

\* Or the disk comes to one of its directories.
LEMMA ComesTo ==
  ASSUME StoreTypes, TmpApart, NEW k \in DOMAIN journal, dir' = journal[k], journal' = <<journal[k]>>
  PROVE  /\ dir' \in Directories /\ journal' \in Seq(Directories) /\ journal' # <<>> /\ journal'[Len(journal')] = dir'
         /\ DOMAIN journal' = {1} /\ journal'[1] = journal[k]
         /\ TmpApart' /\ StateLeavesOnce'
<1>1. journal \in Seq(Directories) /\ DOMAIN journal = 1 .. Len(journal) /\ k \in Nat \ {0} /\ journal[k] \in Directories
  BY DEF StoreTypes
<1> DEFINE d == journal[k]
<1>2. /\ <<d>> \in Seq(Directories) /\ <<d>> # <<>> /\ Len(<<d>>) = 1 /\ <<d>>[1] = d /\ DOMAIN <<d>> = {1}
  BY <1>1
<1>3. d["tmp"] # None => d["state"] # d["tmp"] /\ d["bad"] # d["tmp"]
  <2>1. k \in 1 .. k
    BY <1>1
  <2> QED BY <2>1 DEF TmpApart
<1>4. journal' = <<d>> /\ dir' = d
  OBVIOUS
<1> HIDE DEF d
<1>5. TmpApart' /\ StateLeavesOnce'
  <2>1. \A x \in DOMAIN journal' : x = 1 /\ \A y \in 1 .. x : y = 1
    BY <1>2, <1>4
  <2>2. \A a, c \in DOMAIN journal' : \A b \in a .. c : b = 1
    BY <2>1
  <2> QED BY <1>2, <1>3, <1>4, <2>1, <2>2 DEF TmpApart, StateLeavesOnce
<1> QED BY <1>1, <1>2, <1>4, <1>5 DEF d

\* What the names that are not temporary lead to is not what is being written.
LEMMA WritesApart ==
  ASSUME StoreTypes, NEW i, \A j \in Inode : j # i => data'[j] = data[j],
         \A k \in DOMAIN journal : journal[k]["state"] # i /\ journal[k]["bad"] # i
  PROVE  \A k \in DOMAIN journal : \A name \in {"state", "bad"} :
           journal[k][name] # None => data'[journal[k][name]] = data[journal[k][name]]
<1> SUFFICES ASSUME NEW k \in DOMAIN journal, NEW name \in {"state", "bad"}, journal[k][name] # None
             PROVE  data'[journal[k][name]] = data[journal[k][name]]
  OBVIOUS
<1>1. journal[k] \in Directories
  BY DEF StoreTypes
<1>2. journal[k][name] \in Inode
  BY <1>1 DEF Directories, Name
<1> QED BY <1>2

\* No operation on the disk, and nothing set aside.
LEMMA SessionKeeps ==
  ASSUME Proc = {Whose}, DiskStands, UNCHANGED <<dir, journal, data, unread>>,
         pc' \in [Proc -> {"off", "aside", "run"} \cup Saving],
         mem' = [q \in Proc |-> mem'[q]], dirty' = [q \in Proc |-> dirty'[q]],
         out' = [q \in Proc |-> out'[q]], tmp' = [q \in Proc |-> tmp'[q]],
         pc'[Whose] \in {"off", "run", "create"}, pc'[Whose] # "off" => pc[Whose] \notin {"off", "aside"}
  PROVE  DiskStands'
<1>1. StoreTypes' /\ TmpApart' /\ StatesSafe' /\ StateLeavesOnce' /\ TmpInHand'
  BY DEF DiskStands, StoreTypes, TmpApart, StatesSafe, StateLeavesOnce, TmpInHand
<1>2. UnreadStands'
  BY DEF DiskStands, UnreadStands, Holds, Safely
<1> QED BY <1>1, <1>2 DEF DiskStands

\* A session's steps that leave the disk alone.
LEMMA SessionStep ==
  ASSUME Proc = {Whose}, DiskStands,
         \/ \E doc \in DocSet : Edit(Whose, doc)
         \/ Save(Whose) \/ Fail(Whose) \/ Quit(Whose) \/ Kill(Whose)
  PROVE  DiskStands'
<1>1. StoreTypes
  BY DEF DiskStands
<1>2. CASE \E doc \in DocSet : Edit(Whose, doc)
  <2>1. PICK doc \in DocSet : Edit(Whose, doc)
    BY <1>2
  <2> QED BY <1>1, <2>1, SessionKeeps DEF Edit, disk, StoreTypes
<1>3. CASE Save(Whose)
  BY <1>1, <1>3, SessionKeeps DEF Save, At, disk, StoreTypes, Saving
<1>4. CASE Fail(Whose)
  BY <1>1, <1>4, SessionKeeps DEF Fail, At, disk, StoreTypes, Saving
<1>5. CASE Quit(Whose)
  BY <1>1, <1>5, SessionKeeps DEF Quit, Off, disk, StoreTypes
<1>6. CASE Kill(Whose)
  BY <1>1, <1>6, SessionKeeps DEF Kill, Off, disk, StoreTypes
<1> QED BY <1>2, <1>3, <1>4, <1>5, <1>6

LEMMA LoadStep ==
  ASSUME Proc = {Whose}, DiskStands, Load(Whose)
  PROVE  DiskStands'
<1>1. /\ pc[Whose] = "off" /\ UNCHANGED <<dir, journal, data, out, tmp>>
      /\ \/ dir["state"] = None /\ pc'[Whose] = "run" /\ unread' = unread
         \/ /\ dir["state"] # None /\ pc'[Whose] = "run"
            /\ unread' = IF unread = Contents("state") THEN None ELSE unread
         \/ dir["state"] # None /\ pc'[Whose] = "aside" /\ unread' = unread
  BY DEF Load, At, disk, DiskStands, StoreTypes
<1>2. StoreTypes'
  BY <1>1 DEF Load, At, DiskStands, StoreTypes
<1>3. TmpApart' /\ StatesSafe' /\ StateLeavesOnce'
  BY <1>1 DEF DiskStands, TmpApart, StatesSafe, StateLeavesOnce
<1>4. TmpInHand'
  BY <1>1 DEF TmpInHand
<1>5. UnreadStands'
  <2> SUFFICES ASSUME unread' # None
               PROVE  /\ \A k \in DOMAIN journal' : Holds(journal[k], "state")' \/ Holds(journal[k], "bad")'
                      /\ pc'[Whose] \notin {"off", "aside"} => Holds(dir, "bad")'
    BY DEF UnreadStands
  <2>1. unread' = unread
    BY <1>1
  <2>2. \A k \in DOMAIN journal : Holds(journal[k], "state") \/ Holds(journal[k], "bad")
    BY <2>1 DEF DiskStands, UnreadStands
  <2>3. Len(journal) \in DOMAIN journal /\ journal[Len(journal)] = dir
    BY DEF DiskStands, StoreTypes
  <2>4. Holds(dir, "state") \/ Holds(dir, "bad")
    BY <2>2, <2>3
  <2>5. pc'[Whose] = "run" => ~Holds(dir, "state")
    BY <1>1, <2>1 DEF Holds, Safely, Contents
  <2>6. pc'[Whose] \notin {"off", "aside"} => pc'[Whose] = "run"
    BY <1>1
  <2> QED BY <1>1, <2>1, <2>2, <2>4, <2>5, <2>6 DEF Holds, Safely
<1> QED BY <1>2, <1>3, <1>4, <1>5 DEF DiskStands

LEMMA QuarantineStep ==
  ASSUME Proc = {Whose}, DiskStands, Quarantine(Whose)
  PROVE  DiskStands'
<1>1. /\ pc[Whose] = "aside" /\ pc'[Whose] = "run" /\ UNCHANGED <<data, mem, dirty, out, tmp>>
      /\ pc' \in [Proc -> {"off", "aside", "run"} \cup Saving]
  BY DEF Quarantine, At, DiskStands, StoreTypes
<1>2. StoreTypes /\ TmpApart /\ StateLeavesOnce /\ StatesSafe
  BY DEF DiskStands
<1>3. CASE UNCHANGED <<dir, journal>> /\ unread' = None
  <2>1. StoreTypes' /\ TmpApart' /\ StatesSafe' /\ StateLeavesOnce' /\ TmpInHand'
    BY <1>1, <1>3 DEF DiskStands, StoreTypes, TmpApart, StatesSafe, StateLeavesOnce, TmpInHand
  <2> QED BY <1>3, <2>1 DEF DiskStands, UnreadStands
<1>4. CASE /\ dir["state"] # None /\ Enter(Moved(dir, "state", "bad"))
           /\ unread' = IF journal[1]["state"] = dir["state"] THEN Contents("state") ELSE None
  <2> DEFINE d == Moved(dir, "state", "bad")
  <2>1. d \in Directories /\ d["state"] = None /\ d["bad"] = dir["state"] /\ d["tmp"] = dir["tmp"]
    BY <1>2 DEF Moved, StoreTypes, Directories, Name
  <2> HIDE DEF d
  <2>2. /\ Len(journal) \in Nat \ {0} /\ DOMAIN journal = 1 .. Len(journal) /\ dir' = d
        /\ journal' \in Seq(Directories) /\ journal' # <<>> /\ journal'[Len(journal')] = d
        /\ DOMAIN journal' = 1 .. Len(journal) + 1 /\ journal'[Len(journal) + 1] = d
        /\ \A k \in DOMAIN journal : journal'[k] = journal[k]
    BY <1>2, <1>4, <2>1, Enters DEF d
  <2>3. StoreTypes'
    BY <1>1, <1>2, <2>1, <2>2 DEF StoreTypes
  <2>4. \A k \in DOMAIN journal' : k \in DOMAIN journal \/ k = Len(journal) + 1
    BY <2>2
  <2>5. Len(journal) \in DOMAIN journal /\ journal[Len(journal)] = dir
    BY <1>2, <2>2 DEF StoreTypes
  <2>6. TmpApart' /\ StateLeavesOnce'
    <3>1. d["tmp"] # None => \A j \in DOMAIN journal : journal[j]["state"] # d["tmp"] /\ journal[j]["bad"] # d["tmp"]
      <4>1. \A j \in DOMAIN journal : j \in 1 .. Len(journal)
        BY <2>2
      <4> QED BY <1>2, <2>1, <2>5, <4>1 DEF TmpApart
    <3>2. d["tmp"] # None => d["state"] # d["tmp"] /\ d["bad"] # d["tmp"]
      BY <2>1, <2>5, <3>1
    <3> QED BY <1>2, <1>4, <2>1, <3>1, <3>2, EntersApart DEF d
  <2>7. StatesSafe'
    BY <1>1, <1>2, <2>1, <2>2, <2>4 DEF StatesSafe
  <2>8. TmpInHand'
    BY <1>1 DEF TmpInHand
  <2>9. UnreadStands'
    <3> SUFFICES ASSUME journal[1]["state"] = dir["state"], unread' = Contents("state"), unread' # None
                 PROVE  /\ \A k \in DOMAIN journal' : Holds(journal[k], "state")' \/ Holds(journal[k], "bad")'
                        /\ Holds(dir, "bad")'
      BY <1>4 DEF UnreadStands
    <3>1. data[dir["state"]].safe
      BY <1>2, <1>4, <2>5 DEF StatesSafe
    <3>2. ASSUME NEW k \in DOMAIN journal PROVE journal[k]["state"] = dir["state"]
      <4>1. 1 \in DOMAIN journal /\ k \in 1 .. Len(journal)
        BY <2>2
      <4> QED BY <1>2, <1>4, <2>5, <4>1 DEF StateLeavesOnce
    <3>3. \A k \in DOMAIN journal : Holds(journal[k], "state")'
      BY <1>1, <1>4, <2>2, <3>1, <3>2 DEF Holds, Safely, Contents
    <3>4. Holds(dir, "bad")' /\ \A k \in DOMAIN journal' : k = Len(journal) + 1 => Holds(journal[k], "bad")'
      <4>1. data'[d["bad"]].safe /\ data'[d["bad"]].is = unread' /\ d["bad"] # None
        BY <1>1, <1>4, <2>1, <3>1 DEF Contents
      <4>2. Holds(dir, "bad")'
        BY <2>2, <4>1 DEF Holds, Safely
      <4>3. journal'[Len(journal) + 1] = d
        BY <2>2
      <4> QED BY <2>2, <4>1, <4>2, <4>3 DEF Holds, Safely
    <3> QED BY <2>4, <3>3, <3>4
  <2> QED BY <2>3, <2>6, <2>7, <2>8, <2>9 DEF DiskStands
<1> QED BY <1>3, <1>4 DEF Quarantine

\* The file in hand is written to, and no other.
LEMMA WrittenKeeps ==
  ASSUME Proc = {Whose}, DiskStands, UNCHANGED <<dir, journal, unread, mem, dirty, out, tmp>>,
         pc[Whose] \in {"write", "sync"}, pc'[Whose] \in {"write", "sync", "rename"},
         pc' \in [Proc -> {"off", "aside", "run"} \cup Saving],
         data' = [i \in Inode |-> [is |-> data'[i].is, safe |-> data'[i].safe]],
         \A j \in Inode : j # tmp[Whose] => data'[j] = data[j],
         pc'[Whose] = "rename" => data'[tmp[Whose]].safe
  PROVE  DiskStands'
<1>1. StoreTypes /\ TmpApart /\ StatesSafe /\ TmpInHand
  BY DEF DiskStands
<1>2. StoreTypes'
  BY <1>1 DEF StoreTypes
<1>3. TmpApart' /\ StateLeavesOnce' /\ TmpInHand'
  BY <1>1 DEF DiskStands, TmpApart, StateLeavesOnce, TmpInHand
<1>4. Len(journal) \in DOMAIN journal /\ journal[Len(journal)] = dir /\ DOMAIN journal = 1 .. Len(journal)
  BY <1>1 DEF StoreTypes
<1>5. tmp[Whose] = dir["tmp"] /\ dir["tmp"] # None
  BY <1>1 DEF TmpInHand
<1>6. \A k \in DOMAIN journal : journal[k]["state"] # tmp[Whose] /\ journal[k]["bad"] # tmp[Whose]
  <2>1. \A k \in DOMAIN journal : k \in 1 .. Len(journal)
    BY <1>4
  <2> QED BY <1>1, <1>4, <1>5, <2>1 DEF TmpApart
<1>7. \A k \in DOMAIN journal : \A name \in {"state", "bad"} :
        journal[k][name] # None => data'[journal[k][name]] = data[journal[k][name]]
  BY <1>1, <1>6, WritesApart
<1>8. StatesSafe'
  BY <1>1, <1>7 DEF StatesSafe
<1>9. UnreadStands'
  <2>1. dir["bad"] # None => data'[dir["bad"]] = data[dir["bad"]]
    BY <1>4, <1>7
  <2> QED BY <1>7, <2>1 DEF DiskStands, UnreadStands, Holds, Safely
<1> QED BY <1>2, <1>3, <1>8, <1>9 DEF DiskStands

LEMMA WriteStep ==
  ASSUME Proc = {Whose}, DiskStands, Write(Whose)
  PROVE  DiskStands'
<1>1. StoreTypes
  BY DEF DiskStands
<1>2. /\ UNCHANGED <<dir, journal, mem, dirty, out, tmp, unread>>
      /\ pc[Whose] = "write" /\ pc'[Whose] \in {"write", "sync"}
      /\ pc' \in [Proc -> {"off", "aside", "run"} \cup Saving]
  BY <1>1 DEF Write, At, StoreTypes, Saving
<1>3. PICK is : data' = [data EXCEPT ![tmp[Whose]] = [is |-> is, safe |-> FALSE]]
  BY DEF Write
<1>4. /\ data' = [i \in Inode |-> [is |-> data'[i].is, safe |-> data'[i].safe]]
      /\ \A j \in Inode : j # tmp[Whose] => data'[j] = data[j]
  BY <1>1, <1>3 DEF StoreTypes
<1> QED BY <1>2, <1>4, WrittenKeeps

LEMMA SyncStep ==
  ASSUME Proc = {Whose}, DiskStands, Sync(Whose)
  PROVE  DiskStands'
<1>1. StoreTypes /\ TmpInHand
  BY DEF DiskStands
<1>2. /\ UNCHANGED <<dir, journal, mem, dirty, out, tmp, unread>>
      /\ pc[Whose] = "sync" /\ pc'[Whose] = "rename"
      /\ pc' \in [Proc -> {"off", "aside", "run"} \cup Saving]
      /\ data' = [data EXCEPT ![tmp[Whose]] = [is |-> data[tmp[Whose]].is, safe |-> TRUE]]
  BY <1>1 DEF Sync, At, StoreTypes, Saving
<1>3. tmp[Whose] \in Inode
  BY <1>1, <1>2 DEF StoreTypes, TmpInHand, Directories, Name
<1>4. \A j \in Inode : data'[j] = IF j = tmp[Whose] THEN [is |-> data[j].is, safe |-> TRUE] ELSE data[j]
  BY <1>1, <1>2 DEF StoreTypes
<1>5. data' = [i \in Inode |-> [is |-> data'[i].is, safe |-> data'[i].safe]] /\ data'[tmp[Whose]].safe
  BY <1>1, <1>2, <1>3 DEF StoreTypes
<1> QED BY <1>2, <1>4, <1>5, WrittenKeeps

LEMMA CreateStep ==
  ASSUME Proc = {Whose}, DiskStands, Create(Whose)
  PROVE  DiskStands'
<1>1. StoreTypes /\ TmpApart /\ StatesSafe /\ StateLeavesOnce
  BY DEF DiskStands
<1>2. /\ UNCHANGED <<mem, dirty, out, unread>>
      /\ pc[Whose] = "create" /\ pc'[Whose] = "write"
      /\ pc' \in [Proc -> {"off", "aside", "run"} \cup Saving]
  BY <1>1 DEF Create, At, StoreTypes, Saving
<1>3. PICK i \in Inode :
        /\ IF dir["tmp"] # None THEN i = dir["tmp"]
           ELSE \A n \in Name : dir[n] # i /\ \A k \in DOMAIN journal : journal[k][n] # i
        /\ IF dir["tmp"] # None THEN UNCHANGED <<dir, journal>> ELSE Enter([dir EXCEPT !["tmp"] = i])
        /\ data' = [data EXCEPT ![i] = [is |-> <<>>, safe |-> FALSE]]
        /\ tmp' = [tmp EXCEPT ![Whose] = i]
  BY DEF Create
<1>4. Len(journal) \in DOMAIN journal /\ journal[Len(journal)] = dir /\ DOMAIN journal = 1 .. Len(journal)
  BY <1>1 DEF StoreTypes
<1>5. \A k \in DOMAIN journal : journal[k]["state"] # i /\ journal[k]["bad"] # i
  <2>1. CASE dir["tmp"] # None
    <3>1. \A k \in DOMAIN journal : k \in 1 .. Len(journal)
      BY <1>4
    <3> QED BY <1>1, <1>3, <1>4, <2>1, <3>1 DEF TmpApart
  <2>2. CASE dir["tmp"] = None
    BY <1>3, <2>2 DEF Name
  <2> QED BY <2>1, <2>2
<1>6. /\ data' = [j \in Inode |-> [is |-> data'[j].is, safe |-> data'[j].safe]]
      /\ \A j \in Inode : j # i => data'[j] = data[j]
      /\ tmp' = [q \in Proc |-> tmp'[q]] /\ tmp'[Whose] = i
  BY <1>1, <1>3 DEF StoreTypes
<1>7. \A k \in DOMAIN journal : \A name \in {"state", "bad"} :
        journal[k][name] # None => data'[journal[k][name]] = data[journal[k][name]]
  BY <1>1, <1>5, <1>6, WritesApart
\* The names but the temporary one stay, in one directory more or in those there were.
<1> DEFINE d == [dir EXCEPT !["tmp"] = i]
<1>8. /\ d \in Directories /\ d["tmp"] = i /\ d["state"] = dir["state"] /\ d["bad"] = dir["bad"]
      /\ i # None
  BY <1>1, StoreAssumption DEF StoreTypes, Directories, Name
<1> HIDE DEF d
<1>9. /\ TmpApart' /\ StateLeavesOnce' /\ dir' = d
      /\ journal' \in Seq(Directories) /\ journal' # <<>> /\ journal'[Len(journal')] = d
      /\ \A k \in DOMAIN journal' : \E j \in DOMAIN journal :
           journal'[k]["state"] = journal[j]["state"] /\ journal'[k]["bad"] = journal[j]["bad"]
  <2>1. CASE dir["tmp"] # None
    <3>1. dir' = dir /\ journal' = journal /\ d = dir
      BY <1>1, <1>3, <2>1 DEF StoreTypes, Directories, d
    <3> QED BY <1>1, <3>1 DEF StoreTypes, TmpApart, StateLeavesOnce
  <2>2. CASE dir["tmp"] = None
    <3>1. Enter(d)
      BY <1>3, <2>2 DEF d
    <3>2. TmpApart' /\ StateLeavesOnce'
      <4>1. d["tmp"] # None => \A j \in DOMAIN journal : journal[j]["state"] # d["tmp"] /\ journal[j]["bad"] # d["tmp"]
        BY <1>5, <1>8
      <4>2. d["tmp"] # None => d["state"] # d["tmp"] /\ d["bad"] # d["tmp"]
        BY <1>4, <1>5, <1>8
      <4> QED BY <1>1, <1>8, <3>1, <4>1, <4>2, EntersApart
    <3>3. /\ dir' = d /\ journal' \in Seq(Directories) /\ journal' # <<>> /\ journal'[Len(journal')] = d
          /\ DOMAIN journal' = 1 .. Len(journal) + 1 /\ journal'[Len(journal) + 1] = d
          /\ \A k \in DOMAIN journal : journal'[k] = journal[k]
      BY <1>1, <1>8, <3>1, Enters
    <3>4. \A k \in DOMAIN journal' : k \in DOMAIN journal \/ k = Len(journal) + 1
      BY <1>4, <3>3
    <3> QED BY <1>4, <1>8, <3>2, <3>3, <3>4
  <2> QED BY <2>1, <2>2
<1>10. StoreTypes'
  BY <1>1, <1>2, <1>6, <1>8, <1>9 DEF StoreTypes
<1>11. StatesSafe'
  BY <1>1, <1>7, <1>9 DEF StatesSafe
<1>12. TmpInHand'
  BY <1>2, <1>6, <1>8, <1>9 DEF TmpInHand
<1>13. UnreadStands'
  <2> SUFFICES ASSUME unread # None
               PROVE  /\ \A k \in DOMAIN journal' : Holds(journal[k], "state")' \/ Holds(journal[k], "bad")'
                      /\ Holds(dir, "bad")'
    BY <1>2 DEF UnreadStands
  <2>1. /\ \A k \in DOMAIN journal : Holds(journal[k], "state") \/ Holds(journal[k], "bad")
        /\ Holds(dir, "bad")
    BY <1>2 DEF DiskStands, UnreadStands
  <2>2. Holds(dir, "bad")'
    <3>1. data'[dir["bad"]] = data[dir["bad"]]
      BY <1>4, <1>7, <2>1 DEF Holds, Safely
    <3> QED BY <1>2, <1>8, <1>9, <2>1, <3>1 DEF Holds, Safely
  <2>3. ASSUME NEW k \in DOMAIN journal' PROVE Holds(journal[k], "state")' \/ Holds(journal[k], "bad")'
    <3>1. PICK j \in DOMAIN journal : journal'[k]["state"] = journal[j]["state"] /\ journal'[k]["bad"] = journal[j]["bad"]
      BY <1>9
    <3>2. Holds(journal[j], "state") \/ Holds(journal[j], "bad")
      BY <2>1
    <3> QED BY <1>2, <1>7, <3>1, <3>2 DEF Holds, Safely
  <2> QED BY <2>2, <2>3
<1> QED BY <1>9, <1>10, <1>11, <1>12, <1>13 DEF DiskStands

LEMMA RenameStep ==
  ASSUME Proc = {Whose}, DiskStands, Rename(Whose)
  PROVE  DiskStands'
<1>1. StoreTypes /\ TmpApart /\ StatesSafe /\ StateLeavesOnce /\ TmpInHand
  BY DEF DiskStands
<1>2. /\ UNCHANGED <<data, mem, dirty, unread>>
      /\ pc[Whose] = "rename" /\ pc'[Whose] = "run" /\ dir["tmp"] # None
      /\ pc' \in [Proc -> {"off", "aside", "run"} \cup Saving]
      /\ out' = [q \in Proc |-> out'[q]] /\ tmp' = [q \in Proc |-> tmp'[q]]
      /\ Enter(Moved(dir, "tmp", "state"))
  BY <1>1 DEF Rename, At, StoreTypes
<1> DEFINE d == Moved(dir, "tmp", "state")
<1>3. d \in Directories /\ d["tmp"] = None /\ d["state"] = dir["tmp"] /\ d["bad"] = dir["bad"]
  BY <1>1 DEF StoreTypes, Directories, Name, Moved
<1>4. Len(journal) \in DOMAIN journal /\ journal[Len(journal)] = dir /\ DOMAIN journal = 1 .. Len(journal)
  BY <1>1 DEF StoreTypes
<1>5. data[dir["tmp"]].safe
  BY <1>1, <1>2 DEF TmpInHand
<1> HIDE DEF d
<1>6. /\ dir' = d /\ journal' \in Seq(Directories) /\ journal' # <<>> /\ journal'[Len(journal')] = d
      /\ DOMAIN journal' = 1 .. Len(journal) + 1 /\ journal'[Len(journal) + 1] = d
      /\ \A k \in DOMAIN journal : journal'[k] = journal[k]
  BY <1>1, <1>2, <1>3, Enters DEF d
<1>7. \A k \in DOMAIN journal' : k \in DOMAIN journal \/ k = Len(journal) + 1
  BY <1>4, <1>6
<1>8. TmpApart' /\ StateLeavesOnce'
  <2>1. \A j \in DOMAIN journal : journal[j]["state"] # d["state"]
    <3>1. \A j \in DOMAIN journal : j \in 1 .. Len(journal)
      BY <1>4
    <3> QED BY <1>1, <1>2, <1>3, <1>4, <3>1 DEF TmpApart
  <2> QED BY <1>1, <1>2, <1>3, <2>1, EntersApart DEF d
<1>9. StoreTypes'
  BY <1>1, <1>2, <1>3, <1>6 DEF StoreTypes
<1>10. StatesSafe' /\ TmpInHand'
  BY <1>1, <1>2, <1>3, <1>5, <1>6, <1>7 DEF StatesSafe, TmpInHand
<1>11. UnreadStands'
  <2> SUFFICES ASSUME unread # None
               PROVE  /\ \A k \in DOMAIN journal' : Holds(journal[k], "state")' \/ Holds(journal[k], "bad")'
                      /\ Holds(dir, "bad")'
    BY <1>2 DEF UnreadStands
  <2>1. /\ \A k \in DOMAIN journal : Holds(journal[k], "state") \/ Holds(journal[k], "bad")
        /\ Holds(dir, "bad")
    BY <1>2 DEF DiskStands, UnreadStands
  <2>2. Holds(dir, "bad")'
    BY <1>2, <1>3, <1>6, <2>1 DEF Holds, Safely
  <2>3. ASSUME NEW k \in DOMAIN journal' PROVE Holds(journal[k], "state")' \/ Holds(journal[k], "bad")'
    <3>1. CASE k \in DOMAIN journal
      <4>1. journal'[k] = journal[k] /\ (Holds(journal[k], "state") \/ Holds(journal[k], "bad"))
        BY <1>6, <2>1, <3>1
      <4> QED BY <1>2, <4>1 DEF Holds, Safely
    <3>2. CASE k = Len(journal) + 1
      <4>1. journal'[k] = dir'
        BY <1>6, <3>2
      <4> QED BY <2>2, <4>1 DEF Holds, Safely
    <3> QED BY <1>7, <3>1, <3>2
  <2> QED BY <2>2, <2>3
<1> QED BY <1>8, <1>9, <1>10, <1>11 DEF DiskStands

\* A directory of the journal is all there is, with the files its names lead to.
LEMMA ComesToKeeps ==
  ASSUME Proc = {Whose}, DiskStands, NEW k \in DOMAIN journal, dir' = journal[k], journal' = <<journal[k]>>, unread' = unread,
         data' = [i \in Inode |-> [is |-> data'[i].is, safe |-> data'[i].safe]],
         \A i \in Inode : data[i].safe => data'[i].safe /\ data'[i].is = data[i].is,
         pc' \in [Proc -> {"off", "aside", "run"} \cup Saving],
         mem' = [q \in Proc |-> mem'[q]], dirty' = [q \in Proc |-> dirty'[q]],
         out' = [q \in Proc |-> out'[q]], tmp' = [q \in Proc |-> tmp'[q]],
         \/ pc'[Whose] = "off"
         \/ journal[k] = dir /\ UNCHANGED <<pc, tmp, data>>
  PROVE  DiskStands'
<1>1. StoreTypes /\ TmpApart /\ StatesSafe /\ TmpInHand /\ UnreadStands
  BY DEF DiskStands
<1>2. /\ dir' \in Directories /\ journal' \in Seq(Directories) /\ journal' # <<>> /\ journal'[Len(journal')] = dir'
      /\ DOMAIN journal' = {1} /\ journal'[1] = journal[k]
      /\ TmpApart' /\ StateLeavesOnce'
  BY <1>1, ComesTo
<1>3. StoreTypes'
  BY <1>2 DEF StoreTypes
<1>4. \A name \in Name : Safely(journal[k], name) => data'[journal[k][name]].safe /\ data'[journal[k][name]].is = data[journal[k][name]].is
  <2>1. journal[k] \in Directories
    BY <1>1 DEF StoreTypes
  <2> QED BY <2>1 DEF Safely, Directories
<1>5. StatesSafe'
  BY <1>1, <1>2, <1>4 DEF StatesSafe, Safely, Name
<1>6. TmpInHand'
  BY <1>1 DEF TmpInHand
<1>7. UnreadStands'
  BY <1>1, <1>2, <1>4 DEF UnreadStands, Holds, Safely, Name
<1> QED BY <1>2, <1>3, <1>5, <1>6, <1>7 DEF DiskStands

LEMMA SettleStep ==
  ASSUME Proc = {Whose}, DiskStands, Settle
  PROVE  DiskStands'
<1>1. StoreTypes
  BY DEF DiskStands
<1>2. Len(journal) \in DOMAIN journal /\ journal[Len(journal)] = dir
  BY <1>1 DEF StoreTypes
<1>3. UNCHANGED <<dir, data, pc, mem, dirty, out, tmp, unread>> /\ journal' = <<dir>>
  BY DEF Settle
<1>4. /\ data' = [i \in Inode |-> [is |-> data'[i].is, safe |-> data'[i].safe]]
      /\ \A i \in Inode : data[i].safe => data'[i].safe /\ data'[i].is = data[i].is
      /\ pc' \in [Proc -> {"off", "aside", "run"} \cup Saving]
      /\ mem' = [q \in Proc |-> mem'[q]] /\ dirty' = [q \in Proc |-> dirty'[q]]
      /\ out' = [q \in Proc |-> out'[q]] /\ tmp' = [q \in Proc |-> tmp'[q]]
  BY <1>1, <1>3 DEF StoreTypes
<1> QED BY <1>2, <1>3, <1>4, ComesToKeeps

LEMMA PowerCutStep ==
  ASSUME Proc = {Whose}, DiskStands, PowerCut
  PROVE  DiskStands'
<1>1. StoreTypes
  BY DEF DiskStands
<1>2. PICK k \in DOMAIN journal : dir' = journal[k] /\ journal' = <<journal[k]>>
  BY DEF PowerCut
<1>3. PICK i \in Inode : \E x \in Torn(i) :
        data' = [j \in Inode |-> IF j = i THEN [is |-> x, safe |-> TRUE] ELSE [is |-> data[j].is, safe |-> TRUE]]
  BY DEF PowerCut
<1> PICK left \in Torn(i) :
        data' = [j \in Inode |-> IF j = i THEN [is |-> left, safe |-> TRUE] ELSE [is |-> data[j].is, safe |-> TRUE]]
  BY <1>3
<1>4. data[i].safe => left = data[i].is
  BY DEF Torn
<1>5. \A j \in Inode : data'[j] = [is |-> IF j = i THEN left ELSE data[j].is, safe |-> TRUE]
  OBVIOUS
<1>7. \A j \in Inode : data[j].safe => data'[j].safe /\ data'[j].is = data[j].is
  BY <1>4, <1>5
<1>8. data' = [j \in Inode |-> [is |-> data'[j].is, safe |-> data'[j].safe]]
  <2>1. data' = [j \in Inode |-> data'[j]]
    OBVIOUS
  <2>2. \A j \in Inode : data'[j] = [is |-> data'[j].is, safe |-> data'[j].safe]
    BY <1>5
  <2> QED BY <2>1, <2>2
<1>6. /\ pc' \in [Proc -> {"off", "aside", "run"} \cup Saving] /\ pc'[Whose] = "off"
      /\ mem' = [q \in Proc |-> mem'[q]] /\ dirty' = [q \in Proc |-> dirty'[q]]
      /\ out' = [q \in Proc |-> out'[q]] /\ tmp' = [q \in Proc |-> tmp'[q]] /\ unread' = unread
  BY DEF PowerCut
<1> QED BY <1>2, <1>6, <1>7, <1>8, ComesToKeeps

LEMMA DiskStarts ==
  ASSUME Proc = {Whose}, StoreInit
  PROVE  DiskStands
<1>1. PICK file \in FirstFile, i \in Inode :
        /\ dir = [n \in Name |-> IF n = "state" /\ file # None THEN i ELSE None]
        /\ data = [x \in Inode |-> [is |-> IF x = i /\ file # None THEN file ELSE <<>>, safe |-> TRUE]]
  BY DEF StoreInit
<1>2. dir \in Directories /\ dir["tmp"] = None /\ (dir["state"] # None => dir["state"] \in Inode)
  BY <1>1 DEF Directories, Name
<1>3. /\ journal = <<dir>> /\ journal \in Seq(Directories) /\ journal # <<>> /\ Len(journal) = 1 /\ journal[1] = dir
      /\ DOMAIN journal = {1}
  BY <1>2 DEF StoreInit
<1>4. pc[Whose] = "off" /\ unread = None
  BY DEF StoreInit
<1>5. StoreTypes
  BY <1>1, <1>2, <1>3 DEF StoreInit, StoreTypes
<1>6. TmpApart /\ StateLeavesOnce
  <2>1. \A k \in DOMAIN journal : k = 1 /\ \A j \in 1 .. k : j = 1
    BY <1>3
  <2>2. \A a, c \in DOMAIN journal : \A b \in a .. c : b = 1
    BY <1>3
  <2> QED BY <1>2, <1>3, <2>1, <2>2 DEF TmpApart, StateLeavesOnce
<1>7. StatesSafe /\ TmpInHand /\ UnreadStands
  BY <1>1, <1>2, <1>3, <1>4 DEF StatesSafe, TmpInHand, UnreadStands
<1> QED BY <1>5, <1>6, <1>7 DEF DiskStands

LEMMA DiskKeeps == ASSUME Proc = {Whose} PROVE DiskStands /\ [StoreNext]_storeVars => DiskStands'
<1> SUFFICES ASSUME DiskStands, [StoreNext]_storeVars PROVE DiskStands'
  OBVIOUS
<1>1. CASE Load(Whose)
  BY <1>1, LoadStep
<1>2. CASE Quarantine(Whose)
  BY <1>2, QuarantineStep
<1>3. CASE Create(Whose)
  BY <1>3, CreateStep
<1>4. CASE Write(Whose)
  BY <1>4, WriteStep
<1>5. CASE Sync(Whose)
  BY <1>5, SyncStep
<1>6. CASE Rename(Whose)
  BY <1>6, RenameStep
<1>7. CASE \/ \E doc \in DocSet : Edit(Whose, doc)
           \/ Save(Whose) \/ Fail(Whose) \/ Quit(Whose) \/ Kill(Whose)
  BY <1>7, SessionStep
<1>8. CASE Settle
  BY <1>8, SettleStep
<1>9. CASE PowerCut
  BY <1>9, PowerCutStep
<1>10. CASE UNCHANGED storeVars
  BY <1>10 DEF storeVars, DiskStands, StoreTypes, TmpApart, StatesSafe, StateLeavesOnce, TmpInHand, UnreadStands, Holds, Safely
<1> QED BY <1>1, <1>2, <1>3, <1>4, <1>5, <1>6, <1>7, <1>8, <1>9, <1>10 DEF StoreNext

\* The invariant of the disk, with one process on the directory.
LEMMA DiskHolds == ASSUME Proc = {Whose} PROVE StoreSpec => []DiskStands
  BY DiskStarts, DiskKeeps, PTL DEF StoreSpec

\* A state file that could not be read at boot and was set aside (store.rs,
\* quarantine) is still there, under one name or the other, whatever sessions
\* save and wherever kills and power cuts fall, until other contents are set
\* aside: with one process on the directory, which the instance lock sees to.
THEOREM UnreadStays == ASSUME Proc = {Whose} PROVE StoreSpec => []UnreadIsKept
<1>1. DiskStands => UnreadIsKept
  <2> SUFFICES ASSUME DiskStands, unread # None
               PROVE  \E n \in {"state", "bad"} : dir[n] # None /\ Contents(n) = unread
    BY DEF UnreadIsKept
  <2>1. Len(journal) \in DOMAIN journal /\ journal[Len(journal)] = dir
    BY DEF DiskStands, StoreTypes
  <2>2. Holds(journal[Len(journal)], "state") \/ Holds(journal[Len(journal)], "bad")
    BY <2>1 DEF DiskStands, UnreadStands
  <2> QED BY <2>1, <2>2 DEF Holds, Safely, Contents
<1> QED BY <1>1, DiskHolds, PTL

-----------------------------------------------------------------------------
(* The file of the state's name, step by step.                             *)

LEMMA CurrentIsOne == ASSUME StoreTypes PROVE Current \in Files
<1>1. Len(journal) \in DOMAIN journal /\ journal[Len(journal)] = dir
  BY DEF StoreTypes
<1> QED BY <1>1 DEF Current, Files

\* What is under the temporary name is under no other.
LEMMA HandApart ==
  ASSUME StoreTypes, TmpApart, dir["tmp"] # None
  PROVE  \A k \in DOMAIN journal : journal[k]["state"] # dir["tmp"] /\ journal[k]["bad"] # dir["tmp"]
<1>1. Len(journal) \in DOMAIN journal /\ journal[Len(journal)] = dir /\ DOMAIN journal = 1 .. Len(journal)
  BY DEF StoreTypes
<1>2. \A k \in DOMAIN journal : k \in 1 .. Len(journal)
  BY <1>1
<1> QED BY <1>1, <1>2 DEF TmpApart

\* The same names, with what they lead to.
LEMMA SameFiles ==
  ASSUME StoreTypes, UNCHANGED <<dir, journal>>,
         \A k \in DOMAIN journal : journal[k]["state"] # None =>
           data'[journal[k]["state"]].is = data[journal[k]["state"]].is
  PROVE  Files' = Files /\ Current' = Current
<1>1. Len(journal) \in DOMAIN journal /\ journal[Len(journal)] = dir
  BY DEF StoreTypes
<1>2. \A k \in DOMAIN journal : FileOf(journal[k], data') = FileOf(journal[k], data)
  BY DEF FileOf
<1>3. Current' = Current
  BY <1>1, <1>2 DEF Current, FileOf
<1>4. Files' = Files
  BY <1>2 DEF Files, FileOf
<1> QED BY <1>3, <1>4

\* One directory more.
LEMMA OneFileMore ==
  ASSUME StoreTypes, NEW d \in Directories, Enter(d),
         \A k \in DOMAIN journal : journal[k]["state"] # None =>
           data'[journal[k]["state"]].is = data[journal[k]["state"]].is
  PROVE  Files' = Files \cup {Current'} /\ Current' = FileOf(d, data')
<1>1. /\ dir' = d /\ DOMAIN journal = 1 .. Len(journal) /\ Len(journal) \in Nat \ {0}
      /\ DOMAIN journal' = 1 .. Len(journal) + 1 /\ journal'[Len(journal) + 1] = d
      /\ \A k \in DOMAIN journal : journal'[k] = journal[k] /\ k \in DOMAIN journal'
  BY Enters
<1>2. \A k \in DOMAIN journal' : k \in DOMAIN journal \/ k = Len(journal) + 1
  BY <1>1
<1>3. Len(journal) + 1 \in DOMAIN journal'
  BY <1>1
<1>4. Current' = FileOf(d, data')
  BY <1>1 DEF Current, FileOf
<1>5. \A k \in DOMAIN journal : FileOf(journal'[k], data') = FileOf(journal[k], data)
  BY <1>1 DEF FileOf
<1>6. Files' = {FileOf(journal'[k], data') : k \in DOMAIN journal'}
  BY DEF Files, FileOf
<1>7. Files' \subseteq Files \cup {Current'}
  <2> SUFFICES ASSUME NEW k \in DOMAIN journal' PROVE FileOf(journal'[k], data') \in Files \cup {Current'}
    BY <1>6
  <2>1. CASE k \in DOMAIN journal
    BY <1>5, <2>1 DEF Files
  <2>2. CASE k = Len(journal) + 1
    BY <1>1, <1>4, <2>2
  <2> QED BY <1>2, <2>1, <2>2
<1>8. Files \cup {Current'} \subseteq Files'
  <2>1. \A k \in DOMAIN journal : FileOf(journal[k], data) \in Files'
    BY <1>1, <1>5, <1>6
  <2>2. Current' \in Files'
    BY <1>1, <1>3, <1>4, <1>6
  <2> QED BY <2>1, <2>2 DEF Files
<1> QED BY <1>4, <1>7, <1>8

\* While a save writes its file the state's does not move.
LEMMA SavingKeepsFiles ==
  ASSUME Proc = {Whose}, DiskStands, Create(Whose) \/ Write(Whose) \/ Sync(Whose)
  PROVE  Files' = Files /\ Current' = Current
<1>1. StoreTypes /\ TmpApart /\ TmpInHand /\ Len(journal) \in DOMAIN journal /\ journal[Len(journal)] = dir
  BY DEF DiskStands, StoreTypes
<1>2. CASE Create(Whose)
  <2>1. PICK i \in Inode :
          /\ IF dir["tmp"] # None THEN i = dir["tmp"]
             ELSE \A n \in Name : dir[n] # i /\ \A k \in DOMAIN journal : journal[k][n] # i
          /\ IF dir["tmp"] # None THEN UNCHANGED <<dir, journal>> ELSE Enter([dir EXCEPT !["tmp"] = i])
          /\ data' = [data EXCEPT ![i] = [is |-> <<>>, safe |-> FALSE]]
    BY <1>2 DEF Create
  <2>2. \A k \in DOMAIN journal : journal[k]["state"] # i /\ journal[k]["bad"] # i
    <3>1. CASE dir["tmp"] # None
      BY <1>1, <2>1, <3>1, HandApart
    <3>2. CASE dir["tmp"] = None
      BY <2>1, <3>2 DEF Name
    <3> QED BY <3>1, <3>2
  <2>3. \A k \in DOMAIN journal : journal[k]["state"] # None =>
          data'[journal[k]["state"]].is = data[journal[k]["state"]].is
    <3>1. \A j \in Inode : j # i => data'[j] = data[j]
      BY <1>1, <2>1 DEF StoreTypes
    <3> QED BY <1>1, <2>2, <3>1, WritesApart
  <2>4. CASE dir["tmp"] # None
    BY <1>1, <2>1, <2>3, <2>4, SameFiles
  <2>5. CASE dir["tmp"] = None
    <3> DEFINE d == [dir EXCEPT !["tmp"] = i]
    <3>1. d \in Directories /\ d["state"] = dir["state"] /\ Enter(d)
      BY <1>1, <2>1, <2>5 DEF StoreTypes, Directories, Name
    <3> HIDE DEF d
    <3>2. Files' = Files \cup {Current'} /\ Current' = FileOf(d, data')
      BY <1>1, <2>3, <3>1, OneFileMore
    <3>3. Current' = Current
      BY <1>1, <2>3, <3>1, <3>2 DEF Current, FileOf
    <3> QED BY <1>1, <3>2, <3>3, CurrentIsOne
  <2> QED BY <2>4, <2>5
<1>3. CASE Write(Whose) \/ Sync(Whose)
  <2>1. tmp[Whose] = dir["tmp"] /\ dir["tmp"] # None /\ UNCHANGED <<dir, journal>>
    BY <1>1, <1>3 DEF Write, Sync, TmpInHand
  <2>2. \A j \in Inode : j # tmp[Whose] => data'[j] = data[j]
    BY <1>1, <1>3 DEF Write, Sync, StoreTypes
  <2>3. \A k \in DOMAIN journal : journal[k]["state"] # None =>
          data'[journal[k]["state"]].is = data[journal[k]["state"]].is
    BY <1>1, <2>1, <2>2, HandApart, WritesApart
  <2> QED BY <1>1, <2>1, <2>3, SameFiles
<1> QED BY <1>2, <1>3

LEMMA RenameFiles ==
  ASSUME Proc = {Whose}, DiskStands, Rename(Whose)
  PROVE  Current' = <<data[tmp[Whose]].is>> /\ Files' = Files \cup {Current'}
<1> DEFINE d == Moved(dir, "tmp", "state")
<1>1. StoreTypes /\ dir["tmp"] = tmp[Whose] /\ dir["tmp"] # None /\ data' = data /\ Enter(d)
  BY DEF DiskStands, TmpInHand, Rename
<1>2. d \in Directories /\ d["state"] = dir["tmp"]
  BY <1>1 DEF StoreTypes, Directories, Name, Moved
<1> HIDE DEF d
<1>3. Files' = Files \cup {Current'} /\ Current' = FileOf(d, data')
  BY <1>1, <1>2, OneFileMore
<1> QED BY <1>1, <1>2, <1>3 DEF FileOf

LEMMA QuarantineFiles ==
  ASSUME Proc = {Whose}, DiskStands, Quarantine(Whose)
  PROVE  \/ Current' = <<>> /\ Files' = Files \cup {Current'}
         \/ Current' = Current /\ Files' = Files
<1>1. StoreTypes /\ data' = data
  BY DEF DiskStands, Quarantine
<1>2. CASE UNCHANGED <<dir, journal>>
  BY <1>1, <1>2, SameFiles
<1>3. CASE Enter(Moved(dir, "state", "bad"))
  <2> DEFINE d == Moved(dir, "state", "bad")
  <2>1. d \in Directories /\ d["state"] = None
    BY <1>1 DEF StoreTypes, Directories, Name, Moved
  <2> HIDE DEF d
  <2>2. Files' = Files \cup {Current'} /\ Current' = FileOf(d, data')
    BY <1>1, <1>3, <2>1, OneFileMore DEF d
  <2> QED BY <2>1, <2>2 DEF FileOf
<1> QED BY <1>2, <1>3 DEF Quarantine

\* A directory of the journal is all there is, with the files its names lead to.
LEMMA OneFileLeft ==
  ASSUME StoreTypes, TmpApart, NEW k \in DOMAIN journal, dir' = journal[k], journal' = <<journal[k]>>,
         journal[k]["state"] # None => data'[journal[k]["state"]].is = data[journal[k]["state"]].is
  PROVE  Current' = FileOf(journal[k], data) /\ Files' = {Current'}
<1>1. DOMAIN journal' = {1} /\ journal'[1] = journal[k]
  BY ComesTo
<1>2. Current' = FileOf(journal[k], data)
  BY DEF Current, FileOf
<1>3. Files' = {Current'}
  BY <1>1 DEF Files, Current, FileOf
<1> QED BY <1>2, <1>3

LEMMA SettleFiles ==
  ASSUME DiskStands, Settle
  PROVE  Current' = Current /\ Files' = {Current}
<1>1. StoreTypes /\ TmpApart /\ Len(journal) \in DOMAIN journal /\ journal[Len(journal)] = dir
  BY DEF DiskStands, StoreTypes
<1>2. dir' = dir /\ journal' = <<dir>> /\ data' = data
  BY DEF Settle
<1> QED BY <1>1, <1>2, OneFileLeft DEF Current

LEMMA PowerCutFiles ==
  ASSUME DiskStands, PowerCut
  PROVE  Current' \in Files /\ Files' = {Current'}
<1>1. StoreTypes /\ TmpApart /\ StatesSafe
  BY DEF DiskStands
<1>2. PICK k \in DOMAIN journal : dir' = journal[k] /\ journal' = <<journal[k]>>
  BY DEF PowerCut
<1>3. PICK i \in Inode : \E x \in Torn(i) :
        data' = [j \in Inode |-> IF j = i THEN [is |-> x, safe |-> TRUE] ELSE [is |-> data[j].is, safe |-> TRUE]]
  BY DEF PowerCut
<1> PICK left \in Torn(i) :
        data' = [j \in Inode |-> IF j = i THEN [is |-> left, safe |-> TRUE] ELSE [is |-> data[j].is, safe |-> TRUE]]
  BY <1>3
<1>4. data[i].safe => left = data[i].is
  BY DEF Torn
<1>5. journal[k]["state"] # None => data'[journal[k]["state"]].is = data[journal[k]["state"]].is
  <2>1. journal[k] \in Directories
    BY <1>1 DEF StoreTypes
  <2>2. journal[k]["state"] # None => journal[k]["state"] \in Inode /\ data[journal[k]["state"]].safe
    BY <1>1, <2>1 DEF StatesSafe, Directories, Name
  <2> QED BY <1>4, <2>2
<1>6. Current' = FileOf(journal[k], data) /\ Files' = {Current'}
  BY <1>1, <1>2, <1>5, OneFileLeft
<1> QED BY <1>6 DEF Files

\* What is whole encodes, and reads as a document or not at all.
LEMMA WholeReads ==
  ASSUME CodecIsExact, NEW file \in WholeFile
  PROVE  /\ Reading[file] = Decode(file)
         /\ Decode(file) # None => /\ Decode(file) \in AnyDoc \ {None} /\ Decode(file) # Absent
                                   /\ Kept(Version, Decode(file)) = Decode(file)
<1>1. file \in DOMAIN Reading
  <2>1. CASE file \in FirstFile \ {None}
    BY <2>1 DEF Reading
  <2>2. CASE file \in Encoded
    <3>1. PICK d \in AnyDoc \ {None} : Encodes(d) /\ file = Encode(d)
      BY <2>2 DEF Encoded
    <3>2. file \in Seq(Range(file))
      BY <3>1 DEF CodecIsExact
    <3>3. Len(file) \in 0 .. Len(file) /\ SubSeq(file, 1, Len(file)) = file
      <4> DEFINE R == Range(file)
      <4>1. file \in Seq(R)
        BY <3>2
      <4> HIDE DEF R
      <4> QED BY <4>1
    <3>4. file \in Fronts(Encode(d))
      BY <3>1, <3>3 DEF Fronts
    <3> QED BY <3>4 DEF Reading
  <2> QED BY <2>1, <2>2 DEF WholeFile
<1>2. Reading[file] = Decode(file)
  BY <1>1 DEF Reading
<1> QED BY <1>2 DEF CodecIsExact

\* What a session may hold goes into a file that reads as it.
LEMMA EncodedReads ==
  ASSUME CodecIsExact, NEW d \in AnyDoc \ {None}, Encodes(d)
  PROVE  /\ Encode(d) \in Encoded /\ Encode(d) \in WholeFile /\ Encode(d) # <<>>
         /\ Reading[Encode(d)] = Kept(Version, d) /\ Kept(Version, d) # None
<1>1. Encode(d) \in Encoded /\ Encode(d) \in WholeFile
  BY DEF Encoded, WholeFile
<1>2. Encode(d) # <<>> /\ Decode(Encode(d)) = Kept(Version, d) /\ Kept(Version, d) # None
  BY DEF CodecIsExact
<1> QED BY <1>1, <1>2, WholeReads

LEMMA EncodedWhole ==
  ASSUME CodecIsExact, NEW file \in Encoded
  PROVE  /\ file \in WholeFile /\ file # <<>> /\ Reading[file] # None
         /\ SubSeq(file, 1, Len(file)) = file
<1>1. PICK d \in AnyDoc \ {None} : Encodes(d) /\ file = Encode(d)
  BY DEF Encoded
<1>2. file \in Seq(Range(file))
  BY <1>1 DEF CodecIsExact
<1>3. SubSeq(file, 1, Len(file)) = file
  <2> DEFINE R == Range(file)
  <2>1. file \in Seq(R)
    BY <1>2
  <2> HIDE DEF R
  <2> QED BY <2>1
<1> QED BY <1>1, <1>3, EncodedReads

LEMMA CurrentWhole ==
  ASSUME DiskStands, FileStands, dir["state"] # None
  PROVE  Current = <<Contents("state")>> /\ Contents("state") \in WholeFile
<1>1. Current = <<Contents("state")>>
  BY DEF Current, FileOf, Contents
<1>2. Current \in WholeOrNone
  BY CurrentIsOne DEF DiskStands, FileStands
<1>3. Current # <<>> /\ Current[1] = Contents("state")
  BY <1>1
<1>4. PICK file \in WholeFile : Current = <<file>>
  BY <1>2, <1>3 DEF WholeOrNone
<1>5. Current[1] = file
  BY <1>4
<1> QED BY <1>1, <1>3, <1>5

\* What a boot leaves in the session, and what a session leaves in the file.
LEMMA SessionStands ==
  ASSUME Proc = {Whose}, CodecIsExact, DiskStands, FileStands, StoreNext
  PROVE  SessionHolds'
<1>1. StoreTypes /\ SessionHolds /\ TmpInHand
  BY DEF DiskStands, FileStands
<1>2. FreshDoc \in AnyDoc \ {None} /\ DocSet \subseteq AnyDoc \ {None}
  BY StoreAssumption DEF AnyDoc
<1>3. CASE Load(Whose)
  <2>1. /\ pc[Whose] = "off" /\ out' = out /\ out[Whose] = <<>>
        /\ \/ dir["state"] = None /\ mem'[Whose] = FreshDoc /\ pc'[Whose] = "run"
           \/ /\ dir["state"] # None /\ Decode(Contents("state")) # None
              /\ mem'[Whose] = Decode(Contents("state")) /\ pc'[Whose] = "run"
           \/ mem'[Whose] = FreshDoc /\ pc'[Whose] = "aside"
    BY <1>1, <1>3 DEF Load, At, StoreTypes, SessionHolds, Saving
  <2>2. mem'[Whose] \in AnyDoc \ {None}
    BY <1>2, <2>1, CurrentWhole, WholeReads
  <2> QED BY <2>1, <2>2 DEF SessionHolds, Saving
<1>4. CASE Quarantine(Whose)
  BY <1>1, <1>4 DEF Quarantine, At, StoreTypes, SessionHolds, Saving
<1>5. CASE \E doc \in DocSet : Edit(Whose, doc)
  BY <1>1, <1>2, <1>5 DEF Edit, disk, StoreTypes, SessionHolds, Saving
<1>6. CASE Save(Whose)
  <2>1. pc[Whose] = "run" /\ mem' = mem /\ mem[Whose] \in AnyDoc \ {None}
    BY <1>1, <1>6 DEF Save, SessionHolds
  <2>2. \/ Encodes(mem[Whose]) /\ out'[Whose] = Encode(mem[Whose]) /\ pc'[Whose] = "create"
        \/ UNCHANGED <<out, pc>>
    BY <1>1, <1>6 DEF Save, At, StoreTypes
  <2>3. UNCHANGED <<out, pc>> \/ out'[Whose] \in Encoded
    BY <2>1, <2>2, EncodedReads
  <2> QED BY <1>1, <2>1, <2>2, <2>3 DEF SessionHolds, Saving
<1>7. CASE Create(Whose)
  BY <1>1, <1>7 DEF Create, At, StoreTypes, SessionHolds, Saving
<1>8. CASE Write(Whose)
  <2> DEFINE so == Len(data[tmp[Whose]].is)
             upto == IF so + Chunk < Len(out[Whose]) THEN so + Chunk ELSE Len(out[Whose])
  <2>1. /\ pc[Whose] = "write" /\ UNCHANGED <<mem, out, tmp>> /\ out[Whose] \in Encoded
        /\ data' = [data EXCEPT ![tmp[Whose]] = [is |-> SubSeq(out[Whose], 1, upto), safe |-> FALSE]]
        /\ \/ upto = Len(out[Whose]) /\ pc'[Whose] = "sync"
           \/ pc'[Whose] = "write"
    BY <1>1, <1>8 DEF Write, At, StoreTypes, SessionHolds, Saving
  <2> HIDE DEF upto
  <2>2. tmp[Whose] \in Inode
    BY <1>1, <2>1 DEF StoreTypes, TmpInHand, Directories, Name
  <2>3. pc'[Whose] = "sync" => data'[tmp[Whose]].is = out[Whose]
    BY <1>1, <2>1, <2>2, EncodedWhole DEF StoreTypes
  <2> QED BY <1>1, <2>1, <2>3 DEF SessionHolds, Saving
<1>9. CASE Sync(Whose)
  <2>1. tmp[Whose] \in Inode
    BY <1>1, <1>9 DEF StoreTypes, TmpInHand, Directories, Name, Sync
  <2>2. /\ pc[Whose] = "sync" /\ pc'[Whose] = "rename" /\ UNCHANGED <<mem, out, tmp>>
        /\ data'[tmp[Whose]].is = data[tmp[Whose]].is
    BY <1>1, <1>9, <2>1 DEF Sync, At, StoreTypes
  <2> QED BY <1>1, <2>2 DEF SessionHolds, Saving
<1>10. CASE Rename(Whose) \/ Fail(Whose)
  BY <1>1, <1>10 DEF Rename, Fail, At, StoreTypes, SessionHolds, Saving
<1>11. CASE Quit(Whose) \/ Kill(Whose)
  BY <1>1, <1>11 DEF Quit, Kill, Off, StoreTypes, SessionHolds, Saving
<1>12. CASE Settle
  BY <1>1, <1>12 DEF Settle, SessionHolds, Saving
<1>13. CASE PowerCut
  BY <1>1, <1>13 DEF PowerCut, SessionHolds, Saving
<1> QED BY <1>3, <1>4, <1>5, <1>6, <1>7, <1>8, <1>9, <1>10, <1>11, <1>12, <1>13 DEF StoreNext

\* The steps that leave the disk alone.
LEMMA SessionKeepsFiles ==
  ASSUME DiskStands,
         \/ Load(Whose) \/ \E doc \in DocSet : Edit(Whose, doc)
         \/ Save(Whose) \/ Fail(Whose) \/ Quit(Whose) \/ Kill(Whose)
  PROVE  Files' = Files /\ Current' = Current
<1>1. StoreTypes /\ UNCHANGED <<dir, journal, data>>
  BY DEF DiskStands, Load, Edit, Save, Fail, Quit, Kill, disk
<1> QED BY <1>1, SameFiles

\* The invariant of the file: it is whole under every directory there may be.
LEMMA FileHolds == ASSUME Proc = {Whose}, CodecIsExact PROVE StoreSpec => [](DiskStands /\ FileStands)
<1>1. StoreInit => DiskStands /\ FileStands
  <2> SUFFICES ASSUME StoreInit PROVE FileStands
    BY DiskStarts
  <2>1. SessionHolds
    BY DEF StoreInit, SessionHolds, Saving
  <2>2. PICK file \in FirstFile, i \in Inode :
          /\ dir = [n \in Name |-> IF n = "state" /\ file # None THEN i ELSE None]
          /\ data = [x \in Inode |-> [is |-> IF x = i /\ file # None THEN file ELSE <<>>, safe |-> TRUE]]
    BY DEF StoreInit
  <2>3. DOMAIN journal = {1} /\ journal[1] = dir
    BY DEF StoreInit
  <2>4. Files = {Current}
    BY <2>3 DEF Files, Current
  <2>5. Current \in WholeOrNone
    BY <2>2, StoreAssumption DEF Current, FileOf, WholeOrNone, WholeFile, Name
  <2> QED BY <2>1, <2>4, <2>5 DEF FileStands
<1>2. DiskStands /\ [StoreNext]_storeVars => DiskStands'
  BY DiskKeeps
<1>3. DiskStands /\ FileStands /\ [StoreNext]_storeVars => FileStands'
  <2> SUFFICES ASSUME DiskStands, FileStands, [StoreNext]_storeVars PROVE FileStands'
    OBVIOUS
  <2>1. StoreTypes /\ Files \subseteq WholeOrNone /\ SessionHolds /\ Current \in Files
    BY CurrentIsOne DEF DiskStands, FileStands
  <2>2. <<>> \in WholeOrNone
    BY DEF WholeOrNone
  <2>3. CASE StoreNext
    <3>1. SessionHolds'
      BY <2>3, SessionStands
    <3>2. CASE \/ Load(Whose) \/ \E doc \in DocSet : Edit(Whose, doc)
               \/ Save(Whose) \/ Fail(Whose) \/ Quit(Whose) \/ Kill(Whose)
      BY <2>1, <3>1, <3>2, SessionKeepsFiles DEF FileStands
    <3>3. CASE Quarantine(Whose)
      BY <2>1, <2>2, <3>1, <3>3, QuarantineFiles DEF FileStands
    <3>4. CASE Create(Whose) \/ Write(Whose) \/ Sync(Whose)
      BY <2>1, <3>1, <3>4, SavingKeepsFiles DEF FileStands
    <3>5. CASE Rename(Whose)
      <4>1. data[tmp[Whose]].is \in Encoded
        BY <2>1, <3>5 DEF Rename, SessionHolds, Saving
      <4>2. Current' = <<data[tmp[Whose]].is>> /\ Files' = Files \cup {Current'}
        BY <3>5, RenameFiles
      <4>3. Current' \in WholeOrNone
        BY <4>1, <4>2 DEF WholeOrNone, WholeFile
      <4> QED BY <2>1, <3>1, <4>2, <4>3 DEF FileStands
    <3>6. CASE Settle
      BY <2>1, <3>1, <3>6, SettleFiles DEF FileStands
    <3>7. CASE PowerCut
      BY <2>1, <3>1, <3>7, PowerCutFiles DEF FileStands
    <3> QED BY <2>3, <3>2, <3>3, <3>4, <3>5, <3>6, <3>7 DEF StoreNext
  <2>4. CASE UNCHANGED storeVars
    BY <2>1, <2>4 DEF storeVars, FileStands, Files, Current, FileOf, SessionHolds
  <2> QED BY <2>3, <2>4
<1> QED BY <1>1, <1>2, <1>3, PTL DEF StoreSpec

-----------------------------------------------------------------------------
(* The file keeps the promise of SavedState.                               *)

\* What a session would find in it.
Told(found) == IF found = <<>> THEN Absent
               ELSE IF Reading[found[1]] = None THEN Unreadable ELSE Reading[found[1]]

Kepts == Told(Current)

Earliers == {Told(found) : found \in Files}

Session == IF pc[Whose] = "aside" THEN None ELSE mem[Whose]

Underway == IF out[Whose] = <<>> THEN None ELSE Reading[out[Whose]]

LEMMA SeenFile ==
  ASSUME NEW d, NEW contents
  PROVE  Told(FileOf(d, contents)) =
           CASE d["state"] = None -> Absent
             [] d["state"] # None /\ Reading[contents[d["state"]].is] = None -> Unreadable
             [] OTHER -> Reading[contents[d["state"]].is]
BY DEF Told, FileOf

LEMMA SeenAs ==
  /\ Held(dir) = Kepts /\ {Held(journal[k]) : k \in DOMAIN journal} = Earliers
  /\ Held(dir)' = Kepts' /\ {Held(journal[k]) : k \in DOMAIN journal}' = Earliers'
<1>1. Held(dir) = Kepts
  BY DEF Held, Kepts, Told, Current, FileOf
<1>2. {Held(journal[k]) : k \in DOMAIN journal} = Earliers
  BY SeenFile DEF Held, Earliers, Files
<1>3. Held(dir)' = Kepts'
  BY DEF Held, Kepts, Told, Current, FileOf
<1>4. {Held(journal[k]) : k \in DOMAIN journal}' = Earliers'
  BY SeenFile DEF Held, Earliers, Files
<1> QED BY <1>1, <1>2, <1>3, <1>4


LEMMA KeptNow ==
  ASSUME CodecIsExact, DiskStands, FileStands
  PROVE  /\ dir["state"] = None => Kepts = Absent
         /\ dir["state"] # None =>
              /\ Decode(Contents("state")) = None => Kepts = Unreadable
              /\ Decode(Contents("state")) # None =>
                   /\ Kepts = Decode(Contents("state")) /\ Kepts \in AnyDoc \ {None} /\ Kepts # Absent
                   /\ Kept(Version, Kepts) = Kepts
<1>1. CASE dir["state"] = None
  BY <1>1 DEF Kepts, Told, Current, FileOf
<1>2. CASE dir["state"] # None
  <2> DEFINE file == Contents("state")
  <2>1. Current = <<file>> /\ file \in WholeFile
    BY <1>2, CurrentWhole
  <2> HIDE DEF file
  <2>2. /\ Reading[file] = Decode(file)
        /\ Decode(file) # None => /\ Decode(file) \in AnyDoc \ {None} /\ Decode(file) # Absent
                                  /\ Kept(Version, Decode(file)) = Decode(file)
    BY <2>1, WholeReads
  <2>3. Kepts = IF Decode(file) = None THEN Unreadable ELSE Decode(file)
    BY <2>1, <2>2 DEF Kepts, Told
  <2> QED BY <1>2, <2>2, <2>3 DEF file
<1> QED BY <1>1, <1>2

\* A step of a boot starts the session of the promise, or comes before it.
LEMMA BootMaps ==
  ASSUME Proc = {Whose}, CodecIsExact, DiskStands, FileStands, Load(Whose) \/ Quarantine(Whose)
  PROVE  Saved!Start \/ UNCHANGED <<Kepts, Earliers, Session, Underway>>
<1>1. StoreTypes /\ TmpInHand /\ SessionHolds
  BY DEF DiskStands, FileStands
<1>2. CASE Load(Whose)
  <2>1. Kepts' = Kepts /\ Earliers' = Earliers
    BY <1>2, SessionKeepsFiles DEF Kepts, Earliers
  <2>2. Session = None /\ Underway' = Underway
    BY <1>1, <1>2 DEF Load, Session, Underway, SessionHolds
  <2>3. CASE dir["state"] = None /\ mem'[Whose] = FreshDoc /\ pc'[Whose] = "run"
    <3>1. Kepts = Absent /\ Session' = FreshDoc
      BY <2>3, KeptNow DEF Session
    <3> QED BY <2>1, <2>2, <3>1, SeenAs DEF Saved!Start, Session, Underway
  <2>4. CASE /\ dir["state"] # None /\ Decode(Contents("state")) # None
             /\ mem'[Whose] = Decode(Contents("state")) /\ pc'[Whose] = "run"
    <3>1. Kepts \in AnyDoc \ {None} /\ Session' = Kept(Version, Kepts)
      BY <2>4, KeptNow DEF Session
    <3> QED BY <2>1, <2>2, <3>1, SeenAs DEF Saved!Start, Session, Underway
  <2>5. CASE pc'[Whose] = "aside"
    BY <2>1, <2>2, <2>5 DEF Session
  <2> QED BY <1>1, <1>2, <2>3, <2>4, <2>5 DEF Load, At, StoreTypes
<1>3. CASE Quarantine(Whose)
  <2>1. Session = None /\ Session' = FreshDoc /\ Underway' = Underway
    BY <1>1, <1>3 DEF Quarantine, At, Session, Underway, SessionHolds, StoreTypes
  <2>2. Kepts # Absent
    <3>1. dir["state"] # None
      BY <1>1, <1>3 DEF TmpInHand, Quarantine
    <3> QED BY <3>1, KeptNow, StoreAssumption
  <2>3. \/ Kepts' = Absent /\ Earliers' = Earliers \cup {Absent}
        \/ Kepts' = Kepts /\ Earliers' = Earliers
    <3>1. CASE Current' = <<>> /\ Files' = Files \cup {Current'}
      BY <3>1 DEF Kepts, Earliers, Told
    <3>2. CASE Current' = Current /\ Files' = Files
      BY <3>2 DEF Kepts, Earliers
    <3> QED BY <1>3, <3>1, <3>2, QuarantineFiles
  <2> QED BY <2>1, <2>2, <2>3, SeenAs DEF Saved!Start, Session, Underway
<1> QED BY <1>2, <1>3

LEMMA EditMaps ==
  ASSUME Proc = {Whose}, DiskStands, FileStands, NEW doc \in DocSet, Edit(Whose, doc)
  PROVE  Saved!Change
<1>1. StoreTypes /\ SessionHolds
  BY DEF DiskStands, FileStands
<1>2. Kepts' = Kepts /\ Earliers' = Earliers
  BY SessionKeepsFiles DEF Kepts, Earliers
<1>3. Session # None /\ Session' = doc /\ Underway' = Underway
  BY <1>1 DEF Edit, Session, Underway, SessionHolds, StoreTypes
<1>4. doc \in AnyDoc \ {None}
  BY StoreAssumption DEF AnyDoc
<1> QED BY <1>2, <1>3, <1>4, SeenAs DEF Saved!Change, Session, Underway

\* A save that encodes is under way from its beginning to its rename.
LEMMA SaveMaps ==
  ASSUME Proc = {Whose}, CodecIsExact, DiskStands, FileStands, Save(Whose)
  PROVE  Saved!Begin \/ UNCHANGED <<Kepts, Earliers, Session, Underway>>
<1>1. StoreTypes /\ SessionHolds
  BY DEF DiskStands, FileStands
<1>2. Kepts' = Kepts /\ Earliers' = Earliers
  BY SessionKeepsFiles DEF Kepts, Earliers
<1>3. mem[Whose] \in AnyDoc \ {None} /\ mem' = mem /\ pc[Whose] = "run"
  BY <1>1 DEF Save, SessionHolds
<1>4. CASE Encodes(mem[Whose]) /\ out'[Whose] = Encode(mem[Whose]) /\ pc'[Whose] = "create"
  <2>1. Session # None /\ Session' = Session /\ Session = mem[Whose]
    BY <1>3, <1>4 DEF Session
  <2>2. Underway' = Kept(Version, Session)
    BY <1>3, <1>4, <2>1, EncodedReads DEF Underway
  <2> QED BY <1>2, <2>1, <2>2, SeenAs DEF Saved!Begin, Session, Underway
<1>5. CASE UNCHANGED <<out, pc>>
  BY <1>2, <1>3, <1>5 DEF Session, Underway
<1> QED BY <1>1, <1>4, <1>5 DEF Save, At, StoreTypes

LEMMA SavingMaps ==
  ASSUME Proc = {Whose}, DiskStands, FileStands, Create(Whose) \/ Write(Whose) \/ Sync(Whose)
  PROVE  UNCHANGED <<Kepts, Earliers, Session, Underway>>
<1>1. Kepts' = Kepts /\ Earliers' = Earliers
  BY SavingKeepsFiles DEF Kepts, Earliers
<1>2. StoreTypes /\ UNCHANGED <<mem, out>> /\ pc[Whose] # "aside"
  BY DEF DiskStands, Create, Write, Sync
<1>3. pc'[Whose] # "aside"
  BY <1>2 DEF Create, Write, Sync, At, StoreTypes
<1> QED BY <1>1, <1>2, <1>3 DEF Session, Underway

LEMMA RenameMaps ==
  ASSUME Proc = {Whose}, CodecIsExact, DiskStands, FileStands, Rename(Whose)
  PROVE  Saved!Commit
<1>1. StoreTypes /\ SessionHolds
  BY DEF DiskStands, FileStands
<1>2. /\ pc[Whose] = "rename" /\ pc'[Whose] = "run" /\ mem' = mem /\ out'[Whose] = <<>>
      /\ out[Whose] \in Encoded /\ data[tmp[Whose]].is = out[Whose]
  BY <1>1 DEF Rename, At, StoreTypes, SessionHolds, Saving
<1> DEFINE file == out[Whose]
<1>3. Current' = <<file>> /\ Files' = Files \cup {<<file>>}
  BY <1>2, RenameFiles
<1>4. file # <<>> /\ Reading[file] # None
  BY <1>2, EncodedWhole
<1>5. Underway = Reading[file] /\ Underway' = None /\ Session' = Session
  BY <1>2, <1>4 DEF Underway, Session
<1> HIDE DEF file
<1>6. Told(<<file>>) = Reading[file]
  BY <1>4 DEF Told
<1>7. Kepts' = Underway /\ Earliers' = Earliers \cup {Underway} /\ Underway # None
  <2>1. Kepts' = Underway
    BY <1>3, <1>5, <1>6 DEF Kepts
  <2>2. Earliers' = Earliers \cup {Underway}
    BY <1>3, <1>5, <1>6 DEF Earliers
  <2> QED BY <1>4, <1>5, <2>1, <2>2
<1> QED BY <1>5, <1>7, SeenAs DEF Saved!Commit, Session, Underway

LEMMA EndMaps ==
  ASSUME Proc = {Whose}, DiskStands, Fail(Whose) \/ Quit(Whose) \/ Kill(Whose)
  PROVE  Saved!Fail \/ Saved!Stop
<1>1. StoreTypes
  BY DEF DiskStands
<1>2. Kepts' = Kepts /\ Earliers' = Earliers
  BY SessionKeepsFiles DEF Kepts, Earliers
<1>3. CASE Fail(Whose)
  <2>1. Session' = Session /\ Underway' = None
    BY <1>1, <1>3 DEF Fail, At, Session, Underway, StoreTypes
  <2> QED BY <1>2, <2>1, SeenAs DEF Saved!Fail, Session, Underway
<1>4. CASE Quit(Whose) \/ Kill(Whose)
  <2>1. Session' = None /\ Underway' = None
    BY <1>1, <1>4 DEF Quit, Kill, Off, Session, Underway, StoreTypes
  <2> QED BY <1>2, <2>1, SeenAs DEF Saved!Stop, Session, Underway
<1> QED BY <1>3, <1>4

LEMMA DiskMaps ==
  ASSUME Proc = {Whose}, DiskStands, Settle \/ PowerCut
  PROVE  Saved!Settle \/ Saved!PowerCut
<1>1. CASE Settle
  <2>1. Kepts' = Kepts /\ Earliers' = {Kepts}
    BY <1>1, SettleFiles DEF Kepts, Earliers
  <2>2. Session' = Session /\ Underway' = Underway
    BY <1>1 DEF Settle, Session, Underway
  <2> QED BY <2>1, <2>2, SeenAs DEF Saved!Settle, Session, Underway
<1>2. CASE PowerCut
  <2>1. Kepts' \in Earliers /\ Earliers' = {Kepts'}
    BY <1>2, PowerCutFiles DEF Kepts, Earliers
  <2>2. Session' = None /\ Underway' = None
    BY <1>2 DEF PowerCut, Session, Underway
  <2> QED BY <2>1, <2>2, SeenAs DEF Saved!PowerCut, Session, Underway
<1> QED BY <1>1, <1>2

\* The file of store.rs keeps the promise of SavedState: one that the codec
\* brings back exactly is written, renamed and read by one process, and a
\* session finds a whole document or none, the last one saved or, after a power
\* cut, one the disk had not moved on from.
THEOREM FileKeepsPromise == ASSUME Proc = {Whose}, CodecIsExact PROVE StoreSpec => FileIsWholeOrOld
<1> DEFINE view == <<Held(dir), {Held(journal[k]) : k \in DOMAIN journal},
                     IF pc[Whose] = "aside" THEN None ELSE mem[Whose],
                     IF out[Whose] = <<>> THEN None ELSE Reading[out[Whose]]>>
<1>1. StoreInit /\ DiskStands /\ FileStands => Saved!Init
  <2> SUFFICES ASSUME StoreInit, DiskStands, FileStands PROVE Saved!Init
    OBVIOUS
  <2>1. Kepts \in (AnyDoc \ {None}) \cup {Absent, Unreadable}
    BY KeptNow
  <2>2. Earliers = {Kepts}
    <3>1. DOMAIN journal = {1} /\ journal[1] = dir
      BY DEF StoreInit
    <3> QED BY <3>1 DEF Earliers, Files, Kepts, Current
  <2>3. Session = None /\ Underway = None
    BY DEF StoreInit, Session, Underway
  <2> QED BY <2>1, <2>2, <2>3, SeenAs DEF Saved!Init, Session, Underway
<1>2. DiskStands /\ FileStands /\ [StoreNext]_storeVars => [Saved!Next]_view
  <2> SUFFICES ASSUME DiskStands, FileStands, [StoreNext]_storeVars
               PROVE  Saved!Next \/ UNCHANGED <<Kepts, Earliers, Session, Underway>>
    BY SeenAs DEF Session, Underway
  <2>1. CASE Load(Whose) \/ Quarantine(Whose)
    BY <2>1, BootMaps DEF Saved!Next
  <2>2. CASE \E doc \in DocSet : Edit(Whose, doc)
    BY <2>2, EditMaps DEF Saved!Next
  <2>3. CASE Save(Whose)
    BY <2>3, SaveMaps DEF Saved!Next
  <2>4. CASE Create(Whose) \/ Write(Whose) \/ Sync(Whose)
    BY <2>4, SavingMaps
  <2>5. CASE Rename(Whose)
    BY <2>5, RenameMaps DEF Saved!Next
  <2>6. CASE Fail(Whose) \/ Quit(Whose) \/ Kill(Whose)
    BY <2>6, EndMaps DEF Saved!Next
  <2>7. CASE Settle \/ PowerCut
    BY <2>7, DiskMaps DEF Saved!Next
  <2>8. CASE UNCHANGED storeVars
    BY <2>8 DEF storeVars, Kepts, Earliers, Session, Underway, Current, Files, FileOf
  <2> QED BY <2>1, <2>2, <2>3, <2>4, <2>5, <2>6, <2>7, <2>8 DEF StoreNext
<1> QED BY <1>1, <1>2, FileHolds, PTL DEF StoreSpec, FileIsWholeOrOld, Saved!Spec

=============================================================================
