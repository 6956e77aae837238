------------------------------ MODULE Graphemes ------------------------------
(***************************************************************************)
(* Grapheme clusters: platform/grapheme.rs, which text is measured, cut     *)
(* and drawn by. The machine of UAX #29 takes a text one scalar at a time   *)
(* and says whether a cluster ends before it; the rules themselves, which   *)
(* look back as far as they like, are what it promises. The tables are      *)
(* parameters.                                                             *)
(***************************************************************************)
EXTENDS Integers, Sequences

CONSTANTS
  Scalar,                  \* the scalars a text is made of
  GCB_RANGES, INCB_RANGES, \* ranges of scalars as <<low, high, value>>
  EXTENDED_PICTOGRAPHIC,   \* ranges of scalars as <<low, high>>
  MaxText,                 \* bound: the length of the texts
  NoValue

\* The values of Grapheme_Cluster_Break and of Indic_Conjunct_Break.
Gcb == {"Other", "Cr", "Lf", "Control", "Extend", "Zwj", "RegionalIndicator", "Prepend", "SpacingMark",
        "L", "V", "T", "Lv", "Lvt"}

Incb == {"Consonant", "Extend", "Linker"}

\* The range that covers a scalar: the search of a sorted table finds it.
Covering(table, u) == {k \in DOMAIN table : table[k][1] <= u /\ u <= table[k][2]}

search(table, u) == IF Covering(table, u) = {} THEN NoValue ELSE table[CHOOSE k \in Covering(table, u) : TRUE][3]

gcb(c) == IF search(GCB_RANGES, c) = NoValue THEN "Other" ELSE search(GCB_RANGES, c)

incb(c) == search(INCB_RANGES, c)

is_extended_pictographic(c) == Covering(EXTENDED_PICTOGRAPHIC, c) # {}

\* "Sorted, non-overlapping, contiguous-merged ranges".
Ascending(table) ==
  \A k \in DOMAIN table : table[k][1] <= table[k][2] /\ \A j \in DOMAIN table : k < j => table[k][2] < table[j][1]

\* What the tables say of a letter, of breaks, accents and joiners, of Hangul,
\* of flags and faces and of a conjunct: a text of anything else is like one of
\* these.
GCB_EXCERPT ==
  << <<0, 9, "Control">>, <<10, 10, "Lf">>, <<13, 13, "Cr">>, <<768, 879, "Extend">>, <<1536, 1541, "Prepend">>,
     <<2307, 2307, "SpacingMark">>, <<2364, 2364, "Extend">>, <<2381, 2381, "Extend">>, <<4352, 4447, "L">>,
     <<4448, 4519, "V">>, <<4520, 4607, "T">>, <<8205, 8205, "Zwj">>, <<8400, 8432, "Extend">>,
     <<44032, 44032, "Lv">>, <<44033, 44059, "Lvt">>, <<65024, 65039, "Extend">>,
     <<127462, 127487, "RegionalIndicator">>, <<127995, 127999, "Extend">> >>

PICTOGRAPHIC_EXCERPT == << <<169, 169>>, <<127744, 127994>>, <<128000, 128253>> >>

INCB_EXCERPT ==
  << <<768, 879, "Extend">>, <<2325, 2361, "Consonant">>, <<2364, 2364, "Extend">>, <<2381, 2381, "Linker">>,
     <<8205, 8205, "Extend">>, <<8400, 8432, "Extend">>, <<65024, 65039, "Extend">>, <<127995, 127999, "Extend">> >>

\* An emoji has no value of its own among the break properties.
ASSUME TablesAssumption ==
  /\ MaxText \in Nat
  /\ NoValue \notin Gcb \cup Incb
  /\ \A t \in {GCB_RANGES, INCB_RANGES, EXTENDED_PICTOGRAPHIC} : Ascending(t)
  /\ \A k \in DOMAIN GCB_RANGES : GCB_RANGES[k][3] \in Gcb
  /\ \A k \in DOMAIN INCB_RANGES : INCB_RANGES[k][3] \in Incb
  /\ \A c \in Scalar : is_extended_pictographic(c) => gcb(c) = "Other"

-----------------------------------------------------------------------------
(* The machine.                                                            *)

VARIABLES
  text,      \* what has been taken of the text
  state,     \* BreakState
  start,     \* where the cluster that is accumulated starts
  clusters,  \* what has been yielded, as <<start, end>>
  done

graphemeVars == <<text, state, start, clusters, done>>

BreakState ==
  [prev : Gcb \cup {NoValue}, ri_run : Nat, ep_then_extend : BOOLEAN, zwj_after_ep : BOOLEAN,
   incb_run : BOOLEAN, incb_linker : BOOLEAN]

Fresh ==
  [prev |-> NoValue, ri_run |-> 0, ep_then_extend |-> FALSE, zwj_after_ep |-> FALSE,
   incb_run |-> FALSE, incb_linker |-> FALSE]

\* GB3 to GB999 between two scalars; the first that applies decides.
should_break(prev, cur, cur_ep, ri_run, zwj_after_ep, gb9c) ==
  IF prev = "Cr" /\ cur = "Lf" THEN FALSE
  ELSE IF prev \in {"Control", "Cr", "Lf"} \/ cur \in {"Control", "Cr", "Lf"} THEN TRUE
  ELSE /\ ~(prev = "L" /\ cur \in {"L", "V", "Lv", "Lvt"})
       /\ ~(prev \in {"Lv", "V"} /\ cur \in {"V", "T"})
       /\ ~(prev \in {"Lvt", "T"} /\ cur = "T")
       /\ cur \notin {"Extend", "Zwj", "SpacingMark"}
       /\ prev # "Prepend"
       /\ ~gb9c
       /\ ~(prev = "Zwj" /\ cur_ep /\ zwj_after_ep)
       /\ (prev = "RegionalIndicator" /\ cur = "RegionalIndicator" => ri_run % 2 = 0)

\* Broken variant of ep_then_extend_past: an emoji's modifier ends it.
ep_past(s, g, ep) == ep

\* \p{Extended_Pictographic} Extend* ends at a scalar of these properties.
ep_then_extend_past(s, g, ep) == ep \/ (g = "Extend" /\ s.ep_then_extend)

\* What the machine carries past a scalar of these properties.
advance(s, g, ep, ci) ==
  [prev |-> g,
   ri_run |-> IF g # "RegionalIndicator" THEN 0 ELSE IF s.prev = "RegionalIndicator" THEN s.ri_run + 1 ELSE 1,
   ep_then_extend |-> ep_then_extend_past(s, g, ep),
   zwj_after_ep |-> ~ep /\ g = "Zwj" /\ s.ep_then_extend,
   incb_run |-> ci = "Consonant" \/ (ci # NoValue /\ s.incb_run),
   incb_linker |-> CASE ci = "Linker" -> s.incb_linker \/ s.incb_run
                     [] ci = "Extend" -> s.incb_linker
                     [] OTHER         -> FALSE]

breaks_before(s, c) ==
  /\ s.prev # NoValue
  /\ should_break(s.prev, gcb(c), is_extended_pictographic(c), s.ri_run, s.zwj_after_ep,
                  s.incb_run /\ s.incb_linker /\ incb(c) = "Consonant")

\* One scalar of the text: a break closes the cluster before it.
Scan(c) ==
  /\ ~done /\ Len(text) < MaxText
  /\ text' = Append(text, c)
  /\ state' = advance(state, gcb(c), is_extended_pictographic(c), incb(c))
  /\ IF breaks_before(state, c)
     THEN start' = Len(text) /\ clusters' = Append(clusters, <<start, Len(text)>>)
     ELSE UNCHANGED <<start, clusters>>
  /\ UNCHANGED done

\* The last cluster runs to the end.
End ==
  /\ ~done
  /\ done' = TRUE
  /\ clusters' = IF start < Len(text) THEN Append(clusters, <<start, Len(text)>>) ELSE clusters
  /\ UNCHANGED <<text, state, start>>

\* The next text.
Begin ==
  /\ done
  /\ text' = <<>> /\ state' = Fresh /\ start' = 0 /\ clusters' = <<>> /\ done' = FALSE

GraphemeInit == text = <<>> /\ state = Fresh /\ start = 0 /\ clusters = <<>> /\ done = FALSE

GraphemeNext == (\E c \in Scalar : Scan(c)) \/ End \/ Begin

GraphemeSpec == GraphemeInit /\ [][GraphemeNext]_graphemeVars

-----------------------------------------------------------------------------
(* The rules: whether the scalars i and i + 1 of a text are of one cluster. *)

\* (RI RI)* RI x RI: an odd number of indicators ends at i.
Paired(t, i) ==
  \E k \in 1 .. i :
    /\ \A j \in k .. i : gcb(t[j]) = "RegionalIndicator"
    /\ k = 1 \/ gcb(t[k - 1]) # "RegionalIndicator"
    /\ (i + 1 - k) % 2 = 1

\* \p{Extended_Pictographic} Extend* ends at i.
Pictured(t, i) ==
  \E k \in 1 .. i : is_extended_pictographic(t[k]) /\ \A j \in k + 1 .. i : gcb(t[j]) = "Extend"

\* Consonant [Extend Linker]* ends at i, with a Linker or not.
Conjunct(t, i) ==
  \E k \in 1 .. i : incb(t[k]) = "Consonant" /\ \A j \in k + 1 .. i : incb(t[j]) \in {"Extend", "Linker"}

Linked(t, i) ==
  \E k \in 1 .. i :
    /\ incb(t[k]) = "Consonant" /\ \A j \in k + 1 .. i : incb(t[j]) \in {"Extend", "Linker"}
    /\ \E j \in k + 1 .. i : incb(t[j]) = "Linker"

Breaks == {"Control", "Cr", "Lf"}

Joined(t, i) ==
  LET a == gcb(t[i])
      b == gcb(t[i + 1])
  IN \/ a = "Cr" /\ b = "Lf"                                                    \* GB3
     \/ /\ a \notin Breaks /\ b \notin Breaks                                   \* GB4, GB5
        /\ \/ a = "L" /\ b \in {"L", "V", "Lv", "Lvt"}                          \* GB6
           \/ a \in {"Lv", "V"} /\ b \in {"V", "T"}                             \* GB7
           \/ a \in {"Lvt", "T"} /\ b = "T"                                     \* GB8
           \/ b \in {"Extend", "Zwj", "SpacingMark"} \/ a = "Prepend"           \* GB9, GB9a, GB9b
           \/ Linked(t, i) /\ incb(t[i + 1]) = "Consonant"                      \* GB9c
           \/ a = "Zwj" /\ i > 1 /\ Pictured(t, i - 1) /\ is_extended_pictographic(t[i + 1])  \* GB11
           \/ b = "RegionalIndicator" /\ Paired(t, i)                           \* GB12, GB13

\* The edges of the clusters of a text.
Boundaries(t) == {0, Len(t)} \cup {i \in 1 .. Len(t) - 1 : ~Joined(t, i)}

\* Clusters follow each other from the start of the text to where the last one
\* that is closed ends.
Tile ==
  /\ \A k \in DOMAIN clusters : clusters[k][1] < clusters[k][2]
  /\ \A k \in DOMAIN clusters : clusters[k][1] = IF k = 1 THEN 0 ELSE clusters[k - 1][2]
  /\ IF clusters = <<>> THEN start = 0
     ELSE clusters[Len(clusters)][2] = IF done THEN Len(text) ELSE start

\* "a cluster the grid assembles and a cluster the renderer segments can never
\* disagree about where it ends": what the machine decides scalar by scalar is
\* what the rules say of the whole text, and the clusters leave nothing out.
BreaksAsTheRulesSay ==
  /\ Tile
  /\ {clusters[k][2] : k \in DOMAIN clusters} \cup {0, Len(text)} = Boundaries(text)

=============================================================================
