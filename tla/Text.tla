--------------------------------- MODULE Text ---------------------------------
(***************************************************************************)
(* How a run of text is measured, cut and drawn, and where the caret goes   *)
(* in it: render/text.rs, platform/emoji.rs and the labels of               *)
(* render/paint.rs, over the clusters of Graphemes. Advances are whole      *)
(* pixels; outlines, colours and caches are left out.                      *)
(***************************************************************************)
EXTENDS Graphemes, FiniteSetsExt

CONSTANTS
  AdvanceOf,   \* a scalar's advance in the text's face, or in one that covers it
  MonoHas,     \* the scalars the text's own face draws
  EmojiFont,   \* whether the machine has a colour emoji font
  Formable,    \* the scalars it makes pictures of
  EM,          \* a picture's advance
  MaxMeasured  \* bound: the length of the texts that are measured

ELLIPSIS == 8230                      \* U+2026
TEXT_PRESENTATION == 65038            \* U+FE0E
PRESENTATION == {65039, 8419}         \* U+FE0F, and U+20E3 of the keycaps
INDICATORS == 127462 .. 127487        \* U+1F1E6 to U+1F1FF

wants_emoji(cluster) ==
  LET scalars == {cluster[k] : k \in DOMAIN cluster}
  IN /\ cluster # <<>> /\ TEXT_PRESENTATION \notin scalars
     /\ IF Len(cluster) = 1
        THEN is_extended_pictographic(cluster[1]) /\ cluster[1] \notin MonoHas
        ELSE scalars \cap PRESENTATION # {} \/ is_extended_pictographic(cluster[1]) \/ cluster[1] \in INDICATORS

\* A cluster is one picture, or its scalars one after the other.
color_glyph(cluster) ==
  EmojiFont /\ wants_emoji(cluster) /\ \A k \in DOMAIN cluster : cluster[k] \in Formable

cluster_advance(cluster) ==
  IF color_glyph(cluster) THEN EM ELSE MapThenSumSet(LAMBDA k : AdvanceOf[cluster[k]], DOMAIN cluster)

\* The clusters of a text as sequences of scalars.
Segmented(t) ==
  LET edges == Boundaries(t)
      at(k) == CHOOSE b \in edges : Cardinality({e \in edges : e < b}) = k
  IN IF t = <<>> THEN <<>> ELSE [k \in 1 .. Cardinality(edges) - 1 |-> SubSeq(t, at(k - 1) + 1, at(k))]

\* The first n clusters: how far they reach, and how many scalars they are.
Reach(cs, n, tracking) == MapThenSumSet(LAMBDA k : cluster_advance(cs[k]) + tracking, 1 .. n)

CharsOf(cs, n) == MapThenSumSet(LAMBDA k : Len(cs[k]), 1 .. n)

\* How many clusters come before the first that Stops.
Before(cs, Stops(_)) ==
  LET stops == {k \in DOMAIN cs : Stops(k)} IN IF stops = {} THEN Len(cs) ELSE Min(stops) - 1

text_width(cs, tracking) == Reach(cs, Len(cs), tracking)

\* Broken variant of x_at_char_offset: an offset within a cluster is at its right edge.
x_past_char_offset(cs, offset) == Reach(cs, Before(cs, LAMBDA k : CharsOf(cs, k - 1) >= offset), 0)

\* An offset within a cluster is at its left edge.
x_at_char_offset(cs, offset) == Reach(cs, Before(cs, LAMBDA k : CharsOf(cs, k) > offset), 0)

\* Broken variant of char_offset_at_x: a press anywhere on a cluster is before it.
char_offset_left_of_x(cs, x) ==
  CharsOf(cs, Before(cs, LAMBDA k : x < Reach(cs, k, 0)))

\* A press to the left of a cluster's middle is before it.
char_offset_at_x(cs, x) ==
  CharsOf(cs, Before(cs, LAMBDA k : 2 * x < 2 * Reach(cs, k - 1, 0) + cluster_advance(cs[k])))

\* Broken variant of truncate_to_width: the cluster that crosses the edge is kept.
truncate_past_width(cs, tracking, max_w) ==
  SubSeq(cs, 1, Before(cs, LAMBDA k : Reach(cs, k - 1, tracking) > max_w))

\* The clusters that have room, with the space after each.
truncate_to_width(cs, tracking, max_w) == SubSeq(cs, 1, Before(cs, LAMBDA k : Reach(cs, k, tracking) > max_w))

\* The clusters that are drawn in a width: the space after the last one needs
\* no room.
drawn(cs, tracking, max_width) ==
  Before(cs, LAMBDA k : Reach(cs, k - 1, tracking) + cluster_advance(cs[k]) > max_width)

Scalars(cs) == [n \in 1 .. CharsOf(cs, Len(cs)) |->
                  LET k == Min({k \in DOMAIN cs : CharsOf(cs, k) >= n}) IN cs[k][n - CharsOf(cs, k - 1)]]

\* A label that is too wide is cut to leave room for an ellipsis.
fit(cs, tracking, max_w) ==
  IF text_width(cs, tracking) <= max_w THEN cs
  ELSE LET room == max_w - (AdvanceOf[ELLIPSIS] + tracking)
       IN Segmented(Append(Scalars(truncate_to_width(cs, tracking, room)), ELLIPSIS))

-----------------------------------------------------------------------------
(* Correctness.                                                            *)

Distance(a, b) == IF a < b THEN b - a ELSE a - b

\* A caret stands between clusters, at the edge that is nearest to the press;
\* what a press on the caret gives is where the caret is; and an offset that is
\* within a cluster, as the editor's may be, is drawn at the cluster's left
\* edge.
CaretsLand ==
  LET cs    == Segmented(text)
      edges == Boundaries(text)
  IN /\ \A x \in 0 .. text_width(cs, 0) + 1 :
          LET o == char_offset_at_x(cs, x)
          IN /\ o \in edges
             /\ \A e \in edges : Distance(x, x_at_char_offset(cs, o)) <= Distance(x, x_at_char_offset(cs, e))
     /\ \A o \in 0 .. Len(text) :
          LET x == x_at_char_offset(cs, o)
          IN /\ x_at_char_offset(cs, char_offset_at_x(cs, x)) = x
             /\ x = x_at_char_offset(cs, Max({e \in edges : e <= o}))

\* A label is drawn to its end in the width it was cut for, if that has room
\* for the ellipsis at all; and it is not cut shorter than it has to be.
LabelsFit ==
  LET cs == Segmented(text)
  IN \A tracking \in 0 .. 1 : \A max_w \in AdvanceOf[ELLIPSIS] + tracking .. text_width(cs, tracking) :
       LET label == fit(cs, tracking, max_w)
           kept  == Len(truncate_to_width(cs, tracking, max_w - (AdvanceOf[ELLIPSIS] + tracking)))
       IN /\ text_width(label, tracking) <= max_w
          /\ drawn(label, tracking, max_w) = Len(label)
          /\ kept < Len(cs) => Reach(cs, kept + 1, tracking) + AdvanceOf[ELLIPSIS] + tracking > max_w

\* What is measured, cut and drawn is what was segmented.
TextIsSound == done /\ Len(text) <= MaxMeasured => CaretsLand /\ LabelsFit

=============================================================================
