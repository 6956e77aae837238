------------------------------- MODULE Palette -------------------------------
(***************************************************************************)
(* The command palette's list: command_palette.rs. Which commands a state  *)
(* offers and in which order, which of them a query keeps and how they     *)
(* rank, and which window of the list is on screen. A label is a sequence  *)
(* of characters spelled from its verb and its subjects.                   *)
(***************************************************************************)
EXTENDS Editor

CONSTANTS
  Space,         \* the character that separates the words of a query
  VerbLabel,     \* verb -> how it is written
  StreamLabel,   \* stream id -> how it is written
  VisibleRows,   \* rows the list shows at once
  MaxVisible     \* rows the list holds at most

ASSUME LabelAssumption ==
  /\ \A v \in DOMAIN VerbLabel : VerbLabel[v] \in Seq(Char)
  /\ \A id \in DOMAIN StreamLabel : StreamLabel[id] \in Seq(Char)
ASSUME RowsAssumption == VisibleRows \in Nat \ {0} /\ MaxVisible \in Nat \ {0}

Command(verb, of, to) == [verb |-> verb, of |-> of, to |-> to]

\* What a command is about is a profile's name, a stream or nothing.
Subject(c) ==
  CASE c.verb \in {"apply", "rename", "delete"} -> c.of
    [] c.of = None                              -> <<>>
    [] OTHER                                    -> StreamLabel[c.of]

Label(c) == VerbLabel[c.verb] \o Subject(c) \o (IF c.to = None THEN <<>> ELSE StreamLabel[c.to])

Each(s, Op(_)) == [i \in DOMAIN s |-> Op(s[i])]

Sorted(S, Before(_, _)) ==
  [n \in 1 .. Cardinality(S) |-> CHOOSE x \in S : Cardinality({y \in S : Before(y, x)}) = n - 1]

ById(streams) == Sorted(streams, LAMBDA a, b : a.id < b.id)

OfKind(streams, kind) == {s \in streams : s.kind = kind}

MuteCommands(streams) ==
  Each(ById(streams), LAMBDA s : Command(IF s.muted THEN "unmute" ELSE "mute", s.id, None))

\* Making a device that is not the default one the default.
DefaultCommands(devices) ==
  Each(ById({s \in devices : ~s.default}), LAMBDA s : Command("default", s.id, None))

\* Clearing an app's pin, and pinning it to each sink it is not pinned to.
Routes(apps, sinks) ==
  {<<a.id, None>> : a \in {x \in apps : x.target # None}}
  \cup {<<r[1].id, r[2].id>> : r \in {p \in apps \X sinks : p[1].target # p[2].id}}

RouteBefore(r, q) == r[1] < q[1] \/ (r[1] = q[1] /\ q[2] # None /\ (r[2] = None \/ r[2] < q[2]))

\* With a single sink there is nothing to route.
RouteCommands(apps, sinks) ==
  IF Cardinality(sinks) < 2 THEN <<>>
  ELSE (IF \E a \in apps : a.target # None THEN <<Command("reset", None, None)>> ELSE <<>>)
       \o Each(Sorted(Routes(apps, sinks), RouteBefore),
               LAMBDA r : Command(IF r[2] = None THEN "unpin" ELSE "pin", r[1], r[2]))

BuildCommands(names, streams) ==
  LET sinks   == OfKind(streams, "sink")
      sources == OfKind(streams, "source")
      apps    == OfKind(streams, "app")
  IN <<Command("create", None, None)>>
     \o Each(names, LAMBDA n : Command("apply", n, None))
     \o Each(names, LAMBDA n : Command("rename", n, None))
     \o Each(names, LAMBDA n : Command("delete", n, None))
     \o DefaultCommands(sinks) \o DefaultCommands(sources)
     \o MuteCommands(sinks) \o MuteCommands(sources) \o MuteCommands(apps)
     \o RouteCommands(apps, sinks)

-----------------------------------------------------------------------------
(* Matching.                                                               *)

\* The words of a query are the runs between its blanks.
QueryWords(query) ==
  {SubSeq(query, r[1], r[2]) : r \in {p \in (DOMAIN query) \X (DOMAIN query) :
     /\ p[1] <= p[2]
     /\ \A k \in p[1] .. p[2] : query[k] # Space
     /\ p[1] = 1 \/ query[p[1] - 1] = Space
     /\ p[2] = Len(query) \/ query[p[2] + 1] = Space}}

\* The word begins a run of word characters of the label.
OpensOne(label, word) ==
  /\ \A k \in DOMAIN word : word[k] \in WordChar
  /\ \E i \in 1 .. Len(label) - Len(word) + 1 :
       /\ i = 1 \/ label[i - 1] \notin WordChar
       /\ SubSeq(label, i, i + Len(word) - 1) = word

OpensWords(label, query) ==
  QueryWords(query) # {} /\ \A w \in QueryWords(query) : OpensOne(label, w)

Within(label, query) ==
  \E i \in 1 .. Len(label) - Len(query) + 1 : SubSeq(label, i, i + Len(query) - 1) = query

\* Where the characters of the query end up in the label, taken in order.
InOrder(label, query) ==
  LET found(at, c) == {k \in at + 1 .. Len(label) : label[k] = c}
      next(at, c)  == CHOOSE k \in found(at, c) : \A j \in found(at, c) : k <= j
      step(at, c)  == IF found(at, c) = {} THEN Len(label) + 1 ELSE next(at, c)
  IN FoldLeft(step, 0, query) <= Len(label)

\* Lower is better, and 3 is no match.
ScoreMatch(label, query) ==
  IF OpensWords(label, query) THEN 0
  ELSE IF Within(label, query) THEN 1
  ELSE IF InOrder(label, query) THEN 2 ELSE 3

Matches(label, query) == ScoreMatch(label, query) < 3

\* The commands a query keeps, best first, in their order within a tier.
FilterCommands(commands, query) ==
  LET tier  == [i \in DOMAIN commands |-> ScoreMatch(Label(commands[i]), query)]
      of(t) == Sorted({i \in DOMAIN commands : tier[i] = t}, LAMBDA i, j : i < j)
  IN IF query = <<>> THEN commands ELSE Each(of(0) \o of(1) \o of(2), LAMBDA i : commands[i])

PaletteRows(names, streams, query) ==
  LET kept == FilterCommands(BuildCommands(names, streams), query)
  IN SubSeq(kept, 1, Smaller(Len(kept), MaxVisible))

-----------------------------------------------------------------------------
(* The window of the list.                                                 *)

\* Broken variant of ScrollIntoView: one row short below.
ScrollIntoViewShort(scroll, selected, capacity) ==
  LET c == Larger(capacity, 1) IN
  CASE selected < scroll      -> selected
    [] selected > scroll + c  -> selected + 1 - c
    [] OTHER                  -> scroll

\* The least move that brings the selection into the window.
ScrollIntoView(scroll, selected, capacity) ==
  LET c == Larger(capacity, 1) IN
  CASE selected < scroll       -> selected
    [] selected >= scroll + c  -> selected + 1 - c
    [] OTHER                   -> scroll

\* What the panel shows of total rows, in a window with room for some.
Capacity(total, room) == Smaller(Smaller(total, VisibleRows), room)

\* The projection holds selection and scroll to the list, the layout narrows
\* the window to the room there is.
ShownSelected(total, selected) == Smaller(selected, Larger(total - 1, 0))

FirstVisible(total, room, scroll, selected) ==
  LET projected == Smaller(scroll, Larger(total - VisibleRows, 0))
  IN ScrollIntoView(Smaller(projected, total - Capacity(total, room)),
                    ShownSelected(total, selected), Capacity(total, room))

=============================================================================
