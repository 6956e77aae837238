------------------------------- MODULE MCForms -------------------------------
(***************************************************************************)
(* What the program makes of data, a scene at a time: the state file and   *)
(* the documents in it (Store), the rectangles of a frame and what a       *)
(* pointer finds in them (Layout), text in clusters (Text), and the bars   *)
(* and the rings that move with the clock (Moving).                        *)
(***************************************************************************)
EXTENDS Store, Layout, Text, Moving

\* The state file: documents with and without devices, apps and pins, a size
\* out of bounds and a name too long, and first files of the version before
\* and of the one after.
Page(name, sinks, apps) ==
  [name |-> name, default_sink |-> "dac", sinks |-> sinks, apps |-> apps,
   default_source |-> None, sources |-> <<>>,
   filter |-> <<TRUE, FALSE, TRUE>>]

Doc(width, fitted, pages) ==
  [width |-> width, height |-> 720, maximized |-> ~fitted, fitted |-> fitted,
   active |-> IF pages = <<>> THEN None ELSE pages[1].name, pages |-> pages]

Dac == <<"dac", 3, FALSE>>

Player(target) == <<"player", 1, TRUE, target>>

SomeDocs ==
  {Doc(9000, TRUE, <<Page("Work", <<Dac>>, <<Player("dac")>>), Page("Home", <<>>, <<Player(None)>>)>>),
   Doc(560, FALSE, <<Page("toolong", <<>>, <<>>)>>)}

OldDoc == Doc(600, TRUE, <<Page("Old", <<Dac>>, <<>>)>>)

SomeFiles ==
  {None, Written(PrevVersion, OldDoc), Written(5, OldDoc)}

\* What the proofs about the file ask of the codec, and one process.
ASSUME FilePremises == CodecIsExact /\ Proc = {Whose}

\* The frame: no columns, few and more than fit, in each chrome, with all of the
\* action bar, some of it and none, and a list longer than the palette.
Device(id) == [id |-> id, app |-> FALSE, can_expand |-> FALSE, cubic |-> 10000, target |-> 0]

App(id, e, t) == [id |-> id, app |-> TRUE, can_expand |-> e, cubic |-> 5000, target |-> t]

Empty == [columns |-> <<>>, sinks |-> <<1>>, profiles |-> <<"a">>, total |-> 0, scroll |-> 0, selected |-> 0]

Few ==
  [columns |-> <<Device("d1"), App("a1", TRUE, 1)>>, sinks |-> <<1, 2>>, profiles |-> <<"a", "b">>,
   total |-> 30, scroll |-> 5, selected |-> 3]

Many ==
  [columns |-> <<Device("d1"), Device("d2"), App("a1", TRUE, 0), App("a2", FALSE, 2)>>, sinks |-> <<1, 2, 3>>,
   profiles |-> <<"a", "b">>, total |-> 3, scroll |-> 0, selected |-> 2]

Look(chrome, sidebar, shown, maximized) ==
  [chrome |-> chrome, show_sidebar |-> sidebar, shown |-> shown, maximized |-> maximized]

Bare == Look("client", FALSE, {}, FALSE)

Looks ==
  {Bare, Look("client", TRUE, {"outputs", "mute_all"}, TRUE), Look("toolkit", TRUE, {"reset"}, FALSE),
   Look("server", TRUE, {"inputs", "outputs", "apps", "mute_all", "reset"}, FALSE)}

SomeViews ==
  {look @@ content : look \in Looks, content \in {Few, Many}}
  \cup {look @@ Empty : look \in {l \in Looks : l.chrome = "toolkit"}}

\* The least, and what four columns ask for beside the action bar.
SomeSizes == {<<1, 1>>, <<514, 300>>}

SomeSwipes == {-90}

\* Text: a scalar of each kind the rules tell apart; advances of nothing, one
\* pixel and two.
SomeScalars == {97, 13, 10, 2307, 1536, 4352, 44032, 4520, 8205, 127462, 128104, 127995, 2325, 2381}

Advances ==
  [c \in SomeScalars \cup {ELLIPSIS} |->
     IF c \in {97, 2325} THEN 2 ELSE IF c \in {13, 127462, 128104, ELLIPSIS, 4352, 44032} THEN 1 ELSE 0]

\* Levels: at the floor, above it and at the top, in one channel and in two; and
\* meters of one cell, of whole cells and of a last one that is cut short.
SomePeaks == {<<>>, <<2>>, <<1, 3>>}

SomeHeights == {1, 10, 16}

-----------------------------------------------------------------------------
VARIABLE scene

SceneInit ==
  /\ StoreInit /\ LayoutInit /\ GraphemeInit /\ MovingInit
  /\ scene \in {"file", "frame", "text", "bars", "fades"}
  /\ scene # "file" => dir["state"] = None
  /\ scene # "frame" => view.columns = <<>> /\ window.w = minimum_size(TRUE)[1]

SceneNext ==
  /\ \/ scene = "file" /\ StoreNext /\ UNCHANGED <<layoutVars, graphemeVars, movingVars>>
     \/ scene = "frame" /\ LayoutNext /\ UNCHANGED <<storeVars, graphemeVars, movingVars>>
     \/ scene = "text" /\ GraphemeNext /\ UNCHANGED <<storeVars, layoutVars, movingVars>>
     \/ /\ scene \in {"bars", "fades"} /\ UNCHANGED <<storeVars, layoutVars, graphemeVars>>
        /\ Pass \/ (scene = "bars" /\ MetersMove) \/ (scene = "fades" /\ FadesMove)
  /\ UNCHANGED scene

SceneSpec == SceneInit /\ [][SceneNext]_<<storeVars, layoutVars, graphemeVars, movingVars, scene>>

\* Whatever is laid out, every control in sight answers to a press, and what is
\* held stays under the pointer; whatever text is in it, carets and labels land
\* on its clusters.
DrawingHolds == [](scene = "frame" => LayoutIsSound) /\ GrabHolds /\ [](scene = "text" => TextIsSound)

=============================================================================
