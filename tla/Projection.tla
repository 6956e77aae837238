------------------------------ MODULE Projection ------------------------------
(***************************************************************************)
(* What the window shows of the reducer's rows: view::build_snapshot       *)
(* (src/view/snapshot.rs) and the grouping of an app's streams into one    *)
(* column (src/view/app_group.rs). The projection is rebuilt after every   *)
(* message, so it is operators over the reducer's state; the forms of the  *)
(* devices and the expanded columns are the state only it reads.           *)
(*                                                                         *)
(* Left out: what is text (labels, icons, titles, the profile menu's rows) *)
(* and the palette and dialogs, which Ui models.                           *)
(***************************************************************************)
EXTENDS Mixer

VARIABLES
  forms,           \* device id -> what it is physically, None until resolved
  expanded_groups  \* columns unfolded into their streams, stale ones kept

viewVars == <<forms, expanded_groups>>

-----------------------------------------------------------------------------
(* Devices.                                                                *)

SinkForms == <<"Headset", "Headphones", "Speaker", "Hdmi", "Spdif", "Generic">>

SourceForms == <<"Microphone", "LineIn", "Generic">>

SinkFormOfFactor ==
  [headset |-> "Headset", headphone |-> "Headphones", headphones |-> "Headphones",
   speaker |-> "Speaker", internal |-> "Speaker", computer |-> "Speaker",
   tv |-> "Hdmi", television |-> "Hdmi"]

SinkFormOfPort ==
  [speaker |-> "Speaker", headphones |-> "Headphones", headset |-> "Headset",
   hdmi |-> "Hdmi", spdif |-> "Spdif", analog |-> "Speaker", usb |-> "Speaker",
   line |-> "Speaker"]

SourceFormOfFactor ==
  [headset |-> "Microphone", microphone |-> "Microphone", mic |-> "Microphone",
   webcam |-> "Microphone"]

SourceFormOfPort ==
  [mic |-> "Microphone", microphone |-> "Microphone", headset |-> "Microphone",
   analog |-> "Microphone", usb |-> "Microphone", line |-> "LineIn", aux |-> "LineIn"]

Values(f) == {f[k] : k \in DOMAIN f}

\* What a device may be resolved to: by its form factor, by the type of its port,
\* or as none of either; and nothing until it is.
FormsOf(kind) ==
  CASE kind = "sink"   -> Values(SinkFormOfFactor) \cup Values(SinkFormOfPort) \cup {"Generic", None}
    [] kind = "source" -> Values(SourceFormOfFactor) \cup Values(SourceFormOfPort) \cup {"Generic", None}
    [] OTHER           -> {None}

Unranked == 255

Rank(kind, form) ==
  LET row == IF kind = "sink" THEN SinkForms ELSE SourceForms
  IN  IF form = None THEN Unranked
      ELSE (CHOOSE k \in DOMAIN row : row[k] = form) - 1

\* Form first, then id.
DeviceBefore(i, j) ==
  LET rank(k) == Rank(streams[k].kind, forms[k])
  IN  rank(i) < rank(j) \/ (rank(i) = rank(j) /\ i < j)

Devices(kind) == {i \in Rows : streams[i].kind = kind}

\* The map from names is filled in the order of the row: of two sinks with
\* one name the last stays.
SinkNamed(name) ==
  LET named == {i \in Devices("sink") : streams[i].key = name}
  IN  IF name = None \/ named = {} THEN None
      ELSE CHOOSE i \in named : \A j \in named \ {i} : DeviceBefore(j, i)

DeviceRow(i) ==
  [cubic |-> LinearToCubic(streams[i].volume), muted |-> streams[i].muted,
   default |-> streams[i].isDefault]

-----------------------------------------------------------------------------
(* Applications.                                                           *)

\* app_row_key: the app's identity, or the node for a stream without one.
ColumnOf(i) == IF streams[i].key = None THEN <<"node", i>> ELSE <<"app", streams[i].key>>

Columns == {ColumnOf(i) : i \in AppRows}

Members(column) == {i \in AppRows : ColumnOf(i) = column}

FirstSeen(i) == IF app_order[i] = None THEN MaxSeq ELSE app_order[i]

\* Broken variant of SortKey: a column stands where its newest stream does.
SortKeyNewest(column) ==
  <<Max({FirstSeen(i) : i \in Members(column)}), Min(Members(column))>>

\* A column stands where its oldest stream was first seen.
SortKey(column) ==
  <<Min({FirstSeen(i) : i \in Members(column)}), Min(Members(column))>>

ColumnBefore(a, b) ==
  LET x == SortKey(a)
      y == SortKey(b)
  IN  x[1] < y[1] \/ (x[1] = y[1] /\ x[2] < y[2])

Expanded(column) == column \in expanded_groups /\ Cardinality(Members(column)) > 1

\* Broken variant of AllMuted: one muted stream is enough.
AnyMuted(column) == \E i \in Members(column) : streams[i].muted

AllMuted(column) == \A i \in Members(column) : streams[i].muted

\* The pin every stream of the column shares, if they do.
Pinned(column) ==
  LET pins == {streams[i].target : i \in Members(column)}
  IN  IF Cardinality(pins) = 1 THEN CHOOSE pin \in pins : TRUE ELSE None

GroupRow(column) ==
  [cubic      |-> Max({LinearToCubic(streams[i].volume) : i \in Members(column)}),
   muted      |-> AllMuted(column),
   tombstoned |-> Members(column) \subseteq tombstoned,
   expanded   |-> Expanded(column),
   target     |-> SinkNamed(Pinned(column))]

MemberRow(i) ==
  [cubic      |-> LinearToCubic(streams[i].volume),
   muted      |-> streams[i].muted,
   tombstoned |-> i \in tombstoned,
   target     |-> SinkNamed(streams[i].target)]

\* The group's row, and its streams' rows beside it while it is expanded.
RowsOf(column) ==
  {<<"group", column>>}
    \cup (IF Expanded(column) THEN {<<"member", i>> : i \in Members(column)} ELSE {})

\* Which rows a node's peak feeds.
MeterRoute(i) ==
  IF streams[i].kind # "app" THEN {<<streams[i].kind, i>>}
  ELSE {<<"group", ColumnOf(i)>>}
         \cup (IF Expanded(ColumnOf(i)) THEN {<<"member", i>>} ELSE {})

-----------------------------------------------------------------------------
(* What happens to what is shown.                                          *)

ViewInit ==
  /\ forms = [i \in Id |-> None]
  /\ expanded_groups = {}

\* An event of the worker carries what it has resolved of the form by then.
EventShown(id, s, form) ==
  /\ StreamEvent(id, s)
  /\ forms' = [forms EXCEPT ![id] = form]
  /\ UNCHANGED expanded_groups

RemovalShown(id) ==
  /\ StreamRemoved(id)
  /\ UNCHANGED viewVars

\* GroupToggleExpanded: a column of one stream has nothing to expand into,
\* and forgets that it once had.
GroupToggleExpanded(column) ==
  /\ expanded_groups' = IF Cardinality(Members(column)) <= 1
                        THEN expanded_groups \ {column}
                        ELSE SymDiff(expanded_groups, {column})
  /\ NoCommands
  /\ UNCHANGED <<rowVars, pending, profileVars, section_filter, modal, dirty, windowVars, forms>>

\* The reducer with what is shown of it, from every boot.
ViewNext ==
  \/ \E r \in Report : \E form \in FormsOf(r.stream.kind) : EventShown(r.id, r.stream, form)
  \/ \E id \in Id : RemovalShown(id)
  \/ \E column \in Columns : GroupToggleExpanded(column)
  \/ (RowStep \/ ProfileStep \/ AutoSaveTick) /\ UNCHANGED viewVars
  \/ (\E g \in Geometry : GeometryChanged(g)) /\ UNCHANGED viewVars
  \/ Restart /\ ViewInit'

ViewSpec == Init /\ ViewInit /\ [][ViewNext]_<<vars, viewVars>>

-----------------------------------------------------------------------------
(* Properties.                                                             *)

\* A column that keeps its place: its rows stay, or its only one, a ghost,
\* comes back under another id; and nobody joins it under an id that was
\* another row's, with that row's number.
Keeps(column) ==
  LET was == Members(column)
      is  == Members(column)'
  IN  /\ was \subseteq is \/ (Cardinality(was) = 1 /\ Cardinality(is) = 1)
      /\ (is \ was) \cap Rows = {}

\* The strip stays put (group_app_streams): whatever pauses, reconnects, goes
\* or comes elsewhere, two columns that keep their rows keep their order, and
\* what is new comes in at the right of what was there.
StripStaysPut ==
  [][/\ \A a, b \in Columns \cap Columns' :
          Keeps(a) /\ Keeps(b) /\ ColumnBefore(a, b) => ColumnBefore(a, b)'
     /\ \A a \in Columns \cap Columns', b \in Columns' \ Columns :
          Keeps(a) /\ Members(b)' \cap Rows = {} => ColumnBefore(a, b)']_<<vars, viewVars>>

\* What a gesture on a column asks for, the column shows next, and no other
\* column changes: the reducer's members of a row and the projection's are
\* found by different code, and a pin goes by name there and back. A sink
\* without a name cannot be pinned to.
GesturesShow ==
  [][\A column \in Columns :
       LET id     == Min(Members(column))
           others == /\ \A other \in Columns \ {column} : GroupRow(other)' = GroupRow(other)
                     /\ \A i \in AppRows \ Members(column) : MemberRow(i)' = MemberRow(i)
                     /\ \A i \in Rows \ AppRows : DeviceRow(i)' = DeviceRow(i)
       IN  /\ UNCHANGED viewVars /\ GroupMuteToggled(id) =>
                others /\ GroupRow(column)' = [GroupRow(column) EXCEPT !.muted = ~@]
           /\ \A sink \in Devices("sink") :
                /\ streams[sink].key # None
                /\ \A other \in Devices("sink") \ {sink} : streams[other].key # streams[sink].key
                /\ UNCHANGED viewVars
                /\ GroupSetTarget(id, streams[sink].key)
                => others /\ GroupRow(column)' = [GroupRow(column) EXCEPT !.target = sink]
           /\ GroupToggleExpanded(column) =>
                /\ others
                /\ GroupRow(column)' =
                     [GroupRow(column) EXCEPT !.expanded = Cardinality(Members(column)) > 1 /\ ~@]
                /\ RowsOf(column)' = UNION {MeterRoute(i)' : i \in Members(column)}]_<<vars, viewVars>>

=============================================================================
