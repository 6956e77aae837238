---------------------------- MODULE WorkerProofs ----------------------------
(***************************************************************************)
(* For any ids, names and bound: whoever reads the events knows every row, *)
(* marks follow the cached defaults, names the clients, a removal is       *)
(* reported once, no listener hears of what it does not hold, and once     *)
(* everything is handled the rows are the server's nodes.                  *)
(***************************************************************************)
EXTENDS Worker, TLAPS

RowMap == [Node -> Bound \cup {Absent}]

\* Ids of what the worker may hold a proxy of.
Ids == Node \cup Client \cup Device \cup {Metadata}

\* The proxies the worker holds.
Held(rows, clients_, devices_, slot_) ==
  {i \in Node : rows[i] # Absent} \cup {c \in Client : clients_[c] # Absent}
    \cup {d \in Device : devices_[d] # Absent} \cup (IF slot_ THEN {Metadata} ELSE {})

\* What is on its way to a proxy in the sequence s is for one of ids.
OnlyTo(s, ids) == \A k \in DOMAIN s, id \in Ids : AddressedTo(s[k], id) => id \in ids

\* No message outlives the proxy it is for.
MessagesMet == OnlyTo(inbox, Held(bound, clients, devices, slot))

\* What a reader of the events sees of a row.
Shown(row) == IF row = Absent THEN Absent ELSE row.stream

IInv == TypeOK /\ MessagesMet /\ EventsTellAll /\ MarksFollowCache /\ ClientsNameTheirStreams

-----------------------------------------------------------------------------
(* Data.                                                                   *)

\* The record that stands for no proxy is none of the records kept for one.
LEMMA AbsentIsApart ==
  /\ Absent \notin Bound
  /\ Absent \notin Stream
  /\ Absent \notin BoundClient
  /\ Absent \notin BoundDevice
<1>1. Absent \notin Bound
  BY DEF Absent, Bound
<1>2. Absent \notin Stream
  BY DEF Absent, Stream, Heard, Direction
<1>3. Absent \notin BoundClient
  BY DEF Absent, BoundClient
<1>4. Absent \notin BoundDevice
  BY DEF Absent, BoundDevice
<1> QED BY <1>1, <1>2, <1>3, <1>4

\* What the events of each kind carry.
LEMMA MessageFields ==
  ASSUME NEW m \in Message
  PROVE  /\ m.type = "node" => m.id \in Node /\ m.object \in Properties
         /\ m.type = "client" => m.id \in Client
         /\ m.type = "device" => m.id \in Device
         /\ m.type = "gone" => m.id \in Ids
         /\ m.type = "removed" => m.id \in Node
         /\ m.type = "node info" => /\ m.id \in Node
                                    /\ m.label \in Label
                                    /\ m.device \in Device \cup {None}
         /\ m.type = "props" => m.id \in Node /\ m.level \in Level
         /\ m.type = "client info" => m.id \in Client /\ m.label \in Label \cup {None}
         /\ m.type = "device info" => m.id \in Device /\ m.dict \in Dict
         /\ m.type = "route" => m.id \in Device /\ m.port \in Port
         /\ m.type = "defaults" =>
              \E K \in SUBSET Direction : m.names \in [K -> Name \cup {None}]
         /\ m.type = "targets" =>
              \E I \in SUBSET Node : m.names \in [I -> Name \cup {None}]
BY DEF Message, Ids

\* Messages said at the end of the inbox are the old ones and the new ones.
LEMMA Appended ==
  ASSUME NEW s \in Seq(Message), NEW t \in Seq(Message), NEW ids,
         OnlyTo(s, ids), OnlyTo(t, ids)
  PROVE  s \o t \in Seq(Message) /\ OnlyTo(s \o t, ids)
<1>1. s \o t \in Seq(Message)
  OBVIOUS
<1>2. ASSUME NEW k \in DOMAIN (s \o t), NEW id \in Ids, AddressedTo((s \o t)[k], id)
      PROVE  id \in ids
  <2>1. CASE k \in DOMAIN s
    <3>1. (s \o t)[k] = s[k]
      BY <2>1
    <3> QED BY <2>1, <3>1, <1>2 DEF OnlyTo
  <2>2. CASE k \notin DOMAIN s
    <3>1. k - Len(s) \in DOMAIN t /\ (s \o t)[k] = t[k - Len(s)]
      BY <2>2, <1>2
    <3> QED BY <3>1, <1>2 DEF OnlyTo
  <2> QED BY <2>1, <2>2
<1> QED BY <1>1, <1>2 DEF OnlyTo

\* What is left of the inbox once its head is read.
LEMMA Rest ==
  ASSUME NEW s \in Seq(Message), s # <<>>, NEW ids, OnlyTo(s, ids)
  PROVE  /\ Head(s) \in Message
         /\ Tail(s) \in Seq(Message)
         /\ OnlyTo(Tail(s), ids)
         /\ \A id \in Ids : AddressedTo(Head(s), id) => id \in ids
<1>1. Head(s) \in Message /\ Tail(s) \in Seq(Message) /\ 1 \in DOMAIN s /\ Head(s) = s[1]
  OBVIOUS
<1>2. ASSUME NEW k \in DOMAIN Tail(s)
      PROVE  k + 1 \in DOMAIN s /\ Tail(s)[k] = s[k + 1]
  BY <1>2
<1> QED BY <1>1, <1>2 DEF OnlyTo

\* The empty answer is a sequence of messages.
LEMMA NothingIsAMessage ==
  /\ [type |-> "nothing"] \in Message
  /\ \A id : ~AddressedTo([type |-> "nothing"], id)
BY DEF Message, AddressedTo

\* A proxy that is destroyed takes what was addressed to it out of the inbox.
LEMMA DroppedWithProxy ==
  ASSUME NEW s \in Seq(Message), s # <<>>, NEW ids, NEW gone, OnlyTo(s, ids),
         NEW t \in [1..(Len(s) - 1) -> Message],
         \A k \in 1..(Len(s) - 1) :
           AddressedTo(s[k + 1], gone) \/ t[k] # s[k + 1] => t[k] = [type |-> "nothing"]
  PROVE  t \in Seq(Message) /\ OnlyTo(t, ids \ {gone})
<1>1. Len(s) - 1 \in Nat /\ \A k \in 1..(Len(s) - 1) : k + 1 \in DOMAIN s /\ s[k + 1] \in Message
  OBVIOUS
<1>2. t \in Seq(Message)
  <2>1. PICK n \in Nat : t \in [1..n -> Message]
    BY <1>1
  <2> QED BY <2>1
<1>3. ASSUME NEW k \in DOMAIN t, NEW id \in Ids, AddressedTo(t[k], id)
      PROVE  id \in ids \ {gone}
  <2>1. k \in 1..(Len(s) - 1)
    BY <1>3
  <2>2. ~AddressedTo(s[k + 1], gone) /\ t[k] = s[k + 1]
    BY <2>1, <1>3, NothingIsAMessage
  <2> QED BY <1>1, <1>3, <2>1, <2>2 DEF OnlyTo
<1> QED BY <1>2, <1>3 DEF OnlyTo

\* One message to a held proxy.
LEMMA OneTo ==
  ASSUME NEW m \in Message, NEW ids, \A id \in Ids : AddressedTo(m, id) => id \in ids
  PROVE  <<m>> \in Seq(Message) /\ OnlyTo(<<m>>, ids)
BY DEF OnlyTo

\* Two messages to a held proxy.
LEMMA TwoTo ==
  ASSUME NEW m \in Message, NEW n \in Message, NEW ids,
         \A id \in Ids : (AddressedTo(m, id) \/ AddressedTo(n, id)) => id \in ids
  PROVE  <<m, n>> \in Seq(Message) /\ OnlyTo(<<m, n>>, ids)
BY DEF OnlyTo

\* No message at all.
LEMMA NoneTo ==
  ASSUME NEW ids
  PROVE  <<>> \in Seq(Message) /\ OnlyTo(<<>>, ids)
BY DEF OnlyTo

\* Messages met by the proxies there are stay met when there are more.
LEMMA MoreHeld ==
  ASSUME NEW s, NEW ids, NEW more, OnlyTo(s, ids), ids \subseteq more
  PROVE  OnlyTo(s, more)
BY DEF OnlyTo

-----------------------------------------------------------------------------
(* Rows.                                                                   *)

\* A row that is marked as the cache says and named as its client is.
RowRight(row, cache_, clients_) ==
  /\ row \in Bound
  /\ RowShape(row.stream)
  /\ row.stream.kind \in Direction =>
       row.stream.isDefault = Marks(row.stream, cache_[row.stream.kind])
  /\ row.stream.kind = "app" =>
       LET c == row.client
       IN  c # None /\ clients_[c] # Absent /\ clients_[c].label # None
             => row.stream.label = clients_[c].label

RowsRight(rows, cache_, clients_) ==
  /\ rows \in RowMap
  /\ \A i \in Node : rows[i] # Absent => RowRight(rows[i], cache_, clients_)

\* The parts of the invariant that speak of the rows alone.
LEMMA RowsAreRight == IInv => RowsRight(bound, cache, clients)
<1> SUFFICES ASSUME IInv PROVE RowsRight(bound, cache, clients)
  OBVIOUS
<1>1. bound \in RowMap
  BY DEF IInv, TypeOK, RowMap
<1>2. ASSUME NEW i \in Node, bound[i] # Absent PROVE RowRight(bound[i], cache, clients)
  <2>1. bound[i] \in Bound /\ RowShape(bound[i].stream)
    BY <1>2 DEF IInv, TypeOK
  <2>2. bound[i].stream.kind \in Direction =>
          bound[i].stream.isDefault = Marks(bound[i].stream, cache[bound[i].stream.kind])
    BY <1>2 DEF IInv, MarksFollowCache, RowsOf, Rows
  <2>3. bound[i].stream.kind = "app" => i \in RowsOf({"app"})
    BY <1>2 DEF RowsOf, Rows
  <2>4. ClientsNameTheirStreams
    BY DEF IInv
  <2> QED BY <2>1, <2>2, <2>3, <2>4 DEF RowRight, ClientsNameTheirStreams
<1> QED BY <1>1, <1>2 DEF RowsRight

\* Rows that are right one by one are right together.
LEMMA RowsStayRight ==
  ASSUME RowsRight(bound', cache', clients')
  PROVE  /\ bound' \in [Node -> Bound \cup {Absent}]
         /\ \A i \in Node : bound'[i] # Absent => RowShape(bound'[i].stream)
         /\ MarksFollowCache'
         /\ ClientsNameTheirStreams'
<1>1. bound' \in [Node -> Bound \cup {Absent}]
  BY DEF RowsRight, RowMap
<1>2. \A i \in Node : bound'[i] # Absent => RowShape(bound'[i].stream)
  BY DEF RowsRight, RowRight
<1>3. MarksFollowCache'
  BY DEF RowsRight, RowRight, MarksFollowCache, RowsOf, Rows
<1>4. ASSUME NEW i \in RowsOf({"app"})'
      PROVE  i \in Node /\ bound'[i] # Absent /\ bound'[i].stream.kind = "app"
  BY <1>4 DEF RowsOf, Rows
<1>5. ClientsNameTheirStreams'
  BY <1>4 DEF RowsRight, RowRight, ClientsNameTheirStreams
<1> QED BY <1>1, <1>2, <1>3, <1>5

\* What a row shows has the shape an event carries.
LEMMA ShownTyped ==
  ASSUME NEW rows \in RowMap, NEW says, says = [i \in Node |-> Shown(rows[i])]
  PROVE  /\ says \in [Node -> Stream \cup {Absent}]
         /\ \A i \in Node : says[i] = IF rows[i] = Absent THEN Absent ELSE rows[i].stream
<1>1. ASSUME NEW i \in Node PROVE Shown(rows[i]) \in Stream \cup {Absent}
  BY DEF RowMap, Shown, Bound
<1> QED BY <1>1 DEF Shown

\* A step of the worker keeps the invariant if it keeps each of these.
LEMMA HandlerKeeps ==
  ASSUME IInv,
         UNCHANGED serverVars,
         inbox' \in Seq(Message),
         OnlyTo(inbox', Held(bound', clients', devices', slot')),
         RowsRight(bound', cache', clients'),
         told' = [i \in Node |-> Shown(bound'[i])],
         clients' \in [Client -> BoundClient \cup {Absent}],
         devices' \in [Device -> BoundDevice \cup {Absent}],
         slot' \in BOOLEAN,
         cache' \in [Direction -> Name \cup {None}],
         outdated' \subseteq Node,
         removed' \subseteq Node
  PROVE  IInv'
<1>1. /\ bound' \in [Node -> Bound \cup {Absent}]
      /\ \A i \in Node : bound'[i] # Absent => RowShape(bound'[i].stream)
      /\ MarksFollowCache' /\ ClientsNameTheirStreams'
  BY RowsStayRight
<1>2. told' \in [Node -> Stream \cup {Absent}] /\ EventsTellAll'
  <2>1. bound' \in RowMap
    BY DEF RowsRight
  <2> QED BY <2>1, ShownTyped DEF EventsTellAll
<1>3. TypeOK'
  BY <1>1, <1>2 DEF IInv, TypeOK, serverVars
<1>4. MessagesMet'
  BY DEF MessagesMet
<1> QED BY <1>1, <1>2, <1>3, <1>4 DEF IInv

\* A step of the server keeps it if it says nothing to a proxy there is not.
LEMMA ServerKeeps ==
  ASSUME IInv,
         ByServer,
         inbox' \in Seq(Message),
         OnlyTo(inbox', Held(bound, clients, devices, slot)),
         nodes' \in [Node -> [object : Object, level : Level] \cup {Absent}],
         apps' \in [Client -> [label : Label] \cup {Absent}],
         cards' \in [Device -> BoundDevice \cup {Absent}],
         meta' \in BOOLEAN,
         defaults' \in [Direction -> Name \cup {None}],
         pins' \in [Node -> Name \cup {None}]
  PROVE  IInv'
<1>1. UNCHANGED <<bound, clients, devices, slot, cache, outdated, told>> /\ removed' = {}
  BY DEF ByServer, mapVars
<1>2. TypeOK'
  BY <1>1 DEF IInv, TypeOK
<1>3. MessagesMet'
  BY <1>1 DEF MessagesMet
<1>4. EventsTellAll' /\ MarksFollowCache' /\ ClientsNameTheirStreams'
  BY <1>1 DEF IInv, EventsTellAll, MarksFollowCache, ClientsNameTheirStreams, RowsOf, Rows
<1> QED BY <1>2, <1>3, <1>4 DEF IInv

-----------------------------------------------------------------------------
(* The server's steps.                                                     *)

\* A global that is announced is announced to no proxy.
LEMMA Announcement ==
  ASSUME NEW o \in Object, NEW label \in FirstLabels(o), NEW device \in {o.device, None}
  PROVE  [o EXCEPT !.label = label, !.device = device] \in Properties
<1>1. o \in Properties
  BY ObjectAssumption
<1>2. label \in Label
  BY <1>1, LabelAssumption DEF Properties, FirstLabels
<1> QED BY <1>1, <1>2 DEF Properties

\* Registry events are for no proxy.
LEMMA RegistryEvents ==
  /\ \A i \in Node, a \in Properties :
       /\ [type |-> "node", id |-> i, object |-> a] \in Message
       /\ \A id : ~AddressedTo([type |-> "node", id |-> i, object |-> a], id)
  /\ \A c \in Client :
       /\ [type |-> "client", id |-> c] \in Message
       /\ \A id : ~AddressedTo([type |-> "client", id |-> c], id)
  /\ \A d \in Device :
       /\ [type |-> "device", id |-> d] \in Message
       /\ \A id : ~AddressedTo([type |-> "device", id |-> d], id)
  /\ [type |-> "metadata"] \in Message
  /\ \A id : ~AddressedTo([type |-> "metadata"], id)
  /\ \A x \in Ids : Gone(x) \in Message /\ \A id : ~AddressedTo(Gone(x), id)
BY DEF Message, AddressedTo, Gone, Ids

\* Events of an object are for its proxy alone.
LEMMA ObjectEvents ==
  /\ \A i \in Node : Removed(i) \in Message /\ \A id : AddressedTo(Removed(i), id) => id = i
  /\ \A i \in Node, level \in Level :
       Props(i, level) \in Message /\ \A id : AddressedTo(Props(i, level), id) => id = i
  /\ \A c \in Client, label \in Label \cup {None} :
       ClientInfo(c, label) \in Message /\ \A id : AddressedTo(ClientInfo(c, label), id) => id = c
  /\ \A d \in Device, dict \in Dict :
       DeviceInfo(d, dict) \in Message /\ \A id : AddressedTo(DeviceInfo(d, dict), id) => id = d
  /\ \A d \in Device, port \in Port :
       Route(d, port) \in Message /\ \A id : AddressedTo(Route(d, port), id) => id = d
BY DEF Message, AddressedTo, Removed, Props, ClientInfo, DeviceInfo, Route

\* Defaults and targets are for the metadata's proxy.
LEMMA MetadataEvents ==
  /\ \A K \in SUBSET Direction : \A names \in [K -> Name \cup {None}] :
       DefaultsAre(names) \in Message /\ \A id : AddressedTo(DefaultsAre(names), id) => id = Metadata
  /\ \A I \in SUBSET Node : \A names \in [I -> Name \cup {None}] :
       TargetsAre(names) \in Message /\ \A id : AddressedTo(TargetsAre(names), id) => id = Metadata
<1>1. ASSUME NEW K \in SUBSET Direction, NEW names \in [K -> Name \cup {None}]
      PROVE  names \in UNION {[J -> Name \cup {None}] : J \in SUBSET Direction}
  OBVIOUS
<1>2. ASSUME NEW I \in SUBSET Node, NEW names \in [I -> Name \cup {None}]
      PROVE  names \in UNION {[J -> Name \cup {None}] : J \in SUBSET Node}
  OBVIOUS
<1>3. ASSUME NEW K \in SUBSET Direction, NEW names \in [K -> Name \cup {None}]
      PROVE  DefaultsAre(names) \in Message /\ \A id : AddressedTo(DefaultsAre(names), id) => id = Metadata
  BY <1>1, <1>3 DEF Message, AddressedTo, DefaultsAre
<1>4. ASSUME NEW I \in SUBSET Node, NEW names \in [I -> Name \cup {None}]
      PROVE  TargetsAre(names) \in Message /\ \A id : AddressedTo(TargetsAre(names), id) => id = Metadata
  BY <1>2, <1>4 DEF Message, AddressedTo, TargetsAre
<1> QED BY <1>3, <1>4

\* What is said of one thing, to a proxy if the worker holds it.
LEMMA SaysOne ==
  ASSUME IInv, NEW m \in Message,
         \A id \in Ids : AddressedTo(m, id) => id \in Held(bound, clients, devices, slot),
         Says(<<m>>)
  PROVE  inbox' \in Seq(Message) /\ OnlyTo(inbox', Held(bound, clients, devices, slot))
BY OneTo, Appended DEF Says, IInv, TypeOK, MessagesMet

\* A server that says nothing keeps the inbox.
LEMMA SaysNone ==
  ASSUME IInv, Says(<<>>)
  PROVE  inbox' \in Seq(Message) /\ OnlyTo(inbox', Held(bound, clients, devices, slot))
BY NoneTo, Appended DEF Says, IInv, TypeOK, MessagesMet

\* What a proxy's events may be for.
LEMMA HeldIds ==
  ASSUME NEW rows, NEW clients_, NEW devices_, NEW slot_
  PROVE  LET held == Held(rows, clients_, devices_, slot_)
         IN  /\ \A i \in Node : rows[i] # Absent => i \in held
             /\ \A c \in Client : clients_[c] # Absent => c \in held
             /\ \A d \in Device : devices_[d] # Absent => d \in held
             /\ slot_ => Metadata \in held
BY DEF Held

\* A server step that tells one proxy, if it is held, keeps the invariant.
LEMMA Notified ==
  ASSUME IInv, NEW m \in Message, NEW to \in Held(bound, clients, devices, slot),
         \A id : AddressedTo(m, id) => id = to,
         Says(<<m>>)
  PROVE  inbox' \in Seq(Message) /\ OnlyTo(inbox', Held(bound, clients, devices, slot))
BY SaysOne

\* A server step that tells the registry keeps the invariant.
LEMMA Registered ==
  ASSUME IInv, NEW m \in Message, \A id : ~AddressedTo(m, id), Says(<<m>>)
  PROVE  inbox' \in Seq(Message) /\ OnlyTo(inbox', Held(bound, clients, devices, slot))
BY SaysOne

\* Nodes appear and go.
LEMMA NodesComeAndGo ==
  ASSUME IInv, NEW i \in Node
  PROVE  /\ \A o \in Object, level \in Level : NodeComes(i, o, level) => IInv'
         /\ NodeGoes(i) => IInv'
<1> DEFINE held == Held(bound, clients, devices, slot)
<1> USE DEF IInv
<1>1. ASSUME NEW o \in Object, NEW level \in Level, NodeComes(i, o, level) PROVE IInv'
  <2>1. nodes' \in [Node -> [object : Object, level : Level] \cup {Absent}]
    BY <1>1 DEF NodeComes, TypeOK
  <2>2. PICK label \in FirstLabels(o), device \in {o.device, None} :
          Says(<<[type |-> "node", id |-> i,
                  object |-> [o EXCEPT !.label = label, !.device = device]]>>)
    BY <1>1 DEF NodeComes
  <2>3. [o EXCEPT !.label = label, !.device = device] \in Properties
    BY Announcement
  <2>4. inbox' \in Seq(Message) /\ OnlyTo(inbox', held)
    BY <2>2, <2>3, Registered, RegistryEvents
  <2> QED BY <1>1, <2>1, <2>4, ServerKeeps DEF NodeComes, TypeOK
<1>2. ASSUME NodeGoes(i) PROVE IInv'
  <2>1. /\ nodes' \in [Node -> [object : Object, level : Level] \cup {Absent}]
        /\ pins' \in [Node -> Name \cup {None}]
    BY <1>2 DEF NodeGoes, TypeOK
  <2>2. /\ Gone(i) \in Message /\ Removed(i) \in Message
        /\ \A id : ~AddressedTo(Gone(i), id)
        /\ \A id : AddressedTo(Removed(i), id) => id = i
    BY RegistryEvents, ObjectEvents DEF Ids
  <2>3. inbox' \in Seq(Message) /\ OnlyTo(inbox', held)
    <3>1. CASE bound[i] = Absent
      BY <1>2, <2>2, <3>1, Registered DEF NodeGoes
    <3>2. CASE bound[i] # Absent
      <4>1. i \in held
        BY <3>2 DEF Held
      <4>2. /\ <<Gone(i), Removed(i)>> \in Seq(Message) /\ OnlyTo(<<Gone(i), Removed(i)>>, held)
            /\ <<Removed(i), Gone(i)>> \in Seq(Message) /\ OnlyTo(<<Removed(i), Gone(i)>>, held)
        BY <2>2, <4>1, TwoTo
      <4>3. Says(<<Gone(i), Removed(i)>>) \/ Says(<<Removed(i), Gone(i)>>)
        BY <1>2, <3>2 DEF NodeGoes
      <4> QED BY <4>2, <4>3, Appended DEF Says, TypeOK, MessagesMet
    <3> QED BY <3>1, <3>2
  <2> QED BY <1>2, <2>1, <2>3, ServerKeeps DEF NodeGoes, TypeOK
<1> QED BY <1>1, <1>2

\* A node's volume changes.
LEMMA LevelsMove ==
  ASSUME IInv, NEW i \in Node, NEW level \in Level, LevelMoves(i, level)
  PROVE  IInv'
<1>1. nodes' \in [Node -> [object : Object, level : Level] \cup {Absent}]
  <2>1. nodes[i] \in [object : Object, level : Level]
    BY DEF LevelMoves, IInv, TypeOK
  <2>2. [nodes[i] EXCEPT !.level = level] \in [object : Object, level : Level]
    BY <2>1
  <2> QED BY <2>2 DEF LevelMoves, IInv, TypeOK
<1>2. inbox' \in Seq(Message) /\ OnlyTo(inbox', Held(bound, clients, devices, slot))
  <2>1. CASE bound[i] = Absent
    BY <2>1, SaysNone DEF LevelMoves, Notifies
  <2>2. CASE bound[i] # Absent
    BY <2>2, HeldIds, Notified, ObjectEvents DEF LevelMoves, Notifies
  <2> QED BY <2>1, <2>2
<1> QED BY <1>1, <1>2, ServerKeeps DEF LevelMoves, IInv, TypeOK

\* Clients appear, change and go.
LEMMA ClientsComeAndGo ==
  ASSUME IInv, NEW c \in Client
  PROVE  /\ \A label \in Label : ClientComes(c, label) => IInv'
         /\ \A label \in Label \cup {None} : ClientStirs(c, label) => IInv'
         /\ ClientGoes(c) => IInv'
<1> DEFINE held == Held(bound, clients, devices, slot)
<1> USE DEF IInv
<1>1. ASSUME NEW label \in Label, ClientComes(c, label) PROVE IInv'
  <2>1. apps' \in [Client -> [label : Label] \cup {Absent}]
    BY <1>1 DEF ClientComes, TypeOK
  <2>2. inbox' \in Seq(Message) /\ OnlyTo(inbox', held)
    BY <1>1, Registered, RegistryEvents DEF ClientComes
  <2> QED BY <1>1, <2>1, <2>2, ServerKeeps DEF ClientComes, TypeOK
<1>2. ASSUME NEW label \in Label \cup {None}, ClientStirs(c, label) PROVE IInv'
  <2>1. apps' \in [Client -> [label : Label] \cup {Absent}]
    BY <1>2 DEF ClientStirs, TypeOK
  <2>2. inbox' \in Seq(Message) /\ OnlyTo(inbox', held)
    <3>1. CASE clients[c] = Absent
      BY <1>2, <3>1, SaysNone DEF ClientStirs, Notifies
    <3>2. CASE clients[c] # Absent
      BY <1>2, <3>2, HeldIds, Notified, ObjectEvents DEF ClientStirs, Notifies
    <3> QED BY <3>1, <3>2
  <2> QED BY <1>2, <2>1, <2>2, ServerKeeps DEF ClientStirs, TypeOK
<1>3. ASSUME ClientGoes(c) PROVE IInv'
  <2>1. apps' \in [Client -> [label : Label] \cup {Absent}]
    BY <1>3 DEF ClientGoes, TypeOK
  <2>2. inbox' \in Seq(Message) /\ OnlyTo(inbox', held)
    BY <1>3, Registered, RegistryEvents DEF ClientGoes, Ids
  <2> QED BY <1>3, <2>1, <2>2, ServerKeeps DEF ClientGoes, TypeOK
<1> QED BY <1>1, <1>2, <1>3

\* Cards appear, change and go.
LEMMA CardsComeAndGo ==
  ASSUME IInv, NEW d \in Device
  PROVE  /\ \A dict \in Dict, port \in Port : CardComes(d, dict, port) => IInv'
         /\ \A port \in Port : CardStirs(d, port) => IInv'
         /\ CardGoes(d) => IInv'
<1> DEFINE held == Held(bound, clients, devices, slot)
<1> USE DEF IInv
<1>1. ASSUME NEW dict \in Dict, NEW port \in Port, CardComes(d, dict, port) PROVE IInv'
  <2>1. cards' \in [Device -> BoundDevice \cup {Absent}]
    BY <1>1 DEF CardComes, TypeOK, BoundDevice
  <2>2. inbox' \in Seq(Message) /\ OnlyTo(inbox', held)
    BY <1>1, Registered, RegistryEvents DEF CardComes
  <2> QED BY <1>1, <2>1, <2>2, ServerKeeps DEF CardComes, TypeOK
<1>2. ASSUME NEW port \in Port, CardStirs(d, port) PROVE IInv'
  <2>1. cards' \in [Device -> BoundDevice \cup {Absent}]
    <3>1. cards[d] \in BoundDevice
      BY <1>2 DEF CardStirs, TypeOK
    <3>2. [cards[d] EXCEPT !.port = port] \in BoundDevice
      BY <3>1 DEF BoundDevice
    <3> QED BY <1>2, <3>2 DEF CardStirs, TypeOK
  <2>2. EmptyDict \in Dict /\ None \in Port
    BY DEF EmptyDict, Dict, Port
  <2>3. PICK m \in {Route(d, port), DeviceInfo(d, EmptyDict), Route(d, None)} :
          Notifies(devices[d] # Absent, m)
    BY <1>2 DEF CardStirs
  <2>4. m \in Message /\ \A id : AddressedTo(m, id) => id = d
    BY <2>2, <2>3, ObjectEvents
  <2>5. inbox' \in Seq(Message) /\ OnlyTo(inbox', held)
    <3>1. CASE devices[d] = Absent
      BY <2>3, <3>1, SaysNone DEF Notifies
    <3>2. CASE devices[d] # Absent
      BY <2>3, <2>4, <3>2, HeldIds, Notified DEF Notifies
    <3> QED BY <3>1, <3>2
  <2> QED BY <1>2, <2>1, <2>5, ServerKeeps DEF CardStirs, TypeOK
<1>3. ASSUME CardGoes(d) PROVE IInv'
  <2>1. cards' \in [Device -> BoundDevice \cup {Absent}]
    BY <1>3 DEF CardGoes, TypeOK
  <2>2. inbox' \in Seq(Message) /\ OnlyTo(inbox', held)
    BY <1>3, Registered, RegistryEvents DEF CardGoes, Ids
  <2> QED BY <1>3, <2>1, <2>2, ServerKeeps DEF CardGoes, TypeOK
<1> QED BY <1>1, <1>2, <1>3

\* One default or one target is told to whoever bound the metadata.
LEMMA MetadataNotified ==
  ASSUME IInv, NEW m \in Message, \A id : AddressedTo(m, id) => id = Metadata,
         Notifies(slot, m)
  PROVE  inbox' \in Seq(Message) /\ OnlyTo(inbox', Held(bound, clients, devices, slot))
<1>1. CASE slot
  BY <1>1, HeldIds, Notified DEF Notifies
<1>2. CASE ~slot
  BY <1>2, SaysNone DEF Notifies
<1> QED BY <1>1, <1>2

\* One default moves.
LEMMA OneDefault ==
  ASSUME NEW k \in Direction, NEW name \in Name \cup {None}
  PROVE  LET m == DefaultsAre([key \in {k} |-> name])
         IN  m \in Message /\ \A id : AddressedTo(m, id) => id = Metadata
<1>1. {k} \in SUBSET Direction /\ [key \in {k} |-> name] \in [{k} -> Name \cup {None}]
  OBVIOUS
<1> QED BY <1>1, MetadataEvents

\* One target moves.
LEMMA OneTarget ==
  ASSUME NEW i \in Node, NEW name \in Name \cup {None}
  PROVE  LET m == TargetsAre([subject \in {i} |-> name])
         IN  m \in Message /\ \A id : AddressedTo(m, id) => id = Metadata
<1>1. {i} \in SUBSET Node /\ [subject \in {i} |-> name] \in [{i} -> Name \cup {None}]
  OBVIOUS
<1> QED BY <1>1, MetadataEvents

\* A stream is pinned, or its pin cleared.
LEMMA PinsMove ==
  ASSUME IInv, NEW i \in Node, NEW name \in Name \cup {None}, PinMoves(i, name)
  PROVE  IInv'
<1>1. pins' \in [Node -> Name \cup {None}]
  BY DEF PinMoves, IInv, TypeOK
<1>2. inbox' \in Seq(Message) /\ OnlyTo(inbox', Held(bound, clients, devices, slot))
  BY OneTarget, MetadataNotified DEF PinMoves
<1> QED BY <1>1, <1>2, ServerKeeps DEF PinMoves, IInv, TypeOK

\* The default metadata appears and goes.
LEMMA MetadataComesAndGoes ==
  ASSUME IInv
  PROVE  /\ MetaComes => IInv'
         /\ MetaGoes => IInv'
         /\ \A k \in Direction, name \in Name \cup {None} : DefaultMoves(k, name) => IInv'
<1> DEFINE held == Held(bound, clients, devices, slot)
<1> USE DEF IInv
<1>1. ASSUME MetaComes PROVE IInv'
  <2>1. inbox' \in Seq(Message) /\ OnlyTo(inbox', held)
    BY <1>1, Registered, RegistryEvents DEF MetaComes
  <2> QED BY <1>1, <2>1, ServerKeeps DEF MetaComes, TypeOK
<1>2. ASSUME MetaGoes PROVE IInv'
  <2>1. inbox' \in Seq(Message) /\ OnlyTo(inbox', held)
    BY <1>2, Registered, RegistryEvents DEF MetaGoes, Ids
  <2>2. defaults' \in [Direction -> Name \cup {None}] /\ pins' \in [Node -> Name \cup {None}]
    BY <1>2 DEF MetaGoes
  <2> QED BY <1>2, <2>1, <2>2, ServerKeeps DEF MetaGoes, TypeOK
<1>3. ASSUME NEW k \in Direction, NEW name \in Name \cup {None}, DefaultMoves(k, name)
      PROVE  IInv'
  <2>1. inbox' \in Seq(Message) /\ OnlyTo(inbox', held)
    BY <1>3, OneDefault, MetadataNotified DEF DefaultMoves
  <2>2. defaults' \in [Direction -> Name \cup {None}]
    BY <1>3 DEF DefaultMoves, TypeOK
  <2> QED BY <1>3, <2>1, <2>2, ServerKeeps DEF DefaultMoves, TypeOK
<1> QED BY <1>1, <1>2, <1>3

\* Every step of the server keeps the invariant.
LEMMA ServerStepKeeps == IInv /\ ServerStep => IInv'
<1> SUFFICES ASSUME IInv, ServerStep PROVE IInv'
  OBVIOUS
<1>1. ASSUME NEW i \in Node PROVE \/ \E o \in Object, level \in Level : NodeComes(i, o, level)
                                  \/ NodeGoes(i)
                                  \/ \E level \in Level : LevelMoves(i, level)
                                  \/ \E name \in Name \cup {None} : PinMoves(i, name)
                                  => IInv'
  BY NodesComeAndGo, LevelsMove, PinsMove
<1>2. ASSUME NEW c \in Client PROVE \/ \E label \in Label : ClientComes(c, label)
                                    \/ \E label \in Label \cup {None} : ClientStirs(c, label)
                                    \/ ClientGoes(c)
                                    => IInv'
  BY ClientsComeAndGo
<1>3. ASSUME NEW d \in Device PROVE \/ \E dict \in Dict, port \in Port : CardComes(d, dict, port)
                                    \/ \E port \in Port : CardStirs(d, port)
                                    \/ CardGoes(d)
                                    => IInv'
  BY CardsComeAndGo
<1>4. \/ MetaComes \/ MetaGoes
      \/ \E k \in Direction, name \in Name \cup {None} : DefaultMoves(k, name)
      => IInv'
  BY MetadataComesAndGoes
<1> QED BY <1>1, <1>2, <1>3, <1>4 DEF ServerStep

-----------------------------------------------------------------------------
(* What a handler may do to one row.                                       *)

\* A row that only changes its level stays right.
LEMMA RowRelevelled ==
  ASSUME NEW cache_, NEW clients_, NEW row, RowRight(row, cache_, clients_), NEW level \in Level
  PROVE  RowRight([row EXCEPT !.stream.level = level], cache_, clients_)
BY DEF RowRight, Bound, Stream, RowShape, Marks

\* An app's row that only changes its target stays right.
LEMMA RowRetargeted ==
  ASSUME NEW cache_, NEW clients_, NEW row, RowRight(row, cache_, clients_),
         row.stream.kind = "app", NEW name \in Name \cup {None}
  PROVE  RowRight([row EXCEPT !.stream.target = name], cache_, clients_)
BY DEF RowRight, Bound, Stream, RowShape, Marks, Direction

\* A device's row that only changes its form stays right.
LEMMA RowReformed ==
  ASSUME NEW cache_, NEW clients_, NEW row, RowRight(row, cache_, clients_),
         row.stream.kind \in Direction, NEW form \in Form \cup {Generic, None}
  PROVE  RowRight([row EXCEPT !.stream.form = form], cache_, clients_)
BY DEF RowRight, Bound, Stream, RowShape, Marks, Direction

\* The card and the name of a device's row, or the card of any row.
LEMMA RowRenamed ==
  ASSUME NEW cache_, NEW clients_, NEW row, RowRight(row, cache_, clients_),
         NEW device \in Device \cup {None}, NEW label \in Label,
         row.stream.kind \in Direction \/ label = row.stream.label
  PROVE  RowRight([row EXCEPT !.device = device, !.stream.label = label], cache_, clients_)
BY ZenonT(60) DEF RowRight, Bound, Stream, RowShape, Marks, Direction

\* An app's row that takes the label of its client stays right.
LEMMA RowRelabelled ==
  ASSUME NEW cache_, NEW clients_, NEW row, RowRight(row, cache_, clients_),
         row.stream.kind = "app", NEW label \in Label, NEW new,
         new[row.client].label = label
  PROVE  RowRight([row EXCEPT !.stream.label = label], cache_, new)
BY DEF RowRight, Bound, Stream, RowShape, Marks, Direction

\* A client that says nothing else of the row's name.
LEMMA RowKeepsLabel ==
  ASSUME NEW cache_, NEW clients_, NEW row, RowRight(row, cache_, clients_), NEW new,
         row.stream.kind = "app" /\ row.client # None =>
           \/ new[row.client] = clients_[row.client]
           \/ new[row.client].label \in {None, row.stream.label}
  PROVE  RowRight(row, cache_, new)
BY DEF RowRight

\* A device's row marked from the cache is right.
LEMMA RowMarked ==
  ASSUME NEW cache_, NEW clients_, NEW row, RowRight(row, cache_, clients_),
         row.stream.kind \in Direction, NEW new,
         row.stream.isDefault # Marks(row.stream, new[row.stream.kind])
  PROVE  RowRight([row EXCEPT !.stream.isDefault = ~@], new, clients_)
<1> DEFINE marked == [row EXCEPT !.stream.isDefault = ~@]
<1>1. row \in Bound /\ row.stream \in Stream /\ row.stream.isDefault \in BOOLEAN
  BY DEF RowRight, Bound, Stream
<1>2. marked = [row EXCEPT !.stream = [row.stream EXCEPT !.isDefault = ~row.stream.isDefault]]
  BY <1>1 DEF Bound
<1>3. [row.stream EXCEPT !.isDefault = ~row.stream.isDefault] \in Stream
  BY <1>1 DEF Stream
<1>4. marked \in Bound
  BY <1>1, <1>2, <1>3 DEF Bound
<1>5. /\ marked.stream.kind = row.stream.kind /\ marked.stream.name = row.stream.name
      /\ marked.stream.target = row.stream.target /\ marked.client = row.client
      /\ marked.stream.isDefault = ~row.stream.isDefault
  BY <1>1 DEF Bound, Stream
<1>6. Marks(marked.stream, new[row.stream.kind]) = Marks(row.stream, new[row.stream.kind])
  BY <1>5 DEF Marks
<1>7. Marks(row.stream, new[row.stream.kind]) \in BOOLEAN
  BY DEF Marks
<1>8. marked.stream.isDefault = Marks(marked.stream, new[marked.stream.kind])
  BY <1>1, <1>5, <1>6, <1>7
<1>9. RowShape(marked.stream) /\ marked.stream.kind # "app"
  BY <1>5 DEF RowRight, RowShape, Direction
<1> HIDE DEF marked
<1>10. RowRight(marked, new, clients_)
  BY <1>4, <1>8, <1>9 DEF RowRight
<1> QED BY <1>10 DEF marked

\* A row of a kind whose default did not move keeps its mark right.
LEMMA RowKeepsMark ==
  ASSUME NEW cache_, NEW clients_, NEW row, RowRight(row, cache_, clients_), NEW new,
         row.stream.kind \in Direction =>
           \/ new[row.stream.kind] = cache_[row.stream.kind]
           \/ row.stream.isDefault = Marks(row.stream, new[row.stream.kind])
  PROVE  RowRight(row, new, clients_)
BY DEF RowRight

-----------------------------------------------------------------------------
(* The handlers.                                                           *)

\* A handler that reads one message and is answered keeps every message met.
LEMMA Answers ==
  ASSUME IInv, inbox # <<>>, NEW replies \in Seq(Message), NEW held,
         OnlyTo(replies, held), Held(bound, clients, devices, slot) \subseteq held,
         Answered(replies)
  PROVE  inbox' \in Seq(Message) /\ OnlyTo(inbox', held)
<1>1. inbox \in Seq(Message) /\ OnlyTo(inbox, Held(bound, clients, devices, slot))
  BY DEF IInv, TypeOK, MessagesMet
<1>2. Tail(inbox) \in Seq(Message) /\ OnlyTo(Tail(inbox), Held(bound, clients, devices, slot))
  BY <1>1, Rest
<1>3. OnlyTo(Tail(inbox), held)
  BY <1>2, MoreHeld
<1> QED BY <1>2, <1>3, Appended DEF Answered

\* A message that is read without an answer.
LEMMA Unanswered ==
  ASSUME IInv, inbox # <<>>, Answered(<<>>), NEW held,
         Held(bound, clients, devices, slot) \subseteq held
  PROVE  inbox' \in Seq(Message) /\ OnlyTo(inbox', held)
BY NoneTo, Answers

\* A proxy that goes with what was on its way to it.
LEMMA Drops ==
  ASSUME IInv, inbox # <<>>, NEW gone, Dropped(gone), NEW held,
         Held(bound, clients, devices, slot) \ {gone} \subseteq held
  PROVE  inbox' \in Seq(Message) /\ OnlyTo(inbox', held)
<1>1. inbox \in Seq(Message) /\ OnlyTo(inbox, Held(bound, clients, devices, slot))
  BY DEF IInv, TypeOK, MessagesMet
<1>2. \A k \in 1..(Len(inbox) - 1) : inbox[k + 1] \in Message
  BY <1>1
<1>3. inbox' \in [1..(Len(inbox) - 1) -> Message]
  BY <1>2, NothingIsAMessage DEF Dropped
<1>4. \A k \in 1..(Len(inbox) - 1) :
        AddressedTo(inbox[k + 1], gone) \/ inbox'[k] # inbox[k + 1]
          => inbox'[k] = [type |-> "nothing"]
  BY DEF Dropped
<1>5. /\ inbox' \in Seq(Message)
      /\ OnlyTo(inbox', Held(bound, clients, devices, slot) \ {gone})
  BY <1>1, <1>3, <1>4, DroppedWithProxy
<1> QED BY <1>5, MoreHeld

\* The head of the inbox is a message, to a proxy the worker holds.
LEMMA HeadMet ==
  ASSUME IInv, inbox # <<>>
  PROVE  /\ Head(inbox) \in Message
         /\ \A id \in Ids : AddressedTo(Head(inbox), id) => id \in Held(bound, clients, devices, slot)
BY Rest DEF IInv, TypeOK, MessagesMet

\* Rows changed where `ids` says, and told.
LEMMA RowsTold ==
  ASSUME IInv, NEW ids, Reports(ids),
         \A i \in Node : i \in ids => bound'[i] # Absent,
         \A i \in Node : i \notin ids => Shown(bound'[i]) = Shown(bound[i])
  PROVE  told' = [i \in Node |-> Shown(bound'[i])] /\ removed' \subseteq Node
<1>1. \A i \in Node : told[i] = Shown(bound[i])
  BY DEF IInv, EventsTellAll, Shown
<1>2. /\ told' = [i \in Node |-> told'[i]]
      /\ \A i \in Node : told'[i] = IF i \in ids THEN bound'[i].stream ELSE told[i]
  BY DEF Reports
<1>3. ASSUME NEW i \in Node PROVE told'[i] = Shown(bound'[i])
  BY <1>1, <1>2 DEF Shown
<1> QED BY <1>2, <1>3 DEF Reports

\* A handler that keeps every proxy, and reads one message.
LEMMA RowHandlerKeeps ==
  ASSUME IInv, inbox # <<>>, UNCHANGED serverVars, Answered(<<>>),
         RowsRight(bound', cache', clients'),
         \A i \in Node : bound'[i] = Absent <=> bound[i] = Absent,
         NEW ids, Reports(ids),
         \A i \in Node : i \in ids => bound'[i] # Absent,
         \A i \in Node : i \notin ids => Shown(bound'[i]) = Shown(bound[i]),
         clients' \in [Client -> BoundClient \cup {Absent}],
         \A c \in Client : clients'[c] = Absent <=> clients[c] = Absent,
         devices' \in [Device -> BoundDevice \cup {Absent}],
         \A d \in Device : devices'[d] = Absent <=> devices[d] = Absent,
         slot' = slot,
         cache' \in [Direction -> Name \cup {None}],
         outdated' \subseteq Node
  PROVE  IInv'
<1>1. Held(bound', clients', devices', slot') = Held(bound, clients, devices, slot)
  BY DEF Held
<1>2. inbox' \in Seq(Message) /\ OnlyTo(inbox', Held(bound', clients', devices', slot'))
  BY <1>1, Unanswered
<1>3. told' = [i \in Node |-> Shown(bound'[i])] /\ removed' \subseteq Node
  BY RowsTold
<1> QED BY <1>2, <1>3, HandlerKeeps DEF IInv, TypeOK

\* An event that finds nothing to do keeps the invariant.
LEMMA NothingKeeps == IInv /\ Nothing => IInv'
<1> SUFFICES ASSUME IInv, Nothing PROVE IInv'
  OBVIOUS
<1> USE DEF Nothing, Takes, mapVars
<1>1. RowsRight(bound', cache', clients')
  BY RowsAreRight
<1> QED BY <1>1, RowHandlerKeeps DEF IInv, TypeOK

\* Rows that a handler changes in place are still there, and told.
LEMMA ChangedInPlace ==
  ASSUME IInv, NEW changed, NEW rows,
         bound' = [i \in Node |-> IF i \in changed THEN rows[i] ELSE bound[i]],
         \A i \in Node : i \in changed => /\ bound[i] # Absent
                                          /\ RowRight(rows[i], cache', clients'),
         \A i \in Node : i \notin changed /\ bound[i] # Absent =>
                           RowRight(bound[i], cache', clients')
  PROVE  /\ RowsRight(bound', cache', clients')
         /\ \A i \in Node : bound'[i] = Absent <=> bound[i] = Absent
         /\ \A i \in Node : i \in changed => bound'[i] # Absent
         /\ \A i \in Node : i \notin changed => Shown(bound'[i]) = Shown(bound[i])
<1>1. ASSUME NEW i \in Node, i \in changed
      PROVE  bound'[i] \in Bound /\ bound'[i] # Absent /\ bound'[i] = rows[i]
  BY <1>1, AbsentIsApart DEF RowRight
<1>2. ASSUME NEW i \in Node, i \notin changed PROVE bound'[i] = bound[i]
  BY <1>2
<1>3. \A i \in Node : bound[i] \in Bound \cup {Absent}
  BY DEF IInv, TypeOK
<1>4. bound' \in RowMap
  <2>1. \A i \in Node : bound'[i] \in Bound \cup {Absent}
    BY <1>1, <1>2, <1>3
  <2> QED BY <2>1 DEF RowMap
<1>5. \A i \in Node : bound'[i] # Absent => RowRight(bound'[i], cache', clients')
  BY <1>1, <1>2
<1> QED BY <1>1, <1>2, <1>4, <1>5 DEF RowsRight

\* The param listener keeps the invariant.
LEMMA PropsKeep == IInv /\ PropsCome => IInv'
<1> SUFFICES ASSUME IInv, PropsCome PROVE IInv'
  OBVIOUS
<1> DEFINE m       == Head(inbox)
           changed == {i \in {m.id} \cap Rows : bound[i].stream.level # m.level}
           rows    == [i \in Node |-> [bound[i] EXCEPT !.stream.level = m.level]]
<1>1. inbox # <<>> /\ m \in Message /\ m.type = "props"
  BY HeadMet DEF PropsCome, Takes
<1>2. m.id \in Node /\ m.level \in Level
  BY <1>1, MessageFields
<1>3. bound' = [i \in Node |-> IF i \in changed THEN rows[i] ELSE bound[i]]
  BY DEF PropsCome
<1>4. UNCHANGED <<serverVars, clients, devices, slot, cache, outdated>>
  BY DEF PropsCome, Takes, mapVars
<1>5. RowsRight(bound, cache, clients)
  BY RowsAreRight
<1>6. \A i \in Node : i \in changed => bound[i] # Absent /\ RowRight(rows[i], cache', clients')
  BY <1>2, <1>4, <1>5, RowRelevelled DEF RowsRight, Rows
<1>7. \A i \in Node : i \notin changed /\ bound[i] # Absent => RowRight(bound[i], cache', clients')
  BY <1>4, <1>5 DEF RowsRight
<1> HIDE DEF changed, rows
<1>8. Reports(changed) /\ Answered(<<>>)
  BY DEF PropsCome, changed
<1> QED BY <1>1, <1>3, <1>4, <1>6, <1>7, <1>8, ChangedInPlace, RowHandlerKeeps DEF IInv, TypeOK

\* Targets that arrive keep the invariant.
LEMMA TargetsKeep == IInv /\ TargetsCome => IInv'
<1> SUFFICES ASSUME IInv, TargetsCome PROVE IInv'
  OBVIOUS
<1> DEFINE names   == Head(inbox).names
           changed == {i \in RowsOf({"app"}) \cap DOMAIN names : bound[i].stream.target # names[i]}
           rows    == [i \in Node |-> [bound[i] EXCEPT !.stream.target = names[i]]]
<1>1. inbox # <<>> /\ Head(inbox) \in Message /\ Head(inbox).type = "targets"
  BY HeadMet DEF TargetsCome, Takes
<1>2. PICK I \in SUBSET Node : names \in [I -> Name \cup {None}]
  BY <1>1, MessageFields
<1>3. bound' = [i \in Node |-> IF i \in changed THEN rows[i] ELSE bound[i]]
  BY DEF TargetsCome
<1>4. UNCHANGED <<serverVars, clients, devices, slot, cache>> /\ outdated' \subseteq Node
  BY DEF TargetsCome, Takes, mapVars, IInv, TypeOK
<1>5. RowsRight(bound, cache, clients)
  BY RowsAreRight
<1>6. \A i \in Node : i \in changed => bound[i] # Absent /\ RowRight(rows[i], cache', clients')
  <2>1. ASSUME NEW i \in Node, i \in changed
        PROVE  /\ bound[i] # Absent /\ bound[i].stream.kind = "app"
               /\ names[i] \in Name \cup {None}
    BY <1>2, <2>1 DEF RowsOf, Rows
  <2> QED BY <1>4, <1>5, <2>1, RowRetargeted DEF RowsRight
<1>7. \A i \in Node : i \notin changed /\ bound[i] # Absent => RowRight(bound[i], cache', clients')
  BY <1>4, <1>5 DEF RowsRight
<1>8. Reports(changed) /\ Answered(<<>>)
  BY DEF TargetsCome
<1> HIDE DEF changed, rows, names
<1> QED BY <1>1, <1>3, <1>4, <1>6, <1>7, <1>8, ChangedInPlace, RowHandlerKeeps DEF IInv, TypeOK

\* The client listener keeps the invariant: it renames every row of its client.
LEMMA ClientInfoKeeps == IInv /\ ClientSays => IInv'
<1> SUFFICES ASSUME IInv, ClientSays PROVE IInv'
  OBVIOUS
<1> DEFINE m       == Head(inbox)
           changed == {i \in RowsOf({"app"}) : /\ bound[i].client = m.id
                                               /\ m.label \notin {None, bound[i].stream.label}}
           rows    == [i \in Node |-> [bound[i] EXCEPT !.stream.label = m.label]]
<1>1. inbox # <<>> /\ m \in Message /\ m.type = "client info"
  BY HeadMet DEF ClientSays, Takes
<1>2. m.id \in Client /\ m.label \in Label \cup {None}
  BY <1>1, MessageFields
<1>3. clients[m.id] # Absent
  <2>1. m.id \in Held(bound, clients, devices, slot)
    BY <1>1, <1>2, HeadMet DEF AddressedTo, Ids
  <2> QED BY <1>2, <2>1, IdAssumption DEF Held
<1>4. clients' = [clients EXCEPT ![m.id] = [label |-> m.label]]
  BY <1>3 DEF ClientSays
<1>5. clients \in [Client -> BoundClient \cup {Absent}] /\ [label |-> m.label] \in BoundClient
  BY <1>2 DEF IInv, TypeOK, BoundClient
<1>6. /\ clients' \in [Client -> BoundClient \cup {Absent}]
      /\ \A c \in Client : clients'[c] = Absent <=> clients[c] = Absent
      /\ clients'[m.id].label = m.label
      /\ \A c \in Client : c # m.id => clients'[c] = clients[c]
  BY <1>2, <1>3, <1>4, <1>5, AbsentIsApart
<1>7. bound' = [i \in Node |-> IF i \in changed THEN rows[i] ELSE bound[i]]
  BY DEF ClientSays
<1>8. UNCHANGED <<serverVars, devices, slot, cache, outdated>>
  BY DEF ClientSays, Takes
<1>9. RowsRight(bound, cache, clients)
  BY RowsAreRight
<1>10. \A i \in Node : i \in changed => bound[i] # Absent /\ RowRight(rows[i], cache', clients')
  <2>1. ASSUME NEW i \in Node, i \in changed
        PROVE  /\ bound[i] # Absent /\ bound[i].stream.kind = "app"
               /\ bound[i].client = m.id /\ m.label \in Label
    BY <1>2, <2>1 DEF RowsOf, Rows
  <2> QED BY <1>6, <1>8, <1>9, <2>1, RowRelabelled DEF RowsRight
<1>11. \A i \in Node : i \notin changed /\ bound[i] # Absent => RowRight(bound[i], cache', clients')
  <2>1. ASSUME NEW i \in Node, i \notin changed, bound[i] # Absent,
               bound[i].stream.kind = "app", bound[i].client # None
        PROVE  \/ clients'[bound[i].client] = clients[bound[i].client]
               \/ clients'[bound[i].client].label \in {None, bound[i].stream.label}
    <3>1. bound[i].client \in Client
      BY <2>1 DEF IInv, TypeOK, Bound
    <3>2. CASE bound[i].client = m.id
      BY <1>6, <2>1, <3>2 DEF RowsOf, Rows
    <3> QED BY <1>6, <3>1, <3>2
  <2> QED BY <1>8, <1>9, <2>1, RowKeepsLabel DEF RowsRight
<1>12. Reports(changed) /\ Answered(<<>>)
  BY DEF ClientSays
<1> HIDE DEF changed, rows, m
<1> QED BY <1>1, <1>6, <1>7, <1>8, <1>10, <1>11, <1>12, ChangedInPlace, RowHandlerKeeps
        DEF IInv, TypeOK

\* refresh_default_marks after the cache changed for `kinds`.
LEMMA Refreshes ==
  ASSUME IInv, NEW kinds \in SUBSET Direction, NEW names,
         Refresh(kinds, names),
         \A k \in kinds : cache'[k] = names[k],
         \A k \in Direction \ kinds : cache'[k] = cache[k],
         clients' = clients
  PROVE  /\ RowsRight(bound', cache', clients')
         /\ \A i \in Node : bound'[i] = Absent <=> bound[i] = Absent
         /\ \A i \in Node : i \in Moved(kinds, names) => bound'[i] # Absent
         /\ \A i \in Node : i \notin Moved(kinds, names) => Shown(bound'[i]) = Shown(bound[i])
<1> DEFINE changed == Moved(kinds, names)
           rows    == [i \in Node |-> [bound[i] EXCEPT !.stream.isDefault = ~@]]
<1>1. bound' = [i \in Node |-> IF i \in changed THEN rows[i] ELSE bound[i]]
  BY DEF Refresh
<1>2. RowsRight(bound, cache, clients)
  BY RowsAreRight
<1>3. \A i \in Node : i \in changed => bound[i] # Absent /\ RowRight(rows[i], cache', clients')
  <2>1. ASSUME NEW i \in Node, i \in changed
        PROVE  /\ bound[i] # Absent /\ bound[i].stream.kind \in kinds
               /\ bound[i].stream.isDefault
                    # Marks(bound[i].stream, cache'[bound[i].stream.kind])
    BY <2>1 DEF Moved, RowsOf, Rows
  <2>2. ASSUME NEW i \in Node, i \in changed PROVE RowRight(rows[i], cache', clients)
    BY <1>2, <2>1, <2>2, RowMarked DEF RowsRight
  <2> QED BY <2>1, <2>2
<1>4. \A i \in Node : i \notin changed /\ bound[i] # Absent => RowRight(bound[i], cache', clients')
  <2>1. ASSUME NEW i \in Node, i \notin changed, bound[i] # Absent,
               bound[i].stream.kind \in Direction
        PROVE  \/ cache'[bound[i].stream.kind] = cache[bound[i].stream.kind]
               \/ bound[i].stream.isDefault
                    = Marks(bound[i].stream, cache'[bound[i].stream.kind])
    BY <2>1 DEF Moved, RowsOf, Rows
  <2> QED BY <1>2, <2>1, RowKeepsMark DEF RowsRight
<1> HIDE DEF changed, rows
<1>5. /\ RowsRight(bound', cache', clients')
      /\ \A i \in Node : bound'[i] = Absent <=> bound[i] = Absent
      /\ \A i \in Node : i \in changed => bound'[i] # Absent
      /\ \A i \in Node : i \notin changed => Shown(bound'[i]) = Shown(bound[i])
  BY <1>1, <1>3, <1>4, ChangedInPlace
<1> QED BY <1>5 DEF changed

\* Defaults that arrive keep the invariant: cache and marks move together.
LEMMA DefaultsKeep == IInv /\ DefaultsCome => IInv'
<1> SUFFICES ASSUME IInv, DefaultsCome PROVE IInv'
  OBVIOUS
<1> DEFINE names == Head(inbox).names
<1>1. inbox # <<>> /\ Head(inbox) \in Message /\ Head(inbox).type = "defaults"
  BY HeadMet DEF DefaultsCome, Takes
<1>2. PICK K \in SUBSET Direction : names \in [K -> Name \cup {None}]
  BY <1>1, MessageFields
<1>3. DOMAIN names \in SUBSET Direction
  BY <1>2
<1>4. cache' = [k \in Direction |-> IF k \in DOMAIN names THEN names[k] ELSE cache[k]]
  BY DEF DefaultsCome
<1>5. cache' \in [Direction -> Name \cup {None}]
  BY <1>2, <1>4 DEF IInv, TypeOK
<1>6. UNCHANGED <<serverVars, clients, devices, slot, outdated>>
  BY DEF DefaultsCome, Takes
<1>7. /\ Refresh(DOMAIN names, names) /\ Reports(Moved(DOMAIN names, names)) /\ Answered(<<>>)
  BY DEF DefaultsCome
<1>8. /\ \A k \in DOMAIN names : cache'[k] = names[k]
      /\ \A k \in Direction \ DOMAIN names : cache'[k] = cache[k]
  BY <1>3, <1>4
<1> HIDE DEF names
<1>9. /\ RowsRight(bound', cache', clients')
      /\ \A i \in Node : bound'[i] = Absent <=> bound[i] = Absent
      /\ \A i \in Node : i \in Moved(DOMAIN names, names) => bound'[i] # Absent
      /\ \A i \in Node : i \notin Moved(DOMAIN names, names) => Shown(bound'[i]) = Shown(bound[i])
  BY <1>3, <1>6, <1>7, <1>8, Refreshes
<1> QED BY <1>1, <1>5, <1>6, <1>7, <1>9, RowHandlerKeeps DEF IInv, TypeOK

\* What a card resolves to is a form.
LEMMA Resolves == ASSUME NEW card \in BoundDevice PROVE Resolved(card) \in Form \cup {Generic}
BY FormAssumption DEF Resolved, BoundDevice, Dict, Port

\* recompute_device_forms_for_device on rows that are right.
LEMMA Reforms ==
  ASSUME NEW cache_, NEW clients_, NEW rows, RowsRight(rows, cache_, clients_),
         NEW cards_ \in [Device -> BoundDevice \cup {Absent}], NEW d \in Device
  PROVE  LET new == Reform(rows, cards_, d)
         IN  /\ RowsRight(new, cache_, clients_)
             /\ \A i \in Node : new[i] = Absent <=> rows[i] = Absent
             /\ \A i \in Node : i \in Reformed(rows, cards_, d) => new[i] # Absent
             /\ \A i \in Node : i \notin Reformed(rows, cards_, d) => new[i] = rows[i]
<1> DEFINE new == Reform(rows, cards_, d)
<1>1. ASSUME NEW i \in Node, i \in Reformed(rows, cards_, d)
      PROVE  /\ RowRight(new[i], cache_, clients_) /\ new[i] # Absent /\ rows[i] # Absent
  <2>1. /\ rows[i] # Absent /\ rows[i].stream.kind \in Direction /\ rows[i].device = d
        /\ new[i] = [rows[i] EXCEPT !.stream.form = FormOf(rows[i], cards_)]
    BY <1>1 DEF Reformed, Reform
  <2>2. RowRight(rows[i], cache_, clients_) /\ rows[i] \in Bound
    BY <2>1 DEF RowsRight, RowRight
  <2>3. FormOf(rows[i], cards_) \in Form \cup {Generic, None}
    BY <2>1, <2>2, Resolves DEF FormOf, Bound, Stream
  <2>4. RowRight(new[i], cache_, clients_)
    BY <2>1, <2>2, <2>3, RowReformed
  <2> QED BY <2>1, <2>4, AbsentIsApart DEF RowRight
<1>2. ASSUME NEW i \in Node, i \notin Reformed(rows, cards_, d) PROVE new[i] = rows[i]
  BY <1>2 DEF Reform
<1>3. \A i \in Node : rows[i] \in Bound \cup {Absent}
  BY DEF RowsRight, RowMap
<1>4. \A i \in Node : new[i] \in Bound \cup {Absent}
  BY <1>1, <1>2, <1>3 DEF RowRight
<1>5. new = [i \in Node |-> new[i]]
  BY DEF Reform
<1> HIDE DEF new
<1>6. new \in RowMap
  BY <1>4, <1>5 DEF RowMap
<1>7. \A i \in Node : new[i] # Absent => RowRight(new[i], cache_, clients_)
  BY <1>1, <1>2 DEF RowsRight
<1>8. RowsRight(new, cache_, clients_)
  BY <1>6, <1>7 DEF RowsRight
<1> QED BY <1>1, <1>2, <1>8 DEF new

\* The device listeners keep the invariant.
LEMMA DeviceEventsKeep == IInv /\ DeviceSays => IInv'
<1> SUFFICES ASSUME IInv, DeviceSays PROVE IInv'
  OBVIOUS
<1> DEFINE m == Head(inbox)
<1>1. inbox # <<>> /\ m \in Message /\ m.type \in {"device info", "route"}
  BY HeadMet DEF DeviceSays, Takes
<1>2. m.id \in Device
  BY <1>1, MessageFields
<1>3. devices[m.id] # Absent
  <2>1. m.id \in Held(bound, clients, devices, slot)
    BY <1>1, <1>2, HeadMet DEF AddressedTo, Ids
  <2> QED BY <1>2, <2>1, IdAssumption DEF Held
<1>4. devices \in [Device -> BoundDevice \cup {Absent}] /\ devices[m.id] \in BoundDevice
  BY <1>2, <1>3 DEF IInv, TypeOK
<1>5. \/ m.dict \in Dict /\ devices' = [devices EXCEPT ![m.id].dict = m.dict]
      \/ m.port \in Port /\ devices' = [devices EXCEPT ![m.id].port = m.port]
      \/ devices' = devices
  BY <1>1, MessageFields DEF DeviceSays, Takes
<1>6. /\ m.dict \in Dict => [devices[m.id] EXCEPT !.dict = m.dict] \in BoundDevice
      /\ m.port \in Port => [devices[m.id] EXCEPT !.port = m.port] \in BoundDevice
  BY <1>4 DEF BoundDevice
<1>7. /\ devices' \in [Device -> BoundDevice \cup {Absent}]
      /\ \A d \in Device : devices'[d] = Absent <=> devices[d] = Absent
  BY <1>2, <1>3, <1>4, <1>5, <1>6, AbsentIsApart
<1>8. UNCHANGED <<serverVars, clients, slot, cache, outdated>>
  BY DEF DeviceSays, Takes
<1>9. /\ bound' = Reform(bound, devices', m.id) /\ Reports(Reformed(bound, devices', m.id))
      /\ Answered(<<>>)
  BY DEF DeviceSays
<1> HIDE DEF m
<1>10. /\ RowsRight(bound', cache', clients')
       /\ \A i \in Node : bound'[i] = Absent <=> bound[i] = Absent
       /\ \A i \in Node : i \in Reformed(bound, devices', m.id) => bound'[i] # Absent
       /\ \A i \in Node : i \notin Reformed(bound, devices', m.id) => bound'[i] = bound[i]
  BY <1>2, <1>7, <1>8, <1>9, RowsAreRight, Reforms
<1> QED BY <1>1, <1>7, <1>8, <1>9, <1>10, RowHandlerKeeps DEF IInv, TypeOK

\* The info listener of a node keeps the invariant.
LEMMA NodeInfoKeeps == IInv /\ NodeSays => IInv'
<1> SUFFICES ASSUME IInv, NodeSays PROVE IInv'
  OBVIOUS
<1> DEFINE m       == Head(inbox)
           row     == bound[m.id]
           device  == IF m.device = None THEN row.device ELSE m.device
           label   == IF row.stream.kind \in Direction /\ m.label # Unnamed
                      THEN m.label ELSE row.stream.label
           named   == [row EXCEPT !.device = device, !.stream.label = label]
           rows    == [bound EXCEPT ![m.id] = named]
           told_   == (IF label = row.stream.label THEN {} ELSE {m.id})
                        \cup (IF device = None THEN {} ELSE Reformed(rows, devices, device))
<1>1. inbox # <<>> /\ m \in Message /\ m.type = "node info"
  BY HeadMet DEF NodeSays, Takes
<1>2. m.id \in Node /\ m.label \in Label /\ m.device \in Device \cup {None}
  BY <1>1, MessageFields
<1>3. row # Absent
  <2>1. m.id \in Held(bound, clients, devices, slot)
    BY <1>1, <1>2, HeadMet DEF AddressedTo, Ids
  <2> QED BY <1>2, <2>1, IdAssumption DEF Held
<1>4. RowsRight(bound, cache, clients) /\ RowRight(row, cache, clients)
  BY <1>2, <1>3, RowsAreRight DEF RowsRight
<1>5. row \in Bound /\ row.stream \in Stream /\ row.device \in Device \cup {None}
  BY <1>4 DEF RowRight, Bound
<1>6. device \in Device \cup {None} /\ label \in Label
  BY <1>2, <1>5 DEF Stream
<1>7. RowRight(named, cache, clients) /\ named # Absent
  <2>1. RowRight(named, cache, clients)
    <3>1. row.stream.kind \in Direction \/ label = row.stream.label
      OBVIOUS
    <3> QED BY <1>4, <1>6, <3>1, RowRenamed
  <2> QED BY <2>1, AbsentIsApart DEF RowRight
<1>8. named.stream = [row.stream EXCEPT !.label = label]
  BY <1>5 DEF Bound
<1>9. [row.stream EXCEPT !.label = row.stream.label] = row.stream
  BY <1>5 DEF Stream
<1>10. /\ bound' = IF device = None THEN rows ELSE Reform(rows, devices, device)
       /\ Reports(told_)
       /\ Answered(<<>>)
  BY <1>3 DEF NodeSays
<1>11. UNCHANGED <<serverVars, clients, devices, slot, cache, outdated>>
  BY DEF NodeSays, Takes, mapVars
<1>12. /\ RowsRight(rows, cache, clients)
       /\ \A i \in Node : rows[i] = IF i = m.id THEN named ELSE bound[i]
  <2>1. \A i \in Node : rows[i] = IF i = m.id THEN named ELSE bound[i]
    BY <1>4 DEF RowsRight, RowMap
  <2>2. rows \in RowMap
    BY <1>2, <1>4, <1>7 DEF RowsRight, RowMap, RowRight
  <2> HIDE DEF rows, named
  <2>3. \A i \in Node : rows[i] # Absent => RowRight(rows[i], cache, clients)
    BY <1>4, <1>7, <2>1 DEF RowsRight
  <2> QED BY <2>1, <2>2, <2>3 DEF RowsRight
<1>13. devices \in [Device -> BoundDevice \cup {Absent}]
  BY DEF IInv, TypeOK
<1> HIDE DEF rows, device, named, label, row, m
<1>14. /\ RowsRight(bound', cache, clients)
       /\ \A i \in Node : bound'[i] = Absent <=> rows[i] = Absent
       /\ \A i \in Node : i \in Reformed(rows, devices, device) /\ device # None =>
                            bound'[i] # Absent
       /\ \A i \in Node : i \notin Reformed(rows, devices, device) \/ device = None =>
                            bound'[i] = rows[i]
  <2>1. CASE device = None
    BY <1>10, <1>12, <2>1
  <2>2. CASE device # None
    BY <1>6, <1>10, <1>12, <1>13, <2>2, Reforms
  <2> QED BY <2>1, <2>2
<1>15. \A i \in Node : bound'[i] = Absent <=> bound[i] = Absent
  BY <1>3, <1>7, <1>12, <1>14 DEF row
<1>16. \A i \in Node : i \in told_ => bound'[i] # Absent
  BY <1>3, <1>7, <1>12, <1>14
<1>17. ASSUME NEW i \in Node, i \notin told_ PROVE Shown(bound'[i]) = Shown(bound[i])
  <2>1. bound'[i] = rows[i]
    BY <1>14, <1>17
  <2>2. CASE i = m.id
    BY <1>3, <1>7, <1>8, <1>9, <1>12, <1>17, <2>1, <2>2 DEF Shown, row
  <2>3. CASE i # m.id
    BY <1>12, <2>1, <2>3
  <2> QED BY <2>2, <2>3
<1> HIDE DEF told_
<1> QED BY <1>1, <1>10, <1>11, <1>14, <1>15, <1>16, <1>17, RowHandlerKeeps DEF IInv, TypeOK, m

\* The answers to a bind are for the proxy it made.
LEMMA NodeAnswered ==
  ASSUME IInv, NEW i \in Node, NEW held, i \in held
  PROVE  NodeReplies(i) \in Seq(Message) /\ OnlyTo(NodeReplies(i), held)
<1>1. CASE nodes[i] = Absent
  BY <1>1, ObjectEvents, OneTo DEF NodeReplies
<1>2. CASE nodes[i] # Absent
  <2>1. nodes[i].object \in Properties /\ nodes[i].level \in Level
    BY <1>2, ObjectAssumption DEF IInv, TypeOK
  <2>2. NodeInfo(i) \in Message /\ \A id : AddressedTo(NodeInfo(i), id) => id = i
    BY <2>1 DEF NodeInfo, Message, AddressedTo, Properties
  <2>3. /\ Props(i, nodes[i].level) \in Message
        /\ \A id : AddressedTo(Props(i, nodes[i].level), id) => id = i
    BY <2>1, ObjectEvents
  <2> QED BY <1>2, <2>2, <2>3, TwoTo DEF NodeReplies
<1> QED BY <1>1, <1>2

\* So are those of a client,
LEMMA ClientAnswered ==
  ASSUME IInv, NEW c \in Client, NEW held, c \in held
  PROVE  ClientReplies(c) \in Seq(Message) /\ OnlyTo(ClientReplies(c), held)
<1>1. CASE apps[c] = Absent
  BY <1>1, NoneTo DEF ClientReplies
<1>2. CASE apps[c] # Absent
  <2>1. apps[c].label \in Label \cup {None}
    BY <1>2 DEF IInv, TypeOK
  <2> QED BY <1>2, <2>1, ObjectEvents, OneTo DEF ClientReplies
<1> QED BY <1>1, <1>2

\* of a device,
LEMMA DeviceAnswered ==
  ASSUME IInv, NEW d \in Device, NEW held, d \in held
  PROVE  DeviceReplies(d) \in Seq(Message) /\ OnlyTo(DeviceReplies(d), held)
<1>1. CASE cards[d] = Absent
  BY <1>1, NoneTo DEF DeviceReplies
<1>2. CASE cards[d] # Absent
  <2>1. cards[d].dict \in Dict /\ cards[d].port \in Port
    BY <1>2 DEF IInv, TypeOK, BoundDevice
  <2> QED BY <1>2, <2>1, ObjectEvents, TwoTo DEF DeviceReplies
<1> QED BY <1>1, <1>2

\* and of the metadata.
LEMMA MetadataAnswered ==
  ASSUME IInv, NEW held, Metadata \in held
  PROVE  MetadataReplies \in Seq(Message) /\ OnlyTo(MetadataReplies, held)
<1>1. CASE ~meta
  BY <1>1, NoneTo DEF MetadataReplies
<1>2. CASE meta
  <2> DEFINE d == DefaultsAre([k \in Known(defaults) |-> defaults[k]])
             t == TargetsAre([i \in Known(pins) |-> pins[i]])
  <2>1. /\ Known(defaults) \in SUBSET Direction
        /\ [k \in Known(defaults) |-> defaults[k]] \in [Known(defaults) -> Name \cup {None}]
    BY DEF Known, IInv, TypeOK
  <2>2. /\ Known(pins) \in SUBSET Node
        /\ [i \in Known(pins) |-> pins[i]] \in [Known(pins) -> Name \cup {None}]
    BY DEF Known, IInv, TypeOK
  <2>3. d \in Message /\ \A id : AddressedTo(d, id) => id = Metadata
    BY <2>1, MetadataEvents
  <2>4. t \in Message /\ \A id : AddressedTo(t, id) => id = Metadata
    BY <2>2, MetadataEvents
  <2>5. MetadataReplies = <<d, t>>
    BY <1>2 DEF MetadataReplies
  <2> HIDE DEF d, t
  <2> QED BY <2>3, <2>4, <2>5, TwoTo
<1> QED BY <1>1, <1>2

\* A row is right from the moment it is inserted.
LEMMA NewRow ==
  ASSUME IInv, NEW o \in Properties, o.kind \in Heard
  PROVE  RowRight(Row(o), cache, clients)
<1>1. /\ o.name \in Name \cup {None} /\ o.label \in Label
      /\ o.client \in Client \cup {None} /\ o.device \in Device \cup {None}
  BY DEF Properties
<1>2. LabelOf(o) \in Label
  <2>1. o.client # None /\ clients[o.client] # Absent => clients[o.client].label \in Label \cup {None}
    BY <1>1 DEF IInv, TypeOK, BoundClient
  <2> QED BY <1>1, <2>1 DEF LabelOf
<1>3. MarkedAtInsert(o) \in BOOLEAN
  BY DEF MarkedAtInsert, Marks
<1>4. Row(o) \in Bound
  BY <1>1, <1>2, <1>3 DEF Row, Bound, Stream
<1>5. RowShape(Row(o).stream)
  BY DEF Row, RowShape, MarkedAtInsert, Direction
<1>6. o.kind \in Direction => MarkedAtInsert(o) = Marks(Row(o).stream, cache[o.kind])
  BY DEF MarkedAtInsert, Marks, Row
<1>7. o.kind = "app" /\ o.client # None /\ clients[o.client] # Absent
        /\ clients[o.client].label # None
      => LabelOf(o) = clients[o.client].label
  BY DEF LabelOf
<1>8. /\ Row(o).stream.kind = o.kind /\ Row(o).client = o.client
      /\ Row(o).stream.isDefault = MarkedAtInsert(o) /\ Row(o).stream.label = LabelOf(o)
  BY DEF Row
<1> QED BY <1>4, <1>5, <1>6, <1>7, <1>8 DEF RowRight

\* bind_node keeps the invariant.
LEMMA BindNodeKeeps == IInv /\ BindNode => IInv'
<1> SUFFICES ASSUME IInv, BindNode PROVE IInv'
  OBVIOUS
<1> DEFINE m    == Head(inbox)
           held == Held(bound', clients', devices', slot')
<1>1. inbox # <<>> /\ m \in Message /\ m.type = "node"
  BY HeadMet DEF BindNode, Takes
<1>2. m.id \in Node /\ m.object \in Properties
  BY <1>1, MessageFields
<1>3. UNCHANGED <<serverVars, clients, devices, slot, cache, outdated>>
  BY DEF BindNode, Takes, mapVars
<1>4. RowsRight(bound, cache, clients)
  BY RowsAreRight
<1>5. CASE m.object.kind \in Heard
  <2>1. RowRight(Row(m.object), cache, clients) /\ Row(m.object) # Absent
    BY <1>2, <1>5, NewRow, AbsentIsApart DEF RowRight
  <2>2. /\ bound' = [bound EXCEPT ![m.id] = Row(m.object)]
        /\ Answered(NodeReplies(m.id)) /\ Reports({m.id})
    BY <1>5 DEF BindNode
  <2>3. \A i \in Node : bound'[i] = IF i = m.id THEN Row(m.object) ELSE bound[i]
    BY <1>4, <2>2 DEF RowsRight, RowMap
  <2>4. bound' \in RowMap
    BY <1>2, <1>4, <2>1, <2>2 DEF RowsRight, RowMap, RowRight
  <2>5. \A i \in Node : bound'[i] # Absent => RowRight(bound'[i], cache, clients)
    BY <1>4, <2>1, <2>3 DEF RowsRight
  <2>6. m.id \in held /\ Held(bound, clients, devices, slot) \subseteq held
    BY <1>2, <1>3, <2>1, <2>3 DEF Held
  <2>7. inbox' \in Seq(Message) /\ OnlyTo(inbox', held)
    BY <1>1, <1>2, <2>2, <2>6, NodeAnswered, Answers
  <2> HIDE DEF m, held
  <2>8. told' = [i \in Node |-> Shown(bound'[i])] /\ removed' \subseteq Node
    BY <2>1, <2>2, <2>3, RowsTold
  <2> QED BY <1>3, <2>4, <2>5, <2>7, <2>8, HandlerKeeps DEF IInv, TypeOK, RowsRight, held
<1>6. CASE m.object.kind \notin Heard
  <2>1. UNCHANGED bound /\ Answered(<<>>) /\ Reports({})
    BY <1>6 DEF BindNode
  <2> QED BY <1>1, <1>3, <1>4, <2>1, RowHandlerKeeps DEF IInv, TypeOK
<1> QED BY <1>5, <1>6

\* bind_client keeps the invariant.
LEMMA BindClientKeeps == IInv /\ BindClient => IInv'
<1> SUFFICES ASSUME IInv, BindClient PROVE IInv'
  OBVIOUS
<1> DEFINE m    == Head(inbox)
           held == Held(bound', clients', devices', slot')
<1>1. inbox # <<>> /\ m \in Message /\ m.type = "client"
  BY HeadMet DEF BindClient, Takes
<1>2. m.id \in Client
  BY <1>1, MessageFields
<1>3. UNCHANGED <<serverVars, bound, devices, slot, cache, outdated>>
  BY DEF BindClient, Takes
<1>4. [label |-> None] \in BoundClient /\ [label |-> None] # Absent
  BY AbsentIsApart DEF BoundClient
<1>5. /\ clients' \in [Client -> BoundClient \cup {Absent}]
      /\ clients'[m.id] = [label |-> None]
      /\ \A c \in Client : c # m.id => clients'[c] = clients[c]
  BY <1>2, <1>4 DEF BindClient, IInv, TypeOK
<1>6. RowsRight(bound', cache', clients')
  <2>1. RowsRight(bound, cache, clients)
    BY RowsAreRight
  <2>2. ASSUME NEW i \in Node, bound[i] # Absent PROVE RowRight(bound[i], cache, clients')
    <3>1. RowRight(bound[i], cache, clients)
      BY <2>1, <2>2 DEF RowsRight
    <3>2. bound[i].client \in Client \cup {None}
      BY <3>1 DEF RowRight, Bound
    <3>3. bound[i].client # None => \/ clients'[bound[i].client] = clients[bound[i].client]
                                    \/ clients'[bound[i].client].label = None
      BY <1>5, <3>2
    <3> QED BY <3>1, <3>3, RowKeepsLabel
  <2> QED BY <1>3, <2>1, <2>2 DEF RowsRight
<1>7. m.id \in held /\ Held(bound, clients, devices, slot) \subseteq held
  BY <1>2, <1>3, <1>4, <1>5 DEF Held
<1>8. inbox' \in Seq(Message) /\ OnlyTo(inbox', held)
  <2>1. Answered(ClientReplies(m.id))
    BY DEF BindClient
  <2>2. ClientReplies(m.id) \in Seq(Message) /\ OnlyTo(ClientReplies(m.id), held)
    BY <1>2, <1>7, ClientAnswered
  <2> HIDE DEF m, held
  <2> QED BY <1>1, <1>7, <2>1, <2>2, Answers
<1>9. told' = [i \in Node |-> Shown(bound'[i])] /\ removed' \subseteq Node
  BY <1>3, RowsTold DEF BindClient
<1> QED BY <1>3, <1>5, <1>6, <1>8, <1>9, HandlerKeeps DEF IInv, TypeOK

\* bind_device keeps the invariant.
LEMMA BindDeviceKeeps == IInv /\ BindDevice => IInv'
<1> SUFFICES ASSUME IInv, BindDevice PROVE IInv'
  OBVIOUS
<1> DEFINE m    == Head(inbox)
           held == Held(bound', clients', devices', slot')
           new  == [dict |-> EmptyDict, port |-> None]
<1>1. inbox # <<>> /\ m \in Message /\ m.type = "device"
  BY HeadMet DEF BindDevice, Takes
<1>2. m.id \in Device
  BY <1>1, MessageFields
<1>3. UNCHANGED <<serverVars, bound, clients, slot, cache, outdated>>
  BY DEF BindDevice, Takes
<1>4. new \in BoundDevice /\ new # Absent
  <2>1. EmptyDict \in Dict /\ None \in Port
    BY DEF EmptyDict, Dict, Port
  <2>2. new \in BoundDevice
    BY <2>1 DEF BoundDevice
  <2> QED BY <2>2, AbsentIsApart
<1>5. /\ devices' \in [Device -> BoundDevice \cup {Absent}]
      /\ devices'[m.id] = new
      /\ \A d \in Device : d # m.id => devices'[d] = devices[d]
  BY <1>2, <1>4 DEF BindDevice, IInv, TypeOK
<1>6. m.id \in held /\ Held(bound, clients, devices, slot) \subseteq held
  BY <1>2, <1>3, <1>4, <1>5 DEF Held
<1>7. inbox' \in Seq(Message) /\ OnlyTo(inbox', held)
  <2>1. Answered(DeviceReplies(m.id))
    BY DEF BindDevice
  <2>2. DeviceReplies(m.id) \in Seq(Message) /\ OnlyTo(DeviceReplies(m.id), held)
    BY <1>2, <1>6, DeviceAnswered
  <2> HIDE DEF m, held
  <2> QED BY <1>1, <1>6, <2>1, <2>2, Answers
<1>8. RowsRight(bound', cache', clients')
  BY <1>3, RowsAreRight
<1>9. told' = [i \in Node |-> Shown(bound'[i])] /\ removed' \subseteq Node
  BY <1>3, RowsTold DEF BindDevice
<1> QED BY <1>3, <1>5, <1>7, <1>8, <1>9, HandlerKeeps DEF IInv, TypeOK

\* bind_default_meta keeps the invariant.
LEMMA BindMetadataKeeps == IInv /\ BindMetadata => IInv'
<1> SUFFICES ASSUME IInv, BindMetadata PROVE IInv'
  OBVIOUS
<1> DEFINE held == Held(bound', clients', devices', slot')
<1>1. inbox # <<>> /\ slot' = TRUE
  BY DEF BindMetadata, Takes
<1>2. UNCHANGED <<serverVars, bound, clients, devices, cache, outdated>>
  BY DEF BindMetadata, Takes
<1>3. Metadata \in held /\ Held(bound, clients, devices, slot) \subseteq held
  BY <1>1, <1>2 DEF Held
<1>4. inbox' \in Seq(Message) /\ OnlyTo(inbox', held)
  <2>1. Answered(MetadataReplies)
    BY DEF BindMetadata
  <2>2. MetadataReplies \in Seq(Message) /\ OnlyTo(MetadataReplies, held)
    BY <1>3, MetadataAnswered
  <2> HIDE DEF held
  <2> QED BY <1>1, <1>3, <2>1, <2>2, Answers
<1>5. RowsRight(bound', cache', clients')
  BY <1>2, RowsAreRight
<1>6. told' = [i \in Node |-> Shown(bound'[i])] /\ removed' \subseteq Node
  BY <1>2, RowsTold DEF BindMetadata
<1> QED BY <1>1, <1>2, <1>4, <1>5, <1>6, HandlerKeeps DEF IInv, TypeOK

\* Rows that go, and are told to.
LEMMA RowsGone ==
  ASSUME IInv, NEW ids, ReportsGone(ids), ids \subseteq Node,
         \A i \in Node : bound'[i] = IF i \in ids THEN Absent ELSE bound[i]
  PROVE  told' = [i \in Node |-> Shown(bound'[i])] /\ removed' \subseteq Node
<1>1. \A i \in Node : told[i] = Shown(bound[i])
  BY DEF IInv, EventsTellAll, Shown
<1>2. /\ told' = [i \in Node |-> told'[i]]
      /\ \A i \in Node : told'[i] = IF i \in ids THEN Absent ELSE told[i]
  BY DEF ReportsGone
<1>3. ASSUME NEW i \in Node PROVE told'[i] = Shown(bound'[i])
  BY <1>1, <1>2 DEF Shown
<1> QED BY <1>2, <1>3 DEF ReportsGone

\* The removed listener of a node keeps the invariant.
LEMMA ProxyRemovedKeeps == IInv /\ ProxyRemoved => IInv'
<1> SUFFICES ASSUME IInv, ProxyRemoved PROVE IInv'
  OBVIOUS
<1> DEFINE m    == Head(inbox)
           held == Held(bound', clients', devices', slot')
<1>1. inbox # <<>> /\ m \in Message /\ m.type = "removed"
  BY HeadMet DEF ProxyRemoved, Takes
<1>2. m.id \in Node
  BY <1>1, MessageFields
<1>3. UNCHANGED <<serverVars, clients, devices, slot, cache>> /\ outdated' \subseteq Node
  BY DEF ProxyRemoved, Takes, mapVars, IInv, TypeOK
<1>4. RowsRight(bound, cache, clients)
  BY RowsAreRight
<1>5. \A i \in Node : bound'[i] = IF i = m.id THEN Absent ELSE bound[i]
  BY <1>4 DEF ProxyRemoved, RowsRight, RowMap
<1>6. bound' \in RowMap
  BY <1>2, <1>4 DEF ProxyRemoved, RowsRight, RowMap
<1>7. RowsRight(bound', cache', clients')
  BY <1>3, <1>4, <1>5, <1>6 DEF RowsRight
<1>8. Held(bound, clients, devices, slot) \ {m.id} \subseteq held
  BY <1>3, <1>5 DEF Held
<1>9. inbox' \in Seq(Message) /\ OnlyTo(inbox', held)
  <2>1. Dropped(m.id)
    BY DEF ProxyRemoved
  <2> HIDE DEF m, held
  <2> QED BY <1>1, <1>8, <2>1, Drops
<1>10. told' = [i \in Node |-> Shown(bound'[i])] /\ removed' \subseteq Node
  BY <1>2, <1>5, RowsGone DEF ProxyRemoved
<1> QED BY <1>3, <1>7, <1>9, <1>10, HandlerKeeps DEF IInv, TypeOK

\* global_remove of the metadata keeps the invariant.
LEMMA MetadataRemovedKeeps == IInv /\ MetadataRemoved => IInv'
<1> SUFFICES ASSUME IInv, MetadataRemoved PROVE IInv'
  OBVIOUS
<1> DEFINE none == [k \in Direction |-> None]
           held == Held(bound', clients', devices', slot')
           told_ == IF slot THEN Moved(Direction, none) ELSE {}
<1>1. inbox # <<>>
  BY DEF MetadataRemoved, Takes
<1>2. /\ UNCHANGED <<serverVars, clients, devices>> /\ slot' = FALSE
      /\ outdated' \subseteq Node
  BY DEF MetadataRemoved, Takes, Rows
<1>3. none \in [Direction -> Name \cup {None}]
  OBVIOUS
<1>4. /\ RowsRight(bound', cache', clients')
      /\ \A i \in Node : bound'[i] = Absent <=> bound[i] = Absent
      /\ \A i \in Node : i \in told_ => bound'[i] # Absent
      /\ \A i \in Node : i \notin told_ => Shown(bound'[i]) = Shown(bound[i])
      /\ Reports(told_)
      /\ cache' \in [Direction -> Name \cup {None}]
  <2>1. CASE slot
    <3>1. /\ cache' = none /\ Refresh(Direction, none) /\ Reports(Moved(Direction, none))
      BY <2>1 DEF MetadataRemoved
    <3>2. \A k \in Direction : cache'[k] = none[k]
      BY <3>1
    <3> HIDE DEF none
    <3> QED BY <1>2, <1>3, <2>1, <3>1, <3>2, Refreshes
  <2>2. CASE ~slot
    <3>1. UNCHANGED <<cache, bound>> /\ Reports({})
      BY <2>2 DEF MetadataRemoved
    <3> QED BY <1>2, <2>2, <3>1, RowsAreRight DEF IInv, TypeOK
  <2> QED BY <2>1, <2>2
<1>5. Held(bound, clients, devices, slot) \ {Metadata} \subseteq held
  BY <1>2, <1>4 DEF Held
<1>6. inbox' \in Seq(Message) /\ OnlyTo(inbox', held)
  <2>1. Dropped(Metadata)
    BY DEF MetadataRemoved
  <2> HIDE DEF held
  <2> QED BY <1>1, <1>5, <2>1, Drops
<1> HIDE DEF told_
<1>7. told' = [i \in Node |-> Shown(bound'[i])] /\ removed' \subseteq Node
  BY <1>4, RowsTold
<1> QED BY <1>2, <1>4, <1>6, <1>7, HandlerKeeps DEF IInv, TypeOK

\* global_remove of anything else keeps the invariant.
LEMMA GlobalRemovedKeeps == IInv /\ GlobalRemoved => IInv'
<1> SUFFICES ASSUME IInv, GlobalRemoved PROVE IInv'
  OBVIOUS
<1> DEFINE id   == Head(inbox).id
           held == Held(bound', clients', devices', slot')
<1>1. inbox # <<>>
  BY DEF GlobalRemoved, Takes
<1>2. UNCHANGED <<serverVars, slot, cache>> /\ outdated' \subseteq Node
  BY DEF GlobalRemoved, Takes, IInv, TypeOK
<1>3. RowsRight(bound, cache, clients)
  BY RowsAreRight
<1>4. /\ bound' = [i \in Node |-> bound'[i]]
      /\ \A i \in Node : bound'[i] = IF i = id THEN Absent ELSE bound[i]
      /\ \A c \in Client : clients'[c] = IF c = id THEN Absent ELSE clients[c]
      /\ \A d \in Device : devices'[d] = IF d = id THEN Absent ELSE devices[d]
  BY DEF GlobalRemoved
<1>5. /\ clients' \in [Client -> BoundClient \cup {Absent}]
      /\ devices' \in [Device -> BoundDevice \cup {Absent}]
  BY DEF GlobalRemoved, IInv, TypeOK
<1>6. bound' \in RowMap
  <2>1. \A i \in Node : bound'[i] \in Bound \cup {Absent}
    BY <1>3, <1>4 DEF RowsRight, RowMap
  <2> QED BY <1>4, <2>1 DEF RowMap
<1>7. RowsRight(bound', cache', clients')
  <2>1. ASSUME NEW i \in Node, bound'[i] # Absent PROVE RowRight(bound'[i], cache', clients')
    <3>1. bound'[i] = bound[i] /\ RowRight(bound[i], cache, clients)
      BY <1>3, <1>4, <2>1 DEF RowsRight
    <3>2. bound[i].client \in Client \cup {None}
      BY <3>1 DEF RowRight, Bound
    <3>3. bound[i].client # None => \/ clients'[bound[i].client] = clients[bound[i].client]
                                    \/ clients'[bound[i].client] = Absent
      BY <1>4, <3>2
    <3> QED BY <1>2, <3>1, <3>3 DEF RowRight
  <2> QED BY <1>6, <2>1 DEF RowsRight
<1>8. Held(bound, clients, devices, slot) \ {id} \subseteq held
  BY <1>2, <1>4 DEF Held
<1>9. inbox' \in Seq(Message) /\ OnlyTo(inbox', held)
  <2>1. Dropped(id)
    BY DEF GlobalRemoved
  <2> HIDE DEF id, held
  <2> QED BY <1>1, <1>8, <2>1, Drops
<1>10. told' = [i \in Node |-> Shown(bound'[i])] /\ removed' \subseteq Node
  <2> DEFINE ids == {id} \cap Rows
  <2>1. ReportsGone(ids) /\ ids \subseteq Node
    BY DEF GlobalRemoved, Rows
  <2>2. \A i \in Node : bound'[i] = IF i \in ids THEN Absent ELSE bound[i]
    BY <1>4 DEF Rows
  <2> HIDE DEF ids
  <2> QED BY <2>1, <2>2, RowsGone
<1> QED BY <1>2, <1>5, <1>7, <1>9, <1>10, HandlerKeeps DEF IInv, TypeOK

\* Every handler keeps the invariant.
LEMMA HandleKeeps == IInv /\ Handle => IInv'
BY NothingKeeps, BindNodeKeeps, NodeInfoKeeps, PropsKeep, ProxyRemovedKeeps, BindClientKeeps,
   ClientInfoKeeps, BindDeviceKeeps, DeviceEventsKeep, BindMetadataKeeps, DefaultsKeep,
   TargetsKeep, MetadataRemovedKeeps, GlobalRemovedKeeps DEF Handle

-----------------------------------------------------------------------------
(* The commands.                                                           *)

\* A command whose write is lost, and that changes no row.
LEMMA LostKeeps ==
  ASSUME IInv, UNCHANGED <<serverVars, inbox>>, ByServer
  PROVE  IInv'
<1>1. inbox' \in Seq(Message) /\ OnlyTo(inbox', Held(bound, clients, devices, slot))
  BY DEF IInv, TypeOK, MessagesMet
<1> QED BY <1>1, ServerKeeps DEF IInv, TypeOK, serverVars

\* apply_default keeps the invariant: cache and marks move before the echo.
LEMMA SetDefaultKeeps ==
  ASSUME IInv, NEW k \in Direction, NEW name \in Name, SetDefault(k, name)
  PROVE  IInv'
<1> DEFINE held == Held(bound', clients', devices', slot')
<1>1. /\ slot /\ UNCHANGED <<outdated, clients, devices, slot>>
      /\ cache' = [cache EXCEPT ![k] = name]
      /\ Refresh({k}, cache') /\ Reports(Moved({k}, cache'))
  BY DEF SetDefault
<1>2. cache' \in [Direction -> Name \cup {None}]
  BY <1>1 DEF IInv, TypeOK
<1>3. {k} \in SUBSET Direction /\ \A d \in Direction \ {k} : cache'[d] = cache[d]
  BY <1>1 DEF IInv, TypeOK
<1>4. /\ RowsRight(bound', cache', clients')
      /\ \A i \in Node : bound'[i] = Absent <=> bound[i] = Absent
      /\ \A i \in Node : i \in Moved({k}, cache') => bound'[i] # Absent
      /\ \A i \in Node : i \notin Moved({k}, cache') => Shown(bound'[i]) = Shown(bound[i])
  BY <1>1, <1>3, Refreshes
<1>5. held = Held(bound, clients, devices, slot)
  BY <1>1, <1>4 DEF Held
<1>6. /\ inbox' \in Seq(Message) /\ OnlyTo(inbox', held)
      /\ defaults' \in [Direction -> Name \cup {None}]
      /\ UNCHANGED <<nodes, apps, cards, meta, pins>>
  <2>1. CASE /\ defaults' = [defaults EXCEPT ![k] = name]
             /\ Says(<<DefaultsAre([key \in {k} |-> name])>>)
             /\ UNCHANGED <<nodes, apps, cards, meta, pins>>
    <3>1. Metadata \in Held(bound, clients, devices, slot)
      BY <1>1, HeldIds
    <3>2. name \in Name \cup {None}
      OBVIOUS
    <3>3. inbox' \in Seq(Message) /\ OnlyTo(inbox', held)
      BY <1>5, <2>1, <3>1, <3>2, OneDefault, Notified
    <3> QED BY <2>1, <3>3 DEF IInv, TypeOK
  <2>2. CASE UNCHANGED <<serverVars, inbox>>
    BY <1>5, <2>2 DEF IInv, TypeOK, MessagesMet, serverVars
  <2> QED BY <2>1, <2>2 DEF SetDefault, Loses
<1>7. told' = [i \in Node |-> Shown(bound'[i])] /\ removed' \subseteq Node
  BY <1>1, <1>4, RowsTold
<1>8. TypeOK'
  <2>1. /\ bound' \in [Node -> Bound \cup {Absent}]
        /\ \A i \in Node : bound'[i] # Absent => RowShape(bound'[i].stream)
    BY <1>4, RowsStayRight
  <2>2. told' \in [Node -> Stream \cup {Absent}]
    BY <1>4, <1>7, ShownTyped DEF RowsRight
  <2> QED BY <1>1, <1>2, <1>6, <1>7, <2>1, <2>2 DEF IInv, TypeOK
<1>9. MessagesMet'
  BY <1>6 DEF MessagesMet
<1>10. EventsTellAll'
  BY <1>4, <1>7, ShownTyped DEF RowsRight, EventsTellAll
<1> QED BY <1>4, <1>8, <1>9, <1>10, RowsStayRight DEF IInv

\* Every command keeps the invariant.
LEMMA CommandKeeps == IInv /\ CommandStep => IInv'
<1> SUFFICES ASSUME IInv, CommandStep PROVE IInv'
  OBVIOUS
<1>1. ASSUME NEW i \in Node, NEW level \in Level, SetVolume(i, level) PROVE IInv'
  BY <1>1, LevelsMove, LostKeeps DEF SetVolume, Loses
<1>2. ASSUME NEW i \in Node, NEW name \in Name \cup {None}, SetStreamTarget(i, name) PROVE IInv'
  BY <1>2, PinsMove, LostKeeps DEF SetStreamTarget, Loses
<1> QED BY <1>1, <1>2, SetDefaultKeeps DEF CommandStep

-----------------------------------------------------------------------------
(* The theorems.                                                           *)

\* The invariant holds at the start.
LEMMA InitIInv == Init => IInv
<1> SUFFICES ASSUME Init PROVE IInv
  OBVIOUS
<1>1. TypeOK
  BY NoneTo DEF Init, TypeOK
<1>2. MessagesMet
  BY NoneTo DEF Init, MessagesMet
<1>3. EventsTellAll
  BY DEF Init, EventsTellAll
<1>4. MarksFollowCache /\ ClientsNameTheirStreams
  BY DEF Init, MarksFollowCache, ClientsNameTheirStreams, RowsOf, Rows
<1> QED BY <1>1, <1>2, <1>3, <1>4 DEF IInv

\* Every step keeps the invariant.
LEMMA NextIInv == IInv /\ [Next]_vars => IInv'
<1>1. IInv /\ UNCHANGED vars => IInv'
  BY DEF IInv, TypeOK, MessagesMet, EventsTellAll, MarksFollowCache, ClientsNameTheirStreams,
         RowsOf, Rows, vars, serverVars, workerVars, mapVars
<1> QED BY <1>1, ServerStepKeeps, HandleKeeps, CommandKeeps DEF Next

\* The invariant holds whatever the server and the commands do.
THEOREM Invariance == Spec => []IInv
BY InitIInv, NextIInv, PTL DEF Spec

\* Rows keep their shape: no default mark, form or target where domain.rs
\* rules it out.
THEOREM TypeCorrect == Spec => []TypeOK
<1>1. IInv => TypeOK
  BY DEF IInv
<1> QED BY <1>1, Invariance, PTL

\* Whoever has read every event knows every row: no listener, bind, command or
\* removal changes a stream without saying so.
THEOREM EventsHold == Spec => []EventsTellAll
<1>1. IInv => EventsTellAll
  BY DEF IInv
<1> QED BY <1>1, Invariance, PTL

\* A device is marked default exactly when the cached default names it.
THEOREM MarksHold == Spec => []MarksFollowCache
<1>1. IInv => MarksFollowCache
  BY DEF IInv
<1> QED BY <1>1, Invariance, PTL

\* An app's row bears its client's name, in whichever order the two came.
THEOREM LabelsHold == Spec => []ClientsNameTheirStreams
<1>1. IInv => ClientsNameTheirStreams
  BY DEF IInv
<1> QED BY <1>1, Invariance, PTL

\* A step reports as removed only rows that had been reported.
LEMMA RemovedWasTold ==
  ASSUME IInv, [Next]_vars
  PROVE  [\A i \in removed' : told[i] # Absent]_vars
<1>1. \A i \in Node : bound[i] # Absent => told[i] # Absent
  BY AbsentIsApart DEF IInv, TypeOK, EventsTellAll, Bound
<1>2. CASE ServerStep \/ CommandStep \/ (Handle /\ ~ProxyRemoved /\ ~GlobalRemoved)
  <2>1. removed' = {}
    BY <1>2 DEF ServerStep, NodeComes, NodeGoes, LevelMoves, PinMoves, ClientComes, ClientStirs,
                ClientGoes, CardComes, CardStirs, CardGoes, MetaComes, MetaGoes, DefaultMoves,
                CommandStep, SetVolume, SetDefault, SetStreamTarget, ByServer, Handle, Nothing,
                BindNode, NodeSays, PropsCome, BindClient, ClientSays, BindDevice, DeviceSays,
                BindMetadata, DefaultsCome, TargetsCome, MetadataRemoved, Reports
  <2> QED BY <2>1
<1>3. CASE ProxyRemoved
  <2>1. inbox # <<>> /\ Head(inbox) \in Message /\ Head(inbox).type = "removed"
    BY <1>3, HeadMet DEF ProxyRemoved, Takes
  <2>2. Head(inbox).id \in Node
    BY <2>1, MessageFields
  <2>3. Head(inbox).id \in Held(bound, clients, devices, slot)
    BY <2>1, <2>2, HeadMet DEF AddressedTo, Ids
  <2>4. bound[Head(inbox).id] # Absent
    BY <2>2, <2>3, IdAssumption DEF Held
  <2>5. removed' = {Head(inbox).id}
    BY <1>3 DEF ProxyRemoved, ReportsGone
  <2> QED BY <1>1, <2>2, <2>4, <2>5
<1>4. CASE GlobalRemoved
  <2>1. removed' \subseteq Rows
    BY <1>4 DEF GlobalRemoved, ReportsGone
  <2> QED BY <1>1, <2>1 DEF Rows
<1> QED BY <1>2, <1>3, <1>4 DEF Next, Handle

\* A removal is reported once and after the arrival, although two listeners
\* hear of a node's end in either order.
THEOREM RemovalsHold == Spec => RemovalsMet
<1>1. IInv /\ [Next]_vars => [\A i \in removed' : told[i] # Absent]_vars
  BY RemovedWasTold
<1> QED BY <1>1, Invariance, PTL DEF Spec, RemovalsMet

-----------------------------------------------------------------------------
(* The mirror: once everything the server said has been handled, the rows   *)
(* are its nodes.                                                           *)

\* Messages of the registry about a node or a device.
Registry(x) == {m \in Message : m.type \in {"node", "device", "gone"} /\ m.id = x}

Announced(x) == {m \in Message : m.type \in {"node", "device"} /\ m.id = x}

MetaAnnounced == {m \in Message : m.type = "metadata"}

MetaRegistry == MetaAnnounced \cup {Gone(Metadata)}

Infos(i) == {m \in Message : m.type = "node info" /\ m.id = i}

Levels(i) == {m \in Message : m.type = "props" /\ m.id = i}

CardSays(d) == {m \in Message : m.type \in {"device info", "route"} /\ m.id = d}

DefaultsOf(k) == {m \in Message : m.type = "defaults" /\ k \in DOMAIN m.names}

TargetsOf(i) == {m \in Message : m.type = "targets" /\ i \in DOMAIN m.names}

\* No message of s is in M.
Free(s, M) == \A k \in DOMAIN s : s[k] \notin M

\* The last message of s in M, if there is any, is in G.
Ends(s, M, G) ==
  \A k \in DOMAIN s : s[k] \in M \ G => \E l \in DOMAIN s : k < l /\ s[l] \in M \cap G

\* Between any two messages in A is one in E, and before the first too unless
\* it is expected at once.
Alternate(s, expected, A, E) ==
  \A k \in DOMAIN s : s[k] \in A =>
    /\ expected \/ \E l \in DOMAIN s : l < k /\ s[l] \in E
    /\ \A j \in DOMAIN s : j < k /\ s[j] \in A => \E l \in DOMAIN s : j < l /\ l < k /\ s[l] \in E

\* The messages of u in M are those of s, in order, up to one step on.
Keeps(s, u, M) ==
  \E d \in {0, 1} :
    /\ \A k \in DOMAIN s : s[k] \in M => k - d \in DOMAIN u /\ u[k - d] = s[k]
    /\ \A k \in DOMAIN u : u[k] \in M => k + d \in DOMAIN s /\ s[k + d] = u[k]

-----------------------------------------------------------------------------
(* Sequences of messages.                                                  *)

\* What is kept has the same things missing.
LEMMA KeptFree ==
  ASSUME NEW s, NEW u, NEW M, NEW N, Keeps(s, u, M), N \subseteq M
  PROVE  Free(s, N) <=> Free(u, N)
<1>1. PICK d \in {0, 1} :
        /\ \A k \in DOMAIN s : s[k] \in M => k - d \in DOMAIN u /\ u[k - d] = s[k]
        /\ \A k \in DOMAIN u : u[k] \in M => k + d \in DOMAIN s /\ s[k + d] = u[k]
  BY DEF Keeps
<1>2. Free(s, N) => Free(u, N)
  BY <1>1 DEF Free
<1>3. Free(u, N) => Free(s, N)
  BY <1>1 DEF Free
<1> QED BY <1>2, <1>3

\* A good last message stays the last, and good.
LEMMA KeptEnds ==
  ASSUME NEW s \in Seq(Message), NEW u \in Seq(Message), NEW M, NEW N, NEW G, NEW H,
         Keeps(s, u, M), N \subseteq M, N \cap G \subseteq H, Ends(s, N, G)
  PROVE  Ends(u, N, H)
<1>1. PICK d \in {0, 1} :
        /\ \A k \in DOMAIN s : s[k] \in M => k - d \in DOMAIN u /\ u[k - d] = s[k]
        /\ \A k \in DOMAIN u : u[k] \in M => k + d \in DOMAIN s /\ s[k + d] = u[k]
  BY DEF Keeps
<1>2. ASSUME NEW k \in DOMAIN u, u[k] \in N \ H
      PROVE  \E l \in DOMAIN u : k < l /\ u[l] \in N \cap H
  <2>1. k + d \in DOMAIN s /\ s[k + d] \in N \ G
    BY <1>1, <1>2
  <2>2. PICK l \in DOMAIN s : k + d < l /\ s[l] \in N \cap G
    BY <2>1 DEF Ends
  <2>3. l - d \in DOMAIN u /\ u[l - d] = s[l] /\ k < l - d
    BY <1>1, <1>2, <2>2
  <2> QED BY <2>2, <2>3
<1> QED BY <1>2 DEF Ends

\* What alternates goes on doing so once a step has been read.
LEMMA KeptAlternate ==
  ASSUME NEW s \in Seq(Message), NEW u \in Seq(Message), NEW M, NEW A, NEW E, NEW b, NEW c,
         Keeps(s, u, M), A \cup E \subseteq M, Alternate(s, b, A, E), b => c
  PROVE  Alternate(u, c, A, E)
<1>1. PICK d \in {0, 1} :
        /\ \A k \in DOMAIN s : s[k] \in M => k - d \in DOMAIN u /\ u[k - d] = s[k]
        /\ \A k \in DOMAIN u : u[k] \in M => k + d \in DOMAIN s /\ s[k + d] = u[k]
  BY DEF Keeps
<1>2. ASSUME NEW k \in DOMAIN u, u[k] \in A
      PROVE  c \/ \E l \in DOMAIN u : l < k /\ u[l] \in E
  <2>1. k + d \in DOMAIN s /\ s[k + d] \in A
    BY <1>1, <1>2
  <2>2. b \/ \E l \in DOMAIN s : l < k + d /\ s[l] \in E
    BY <2>1 DEF Alternate
  <2>3. ASSUME NEW l \in DOMAIN s, l < k + d, s[l] \in E PROVE l - d \in DOMAIN u /\ u[l - d] \in E /\ l - d < k
    <3>1. s[l] \in M
      BY <2>3
    <3>2. l - d \in DOMAIN u /\ u[l - d] = s[l]
      BY <1>1, <3>1
    <3> QED BY <2>3, <3>2
  <2> QED BY <2>2, <2>3
<1>3. ASSUME NEW k \in DOMAIN u, u[k] \in A, NEW j \in DOMAIN u, j < k, u[j] \in A
      PROVE  \E l \in DOMAIN u : j < l /\ l < k /\ u[l] \in E
  <2>1. k + d \in DOMAIN s /\ s[k + d] \in A /\ j + d \in DOMAIN s /\ s[j + d] \in A /\ j + d < k + d
    BY <1>1, <1>3
  <2>2. PICK l \in DOMAIN s : j + d < l /\ l < k + d /\ s[l] \in E
    BY <2>1 DEF Alternate
  <2>3. s[l] \in M
    BY <2>2
  <2>4. l - d \in DOMAIN u /\ u[l - d] = s[l]
    BY <1>1, <2>3
  <2>5. l - d < k /\ j < l - d
    BY <2>2, <2>4
  <2> QED BY <2>2, <2>4, <2>5
<1> QED BY <1>2, <1>3 DEF Alternate

\* Messages said at the end.
LEMMA SaidKeeps ==
  ASSUME NEW s \in Seq(Message), NEW t \in Seq(Message), NEW M, Free(t, M)
  PROVE  Keeps(s, s \o t, M)
<1> DEFINE u == s \o t
<1>1. \A k \in DOMAIN s : k - 0 \in DOMAIN u /\ u[k - 0] = s[k]
  OBVIOUS
<1>2. ASSUME NEW k \in DOMAIN u, u[k] \in M PROVE k + 0 \in DOMAIN s /\ s[k + 0] = u[k]
  <2>1. CASE k \in DOMAIN s
    BY <2>1
  <2>2. CASE k \notin DOMAIN s
    <3>1. k - Len(s) \in DOMAIN t /\ u[k] = t[k - Len(s)]
      BY <2>2, <1>2
    <3> QED BY <3>1, <1>2 DEF Free
  <2> QED BY <2>1, <2>2
<1> QED BY <1>1, <1>2 DEF Keeps

\* The head read and answered.
LEMMA ReadKeeps ==
  ASSUME NEW s \in Seq(Message), s # <<>>, NEW t \in Seq(Message), NEW M, Head(s) \notin M, Free(t, M)
  PROVE  Keeps(s, Tail(s) \o t, M)
<1> DEFINE u == Tail(s) \o t
<1>0. Tail(s) \in Seq(Message) /\ Len(Tail(s)) = Len(s) - 1 /\ Head(s) = s[1] /\ Len(s) \in Nat \ {0}
  OBVIOUS
<1>1. ASSUME NEW k \in DOMAIN s, s[k] \in M PROVE k - 1 \in DOMAIN u /\ u[k - 1] = s[k]
  <2>1. k # 1
    BY <1>0, <1>1
  <2>2. k - 1 \in DOMAIN Tail(s) /\ Tail(s)[k - 1] = s[k]
    BY <2>1, <1>0, <1>1
  <2>3. k - 1 \in DOMAIN u /\ u[k - 1] = Tail(s)[k - 1]
    BY <2>2, <1>0
  <2> QED BY <2>2, <2>3
<1>2. ASSUME NEW k \in DOMAIN u, u[k] \in M PROVE k + 1 \in DOMAIN s /\ s[k + 1] = u[k]
  <2>1. CASE k \in DOMAIN Tail(s)
    <3>1. u[k] = Tail(s)[k]
      BY <2>1, <1>0
    <3> QED BY <2>1, <3>1, <1>0
  <2>2. CASE k \notin DOMAIN Tail(s)
    <3>1. k - Len(Tail(s)) \in DOMAIN t /\ u[k] = t[k - Len(Tail(s))]
      BY <2>2, <1>2, <1>0
    <3> QED BY <3>1, <1>2 DEF Free
  <2> QED BY <2>1, <2>2
<1> QED BY <1>1, <1>2 DEF Keeps

\* The inbox without its head and without what was for a proxy.
Thinned(s, u, id) ==
  u = [k \in 1..(Len(s) - 1) |->
         IF AddressedTo(s[k + 1], id) THEN [type |-> "nothing"] ELSE s[k + 1]]

\* What is left are messages, one fewer.
LEMMA ThinnedTyped ==
  ASSUME NEW s \in Seq(Message), s # <<>>, NEW u, NEW id, Thinned(s, u, id)
  PROVE  u \in Seq(Message) /\ DOMAIN u = 1..(Len(s) - 1)
<1>1. Len(s) - 1 \in Nat /\ \A k \in 1..(Len(s) - 1) : s[k + 1] \in Message
  OBVIOUS
<1>2. u \in [1..(Len(s) - 1) -> Message]
  BY <1>1, NothingIsAMessage DEF Thinned
<1>3. PICK n \in Nat : n = Len(s) - 1
  BY <1>1
<1> QED BY <1>2, <1>3

\* What is for no proxy dropped is kept.
LEMMA DroppedKeeps ==
  ASSUME NEW s \in Seq(Message), s # <<>>, NEW u, NEW id, Thinned(s, u, id),
         NEW M, Head(s) \notin M, [type |-> "nothing"] \notin M,
         \A m \in M : ~AddressedTo(m, id)
  PROVE  Keeps(s, u, M)
<1>0. Head(s) = s[1] /\ Len(s) \in Nat \ {0}
  OBVIOUS
<1>1. ASSUME NEW k \in DOMAIN s, s[k] \in M PROVE k - 1 \in DOMAIN u /\ u[k - 1] = s[k]
  <2>1. k # 1 /\ k \in 1..Len(s)
    BY <1>0, <1>1
  <2>2. k - 1 \in 1..(Len(s) - 1) /\ (k - 1) + 1 = k
    BY <2>1, <1>0
  <2> QED BY <2>2, <1>1 DEF Thinned
<1>2. ASSUME NEW k \in DOMAIN u, u[k] \in M PROVE k + 1 \in DOMAIN s /\ s[k + 1] = u[k]
  <2>1. k \in 1..(Len(s) - 1)
    BY <1>2 DEF Thinned
  <2>2. u[k] = s[k + 1]
    BY <2>1, <1>2 DEF Thinned
  <2> QED BY <2>1, <2>2, <1>0
<1> QED BY <1>1, <1>2 DEF Keeps


\* What is dropped with a proxy leaves the rest where it was.
LEMMA ThinnedKeeps ==
  ASSUME NEW s \in Seq(Message), s # <<>>, NEW u, NEW id, Thinned(s, u, id),
         NEW M, [type |-> "nothing"] \notin M, \A m \in M : ~AddressedTo(m, id)
  PROVE  Keeps(Tail(s), u, M)
<1>0. /\ Len(s) - 1 \in Nat /\ Tail(s) \in Seq(Message) /\ DOMAIN Tail(s) = 1..(Len(s) - 1)
      /\ \A k \in 1..(Len(s) - 1) : Tail(s)[k] = s[k + 1]
  OBVIOUS
<1>1. ASSUME NEW k \in DOMAIN Tail(s), Tail(s)[k] \in M PROVE k - 0 \in DOMAIN u /\ u[k - 0] = Tail(s)[k]
  <2>1. k \in 1..(Len(s) - 1) /\ s[k + 1] \in M
    BY <1>0, <1>1
  <2>2. k - 0 = k
    BY <2>1, <1>0
  <2> QED BY <2>1, <2>2, <1>0 DEF Thinned
<1>2. ASSUME NEW k \in DOMAIN u, u[k] \in M PROVE k + 0 \in DOMAIN Tail(s) /\ Tail(s)[k + 0] = u[k]
  <2>1. k \in 1..(Len(s) - 1)
    BY <1>2 DEF Thinned
  <2>2. u[k] = s[k + 1]
    BY <2>1, <1>2 DEF Thinned
  <2>3. k + 0 = k
    BY <2>1, <1>0
  <2> QED BY <2>1, <2>2, <2>3, <1>0
<1> QED BY <1>1, <1>2 DEF Keeps

\* A message is in neither part exactly when it is not in the whole.
LEMMA SaidFree ==
  ASSUME NEW s \in Seq(Message), NEW t \in Seq(Message), NEW M
  PROVE  Free(s \o t, M) <=> Free(s, M) /\ Free(t, M)
<1>1. ASSUME Free(s, M), Free(t, M), NEW k \in DOMAIN (s \o t) PROVE (s \o t)[k] \notin M
  <2>1. CASE k \in DOMAIN s
    BY <2>1, <1>1 DEF Free
  <2>2. CASE k \notin DOMAIN s
    <3>1. k - Len(s) \in DOMAIN t /\ (s \o t)[k] = t[k - Len(s)]
      BY <2>2, <1>1
    <3> QED BY <3>1, <1>1 DEF Free
  <2> QED BY <2>1, <2>2
<1>2. ASSUME Free(s \o t, M), NEW k \in DOMAIN s PROVE s[k] \notin M
  <2>1. k \in DOMAIN (s \o t) /\ (s \o t)[k] = s[k]
    BY <1>2
  <2> QED BY <2>1, <1>2 DEF Free
<1>3. ASSUME Free(s \o t, M), NEW k \in DOMAIN t PROVE t[k] \notin M
  <2>1. Len(s) + k \in DOMAIN (s \o t) /\ (s \o t)[Len(s) + k] = t[k]
    BY <1>3
  <2> QED BY <2>1, <1>3 DEF Free
<1> QED BY <1>1, <1>2, <1>3 DEF Free

\* The last of the messages said is a good one.
LEMMA SaidEnds ==
  ASSUME NEW s \in Seq(Message), NEW t \in Seq(Message), NEW M, NEW G,
         NEW p \in DOMAIN t, t[p] \in M \cap G, \A q \in DOMAIN t : p < q => t[q] \notin M \ G
  PROVE  Ends(s \o t, M, G)
<1> DEFINE u == s \o t
<1>1. Len(s) + p \in DOMAIN u /\ u[Len(s) + p] = t[p]
  OBVIOUS
<1>2. ASSUME NEW k \in DOMAIN u, u[k] \in M \ G PROVE k < Len(s) + p
  <2>1. CASE k \in DOMAIN s
    BY <2>1
  <2>2. CASE k \notin DOMAIN s
    <3>1. k - Len(s) \in DOMAIN t /\ u[k] = t[k - Len(s)]
      BY <2>2, <1>2
    <3>2. ~(p < k - Len(s)) /\ k - Len(s) # p
      BY <3>1, <1>2
    <3> QED BY <3>1, <3>2
  <2> QED BY <2>1, <2>2
<1> QED BY <1>1, <1>2 DEF Ends

\* Nothing of M is there when neither the head nor the rest is of M.
LEMMA ReadFree ==
  ASSUME NEW s \in Seq(Message), s # <<>>, NEW M
  PROVE  Free(s, M) <=> Head(s) \notin M /\ Free(Tail(s), M)
<1>0. /\ Len(s) \in Nat \ {0} /\ Head(s) = s[1] /\ DOMAIN Tail(s) = 1..(Len(s) - 1) /\ DOMAIN s = 1..Len(s)
      /\ \A k \in 1..(Len(s) - 1) : Tail(s)[k] = s[k + 1]
  OBVIOUS
<1>1. ASSUME Free(s, M) PROVE Head(s) \notin M /\ Free(Tail(s), M)
  BY <1>0, <1>1 DEF Free
<1>2. ASSUME Head(s) \notin M, Free(Tail(s), M), NEW k \in DOMAIN s PROVE s[k] \notin M
  <2>1. CASE k = 1
    BY <2>1, <1>0, <1>2
  <2>2. CASE k # 1
    <3>1. k - 1 \in 1..(Len(s) - 1) /\ (k - 1) + 1 = k
      BY <2>2, <1>0, <1>2
    <3> QED BY <3>1, <1>0, <1>2 DEF Free
  <2> QED BY <2>1, <2>2
<1> QED BY <1>1, <1>2 DEF Free

\* The last word stays the last, until it is the head that is read.
LEMMA ReadEnds ==
  ASSUME NEW s \in Seq(Message), s # <<>>, NEW M, NEW G, Ends(s, M, G)
  PROVE  /\ Ends(Tail(s), M, G)
         /\ Head(s) \in M /\ Free(Tail(s), M) => Head(s) \in G
<1>0. /\ Len(s) \in Nat \ {0} /\ Head(s) = s[1] /\ DOMAIN Tail(s) = 1..(Len(s) - 1) /\ DOMAIN s = 1..Len(s)
      /\ \A k \in 1..(Len(s) - 1) : Tail(s)[k] = s[k + 1]
  OBVIOUS
<1>1. ASSUME NEW l \in DOMAIN s, 1 < l PROVE l - 1 \in DOMAIN Tail(s) /\ Tail(s)[l - 1] = s[l]
  <2>1. l - 1 \in 1..(Len(s) - 1) /\ (l - 1) + 1 = l
    BY <1>0, <1>1
  <2> QED BY <2>1, <1>0
<1>2. ASSUME NEW k \in DOMAIN Tail(s), Tail(s)[k] \in M \ G
      PROVE  \E l \in DOMAIN Tail(s) : k < l /\ Tail(s)[l] \in M \cap G
  <2>1. k + 1 \in DOMAIN s /\ s[k + 1] \in M \ G
    BY <1>0, <1>2
  <2>2. PICK l \in DOMAIN s : k + 1 < l /\ s[l] \in M \cap G
    BY <2>1 DEF Ends
  <2>3. 1 < l /\ k < l - 1
    BY <2>2, <1>0, <1>2
  <2>4. l - 1 \in DOMAIN Tail(s) /\ Tail(s)[l - 1] = s[l]
    BY <2>3, <1>1
  <2> QED BY <2>2, <2>3, <2>4
<1>3. ASSUME Head(s) \in M \ G PROVE ~Free(Tail(s), M)
  <2>1. 1 \in DOMAIN s /\ s[1] \in M \ G
    BY <1>0, <1>3
  <2>2. PICK l \in DOMAIN s : 1 < l /\ s[l] \in M \cap G
    BY <2>1 DEF Ends
  <2> QED BY <2>2, <1>1 DEF Free
<1> QED BY <1>2, <1>3 DEF Ends

\* Reading an announcement makes the next one unexpected; reading anything else
\* makes an announcement at most more expected.
LEMMA ReadAlternate ==
  ASSUME NEW s \in Seq(Message), s # <<>>, NEW A, NEW E, NEW b, Alternate(s, b, A, E), A \cap E = {}
  PROVE  /\ Head(s) \in A => b
         /\ Head(s) \in A => Alternate(Tail(s), FALSE, A, E)
         /\ Alternate(Tail(s), TRUE, A, E)
<1>0. /\ Len(s) \in Nat \ {0} /\ Head(s) = s[1] /\ DOMAIN Tail(s) = 1..(Len(s) - 1) /\ DOMAIN s = 1..Len(s)
      /\ \A k \in 1..(Len(s) - 1) : Tail(s)[k] = s[k + 1]
  OBVIOUS
<1>1. ASSUME NEW l \in DOMAIN s, 1 < l PROVE l - 1 \in DOMAIN Tail(s) /\ Tail(s)[l - 1] = s[l]
  <2>1. l - 1 \in 1..(Len(s) - 1) /\ (l - 1) + 1 = l
    BY <1>0, <1>1
  <2> QED BY <2>1, <1>0
<1>2. ASSUME NEW k \in DOMAIN Tail(s), Tail(s)[k] \in A, NEW j \in DOMAIN Tail(s), j < k, Tail(s)[j] \in A
      PROVE  \E l \in DOMAIN Tail(s) : j < l /\ l < k /\ Tail(s)[l] \in E
  <2>1. k + 1 \in DOMAIN s /\ j + 1 \in DOMAIN s /\ s[k + 1] \in A /\ s[j + 1] \in A /\ j + 1 < k + 1
    BY <1>0, <1>2
  <2>2. PICK l \in DOMAIN s : j + 1 < l /\ l < k + 1 /\ s[l] \in E
    BY <2>1 DEF Alternate
  <2>3. 1 < l /\ j < l - 1 /\ l - 1 < k
    BY <2>2, <1>0, <1>2
  <2>4. l - 1 \in DOMAIN Tail(s) /\ Tail(s)[l - 1] = s[l]
    BY <2>3, <1>1
  <2> QED BY <2>2, <2>3, <2>4
<1>3. ASSUME NEW k \in DOMAIN Tail(s), Tail(s)[k] \in A, ~b \/ Head(s) \in A
      PROVE  Head(s) \in E \/ \E l \in DOMAIN Tail(s) : l < k /\ Tail(s)[l] \in E
  <2>1. k + 1 \in DOMAIN s /\ s[k + 1] \in A /\ 1 < k + 1 /\ 1 \in DOMAIN s
    BY <1>0, <1>3
  <2>2. PICK l \in DOMAIN s : l < k + 1 /\ s[l] \in E /\ (l = 1 => Head(s) \in E)
    BY <2>1, <1>3, <1>0 DEF Alternate
  <2>3. CASE l = 1
    BY <2>3, <2>2
  <2>4. CASE l # 1
    <3>1. 1 < l /\ l - 1 < k
      BY <2>4, <2>2, <1>0, <1>3
    <3> QED BY <3>1, <2>2, <1>1
  <2> QED BY <2>3, <2>4
<1>4. ASSUME Head(s) \in A PROVE b
  <2>1. 1 \in DOMAIN s /\ s[1] \in A /\ ~\E l \in DOMAIN s : l < 1
    BY <1>0, <1>4
  <2> QED BY <2>1 DEF Alternate
<1>5. ASSUME Head(s) \in A PROVE Alternate(Tail(s), FALSE, A, E)
  BY <1>2, <1>3, <1>5 DEF Alternate
<1>6. Alternate(Tail(s), TRUE, A, E)
  BY <1>2 DEF Alternate
<1> QED BY <1>4, <1>5, <1>6

\* What is no announcement can be said at any time.
LEMMA SaidNoAnnouncement ==
  ASSUME NEW s \in Seq(Message), NEW t \in Seq(Message), NEW A, NEW E, NEW b,
         Alternate(s, b, A, E), Free(t, A)
  PROVE  Alternate(s \o t, b, A, E)
<1> DEFINE u == s \o t
<1>0. \A k \in DOMAIN s : k \in DOMAIN u /\ u[k] = s[k]
  OBVIOUS
<1>1. ASSUME NEW k \in DOMAIN u, u[k] \in A PROVE k \in DOMAIN s /\ s[k] \in A
  <2>1. CASE k \notin DOMAIN s
    <3>1. k - Len(s) \in DOMAIN t /\ u[k] = t[k - Len(s)]
      BY <2>1, <1>1
    <3> QED BY <3>1, <1>1 DEF Free
  <2> QED BY <2>1, <1>0, <1>1
<1>2. ASSUME NEW k \in DOMAIN u, u[k] \in A
      PROVE  b \/ \E l \in DOMAIN u : l < k /\ u[l] \in E
  BY <1>0, <1>1, <1>2 DEF Alternate
<1>3. ASSUME NEW k \in DOMAIN u, u[k] \in A, NEW j \in DOMAIN u, j < k, u[j] \in A
      PROVE  \E l \in DOMAIN u : j < l /\ l < k /\ u[l] \in E
  <2>1. k \in DOMAIN s /\ s[k] \in A /\ j \in DOMAIN s /\ s[j] \in A
    BY <1>1, <1>3
  <2>2. PICK l \in DOMAIN s : j < l /\ l < k /\ s[l] \in E
    BY <2>1, <1>3 DEF Alternate
  <2> QED BY <2>2, <1>0
<1> QED BY <1>2, <1>3 DEF Alternate

\* An announcement at the end, where the last word was an end.
LEMMA SaidAlternate ==
  ASSUME NEW s \in Seq(Message), NEW A, NEW E, NEW b, NEW a \in Message, NEW M,
         Alternate(s, b, A, E), A \cup E = M, A \cap E = {}, Ends(s, M, E), Free(s, M) => b
  PROVE  Alternate(s \o <<a>>, b, A, E)
<1> DEFINE u == s \o <<a>>
<1>0. DOMAIN u = 1..(Len(s) + 1) /\ u[Len(s) + 1] = a /\ Len(s) \in Nat /\ \A k \in DOMAIN s : k \in DOMAIN u /\ u[k] = s[k]
  OBVIOUS
<1>1. ASSUME NEW k \in DOMAIN s, u[k] \in A
      PROVE  /\ b \/ \E l \in DOMAIN u : l < k /\ u[l] \in E
             /\ \A j \in DOMAIN u : j < k /\ u[j] \in A => \E l \in DOMAIN u : j < l /\ l < k /\ u[l] \in E
  <2>1. b \/ \E l \in DOMAIN s : l < k /\ s[l] \in E
    BY <1>0, <1>1 DEF Alternate
  <2>2. ASSUME NEW j \in DOMAIN u, j < k, u[j] \in A PROVE \E l \in DOMAIN u : j < l /\ l < k /\ u[l] \in E
    <3>1. j \in DOMAIN s /\ s[j] \in A /\ s[k] \in A
      BY <2>2, <1>0, <1>1
    <3>2. PICK l \in DOMAIN s : j < l /\ l < k /\ s[l] \in E
      BY <3>1, <2>2 DEF Alternate
    <3> QED BY <3>2, <1>0
  <2> QED BY <2>1, <2>2, <1>0
<1>2. ASSUME ~b PROVE \E l \in DOMAIN u : l < Len(s) + 1 /\ u[l] \in E
  <2>1. PICK k \in DOMAIN s : s[k] \in M
    BY <1>2 DEF Free
  <2>2. CASE s[k] \in E
    BY <2>2, <1>0
  <2>3. CASE s[k] \notin E
    <3>1. PICK l \in DOMAIN s : s[l] \in E
      BY <2>1, <2>3 DEF Ends
    <3> QED BY <3>1, <1>0
  <2> QED BY <2>2, <2>3
<1>3. ASSUME NEW j \in DOMAIN u, j < Len(s) + 1, u[j] \in A
      PROVE  \E l \in DOMAIN u : j < l /\ l < Len(s) + 1 /\ u[l] \in E
  <2>1. j \in DOMAIN s /\ s[j] \in M \ E
    BY <1>0, <1>3
  <2>2. PICK l \in DOMAIN s : j < l /\ s[l] \in E
    BY <2>1 DEF Ends
  <2> QED BY <2>2, <1>0
<1>4. \A k \in DOMAIN u : k \in DOMAIN s \/ k = Len(s) + 1
  BY <1>0
<1> QED BY <1>1, <1>2, <1>3, <1>4 DEF Alternate

\* What is kept of many is kept of fewer.
LEMMA KeepsLess ==
  ASSUME NEW s, NEW u, NEW M, NEW N, Keeps(s, u, M), N \subseteq M
  PROVE  Keeps(s, u, N)
BY DEF Keeps

\* What is said is there.
LEMMA SaidIsThere ==
  ASSUME NEW s \in Seq(Message), NEW t \in Seq(Message), NEW M, NEW p \in DOMAIN t, t[p] \in M
  PROVE  ~Free(s \o t, M)
BY SaidFree DEF Free

\* What ends well for one reason ends well for a weaker one.
LEMMA EndsMore ==
  ASSUME NEW s, NEW M, NEW G, NEW H, Ends(s, M, G), M \cap G \subseteq H
  PROVE  Ends(s, M, H)
BY DEF Ends

-----------------------------------------------------------------------------
(* What the inbox has still to say, and what holds once it is silent.      *)

\* A node is announced anew only after the end of the last one was, and to a
\* worker that holds no row for it by then.
Alternates(i) == Alternate(inbox, bound[i] = Absent, Announced(i), {Gone(i)})

RemovedAndGone(i) == Free(inbox, {Gone(i)}) => Free(inbox, {Removed(i)})

\* The registry's last word about a node.
Current(i) ==
  {m \in Registry(i) :
     IF nodes[i] = Absent THEN m = Gone(i)
     ELSE /\ m.type = "node"
          /\ m.object.kind = nodes[i].object.kind /\ m.object.name = nodes[i].object.name
          /\ m.object.label \in FirstLabels(nodes[i].object)
          /\ m.object.device \in {nodes[i].object.device, None}}

RowIs(i) ==
  IF nodes[i] = Absent \/ nodes[i].object.kind \notin Heard THEN bound[i] = Absent
  ELSE LET o == nodes[i].object
           s == bound[i].stream
       IN  /\ bound[i] # Absent
           /\ s.kind = o.kind /\ s.name = o.name
           /\ bound[i].device \in {o.device, None}
           /\ o.kind \in Direction => s.label \in FirstLabels(o)

NodeSettles(i) ==
  /\ Ends(inbox, Registry(i), Current(i))
  /\ Free(inbox, Registry(i)) => RowIs(i)

InfoSettles(i) ==
  Free(inbox, Registry(i)) /\ nodes[i] # Absent /\ bound[i] # Absent =>
    /\ Free(inbox, Infos(i) \ {NodeInfo(i)})
    /\ Free(inbox, Infos(i)) =>
         /\ bound[i].device = nodes[i].object.device
         /\ bound[i].stream.kind \in Direction => bound[i].stream.label = nodes[i].object.label

LevelSettles(i) ==
  /\ Ends(inbox, Registry(i) \cup Levels(i),
          Registry(i) \cup {m \in Levels(i) : nodes[i] # Absent /\ m.level = nodes[i].level})
  /\ Free(inbox, Registry(i) \cup Levels(i)) =>
       (nodes[i] # Absent /\ bound[i] # Absent => bound[i].stream.level = nodes[i].level)

NodeInv(i) ==
  Alternates(i) /\ RemovedAndGone(i) /\ NodeSettles(i) /\ InfoSettles(i) /\ LevelSettles(i)

MetaSettles ==
  /\ Ends(inbox, MetaRegistry, IF meta THEN MetaAnnounced ELSE {Gone(Metadata)})
  /\ Free(inbox, MetaRegistry) => slot = meta

DefaultSettles(k) ==
  /\ Ends(inbox, MetaRegistry \cup DefaultsOf(k),
          MetaRegistry \cup {m \in DefaultsOf(k) : m.names[k] = defaults[k]})
  /\ Free(inbox, MetaRegistry \cup DefaultsOf(k)) => cache[k] = defaults[k]

MetaInv ==
  /\ Alternate(inbox, ~slot, MetaAnnounced, {Gone(Metadata)})
  /\ MetaSettles
  /\ \A k \in Direction : DefaultSettles(k)
  /\ ~meta => \A k \in Direction : defaults[k] = None
  /\ ~slot => \A k \in Direction : cache[k] = None

PinSettles(i) ==
  Free(inbox, MetaRegistry) /\ slot =>
    /\ Ends(inbox, Registry(i) \cup TargetsOf(i),
            {m \in Registry(i) : pins[i] = None} \cup {m \in TargetsOf(i) : m.names[i] = pins[i]})
    /\ Free(inbox, Registry(i) \cup TargetsOf(i)) =>
         (bound[i] # Absent /\ bound[i].stream.kind = "app" /\ i \notin outdated
            => bound[i].stream.target = pins[i])

PinInv(i) ==
  /\ PinSettles(i)
  /\ ~meta \/ nodes[i] = Absent => pins[i] = None
  /\ ~slot => (bound[i] # Absent /\ i \notin outdated => bound[i].stream.target = None)

\* A card whose announcement is the last of it is there to answer its bind.
CardSettles(d) ==
  Ends(inbox, Registry(d), {m \in Registry(d) : m \in Announced(d) => cards[d] # Absent})

FormMsgs(i, d) == {Gone(d), Gone(i)} \cup CardSays(d) \cup Infos(i)

FormSettles(i, d) ==
  /\ devices[d] # Absent
  /\ bound[i] # Absent /\ bound[i].stream.kind \in Direction /\ bound[i].device = d
  /\ Free(inbox, FormMsgs(i, d))
  => bound[i].stream.form = Resolved(devices[d])

MirrorInv ==
  /\ \A i \in Node : NodeInv(i) /\ PinInv(i)
  /\ MetaInv
  /\ \A d \in Device : CardSettles(d) /\ \A i \in Node : FormSettles(i, d)

NodeMsgs(i) == Registry(i) \cup Infos(i) \cup Levels(i) \cup {Removed(i)}

MetaMsgs == MetaRegistry \cup DefaultsOf("sink") \cup DefaultsOf("source")

PinMsgs(i) == MetaRegistry \cup Registry(i) \cup TargetsOf(i)

\* What is still a row's own after a step that has nothing to do with it.
RowStays(i) ==
  /\ bound'[i] = Absent <=> bound[i] = Absent
  /\ bound[i] # Absent =>
       /\ bound'[i].device = bound[i].device
       /\ bound'[i].stream.kind = bound[i].stream.kind
       /\ bound'[i].stream.name = bound[i].stream.name
       /\ bound[i].stream.kind \in Direction => bound'[i].stream.label = bound[i].stream.label

LevelStays(i) ==
  /\ bound'[i] = Absent <=> bound[i] = Absent
  /\ bound[i] # Absent => bound'[i].stream.level = bound[i].stream.level

RowKeeps(i) == RowStays(i) /\ LevelStays(i)

TargetKeeps(i) ==
  \/ bound'[i] = Absent
  \/ /\ bound[i] # Absent
     /\ bound'[i].stream.kind = bound[i].stream.kind
     /\ bound'[i].stream.target = bound[i].stream.target
     /\ i \in outdated => i \in outdated'

FormKeeps(i) ==
  \/ bound'[i] = Absent
  \/ /\ bound[i] # Absent
     /\ bound'[i].device = bound[i].device
     /\ bound'[i].stream.kind = bound[i].stream.kind
     /\ bound'[i].stream.form = bound[i].stream.form

\* The registry's announcements and ends are all it says.
LEMMA RegistryWords ==
  /\ \A i \in Node : Announced(i) \cup {Gone(i)} = Registry(i) /\ Announced(i) \cap {Gone(i)} = {}
  /\ \A d \in Device : Announced(d) \cup {Gone(d)} = Registry(d) /\ Announced(d) \cap {Gone(d)} = {}
  /\ MetaAnnounced \cap {Gone(Metadata)} = {}
  /\ \A x \in Ids : Gone(x) \in Message
<1>1. \A x \in Ids : Gone(x) \in Message /\ Gone(x).type = "gone" /\ Gone(x).id = x
  BY DEF Gone, Message, Ids
<1>2. ASSUME NEW m \in Message, NEW x \in Ids, m.type = "gone", m.id = x PROVE m = Gone(x)
  BY <1>2 DEF Message, Gone, Ids
<1>3. ASSUME NEW x \in Ids PROVE Announced(x) \cup {Gone(x)} = Registry(x) /\ Announced(x) \cap {Gone(x)} = {}
  <2>1. Gone(x) \in Registry(x)
    BY <1>1 DEF Registry
  <2>2. \A m \in Registry(x) : m \in Announced(x) \/ m = Gone(x)
    BY <1>2 DEF Registry, Announced
  <2>3. \A m \in Announced(x) : m \in Registry(x) /\ m # Gone(x)
    BY <1>1 DEF Registry, Announced
  <2> QED BY <2>1, <2>2, <2>3
<1>4. Node \subseteq Ids /\ Device \subseteq Ids /\ Metadata \in Ids
  BY DEF Ids
<1>5. MetaAnnounced \cap {Gone(Metadata)} = {}
  BY DEF MetaAnnounced, Gone
<1> QED BY <1>1, <1>3, <1>4, <1>5

\* Which messages are about which thing.
LEMMA Elsewhere ==
  ASSUME NEW m \in Message
  PROVE  /\ \A i \in Node : m \in NodeMsgs(i) =>
              m.type \in {"node", "gone", "node info", "props", "removed"} /\ m.id = i
         /\ m \in MetaMsgs => m.type \in {"metadata", "defaults"} \/ (m.type = "gone" /\ m.id = Metadata)
         /\ \A i \in Node : m \in PinMsgs(i) =>
              \/ m.type = "metadata" \/ (m.type \in {"node", "gone"} /\ m.id \in {i, Metadata})
              \/ m.type = "targets" /\ i \in DOMAIN m.names
         /\ \A d \in Device : m \in Registry(d) => m.type \in {"device", "gone"} /\ m.id = d
         /\ \A i \in Node, d \in Device : m \in FormMsgs(i, d) =>
              \/ m.type = "gone" /\ m.id \in {i, d}
              \/ m.type \in {"device info", "route"} /\ m.id = d
              \/ m.type = "node info" /\ m.id = i
<1>1. /\ m.type = "node" => m.id \in Node
      /\ m.type = "device" => m.id \in Device
  BY MessageFields
<1>2. Node \cap Device = {}
  BY IdAssumption
<1>3. ASSUME NEW i \in Node, m \in NodeMsgs(i)
      PROVE  m.type \in {"node", "gone", "node info", "props", "removed"} /\ m.id = i
  <2>1. m \in Registry(i) => m.type \in {"node", "gone"} /\ m.id = i
    BY <1>1, <1>2 DEF Registry
  <2>2. m \in Infos(i) \cup Levels(i) => m.type \in {"node info", "props"} /\ m.id = i
    BY DEF Infos, Levels
  <2>3. m = Removed(i) => m.type = "removed" /\ m.id = i
    BY DEF Removed
  <2> QED BY <1>3, <2>1, <2>2, <2>3 DEF NodeMsgs
<1>4. m \in MetaMsgs => m.type \in {"metadata", "defaults"} \/ (m.type = "gone" /\ m.id = Metadata)
  BY DEF MetaMsgs, MetaRegistry, MetaAnnounced, DefaultsOf, Gone
<1>5. ASSUME NEW i \in Node, m \in PinMsgs(i)
      PROVE  \/ m.type = "metadata" \/ (m.type \in {"node", "gone"} /\ m.id \in {i, Metadata})
             \/ m.type = "targets" /\ i \in DOMAIN m.names
  <2>1. m \in Registry(i) => m.type \in {"node", "gone"} /\ m.id = i
    BY <1>1, <1>2 DEF Registry
  <2>2. m \in MetaRegistry => m.type = "metadata" \/ (m.type = "gone" /\ m.id = Metadata)
    BY DEF MetaRegistry, MetaAnnounced, Gone
  <2>3. m \in TargetsOf(i) => m.type = "targets" /\ i \in DOMAIN m.names
    BY DEF TargetsOf
  <2> QED BY <1>5, <2>1, <2>2, <2>3 DEF PinMsgs
<1>6. ASSUME NEW d \in Device, m \in Registry(d) PROVE m.type \in {"device", "gone"} /\ m.id = d
  BY <1>1, <1>2, <1>6 DEF Registry
<1>7. ASSUME NEW i \in Node, NEW d \in Device, m \in FormMsgs(i, d)
      PROVE  \/ m.type = "gone" /\ m.id \in {i, d}
             \/ m.type \in {"device info", "route"} /\ m.id = d
             \/ m.type = "node info" /\ m.id = i
  <2>1. m = Gone(d) \/ m = Gone(i) => m.type = "gone" /\ m.id \in {i, d}
    BY DEF Gone
  <2>2. m \in CardSays(d) => m.type \in {"device info", "route"} /\ m.id = d
    BY DEF CardSays
  <2>3. m \in Infos(i) => m.type = "node info" /\ m.id = i
    BY DEF Infos
  <2> QED BY <1>7, <2>1, <2>2, <2>3 DEF FormMsgs
<1> QED BY <1>3, <1>4, <1>5, <1>6, <1>7

\* Announcements go on alternating with ends while the row is not bound.
LEMMA AlternatesKept ==
  ASSUME NEW i \in Node, TypeOK, TypeOK', Alternates(i), bound[i] = Absent => bound'[i] = Absent,
         Keeps(inbox, inbox', Registry(i))
  PROVE  Alternates(i)'
<1>0. inbox \in Seq(Message) /\ inbox' \in Seq(Message)
  BY DEF TypeOK
<1>1. Alternate(inbox, bound[i] = Absent, Announced(i), {Gone(i)})
  BY DEF Alternates
<1>2. Announced(i) \cup {Gone(i)} \subseteq Registry(i)
  BY RegistryWords
<1>3. Alternate(inbox', bound'[i] = Absent, Announced(i), {Gone(i)})
  BY <1>0, <1>1, <1>2, KeptAlternate
<1> QED BY <1>3 DEF Alternates

\* The proxy's word is never without the registry's.
LEMMA RemovedKept ==
  ASSUME NEW i \in Node, RemovedAndGone(i),
         Free(inbox', {Gone(i)}) => Free(inbox, {Gone(i)}),
         Free(inbox, {Removed(i)}) => Free(inbox', {Removed(i)})
  PROVE  RemovedAndGone(i)'
BY DEF RemovedAndGone

\* The node is the same but for its level.
SameNode(i) ==
  /\ nodes'[i] = Absent <=> nodes[i] = Absent
  /\ nodes[i] # Absent => nodes'[i].object = nodes[i].object

\* The registry's last word stays true of the row.
LEMMA NodeKept ==
  ASSUME NEW i \in Node, TypeOK, TypeOK', NodeSettles(i), SameNode(i), RowStays(i),
         Keeps(inbox, inbox', Registry(i))
  PROVE  NodeSettles(i)'
<1>0. inbox \in Seq(Message) /\ inbox' \in Seq(Message)
  BY DEF TypeOK
<1>1. Free(inbox, Registry(i)) <=> Free(inbox', Registry(i))
  BY KeptFree
<1>2. Current(i)' = Current(i)
  <2>1. CASE nodes[i] = Absent
    BY <2>1 DEF Current, SameNode
  <2>2. CASE nodes[i] # Absent
    BY <2>2 DEF Current, SameNode
  <2> QED BY <2>1, <2>2
<1>3. Ends(inbox', Registry(i), Current(i))
  BY <1>0, KeptEnds DEF NodeSettles
<1>4. RowIs(i) => RowIs(i)'
  <2>1. CASE nodes[i] = Absent \/ nodes[i].object.kind \notin Heard
    BY <2>1 DEF RowIs, RowStays, SameNode
  <2>2. CASE ~(nodes[i] = Absent \/ nodes[i].object.kind \notin Heard)
    BY <2>2 DEF RowIs, RowStays, SameNode
  <2> QED BY <2>1, <2>2
<1> QED BY <1>1, <1>2, <1>3, <1>4 DEF NodeSettles

\* The properties on their way stay the node's.
LEMMA InfoKept ==
  ASSUME NEW i \in Node, TypeOK, TypeOK', InfoSettles(i), SameNode(i), RowStays(i),
         Keeps(inbox, inbox', Registry(i) \cup Infos(i))
  PROVE  InfoSettles(i)'
<1>1. Free(inbox, Registry(i)) <=> Free(inbox', Registry(i))
  BY KeptFree
<1>2. Free(inbox, Infos(i)) <=> Free(inbox', Infos(i))
  BY KeptFree
<1>3. Free(inbox, Infos(i) \ {NodeInfo(i)}) <=> Free(inbox', Infos(i) \ {NodeInfo(i)})
  BY KeptFree
<1>4. nodes[i] # Absent => NodeInfo(i)' = NodeInfo(i)
  BY DEF NodeInfo, SameNode
<1> QED BY <1>1, <1>2, <1>3, <1>4 DEF InfoSettles, RowStays, SameNode

\* The last level on its way stays the node's.
LEMMA LevelKept ==
  ASSUME NEW i \in Node, TypeOK, TypeOK', LevelSettles(i), nodes'[i] = nodes[i], LevelStays(i),
         Keeps(inbox, inbox', Registry(i) \cup Levels(i))
  PROVE  LevelSettles(i)'
<1>0. inbox \in Seq(Message) /\ inbox' \in Seq(Message)
  BY DEF TypeOK
<1> DEFINE M == Registry(i) \cup Levels(i)
           G == Registry(i) \cup {m \in Levels(i) : nodes[i] # Absent /\ m.level = nodes[i].level}
<1>1. Ends(inbox, M, G)
  BY DEF LevelSettles
<1>2. G' = G
  OBVIOUS
<1>3. Ends(inbox', M, G)
  BY <1>0, <1>1, KeptEnds
<1>4. Free(inbox, M) <=> Free(inbox', M)
  BY KeptFree
<1> QED BY <1>2, <1>3, <1>4 DEF LevelSettles, LevelStays

\* A node nothing was said of, and whose row keeps what is its own.
LEMMA NodeFrame ==
  ASSUME NEW i \in Node, TypeOK, TypeOK', NodeInv(i), nodes'[i] = nodes[i], RowKeeps(i),
         Keeps(inbox, inbox', NodeMsgs(i))
  PROVE  NodeInv(i)'
<1>1. /\ Keeps(inbox, inbox', Registry(i))
      /\ Keeps(inbox, inbox', Registry(i) \cup Infos(i))
      /\ Keeps(inbox, inbox', Registry(i) \cup Levels(i))
  BY KeepsLess DEF NodeMsgs
<1>2. SameNode(i)
  BY DEF SameNode
<1>3. Alternates(i)'
  BY <1>1, AlternatesKept DEF NodeInv, RowKeeps, RowStays
<1>4. RemovedAndGone(i)'
  <2>1. {Gone(i)} \subseteq NodeMsgs(i) /\ {Removed(i)} \subseteq NodeMsgs(i)
    BY RegistryWords DEF NodeMsgs
  <2>2. Free(inbox, {Gone(i)}) <=> Free(inbox', {Gone(i)})
    BY <2>1, KeptFree
  <2>3. Free(inbox, {Removed(i)}) <=> Free(inbox', {Removed(i)})
    BY <2>1, KeptFree
  <2> QED BY <2>2, <2>3, RemovedKept DEF NodeInv
<1>5. NodeSettles(i)'
  BY <1>1, <1>2, NodeKept DEF NodeInv, RowKeeps
<1>6. InfoSettles(i)'
  BY <1>1, <1>2, InfoKept DEF NodeInv, RowKeeps
<1>7. LevelSettles(i)'
  BY <1>1, LevelKept DEF NodeInv, RowKeeps
<1> QED BY <1>3, <1>4, <1>5, <1>6, <1>7 DEF NodeInv

\* The metadata's part, when nothing of it is said or done.
LEMMA MetaFrame ==
  ASSUME TypeOK, TypeOK', MetaInv, UNCHANGED <<meta, defaults, slot, cache>>, Keeps(inbox, inbox', MetaMsgs)
  PROVE  MetaInv'
<1>0. inbox \in Seq(Message) /\ inbox' \in Seq(Message)
  BY DEF TypeOK
<1>1. Alternate(inbox', ~slot', MetaAnnounced, {Gone(Metadata)})
  <2>1. MetaAnnounced \cup {Gone(Metadata)} \subseteq MetaMsgs
    BY DEF MetaMsgs, MetaRegistry
  <2>2. Alternate(inbox, ~slot, MetaAnnounced, {Gone(Metadata)})
    BY DEF MetaInv
  <2>3. Alternate(inbox', ~slot, MetaAnnounced, {Gone(Metadata)})
    BY <1>0, <2>1, <2>2, KeptAlternate
  <2> QED BY <2>3
<1>2. MetaSettles'
  <2>1. MetaRegistry \subseteq MetaMsgs
    BY DEF MetaMsgs
  <2>2. Free(inbox, MetaRegistry) <=> Free(inbox', MetaRegistry)
    BY <2>1, KeptFree
  <2>3. MetaSettles
    BY DEF MetaInv
  <2>4. Ends(inbox', MetaRegistry, IF meta THEN MetaAnnounced ELSE {Gone(Metadata)})
    BY <1>0, <2>1, <2>3, KeptEnds DEF MetaSettles
  <2> QED BY <2>2, <2>3, <2>4 DEF MetaSettles
<1>3. ASSUME NEW k \in Direction PROVE DefaultSettles(k)'
  <2> DEFINE M == MetaRegistry \cup DefaultsOf(k)
             G == MetaRegistry \cup {m \in DefaultsOf(k) : m.names[k] = defaults[k]}
  <2>1. M \subseteq MetaMsgs
    BY DEF MetaMsgs, Direction
  <2>2. Free(inbox, M) <=> Free(inbox', M)
    BY <2>1, KeptFree
  <2>3. DefaultSettles(k)
    BY DEF MetaInv
  <2>4. Ends(inbox, M, G)
    BY <2>3 DEF DefaultSettles
  <2>5. Ends(inbox', M, G)
    BY <1>0, <2>1, <2>4, KeptEnds
  <2> QED BY <2>2, <2>3, <2>5 DEF DefaultSettles
<1> QED BY <1>1, <1>2, <1>3 DEF MetaInv

\* A pin's part, when nothing of it is said or done.
LEMMA PinFrame ==
  ASSUME NEW i \in Node, TypeOK, TypeOK', PinInv(i), UNCHANGED <<meta, slot>>,
         nodes'[i] = Absent => nodes[i] = Absent, pins'[i] = pins[i],
         TargetKeeps(i),
         Keeps(inbox, inbox', PinMsgs(i))
  PROVE  PinInv(i)'
<1>0. inbox \in Seq(Message) /\ inbox' \in Seq(Message)
  BY DEF TypeOK
<1> DEFINE M == Registry(i) \cup TargetsOf(i)
           G == {m \in Registry(i) : pins[i] = None} \cup {m \in TargetsOf(i) : m.names[i] = pins[i]}
<1>1. M \subseteq PinMsgs(i) /\ MetaRegistry \subseteq PinMsgs(i)
  BY DEF PinMsgs
<1>2. Free(inbox, M) <=> Free(inbox', M)
  BY <1>1, KeptFree
<1>3. Free(inbox, MetaRegistry) <=> Free(inbox', MetaRegistry)
  BY <1>1, KeptFree
<1>4. PinSettles(i) /\ (~meta \/ nodes[i] = Absent => pins[i] = None)
      /\ (~slot => (bound[i] # Absent /\ i \notin outdated => bound[i].stream.target = None))
  BY DEF PinInv
<1>5. PinSettles(i)'
  <2> SUFFICES ASSUME Free(inbox', MetaRegistry), slot'
               PROVE  /\ Ends(inbox', M, G')
                      /\ Free(inbox', M) =>
                           (bound'[i] # Absent /\ bound'[i].stream.kind = "app" /\ i \notin outdated'
                              => bound'[i].stream.target = pins'[i])
    BY DEF PinSettles
  <2>1. Ends(inbox, M, G)
    BY <1>3, <1>4 DEF PinSettles
  <2>2. Ends(inbox', M, G)
    BY <1>0, <1>1, <2>1, KeptEnds
  <2>3. G' = G
    OBVIOUS
  <2> QED BY <2>2, <2>3, <1>2, <1>3, <1>4 DEF PinSettles, TargetKeeps
<1> QED BY <1>4, <1>5 DEF PinInv, TargetKeeps

\* A card's part, when nothing of it is said or done.
LEMMA CardFrame ==
  ASSUME NEW d \in Device, TypeOK, TypeOK', CardSettles(d), cards'[d] = Absent => cards[d] = Absent,
         Keeps(inbox, inbox', Registry(d))
  PROVE  CardSettles(d)'
<1>0. inbox \in Seq(Message) /\ inbox' \in Seq(Message)
  BY DEF TypeOK
<1> DEFINE G == {m \in Registry(d) : m \in Announced(d) => cards[d] # Absent}
<1>1. Ends(inbox, Registry(d), G)
  BY DEF CardSettles
<1>2. Registry(d) \cap G \subseteq G'
  OBVIOUS
<1>3. Ends(inbox', Registry(d), G')
  BY <1>0, <1>1, <1>2, KeptEnds
<1> QED BY <1>3 DEF CardSettles

\* A row's form, when nothing of it or of its card is said or done.
LEMMA FormFrame ==
  ASSUME NEW i \in Node, NEW d \in Device, TypeOK, TypeOK', FormSettles(i, d), devices'[d] = devices[d],
         FormKeeps(i),
         Free(inbox', FormMsgs(i, d)) => Free(inbox, FormMsgs(i, d))
  PROVE  FormSettles(i, d)'
BY DEF FormSettles, FormKeeps, Resolved

-----------------------------------------------------------------------------
(* The server's steps.                                                     *)

\* One message that is not of M.
LEMMA OneIsFree ==
  ASSUME NEW m, NEW M, m \notin M
  PROVE  Free(<<m>>, M)
BY DEF Free

\* No message is of anything.
LEMMA NoneIsFree ==
  ASSUME NEW M
  PROVE  Free(<<>>, M)
BY DEF Free

\* What the server does not speak of stays as it was.
LEMMA ServerFrame ==
  ASSUME TypeOK, TypeOK', MirrorInv, ByServer, NEW t \in Seq(Message), inbox' = inbox \o t
  PROVE  /\ \A i \in Node : nodes'[i] = nodes[i] /\ Free(t, NodeMsgs(i)) => NodeInv(i)'
         /\ \A i \in Node : UNCHANGED meta /\ nodes'[i] = nodes[i] /\ pins'[i] = pins[i] /\ Free(t, PinMsgs(i))
                              => PinInv(i)'
         /\ UNCHANGED <<meta, defaults>> /\ Free(t, MetaMsgs) => MetaInv'
         /\ \A d \in Device : (cards'[d] = Absent => cards[d] = Absent) /\ Free(t, Registry(d)) => CardSettles(d)'
         /\ \A i \in Node, d \in Device : FormSettles(i, d)'
<1>0. inbox \in Seq(Message)
  BY DEF TypeOK
<1>1. UNCHANGED <<bound, clients, devices, slot, cache, outdated>>
  BY DEF ByServer, mapVars
<1>2. \A M : Free(t, M) => Keeps(inbox, inbox', M)
  BY <1>0, SaidKeeps
<1>3. ASSUME NEW i \in Node, nodes'[i] = nodes[i], Free(t, NodeMsgs(i)) PROVE NodeInv(i)'
  <2>1. RowKeeps(i)
    BY <1>1 DEF RowKeeps, RowStays, LevelStays
  <2>2. Keeps(inbox, inbox', NodeMsgs(i)) /\ NodeInv(i)
    BY <1>2, <1>3 DEF MirrorInv
  <2> QED BY <1>3, <2>1, <2>2, NodeFrame
<1>4. ASSUME NEW i \in Node, UNCHANGED meta, nodes'[i] = nodes[i], pins'[i] = pins[i], Free(t, PinMsgs(i))
      PROVE  PinInv(i)'
  <2>1. Keeps(inbox, inbox', PinMsgs(i)) /\ PinInv(i)
    BY <1>2, <1>4 DEF MirrorInv
  <2>2. TargetKeeps(i)
    BY <1>1 DEF TargetKeeps
  <2> QED BY <1>1, <1>4, <2>1, <2>2, PinFrame
<1>5. ASSUME UNCHANGED <<meta, defaults>>, Free(t, MetaMsgs) PROVE MetaInv'
  <2>1. Keeps(inbox, inbox', MetaMsgs) /\ MetaInv
    BY <1>2, <1>5 DEF MirrorInv
  <2> QED BY <1>1, <1>5, <2>1, MetaFrame
<1>6. ASSUME NEW d \in Device, cards'[d] = Absent => cards[d] = Absent, Free(t, Registry(d)) PROVE CardSettles(d)'
  <2>1. Keeps(inbox, inbox', Registry(d)) /\ CardSettles(d)
    BY <1>2, <1>6 DEF MirrorInv
  <2> QED BY <1>6, <2>1, CardFrame
<1>7. ASSUME NEW i \in Node, NEW d \in Device PROVE FormSettles(i, d)'
  <2>1. Free(inbox', FormMsgs(i, d)) => Free(inbox, FormMsgs(i, d))
    BY <1>0, SaidFree
  <2>2. FormSettles(i, d)
    BY DEF MirrorInv
  <2> QED BY <1>1, <2>1, <2>2, FormFrame DEF FormKeeps
<1> QED BY <1>3, <1>4, <1>5, <1>6, <1>7

\* A node that comes is announced after the end of the one that had its id.
LEMMA NodeComesMirrored ==
  ASSUME IInv, TypeOK', MirrorInv, NEW i \in Node, NEW o \in Object, NEW level \in Level, NodeComes(i, o, level)
  PROVE  MirrorInv'
<1>0. TypeOK /\ inbox \in Seq(Message) /\ o \in Properties
  BY ObjectAssumption DEF IInv, TypeOK
<1>1. /\ nodes[i] = Absent /\ nodes' = [nodes EXCEPT ![i] = [object |-> o, level |-> level]]
      /\ ByServer /\ UNCHANGED <<apps, cards, meta, defaults, pins>>
  BY DEF NodeComes
<1>2. PICK label \in FirstLabels(o), device \in {o.device, None} :
        inbox' = inbox \o <<[type |-> "node", id |-> i, object |-> [o EXCEPT !.label = label, !.device = device]]>>
  BY DEF NodeComes, Says
<1>3. PICK n : n = [type |-> "node", id |-> i, object |-> [o EXCEPT !.label = label, !.device = device]]
  OBVIOUS
<1>4. /\ n \in Message /\ n.type = "node" /\ n.id = i /\ inbox' = inbox \o <<n>>
      /\ n.object.kind = o.kind /\ n.object.name = o.name
      /\ n.object.label \in FirstLabels(o) /\ n.object.device \in {o.device, None}
  <2>1. [o EXCEPT !.label = label, !.device = device] \in Properties
    BY Announcement
  <2>2. n \in Message
    BY <1>3, <2>1, RegistryEvents
  <2>3. n.type = "node" /\ n.id = i /\ n.object = [o EXCEPT !.label = label, !.device = device]
    BY <1>3
  <2> QED BY <1>0, <1>2, <1>3, <2>2, <2>3 DEF Properties
<1>5. <<n>> \in Seq(Message) /\ 1 \in DOMAIN <<n>> /\ <<n>>[1] = n /\ \A q \in DOMAIN <<n>> : ~(1 < q)
  BY <1>4
<1>6. /\ nodes'[i] # Absent /\ nodes'[i].object = o
      /\ UNCHANGED <<bound, slot, outdated>> /\ \A j \in Node : j # i => nodes'[j] = nodes[j]
  BY <1>0, <1>1 DEF TypeOK, ByServer, mapVars, Absent
<1>7. NodeInv(i) /\ PinInv(i)
  BY DEF MirrorInv
<1>8. n \in Registry(i) /\ n \in Announced(i)
  BY <1>4 DEF Registry, Announced
<1>9. NodeInv(i)'
  <2>1. Alternates(i)'
    <3>1. Ends(inbox, Registry(i), Current(i)) /\ (Free(inbox, Registry(i)) => bound[i] = Absent)
      BY <1>1, <1>7 DEF NodeInv, NodeSettles, RowIs
    <3>2. Registry(i) \cap Current(i) \subseteq {Gone(i)}
      BY <1>1 DEF Current
    <3>3. Ends(inbox, Registry(i), {Gone(i)})
      BY <3>1, <3>2, EndsMore
    <3>4. Alternate(inbox, bound[i] = Absent, Announced(i), {Gone(i)})
      BY <1>7 DEF NodeInv, Alternates
    <3>5. Alternate(inbox \o <<n>>, bound[i] = Absent, Announced(i), {Gone(i)})
      BY <1>0, <1>4, <3>1, <3>3, <3>4, RegistryWords, SaidAlternate
    <3> QED BY <3>5, <1>4, <1>6 DEF Alternates
  <2>2. RemovedAndGone(i)'
    <3>1. Free(inbox', {Gone(i)}) => Free(inbox, {Gone(i)})
      BY <1>0, <1>4, <1>5, SaidFree
    <3>2. Free(<<n>>, {Removed(i)})
      BY <1>4, OneIsFree DEF Removed
    <3>3. Free(inbox, {Removed(i)}) => Free(inbox', {Removed(i)})
      BY <1>0, <1>4, <1>5, <3>2, SaidFree
    <3> QED BY <3>1, <3>3, <1>7, RemovedKept DEF NodeInv
  <2>3. ~Free(inbox', Registry(i)) /\ ~Free(inbox', Registry(i) \cup Levels(i))
    BY <1>0, <1>4, <1>5, <1>8, SaidIsThere
  <2>4. n \in Current(i)'
    BY <1>4, <1>6, <1>8 DEF Current
  <2>5. Ends(inbox', Registry(i), Current(i)')
    BY <1>0, <1>4, <1>5, <1>8, <2>4, SaidEnds
  <2>6. ASSUME NEW G, Registry(i) \subseteq G PROVE Ends(inbox', Registry(i) \cup Levels(i), G)
    BY <1>0, <1>4, <1>5, <1>8, <2>6, SaidEnds
  <2>7. NodeSettles(i)' /\ InfoSettles(i)' /\ LevelSettles(i)'
    BY <2>3, <2>5, <2>6 DEF NodeSettles, InfoSettles, LevelSettles
  <2> QED BY <2>1, <2>2, <2>7 DEF NodeInv
<1>10. PinInv(i)'
  <2>1. pins'[i] = None
    BY <1>1, <1>7 DEF PinInv
  <2>2. ~Free(inbox', Registry(i) \cup TargetsOf(i))
    BY <1>0, <1>4, <1>5, <1>8, SaidIsThere
  <2>3. ASSUME NEW G, Registry(i) \subseteq G PROVE Ends(inbox', Registry(i) \cup TargetsOf(i), G)
    BY <1>0, <1>4, <1>5, <1>8, <2>3, SaidEnds
  <2>4. Registry(i) \subseteq ({m \in Registry(i) : pins[i] = None} \cup {m \in TargetsOf(i) : m.names[i] = pins[i]})'
    BY <2>1
  <2>5. PinSettles(i)'
    BY <2>2, <2>3, <2>4 DEF PinSettles
  <2> QED BY <1>6, <1>7, <2>1, <2>5 DEF PinInv
<1>11. /\ \A j \in Node : j # i => Free(<<n>>, NodeMsgs(j)) /\ Free(<<n>>, PinMsgs(j))
       /\ Free(<<n>>, MetaMsgs) /\ \A d \in Device : Free(<<n>>, Registry(d))
  <2>1. i # Metadata
    BY IdAssumption
  <2> QED BY <1>4, <2>1, Elsewhere, OneIsFree
<1> QED BY <1>0, <1>1, <1>4, <1>5, <1>6, <1>9, <1>10, <1>11, ServerFrame DEF MirrorInv

\* A node that goes leaves its end as the last word about it.
LEMMA NodeGoesMirrored ==
  ASSUME IInv, TypeOK', MirrorInv, NEW i \in Node, NodeGoes(i)
  PROVE  MirrorInv'
<1>0. TypeOK /\ inbox \in Seq(Message) /\ Gone(i) \in Message /\ Removed(i) \in Message
  BY RegistryEvents, ObjectEvents DEF IInv, TypeOK, Ids
<1>1. /\ nodes[i] # Absent /\ nodes' = [nodes EXCEPT ![i] = Absent] /\ pins' = [pins EXCEPT ![i] = None]
      /\ ByServer /\ UNCHANGED <<apps, cards, meta, defaults>>
  BY DEF NodeGoes
<1>2. PICK t \in {<<Gone(i)>>, <<Gone(i), Removed(i)>>, <<Removed(i), Gone(i)>>} : inbox' = inbox \o t
  BY DEF NodeGoes, Says
<1>3. t \in Seq(Message) /\ \A q \in DOMAIN t : t[q] \in {Gone(i), Removed(i)}
  <2>1. CASE t = <<Gone(i)>>
    BY <2>1, <1>0
  <2>2. CASE t = <<Gone(i), Removed(i)>>
    BY <2>2, <1>0
  <2>3. CASE t = <<Removed(i), Gone(i)>>
    BY <2>3, <1>0
  <2> QED BY <2>1, <2>2, <2>3
<1>4. PICK p \in DOMAIN t : t[p] = Gone(i)
  <2>1. CASE t = <<Gone(i)>>
    BY <2>1
  <2>2. CASE t = <<Gone(i), Removed(i)>>
    BY <2>2
  <2>3. CASE t = <<Removed(i), Gone(i)>>
    BY <2>3
  <2> QED BY <2>1, <2>2, <2>3
<1>5. nodes'[i] = Absent /\ pins'[i] = None /\ UNCHANGED <<bound, slot, outdated>>
      /\ \A j \in Node : j # i => nodes'[j] = nodes[j] /\ pins'[j] = pins[j]
  BY <1>0, <1>1 DEF TypeOK, ByServer, mapVars
<1>6. NodeInv(i) /\ PinInv(i)
  BY DEF MirrorInv
<1>7. /\ Gone(i) \in Registry(i) /\ Gone(i) \notin Announced(i)
      /\ Gone(i).type = "gone" /\ Gone(i).id = i /\ Removed(i).type = "removed" /\ Removed(i).id = i
  BY RegistryWords DEF Gone, Removed
<1>8. Removed(i) \notin Registry(i) \cup Levels(i) \cup TargetsOf(i) \cup Announced(i)
  BY <1>7 DEF Registry, Levels, TargetsOf, Announced
<1>9. NodeInv(i)'
  <2>1. Alternates(i)'
    <3>1. Free(t, Announced(i))
      BY <1>3, <1>7, <1>8 DEF Free
    <3>2. Alternate(inbox, bound[i] = Absent, Announced(i), {Gone(i)})
      BY <1>6 DEF NodeInv, Alternates
    <3>3. Alternate(inbox \o t, bound[i] = Absent, Announced(i), {Gone(i)})
      BY <1>0, <1>3, <3>1, <3>2, SaidNoAnnouncement
    <3> QED BY <3>3, <1>2, <1>5 DEF Alternates
  <2>2. RemovedAndGone(i)'
    BY <1>0, <1>2, <1>3, <1>4, SaidIsThere DEF RemovedAndGone
  <2>3. ~Free(inbox', Registry(i)) /\ ~Free(inbox', Registry(i) \cup Levels(i))
    BY <1>0, <1>2, <1>3, <1>4, <1>7, SaidIsThere
  <2>4. ASSUME NEW M, NEW G, Gone(i) \in M \cap G, Removed(i) \notin M PROVE Ends(inbox', M, G)
    BY <1>0, <1>2, <1>3, <1>4, <2>4, SaidEnds
  <2>5. Gone(i) \in Current(i)'
    BY <1>5, <1>7 DEF Current
  <2>6. NodeSettles(i)' /\ InfoSettles(i)' /\ LevelSettles(i)'
    BY <2>3, <2>4, <2>5, <1>7, <1>8 DEF NodeSettles, InfoSettles, LevelSettles
  <2> QED BY <2>1, <2>2, <2>6 DEF NodeInv
<1>10. PinInv(i)'
  <2>1. ~Free(inbox', Registry(i) \cup TargetsOf(i))
    BY <1>0, <1>2, <1>3, <1>4, <1>7, SaidIsThere
  <2>2. ASSUME NEW M, NEW G, Gone(i) \in M \cap G, Removed(i) \notin M PROVE Ends(inbox', M, G)
    BY <1>0, <1>2, <1>3, <1>4, <2>2, SaidEnds
  <2>3. Gone(i) \in ({m \in Registry(i) : pins[i] = None} \cup {m \in TargetsOf(i) : m.names[i] = pins[i]})'
    BY <1>5, <1>7
  <2>4. PinSettles(i)'
    BY <2>1, <2>2, <2>3, <1>7, <1>8 DEF PinSettles
  <2> QED BY <1>5, <1>6, <2>4 DEF PinInv
<1>11. /\ \A j \in Node : j # i => Free(t, NodeMsgs(j)) /\ Free(t, PinMsgs(j))
       /\ Free(t, MetaMsgs) /\ \A d \in Device : Free(t, Registry(d))
  <2>1. i # Metadata /\ \A d \in Device : d # i
    BY IdAssumption
  <2>2. ASSUME NEW m \in {Gone(i), Removed(i)}
        PROVE  /\ \A j \in Node : j # i => m \notin NodeMsgs(j) /\ m \notin PinMsgs(j)
               /\ m \notin MetaMsgs /\ \A d \in Device : m \notin Registry(d)
    BY <1>0, <1>7, <2>1, Elsewhere
  <2> QED BY <1>3, <2>2 DEF Free
<1> QED BY <1>0, <1>1, <1>2, <1>3, <1>5, <1>9, <1>10, <1>11, ServerFrame DEF MirrorInv

\* An item of a sequence has the sequence's type.
LEMMA SequenceItem ==
  ASSUME NEW S, NEW s \in Seq(S), NEW k \in DOMAIN s
  PROVE  s[k] \in S
OBVIOUS

\* Without a proxy there is nothing for it in the inbox.
LEMMA Unheard ==
  ASSUME IInv
  PROVE  /\ \A i \in Node : bound[i] = Absent => Free(inbox, Levels(i) \cup Infos(i) \cup {Removed(i)})
         /\ ~slot => /\ \A k \in Direction : Free(inbox, DefaultsOf(k))
                     /\ \A i \in Node : Free(inbox, TargetsOf(i))
<1>1. inbox \in Seq(Message)
  BY DEF IInv, TypeOK
<1>2. ASSUME NEW i \in Node, bound[i] = Absent, NEW k \in DOMAIN inbox, inbox[k] \in Levels(i) \cup Infos(i) \cup {Removed(i)}
      PROVE  FALSE
  <2>1. inbox[k].type \in {"props", "node info", "removed"} /\ inbox[k].id = i
    <3>1. inbox[k] \in Levels(i) => inbox[k].type = "props" /\ inbox[k].id = i
      BY DEF Levels
    <3>2. inbox[k] \in Infos(i) => inbox[k].type = "node info" /\ inbox[k].id = i
      BY DEF Infos
    <3>3. inbox[k] = Removed(i) => inbox[k].type = "removed" /\ inbox[k].id = i
      BY DEF Removed
    <3> QED BY <3>1, <3>2, <3>3, <1>2
  <2>2. AddressedTo(inbox[k], i) /\ i \in Ids
    BY <2>1 DEF AddressedTo, Ids
  <2>3. i \in Held(bound, clients, devices, slot)
    BY <2>2, <1>2 DEF IInv, MessagesMet, OnlyTo
  <2> QED BY <2>3, <1>2, IdAssumption DEF Held
<1>3. ASSUME ~slot, NEW k \in DOMAIN inbox, inbox[k].type \in {"defaults", "targets"}
      PROVE  FALSE
  <2>1. AddressedTo(inbox[k], Metadata) /\ Metadata \in Ids
    BY <1>3 DEF AddressedTo, Ids
  <2>2. Metadata \in Held(bound, clients, devices, slot)
    BY <2>1, <1>3 DEF IInv, MessagesMet, OnlyTo
  <2> QED BY <2>2, <1>3, IdAssumption DEF Held
<1>4. \A i \in Node : bound[i] = Absent => Free(inbox, Levels(i) \cup Infos(i) \cup {Removed(i)})
  BY <1>2 DEF Free
<1>5. ~slot => /\ \A k \in Direction : Free(inbox, DefaultsOf(k))
               /\ \A i \in Node : Free(inbox, TargetsOf(i))
  BY <1>3 DEF Free, DefaultsOf, TargetsOf
<1> QED BY <1>4, <1>5

\* With nothing bad in it the inbox ends well.
LEMMA EndsFree ==
  ASSUME NEW s, NEW M, NEW N, NEW G, Free(s, N), M \subseteq N \cup G
  PROVE  Ends(s, M, G)
BY DEF Ends, Free

\* Saying nothing leaves the inbox as it is.
LEMMA SaysNothing ==
  ASSUME NEW s \in Seq(Message)
  PROVE  s \o <<>> = s /\ <<>> \in Seq(Message)
OBVIOUS

\* A level that moves is told to a proxy, or will be told when one is bound.
LEMMA LevelMovesMirrored ==
  ASSUME IInv, TypeOK', MirrorInv, NEW i \in Node, NEW level \in Level, LevelMoves(i, level)
  PROVE  MirrorInv'
<1>0. TypeOK /\ inbox \in Seq(Message)
  BY DEF IInv, TypeOK
<1>1. /\ nodes[i] # Absent /\ nodes' = [nodes EXCEPT ![i].level = level]
      /\ ByServer /\ UNCHANGED <<apps, cards, meta, defaults, pins>>
  BY DEF LevelMoves
<1>2. PICK n : n = Props(i, level)
  OBVIOUS
<1>3. n \in Message /\ n.type = "props" /\ n.id = i /\ n.level = level
  <2>1. n \in Message
    BY <1>2, ObjectEvents
  <2> QED BY <1>2, <2>1 DEF Props
<1>4. PICK t \in {<<n>>, <<>>} : inbox' = inbox \o t /\ (bound[i] # Absent => t = <<n>>)
  BY <1>2 DEF LevelMoves, Notifies, Says
<1>5. t \in Seq(Message) /\ \A q \in DOMAIN t : t[q] = n
  <2>1. CASE t = <<n>>
    BY <2>1, <1>3
  <2>2. CASE t = <<>>
    BY <2>2
  <2> QED BY <2>1, <2>2
<1>6. /\ UNCHANGED <<bound, slot, outdated>>
      /\ \A j \in Node : j # i => nodes'[j] = nodes[j]
      /\ nodes'[i] # Absent /\ nodes'[i].object = nodes[i].object /\ nodes'[i].level = level
  BY <1>0, <1>1 DEF TypeOK, ByServer, mapVars, Absent
<1>7. NodeInv(i) /\ PinInv(i)
  BY DEF MirrorInv
<1>8. n \in Levels(i) /\ n \notin Registry(i) \cup Infos(i) \cup {Removed(i), Gone(i)}
  <2>1. n \in Levels(i)
    BY <1>3 DEF Levels
  <2>2. n \notin Registry(i) /\ n \notin Infos(i)
    BY <1>3 DEF Registry, Infos
  <2>3. Removed(i).type = "removed" /\ Gone(i).type = "gone"
    BY DEF Removed, Gone
  <2> QED BY <2>1, <2>2, <2>3, <1>3
<1>9. SameNode(i) /\ RowKeeps(i)
  BY <1>1, <1>6 DEF SameNode, RowKeeps, RowStays, LevelStays
<1>10. ASSUME NEW M, n \notin M PROVE Free(t, M) /\ Keeps(inbox, inbox', M)
  <2>1. Free(t, M)
    BY <1>5, <1>10 DEF Free
  <2> QED BY <2>1, <1>0, <1>4, <1>5, SaidKeeps
<1>11. NodeInv(i)'
  <2>1. Alternates(i)'
    BY <1>0, <1>6, <1>7, <1>8, <1>10, AlternatesKept DEF NodeInv
  <2>2. RemovedAndGone(i)'
    <3>1. Free(inbox, {Gone(i)}) <=> Free(inbox', {Gone(i)})
      BY <1>8, <1>10, KeptFree
    <3>2. Free(inbox, {Removed(i)}) <=> Free(inbox', {Removed(i)})
      BY <1>8, <1>10, KeptFree
    <3> QED BY <3>1, <3>2, <1>7, RemovedKept DEF NodeInv
  <2>3. NodeSettles(i)'
    BY <1>0, <1>7, <1>8, <1>9, <1>10, NodeKept DEF NodeInv, RowKeeps
  <2>4. InfoSettles(i)'
    BY <1>0, <1>7, <1>8, <1>9, <1>10, InfoKept DEF NodeInv, RowKeeps
  <2>5. LevelSettles(i)'
    <3>1. CASE bound[i] # Absent
      <4>1. t = <<n>> /\ 1 \in DOMAIN t /\ t[1] = n /\ \A q \in DOMAIN t : ~(1 < q)
        BY <3>1, <1>4
      <4>2. ~Free(inbox', Registry(i) \cup Levels(i))
        BY <4>1, <1>0, <1>4, <1>5, <1>8, SaidIsThere
      <4>3. n \in (Registry(i) \cup {m \in Levels(i) : nodes[i] # Absent /\ m.level = nodes[i].level})'
        BY <1>3, <1>6, <1>8
      <4>4. \A G : n \in G => Ends(inbox', Registry(i) \cup Levels(i), G)
        BY <4>1, <1>0, <1>4, <1>5, <1>8, SaidEnds
      <4> QED BY <4>2, <4>3, <4>4 DEF LevelSettles
    <3>2. CASE bound[i] = Absent
      <4>1. Free(inbox, Levels(i))
        BY <3>2, Unheard DEF Free
      <4>2. Free(t, Registry(i)) /\ Keeps(inbox, inbox', Registry(i))
        BY <1>8, <1>10
      <4>3. bound'[i] = Absent
        BY <3>2, <1>6
      <4>4. Free(inbox', Levels(i)) \/ t = <<n>>
        <5>1. CASE t = <<>>
          BY <5>1, <4>1, <1>0, <1>4, SaysNothing
        <5> QED BY <5>1
      <4>5. \A G : Registry(i) \subseteq G /\ Free(inbox', Levels(i)) => Ends(inbox', Registry(i) \cup Levels(i), G)
        BY EndsFree
      <4>6. t = <<n>> => \A G : n \in G => Ends(inbox', Registry(i) \cup Levels(i), G)
        <5> SUFFICES ASSUME t = <<n>> PROVE \A G : n \in G => Ends(inbox', Registry(i) \cup Levels(i), G)
          OBVIOUS
        <5>1. 1 \in DOMAIN t /\ t[1] = n /\ \A q \in DOMAIN t : ~(1 < q)
          OBVIOUS
        <5> QED BY <5>1, <1>0, <1>4, <1>5, <1>8, SaidEnds
      <4>7. n \in (Registry(i) \cup {m \in Levels(i) : nodes[i] # Absent /\ m.level = nodes[i].level})'
        BY <1>3, <1>6, <1>8
      <4>8. Ends(inbox', Registry(i) \cup Levels(i),
                 (Registry(i) \cup {m \in Levels(i) : nodes[i] # Absent /\ m.level = nodes[i].level})')
        BY <4>4, <4>5, <4>6, <4>7
      <4> QED BY <4>3, <4>8 DEF LevelSettles
    <3> QED BY <3>1, <3>2
  <2> QED BY <2>1, <2>2, <2>3, <2>4, <2>5 DEF NodeInv
<1>12. /\ \A j \in Node : j # i => Free(t, NodeMsgs(j))
       /\ \A j \in Node : Free(t, PinMsgs(j))
       /\ Free(t, MetaMsgs) /\ \A d \in Device : Free(t, Registry(d))
  BY <1>3, <1>10, Elsewhere
<1>13. PinInv(i)'
  <2>1. Keeps(inbox, inbox', PinMsgs(i))
    BY <1>0, <1>4, <1>5, <1>12, SaidKeeps
  <2>2. TargetKeeps(i)
    BY <1>6 DEF TargetKeeps
  <2> QED BY <1>0, <1>1, <1>6, <1>7, <2>1, <2>2, PinFrame
<1> QED BY <1>0, <1>1, <1>4, <1>5, <1>6, <1>11, <1>12, <1>13, ServerFrame DEF MirrorInv

\* A pin that moves is told to the listener, or will be told when one is bound.
LEMMA PinMovesMirrored ==
  ASSUME IInv, TypeOK', MirrorInv, NEW i \in Node, NEW name \in Name \cup {None}, PinMoves(i, name)
  PROVE  MirrorInv'
<1>0. TypeOK /\ inbox \in Seq(Message)
  BY DEF IInv, TypeOK
<1>1. /\ meta /\ nodes[i] # Absent /\ pins' = [pins EXCEPT ![i] = name]
      /\ ByServer /\ UNCHANGED <<nodes, apps, cards, meta, defaults>>
  BY DEF PinMoves
<1>2. PICK n : n = TargetsAre([subject \in {i} |-> name])
  OBVIOUS
<1>3. n \in Message /\ n.type = "targets" /\ DOMAIN n.names = {i} /\ n.names[i] = name
  <2>1. n \in Message
    <3>1. [subject \in {i} |-> name] \in [{i} -> Name \cup {None}] /\ {i} \in SUBSET Node
      OBVIOUS
    <3> QED BY <1>2, <3>1, MetadataEvents
  <2>2. n.type = "targets" /\ n.names = [subject \in {i} |-> name]
    BY <1>2 DEF TargetsAre
  <2> QED BY <2>1, <2>2
<1>4. PICK t \in {<<n>>, <<>>} : inbox' = inbox \o t /\ (slot => t = <<n>>)
  BY <1>2 DEF PinMoves, Notifies, Says
<1>5. t \in Seq(Message) /\ \A q \in DOMAIN t : t[q] = n
  <2>1. CASE t = <<n>>
    BY <2>1, <1>3
  <2>2. CASE t = <<>>
    BY <2>2
  <2> QED BY <2>1, <2>2
<1>6. UNCHANGED <<bound, slot, outdated>> /\ pins'[i] = name /\ \A j \in Node : j # i => pins'[j] = pins[j]
  BY <1>0, <1>1 DEF TypeOK, ByServer, mapVars
<1>7. PinInv(i)
  BY DEF MirrorInv
<1>8. n \in TargetsOf(i)
  BY <1>3 DEF TargetsOf
<1>9. /\ \A j \in Node : Free(t, NodeMsgs(j)) /\ (j # i => Free(t, PinMsgs(j)))
      /\ Free(t, MetaMsgs) /\ \A d \in Device : Free(t, Registry(d))
  <2>1. /\ \A j \in Node : n \notin NodeMsgs(j) /\ (j # i => n \notin PinMsgs(j))
        /\ n \notin MetaMsgs /\ \A d \in Device : n \notin Registry(d)
    BY <1>3, Elsewhere
  <2> QED BY <2>1, <1>5 DEF Free
<1>10. PinInv(i)'
  <2>1. PinSettles(i)'
    <3>1. CASE slot
      <4>1. t = <<n>> /\ 1 \in DOMAIN t /\ t[1] = n /\ \A q \in DOMAIN t : ~(1 < q)
        BY <3>1, <1>4
      <4>2. ~Free(inbox', Registry(i) \cup TargetsOf(i))
        BY <4>1, <1>0, <1>4, <1>5, <1>8, SaidIsThere
      <4>3. n \in ({m \in Registry(i) : pins[i] = None} \cup {m \in TargetsOf(i) : m.names[i] = pins[i]})'
        BY <1>3, <1>6, <1>8
      <4>4. \A G : n \in G => Ends(inbox', Registry(i) \cup TargetsOf(i), G)
        BY <4>1, <1>0, <1>4, <1>5, <1>8, SaidEnds
      <4> QED BY <4>2, <4>3, <4>4 DEF PinSettles
    <3>2. CASE ~slot
      BY <3>2, <1>6 DEF PinSettles
    <3> QED BY <3>1, <3>2
  <2> QED BY <2>1, <1>1, <1>6, <1>7 DEF PinInv
<1> QED BY <1>0, <1>1, <1>4, <1>5, <1>6, <1>9, <1>10, ServerFrame DEF MirrorInv

\* A step that says nothing of nodes, pins and defaults.
LEMMA AsideMirrored ==
  ASSUME IInv, TypeOK', MirrorInv, ByServer, UNCHANGED <<nodes, meta, defaults, pins>>,
         NEW t \in Seq(Message), inbox' = inbox \o t,
         \A q \in DOMAIN t : /\ t[q].type \notin {"node", "metadata", "targets", "defaults", "node info", "props", "removed"}
                             /\ t[q].type = "gone" => t[q].id \in Client \cup Device
  PROVE  /\ \A i \in Node : NodeInv(i)' /\ PinInv(i)'
         /\ MetaInv'
         /\ \A i \in Node, d \in Device : FormSettles(i, d)'
         /\ \A d \in Device : (cards'[d] = Absent => cards[d] = Absent) /\ Free(t, Registry(d)) => CardSettles(d)'
<1>0. TypeOK /\ inbox \in Seq(Message)
  BY DEF IInv, TypeOK
<1>1. Metadata \notin Client \cup Device /\ \A i \in Node : i \notin Client \cup Device
  BY IdAssumption
<1>2. ASSUME NEW q \in DOMAIN t
      PROVE  (\A i \in Node : t[q] \notin NodeMsgs(i) /\ t[q] \notin PinMsgs(i)) /\ t[q] \notin MetaMsgs
  <2>1. PICK m \in Message : m = t[q]
    BY SequenceItem
  <2>2. /\ m.type \notin {"node", "metadata", "targets", "defaults", "node info", "props", "removed"}
        /\ m.type = "gone" => m.id \in Client \cup Device
    BY <2>1
  <2>3. ASSUME NEW i \in Node PROVE m \notin NodeMsgs(i) /\ m \notin PinMsgs(i)
    <3>1. m.type = "gone" => m.id # i /\ m.id # Metadata
      BY <2>2, <1>1
    <3>2. m \notin NodeMsgs(i)
      BY <2>2, <3>1, Elsewhere
    <3>3. m \notin PinMsgs(i)
      BY <2>2, <3>1, Elsewhere
    <3> QED BY <3>2, <3>3
  <2>4. m \notin MetaMsgs
    BY <2>2, <1>1, Elsewhere
  <2> QED BY <2>1, <2>3, <2>4
<1>3. (\A i \in Node : Free(t, NodeMsgs(i)) /\ Free(t, PinMsgs(i))) /\ Free(t, MetaMsgs)
  BY <1>2 DEF Free
<1> QED BY <1>0, <1>3, ServerFrame

\* What happens to clients is no news of rows, pins and defaults.
LEMMA ClientsMirrored ==
  ASSUME IInv, TypeOK', MirrorInv, NEW c \in Client,
         \/ \E label \in Label : ClientComes(c, label)
         \/ \E label \in Label \cup {None} : ClientStirs(c, label)
         \/ ClientGoes(c)
  PROVE  MirrorInv'
<1>0. TypeOK /\ inbox \in Seq(Message)
  BY DEF IInv, TypeOK
<1>1. ByServer /\ UNCHANGED <<nodes, cards, meta, defaults, pins>>
  BY DEF ClientComes, ClientStirs, ClientGoes
<1>2. PICK t \in Seq(Message) :
        /\ inbox' = inbox \o t
        /\ \A q \in DOMAIN t : t[q].type \in {"client", "client info"} \/ t[q] = Gone(c)
  <2>1. ASSUME NEW m \in Message, m.type \in {"client", "client info"} \/ m = Gone(c), inbox' = inbox \o <<m>>
        PROVE  \E t \in Seq(Message) :
                 /\ inbox' = inbox \o t
                 /\ \A q \in DOMAIN t : t[q].type \in {"client", "client info"} \/ t[q] = Gone(c)
    <3>1. <<m>> \in Seq(Message) /\ \A q \in DOMAIN <<m>> : <<m>>[q] = m
      OBVIOUS
    <3> QED BY <3>1, <2>1
  <2>2. ASSUME inbox' = inbox \o <<>>
        PROVE  \E t \in Seq(Message) :
                 /\ inbox' = inbox \o t
                 /\ \A q \in DOMAIN t : t[q].type \in {"client", "client info"} \/ t[q] = Gone(c)
    <3>1. <<>> \in Seq(Message) /\ DOMAIN <<>> = {}
      OBVIOUS
    <3> QED BY <3>1, <2>2
  <2>3. ASSUME NEW label \in Label, ClientComes(c, label)
        PROVE  \E m \in Message : m.type = "client" /\ inbox' = inbox \o <<m>>
    <3>1. [type |-> "client", id |-> c] \in Message /\ [type |-> "client", id |-> c].type = "client"
      BY RegistryEvents
    <3> QED BY <3>1, <2>3 DEF ClientComes, Says
  <2>4. ASSUME NEW label \in Label \cup {None}, ClientStirs(c, label)
        PROVE  inbox' = inbox \o <<>> \/ \E m \in Message : m.type = "client info" /\ inbox' = inbox \o <<m>>
    <3>1. ClientInfo(c, label) \in Message /\ ClientInfo(c, label).type = "client info"
      <4>1. ClientInfo(c, label) \in Message
        BY ObjectEvents
      <4> QED BY <4>1 DEF ClientInfo
    <3> QED BY <3>1, <2>4 DEF ClientStirs, Notifies, Says
  <2>5. ASSUME ClientGoes(c) PROVE Gone(c) \in Message /\ inbox' = inbox \o <<Gone(c)>>
    BY <2>5, RegistryEvents DEF ClientGoes, Says, Ids
  <2> QED BY <2>1, <2>2, <2>3, <2>4, <2>5
<1>3. \A q \in DOMAIN t : /\ t[q].type \in {"client", "client info", "gone"}
                          /\ t[q].type = "gone" => t[q].id = c
  <2>1. Gone(c).type = "gone" /\ Gone(c).id = c
    BY DEF Gone
  <2> QED BY <2>1, <1>2
<1>4. ASSUME NEW d \in Device PROVE Free(t, Registry(d))
  <2>1. c # d
    BY IdAssumption
  <2>2. ASSUME NEW q \in DOMAIN t PROVE t[q] \notin Registry(d)
    <3>1. PICK m \in Message : m = t[q]
      BY SequenceItem
    <3>2. m.type \in {"client", "client info", "gone"} /\ (m.type = "gone" => m.id = c)
      BY <3>1, <1>3
    <3>3. m \notin Registry(d)
      BY <3>2, <2>1, Elsewhere
    <3> QED BY <3>1, <3>3
  <2> QED BY <2>2 DEF Free
<1>5. /\ \A i \in Node : NodeInv(i)' /\ PinInv(i)'
      /\ MetaInv'
      /\ \A i \in Node, d \in Device : FormSettles(i, d)'
      /\ \A d \in Device : CardSettles(d)'
  BY <1>1, <1>2, <1>3, <1>4, AsideMirrored
<1> QED BY <1>5 DEF MirrorInv

\* A card that comes is announced, and there to answer.
LEMMA CardComesMirrored ==
  ASSUME IInv, TypeOK', MirrorInv, NEW d \in Device, NEW dict \in Dict, NEW port \in Port, CardComes(d, dict, port)
  PROVE  MirrorInv'
<1>0. TypeOK /\ inbox \in Seq(Message)
  BY DEF IInv, TypeOK
<1>1. /\ cards' = [cards EXCEPT ![d] = [dict |-> dict, port |-> port]]
      /\ ByServer /\ UNCHANGED <<nodes, meta, defaults, pins>>
  BY DEF CardComes
<1>2. PICK n : n = [type |-> "device", id |-> d]
  OBVIOUS
<1>3. n \in Message /\ n.type = "device" /\ n.id = d /\ inbox' = inbox \o <<n>>
  BY <1>2, RegistryEvents DEF CardComes, Says
<1>4. /\ <<n>> \in Seq(Message) /\ 1 \in DOMAIN <<n>> /\ <<n>>[1] = n
      /\ \A q \in DOMAIN <<n>> : ~(1 < q) /\ <<n>>[q] = n
  BY <1>3
<1>5. cards'[d] # Absent /\ \A e \in Device : e # d => cards'[e] = cards[e]
  BY <1>0, <1>1 DEF TypeOK, Absent
<1>6. n \in Registry(d) /\ \A e \in Device : e # d => n \notin Registry(e)
  BY <1>3 DEF Registry
<1>7. /\ \A i \in Node : NodeInv(i)' /\ PinInv(i)'
      /\ MetaInv'
      /\ \A i \in Node, e \in Device : FormSettles(i, e)'
      /\ \A e \in Device : (cards'[e] = Absent => cards[e] = Absent) /\ Free(<<n>>, Registry(e)) => CardSettles(e)'
  BY <1>1, <1>3, <1>4, AsideMirrored
<1>8. CardSettles(d)'
  <2>1. n \in {m \in Registry(d) : m \in Announced(d) => cards'[d] # Absent}
    BY <1>5, <1>6
  <2>2. Ends(inbox', Registry(d), {m \in Registry(d) : m \in Announced(d) => cards'[d] # Absent})
    BY <2>1, <1>0, <1>3, <1>4, <1>6, SaidEnds
  <2> QED BY <2>2 DEF CardSettles
<1>9. \A e \in Device : e # d => CardSettles(e)'
  BY <1>5, <1>6, <1>7, OneIsFree
<1> QED BY <1>7, <1>8, <1>9 DEF MirrorInv

\* A card that goes leaves its end as the last word about it.
LEMMA CardGoesMirrored ==
  ASSUME IInv, TypeOK', MirrorInv, NEW d \in Device, CardGoes(d)
  PROVE  MirrorInv'
<1>0. TypeOK /\ inbox \in Seq(Message)
  BY DEF IInv, TypeOK
<1>1. /\ cards' = [cards EXCEPT ![d] = Absent]
      /\ ByServer /\ UNCHANGED <<nodes, meta, defaults, pins>>
  BY DEF CardGoes
<1>2. PICK n : n = Gone(d)
  OBVIOUS
<1>3. n \in Message /\ n.type = "gone" /\ n.id = d /\ inbox' = inbox \o <<n>>
  <2>1. n \in Message
    BY <1>2, RegistryEvents DEF Ids
  <2> QED BY <2>1, <1>2 DEF CardGoes, Says, Gone
<1>4. /\ <<n>> \in Seq(Message) /\ 1 \in DOMAIN <<n>> /\ <<n>>[1] = n
      /\ \A q \in DOMAIN <<n>> : ~(1 < q) /\ <<n>>[q] = n
  BY <1>3
<1>5. \A e \in Device : e # d => cards'[e] = cards[e]
  BY <1>0, <1>1 DEF TypeOK
<1>6. n \in Registry(d) /\ n \notin Announced(d) /\ \A e \in Device : e # d => n \notin Registry(e)
  BY <1>3 DEF Registry, Announced
<1>7. /\ \A i \in Node : NodeInv(i)' /\ PinInv(i)'
      /\ MetaInv'
      /\ \A i \in Node, e \in Device : FormSettles(i, e)'
      /\ \A e \in Device : (cards'[e] = Absent => cards[e] = Absent) /\ Free(<<n>>, Registry(e)) => CardSettles(e)'
  BY <1>1, <1>3, <1>4, AsideMirrored
<1>8. CardSettles(d)'
  <2>1. n \in {m \in Registry(d) : m \in Announced(d) => cards'[d] # Absent}
    BY <1>6
  <2>2. Ends(inbox', Registry(d), {m \in Registry(d) : m \in Announced(d) => cards'[d] # Absent})
    BY <2>1, <1>0, <1>3, <1>4, <1>6, SaidEnds
  <2> QED BY <2>2 DEF CardSettles
<1>9. \A e \in Device : e # d => CardSettles(e)'
  BY <1>5, <1>6, <1>7, OneIsFree
<1> QED BY <1>7, <1>8, <1>9 DEF MirrorInv

\* A card's new route is told to its proxy, and its form is open until it is heard.
LEMMA CardStirsMirrored ==
  ASSUME IInv, TypeOK', MirrorInv, NEW d \in Device, NEW port \in Port, CardStirs(d, port)
  PROVE  MirrorInv'
<1>0. TypeOK /\ inbox \in Seq(Message)
  BY DEF IInv, TypeOK
<1>1. /\ cards[d] # Absent /\ ByServer /\ UNCHANGED <<nodes, meta, defaults, pins>>
  BY DEF CardStirs
<1>2. EmptyDict \in Dict /\ None \in Port
  BY DEF EmptyDict, Dict, Port
<1>3. /\ \A p \in Port : Route(d, p) \in Message /\ Route(d, p).type = "route"
      /\ DeviceInfo(d, EmptyDict) \in Message /\ DeviceInfo(d, EmptyDict).type = "device info"
  <2>1. /\ \A p \in Port : Route(d, p) \in Message
        /\ DeviceInfo(d, EmptyDict) \in Message
    BY <1>2, ObjectEvents
  <2> QED BY <2>1 DEF Route, DeviceInfo
<1>4. PICK m \in Message : m.type \in {"device info", "route"} /\ inbox' \in {inbox \o <<m>>, inbox \o <<>>}
  <2>1. ASSUME Notifies(devices[d] # Absent, Route(d, port))
        PROVE  inbox' \in {inbox \o <<Route(d, port)>>, inbox \o <<>>}
    BY <2>1 DEF Notifies, Says
  <2>2. ASSUME NEW m \in {DeviceInfo(d, EmptyDict), Route(d, None)}, Notifies(devices[d] # Absent, m)
        PROVE  inbox' \in {inbox \o <<m>>, inbox \o <<>>}
    BY <2>2 DEF Notifies, Says
  <2> QED BY <1>2, <1>3, <2>1, <2>2 DEF CardStirs
<1>5. PICK t \in {<<m>>, <<>>} : inbox' = inbox \o t
  BY <1>4
<1>6. t \in Seq(Message) /\ \A q \in DOMAIN t : t[q] = m
  <2>1. CASE t = <<m>>
    BY <2>1
  <2>2. CASE t = <<>>
    BY <2>2
  <2> QED BY <2>1, <2>2
<1>7. \A q \in DOMAIN t : /\ t[q].type \notin {"node", "metadata", "targets", "defaults", "node info", "props", "removed"}
                          /\ t[q].type = "gone" => t[q].id \in Client \cup Device
  BY <1>4, <1>6
<1>8. cards'[d] # Absent /\ \A e \in Device : e # d => cards'[e] = cards[e]
  <2>1. CASE cards' = [cards EXCEPT ![d].port = port]
    <3>1. cards[d] \in BoundDevice
      BY <1>0, <1>1 DEF TypeOK
    <3>2. PICK c : c = [cards[d] EXCEPT !.port = port]
      OBVIOUS
    <3>3. c \in BoundDevice
      BY <3>1, <3>2 DEF BoundDevice
    <3>4. cards'[d] = c
      BY <2>1, <3>2, <1>0 DEF TypeOK
    <3> QED BY <2>1, <3>3, <3>4, <1>0, AbsentIsApart DEF TypeOK
  <2>2. CASE UNCHANGED cards
    BY <2>2, <1>1
  <2> QED BY <2>1, <2>2 DEF CardStirs
<1>9. ASSUME NEW e \in Device PROVE Free(t, Registry(e))
  <2>1. m \notin Registry(e)
    BY <1>4 DEF Registry
  <2> QED BY <2>1, <1>6 DEF Free
<1>10. /\ \A i \in Node : NodeInv(i)' /\ PinInv(i)'
       /\ MetaInv'
       /\ \A i \in Node, e \in Device : FormSettles(i, e)'
       /\ \A e \in Device : (cards'[e] = Absent => cards[e] = Absent) /\ Free(t, Registry(e)) => CardSettles(e)'
  BY <1>1, <1>5, <1>6, <1>7, AsideMirrored
<1> QED BY <1>8, <1>9, <1>10 DEF MirrorInv

\* The parts of the metadata's invariant a step leaves alone.
LEMMA MetaKept ==
  ASSUME TypeOK, TypeOK', MetaInv, UNCHANGED <<meta, slot>>, Keeps(inbox, inbox', MetaRegistry)
  PROVE  Alternate(inbox', ~slot', MetaAnnounced, {Gone(Metadata)}) /\ MetaSettles'
<1>0. inbox \in Seq(Message) /\ inbox' \in Seq(Message)
  BY DEF TypeOK
<1>1. Alternate(inbox', ~slot', MetaAnnounced, {Gone(Metadata)})
  <2>1. MetaAnnounced \cup {Gone(Metadata)} \subseteq MetaRegistry
    BY DEF MetaRegistry
  <2>2. Alternate(inbox, ~slot, MetaAnnounced, {Gone(Metadata)})
    BY DEF MetaInv
  <2>3. Alternate(inbox', ~slot, MetaAnnounced, {Gone(Metadata)})
    BY <1>0, <2>1, <2>2, KeptAlternate
  <2> QED BY <2>3
<1>2. MetaSettles'
  <2>2. Free(inbox, MetaRegistry) <=> Free(inbox', MetaRegistry)
    BY KeptFree
  <2>3. MetaSettles
    BY DEF MetaInv
  <2>4. Ends(inbox', MetaRegistry, IF meta THEN MetaAnnounced ELSE {Gone(Metadata)})
    BY <1>0, <2>3, KeptEnds DEF MetaSettles
  <2> QED BY <2>2, <2>3, <2>4 DEF MetaSettles
<1> QED BY <1>1, <1>2

\* A default's part, when nothing of it is said or done.
LEMMA DefaultKept ==
  ASSUME TypeOK, TypeOK', NEW k \in Direction, DefaultSettles(k),
         defaults'[k] = defaults[k], cache'[k] = cache[k],
         Keeps(inbox, inbox', MetaRegistry \cup DefaultsOf(k))
  PROVE  DefaultSettles(k)'
<1>0. inbox \in Seq(Message) /\ inbox' \in Seq(Message)
  BY DEF TypeOK
<1> DEFINE M == MetaRegistry \cup DefaultsOf(k)
           G == MetaRegistry \cup {m \in DefaultsOf(k) : m.names[k] = defaults[k]}
<1>1. Free(inbox, M) <=> Free(inbox', M)
  BY KeptFree
<1>2. Ends(inbox, M, G)
  BY DEF DefaultSettles
<1>3. Ends(inbox', M, G)
  BY <1>0, <1>2, KeptEnds
<1>4. G' = G
  OBVIOUS
<1> QED BY <1>1, <1>3, <1>4 DEF DefaultSettles

\* Metadata that comes is announced after the end of the last.
LEMMA MetaComesMirrored ==
  ASSUME IInv, TypeOK', MirrorInv, MetaComes
  PROVE  MirrorInv'
<1>0. TypeOK /\ inbox \in Seq(Message) /\ meta \in BOOLEAN /\ slot \in BOOLEAN
  BY DEF IInv, TypeOK
<1>1. /\ ~meta /\ meta' = TRUE /\ ByServer /\ UNCHANGED <<nodes, apps, cards, defaults, pins>>
      /\ UNCHANGED <<bound, slot, cache, outdated>>
  BY DEF MetaComes, ByServer, mapVars
<1>2. PICK n : n = [type |-> "metadata"]
  OBVIOUS
<1>3. n \in Message /\ n.type = "metadata" /\ inbox' = inbox \o <<n>>
  BY <1>2, RegistryEvents DEF MetaComes, Says
<1>4. /\ <<n>> \in Seq(Message) /\ 1 \in DOMAIN <<n>> /\ <<n>>[1] = n
      /\ \A q \in DOMAIN <<n>> : ~(1 < q) /\ <<n>>[q] = n
  BY <1>3
<1>5. MetaInv /\ MetaSettles /\ Alternate(inbox, ~slot, MetaAnnounced, {Gone(Metadata)})
  BY DEF MirrorInv, MetaInv
<1>6. n \in MetaAnnounced /\ n \in MetaRegistry
  BY <1>3 DEF MetaAnnounced, MetaRegistry
<1>7. ~Free(inbox', MetaRegistry) /\ \A k \in Direction : ~Free(inbox', MetaRegistry \cup DefaultsOf(k))
  BY <1>0, <1>3, <1>4, <1>6, SaidIsThere
<1>8. \A M, G : n \in M \cap G => Ends(inbox', M, G)
  BY <1>0, <1>3, <1>4, SaidEnds
<1>9. MetaInv'
  <2>1. Alternate(inbox', ~slot', MetaAnnounced, {Gone(Metadata)})
    <3>1. Ends(inbox, MetaRegistry, {Gone(Metadata)}) /\ (Free(inbox, MetaRegistry) => ~slot)
      BY <1>1, <1>5 DEF MetaSettles
    <3>2. MetaAnnounced \cup {Gone(Metadata)} = MetaRegistry /\ MetaAnnounced \cap {Gone(Metadata)} = {}
      BY RegistryWords DEF MetaRegistry
    <3>3. Alternate(inbox \o <<n>>, ~slot, MetaAnnounced, {Gone(Metadata)})
      BY <1>0, <1>3, <1>5, <3>1, <3>2, SaidAlternate
    <3> QED BY <3>3, <1>1, <1>3
  <2>2. MetaSettles'
    BY <1>1, <1>6, <1>7, <1>8 DEF MetaSettles
  <2>3. ASSUME NEW k \in Direction PROVE DefaultSettles(k)'
    BY <1>6, <1>7, <1>8 DEF DefaultSettles
  <2> QED BY <1>1, <1>5, <2>1, <2>2, <2>3 DEF MetaInv
<1>10. ASSUME NEW i \in Node PROVE PinInv(i)'
  <2>1. PinInv(i)
    BY DEF MirrorInv
  <2> QED BY <1>1, <1>7, <2>1 DEF PinInv, PinSettles
<1>11. (\A j \in Node : Free(<<n>>, NodeMsgs(j))) /\ \A d \in Device : Free(<<n>>, Registry(d))
  BY <1>3, Elsewhere, OneIsFree
<1> QED BY <1>0, <1>1, <1>3, <1>4, <1>9, <1>10, <1>11, ServerFrame DEF MirrorInv

\* Metadata that goes takes every default and pin with it.
LEMMA MetaGoesMirrored ==
  ASSUME IInv, TypeOK', MirrorInv, MetaGoes
  PROVE  MirrorInv'
<1>0. TypeOK /\ inbox \in Seq(Message) /\ meta \in BOOLEAN /\ slot \in BOOLEAN
  BY DEF IInv, TypeOK
<1>1. /\ meta' = FALSE /\ ByServer /\ UNCHANGED <<nodes, apps, cards>>
      /\ (\A k \in Direction : defaults'[k] = None) /\ (\A i \in Node : pins'[i] = None)
      /\ UNCHANGED <<bound, slot, cache, outdated>>
  BY DEF MetaGoes, ByServer, mapVars
<1>2. PICK n : n = Gone(Metadata)
  OBVIOUS
<1>3. n \in Message /\ n.type = "gone" /\ n.id = Metadata /\ inbox' = inbox \o <<n>>
  <2>1. n \in Message
    BY <1>2, RegistryEvents DEF Ids
  <2> QED BY <2>1, <1>2 DEF MetaGoes, Says, Gone
<1>4. /\ <<n>> \in Seq(Message) /\ 1 \in DOMAIN <<n>> /\ <<n>>[1] = n
      /\ \A q \in DOMAIN <<n>> : ~(1 < q) /\ <<n>>[q] = n
  BY <1>3
<1>5. MetaInv /\ Alternate(inbox, ~slot, MetaAnnounced, {Gone(Metadata)})
  BY DEF MirrorInv, MetaInv
<1>6. n \notin MetaAnnounced /\ n \in MetaRegistry
  BY <1>2, <1>3 DEF MetaAnnounced, MetaRegistry
<1>7. ~Free(inbox', MetaRegistry) /\ \A k \in Direction : ~Free(inbox', MetaRegistry \cup DefaultsOf(k))
  BY <1>0, <1>3, <1>4, <1>6, SaidIsThere
<1>8. \A M, G : n \in M \cap G => Ends(inbox', M, G)
  BY <1>0, <1>3, <1>4, SaidEnds
<1>9. MetaInv'
  <2>1. Alternate(inbox', ~slot', MetaAnnounced, {Gone(Metadata)})
    <3>1. Free(<<n>>, MetaAnnounced)
      BY <1>6, OneIsFree
    <3>2. Alternate(inbox \o <<n>>, ~slot, MetaAnnounced, {Gone(Metadata)})
      BY <1>0, <1>4, <1>5, <3>1, SaidNoAnnouncement
    <3> QED BY <3>2, <1>1, <1>3
  <2>2. MetaSettles'
    <3>1. Ends(inbox', MetaRegistry, {Gone(Metadata)})
      BY <1>2, <1>6, <1>8
    <3> QED BY <3>1, <1>1, <1>7 DEF MetaSettles
  <2>3. ASSUME NEW k \in Direction PROVE DefaultSettles(k)'
    BY <1>6, <1>7, <1>8 DEF DefaultSettles
  <2> QED BY <1>1, <1>5, <2>1, <2>2, <2>3 DEF MetaInv
<1>10. ASSUME NEW i \in Node PROVE PinInv(i)'
  <2>1. PinInv(i)
    BY DEF MirrorInv
  <2> QED BY <1>1, <1>7, <2>1 DEF PinInv, PinSettles
<1>11. (\A j \in Node : Free(<<n>>, NodeMsgs(j))) /\ \A d \in Device : Free(<<n>>, Registry(d))
  <2>1. Metadata \notin Node \cup Device
    BY IdAssumption
  <2> QED BY <1>3, <2>1, Elsewhere, OneIsFree
<1> QED BY <1>0, <1>1, <1>3, <1>4, <1>9, <1>10, <1>11, ServerFrame DEF MirrorInv

\* A default that moves is told to the listener, or will be told when one is bound.
LEMMA DefaultMovesMirrored ==
  ASSUME IInv, TypeOK', MirrorInv, NEW k \in Direction, NEW name \in Name \cup {None}, DefaultMoves(k, name)
  PROVE  MirrorInv'
<1>0. TypeOK /\ inbox \in Seq(Message) /\ slot \in BOOLEAN
  BY DEF IInv, TypeOK
<1>1. /\ meta /\ meta' = meta /\ ByServer /\ UNCHANGED <<nodes, apps, cards, pins>>
      /\ defaults' = [defaults EXCEPT ![k] = name]
      /\ UNCHANGED <<bound, slot, cache, outdated>>
  BY DEF DefaultMoves, ByServer, mapVars
<1>2. PICK n : n = DefaultsAre([key \in {k} |-> name])
  OBVIOUS
<1>3. n \in Message /\ n.type = "defaults" /\ DOMAIN n.names = {k} /\ n.names[k] = name
  <2>1. n \in Message
    <3>1. [key \in {k} |-> name] \in [{k} -> Name \cup {None}] /\ {k} \in SUBSET Direction
      OBVIOUS
    <3> QED BY <1>2, <3>1, MetadataEvents
  <2>2. n.type = "defaults" /\ n.names = [key \in {k} |-> name]
    BY <1>2 DEF DefaultsAre
  <2> QED BY <2>1, <2>2
<1>4. PICK t \in {<<n>>, <<>>} : inbox' = inbox \o t /\ (slot => t = <<n>>) /\ (~slot => t = <<>>)
  BY <1>2 DEF DefaultMoves, Notifies, Says
<1>5. t \in Seq(Message) /\ \A q \in DOMAIN t : t[q] = n
  <2>1. CASE t = <<n>>
    BY <2>1, <1>3
  <2>2. CASE t = <<>>
    BY <2>2
  <2> QED BY <2>1, <2>2
<1>6. defaults'[k] = name /\ \A j \in Direction : j # k => defaults'[j] = defaults[j]
  BY <1>0, <1>1 DEF TypeOK
<1>7. MetaInv
  BY DEF MirrorInv
<1>8. ASSUME NEW M, n \notin M PROVE Free(t, M) /\ Keeps(inbox, inbox', M)
  <2>1. Free(t, M)
    BY <1>5, <1>8 DEF Free
  <2> QED BY <2>1, <1>0, <1>4, <1>5, SaidKeeps
<1>9. n \in DefaultsOf(k) /\ n \notin MetaRegistry /\ \A j \in Direction : j # k => n \notin DefaultsOf(j)
  <2>1. Gone(Metadata).type = "gone"
    BY DEF Gone
  <2> QED BY <2>1, <1>3 DEF DefaultsOf, MetaRegistry, MetaAnnounced
<1>10. Alternate(inbox', ~slot', MetaAnnounced, {Gone(Metadata)}) /\ MetaSettles'
  BY <1>0, <1>1, <1>7, <1>8, <1>9, MetaKept
<1>11. DefaultSettles(k)'
  <2>1. CASE slot
    <3>1. t = <<n>> /\ 1 \in DOMAIN t /\ t[1] = n /\ \A q \in DOMAIN t : ~(1 < q)
      BY <2>1, <1>4
    <3>2. ~Free(inbox', MetaRegistry \cup DefaultsOf(k))
      BY <3>1, <1>0, <1>4, <1>5, <1>9, SaidIsThere
    <3>3. n \in (MetaRegistry \cup {m \in DefaultsOf(k) : m.names[k] = defaults[k]})'
      BY <1>3, <1>6, <1>9
    <3>4. \A G : n \in G => Ends(inbox', MetaRegistry \cup DefaultsOf(k), G)
      BY <3>1, <1>0, <1>4, <1>5, <1>9, SaidEnds
    <3> QED BY <3>2, <3>3, <3>4 DEF DefaultSettles
  <2>2. CASE ~slot
    <3>1. inbox' = inbox
      BY <2>2, <1>0, <1>4, SaysNothing
    <3>2. Free(inbox, DefaultsOf(k))
      BY <2>2, Unheard
    <3>3. \A G : MetaRegistry \subseteq G => Ends(inbox', MetaRegistry \cup DefaultsOf(k), G)
      BY <3>1, <3>2, EndsFree
    <3>4. ~Free(inbox', MetaRegistry)
      BY <2>2, <3>1, <1>0, <1>1, <1>7 DEF MetaInv, MetaSettles
    <3>5. ~Free(inbox', MetaRegistry \cup DefaultsOf(k))
      BY <3>4 DEF Free
    <3> QED BY <3>3, <3>5 DEF DefaultSettles
  <2> QED BY <2>1, <2>2
<1>12. ASSUME NEW j \in Direction, j # k PROVE DefaultSettles(j)'
  <2>1. Keeps(inbox, inbox', MetaRegistry \cup DefaultsOf(j))
    BY <1>8, <1>9, <1>12
  <2>2. DefaultSettles(j) /\ defaults'[j] = defaults[j] /\ cache'[j] = cache[j]
    BY <1>1, <1>6, <1>7, <1>12 DEF MetaInv
  <2> QED BY <1>0, <2>1, <2>2, DefaultKept
<1>13. MetaInv'
  BY <1>1, <1>7, <1>10, <1>11, <1>12 DEF MetaInv
<1>14. /\ \A j \in Node : Free(t, NodeMsgs(j)) /\ Free(t, PinMsgs(j))
       /\ \A d \in Device : Free(t, Registry(d))
  <2>1. /\ \A j \in Node : n \notin NodeMsgs(j) /\ n \notin PinMsgs(j)
        /\ \A d \in Device : n \notin Registry(d)
    BY <1>3, Elsewhere
  <2> QED BY <2>1, <1>5 DEF Free
<1> QED BY <1>0, <1>1, <1>4, <1>5, <1>13, <1>14, ServerFrame DEF MirrorInv

\* Whatever the server does, what the worker has not heard yet is on its way.
LEMMA ServerStepMirrored ==
  ASSUME IInv, IInv', MirrorInv, ServerStep
  PROVE  MirrorInv'
<1>1. TypeOK'
  BY DEF IInv
<1> QED BY <1>1, NodeComesMirrored, NodeGoesMirrored, LevelMovesMirrored, PinMovesMirrored, ClientsMirrored,
           CardComesMirrored, CardStirsMirrored, CardGoesMirrored, MetaComesMirrored, MetaGoesMirrored,
           DefaultMovesMirrored DEF ServerStep

-----------------------------------------------------------------------------
(* The handlers.                                                           *)

\* What an event is not about stays as it was.
LEMMA HandlerFrame ==
  ASSUME TypeOK, TypeOK', MirrorInv, UNCHANGED serverVars
  PROVE  /\ \A i \in Node : RowKeeps(i) /\ Keeps(inbox, inbox', NodeMsgs(i)) => NodeInv(i)'
         /\ \A i \in Node : slot' = slot /\ TargetKeeps(i) /\ Keeps(inbox, inbox', PinMsgs(i)) => PinInv(i)'
         /\ UNCHANGED <<slot, cache>> /\ Keeps(inbox, inbox', MetaMsgs) => MetaInv'
         /\ \A d \in Device : Keeps(inbox, inbox', Registry(d)) => CardSettles(d)'
         /\ \A i \in Node, d \in Device :
              /\ devices'[d] = devices[d] /\ FormKeeps(i)
              /\ Free(inbox', FormMsgs(i, d)) => Free(inbox, FormMsgs(i, d))
              => FormSettles(i, d)'
<1>1. UNCHANGED <<nodes, apps, cards, meta, defaults, pins>>
  BY DEF serverVars
<1>2. ASSUME NEW i \in Node, RowKeeps(i), Keeps(inbox, inbox', NodeMsgs(i)) PROVE NodeInv(i)'
  <2>1. NodeInv(i)
    BY DEF MirrorInv
  <2> QED BY <1>1, <1>2, <2>1, NodeFrame
<1>3. ASSUME NEW i \in Node, slot' = slot, TargetKeeps(i), Keeps(inbox, inbox', PinMsgs(i)) PROVE PinInv(i)'
  <2>1. PinInv(i)
    BY DEF MirrorInv
  <2> QED BY <1>1, <1>3, <2>1, PinFrame
<1>4. ASSUME UNCHANGED <<slot, cache>>, Keeps(inbox, inbox', MetaMsgs) PROVE MetaInv'
  <2>1. MetaInv
    BY DEF MirrorInv
  <2> QED BY <1>1, <1>4, <2>1, MetaFrame
<1>5. ASSUME NEW d \in Device, Keeps(inbox, inbox', Registry(d)) PROVE CardSettles(d)'
  <2>1. CardSettles(d)
    BY DEF MirrorInv
  <2> QED BY <1>1, <1>5, <2>1, CardFrame
<1>6. ASSUME NEW i \in Node, NEW d \in Device, devices'[d] = devices[d], FormKeeps(i),
             Free(inbox', FormMsgs(i, d)) => Free(inbox, FormMsgs(i, d))
      PROVE  FormSettles(i, d)'
  <2>1. FormSettles(i, d)
    BY DEF MirrorInv
  <2> QED BY <1>6, <2>1, FormFrame
<1> QED BY <1>2, <1>3, <1>4, <1>5, <1>6

\* A handler's answer keeps what neither it nor the head is about.
LEMMA AnsweredKeeps ==
  ASSUME TypeOK, inbox # <<>>, NEW t \in Seq(Message), Answered(t), NEW M, Head(inbox) \notin M, Free(t, M)
  PROVE  Keeps(inbox, inbox', M)
BY ReadKeeps DEF TypeOK, Answered

\* A proxy destroyed keeps what was not addressed to it.
LEMMA DroppedFrame ==
  ASSUME TypeOK, inbox # <<>>, NEW id, Dropped(id), NEW M, Head(inbox) \notin M,
         [type |-> "nothing"] \notin M, \A m \in M : ~AddressedTo(m, id)
  PROVE  Keeps(inbox, inbox', M)
<1>1. Thinned(inbox, inbox', id)
  BY DEF Dropped, Thinned
<1> QED BY <1>1, DroppedKeeps DEF TypeOK

\* Events that are about no node, no pin and no default.
LEMMA BystanderMirrored ==
  ASSUME IInv, TypeOK', MirrorInv, UNCHANGED <<serverVars, devices, slot, cache, outdated>>, inbox # <<>>,
         Head(inbox).type \in {"nothing", "client", "client info"},
         NEW t \in Seq(Message), Answered(t), \A q \in DOMAIN t : t[q].type = "client info",
         \A i \in Node : RowKeeps(i) /\ TargetKeeps(i) /\ FormKeeps(i)
  PROVE  MirrorInv'
<1>0. TypeOK
  BY DEF IInv
<1>1. PICK m \in Message : m = Head(inbox)
  BY HeadMet
<1>2. ASSUME NEW n \in Message, n.type \in {"nothing", "client", "client info"}
      PROVE  /\ \A i \in Node : n \notin NodeMsgs(i)
             /\ \A i \in Node : n \notin PinMsgs(i)
             /\ n \notin MetaMsgs
             /\ \A d \in Device : n \notin Registry(d)
             /\ \A i \in Node, d \in Device : n \notin FormMsgs(i, d)
  BY <1>2, Elsewhere
<1>3. ASSUME NEW M, \A n \in Message : n.type \in {"nothing", "client", "client info"} => n \notin M
      PROVE  Keeps(inbox, inbox', M)
  <2>1. ASSUME NEW q \in DOMAIN t PROVE t[q] \notin M
    BY <1>3, SequenceItem
  <2>2. Free(t, M)
    BY <2>1 DEF Free
  <2> QED BY <1>0, <1>1, <1>3, <2>2, AnsweredKeeps
<1>4. /\ \A i \in Node : Keeps(inbox, inbox', NodeMsgs(i)) /\ Keeps(inbox, inbox', PinMsgs(i))
      /\ Keeps(inbox, inbox', MetaMsgs) /\ \A d \in Device : Keeps(inbox, inbox', Registry(d))
      /\ \A i \in Node, d \in Device : Keeps(inbox, inbox', FormMsgs(i, d))
  BY <1>2, <1>3
<1>5. \A i \in Node, d \in Device : Free(inbox', FormMsgs(i, d)) => Free(inbox, FormMsgs(i, d))
  BY <1>4, KeptFree
<1> QED BY <1>0, <1>4, <1>5, HandlerFrame DEF MirrorInv

\* A message of a proxy that is gone does nothing.
LEMMA NothingMirrored ==
  ASSUME IInv, TypeOK', MirrorInv, Nothing
  PROVE  MirrorInv'
<1>1. /\ inbox # <<>> /\ Head(inbox).type = "nothing" /\ Answered(<<>>)
      /\ UNCHANGED <<serverVars, bound, devices, slot, cache, outdated>>
  BY DEF Nothing, Takes, mapVars
<1>2. \A i \in Node : RowKeeps(i) /\ TargetKeeps(i) /\ FormKeeps(i)
  BY <1>1 DEF RowKeeps, RowStays, LevelStays, TargetKeeps, FormKeeps
<1>3. <<>> \in Seq(Message) /\ DOMAIN <<>> = {}
  OBVIOUS
<1> QED BY <1>1, <1>2, <1>3, BystanderMirrored

\* A client bound changes no row.
LEMMA BindClientMirrored ==
  ASSUME IInv, TypeOK', MirrorInv, BindClient
  PROVE  MirrorInv'
<1>1. /\ inbox # <<>> /\ Head(inbox).type = "client" /\ Answered(ClientReplies(Head(inbox).id))
      /\ UNCHANGED <<serverVars, bound, devices, slot, cache, outdated>>
  BY DEF BindClient, Takes
<1>2. \A i \in Node : RowKeeps(i) /\ TargetKeeps(i) /\ FormKeeps(i)
  BY <1>1 DEF RowKeeps, RowStays, LevelStays, TargetKeeps, FormKeeps
<1>3. PICK c \in Client : c = Head(inbox).id
  BY <1>1, HeadMet, MessageFields
<1>4. ClientReplies(c) \in Seq(Message)
  BY ClientAnswered
<1>5. PICK n : n = ClientInfo(c, apps[c].label)
  OBVIOUS
<1>6. n.type = "client info"
  BY <1>5 DEF ClientInfo
<1>7. PICK t \in {<<>>, <<n>>} : t = ClientReplies(c)
  BY <1>5 DEF ClientReplies
<1>8. \A q \in DOMAIN t : t[q].type = "client info"
  <2>1. \A q \in DOMAIN t : t[q] = n
    <3>1. CASE t = <<n>>
      BY <3>1
    <3>2. CASE t = <<>>
      BY <3>2
    <3> QED BY <3>1, <3>2
  <2> QED BY <2>1, <1>6
<1> QED BY <1>1, <1>2, <1>3, <1>4, <1>7, <1>8, BystanderMirrored

\* A client's properties change the labels of apps alone.
LEMMA ClientSaysMirrored ==
  ASSUME IInv, TypeOK', MirrorInv, ClientSays
  PROVE  MirrorInv'
<1> DEFINE m       == Head(inbox)
           changed == {i \in RowsOf({"app"}) : /\ bound[i].client = m.id
                                               /\ m.label \notin {None, bound[i].stream.label}}
<1>1. /\ inbox # <<>> /\ Head(inbox).type = "client info" /\ Answered(<<>>)
      /\ UNCHANGED <<serverVars, devices, slot, cache, outdated>>
      /\ bound' = [i \in Node |-> IF i \in changed
                                  THEN [bound[i] EXCEPT !.stream.label = m.label] ELSE bound[i]]
  BY DEF ClientSays, Takes
<1>2. ASSUME NEW i \in Node PROVE RowKeeps(i) /\ TargetKeeps(i) /\ FormKeeps(i)
  <2>1. CASE i \notin changed
    <3>1. bound'[i] = bound[i]
      BY <1>1, <2>1
    <3> QED BY <1>1, <3>1 DEF RowKeeps, RowStays, LevelStays, TargetKeeps, FormKeeps
  <2>2. CASE i \in changed
    <3>1. bound[i] # Absent /\ bound[i] \in Bound /\ bound[i].stream.kind \notin Direction
      BY <2>2 DEF RowsOf, Rows, IInv, TypeOK, Direction
    <3>2. PICK r : r = [bound[i] EXCEPT !.stream.label = m.label]
      OBVIOUS
    <3>3. bound'[i] = r
      BY <1>1, <2>2, <3>2
    <3>4. /\ r # Absent /\ r.device = bound[i].device /\ r.stream.kind = bound[i].stream.kind
          /\ r.stream.name = bound[i].stream.name /\ r.stream.level = bound[i].stream.level
          /\ r.stream.target = bound[i].stream.target /\ r.stream.form = bound[i].stream.form
      BY <3>1, <3>2 DEF Bound, Stream, Absent
    <3> QED BY <1>1, <3>1, <3>3, <3>4 DEF RowKeeps, RowStays, LevelStays, TargetKeeps, FormKeeps
  <2> QED BY <2>1, <2>2
<1>3. <<>> \in Seq(Message) /\ DOMAIN <<>> = {}
  OBVIOUS
<1> HIDE DEF changed, m
<1> QED BY <1>1, <1>2, <1>3, BystanderMirrored

\* The inbox after an event that was not answered.
LEMMA ReadInbox ==
  ASSUME TypeOK, inbox # <<>>, Answered(<<>>)
  PROVE  inbox' = Tail(inbox) /\ inbox' \in Seq(Message)
<1>1. Tail(inbox) \in Seq(Message)
  BY DEF TypeOK
<1> QED BY <1>1, SaysNothing DEF Answered

\* A handler that answers nothing keeps all but the head.
LEMMA UnansweredKeeps ==
  ASSUME TypeOK, inbox # <<>>, Answered(<<>>), NEW M, Head(inbox) \notin M
  PROVE  Keeps(inbox, inbox', M)
<1>1. <<>> \in Seq(Message) /\ Free(<<>>, M)
  BY NoneIsFree
<1> QED BY <1>1, AnsweredKeeps

\* A level heard is the node's when it is the last word about it.
LEMMA PropsComeMirrored ==
  ASSUME IInv, TypeOK', MirrorInv, PropsCome
  PROVE  MirrorInv'
<1>0. TypeOK /\ inbox \in Seq(Message)
  BY DEF IInv, TypeOK
<1>1. inbox # <<>> /\ Head(inbox).type = "props" /\ Answered(<<>>)
      /\ UNCHANGED <<serverVars, devices, slot, cache, outdated>>
  BY DEF PropsCome, Takes, mapVars
<1>2. PICK m \in Message : m = Head(inbox)
  BY <1>1, HeadMet
<1>3. PICK i \in Node : i = m.id /\ m.type = "props" /\ m.level \in Level
  BY <1>1, <1>2, MessageFields
<1>4. bound' = [j \in Node |-> IF j \in {x \in {m.id} \cap Rows : bound[x].stream.level # m.level}
                               THEN [bound[j] EXCEPT !.stream.level = m.level] ELSE bound[j]]
  BY <1>2 DEF PropsCome
<1>5. \A j \in Node : j # i => bound'[j] = bound[j]
  BY <1>3, <1>4
<1>6. /\ bound'[i] = Absent <=> bound[i] = Absent
      /\ bound[i] # Absent =>
           /\ bound'[i].device = bound[i].device /\ bound'[i].stream.kind = bound[i].stream.kind
           /\ bound'[i].stream.name = bound[i].stream.name /\ bound'[i].stream.label = bound[i].stream.label
           /\ bound'[i].stream.target = bound[i].stream.target /\ bound'[i].stream.form = bound[i].stream.form
           /\ bound'[i].stream.level = m.level
  <2>1. CASE bound[i] # Absent /\ bound[i].stream.level # m.level
    <3>1. bound[i] \in Bound
      BY <2>1, <1>0 DEF TypeOK
    <3>2. PICK r : r = [bound[i] EXCEPT !.stream.level = m.level]
      OBVIOUS
    <3>3. bound'[i] = r
      BY <1>3, <1>4, <2>1, <3>2 DEF Rows
    <3>4. /\ r # Absent /\ r.device = bound[i].device /\ r.stream.kind = bound[i].stream.kind
          /\ r.stream.name = bound[i].stream.name /\ r.stream.label = bound[i].stream.label
          /\ r.stream.target = bound[i].stream.target /\ r.stream.form = bound[i].stream.form
          /\ r.stream.level = m.level
      BY <3>1, <3>2 DEF Bound, Stream, Absent
    <3> QED BY <2>1, <3>3, <3>4
  <2>2. CASE ~(bound[i] # Absent /\ bound[i].stream.level # m.level)
    BY <1>3, <1>4, <2>2 DEF Rows
  <2> QED BY <2>1, <2>2
<1>7. ASSUME NEW j \in Node PROVE RowStays(j) /\ TargetKeeps(j) /\ FormKeeps(j) /\ (j # i => RowKeeps(j))
  <2>1. CASE j = i
    BY <1>1, <1>6, <2>1 DEF RowStays, TargetKeeps, FormKeeps
  <2>2. CASE j # i
    <3>1. bound'[j] = bound[j]
      BY <1>5, <2>2
    <3> QED BY <1>1, <3>1 DEF RowKeeps, RowStays, LevelStays, TargetKeeps, FormKeeps
  <2> QED BY <2>1, <2>2
<1>8. /\ \A j \in Node : j # i => m \notin NodeMsgs(j)
      /\ \A j \in Node : m \notin PinMsgs(j)
      /\ m \notin MetaMsgs
      /\ \A d \in Device : m \notin Registry(d)
      /\ \A j \in Node, d \in Device : m \notin FormMsgs(j, d)
  BY <1>3, Elsewhere
<1>9. ASSUME NEW M, m \notin M PROVE Keeps(inbox, inbox', M)
  BY <1>0, <1>1, <1>2, <1>9, UnansweredKeeps
<1>10. /\ m \notin Registry(i) /\ m \notin Infos(i) /\ m \notin {Gone(i)} /\ m \notin {Removed(i)}
  <2>1. m \notin Registry(i) /\ m \notin Infos(i)
    BY <1>3 DEF Registry, Infos
  <2>2. Gone(i).type = "gone" /\ Removed(i).type = "removed"
    BY DEF Gone, Removed
  <2> QED BY <1>3, <2>1, <2>2
<1>11. NodeInv(i)'
  <2>0. NodeInv(i) /\ SameNode(i)
    BY <1>1 DEF MirrorInv, SameNode, serverVars
  <2>1. Alternates(i)'
    BY <1>0, <1>6, <1>9, <1>10, <2>0, AlternatesKept DEF NodeInv
  <2>2. RemovedAndGone(i)'
    <3>1. Free(inbox, {Gone(i)}) <=> Free(inbox', {Gone(i)})
      BY <1>9, <1>10, KeptFree
    <3>2. Free(inbox, {Removed(i)}) <=> Free(inbox', {Removed(i)})
      BY <1>9, <1>10, KeptFree
    <3> QED BY <3>1, <3>2, <2>0, RemovedKept DEF NodeInv
  <2>3. NodeSettles(i)'
    BY <1>0, <1>7, <1>9, <1>10, <2>0, NodeKept DEF NodeInv
  <2>4. InfoSettles(i)'
    <3>1. Keeps(inbox, inbox', Registry(i) \cup Infos(i))
      BY <1>9, <1>10
    <3> QED BY <3>1, <1>0, <1>7, <2>0, InfoKept DEF NodeInv
  <2>5. LevelSettles(i)'
    <3> DEFINE M == Registry(i) \cup Levels(i)
               G == Registry(i) \cup {n \in Levels(i) : nodes[i] # Absent /\ n.level = nodes[i].level}
    <3>1. Ends(inbox, M, G)
      BY <2>0 DEF NodeInv, LevelSettles
    <3>2. inbox' = Tail(inbox)
      BY <1>0, <1>1, ReadInbox
    <3>3. Ends(inbox', M, G) /\ (m \in M /\ Free(inbox', M) => m \in G)
      BY <1>0, <1>1, <1>2, <3>1, <3>2, ReadEnds
    <3>4. m \in M
      BY <1>3 DEF Levels
    <3>5. m \in G => nodes[i] # Absent /\ m.level = nodes[i].level
      BY <1>10
    <3>6. nodes' = nodes
      BY <1>1 DEF serverVars
    <3> QED BY <3>3, <3>4, <3>5, <3>6, <1>6 DEF LevelSettles
  <2> QED BY <2>1, <2>2, <2>3, <2>4, <2>5 DEF NodeInv
<1>12. \A j \in Node, d \in Device : Free(inbox', FormMsgs(j, d)) => Free(inbox, FormMsgs(j, d))
  BY <1>8, <1>9, KeptFree
<1> QED BY <1>0, <1>1, <1>7, <1>8, <1>9, <1>11, <1>12, HandlerFrame DEF MirrorInv

\* Marks are all that a refresh changes.
LEMMA Remarks ==
  ASSUME TypeOK, NEW kinds, NEW names, Refresh(kinds, names), NEW i \in Node
  PROVE  /\ RowKeeps(i) /\ FormKeeps(i)
         /\ (i \in outdated => i \in outdated') => TargetKeeps(i)
         /\ bound[i] # Absent => bound'[i].stream.target = bound[i].stream.target
<1>1. CASE i \notin Moved(kinds, names)
  <2>1. bound'[i] = bound[i]
    BY <1>1 DEF Refresh
  <2> QED BY <2>1 DEF RowKeeps, RowStays, LevelStays, TargetKeeps, FormKeeps
<1>2. CASE i \in Moved(kinds, names)
  <2>1. bound[i] # Absent /\ bound[i] \in Bound
    BY <1>2 DEF Moved, RowsOf, Rows, TypeOK
  <2>2. PICK r : r = [bound[i] EXCEPT !.stream.isDefault = ~@]
    OBVIOUS
  <2>3. bound'[i] = r
    BY <1>2, <2>2 DEF Refresh
  <2>4. /\ r # Absent /\ r.device = bound[i].device /\ r.stream.kind = bound[i].stream.kind
        /\ r.stream.name = bound[i].stream.name /\ r.stream.level = bound[i].stream.level
        /\ r.stream.label = bound[i].stream.label
        /\ r.stream.target = bound[i].stream.target /\ r.stream.form = bound[i].stream.form
    BY <2>1, <2>2 DEF Bound, Stream, Absent
  <2> QED BY <2>1, <2>3, <2>4 DEF RowKeeps, RowStays, LevelStays, TargetKeeps, FormKeeps
<1> QED BY <1>1, <1>2

\* A default heard is the server's when it is the last word about it.
LEMMA DefaultsComeMirrored ==
  ASSUME IInv, TypeOK', MirrorInv, DefaultsCome
  PROVE  MirrorInv'
<1>0. TypeOK /\ inbox \in Seq(Message)
  BY DEF IInv, TypeOK
<1>1. inbox # <<>> /\ Head(inbox).type = "defaults" /\ Answered(<<>>)
      /\ UNCHANGED <<serverVars, devices, slot, outdated>>
  BY DEF DefaultsCome, Takes
<1>2. PICK m \in Message : m = Head(inbox)
  BY <1>1, HeadMet
<1>3. m.type = "defaults"
  BY <1>1, <1>2
<1>4. /\ cache' = [k \in Direction |-> IF k \in DOMAIN m.names THEN m.names[k] ELSE cache[k]]
      /\ Refresh(DOMAIN m.names, m.names)
  BY <1>2 DEF DefaultsCome
<1>5. slot
  <2>1. AddressedTo(m, Metadata) /\ Metadata \in Ids
    BY <1>3 DEF AddressedTo, Ids
  <2>2. Metadata \in Held(bound, clients, devices, slot)
    BY <2>1, <1>1, <1>2, HeadMet
  <2> QED BY <2>2, IdAssumption DEF Held
<1>6. \A j \in Node : RowKeeps(j) /\ TargetKeeps(j) /\ FormKeeps(j)
  BY <1>0, <1>1, <1>4, Remarks
<1>7. /\ \A j \in Node : m \notin NodeMsgs(j)
      /\ \A j \in Node : m \notin PinMsgs(j)
      /\ \A d \in Device : m \notin Registry(d)
      /\ \A j \in Node, d \in Device : m \notin FormMsgs(j, d)
  BY <1>3, Elsewhere
<1>8. ASSUME NEW M, m \notin M PROVE Keeps(inbox, inbox', M)
  BY <1>0, <1>1, <1>2, <1>8, UnansweredKeeps
<1>9. m \notin MetaRegistry
  <2>1. Gone(Metadata).type = "gone"
    BY DEF Gone
  <2> QED BY <2>1, <1>3 DEF MetaRegistry, MetaAnnounced
<1>10. UNCHANGED <<nodes, meta, defaults, pins>>
  BY <1>1 DEF serverVars
<1>11. MetaInv'
  <2>0. MetaInv
    BY DEF MirrorInv
  <2>1. Alternate(inbox', ~slot', MetaAnnounced, {Gone(Metadata)}) /\ MetaSettles'
    BY <1>0, <1>1, <1>8, <1>9, <1>10, <2>0, MetaKept
  <2>2. ASSUME NEW k \in Direction PROVE DefaultSettles(k)'
    <3>1. DefaultSettles(k)
      BY <2>0 DEF MetaInv
    <3>2. CASE k \in DOMAIN m.names
      <4> DEFINE M == MetaRegistry \cup DefaultsOf(k)
                 G == MetaRegistry \cup {n \in DefaultsOf(k) : n.names[k] = defaults[k]}
      <4>1. Ends(inbox, M, G)
        BY <3>1 DEF DefaultSettles
      <4>2. inbox' = Tail(inbox)
        BY <1>0, <1>1, ReadInbox
      <4>3. Ends(inbox', M, G) /\ (m \in M /\ Free(inbox', M) => m \in G)
        BY <1>0, <1>1, <1>2, <4>1, <4>2, ReadEnds
      <4>4. m \in M
        BY <1>3, <3>2 DEF DefaultsOf
      <4>5. m \in G => m.names[k] = defaults[k]
        BY <1>9
      <4>6. cache'[k] = m.names[k]
        BY <1>4, <3>2
      <4> QED BY <4>3, <4>4, <4>5, <4>6, <1>10 DEF DefaultSettles
    <3>3. CASE k \notin DOMAIN m.names
      <4>1. m \notin MetaRegistry \cup DefaultsOf(k)
        BY <1>9, <3>3 DEF DefaultsOf
      <4>2. Keeps(inbox, inbox', MetaRegistry \cup DefaultsOf(k))
        BY <1>8, <4>1
      <4>3. cache'[k] = cache[k]
        BY <1>4, <3>3
      <4> QED BY <1>0, <1>10, <3>1, <4>2, <4>3, DefaultKept
    <3> QED BY <3>2, <3>3
  <2> QED BY <1>1, <1>5, <1>10, <2>0, <2>1, <2>2 DEF MetaInv
<1>12. \A j \in Node, d \in Device : Free(inbox', FormMsgs(j, d)) => Free(inbox, FormMsgs(j, d))
  BY <1>7, <1>8, KeptFree
<1> QED BY <1>0, <1>1, <1>6, <1>7, <1>8, <1>11, <1>12, HandlerFrame DEF MirrorInv

\* A pin heard is the server's when it is the last word about it.
LEMMA TargetsComeMirrored ==
  ASSUME IInv, TypeOK', MirrorInv, TargetsCome
  PROVE  MirrorInv'
<1>0. TypeOK /\ inbox \in Seq(Message)
  BY DEF IInv, TypeOK
<1>1. inbox # <<>> /\ Head(inbox).type = "targets" /\ Answered(<<>>)
      /\ UNCHANGED <<serverVars, devices, slot, cache>>
  BY DEF TargetsCome, Takes, mapVars
<1>2. PICK m \in Message : m = Head(inbox)
  BY <1>1, HeadMet
<1>3. m.type = "targets"
  BY <1>1, <1>2
<1>4. /\ bound' = [i \in Node |->
                     IF i \in {x \in RowsOf({"app"}) \cap DOMAIN m.names : bound[x].stream.target # m.names[x]}
                     THEN [bound[i] EXCEPT !.stream.target = m.names[i]] ELSE bound[i]]
      /\ outdated' = outdated \ DOMAIN m.names
  BY <1>2 DEF TargetsCome
<1>5. slot
  <2>1. AddressedTo(m, Metadata) /\ Metadata \in Ids
    BY <1>3 DEF AddressedTo, Ids
  <2>2. Metadata \in Held(bound, clients, devices, slot)
    BY <2>1, <1>1, <1>2, HeadMet
  <2> QED BY <2>2, IdAssumption DEF Held
<1>6. ASSUME NEW j \in Node
      PROVE  /\ RowKeeps(j) /\ FormKeeps(j)
             /\ j \notin DOMAIN m.names => TargetKeeps(j)
             /\ j \in DOMAIN m.names /\ bound'[j] # Absent /\ bound'[j].stream.kind = "app" =>
                  bound'[j].stream.target = m.names[j]
  <2>1. CASE j \in RowsOf({"app"}) \cap DOMAIN m.names /\ bound[j].stream.target # m.names[j]
    <3>1. bound[j] # Absent /\ bound[j] \in Bound
      BY <2>1, <1>0 DEF RowsOf, Rows, TypeOK
    <3>2. PICK r : r = [bound[j] EXCEPT !.stream.target = m.names[j]]
      OBVIOUS
    <3>3. bound'[j] = r
      BY <2>1, <1>4, <3>2
    <3>4. /\ r # Absent /\ r.device = bound[j].device /\ r.stream.kind = bound[j].stream.kind
          /\ r.stream.name = bound[j].stream.name /\ r.stream.level = bound[j].stream.level
          /\ r.stream.label = bound[j].stream.label
          /\ r.stream.target = m.names[j] /\ r.stream.form = bound[j].stream.form
      BY <3>1, <3>2 DEF Bound, Stream, Absent
    <3> QED BY <2>1, <3>1, <3>3, <3>4 DEF RowKeeps, RowStays, LevelStays, FormKeeps
  <2>2. CASE ~(j \in RowsOf({"app"}) \cap DOMAIN m.names /\ bound[j].stream.target # m.names[j])
    <3>1. bound'[j] = bound[j]
      BY <2>2, <1>4
    <3>2. j \notin DOMAIN m.names => (j \in outdated => j \in outdated')
      BY <1>4
    <3> QED BY <2>2, <3>1, <3>2 DEF RowKeeps, RowStays, LevelStays, FormKeeps, TargetKeeps, RowsOf, Rows
  <2> QED BY <2>1, <2>2
<1>7. /\ \A j \in Node : m \notin NodeMsgs(j)
      /\ \A j \in Node : j \notin DOMAIN m.names => m \notin PinMsgs(j)
      /\ m \notin MetaMsgs
      /\ \A d \in Device : m \notin Registry(d)
      /\ \A j \in Node, d \in Device : m \notin FormMsgs(j, d)
  BY <1>3, Elsewhere
<1>8. ASSUME NEW M, m \notin M PROVE Keeps(inbox, inbox', M)
  BY <1>0, <1>1, <1>2, <1>8, UnansweredKeeps
<1>9. m \notin MetaRegistry /\ \A j \in Node : m \notin Registry(j)
  <2>1. m \notin MetaRegistry
    BY <1>7 DEF MetaMsgs
  <2> QED BY <2>1, <1>3 DEF Registry
<1>10. UNCHANGED <<nodes, meta, defaults, pins>>
  BY <1>1 DEF serverVars
<1>11. ASSUME NEW j \in Node, j \in DOMAIN m.names PROVE PinInv(j)'
  <2> DEFINE M == Registry(j) \cup TargetsOf(j)
             G == {n \in Registry(j) : pins[j] = None} \cup {n \in TargetsOf(j) : n.names[j] = pins[j]}
  <2>1. PinInv(j) /\ PinSettles(j)
    BY DEF MirrorInv, PinInv
  <2>2. Free(inbox, MetaRegistry) <=> Free(inbox', MetaRegistry)
    BY <1>8, <1>9, KeptFree
  <2>3. PinSettles(j)'
    <3> SUFFICES ASSUME Free(inbox', MetaRegistry)
                 PROVE  /\ Ends(inbox', M, G')
                        /\ Free(inbox', M) =>
                             (bound'[j] # Absent /\ bound'[j].stream.kind = "app" /\ j \notin outdated'
                                => bound'[j].stream.target = pins'[j])
      BY DEF PinSettles
    <3>1. Ends(inbox, M, G)
      BY <1>5, <2>1, <2>2 DEF PinSettles
    <3>2. inbox' = Tail(inbox)
      BY <1>0, <1>1, ReadInbox
    <3>3. Ends(inbox', M, G) /\ (m \in M /\ Free(inbox', M) => m \in G)
      BY <1>0, <1>1, <1>2, <3>1, <3>2, ReadEnds
    <3>4. m \in M
      BY <1>3, <1>11 DEF TargetsOf
    <3>5. m \in G => m.names[j] = pins[j]
      BY <1>9
    <3>6. G' = G
      BY <1>10
    <3> QED BY <3>3, <3>4, <3>5, <3>6, <1>6, <1>10, <1>11
  <2> QED BY <1>1, <1>5, <1>10, <2>1, <2>3 DEF PinInv
<1>12. \A j \in Node, d \in Device : Free(inbox', FormMsgs(j, d)) => Free(inbox, FormMsgs(j, d))
  BY <1>7, <1>8, KeptFree
<1> QED BY <1>0, <1>1, <1>6, <1>7, <1>8, <1>11, <1>12, HandlerFrame DEF MirrorInv

\* Nothing that was for the proxy is left.
LEMMA ThinnedFree ==
  ASSUME NEW s \in Seq(Message), s # <<>>, NEW u, NEW id, Thinned(s, u, id), NEW M,
         [type |-> "nothing"] \notin M, \A m \in M : AddressedTo(m, id)
  PROVE  Free(u, M)
<1>1. ASSUME NEW k \in DOMAIN u PROVE u[k] \notin M
  <2>1. k \in 1..(Len(s) - 1)
    BY <1>1 DEF Thinned
  <2>2. u[k] = IF AddressedTo(s[k + 1], id) THEN [type |-> "nothing"] ELSE s[k + 1]
    BY <2>1 DEF Thinned
  <2> QED BY <2>2
<1> QED BY <1>1 DEF Free

\* With the metadata gone the rows forget defaults, and pins are out of date.
LEMMA MetadataRemovedMirrored ==
  ASSUME IInv, TypeOK', MirrorInv, MetadataRemoved
  PROVE  MirrorInv'
<1>0. TypeOK /\ inbox \in Seq(Message) /\ inbox' \in Seq(Message) /\ meta \in BOOLEAN /\ slot \in BOOLEAN
  BY DEF IInv, TypeOK
<1>1. inbox # <<>> /\ Head(inbox) = Gone(Metadata) /\ Dropped(Metadata)
      /\ UNCHANGED <<serverVars, devices>> /\ slot' = FALSE
      /\ outdated' = {i \in Rows : bound[i].stream.target # None}
  <2>1. inbox # <<>> /\ Head(inbox).type = "gone" /\ Head(inbox).id = Metadata
    BY DEF MetadataRemoved, Takes
  <2>2. Head(inbox) = Gone(Metadata)
    BY <2>1, HeadMet DEF Message, Gone
  <2> QED BY <2>1, <2>2 DEF MetadataRemoved, Takes
<1>2. PICK m \in Message : m = Gone(Metadata) /\ m = Head(inbox)
  BY <1>1, HeadMet
<1>3. m.type = "gone" /\ m.id = Metadata
  BY <1>2 DEF Gone
<1>4. ASSUME NEW j \in Node
      PROVE  /\ RowKeeps(j) /\ FormKeeps(j)
             /\ bound[j] # Absent => bound'[j].stream.target = bound[j].stream.target
  <2>1. CASE slot
    BY <2>1, <1>0, Remarks DEF MetadataRemoved
  <2>2. CASE ~slot
    BY <2>2 DEF MetadataRemoved, RowKeeps, RowStays, LevelStays, FormKeeps
  <2> QED BY <2>1, <2>2
<1>5. UNCHANGED <<nodes, meta, defaults, pins>>
  BY <1>1 DEF serverVars
<1>6. MetaInv /\ MetaSettles /\ Alternate(inbox, ~slot, MetaAnnounced, {Gone(Metadata)})
  BY DEF MirrorInv, MetaInv
<1>7. \A k \in Direction : cache'[k] = None
  BY <1>6 DEF MetadataRemoved, MetaInv
<1>8. Thinned(inbox, inbox', Metadata) /\ Tail(inbox) \in Seq(Message)
  BY <1>0, <1>1 DEF Dropped, Thinned
<1>9. /\ m \notin MetaAnnounced /\ m \in MetaRegistry
      /\ \A n \in MetaRegistry : ~AddressedTo(n, Metadata)
      /\ [type |-> "nothing"] \notin MetaRegistry
  <2>1. m \notin MetaAnnounced /\ m \in MetaRegistry
    BY <1>2, <1>3 DEF MetaAnnounced, MetaRegistry
  <2>2. \A n \in MetaRegistry : n.type \in {"metadata", "gone"}
    BY DEF MetaRegistry, MetaAnnounced, Gone
  <2> QED BY <2>1, <2>2 DEF AddressedTo
<1>10. Keeps(Tail(inbox), inbox', MetaRegistry)
  BY <1>0, <1>1, <1>8, <1>9, ThinnedKeeps
<1>11. MetaInv'
  <2>1. Alternate(inbox', ~slot', MetaAnnounced, {Gone(Metadata)})
    <3>1. Alternate(Tail(inbox), TRUE, MetaAnnounced, {Gone(Metadata)})
      BY <1>0, <1>1, <1>6, RegistryWords, ReadAlternate
    <3>2. MetaAnnounced \cup {Gone(Metadata)} \subseteq MetaRegistry
      BY DEF MetaRegistry
    <3>3. Alternate(inbox', TRUE, MetaAnnounced, {Gone(Metadata)})
      BY <1>0, <1>8, <1>10, <3>1, <3>2, KeptAlternate
    <3> QED BY <3>3, <1>1
  <2>2. /\ Ends(inbox', MetaRegistry, IF meta THEN MetaAnnounced ELSE {Gone(Metadata)})
        /\ Free(inbox', MetaRegistry) => ~meta
    <3> DEFINE G == IF meta THEN MetaAnnounced ELSE {Gone(Metadata)}
    <3>1. Ends(inbox, MetaRegistry, G)
      BY <1>6 DEF MetaSettles
    <3>2. Ends(Tail(inbox), MetaRegistry, G) /\ (m \in MetaRegistry /\ Free(Tail(inbox), MetaRegistry) => m \in G)
      BY <1>0, <1>1, <1>2, <3>1, ReadEnds
    <3>3. Ends(inbox', MetaRegistry, G)
      BY <1>0, <1>8, <1>10, <3>2, KeptEnds
    <3>4. Free(Tail(inbox), MetaRegistry) <=> Free(inbox', MetaRegistry)
      BY <1>10, KeptFree
    <3>5. m \in G => ~meta
      BY <1>9
    <3> QED BY <1>9, <3>2, <3>3, <3>4, <3>5
  <2>3. MetaSettles'
    BY <2>2, <1>0, <1>1, <1>5 DEF MetaSettles
  <2>4. ASSUME NEW k \in Direction PROVE DefaultSettles(k)'
    <3>1. Free(inbox', DefaultsOf(k))
      <4>1. \A n \in DefaultsOf(k) : AddressedTo(n, Metadata)
        BY DEF DefaultsOf, AddressedTo
      <4>2. [type |-> "nothing"] \notin DefaultsOf(k)
        BY DEF DefaultsOf
      <4> QED BY <1>0, <1>1, <1>8, <4>1, <4>2, ThinnedFree
    <3>2. \A G : MetaRegistry \subseteq G => Ends(inbox', MetaRegistry \cup DefaultsOf(k), G)
      BY <3>1, EndsFree
    <3>3. Free(inbox', MetaRegistry \cup DefaultsOf(k)) => defaults'[k] = None
      <4>1. Free(inbox', MetaRegistry \cup DefaultsOf(k)) => Free(inbox', MetaRegistry)
        BY DEF Free
      <4> QED BY <4>1, <2>2, <1>5, <1>6 DEF MetaInv
    <3> QED BY <3>2, <3>3, <1>7 DEF DefaultSettles
  <2> QED BY <2>1, <2>3, <2>4, <1>5, <1>6, <1>7 DEF MetaInv
<1>12. ASSUME NEW j \in Node PROVE PinInv(j)'
  <2>1. PinInv(j)
    BY DEF MirrorInv
  <2>2. bound'[j] # Absent /\ j \notin outdated' => bound'[j].stream.target = None
    BY <1>1, <1>4 DEF RowKeeps, RowStays, Rows
  <2> QED BY <2>1, <2>2, <1>1, <1>5 DEF PinInv, PinSettles
<1>13. ASSUME NEW M,
              \A n \in Message : n \in M => /\ n.type \notin {"nothing", "defaults", "targets"}
                                            /\ n.type = "gone" => n.id # Metadata
       PROVE  Keeps(inbox, inbox', M \cap Message)
  <2>1. m \notin M
    BY <1>3, <1>13
  <2>2. \A n \in M \cap Message : ~AddressedTo(n, Metadata)
    <3>1. ASSUME NEW n \in M \cap Message, AddressedTo(n, Metadata) PROVE FALSE
      <4>1. n.type \in {"removed", "node info", "props", "client info", "device info", "route"} /\ n.id = Metadata
        BY <1>13, <3>1 DEF AddressedTo
      <4> QED BY <4>1, MessageFields, IdAssumption
    <3> QED BY <3>1
  <2>3. [type |-> "nothing"] \notin M \cap Message
    BY <1>13
  <2> QED BY <1>0, <1>1, <1>2, <2>1, <2>2, <2>3, DroppedFrame
<1>14. /\ \A j \in Node : NodeMsgs(j) \cap Message = NodeMsgs(j)
       /\ \A d \in Device : Registry(d) \cap Message = Registry(d)
       /\ \A j \in Node, d \in Device : FormMsgs(j, d) \cap Message = FormMsgs(j, d)
  <2>1. \A x \in Ids : Gone(x) \in Message
    BY RegistryWords
  <2>2. \A j \in Node : Removed(j) \in Message
    BY ObjectEvents
  <2> QED BY <2>1, <2>2 DEF NodeMsgs, Registry, Infos, Levels, FormMsgs, CardSays, Ids
<1>15. /\ \A j \in Node : j # Metadata
       /\ \A d \in Device : d # Metadata
  BY IdAssumption
<1>16. \A j \in Node : Keeps(inbox, inbox', NodeMsgs(j))
  <2>1. ASSUME NEW j \in Node, NEW n \in Message, n \in NodeMsgs(j)
        PROVE  n.type \notin {"nothing", "defaults", "targets"} /\ (n.type = "gone" => n.id # Metadata)
    BY <2>1, <1>15, Elsewhere
  <2> QED BY <2>1, <1>13, <1>14
<1>17. \A d \in Device : Keeps(inbox, inbox', Registry(d))
  <2>1. ASSUME NEW d \in Device, NEW n \in Message, n \in Registry(d)
        PROVE  n.type \notin {"nothing", "defaults", "targets"} /\ (n.type = "gone" => n.id # Metadata)
    BY <2>1, <1>15, Elsewhere
  <2> QED BY <2>1, <1>13, <1>14
<1>18. \A j \in Node, d \in Device : Free(inbox', FormMsgs(j, d)) => Free(inbox, FormMsgs(j, d))
  <2>1. ASSUME NEW j \in Node, NEW d \in Device, NEW n \in Message, n \in FormMsgs(j, d)
        PROVE  n.type \notin {"nothing", "defaults", "targets"} /\ (n.type = "gone" => n.id # Metadata)
    BY <2>1, <1>15, Elsewhere
  <2>2. \A j \in Node, d \in Device : Keeps(inbox, inbox', FormMsgs(j, d))
    BY <2>1, <1>13, <1>14
  <2> QED BY <2>2, KeptFree
<1> QED BY <1>0, <1>1, <1>4, <1>11, <1>12, <1>16, <1>17, <1>18, HandlerFrame DEF MirrorInv

\* The parts of the inbox an invariant speaks of are messages.
LEMMA AllMessages ==
  /\ MetaMsgs \subseteq Message
  /\ \A d \in Device : Registry(d) \subseteq Message
  /\ \A i \in Node : NodeMsgs(i) \subseteq Message /\ PinMsgs(i) \subseteq Message
  /\ \A i \in Node, d \in Device : FormMsgs(i, d) \subseteq Message
<1>1. Metadata \in Ids /\ Node \subseteq Ids /\ Device \subseteq Ids
  BY DEF Ids
<1>2. \A x \in Ids : Gone(x) \in Message
  BY RegistryWords
<1>3. \A i \in Node : Removed(i) \in Message
  BY ObjectEvents
<1>4. \A x : Registry(x) \subseteq Message /\ Infos(x) \subseteq Message /\ Levels(x) \subseteq Message
            /\ CardSays(x) \subseteq Message /\ TargetsOf(x) \subseteq Message /\ DefaultsOf(x) \subseteq Message
  BY DEF Registry, Infos, Levels, CardSays, TargetsOf, DefaultsOf
<1>5. MetaRegistry \subseteq Message
  BY <1>1, <1>2 DEF MetaRegistry, MetaAnnounced
<1>6. MetaMsgs \subseteq Message
  BY <1>4, <1>5 DEF MetaMsgs
<1>7. ASSUME NEW i \in Node PROVE NodeMsgs(i) \subseteq Message /\ PinMsgs(i) \subseteq Message
  BY <1>3, <1>4, <1>5 DEF NodeMsgs, PinMsgs
<1>8. ASSUME NEW i \in Node, NEW d \in Device PROVE FormMsgs(i, d) \subseteq Message
  <2>1. Gone(i) \in Message /\ Gone(d) \in Message
    BY <1>1, <1>2
  <2> QED BY <1>4, <2>1 DEF FormMsgs
<1> QED BY <1>4, <1>6, <1>7, <1>8

\* What stands in the inbox is not disturbed by what is dropped with another's
\* proxy.
LEMMA DroppedElsewhere ==
  ASSUME TypeOK, inbox # <<>>, NEW id \in Node \cup Client \cup Device, Dropped(id), NEW M,
         Head(inbox) \notin M,
         \A n \in M : /\ n.type # "nothing"
                      /\ n.type \in {"removed", "node info", "props", "client info", "device info", "route"} => n.id # id
  PROVE  Keeps(inbox, inbox', M)
<1>1. id # Metadata
  BY IdAssumption
<1>2. \A n \in M : ~AddressedTo(n, id)
  BY <1>1 DEF AddressedTo
<1>3. [type |-> "nothing"] \notin M
  OBVIOUS
<1> QED BY <1>2, <1>3, DroppedFrame

\* A row that goes with its proxy or with its global.
LEMMA RowGoneMirrored ==
  ASSUME IInv, TypeOK', MirrorInv, NEW i \in Node, inbox # <<>>, Head(inbox) \in {Removed(i), Gone(i)},
         Dropped(i), UNCHANGED <<serverVars, slot, cache>>, \A d \in Device : devices'[d] = devices[d],
         \A j \in Node : bound'[j] = IF j = i THEN Absent ELSE bound[j],
         outdated' = outdated \ {i}
  PROVE  MirrorInv'
<1>0. TypeOK /\ inbox \in Seq(Message) /\ inbox' \in Seq(Message)
  BY DEF IInv, TypeOK
<1>1. UNCHANGED <<nodes, meta, defaults, pins>>
  BY DEF serverVars
<1>2. PICK m \in Message : m = Head(inbox)
  BY HeadMet
<1>3. m \in {Removed(i), Gone(i)} /\ m.type \in {"removed", "gone"} /\ m.id = i
  BY <1>2 DEF Removed, Gone
<1>4. Thinned(inbox, inbox', i) /\ Tail(inbox) \in Seq(Message)
  BY <1>0 DEF Dropped, Thinned
<1>5. i # Metadata /\ \A d \in Device : d # i
  BY IdAssumption
<1>6. \A n \in Registry(i) : n \in Message /\ n.type \in {"node", "device", "gone"}
  BY DEF Registry
<1>7. NodeInv(i) /\ PinInv(i)
  BY DEF MirrorInv
<1>8. ASSUME NEW M, \A n \in M : /\ n.type # "nothing"
                                 /\ n.type \notin {"removed", "node info", "props", "client info", "device info", "route"}
      PROVE  Keeps(Tail(inbox), inbox', M)
  <2>1. \A n \in M : ~AddressedTo(n, i)
    BY <1>5, <1>8 DEF AddressedTo
  <2>2. [type |-> "nothing"] \notin M
    BY <1>8
  <2> QED BY <1>0, <1>4, <2>1, <2>2, ThinnedKeeps
<1>9. Keeps(Tail(inbox), inbox', Registry(i))
  BY <1>6, <1>8
<1>10. NodeInv(i)'
  <2>1. Alternates(i)'
    <3>1. Alternate(inbox, bound[i] = Absent, Announced(i), {Gone(i)})
      BY <1>7 DEF NodeInv, Alternates
    <3>2. Alternate(Tail(inbox), TRUE, Announced(i), {Gone(i)})
      BY <3>1, <1>0, RegistryWords, ReadAlternate
    <3>3. Announced(i) \cup {Gone(i)} \subseteq Registry(i)
      BY RegistryWords
    <3>4. Alternate(inbox', TRUE, Announced(i), {Gone(i)})
      BY <1>0, <1>4, <1>9, <3>2, <3>3, KeptAlternate
    <3> QED BY <3>4 DEF Alternates
  <2>2. Free(inbox', {Removed(i)}) /\ Free(inbox', Levels(i))
    <3>1. AddressedTo(Removed(i), i) /\ Removed(i).type = "removed"
      BY DEF AddressedTo, Removed
    <3>2. \A n \in Levels(i) : AddressedTo(n, i) /\ n.type = "props"
      BY DEF AddressedTo, Levels
    <3>3. [type |-> "nothing"].type = "nothing"
      OBVIOUS
    <3>4. [type |-> "nothing"] \notin {Removed(i)}
      BY <3>1, <3>3
    <3>5. [type |-> "nothing"] \notin Levels(i)
      BY <3>2, <3>3
    <3> QED BY <1>0, <1>4, <3>1, <3>2, <3>4, <3>5, ThinnedFree
  <2>3. NodeSettles(i)'
    <3>1. Ends(inbox, Registry(i), Current(i))
      BY <1>7 DEF NodeInv, NodeSettles
    <3>2. Ends(Tail(inbox), Registry(i), Current(i)) /\ (m \in Registry(i) /\ Free(Tail(inbox), Registry(i)) => m \in Current(i))
      BY <1>0, <1>2, <3>1, ReadEnds
    <3>3. Ends(inbox', Registry(i), Current(i))
      BY <1>0, <1>4, <1>9, <3>2, KeptEnds
    <3>4. Current(i)' = Current(i)
      BY <1>1 DEF Current
    <3>5. Free(inbox', Registry(i)) <=> Free(Tail(inbox), Registry(i))
      BY <1>9, KeptFree
    <3>6. ASSUME Free(Tail(inbox), Registry(i)) PROVE nodes[i] = Absent \/ nodes[i].object.kind \notin Heard
      <4>1. CASE m = Gone(i)
        <5>1. m \in Current(i)
          BY <4>1, <3>2, <3>6, RegistryWords
        <5>2. m.type = "gone"
          BY <4>1 DEF Gone
        <5> QED BY <5>1, <5>2 DEF Current
      <4>2. CASE m = Removed(i)
        <5>1. ~Free(inbox, {Removed(i)})
          BY <4>2, <1>0, <1>2, ReadFree
        <5>2. ~Free(inbox, {Gone(i)})
          BY <5>1, <1>7 DEF NodeInv, RemovedAndGone
        <5>3. m # Gone(i)
          BY <4>2 DEF Removed, Gone
        <5>4. ~Free(Tail(inbox), {Gone(i)})
          BY <5>2, <5>3, <1>0, <1>2, ReadFree
        <5>5. Gone(i) \in Registry(i)
          BY RegistryWords
        <5> QED BY <5>4, <5>5, <3>6 DEF Free
      <4> QED BY <4>1, <4>2, <1>3
    <3> QED BY <3>3, <3>4, <3>5, <3>6, <1>1 DEF NodeSettles, RowIs
  <2>4. InfoSettles(i)'
    BY DEF InfoSettles
  <2>5. LevelSettles(i)'
    <3>1. \A G : Registry(i) \subseteq G => Ends(inbox', Registry(i) \cup Levels(i), G)
      BY <2>2, EndsFree
    <3> QED BY <3>1 DEF LevelSettles
  <2> QED BY <2>1, <2>2, <2>3, <2>4, <2>5 DEF NodeInv, RemovedAndGone
<1>11. PinInv(i)'
  <2> DEFINE M == Registry(i) \cup TargetsOf(i)
             G == {n \in Registry(i) : pins[i] = None} \cup {n \in TargetsOf(i) : n.names[i] = pins[i]}
  <2>1. PinSettles(i)'
    <3> SUFFICES ASSUME Free(inbox', MetaRegistry), slot PROVE Ends(inbox', M, G')
      BY DEF PinSettles
    <3>1. Free(inbox, MetaRegistry)
      <4>1. \A n \in MetaRegistry : n.type = "metadata" \/ (n.type = "gone" /\ n.id = Metadata)
        BY DEF MetaRegistry, MetaAnnounced, Gone
      <4>2. m \notin MetaRegistry
        BY <4>1, <1>3, <1>5
      <4>3. Keeps(Tail(inbox), inbox', MetaRegistry)
        BY <4>1, <1>8
      <4>4. Free(Tail(inbox), MetaRegistry)
        BY <4>3, KeptFree
      <4> QED BY <4>2, <4>4, <1>0, <1>2, ReadFree
    <3>2. Ends(inbox, M, G)
      BY <3>1, <1>7 DEF PinInv, PinSettles
    <3>3. Ends(Tail(inbox), M, G)
      BY <1>0, <3>2, ReadEnds
    <3>4. \A n \in M : n.type \in {"node", "device", "gone", "targets"}
      BY <1>6 DEF TargetsOf
    <3>5. Keeps(Tail(inbox), inbox', M)
      <4> HIDE DEF M
      <4>1. \A n \in M : /\ n.type # "nothing"
                         /\ n.type \notin {"removed", "node info", "props", "client info", "device info", "route"}
        BY <3>4
      <4> QED BY <4>1, <1>8
    <3>6. Ends(inbox', M, G)
      <4> HIDE DEF M, G
      <4> QED BY <1>0, <1>4, <3>3, <3>5, KeptEnds
    <3>7. G' = G
      BY <1>1
    <3> QED BY <3>6, <3>7
  <2> QED BY <2>1, <1>1, <1>7 DEF PinInv
<1>12. ASSUME NEW j \in Node, j # i PROVE RowKeeps(j) /\ TargetKeeps(j)
  <2>1. bound'[j] = bound[j]
    BY <1>12
  <2> QED BY <1>12, <2>1 DEF RowKeeps, RowStays, LevelStays, TargetKeeps
<1>13. ASSUME NEW j \in Node PROVE FormKeeps(j)
  <2>1. bound'[j] = Absent \/ bound'[j] = bound[j]
    BY <1>13
  <2> QED BY <2>1 DEF FormKeeps
<1>14. ASSUME NEW j \in Node, j # i PROVE Keeps(inbox, inbox', NodeMsgs(j))
  <2>1. ASSUME NEW n \in NodeMsgs(j) PROVE n.type # "nothing" /\ n.id # i
    <3>1. n \in Message
      BY <2>1, AllMessages
    <3> QED BY <1>14, <2>1, <3>1, Elsewhere
  <2>2. m \notin NodeMsgs(j)
    BY <1>3, <2>1
  <2> QED BY <1>0, <1>2, <2>1, <2>2, DroppedElsewhere
<1>15. \A j \in Node : j # i => Keeps(inbox, inbox', PinMsgs(j))
  <2>1. ASSUME NEW j \in Node, j # i, NEW n \in PinMsgs(j)
        PROVE  n.type \in {"metadata", "node", "gone", "targets"} /\ (n.type = "gone" => n.id # i)
    <3>1. n \in Message
      BY <2>1, AllMessages
    <3> QED BY <2>1, <3>1, <1>5, Elsewhere
  <2> QED BY <1>0, <1>2, <1>3, <2>1, DroppedElsewhere
<1>16. Keeps(inbox, inbox', MetaMsgs)
  <2>1. ASSUME NEW n \in MetaMsgs
        PROVE  n.type \in {"metadata", "gone", "defaults"} /\ (n.type = "gone" => n.id # i)
    <3>1. n \in Message
      BY <2>1, AllMessages
    <3> QED BY <2>1, <3>1, <1>5, Elsewhere
  <2> QED BY <1>0, <1>2, <1>3, <2>1, DroppedElsewhere
<1>17. \A d \in Device : Keeps(inbox, inbox', Registry(d))
  <2>1. ASSUME NEW d \in Device, NEW n \in Registry(d)
        PROVE  n.type \in {"device", "gone"} /\ n.id # i
    <3>1. n \in Message
      BY <2>1, AllMessages
    <3> QED BY <2>1, <3>1, <1>5, Elsewhere
  <2> QED BY <1>0, <1>2, <1>3, <2>1, DroppedElsewhere
<1>18. ASSUME NEW j \in Node, NEW d \in Device, j # i PROVE Free(inbox', FormMsgs(j, d)) => Free(inbox, FormMsgs(j, d))
  <2>1. ASSUME NEW n \in FormMsgs(j, d) PROVE n.type # "nothing" /\ n.id # i
    <3>1. n \in Message
      BY <2>1, AllMessages
    <3>2. \/ n.type = "gone" /\ n.id \in {j, d}
          \/ n.type \in {"device info", "route"} /\ n.id = d
          \/ n.type = "node info" /\ n.id = j
      BY <2>1, <3>1, Elsewhere
    <3> QED BY <1>18, <3>2, <1>5
  <2>2. m \notin FormMsgs(j, d)
    BY <1>3, <2>1
  <2>3. Keeps(inbox, inbox', FormMsgs(j, d))
    BY <1>0, <1>2, <2>1, <2>2, DroppedElsewhere
  <2> QED BY <2>3, KeptFree
<1>19. \A d \in Device : FormSettles(i, d)'
  BY DEF FormSettles
<1> QED BY <1>0, <1>10, <1>11, <1>12, <1>13, <1>14, <1>15, <1>16, <1>17, <1>18, <1>19, HandlerFrame DEF MirrorInv

\* A client or a device that goes takes no row with it.
LEMMA ObjectGoneMirrored ==
  ASSUME IInv, TypeOK', MirrorInv, NEW x \in Client \cup Device, inbox # <<>>, Head(inbox) = Gone(x),
         Dropped(x), UNCHANGED <<serverVars, slot, cache>>,
         \A d \in Device : devices'[d] = IF d = x THEN Absent ELSE devices[d],
         \A j \in Node : bound'[j] = bound[j], \A j \in Node : j \in outdated => j \in outdated'
  PROVE  MirrorInv'
<1>0. TypeOK /\ inbox \in Seq(Message) /\ inbox' \in Seq(Message)
  BY DEF IInv, TypeOK
<1>2. PICK m \in Message : m = Head(inbox)
  BY HeadMet
<1>3. m.type = "gone" /\ m.id = x
  BY <1>2 DEF Gone
<1>4. Thinned(inbox, inbox', x) /\ Tail(inbox) \in Seq(Message)
  BY <1>0 DEF Dropped, Thinned
<1>5. x # Metadata /\ \A j \in Node : j # x
  BY IdAssumption
<1>6. ASSUME NEW j \in Node PROVE RowKeeps(j) /\ TargetKeeps(j) /\ FormKeeps(j)
  <2>1. bound'[j] = bound[j]
    BY <1>6
  <2> QED BY <1>6, <2>1 DEF RowKeeps, RowStays, LevelStays, TargetKeeps, FormKeeps
<1>7. \A j \in Node : Keeps(inbox, inbox', NodeMsgs(j))
  <2>1. ASSUME NEW j \in Node, NEW n \in NodeMsgs(j) PROVE n \in Message /\ n.type # "nothing" /\ n.id # x
    <3>1. n \in Message
      BY <2>1, AllMessages
    <3> QED BY <2>1, <3>1, <1>5, Elsewhere
  <2> QED BY <1>0, <1>2, <1>3, <2>1, DroppedElsewhere
<1>8. \A j \in Node : Keeps(inbox, inbox', PinMsgs(j))
  <2>1. ASSUME NEW j \in Node, NEW n \in PinMsgs(j)
        PROVE  n.type \in {"metadata", "node", "gone", "targets"} /\ (n.type = "gone" => n.id # x)
    <3>1. n \in Message
      BY <2>1, AllMessages
    <3> QED BY <2>1, <3>1, <1>5, Elsewhere
  <2> QED BY <1>0, <1>2, <1>3, <2>1, DroppedElsewhere
<1>9. Keeps(inbox, inbox', MetaMsgs)
  <2>1. ASSUME NEW n \in MetaMsgs
        PROVE  n.type \in {"metadata", "gone", "defaults"} /\ (n.type = "gone" => n.id # x)
    <3>1. n \in Message
      BY <2>1, AllMessages
    <3> QED BY <2>1, <3>1, <1>5, Elsewhere
  <2> QED BY <1>0, <1>2, <1>3, <2>1, DroppedElsewhere
<1>10. ASSUME NEW d \in Device, d # x PROVE CardSettles(d)' /\ \A j \in Node : FormSettles(j, d)'
  <2>1. ASSUME NEW n \in Registry(d) PROVE n.type \in {"device", "gone"} /\ n.id # x
    <3>1. n \in Message
      BY <2>1, AllMessages
    <3> QED BY <2>1, <3>1, <1>10, Elsewhere
  <2>2. Keeps(inbox, inbox', Registry(d))
    BY <1>0, <1>2, <1>3, <2>1, DroppedElsewhere
  <2>3. ASSUME NEW j \in Node, NEW n \in FormMsgs(j, d) PROVE n.type # "nothing" /\ n.id # x
    <3>1. n \in Message
      BY <2>3, AllMessages
    <3>2. \/ n.type = "gone" /\ n.id \in {j, d}
          \/ n.type \in {"device info", "route"} /\ n.id = d
          \/ n.type = "node info" /\ n.id = j
      BY <2>3, <3>1, Elsewhere
    <3> QED BY <3>2, <1>5, <1>10
  <2>4. ASSUME NEW j \in Node PROVE Keeps(inbox, inbox', FormMsgs(j, d))
    <3>1. m \notin FormMsgs(j, d)
      BY <1>3, <2>3
    <3> QED BY <1>0, <1>2, <3>1, <2>3, DroppedElsewhere
  <2>5. \A j \in Node : Free(inbox', FormMsgs(j, d)) => Free(inbox, FormMsgs(j, d))
    BY <2>4, KeptFree
  <2> QED BY <1>0, <1>6, <1>10, <2>2, <2>5, HandlerFrame
<1>11. ASSUME x \in Device PROVE CardSettles(x)' /\ \A j \in Node : FormSettles(j, x)'
  <2> DEFINE G == {n \in Registry(x) : n \in Announced(x) => cards[x] # Absent}
  <2>1. Ends(inbox, Registry(x), G)
    BY <1>11 DEF MirrorInv, CardSettles
  <2>2. Ends(Tail(inbox), Registry(x), G)
    BY <1>0, <2>1, ReadEnds
  <2>3. \A n \in Registry(x) : n.type \in {"node", "device", "gone"}
    BY DEF Registry
  <2>4. Keeps(Tail(inbox), inbox', Registry(x))
    <3>1. \A n \in Registry(x) : ~AddressedTo(n, x)
      BY <2>3, <1>5 DEF AddressedTo
    <3>2. [type |-> "nothing"] \notin Registry(x)
      BY <2>3
    <3> QED BY <1>0, <1>4, <3>1, <3>2, ThinnedKeeps
  <2>5. Ends(inbox', Registry(x), G)
    BY <1>0, <1>4, <2>2, <2>4, KeptEnds
  <2>6. G' = G
    BY DEF serverVars
  <2>7. CardSettles(x)'
    BY <2>5, <2>6 DEF CardSettles
  <2>8. devices'[x] = Absent
    BY <1>11
  <2> QED BY <2>7, <2>8 DEF FormSettles
<1> QED BY <1>0, <1>6, <1>7, <1>8, <1>9, <1>10, <1>11, HandlerFrame DEF MirrorInv

\* A row goes with its proxy.
LEMMA ProxyRemovedMirrored ==
  ASSUME IInv, TypeOK', MirrorInv, ProxyRemoved
  PROVE  MirrorInv'
<1>1. inbox # <<>> /\ Head(inbox).type = "removed" /\ UNCHANGED <<serverVars, devices, slot, cache>>
  BY DEF ProxyRemoved, Takes, mapVars
<1>2. PICK m \in Message : m = Head(inbox)
  BY <1>1, HeadMet
<1>3. PICK i \in Node : i = m.id
  BY <1>1, <1>2, MessageFields
<1>4. m = Removed(i)
  BY <1>1, <1>2, <1>3 DEF Message, Removed
<1>5. /\ \A j \in Node : bound'[j] = IF j = i THEN Absent ELSE bound[j]
      /\ Dropped(i) /\ outdated' = outdated \ {i}
  BY <1>2, <1>3 DEF ProxyRemoved, IInv, TypeOK
<1> QED BY <1>1, <1>2, <1>4, <1>5, RowGoneMirrored

\* A row goes with its global, and what is left of its proxy goes unheard.
LEMMA GlobalRemovedMirrored ==
  ASSUME IInv, TypeOK', MirrorInv, GlobalRemoved
  PROVE  MirrorInv'
<1>1. inbox # <<>> /\ Head(inbox).type = "gone" /\ Head(inbox).id # Metadata /\ UNCHANGED <<serverVars, slot, cache>>
  BY DEF GlobalRemoved, Takes
<1>2. PICK m \in Message : m = Head(inbox)
  BY <1>1, HeadMet
<1>3. PICK x \in Node \cup Client \cup Device : x = m.id
  BY <1>1, <1>2, MessageFields DEF Ids
<1>4. m = Gone(x)
  BY <1>1, <1>2, <1>3 DEF Message, Gone
<1>5. /\ \A j \in Node : bound'[j] = IF j = x THEN Absent ELSE bound[j]
      /\ \A d \in Device : devices'[d] = IF d = x THEN Absent ELSE devices[d]
      /\ Dropped(x) /\ outdated' = outdated \ {x}
  BY <1>2, <1>3 DEF GlobalRemoved
<1>6. CASE x \in Node
  <2>1. \A d \in Device : devices'[d] = devices[d]
    BY <1>5, <1>6, IdAssumption
  <2> QED BY <1>1, <1>2, <1>4, <1>5, <1>6, <2>1, RowGoneMirrored
<1>7. CASE x \in Client \cup Device
  <2>1. \A j \in Node : bound'[j] = bound[j] /\ (j \in outdated => j \in outdated')
    BY <1>5, <1>7, IdAssumption
  <2> QED BY <1>1, <1>2, <1>4, <1>5, <1>7, <2>1, ObjectGoneMirrored
<1> QED BY <1>6, <1>7

\* What Reform does to the rows of one device, and to the rows alone.
LEMMA ReformSettles ==
  ASSUME NEW rows, \A j \in Node : rows[j] \in Bound \cup {Absent}, NEW cards_, NEW d \in Device,
         cards_[d] # Absent, NEW j \in Node
  PROVE  /\ Reform(rows, cards_, d)[j] = Absent <=> rows[j] = Absent
         /\ rows[j] # Absent =>
              /\ Reform(rows, cards_, d)[j].device = rows[j].device
              /\ Reform(rows, cards_, d)[j].stream.kind = rows[j].stream.kind
              /\ Reform(rows, cards_, d)[j].stream.name = rows[j].stream.name
              /\ Reform(rows, cards_, d)[j].stream.label = rows[j].stream.label
              /\ Reform(rows, cards_, d)[j].stream.level = rows[j].stream.level
              /\ Reform(rows, cards_, d)[j].stream.target = rows[j].stream.target
         /\ rows[j] # Absent /\ rows[j].device # d => Reform(rows, cards_, d)[j] = rows[j]
         /\ rows[j] # Absent /\ rows[j].stream.kind \in Direction /\ rows[j].device = d
              => Reform(rows, cards_, d)[j].stream.form = Resolved(cards_[d])
<1>1. PICK r : r = Reform(rows, cards_, d)[j]
  OBVIOUS
<1>2. CASE j \in Reformed(rows, cards_, d)
  <2>1. rows[j] # Absent /\ rows[j] \in Bound /\ rows[j].device = d
    BY <1>2 DEF Reformed
  <2>2. FormOf(rows[j], cards_) = Resolved(cards_[d])
    BY <2>1 DEF FormOf
  <2>3. r = [rows[j] EXCEPT !.stream.form = Resolved(cards_[d])]
    BY <1>1, <1>2, <2>2 DEF Reform
  <2>4. /\ r # Absent /\ r.device = rows[j].device /\ r.stream.kind = rows[j].stream.kind
        /\ r.stream.name = rows[j].stream.name /\ r.stream.level = rows[j].stream.level
        /\ r.stream.label = rows[j].stream.label
        /\ r.stream.target = rows[j].stream.target /\ r.stream.form = Resolved(cards_[d])
    BY <2>1, <2>3 DEF Bound, Stream, Absent
  <2> QED BY <1>1, <2>1, <2>4
<1>3. CASE j \notin Reformed(rows, cards_, d)
  <2>1. r = rows[j]
    BY <1>1, <1>3 DEF Reform
  <2>2. ASSUME rows[j] # Absent, rows[j].stream.kind \in Direction, rows[j].device = d
        PROVE  rows[j].stream.form = Resolved(cards_[d])
    BY <1>3, <2>2 DEF Reformed, FormOf
  <2> QED BY <1>1, <2>1, <2>2
<1> QED BY <1>2, <1>3

\* A device bound is silent about forms until its answer has come.
LEMMA BindDeviceMirrored ==
  ASSUME IInv, TypeOK', MirrorInv, BindDevice
  PROVE  MirrorInv'
<1>0. TypeOK /\ inbox \in Seq(Message) /\ inbox' \in Seq(Message)
  BY DEF IInv, TypeOK
<1>1. inbox # <<>> /\ Head(inbox).type = "device" /\ UNCHANGED <<serverVars, bound, outdated, slot, cache>>
  BY DEF BindDevice, Takes
<1>2. PICK m \in Message : m = Head(inbox)
  BY <1>1, HeadMet
<1>3. PICK d \in Device : d = m.id
  BY <1>1, <1>2, MessageFields
<1>4. m.type = "device" /\ m.id = d
  BY <1>1, <1>2, <1>3
<1>5. devices' = [devices EXCEPT ![d] = [dict |-> EmptyDict, port |-> None]] /\ Answered(DeviceReplies(d))
  BY <1>2, <1>3 DEF BindDevice
<1>6. \A e \in Device : e # d => devices'[e] = devices[e]
  BY <1>0, <1>5 DEF TypeOK
<1>7. PICK t \in Seq(Message) : t = DeviceReplies(d)
  BY DeviceAnswered
<1>8. PICK a, b : a = DeviceInfo(d, cards[d].dict) /\ b = Route(d, cards[d].port)
  OBVIOUS
<1>9. a.type = "device info" /\ a.id = d /\ b.type = "route" /\ b.id = d
  BY <1>8 DEF DeviceInfo, Route
<1>10. (cards[d] = Absent => t = <<>>) /\ (cards[d] # Absent => t = <<a, b>>)
  BY <1>7, <1>8 DEF DeviceReplies
<1>11. \A q \in DOMAIN t : t[q] = a \/ t[q] = b
  <2>1. CASE t = <<>>
    BY <2>1
  <2>2. CASE t = <<a, b>>
    BY <2>2
  <2> QED BY <2>1, <2>2, <1>10
<1>12. inbox' = Tail(inbox) \o t /\ Tail(inbox) \in Seq(Message) /\ Answered(t)
  BY <1>0, <1>1, <1>5, <1>7 DEF Answered
<1>13. ASSUME NEW M, \A n \in M : n.type \in {"device info", "route"} => n.id # d PROVE Free(t, M)
  BY <1>9, <1>11, <1>13 DEF Free
<1>14. ASSUME NEW M, m \notin M, \A n \in M : n.type \in {"device info", "route"} => n.id # d
       PROVE  Keeps(inbox, inbox', M)
  BY <1>0, <1>1, <1>2, <1>12, <1>13, <1>14, AnsweredKeeps
<1>15. ASSUME NEW j \in Node PROVE RowKeeps(j) /\ TargetKeeps(j) /\ FormKeeps(j)
  BY <1>1 DEF RowKeeps, RowStays, LevelStays, TargetKeeps, FormKeeps
<1>16. /\ \A j \in Node : d # j
       /\ d # Metadata
  BY IdAssumption
<1>17. ASSUME NEW j \in Node PROVE Keeps(inbox, inbox', NodeMsgs(j)) /\ Keeps(inbox, inbox', PinMsgs(j))
  <2>1. ASSUME NEW n \in NodeMsgs(j) PROVE n.type \notin {"device", "device info", "route"}
    <3>1. n \in Message
      BY <2>1, AllMessages
    <3> QED BY <2>1, <3>1, Elsewhere
  <2>2. ASSUME NEW n \in PinMsgs(j) PROVE n.type \notin {"device", "device info", "route"}
    <3>1. n \in Message
      BY <2>2, AllMessages
    <3> QED BY <2>2, <3>1, Elsewhere
  <2>3. m \notin NodeMsgs(j) /\ m \notin PinMsgs(j)
    BY <1>4, <2>1, <2>2
  <2> QED BY <1>14, <2>1, <2>2, <2>3
<1>18. Keeps(inbox, inbox', MetaMsgs)
  <2>1. ASSUME NEW n \in MetaMsgs PROVE n.type \notin {"device", "device info", "route"}
    <3>1. n \in Message
      BY <2>1, AllMessages
    <3> QED BY <2>1, <3>1, Elsewhere
  <2>2. m \notin MetaMsgs
    BY <1>4, <2>1
  <2> QED BY <1>14, <2>1, <2>2
<1>19. ASSUME NEW e \in Device, e # d PROVE CardSettles(e)' /\ \A j \in Node : FormSettles(j, e)'
  <2>1. ASSUME NEW n \in Registry(e) PROVE n.type \in {"device", "gone"} /\ n.id = e
    <3>1. n \in Message
      BY <2>1, AllMessages
    <3> QED BY <2>1, <3>1, Elsewhere
  <2>2. Keeps(inbox, inbox', Registry(e))
    <3>1. m \notin Registry(e)
      BY <1>4, <1>19, <2>1
    <3> QED BY <1>14, <2>1, <3>1
  <2>3. ASSUME NEW j \in Node PROVE Free(inbox', FormMsgs(j, e)) => Free(inbox, FormMsgs(j, e))
    <3>1. ASSUME NEW n \in FormMsgs(j, e) PROVE n.type # "device" /\ (n.type \in {"device info", "route"} => n.id # d)
      <4>1. n \in Message
        BY <3>1, AllMessages
      <4>2. \/ n.type = "gone" /\ n.id \in {j, e}
            \/ n.type \in {"device info", "route"} /\ n.id = e
            \/ n.type = "node info" /\ n.id = j
        BY <3>1, <4>1, Elsewhere
      <4> QED BY <4>2, <1>19
    <3>2. m \notin FormMsgs(j, e)
      BY <1>4, <3>1
    <3>3. Keeps(inbox, inbox', FormMsgs(j, e))
      BY <1>14, <3>1, <3>2
    <3> QED BY <3>3, KeptFree
  <2> QED BY <1>0, <1>1, <1>6, <1>15, <1>19, <2>2, <2>3, HandlerFrame
<1>20. CardSettles(d)' /\ (cards[d] = Absent => ~Free(Tail(inbox), {Gone(d)}))
  <2> DEFINE G == {n \in Registry(d) : n \in Announced(d) => cards[d] # Absent}
  <2>1. Ends(inbox, Registry(d), G)
    BY DEF MirrorInv, CardSettles
  <2>2. Ends(Tail(inbox), Registry(d), G) /\ (m \in Registry(d) /\ Free(Tail(inbox), Registry(d)) => m \in G)
    BY <1>0, <1>1, <1>2, <2>1, ReadEnds
  <2>3. Keeps(Tail(inbox), inbox', Registry(d))
    <3>1. \A n \in Registry(d) : n.type \notin {"device info", "route"}
      BY DEF Registry
    <3>2. Free(t, Registry(d))
      BY <1>13, <3>1
    <3> QED BY <1>7, <1>12, <3>2, SaidKeeps
  <2>4. Ends(inbox', Registry(d), G)
    <3> HIDE DEF G
    <3> QED BY <1>0, <1>12, <2>2, <2>3, KeptEnds
  <2>5. G' = G
    BY <1>1 DEF serverVars
  <2>6. ASSUME cards[d] = Absent PROVE ~Free(Tail(inbox), {Gone(d)})
    <3>1. m \in Registry(d) /\ m \in Announced(d)
      BY <1>4 DEF Registry, Announced
    <3>2. m \notin G /\ G \subseteq {Gone(d)}
      BY <2>6, <3>1, RegistryWords
    <3>3. PICK k \in DOMAIN Tail(inbox) : Tail(inbox)[k] \in Registry(d)
      BY <2>2, <3>1, <3>2 DEF Free
    <3>4. \E l \in DOMAIN Tail(inbox) : Tail(inbox)[l] \in G
      BY <2>2, <3>3 DEF Ends
    <3> QED BY <3>2, <3>4 DEF Free
  <2> QED BY <2>4, <2>5, <2>6 DEF CardSettles
<1>21. ASSUME NEW j \in Node PROVE FormSettles(j, d)'
  <2>1. CASE cards[d] = Absent
    <3>1. ~Free(inbox', {Gone(d)})
      BY <2>1, <1>7, <1>12, <1>20, SaidFree
    <3>2. ~Free(inbox', FormMsgs(j, d))
      BY <3>1 DEF Free, FormMsgs
    <3> QED BY <3>2 DEF FormSettles
  <2>2. CASE cards[d] # Absent
    <3>1. a \in Message /\ 1 \in DOMAIN t /\ t[1] = a
      <4>1. 1 \in DOMAIN t /\ t[1] = a
        BY <2>2, <1>10
      <4> QED BY <4>1, SequenceItem
    <3>2. a \in FormMsgs(j, d)
      BY <1>9, <3>1 DEF FormMsgs, CardSays
    <3>3. ~Free(inbox', FormMsgs(j, d))
      BY <1>7, <1>12, <3>1, <3>2, SaidIsThere
    <3> QED BY <3>3 DEF FormSettles
  <2> QED BY <2>1, <2>2
<1> QED BY <1>0, <1>1, <1>15, <1>17, <1>18, <1>19, <1>20, <1>21, HandlerFrame DEF MirrorInv

\* A device's words settle the form of every row on it.
LEMMA DeviceSaysMirrored ==
  ASSUME IInv, TypeOK', MirrorInv, DeviceSays
  PROVE  MirrorInv'
<1>0. TypeOK /\ inbox \in Seq(Message)
  BY DEF IInv, TypeOK
<1>1. inbox # <<>> /\ Head(inbox).type \in {"device info", "route"} /\ Answered(<<>>)
      /\ UNCHANGED <<serverVars, outdated, slot, cache>>
  BY DEF DeviceSays, Takes
<1>2. PICK m \in Message : m = Head(inbox)
  BY <1>1, HeadMet
<1>3. PICK d \in Device : d = m.id
  BY <1>1, <1>2, MessageFields
<1>4. m.type \in {"device info", "route"} /\ m.id = d
  BY <1>1, <1>2, <1>3
<1>5. devices[d] # Absent
  <2>1. AddressedTo(m, d) /\ d \in Ids
    BY <1>4 DEF AddressedTo, Ids
  <2>2. d \in Held(bound, clients, devices, slot)
    BY <2>1, <1>1, <1>2, HeadMet
  <2> QED BY <2>2, IdAssumption DEF Held
<1>6. PICK c : c \in BoundDevice \cup {Absent} /\ devices'[d] = c
  BY DEF TypeOK
<1>7. c # Absent /\ \A e \in Device : e # d => devices'[e] = devices[e]
  <2>1. devices[d] \in BoundDevice
    BY <1>0, <1>5 DEF TypeOK
  <2>2. CASE devices' = [devices EXCEPT ![d].dict = m.dict]
    <3>1. c = [devices[d] EXCEPT !.dict = m.dict]
      BY <1>0, <1>6, <2>2 DEF TypeOK
    <3> QED BY <1>0, <2>1, <2>2, <3>1 DEF TypeOK, BoundDevice, Absent
  <2>3. CASE devices' = [devices EXCEPT ![d].port = m.port]
    <3>1. c = [devices[d] EXCEPT !.port = m.port]
      BY <1>0, <1>6, <2>3 DEF TypeOK
    <3> QED BY <1>0, <2>1, <2>3, <3>1 DEF TypeOK, BoundDevice, Absent
  <2>4. CASE devices' = devices
    BY <2>4, <1>5, <1>6
  <2> QED BY <1>2, <1>3, <2>2, <2>3, <2>4 DEF DeviceSays
<1>8. bound' = Reform(bound, devices', d)
  BY <1>2, <1>3 DEF DeviceSays
<1>9. PICK devs : devs = devices'
  OBVIOUS
<1>10. devs[d] # Absent /\ bound' = Reform(bound, devs, d)
  BY <1>6, <1>7, <1>8, <1>9
<1>11. \A j \in Node : bound[j] \in Bound \cup {Absent}
  BY <1>0 DEF TypeOK
<1>12. ASSUME NEW j \in Node
       PROVE  /\ RowKeeps(j) /\ TargetKeeps(j)
              /\ bound[j] # Absent /\ bound[j].device # d => FormKeeps(j)
              /\ bound'[j] # Absent /\ bound'[j].stream.kind \in Direction /\ bound'[j].device = d
                   => bound'[j].stream.form = Resolved(devs[d])
  <2>1. PICK r : r = Reform(bound, devs, d)[j]
    OBVIOUS
  <2>2. bound'[j] = r
    BY <1>10, <2>1
  <2>3. /\ r = Absent <=> bound[j] = Absent
        /\ bound[j] # Absent =>
             /\ r.device = bound[j].device /\ r.stream.kind = bound[j].stream.kind
             /\ r.stream.name = bound[j].stream.name /\ r.stream.label = bound[j].stream.label
             /\ r.stream.level = bound[j].stream.level /\ r.stream.target = bound[j].stream.target
        /\ bound[j] # Absent /\ bound[j].device # d => r = bound[j]
        /\ bound[j] # Absent /\ bound[j].stream.kind \in Direction /\ bound[j].device = d
             => r.stream.form = Resolved(devs[d])
    BY <1>10, <1>11, <2>1, ReformSettles
  <2>4. RowKeeps(j)
    BY <2>2, <2>3 DEF RowKeeps, RowStays, LevelStays
  <2>5. TargetKeeps(j)
    BY <1>1, <2>2, <2>3 DEF TargetKeeps
  <2>6. bound[j] # Absent /\ bound[j].device # d => FormKeeps(j)
    BY <2>2, <2>3 DEF FormKeeps
  <2> QED BY <2>2, <2>3, <2>4, <2>5, <2>6
<1>13. ASSUME NEW M, m \notin M PROVE Keeps(inbox, inbox', M)
  BY <1>0, <1>1, <1>2, <1>13, UnansweredKeeps
<1>14. /\ \A j \in Node : m \notin NodeMsgs(j) /\ m \notin PinMsgs(j)
       /\ m \notin MetaMsgs
       /\ \A e \in Device : m \notin Registry(e)
  BY <1>4, Elsewhere
<1>15. ASSUME NEW j \in Node, NEW e \in Device, e # d PROVE FormSettles(j, e)'
  <2>1. CASE bound[j] # Absent /\ bound[j].device = e
    <3>1. FormKeeps(j)
      BY <1>12, <1>15, <2>1
    <3>2. m \notin FormMsgs(j, e)
      BY <1>4, <1>15, Elsewhere
    <3>3. Free(inbox', FormMsgs(j, e)) => Free(inbox, FormMsgs(j, e))
      BY <3>2, <1>13, KeptFree
    <3> QED BY <1>0, <1>1, <1>7, <1>15, <3>1, <3>3, HandlerFrame
  <2>2. CASE ~(bound[j] # Absent /\ bound[j].device = e)
    <3>1. bound'[j] # Absent => bound'[j].device # e
      BY <2>2, <1>12 DEF RowKeeps, RowStays
    <3> QED BY <3>1 DEF FormSettles
  <2> QED BY <2>1, <2>2
<1>16. ASSUME NEW j \in Node PROVE FormSettles(j, d)'
  BY <1>9, <1>12 DEF FormSettles
<1> QED BY <1>0, <1>1, <1>12, <1>13, <1>14, <1>15, <1>16, HandlerFrame DEF MirrorInv

\* What a node's properties do to its row and, through its card, to others.
NamedBy(i, m, device) ==
  /\ bound'[i] # Absent /\ bound'[i].device = device
  /\ bound'[i].stream.kind = bound[i].stream.kind /\ bound'[i].stream.name = bound[i].stream.name
  /\ bound'[i].stream.level = bound[i].stream.level /\ bound'[i].stream.target = bound[i].stream.target
  /\ bound[i].stream.kind \in Direction =>
       bound'[i].stream.label = IF m.label = Unnamed THEN bound[i].stream.label ELSE m.label
  /\ device \in Device \cup {None}
  /\ device # None /\ devices[device] # Absent => \A j \in Node :
       bound'[j] # Absent /\ bound'[j].stream.kind \in Direction /\ bound'[j].device = device
         => bound'[j].stream.form = Resolved(devices[device])
  /\ \A j \in Node : j # i => /\ RowKeeps(j)
                              /\ (j \in outdated => j \in outdated') => TargetKeeps(j)
                              /\ \/ FormKeeps(j)
                                 \/ device # None /\ devices[device] # Absent /\ bound[j].device = device

\* The info listener does no more than that.
LEMMA NodeNamed ==
  ASSUME TypeOK, NodeSays, NEW m \in Message, m = Head(inbox), NEW i \in Node, i = m.id,
         m.label \in Label, m.device \in Device \cup {None}, bound[i] # Absent
  PROVE  \E device :
         /\ device = IF m.device = None THEN bound[i].device ELSE m.device
         /\ NamedBy(i, m, device)
<1>0. PICK device : device = IF m.device = None THEN bound[i].device ELSE m.device
  OBVIOUS
<1> WITNESS device
<1>1. bound[i] \in Bound /\ \A j \in Node : bound[j] \in Bound \cup {Absent}
  BY DEF TypeOK
<1>2. device \in Device \cup {None}
  BY <1>0, <1>1 DEF Bound
<1>3. PICK label : label = IF bound[i].stream.kind \in Direction /\ m.label # Unnamed
                           THEN m.label ELSE bound[i].stream.label
  OBVIOUS
<1>4. PICK named : named = [bound[i] EXCEPT !.device = device, !.stream.label = label]
  OBVIOUS
<1>5. label \in Label
  BY <1>1, <1>3 DEF Bound, Stream
<1>6. /\ named \in Bound /\ named.device = device /\ named.stream.label = label
      /\ named.stream.kind = bound[i].stream.kind /\ named.stream.name = bound[i].stream.name
      /\ named.stream.level = bound[i].stream.level /\ named.stream.target = bound[i].stream.target
  <2>1. PICK s : s = [bound[i].stream EXCEPT !.label = label]
    OBVIOUS
  <2>2. /\ s \in Stream /\ s.label = label /\ s.kind = bound[i].stream.kind /\ s.name = bound[i].stream.name
        /\ s.level = bound[i].stream.level /\ s.target = bound[i].stream.target
    BY <1>1, <1>5, <2>1 DEF Bound, Stream
  <2>3. named = [bound[i] EXCEPT !.device = device, !.stream = s]
    BY <1>1, <1>4, <2>1 DEF Bound
  <2>4. named \in Bound /\ named.device = device /\ named.stream = s
    BY <1>1, <1>2, <2>2, <2>3 DEF Bound
  <2> QED BY <2>2, <2>4
<1>7. PICK rows : rows = [bound EXCEPT ![i] = named]
  OBVIOUS
<1>8. rows[i] = named /\ \A j \in Node : j # i => rows[j] = bound[j]
  BY <1>7 DEF TypeOK
<1>9. \A j \in Node : rows[j] \in Bound \cup {Absent}
  BY <1>1, <1>6, <1>8
<1>10. bound' = IF device = None THEN rows ELSE Reform(rows, devices, device)
  BY <1>0, <1>3, <1>4, <1>7 DEF NodeSays
<1>11. Absent \notin Bound
  BY AbsentIsApart
<1>12. CASE device = None \/ devices[device] = Absent
  <2>1. ASSUME NEW j \in Node PROVE bound'[j] = rows[j]
    <3>1. CASE device = None
      BY <3>1, <1>10
    <3>2. CASE device # None /\ devices[device] = Absent
      <4>1. j \notin Reformed(rows, devices, device)
        BY <3>2 DEF Reformed, FormOf
      <4> QED BY <3>2, <4>1, <1>10 DEF Reform
    <3> QED BY <1>12, <3>1, <3>2
  <2>2. ASSUME NEW j \in Node, j # i
        PROVE  RowKeeps(j) /\ FormKeeps(j) /\ ((j \in outdated => j \in outdated') => TargetKeeps(j))
    <3>1. bound'[j] = bound[j]
      BY <2>1, <2>2, <1>8
    <3> QED BY <3>1 DEF RowKeeps, RowStays, LevelStays, TargetKeeps, FormKeeps
  <2>3. bound'[i] = named
    BY <2>1, <1>8
  <2> QED BY <1>0, <1>2, <1>3, <1>6, <1>11, <1>12, <2>2, <2>3 DEF NamedBy
<1>13. CASE device # None /\ devices[device] # Absent
  <2>0. device \in Device
    BY <1>2, <1>13
  <2>1. ASSUME NEW j \in Node
        PROVE  /\ bound'[j] = Absent <=> rows[j] = Absent
               /\ rows[j] # Absent =>
                    /\ bound'[j].device = rows[j].device /\ bound'[j].stream.kind = rows[j].stream.kind
                    /\ bound'[j].stream.name = rows[j].stream.name /\ bound'[j].stream.label = rows[j].stream.label
                    /\ bound'[j].stream.level = rows[j].stream.level /\ bound'[j].stream.target = rows[j].stream.target
               /\ rows[j] # Absent /\ rows[j].device # device => bound'[j] = rows[j]
               /\ rows[j] # Absent /\ rows[j].stream.kind \in Direction /\ rows[j].device = device
                    => bound'[j].stream.form = Resolved(devices[device])
    <3>1. PICK r : r = Reform(rows, devices, device)[j]
      OBVIOUS
    <3>2. bound'[j] = r
      BY <3>1, <1>10, <1>13
    <3>3. /\ r = Absent <=> rows[j] = Absent
          /\ rows[j] # Absent =>
               /\ r.device = rows[j].device /\ r.stream.kind = rows[j].stream.kind
               /\ r.stream.name = rows[j].stream.name /\ r.stream.label = rows[j].stream.label
               /\ r.stream.level = rows[j].stream.level /\ r.stream.target = rows[j].stream.target
          /\ rows[j] # Absent /\ rows[j].device # device => r = rows[j]
          /\ rows[j] # Absent /\ rows[j].stream.kind \in Direction /\ rows[j].device = device
               => r.stream.form = Resolved(devices[device])
      BY <2>0, <1>9, <1>13, <3>1, ReformSettles
    <3> QED BY <3>2, <3>3
  <2>2. ASSUME NEW j \in Node, j # i
        PROVE  /\ RowKeeps(j)
               /\ (j \in outdated => j \in outdated') => TargetKeeps(j)
               /\ (bound[j] # Absent /\ bound[j].device = device) \/ FormKeeps(j)
    <3>1. rows[j] = bound[j]
      BY <2>2, <1>8
    <3>2. RowKeeps(j)
      BY <2>1, <3>1 DEF RowKeeps, RowStays, LevelStays
    <3>3. (j \in outdated => j \in outdated') => TargetKeeps(j)
      BY <2>1, <3>1 DEF TargetKeeps
    <3>4. (bound[j] # Absent /\ bound[j].device = device) \/ FormKeeps(j)
      BY <2>1, <3>1 DEF FormKeeps
    <3> QED BY <3>2, <3>3, <3>4
  <2>3. ASSUME NEW j \in Node, bound'[j] # Absent, bound'[j].stream.kind \in Direction, bound'[j].device = device
        PROVE  bound'[j].stream.form = Resolved(devices[device])
    BY <2>1, <2>3
  <2>4. /\ bound'[i] # Absent /\ bound'[i].device = named.device
        /\ bound'[i].stream.kind = named.stream.kind /\ bound'[i].stream.name = named.stream.name
        /\ bound'[i].stream.level = named.stream.level /\ bound'[i].stream.target = named.stream.target
        /\ bound'[i].stream.label = named.stream.label
    BY <2>1, <1>6, <1>8, <1>11
  <2> QED BY <1>0, <1>2, <1>3, <1>6, <1>13, <2>2, <2>3, <2>4 DEF NamedBy
<1> QED BY <1>12, <1>13

\* A node's properties give its row the node's label and card.
LEMMA NodeSaysMirrored ==
  ASSUME IInv, TypeOK', MirrorInv, NodeSays
  PROVE  MirrorInv'
<1>0. TypeOK /\ inbox \in Seq(Message) /\ inbox' \in Seq(Message)
  BY DEF IInv, TypeOK
<1>1. inbox # <<>> /\ Head(inbox).type = "node info" /\ Answered(<<>>)
      /\ UNCHANGED <<serverVars, devices, slot, cache, outdated>>
  BY DEF NodeSays, Takes, mapVars
<1>2. PICK m \in Message : m = Head(inbox)
  BY <1>1, HeadMet
<1>3. PICK i \in Node : i = m.id /\ m.type = "node info" /\ m.label \in Label /\ m.device \in Device \cup {None}
  BY <1>1, <1>2, MessageFields
<1>4. bound[i] # Absent
  <2>1. AddressedTo(m, i) /\ i \in Ids
    BY <1>3 DEF AddressedTo, Ids
  <2>2. i \in Held(bound, clients, devices, slot)
    BY <2>1, <1>1, <1>2, HeadMet
  <2> QED BY <2>2, IdAssumption DEF Held
<1>6. PICK device : device = (IF m.device = None THEN bound[i].device ELSE m.device) /\ NamedBy(i, m, device)
  BY <1>0, <1>2, <1>3, <1>4, NodeNamed
<1>5.
        /\ device = IF m.device = None THEN bound[i].device ELSE m.device
        /\ bound'[i] # Absent /\ bound'[i].device = device
        /\ bound'[i].stream.kind = bound[i].stream.kind /\ bound'[i].stream.name = bound[i].stream.name
        /\ bound'[i].stream.level = bound[i].stream.level /\ bound'[i].stream.target = bound[i].stream.target
        /\ bound[i].stream.kind \in Direction =>
             bound'[i].stream.label = IF m.label = Unnamed THEN bound[i].stream.label ELSE m.label
        /\ device \in Device \cup {None}
        /\ device # None /\ devices[device] # Absent => \A j \in Node :
             bound'[j] # Absent /\ bound'[j].stream.kind \in Direction /\ bound'[j].device = device
               => bound'[j].stream.form = Resolved(devices[device])
        /\ \A j \in Node : j # i => /\ RowKeeps(j)
                                    /\ (j \in outdated => j \in outdated') => TargetKeeps(j)
                                    /\ \/ FormKeeps(j)
                                       \/ device # None /\ devices[device] # Absent /\ bound[j].device = device
  BY <1>6 DEF NamedBy
<1>8. ASSUME NEW j \in Node, j # i
      PROVE  /\ RowKeeps(j) /\ TargetKeeps(j)
             /\ FormKeeps(j) \/ (device # None /\ devices[device] # Absent /\ bound[j].device = device)
  <2>1. outdated' = outdated
    BY <1>1
  <2> QED BY <2>1, <1>5, <1>8
<1>9. /\ \A j \in Node : j # i => m \notin NodeMsgs(j)
      /\ \A j \in Node : m \notin PinMsgs(j)
      /\ m \notin MetaMsgs
      /\ \A d \in Device : m \notin Registry(d)
      /\ \A j \in Node, d \in Device : j # i => m \notin FormMsgs(j, d)
  BY <1>3, Elsewhere
<1>10. ASSUME NEW M, m \notin M PROVE Keeps(inbox, inbox', M)
  BY <1>0, <1>1, <1>2, <1>10, UnansweredKeeps
<1>11. m \notin Registry(i) /\ m \notin Levels(i) /\ m \notin {Gone(i)} /\ m \notin {Removed(i)} /\ m \in Infos(i)
  <2>1. m \notin Registry(i) /\ m \notin Levels(i) /\ m \in Infos(i)
    BY <1>3 DEF Registry, Infos, Levels
  <2>2. Gone(i).type = "gone" /\ Removed(i).type = "removed"
    BY DEF Gone, Removed
  <2> QED BY <1>3, <2>1, <2>2
<1>12. UNCHANGED <<nodes, meta, defaults, pins, cards>>
  BY <1>1 DEF serverVars
<1>13. ASSUME Free(inbox', Registry(i)), nodes[i] # Absent
       PROVE  /\ Free(inbox', Infos(i) \ {NodeInfo(i)})
              /\ m.device = nodes[i].object.device /\ m.label = nodes[i].object.label
              /\ bound'[i].device = nodes[i].object.device
              /\ bound'[i].stream.kind \in Direction => bound'[i].stream.label = nodes[i].object.label
              /\ nodes[i].object.kind \in Heard
              /\ bound[i].stream.kind = nodes[i].object.kind /\ bound[i].stream.name = nodes[i].object.name
  <2>0. Free(inbox, Registry(i))
    BY <1>10, <1>11, <1>13, KeptFree
  <2>1. NodeInv(i)
    BY DEF MirrorInv
  <2>2. Free(inbox, Infos(i) \ {NodeInfo(i)})
    BY <1>4, <1>13, <2>0, <2>1 DEF NodeInv, InfoSettles
  <2>3. inbox' = Tail(inbox)
    BY <1>0, <1>1, ReadInbox
  <2>4. m \notin Infos(i) \ {NodeInfo(i)} /\ Free(inbox', Infos(i) \ {NodeInfo(i)})
    BY <1>0, <1>1, <1>2, <2>2, <2>3, ReadFree
  <2>5. m.device = nodes[i].object.device /\ m.label = nodes[i].object.label
    <3>1. m = NodeInfo(i)
      BY <1>11, <2>4
    <3> QED BY <3>1 DEF NodeInfo
  <2>6. RowIs(i)
    BY <2>0, <2>1 DEF NodeInv, NodeSettles
  <2>7. /\ nodes[i].object.kind \in Heard
        /\ bound[i].stream.kind = nodes[i].object.kind /\ bound[i].stream.name = nodes[i].object.name
        /\ bound[i].device \in {nodes[i].object.device, None}
        /\ nodes[i].object.kind \in Direction => bound[i].stream.label \in FirstLabels(nodes[i].object)
    BY <1>4, <1>13, <2>6 DEF RowIs
  <2>8. bound'[i].device = nodes[i].object.device
    BY <1>5, <2>5, <2>7
  <2>9. bound'[i].stream.kind \in Direction => bound'[i].stream.label = nodes[i].object.label
    BY <1>5, <2>5, <2>7 DEF FirstLabels
  <2> QED BY <2>4, <2>5, <2>7, <2>8, <2>9
<1>14. NodeInv(i)'
  <2>0. NodeInv(i) /\ SameNode(i)
    BY <1>12 DEF MirrorInv, SameNode
  <2>1. Alternates(i)'
    BY <1>0, <1>4, <1>10, <1>11, <2>0, AlternatesKept DEF NodeInv
  <2>2. RemovedAndGone(i)'
    <3>1. Free(inbox, {Gone(i)}) <=> Free(inbox', {Gone(i)})
      BY <1>10, <1>11, KeptFree
    <3>2. Free(inbox, {Removed(i)}) <=> Free(inbox', {Removed(i)})
      BY <1>10, <1>11, KeptFree
    <3> QED BY <3>1, <3>2, <2>0, RemovedKept DEF NodeInv
  <2>3. NodeSettles(i)'
    <3>1. Ends(inbox, Registry(i), Current(i))
      BY <2>0 DEF NodeInv, NodeSettles
    <3>2. Keeps(inbox, inbox', Registry(i))
      BY <1>10, <1>11
    <3>3. PICK G : G = Current(i)
      OBVIOUS
    <3>4. Ends(inbox', Registry(i), G)
      BY <1>0, <3>1, <3>2, <3>3, KeptEnds
    <3>5. Current(i)' = G
      BY <3>3, <1>12 DEF Current
    <3>6. ASSUME Free(inbox', Registry(i)) PROVE RowIs(i)'
      <4>1. CASE nodes[i] = Absent
        <5>1. Free(inbox, Registry(i))
          BY <1>10, <1>11, <3>6, KeptFree
        <5>2. bound[i] = Absent
          BY <4>1, <5>1, <2>0 DEF NodeInv, NodeSettles, RowIs
        <5> QED BY <5>2, <1>4
      <4>2. CASE nodes[i] # Absent
        <5>1. bound'[i].stream.kind \in Direction => bound'[i].stream.label \in FirstLabels(nodes[i].object)
          BY <4>2, <1>13, <3>6 DEF FirstLabels
        <5> QED BY <4>2, <5>1, <1>5, <1>12, <1>13, <3>6 DEF RowIs
      <4> QED BY <4>1, <4>2
    <3> QED BY <3>4, <3>5, <3>6 DEF NodeSettles
  <2>4. InfoSettles(i)'
    <3>1. ASSUME Free(inbox', Registry(i)), nodes[i] # Absent
          PROVE  /\ Free(inbox', Infos(i) \ {NodeInfo(i)})
                 /\ bound'[i].device = nodes[i].object.device
                 /\ bound'[i].stream.kind \in Direction => bound'[i].stream.label = nodes[i].object.label
      BY <3>1, <1>13
    <3>2. NodeInfo(i)' = NodeInfo(i)
      BY <1>12 DEF NodeInfo
    <3> QED BY <3>1, <3>2, <1>12 DEF InfoSettles
  <2>5. LevelSettles(i)'
    <3>1. Keeps(inbox, inbox', Registry(i) \cup Levels(i))
      BY <1>10, <1>11
    <3>2. LevelStays(i) /\ nodes'[i] = nodes[i]
      BY <1>4, <1>5, <1>12 DEF LevelStays
    <3> QED BY <1>0, <2>0, <3>1, <3>2, LevelKept DEF NodeInv
  <2> QED BY <2>1, <2>2, <2>3, <2>4, <2>5 DEF NodeInv
<1>15. TargetKeeps(i)
  BY <1>1, <1>4, <1>5 DEF TargetKeeps
<1>16. \A j \in Node : PinInv(j)'
  <2>1. \A j \in Node : TargetKeeps(j) /\ Keeps(inbox, inbox', PinMsgs(j))
    BY <1>8, <1>9, <1>10, <1>15
  <2> QED BY <1>0, <1>1, <2>1, HandlerFrame
<1>17. \A j \in Node : NodeInv(j)'
  <2>1. \A j \in Node : j # i => RowKeeps(j) /\ Keeps(inbox, inbox', NodeMsgs(j))
    BY <1>8, <1>9, <1>10
  <2> QED BY <1>0, <1>1, <1>14, <2>1, HandlerFrame
<1>18. ASSUME NEW j \in Node, NEW d \in Device PROVE FormSettles(j, d)'
  <2>1. CASE j = i \/ ~FormKeeps(j)
    <3>1. d # None
      BY NoneAssumption
    <3>2. ASSUME devices'[d] # Absent, bound'[j] # Absent, bound'[j].stream.kind \in Direction, bound'[j].device = d
          PROVE  bound'[j].stream.form = Resolved(devices'[d])
      <4>1. d = device /\ devices' = devices
        <5>1. CASE j = i
          BY <1>1, <1>5, <3>2, <5>1
        <5>2. CASE j # i
          <6>1. bound[j].device = device
            BY <1>8, <2>1, <5>2
          <6>2. bound'[j].device = bound[j].device
            BY <1>8, <3>2, <5>2 DEF RowKeeps, RowStays
          <6> QED BY <1>1, <3>2, <6>1, <6>2
        <5> QED BY <5>1, <5>2
      <4> QED BY <3>1, <3>2, <4>1, <1>5
    <3> QED BY <3>2 DEF FormSettles
  <2>2. CASE j # i /\ FormKeeps(j)
    <3>1. Free(inbox', FormMsgs(j, d)) => Free(inbox, FormMsgs(j, d))
      BY <1>9, <1>10, <2>2, KeptFree
    <3>2. devices'[d] = devices[d]
      BY <1>1
    <3> QED BY <1>0, <1>1, <2>2, <3>1, <3>2, HandlerFrame
  <2> QED BY <2>1, <2>2
<1>19. MetaInv' /\ \A d \in Device : CardSettles(d)'
  <2>1. Keeps(inbox, inbox', MetaMsgs) /\ \A d \in Device : Keeps(inbox, inbox', Registry(d))
    BY <1>9, <1>10
  <2> QED BY <1>0, <1>1, <2>1, HandlerFrame
<1> QED BY <1>16, <1>17, <1>18, <1>19 DEF MirrorInv

\* A node that is gone is announced to be gone after it is announced.
LEMMA EndIsComing ==
  ASSUME IInv, MirrorInv, inbox # <<>>, NEW i \in Node, Head(inbox) \in Announced(i), nodes[i] = Absent
  PROVE  ~Free(Tail(inbox), {Gone(i)})
<1>0. inbox \in Seq(Message) /\ Tail(inbox) \in Seq(Message)
  BY DEF IInv, TypeOK
<1>1. Ends(inbox, Registry(i), Current(i))
  BY DEF MirrorInv, NodeInv, NodeSettles
<1>2. /\ Ends(Tail(inbox), Registry(i), Current(i))
      /\ Head(inbox) \in Registry(i) /\ Free(Tail(inbox), Registry(i)) => Head(inbox) \in Current(i)
  BY <1>0, <1>1, ReadEnds
<1>3. Current(i) \subseteq {Gone(i)}
  BY DEF Current
<1>4. Head(inbox) \in Registry(i) /\ Head(inbox) \notin Current(i)
  BY <1>3, RegistryWords
<1>5. PICK k \in DOMAIN Tail(inbox) : Tail(inbox)[k] \in Registry(i)
  BY <1>2, <1>4 DEF Free
<1>6. \E l \in DOMAIN Tail(inbox) : Tail(inbox)[l] \in Current(i)
  BY <1>2, <1>5 DEF Ends
<1> QED BY <1>3, <1>6 DEF Free

\* The row a global is bound with.
LEMMA RowIsNew ==
  ASSUME TypeOK, NEW o \in Properties, o.kind \in Heard
  PROVE  /\ Row(o) # Absent /\ Row(o).device = o.device
         /\ Row(o).stream.kind = o.kind /\ Row(o).stream.name = o.name
         /\ Row(o).stream.target = None
         /\ o.kind \in Direction => Row(o).stream.label = o.label
<1>1. Row(o) # Absent
  BY DEF Row, Absent
<1>2. o.kind \in Direction => LabelOf(o) = o.label
  BY DEF LabelOf, Direction
<1> QED BY <1>1, <1>2 DEF Row

\* What a bind is answered with is about the node alone.
LEMMA NodeAnswer ==
  ASSUME IInv, NEW i \in Node
  PROVE  /\ NodeReplies(i) \in Seq(Message)
         /\ \A q \in DOMAIN NodeReplies(i) :
              NodeReplies(i)[q].type \in {"removed", "node info", "props"} /\ NodeReplies(i)[q].id = i
         /\ nodes[i] # Absent =>
              /\ NodeReplies(i) = <<NodeInfo(i), Props(i, nodes[i].level)>>
              /\ 1 \in DOMAIN NodeReplies(i) /\ 2 \in DOMAIN NodeReplies(i)
              /\ NodeReplies(i)[1] = NodeInfo(i) /\ NodeReplies(i)[2] = Props(i, nodes[i].level)
              /\ \A q \in DOMAIN NodeReplies(i) : q = 1 \/ q = 2
<1>1. NodeReplies(i) \in Seq(Message)
  BY NodeAnswered
<1>2. PICK a, b, c : a = NodeInfo(i) /\ b = Props(i, nodes[i].level) /\ c = Removed(i)
  OBVIOUS
<1>3. /\ a.type = "node info" /\ a.id = i /\ b.type = "props" /\ b.id = i
      /\ c.type = "removed" /\ c.id = i
  BY <1>2 DEF NodeInfo, Props, Removed
<1>4. PICK u : u = NodeReplies(i)
  OBVIOUS
<1>5. CASE nodes[i] = Absent
  <2>1. u = <<c>>
    BY <1>2, <1>4, <1>5 DEF NodeReplies
  <2>2. \A q \in DOMAIN u : u[q] = c
    BY <2>1
  <2>3. \A q \in DOMAIN u : u[q].type \in {"removed", "node info", "props"} /\ u[q].id = i
    BY <2>2, <1>3
  <2> QED BY <1>1, <1>4, <1>5, <2>3
<1>6. CASE nodes[i] # Absent
  <2>1. u = <<a, b>>
    BY <1>2, <1>4, <1>6 DEF NodeReplies
  <2>2. 1 \in DOMAIN u /\ 2 \in DOMAIN u /\ u[1] = a /\ u[2] = b /\ \A q \in DOMAIN u : q = 1 \/ q = 2
    BY <2>1
  <2>3. \A q \in DOMAIN u : u[q].type \in {"removed", "node info", "props"} /\ u[q].id = i
    BY <2>2, <1>3
  <2>4. NodeReplies(i) = <<NodeInfo(i), Props(i, nodes[i].level)>>
    BY <1>2, <1>4, <2>1
  <2> QED BY <1>1, <1>2, <1>4, <2>2, <2>3, <2>4
<1> QED BY <1>5, <1>6

\* A node bound gets the row of the node announced last, and its answer the rest.
LEMMA BindNodeMirrored ==
  ASSUME IInv, TypeOK', MirrorInv, BindNode
  PROVE  MirrorInv'
<1>0. TypeOK /\ inbox \in Seq(Message) /\ inbox' \in Seq(Message)
  BY DEF IInv, TypeOK
<1>1. inbox # <<>> /\ Head(inbox).type = "node" /\ UNCHANGED <<serverVars, devices, slot, cache, outdated>>
  BY DEF BindNode, Takes, mapVars
<1>2. PICK m \in Message : m = Head(inbox)
  BY <1>1, HeadMet
<1>3. PICK i \in Node : i = m.id /\ m.type = "node" /\ m.object \in Properties
  BY <1>1, <1>2, MessageFields
<1>4. PICK o \in Properties : o = m.object
  BY <1>3
<1>5. /\ o.kind \in Heard => bound' = [bound EXCEPT ![i] = Row(o)] /\ Answered(NodeReplies(i))
      /\ o.kind \notin Heard => bound' = bound /\ Answered(<<>>)
  BY <1>2, <1>3, <1>4 DEF BindNode
<1>6. PICK t \in Seq(Message) : t = IF o.kind \in Heard THEN NodeReplies(i) ELSE <<>>
  <2>1. NodeReplies(i) \in Seq(Message) /\ <<>> \in Seq(Message)
    BY <1>0, NodeAnswer, SaysNothing
  <2> QED BY <2>1
<1>7. inbox' = Tail(inbox) \o t /\ Tail(inbox) \in Seq(Message) /\ Answered(t)
  <2>1. Answered(t)
    <3>1. CASE o.kind \in Heard
      BY <3>1, <1>5, <1>6
    <3>2. CASE o.kind \notin Heard
      BY <3>2, <1>5, <1>6
    <3> QED BY <3>1, <3>2
  <2> QED BY <2>1, <1>0, <1>1 DEF Answered
<1>8. \A q \in DOMAIN t : t[q].type \in {"removed", "node info", "props"} /\ t[q].id = i
  <2>1. CASE o.kind \in Heard
    <3>1. t = NodeReplies(i)
      BY <2>1, <1>6
    <3> QED BY <3>1, NodeAnswer
  <2>2. CASE o.kind \notin Heard
    <3>1. t = <<>>
      BY <2>2, <1>6
    <3>2. DOMAIN t = {}
      BY <3>1
    <3> QED BY <3>2
  <2> QED BY <2>1, <2>2
<1>9. m \in Announced(i) /\ m \in Registry(i)
  BY <1>3 DEF Announced, Registry
<1>10. bound[i] = Absent /\ Alternate(Tail(inbox), FALSE, Announced(i), {Gone(i)})
  <2>1. Alternate(inbox, bound[i] = Absent, Announced(i), {Gone(i)})
    BY DEF MirrorInv, NodeInv, Alternates
  <2> QED BY <1>0, <1>1, <1>2, <1>9, <2>1, RegistryWords, ReadAlternate
<1>11. /\ \A j \in Node : j # i => bound'[j] = bound[j]
       /\ o.kind \in Heard => bound'[i] = Row(o)
       /\ o.kind \notin Heard => bound'[i] = Absent
  BY <1>0, <1>5, <1>10 DEF TypeOK
<1>12. UNCHANGED <<nodes, meta, defaults, pins, cards>>
  BY <1>1 DEF serverVars
<1>13. ASSUME NEW M, \A n \in M : n.type \in {"removed", "node info", "props"} => n.id # i PROVE Free(t, M)
  BY <1>8, <1>13 DEF Free
<1>14. ASSUME NEW M, m \notin M, \A n \in M : n.type \in {"removed", "node info", "props"} => n.id # i
       PROVE  Keeps(inbox, inbox', M)
  BY <1>0, <1>1, <1>2, <1>7, <1>13, <1>14, AnsweredKeeps
<1>15. i # Metadata /\ \A d \in Device : i # d
  BY IdAssumption
<1>16. ASSUME NEW j \in Node, j # i
       PROVE  RowKeeps(j) /\ TargetKeeps(j) /\ FormKeeps(j)
              /\ Keeps(inbox, inbox', NodeMsgs(j)) /\ Keeps(inbox, inbox', PinMsgs(j))
  <2>1. RowKeeps(j) /\ TargetKeeps(j) /\ FormKeeps(j)
    <3>1. bound'[j] = bound[j]
      BY <1>11, <1>16
    <3> QED BY <1>1, <3>1 DEF RowKeeps, RowStays, LevelStays, TargetKeeps, FormKeeps
  <2>2. ASSUME NEW n \in NodeMsgs(j) PROVE n.id # i
    <3>1. n \in Message
      BY <2>2, AllMessages
    <3> QED BY <2>2, <3>1, <1>16, Elsewhere
  <2>3. ASSUME NEW n \in PinMsgs(j)
        PROVE  n.type \in {"metadata", "node", "gone", "targets"} /\ (n.type = "node" => n.id # i)
    <3>1. n \in Message
      BY <2>3, AllMessages
    <3> QED BY <2>3, <3>1, <1>15, <1>16, Elsewhere
  <2>4. m \notin NodeMsgs(j) /\ m \notin PinMsgs(j)
    BY <1>3, <2>2, <2>3
  <2> QED BY <1>14, <2>1, <2>2, <2>3, <2>4
<1>17. Keeps(inbox, inbox', MetaMsgs)
  <2>1. ASSUME NEW n \in MetaMsgs PROVE n.type \in {"metadata", "gone", "defaults"}
    <3>1. n \in Message
      BY <2>1, AllMessages
    <3> QED BY <2>1, <3>1, Elsewhere
  <2>2. m \notin MetaMsgs
    BY <1>3, <2>1
  <2> QED BY <1>14, <2>1, <2>2
<1>18. ASSUME NEW d \in Device PROVE Keeps(inbox, inbox', Registry(d))
  <2>1. ASSUME NEW n \in Registry(d) PROVE n.type \in {"device", "gone"}
    <3>1. n \in Message
      BY <2>1, AllMessages
    <3> QED BY <2>1, <3>1, Elsewhere
  <2>2. m \notin Registry(d)
    BY <1>3, <2>1
  <2> QED BY <1>14, <2>1, <2>2
<1>19. ASSUME NEW j \in Node, NEW d \in Device, j # i PROVE Free(inbox', FormMsgs(j, d)) => Free(inbox, FormMsgs(j, d))
  <2>1. ASSUME NEW n \in FormMsgs(j, d)
        PROVE  n.type \in {"gone", "device info", "route", "node info"} /\ (n.type = "node info" => n.id # i)
    <3>1. n \in Message
      BY <2>1, AllMessages
    <3>2. \/ n.type = "gone" /\ n.id \in {j, d}
          \/ n.type \in {"device info", "route"} /\ n.id = d
          \/ n.type = "node info" /\ n.id = j
      BY <2>1, <3>1, Elsewhere
    <3> QED BY <3>2, <1>19
  <2>2. m \notin FormMsgs(j, d)
    BY <1>3, <2>1
  <2>3. Keeps(inbox, inbox', FormMsgs(j, d))
    BY <1>14, <2>1, <2>2
  <2> QED BY <2>3, KeptFree
<1>20. nodes[i] = Absent => ~Free(Tail(inbox), {Gone(i)})
  BY <1>1, <1>2, <1>9, EndIsComing
<1>21. Free(Tail(inbox), Levels(i)) /\ Free(Tail(inbox), Infos(i)) /\ Free(Tail(inbox), {Removed(i)})
  <2>1. Free(inbox, Levels(i) \cup Infos(i) \cup {Removed(i)})
    BY <1>10, Unheard
  <2>2. Free(Tail(inbox), Levels(i) \cup Infos(i) \cup {Removed(i)})
    BY <1>0, <1>1, <2>1, ReadFree
  <2> QED BY <2>2 DEF Free
<1>22. \A M : Free(inbox', M) <=> Free(Tail(inbox), M) /\ Free(t, M)
  BY <1>7, SaidFree
<1>23. ASSUME nodes[i] # Absent, o.kind \in Heard
       PROVE  /\ 1 \in DOMAIN t /\ 2 \in DOMAIN t /\ \A q \in DOMAIN t : q = 1 \/ q = 2
              /\ t[1] = NodeInfo(i) /\ t[2] = Props(i, nodes[i].level)
              /\ t[1] \in Infos(i) /\ t[2] \in Levels(i)
  <2>0. t = NodeReplies(i)
    BY <1>6, <1>23
  <2>1. /\ 1 \in DOMAIN t /\ 2 \in DOMAIN t /\ \A q \in DOMAIN t : q = 1 \/ q = 2
        /\ t[1] = NodeInfo(i) /\ t[2] = Props(i, nodes[i].level)
    BY <2>0, <1>23, NodeAnswer
  <2>2. t[1] \in Message /\ t[2] \in Message
    BY <2>1, SequenceItem
  <2>3. /\ NodeInfo(i).type = "node info" /\ NodeInfo(i).id = i
        /\ Props(i, nodes[i].level).type = "props" /\ Props(i, nodes[i].level).id = i
    BY DEF NodeInfo, Props
  <2> QED BY <2>1, <2>2, <2>3 DEF Infos, Levels
<1>24. Free(t, Registry(i)) /\ Free(t, Announced(i)) /\ Free(t, {Gone(i)})
  <2>1. /\ \A n \in Registry(i) : n.type \in {"node", "device", "gone"}
        /\ \A n \in Announced(i) : n.type \in {"node", "device"}
        /\ \A n \in {Gone(i)} : n.type = "gone"
    BY DEF Registry, Announced, Gone
  <2> QED BY <2>1, <1>13
<1>25. NodeInv(i)'
  <2>0. NodeInv(i)
    BY DEF MirrorInv
  <2>1. Alternates(i)'
    <3>1. Alternate(Tail(inbox) \o t, FALSE, Announced(i), {Gone(i)})
      BY <1>7, <1>10, <1>24, SaidNoAnnouncement
    <3>2. Alternate(inbox', FALSE, Announced(i), {Gone(i)})
      BY <3>1, <1>7
    <3>3. Alternate(inbox', bound'[i] = Absent, Announced(i), {Gone(i)})
      BY <3>2 DEF Alternate
    <3> QED BY <3>3 DEF Alternates
  <2>2. RemovedAndGone(i)'
    <3>1. ASSUME Free(inbox', {Gone(i)}) PROVE Free(t, {Removed(i)})
      <4>1. nodes[i] # Absent
        BY <3>1, <1>20, <1>22
      <4>2. CASE o.kind \in Heard
        <5>1. \A q \in DOMAIN t : t[q].type # "removed"
          BY <4>1, <4>2, <1>23 DEF Infos, Levels
        <5> QED BY <5>1 DEF Free, Removed
      <4>3. CASE o.kind \notin Heard
        BY <4>3, <1>6, NoneIsFree
      <4> QED BY <4>2, <4>3
    <3>2. Free(inbox', {Gone(i)}) => Free(inbox', {Removed(i)})
      BY <3>1, <1>21, <1>22
    <3> QED BY <3>2 DEF RemovedAndGone
  <2>3. NodeSettles(i)'
    <3>1. Ends(inbox, Registry(i), Current(i))
      BY <2>0 DEF NodeInv, NodeSettles
    <3>2. PICK G : G = Current(i)
      OBVIOUS
    <3>3. Ends(Tail(inbox), Registry(i), G) /\ (m \in Registry(i) /\ Free(Tail(inbox), Registry(i)) => m \in G)
      BY <1>0, <1>1, <1>2, <3>1, <3>2, ReadEnds
    <3>4. Keeps(Tail(inbox), inbox', Registry(i))
      BY <1>7, <1>24, SaidKeeps
    <3>5. Ends(inbox', Registry(i), G)
      BY <1>0, <1>7, <3>3, <3>4, KeptEnds
    <3>6. Current(i)' = G
      BY <3>2, <1>12 DEF Current
    <3>7. ASSUME Free(inbox', Registry(i)) PROVE RowIs(i)'
      <4>1. m \in Current(i)
        BY <3>2, <3>3, <3>7, <1>9, <1>22
      <4>2. m # Gone(i)
        BY <1>3 DEF Gone
      <4>3. /\ nodes[i] # Absent /\ o.kind = nodes[i].object.kind /\ o.name = nodes[i].object.name
            /\ o.label \in FirstLabels(nodes[i].object) /\ o.device \in {nodes[i].object.device, None}
        BY <4>1, <4>2, <1>4 DEF Current
      <4>4. CASE o.kind \in Heard
        <5>1. PICK r : r = Row(o) /\ bound'[i] = r
          BY <4>4, <1>11
        <5>2. /\ r # Absent /\ r.device = o.device /\ r.stream.kind = o.kind /\ r.stream.name = o.name
              /\ o.kind \in Direction => r.stream.label = o.label
          BY <5>1, <4>4, <1>0, RowIsNew
        <5> QED BY <4>3, <4>4, <5>1, <5>2, <1>12 DEF RowIs
      <4>5. CASE o.kind \notin Heard
        BY <4>3, <4>5, <1>11, <1>12 DEF RowIs
      <4> QED BY <4>4, <4>5
    <3> QED BY <3>5, <3>6, <3>7 DEF NodeSettles
  <2>4. InfoSettles(i)'
    <3> SUFFICES ASSUME nodes[i] # Absent, bound'[i] # Absent
                 PROVE  Free(inbox', Infos(i) \ {NodeInfo(i)}) /\ ~Free(inbox', Infos(i))
      <4>1. NodeInfo(i)' = NodeInfo(i)
        BY <1>12 DEF NodeInfo
      <4> QED BY <4>1, <1>12 DEF InfoSettles
    <3>1. o.kind \in Heard
      BY <1>11
    <3>2. Free(t, Infos(i) \ {NodeInfo(i)})
      <4>1. t[2] \notin Infos(i)
        BY <3>1, <1>23 DEF Infos, Levels
      <4>2. \A q \in DOMAIN t : t[q] \notin Infos(i) \ {NodeInfo(i)}
        BY <3>1, <4>1, <1>23
      <4> QED BY <4>2 DEF Free
    <3>3. Free(Tail(inbox), Infos(i) \ {NodeInfo(i)})
      BY <1>21 DEF Free
    <3>4. ~Free(inbox', Infos(i))
      BY <3>1, <1>7, <1>23, SaidIsThere
    <3> QED BY <3>2, <3>3, <3>4, <1>22
  <2>5. LevelSettles(i)'
    <3>0. PICK M, G : /\ M = Registry(i) \cup Levels(i)
                      /\ G = Registry(i) \cup {n \in Levels(i) : nodes[i] # Absent /\ n.level = nodes[i].level}
      OBVIOUS
    <3>1. CASE nodes[i] # Absent /\ o.kind \in Heard
      <4>1. 2 \in DOMAIN t /\ (\A q \in DOMAIN t : ~(2 < q)) /\ t[2] \in M
        BY <3>0, <3>1, <1>23
      <4>2. t[2] \in G
        BY <3>0, <3>1, <1>23 DEF Props
      <4>3. Ends(inbox', M, G)
        BY <4>1, <4>2, <1>7, SaidEnds
      <4>4. ~Free(inbox', M)
        BY <4>1, <1>7, SaidIsThere
      <4> QED BY <3>0, <4>3, <4>4, <1>12 DEF LevelSettles
    <3>2. CASE nodes[i] = Absent \/ o.kind \notin Heard
      <4>1. Free(t, Levels(i))
        <5>1. CASE o.kind \notin Heard
          BY <5>1, <1>6, NoneIsFree
        <5>2. CASE nodes[i] = Absent /\ o.kind \in Heard
          <6>1. PICK c : c = Removed(i)
            OBVIOUS
          <6>2. t = <<c>> /\ c \notin Levels(i)
            BY <5>2, <6>1, <1>6 DEF NodeReplies, Removed, Levels
          <6> QED BY <6>2, OneIsFree
        <5> QED BY <3>2, <5>1, <5>2
      <4>2. Free(inbox', Levels(i))
        BY <4>1, <1>21, <1>22
      <4>3. M \subseteq Levels(i) \cup G
        BY <3>0
      <4>4. Ends(inbox', M, G)
        BY <4>2, <4>3, EndsFree
      <4> QED BY <3>0, <3>2, <4>4, <1>11, <1>12 DEF LevelSettles
    <3> QED BY <3>1, <3>2
  <2> QED BY <2>1, <2>2, <2>3, <2>4, <2>5 DEF NodeInv
<1>26. PinInv(i)'
  <2>0. PinInv(i) /\ PinSettles(i)
    BY DEF MirrorInv, PinInv
  <2>1. bound'[i] # Absent => bound'[i].stream.target = None
    BY <1>0, <1>11, RowIsNew
  <2>2. PinSettles(i)'
    <3>0. PICK M, G : /\ M = Registry(i) \cup TargetsOf(i)
                      /\ G = {n \in Registry(i) : pins[i] = None} \cup {n \in TargetsOf(i) : n.names[i] = pins[i]}
      OBVIOUS
    <3> SUFFICES ASSUME Free(inbox', MetaRegistry), slot
                 PROVE  /\ Ends(inbox', M, G)
                        /\ Free(inbox', M) => (bound'[i] # Absent => bound'[i].stream.target = pins[i])
      BY <3>0, <1>1, <1>12 DEF PinSettles
    <3>1. Free(inbox, MetaRegistry)
      <4>1. m \notin MetaRegistry
        BY <1>3 DEF MetaRegistry, MetaAnnounced, Gone
      <4> QED BY <4>1, <1>0, <1>1, <1>2, <1>22, ReadFree
    <3>2. Ends(inbox, M, G)
      BY <3>0, <3>1, <2>0 DEF PinSettles
    <3>3. Ends(Tail(inbox), M, G) /\ (m \in M /\ Free(Tail(inbox), M) => m \in G)
      BY <1>0, <1>1, <1>2, <3>2, ReadEnds
    <3>4. Free(t, M)
      <4>1. \A n \in M : n.type \in {"node", "device", "gone", "targets"}
        BY <3>0 DEF Registry, TargetsOf
      <4> QED BY <4>1, <1>13
    <3>5. Keeps(Tail(inbox), inbox', M)
      BY <1>7, <3>4, SaidKeeps
    <3>6. Ends(inbox', M, G)
      BY <1>0, <1>7, <3>3, <3>5, KeptEnds
    <3>7. m \in G => pins[i] = None
      BY <3>0, <1>3 DEF TargetsOf
    <3>8. m \in M
      BY <3>0, <1>9
    <3> QED BY <3>3, <3>6, <3>7, <3>8, <2>1, <1>22
  <2> QED BY <2>0, <2>1, <2>2, <1>1, <1>12 DEF PinInv
<1>27. ASSUME NEW d \in Device PROVE FormSettles(i, d)'
  <2>1. CASE o.kind \notin Heard
    BY <2>1, <1>11 DEF FormSettles
  <2>2. CASE o.kind \in Heard
    <3>1. CASE nodes[i] = Absent
      <4>1. ~Free(inbox', {Gone(i)})
        BY <3>1, <1>20, <1>22
      <4>2. ~Free(inbox', FormMsgs(i, d))
        BY <4>1 DEF Free, FormMsgs
      <4> QED BY <4>2 DEF FormSettles
    <3>2. CASE nodes[i] # Absent
      <4>1. t[1] \in FormMsgs(i, d) /\ 1 \in DOMAIN t
        BY <2>2, <3>2, <1>23 DEF FormMsgs
      <4>2. ~Free(inbox', FormMsgs(i, d))
        BY <4>1, <1>7, SaidIsThere
      <4> QED BY <4>2 DEF FormSettles
    <3> QED BY <3>1, <3>2
  <2> QED BY <2>1, <2>2
<1>28. \A j \in Node : NodeInv(j)' /\ PinInv(j)'
  BY <1>0, <1>1, <1>16, <1>25, <1>26, HandlerFrame
<1>29. MetaInv' /\ \A d \in Device : CardSettles(d)'
  BY <1>0, <1>1, <1>17, <1>18, HandlerFrame
<1>30. \A j \in Node, d \in Device : FormSettles(j, d)'
  BY <1>0, <1>1, <1>16, <1>19, <1>27, HandlerFrame
<1> QED BY <1>28, <1>29, <1>30 DEF MirrorInv

\* The metadata answers its bind with the defaults and the pins there are.
LEMMA MetadataAnswer ==
  ASSUME IInv, NEW t, t = MetadataReplies
  PROVE  /\ t \in Seq(Message)
         /\ ~meta => t = <<>>
         /\ \A q \in DOMAIN t : t[q].type \in {"defaults", "targets"}
         /\ meta => /\ 1 \in DOMAIN t /\ 2 \in DOMAIN t /\ \A q \in DOMAIN t : q = 1 \/ q = 2
                    /\ t[1].type = "defaults" /\ t[2].type = "targets"
                    /\ \A k \in Direction : k \in DOMAIN t[1].names <=> defaults[k] # None
                    /\ \A k \in Direction : defaults[k] # None => t[1].names[k] = defaults[k]
                    /\ \A i \in Node : i \in DOMAIN t[2].names <=> pins[i] # None
                    /\ \A i \in Node : pins[i] # None => t[2].names[i] = pins[i]
<1>1. t \in Seq(Message)
  <2>1. Metadata \in {Metadata}
    OBVIOUS
  <2> QED BY <2>1, MetadataAnswered
<1>2. PICK a, b : /\ a = DefaultsAre([k \in Known(defaults) |-> defaults[k]])
                  /\ b = TargetsAre([i \in Known(pins) |-> pins[i]])
  OBVIOUS
<1>3. /\ a.type = "defaults" /\ \A k \in Direction : k \in DOMAIN a.names <=> defaults[k] # None
      /\ \A k \in Direction : defaults[k] # None => a.names[k] = defaults[k]
  BY <1>2 DEF DefaultsAre, Known, IInv, TypeOK
<1>4. /\ b.type = "targets" /\ \A i \in Node : i \in DOMAIN b.names <=> pins[i] # None
      /\ \A i \in Node : pins[i] # None => b.names[i] = pins[i]
  BY <1>2 DEF TargetsAre, Known, IInv, TypeOK
<1>5. CASE ~meta
  <2>1. t = <<>>
    BY <1>5 DEF MetadataReplies
  <2>2. DOMAIN t = {}
    BY <2>1
  <2> QED BY <1>1, <1>5, <2>1, <2>2
<1>6. CASE meta
  <2>1. t = <<a, b>>
    BY <1>2, <1>6 DEF MetadataReplies
  <2>2. 1 \in DOMAIN t /\ 2 \in DOMAIN t /\ t[1] = a /\ t[2] = b /\ \A q \in DOMAIN t : q = 1 \/ q = 2
    BY <2>1
  <2>3. \A q \in DOMAIN t : t[q].type \in {"defaults", "targets"}
    BY <2>2, <1>3, <1>4
  <2> QED BY <1>1, <1>3, <1>4, <1>6, <2>2, <2>3
<1> QED BY <1>5, <1>6

\* Metadata bound answers with every default and pin there is.
LEMMA BindMetadataMirrored ==
  ASSUME IInv, TypeOK', MirrorInv, BindMetadata
  PROVE  MirrorInv'
<1>0. TypeOK /\ inbox \in Seq(Message) /\ inbox' \in Seq(Message)
  BY DEF IInv, TypeOK
<1>1. inbox # <<>> /\ Head(inbox).type = "metadata" /\ UNCHANGED <<serverVars, bound, devices, cache, outdated>>
  BY DEF BindMetadata, Takes
<1>2. PICK m \in Message : m = Head(inbox)
  BY <1>1, HeadMet
<1>3. m.type = "metadata" /\ m \in MetaAnnounced
  BY <1>1, <1>2 DEF MetaAnnounced
<1>4. PICK t : t = MetadataReplies
  OBVIOUS
<1>5. slot' = TRUE /\ Answered(t)
  BY <1>4 DEF BindMetadata
<1>6. /\ t \in Seq(Message)
      /\ ~meta => t = <<>>
      /\ \A q \in DOMAIN t : t[q].type \in {"defaults", "targets"}
      /\ meta => /\ 1 \in DOMAIN t /\ 2 \in DOMAIN t /\ \A q \in DOMAIN t : q = 1 \/ q = 2
                 /\ t[1].type = "defaults" /\ t[2].type = "targets"
                 /\ \A k \in Direction : k \in DOMAIN t[1].names <=> defaults[k] # None
                 /\ \A k \in Direction : defaults[k] # None => t[1].names[k] = defaults[k]
                 /\ \A i \in Node : i \in DOMAIN t[2].names <=> pins[i] # None
                 /\ \A i \in Node : pins[i] # None => t[2].names[i] = pins[i]
  BY <1>4, MetadataAnswer
<1>7. inbox' = Tail(inbox) \o t /\ Tail(inbox) \in Seq(Message)
  BY <1>0, <1>1, <1>5 DEF Answered
<1>8. UNCHANGED <<nodes, meta, defaults, pins, cards>>
  BY <1>1 DEF serverVars
<1>9. ~slot /\ Alternate(Tail(inbox), FALSE, MetaAnnounced, {Gone(Metadata)})
  <2>1. Alternate(inbox, ~slot, MetaAnnounced, {Gone(Metadata)})
    BY DEF MirrorInv, MetaInv
  <2> QED BY <1>0, <1>1, <1>2, <1>3, <2>1, RegistryWords, ReadAlternate
<1>10. ASSUME NEW M, \A n \in M : n.type \notin {"defaults", "targets"} PROVE Free(t, M)
  BY <1>6, <1>10 DEF Free
<1>11. ASSUME NEW M, m \notin M, \A n \in M : n.type \notin {"defaults", "targets"} PROVE Keeps(inbox, inbox', M)
  BY <1>0, <1>1, <1>2, <1>5, <1>6, <1>10, <1>11, AnsweredKeeps
<1>12. \A M : Free(inbox', M) <=> Free(Tail(inbox), M) /\ Free(t, M)
  BY <1>6, <1>7, SaidFree
<1>13. /\ \A k \in Direction : Free(Tail(inbox), DefaultsOf(k))
       /\ \A i \in Node : Free(Tail(inbox), TargetsOf(i))
  <2>1. /\ \A k \in Direction : Free(inbox, DefaultsOf(k))
        /\ \A i \in Node : Free(inbox, TargetsOf(i))
    BY <1>9, Unheard
  <2> QED BY <1>0, <1>1, <2>1, ReadFree
<1>14. Free(t, MetaRegistry) /\ Free(t, MetaAnnounced)
  <2>1. \A n \in MetaRegistry : n.type \in {"metadata", "gone"}
    BY DEF MetaRegistry, MetaAnnounced, Gone
  <2> QED BY <2>1, <1>10 DEF MetaRegistry
<1>15. MetaInv
  BY DEF MirrorInv
<1>16. MetaSettles' /\ (Free(inbox', MetaRegistry) => meta)
  <2>0. PICK G : G = IF meta THEN MetaAnnounced ELSE {Gone(Metadata)}
    OBVIOUS
  <2>1. Ends(inbox, MetaRegistry, G)
    BY <2>0, <1>15 DEF MetaInv, MetaSettles
  <2>2. /\ Ends(Tail(inbox), MetaRegistry, G)
        /\ m \in MetaRegistry /\ Free(Tail(inbox), MetaRegistry) => m \in G
    BY <1>0, <1>1, <1>2, <2>1, ReadEnds
  <2>3. Keeps(Tail(inbox), inbox', MetaRegistry)
    BY <1>6, <1>7, <1>14, SaidKeeps
  <2>4. Ends(inbox', MetaRegistry, G)
    BY <1>0, <1>7, <2>2, <2>3, KeptEnds
  <2>5. m \in MetaRegistry /\ m # Gone(Metadata)
    BY <1>3 DEF MetaRegistry, Gone
  <2>6. Free(inbox', MetaRegistry) => meta
    BY <1>12, <2>0, <2>2, <2>5
  <2> QED BY <2>0, <2>4, <2>6, <1>5, <1>8 DEF MetaSettles
<1>17. ASSUME NEW k \in Direction PROVE DefaultSettles(k)'
  <2>0. PICK M, G : /\ M = MetaRegistry \cup DefaultsOf(k)
                    /\ G = MetaRegistry \cup {n \in DefaultsOf(k) : n.names[k] = defaults[k]}
    OBVIOUS
  <2>1. CASE meta /\ defaults[k] # None
    <3>1. 1 \in DOMAIN t /\ t[1] \in Message /\ t[1].type = "defaults" /\ k \in DOMAIN t[1].names
          /\ t[1].names[k] = defaults[k]
      BY <1>6, <2>1, SequenceItem
    <3>2. t[1] \in DefaultsOf(k)
      BY <3>1 DEF DefaultsOf
    <3>3. t[1] \in M \cap G
      BY <2>0, <3>1, <3>2
    <3>4. \A q \in DOMAIN t : 1 < q => t[q] \notin M \ G
      <4>1. t[2].type = "targets" /\ \A q \in DOMAIN t : q = 1 \/ q = 2
        BY <1>6, <2>1
      <4>2. \A n \in M : n.type \in {"metadata", "gone", "defaults"}
        BY <2>0 DEF MetaRegistry, MetaAnnounced, Gone, DefaultsOf
      <4>3. t[2] \notin M
        BY <4>1, <4>2
      <4> QED BY <4>1, <4>3
    <3>5. Ends(inbox', M, G)
      BY <1>6, <1>7, <3>1, <3>3, <3>4, SaidEnds
    <3>6. ~Free(inbox', M)
      BY <1>6, <1>7, <3>1, <3>3, SaidIsThere
    <3> QED BY <2>0, <3>5, <3>6, <1>8 DEF DefaultSettles
  <2>2. CASE ~(meta /\ defaults[k] # None)
    <3>1. defaults[k] = None /\ cache[k] = None
      BY <2>2, <1>9, <1>15 DEF MetaInv
    <3>2. Free(t, DefaultsOf(k))
      <4>1. CASE ~meta
        BY <4>1, <1>6, NoneIsFree
      <4>2. CASE meta
        BY <4>2, <3>1, <1>6 DEF Free, DefaultsOf
      <4> QED BY <4>1, <4>2
    <3>3. Free(inbox', DefaultsOf(k))
      BY <3>2, <1>12, <1>13
    <3>4. M \subseteq DefaultsOf(k) \cup G
      BY <2>0
    <3>5. Ends(inbox', M, G)
      BY <3>3, <3>4, EndsFree
    <3> QED BY <2>0, <3>1, <3>5, <1>1, <1>8 DEF DefaultSettles
  <2> QED BY <2>1, <2>2
<1>18. MetaInv'
  <2>1. Alternate(Tail(inbox) \o t, FALSE, MetaAnnounced, {Gone(Metadata)})
    BY <1>6, <1>7, <1>9, <1>14, SaidNoAnnouncement
  <2>2. Alternate(inbox', ~slot', MetaAnnounced, {Gone(Metadata)})
    BY <2>1, <1>5, <1>7 DEF Alternate
  <2> QED BY <2>2, <1>5, <1>8, <1>15, <1>16, <1>17 DEF MetaInv
<1>19. ASSUME NEW i \in Node PROVE PinInv(i)'
  <2>0. PICK M, G : /\ M = Registry(i) \cup TargetsOf(i)
                    /\ G = {n \in Registry(i) : pins[i] = None} \cup {n \in TargetsOf(i) : n.names[i] = pins[i]}
    OBVIOUS
  <2>1. PinInv(i)
    BY DEF MirrorInv
  <2>2. PinSettles(i)'
    <3> SUFFICES ASSUME Free(inbox', MetaRegistry)
                 PROVE  /\ Ends(inbox', M, G)
                        /\ Free(inbox', M) =>
                             (bound[i] # Absent /\ i \notin outdated => bound[i].stream.target = pins[i])
      BY <2>0, <1>1, <1>8 DEF PinSettles
    <3>1. CASE pins[i] # None
      <4>1. 2 \in DOMAIN t /\ t[2] \in Message /\ t[2].type = "targets" /\ i \in DOMAIN t[2].names
            /\ t[2].names[i] = pins[i] /\ \A q \in DOMAIN t : ~(2 < q)
        BY <1>6, <1>16, <3>1, SequenceItem
      <4>2. t[2] \in TargetsOf(i)
        BY <4>1 DEF TargetsOf
      <4>3. t[2] \in M \cap G
        BY <2>0, <4>1, <4>2
      <4>4. Ends(inbox', M, G)
        BY <1>6, <1>7, <4>1, <4>3, SaidEnds
      <4>5. ~Free(inbox', M)
        BY <1>6, <1>7, <4>1, <4>3, SaidIsThere
      <4> QED BY <4>4, <4>5
    <3>2. CASE pins[i] = None
      <4>1. Free(t, TargetsOf(i))
        <5>1. CASE ~meta
          BY <5>1, <1>6, NoneIsFree
        <5>2. CASE meta
          BY <5>2, <3>2, <1>6 DEF Free, TargetsOf
        <5> QED BY <5>1, <5>2
      <4>2. Free(inbox', TargetsOf(i))
        BY <4>1, <1>12, <1>13
      <4>3. M \subseteq TargetsOf(i) \cup G
        BY <2>0, <3>2
      <4>4. Ends(inbox', M, G)
        BY <4>2, <4>3, EndsFree
      <4>5. bound[i] # Absent /\ i \notin outdated => bound[i].stream.target = None
        BY <2>1, <1>9 DEF PinInv
      <4> QED BY <3>2, <4>4, <4>5
    <3> QED BY <3>1, <3>2
  <2> QED BY <2>1, <2>2, <1>5, <1>8 DEF PinInv
<1>20. ASSUME NEW j \in Node PROVE RowKeeps(j) /\ FormKeeps(j)
  BY <1>1 DEF RowKeeps, RowStays, LevelStays, FormKeeps
<1>21. \A j \in Node : NodeInv(j)'
  <2>1. ASSUME NEW j \in Node PROVE Keeps(inbox, inbox', NodeMsgs(j))
    <3>1. ASSUME NEW n \in NodeMsgs(j) PROVE n.type \in {"node", "gone", "node info", "props", "removed"}
      <4>1. n \in Message
        BY <3>1, AllMessages
      <4> QED BY <3>1, <4>1, Elsewhere
    <3>2. m \notin NodeMsgs(j)
      BY <1>3, <3>1
    <3> QED BY <1>11, <3>1, <3>2
  <2> QED BY <1>0, <1>1, <1>20, <2>1, HandlerFrame
<1>22. \A d \in Device : CardSettles(d)'
  <2>1. ASSUME NEW d \in Device PROVE Keeps(inbox, inbox', Registry(d))
    <3>1. ASSUME NEW n \in Registry(d) PROVE n.type \in {"device", "gone"}
      <4>1. n \in Message
        BY <3>1, AllMessages
      <4> QED BY <3>1, <4>1, Elsewhere
    <3>2. m \notin Registry(d)
      BY <1>3, <3>1
    <3> QED BY <1>11, <3>1, <3>2
  <2> QED BY <1>0, <1>1, <2>1, HandlerFrame
<1>23. \A j \in Node, d \in Device : FormSettles(j, d)'
  <2>1. ASSUME NEW j \in Node, NEW d \in Device PROVE Free(inbox', FormMsgs(j, d)) => Free(inbox, FormMsgs(j, d))
    <3>1. ASSUME NEW n \in FormMsgs(j, d) PROVE n.type \in {"gone", "device info", "route", "node info"}
      <4>1. n \in Message
        BY <3>1, AllMessages
      <4>2. \/ n.type = "gone" /\ n.id \in {j, d}
            \/ n.type \in {"device info", "route"} /\ n.id = d
            \/ n.type = "node info" /\ n.id = j
        BY <3>1, <4>1, Elsewhere
      <4> QED BY <4>2
    <3>2. m \notin FormMsgs(j, d)
      BY <1>3, <3>1
    <3>3. Keeps(inbox, inbox', FormMsgs(j, d))
      BY <1>11, <3>1, <3>2
    <3> QED BY <3>3, KeptFree
  <2>2. devices' = devices
    BY <1>1
  <2> QED BY <1>0, <1>1, <1>20, <2>1, <2>2, HandlerFrame
<1> QED BY <1>18, <1>19, <1>21, <1>22, <1>23 DEF MirrorInv

\* Whatever the worker is told, it comes to know what it should.
LEMMA HandleMirrored ==
  ASSUME IInv, IInv', MirrorInv, Handle
  PROVE  MirrorInv'
<1>1. TypeOK'
  BY DEF IInv
<1> QED BY <1>1, NothingMirrored, BindNodeMirrored, NodeSaysMirrored, PropsComeMirrored, ProxyRemovedMirrored,
           BindClientMirrored, ClientSaysMirrored, BindDeviceMirrored, DeviceSaysMirrored, BindMetadataMirrored,
           DefaultsComeMirrored, TargetsComeMirrored, MetadataRemovedMirrored, GlobalRemovedMirrored DEF Handle

-----------------------------------------------------------------------------
(* Commands.                                                               *)

\* A write that is lost changes nothing.
LEMMA LostMirrored ==
  ASSUME IInv, TypeOK', MirrorInv, ByServer, UNCHANGED <<serverVars, inbox>>
  PROVE  MirrorInv'
<1>1. TypeOK /\ inbox \in Seq(Message) /\ <<>> \in Seq(Message) /\ inbox' = inbox \o <<>>
  BY SaysNothing DEF IInv, TypeOK
<1>2. \A M : Free(<<>>, M)
  BY NoneIsFree
<1>3. UNCHANGED <<nodes, cards, meta, defaults, pins>>
  BY DEF serverVars
<1> QED BY <1>1, <1>2, <1>3, ServerFrame DEF MirrorInv

\* A new default is marked before the server answers, and the answer is on its
\* way; or the metadata is gone, and news of that is.
LEMMA SetDefaultMirrored ==
  ASSUME IInv, TypeOK', MirrorInv, NEW k \in Direction, NEW name \in Name, SetDefault(k, name)
  PROVE  MirrorInv'
<1>0. TypeOK /\ inbox \in Seq(Message) /\ inbox' \in Seq(Message)
  BY DEF IInv, TypeOK
<1>1. slot /\ UNCHANGED <<nodes, cards, meta, pins, outdated, devices, slot>>
  BY DEF SetDefault, Loses, serverVars
<1>2. PICK names : names = cache'
  OBVIOUS
<1>3. cache'[k] = name /\ \A j \in Direction : j # k => cache'[j] = cache[j]
  BY <1>0 DEF SetDefault, TypeOK
<1>4. \A j \in Node : RowKeeps(j) /\ FormKeeps(j) /\ TargetKeeps(j)
  <2>1. Refresh({k}, names)
    BY <1>2 DEF SetDefault
  <2> QED BY <1>0, <1>1, <2>1, Remarks
<1>5. PICK n : n = DefaultsAre([key \in {k} |-> name])
  OBVIOUS
<1>6. n \in Message /\ n.type = "defaults" /\ DOMAIN n.names = {k} /\ n.names[k] = name
  <2>1. n \in Message
    <3>1. [key \in {k} |-> name] \in [{k} -> Name \cup {None}] /\ {k} \in SUBSET Direction
      OBVIOUS
    <3> QED BY <1>5, <3>1, MetadataEvents
  <2>2. n.type = "defaults" /\ n.names = [key \in {k} |-> name]
    BY <1>5 DEF DefaultsAre
  <2> QED BY <2>1, <2>2
<1>7. PICK t \in {<<n>>, <<>>} :
        /\ inbox' = inbox \o t
        /\ t = <<n>> => meta /\ defaults' = [defaults EXCEPT ![k] = name]
        /\ t = <<>> => defaults' = defaults /\ (~meta \/ Pending(Metadata))
  <2>1. CASE meta /\ defaults' = [defaults EXCEPT ![k] = name] /\ Says(<<DefaultsAre([key \in {k} |-> name])>>)
    <3>1. inbox' = inbox \o <<n>> /\ <<n>> # <<>>
      BY <2>1, <1>5 DEF Says
    <3> QED BY <2>1, <3>1
  <2>2. CASE Loses(meta, Metadata)
    <3>1. inbox' = inbox \o <<>> /\ <<n>> # <<>>
      BY <2>2, <1>0, SaysNothing DEF Loses
    <3> QED BY <2>2, <3>1 DEF Loses, serverVars
  <2> QED BY <2>1, <2>2 DEF SetDefault
<1>8. t \in Seq(Message) /\ \A q \in DOMAIN t : t[q] = n
  <2>1. CASE t = <<n>>
    BY <2>1, <1>6
  <2>2. CASE t = <<>>
    BY <2>2, <1>0, SaysNothing
  <2> QED BY <2>1, <2>2
<1>9. ASSUME NEW M, n \notin M PROVE Keeps(inbox, inbox', M)
  <2>1. Free(t, M)
    BY <1>8, <1>9 DEF Free
  <2> QED BY <2>1, <1>0, <1>7, <1>8, SaidKeeps
<1>10. n \in DefaultsOf(k) /\ n \notin MetaRegistry /\ \A j \in Direction : j # k => n \notin DefaultsOf(j)
  <2>1. Gone(Metadata).type = "gone"
    BY DEF Gone
  <2> QED BY <2>1, <1>6 DEF DefaultsOf, MetaRegistry, MetaAnnounced
<1>11. MetaInv
  BY DEF MirrorInv
<1>12. Alternate(inbox', ~slot', MetaAnnounced, {Gone(Metadata)}) /\ MetaSettles'
  BY <1>0, <1>1, <1>9, <1>10, <1>11, MetaKept
<1>13. \A j \in Direction : j # k => defaults'[j] = defaults[j]
  BY <1>0, <1>7 DEF TypeOK
<1>14. DefaultSettles(k)'
  <2>0. PICK M, G : /\ M = MetaRegistry \cup DefaultsOf(k)
                    /\ G = MetaRegistry \cup {x \in DefaultsOf(k) : x.names[k] = defaults'[k]}
    OBVIOUS
  <2>1. CASE t = <<n>>
    <3>1. 1 \in DOMAIN t /\ t[1] = n /\ \A q \in DOMAIN t : ~(1 < q)
      BY <2>1
    <3>2. defaults'[k] = name
      BY <2>1, <1>0, <1>7 DEF TypeOK
    <3>3. n \in M \cap G
      BY <2>0, <3>2, <1>6, <1>10
    <3>4. Ends(inbox', M, G)
      BY <3>1, <3>3, <1>0, <1>7, <1>8, SaidEnds
    <3>5. ~Free(inbox', M)
      BY <3>1, <3>3, <1>0, <1>7, <1>8, SaidIsThere
    <3> QED BY <2>0, <3>4, <3>5 DEF DefaultSettles
  <2>2. CASE t = <<>>
    <3>1. inbox' = inbox /\ defaults' = defaults
      BY <2>2, <1>0, <1>7, SaysNothing
    <3>2. Ends(inbox', M, G)
      BY <2>0, <3>1, <1>11 DEF MetaInv, DefaultSettles
    <3>3. ASSUME Free(inbox', M) PROVE FALSE
      <4>1. Free(inbox, MetaRegistry)
        BY <2>0, <3>1, <3>3 DEF Free
      <4>2. meta
        BY <4>1, <1>1, <1>11 DEF MetaInv, MetaSettles
      <4>3. PICK q \in DOMAIN inbox : inbox[q] = Gone(Metadata)
        BY <4>2, <2>2, <1>7 DEF Pending
      <4> QED BY <4>1, <4>3 DEF Free, MetaRegistry
    <3> QED BY <2>0, <3>2, <3>3 DEF DefaultSettles
  <2> QED BY <2>1, <2>2
<1>15. ASSUME NEW j \in Direction, j # k PROVE DefaultSettles(j)'
  <2>1. Keeps(inbox, inbox', MetaRegistry \cup DefaultsOf(j))
    BY <1>9, <1>10, <1>15
  <2>2. DefaultSettles(j) /\ defaults'[j] = defaults[j] /\ cache'[j] = cache[j]
    BY <1>3, <1>11, <1>13, <1>15 DEF MetaInv
  <2> QED BY <1>0, <2>1, <2>2, DefaultKept
<1>16. MetaInv'
  <2>1. ~meta' => \A j \in Direction : defaults'[j] = None
    BY <1>1, <1>7, <1>11 DEF MetaInv
  <2> QED BY <1>1, <1>12, <1>14, <1>15, <2>1 DEF MetaInv
<1>17. /\ \A j \in Node : Keeps(inbox, inbox', NodeMsgs(j)) /\ Keeps(inbox, inbox', PinMsgs(j))
       /\ \A d \in Device : Keeps(inbox, inbox', Registry(d))
       /\ \A j \in Node, d \in Device : Keeps(inbox, inbox', FormMsgs(j, d))
  <2>1. /\ \A j \in Node : n \notin NodeMsgs(j) /\ n \notin PinMsgs(j)
        /\ \A d \in Device : n \notin Registry(d)
        /\ \A j \in Node, d \in Device : n \notin FormMsgs(j, d)
    BY <1>6, Elsewhere
  <2> QED BY <2>1, <1>9
<1>18. \A j \in Node : NodeInv(j)' /\ PinInv(j)'
  <2>1. ASSUME NEW j \in Node PROVE NodeInv(j)'
    <3>1. NodeInv(j) /\ nodes'[j] = nodes[j]
      BY <1>1 DEF MirrorInv
    <3> QED BY <1>0, <1>4, <1>17, <3>1, NodeFrame
  <2>2. ASSUME NEW j \in Node PROVE PinInv(j)'
    <3>1. /\ PinInv(j) /\ UNCHANGED <<meta, slot>>
          /\ nodes'[j] = Absent => nodes[j] = Absent
          /\ pins'[j] = pins[j]
      BY <1>1 DEF MirrorInv
    <3> QED BY <1>0, <1>4, <1>17, <3>1, PinFrame
  <2> QED BY <2>1, <2>2
<1>19. ASSUME NEW d \in Device PROVE CardSettles(d)' /\ \A j \in Node : FormSettles(j, d)'
  <2>1. CardSettles(d) /\ cards' = cards /\ devices' = devices /\ \A j \in Node : FormSettles(j, d)
    BY <1>1 DEF MirrorInv
  <2>2. CardSettles(d)'
    BY <1>0, <1>17, <2>1, CardFrame
  <2>3. ASSUME NEW j \in Node PROVE FormSettles(j, d)'
    <3>1. Free(inbox', FormMsgs(j, d)) => Free(inbox, FormMsgs(j, d))
      BY <1>17, KeptFree
    <3> QED BY <1>0, <1>4, <2>1, <3>1, FormFrame
  <2> QED BY <2>2, <2>3
<1> QED BY <1>16, <1>18, <1>19 DEF MirrorInv

\* What a command asks for is written through, or its loss is being told.
LEMMA CommandMirrored ==
  ASSUME IInv, IInv', MirrorInv, CommandStep
  PROVE  MirrorInv'
<1>1. TypeOK'
  BY DEF IInv
<1>2. ASSUME NEW i \in Node, NEW level \in Level, SetVolume(i, level) PROVE MirrorInv'
  <2>1. CASE LevelMoves(i, level)
    BY <1>1, <2>1, LevelMovesMirrored
  <2>2. CASE Loses(nodes[i] # Absent, i) /\ ByServer
    BY <1>1, <2>2, LostMirrored DEF Loses
  <2> QED BY <1>2, <2>1, <2>2 DEF SetVolume
<1>3. ASSUME NEW i \in Node, NEW name \in Name \cup {None}, SetStreamTarget(i, name) PROVE MirrorInv'
  <2>1. CASE PinMoves(i, name)
    BY <1>1, <2>1, PinMovesMirrored
  <2>2. CASE Loses(meta /\ nodes[i] # Absent, Metadata) /\ ByServer
    BY <1>1, <2>2, LostMirrored DEF Loses
  <2> QED BY <1>3, <2>1, <2>2 DEF SetStreamTarget
<1>4. ASSUME NEW k \in Direction, NEW name \in Name, SetDefault(k, name) PROVE MirrorInv'
  BY <1>1, <1>4, SetDefaultMirrored
<1> QED BY <1>2, <1>3, <1>4 DEF CommandStep

-----------------------------------------------------------------------------
(* The theorem.                                                            *)

\* At first there is nothing to mirror.
LEMMA InitMirrored == Init => MirrorInv
<1> SUFFICES ASSUME Init PROVE MirrorInv
  OBVIOUS
<1>1. DOMAIN inbox = {}
  BY DEF Init
<1>2. \A M, G : Ends(inbox, M, G) /\ Free(inbox, M)
  BY <1>1 DEF Ends, Free
<1>3. \A b, A, E : Alternate(inbox, b, A, E)
  BY <1>1 DEF Alternate
<1>4. ASSUME NEW i \in Node PROVE NodeInv(i) /\ PinInv(i)
  <2>1. nodes[i] = Absent /\ bound[i] = Absent /\ pins[i] = None
    BY DEF Init
  <2>2. NodeSettles(i) /\ InfoSettles(i) /\ LevelSettles(i)
    BY <1>2, <2>1 DEF NodeSettles, InfoSettles, LevelSettles, RowIs
  <2>3. Alternates(i) /\ RemovedAndGone(i)
    BY <1>2, <1>3 DEF Alternates, RemovedAndGone
  <2>4. PinInv(i)
    BY <1>2, <2>1 DEF PinInv, PinSettles
  <2> QED BY <2>2, <2>3, <2>4 DEF NodeInv
<1>5. MetaInv
  <2>1. slot = meta /\ \A k \in Direction : cache[k] = None /\ defaults[k] = None
    BY DEF Init
  <2> QED BY <1>2, <1>3, <2>1 DEF MetaInv, MetaSettles, DefaultSettles
<1>6. ASSUME NEW d \in Device PROVE CardSettles(d) /\ \A i \in Node : FormSettles(i, d)
  <2>1. devices[d] = Absent
    BY DEF Init
  <2> QED BY <1>2, <2>1 DEF CardSettles, FormSettles
<1> QED BY <1>4, <1>5, <1>6 DEF MirrorInv

\* With nothing more to come the rows are the server's nodes.
LEMMA SettledMirrors == IInv /\ MirrorInv => MirrorsServer
<1> SUFFICES ASSUME IInv, MirrorInv, inbox = <<>> PROVE MirrorsServer
  BY DEF MirrorsServer
<1>0. TypeOK
  BY DEF IInv
<1>1. \A M : Free(inbox, M)
  BY NoneIsFree
<1>2. slot = meta /\ \A k \in Direction : cache[k] = defaults[k]
  BY <1>1 DEF MirrorInv, MetaInv, MetaSettles, DefaultSettles
<1>3. cache = defaults
  BY <1>0, <1>2 DEF TypeOK
<1>4. ASSUME NEW i \in Node, nodes[i] = Absent \/ nodes[i].object.kind \notin Heard PROVE bound[i] = Absent
  <2>1. RowIs(i)
    BY <1>1 DEF MirrorInv, NodeInv, NodeSettles
  <2> QED BY <1>4, <2>1 DEF RowIs
<1>5. ASSUME NEW i \in Node, nodes[i] # Absent, nodes[i].object.kind \in Heard
      PROVE  LET o == nodes[i].object
                 s == bound[i].stream
             IN  /\ bound[i] # Absent
                 /\ s.kind = o.kind /\ s.name = o.name
                 /\ s.level = nodes[i].level
                 /\ bound[i].device = o.device
                 /\ o.kind = "app" /\ i \notin outdated => s.target = pins[i]
                 /\ o.kind \in Direction =>
                      /\ s.label = o.label
                      /\ o.device # None /\ devices[o.device] # Absent
                           => s.form = Resolved(devices[o.device])
  <2>1. NodeInv(i) /\ PinInv(i) /\ \A d \in Device : FormSettles(i, d)
    BY DEF MirrorInv
  <2>2. /\ bound[i] # Absent
        /\ bound[i].stream.kind = nodes[i].object.kind /\ bound[i].stream.name = nodes[i].object.name
    BY <1>1, <1>5, <2>1 DEF NodeInv, NodeSettles, RowIs
  <2>3. bound[i].stream.level = nodes[i].level
    BY <1>1, <1>5, <2>1, <2>2 DEF NodeInv, LevelSettles
  <2>4. /\ bound[i].device = nodes[i].object.device
        /\ nodes[i].object.kind \in Direction => bound[i].stream.label = nodes[i].object.label
    BY <1>1, <1>5, <2>1, <2>2 DEF NodeInv, InfoSettles
  <2>5. nodes[i].object.kind = "app" /\ i \notin outdated => bound[i].stream.target = pins[i]
    <3>1. CASE slot
      BY <3>1, <1>1, <2>1, <2>2 DEF PinInv, PinSettles
    <3>2. CASE ~slot
      BY <3>2, <1>2, <2>1, <2>2 DEF PinInv
    <3> QED BY <3>1, <3>2
  <2>6. nodes[i].object.device \in Device \cup {None}
    BY <1>0, <1>5, ObjectAssumption DEF TypeOK, Properties
  <2>7. /\ nodes[i].object.kind \in Direction
        /\ nodes[i].object.device # None /\ devices[nodes[i].object.device] # Absent
        => bound[i].stream.form = Resolved(devices[nodes[i].object.device])
    BY <1>1, <2>1, <2>2, <2>4, <2>6 DEF FormSettles
  <2> QED BY <2>2, <2>3, <2>4, <2>5, <2>7
<1> QED BY <1>2, <1>3, <1>4, <1>5 DEF MirrorsServer

\* What the inbox has still to say is enough for the rows to become the
\* server's nodes, whatever order things happen in.
THEOREM InboxTells == Spec => []MirrorInv
<1>1. MirrorInv /\ UNCHANGED vars => MirrorInv'
  <2> SUFFICES ASSUME MirrorInv, UNCHANGED vars PROVE MirrorInv'
    OBVIOUS
  <2>1. UNCHANGED <<nodes, cards, meta, defaults, pins, inbox, bound, devices, slot, cache, outdated>>
    BY DEF vars, serverVars, workerVars, mapVars
  <2>2. ASSUME NEW i \in Node PROVE NodeInv(i)' /\ PinInv(i)'
    <3>1. Alternates(i)' /\ RemovedAndGone(i)'
      BY <2>1 DEF MirrorInv, NodeInv, Alternates, RemovedAndGone
    <3>2. NodeSettles(i)'
      BY <2>1 DEF MirrorInv, NodeInv, NodeSettles, Current, RowIs
    <3>3. InfoSettles(i)'
      BY <2>1 DEF MirrorInv, NodeInv, InfoSettles, NodeInfo
    <3>4. LevelSettles(i)'
      BY <2>1 DEF MirrorInv, NodeInv, LevelSettles
    <3>5. PinInv(i)'
      BY <2>1 DEF MirrorInv, PinInv, PinSettles
    <3> QED BY <3>1, <3>2, <3>3, <3>4, <3>5 DEF NodeInv
  <2>3. MetaInv'
    BY <2>1 DEF MirrorInv, MetaInv, MetaSettles, DefaultSettles
  <2>4. ASSUME NEW d \in Device PROVE CardSettles(d)' /\ \A i \in Node : FormSettles(i, d)'
    BY <2>1 DEF MirrorInv, CardSettles, FormSettles
  <2> QED BY <2>2, <2>3, <2>4 DEF MirrorInv
<1>2. IInv /\ MirrorInv /\ [Next]_vars => MirrorInv'
  BY <1>1, NextIInv, ServerStepMirrored, HandleMirrored, CommandMirrored DEF Next
<1> QED BY <1>2, InitIInv, NextIInv, InitMirrored, PTL DEF Spec

\* Once everything the server said has been handled, the rows are the server's
\* nodes (src/pipewire_worker/): no order of globals, properties, proxies,
\* reused ids and commands leaves a row that nothing will correct.
THEOREM MirrorHolds == Spec => []MirrorsServer
BY SettledMirrors, InboxTells, Invariance, PTL

=============================================================================
