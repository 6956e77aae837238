-------------------------------- MODULE Worker --------------------------------
(***************************************************************************)
(* The PipeWire worker (src/pipewire_worker/): a mirror of the server's    *)
(* nodes, kept by listeners that one loop calls one at a time, and reported *)
(* over the bus as streams added, updated and removed.                     *)
(*                                                                         *)
(* The first part is the server, with the session manager and other tools, *)
(* as far as the worker hears of them: it sends messages down one ordered  *)
(* connection, and answers a bind with what it holds then, which may no    *)
(* longer be what it announced. The second part is the worker's handlers.  *)
(*                                                                         *)
(* Left out: the level meters (PeakPool), binds that fail for lack of      *)
(* memory, the media name and role, and which of the Route and the Node    *)
(* Props a volume goes through, since either ends at the node's level.     *)
(***************************************************************************)
EXTENDS Naturals, Sequences

CONSTANTS
  Node, Client, Device,  \* ids of globals, by type
  Object,     \* the nodes that may exist
  Name,       \* node.name
  Label,      \* how a node, or an app's client, calls itself
  Unnamed,    \* the label of a device that has none yet
  Level,      \* channel volumes and mute, in one value
  Form,       \* what a card may be: a headset, speakers...
  Bluetooth,  \* the form taken of a Bluetooth card that does not say
  Generic,    \* the form taken of any other card that does not say
  None,
  MaxInbox    \* bound: messages on the way when the server acts

Metadata == "metadata"  \* the id of the default metadata

Direction == {"sink", "source"}

Heard == Direction \cup {"app"}  \* the kinds of node that get a row

\* The properties of a node, as its global announces them.
Properties == [kind : Heard \cup {"other"}, name : Name \cup {None}, label : Label,
               client : Client \cup {None}, device : Device \cup {None}]

ASSUME ObjectAssumption == Object \subseteq Properties
ASSUME NoneAssumption ==
  None \notin Name \cup Label \cup Client \cup Device \cup Level \cup Form \cup {Generic}
ASSUME IdAssumption ==
  /\ Metadata \notin Node \cup Client \cup Device
  /\ Node \cap Client = {} /\ Node \cap Device = {} /\ Client \cap Device = {}
ASSUME FormAssumption == Bluetooth \in Form
ASSUME LabelAssumption == Unnamed \in Label
ASSUME InboxAssumption == MaxInbox \in Nat

VARIABLES
  nodes,     \* server: node id -> its object and level, or Absent
  apps,      \* server: client id -> its label, or Absent
  cards,     \* server: device id -> its properties and its route's port, or Absent
  meta,      \* server: the default metadata exists
  defaults,  \* server: the default node of each direction
  pins,      \* server: node id -> its target.object
  inbox,     \* messages on their way to the worker
  bound,     \* node id -> Bound, or Absent
  clients,   \* client id -> BoundClient, or Absent
  devices,   \* device id -> BoundDevice, or Absent
  slot,      \* the metadata is bound
  cache,     \* direction -> default_name and default_source_name
  outdated,  \* rows that show a pin of a metadata that has gone since
  told,      \* node id -> the stream a reader of the events has, or Absent
  removed    \* ids the last handler reported removed

serverVars == <<nodes, apps, cards, meta, defaults, pins>>
mapVars    == <<clients, devices, slot, cache>>
workerVars == <<bound, mapVars, outdated, told, removed>>
vars == <<serverVars, inbox, workerVars>>

Absent == [kind |-> "absent"]

\* A card's dictionary: its form factor if it has one, and its API.
Dict == [factor : Form \cup {None}, bluez : BOOLEAN]

EmptyDict == [factor |-> None, bluez |-> FALSE]

Port == Form \cup {None}

Stream == [kind : Heard, name : Name \cup {None}, label : Label,
           level : Level \cup {None}, form : Form \cup {Generic, None},
           isDefault : BOOLEAN, target : Name \cup {None}]

Bound == [stream : Stream, client : Client \cup {None}, device : Device \cup {None}]

\* The label is None until properties have come, or when they are empty.
BoundClient == [label : Label \cup {None}]

BoundDevice == [dict : Dict, port : Port]

Message ==
  [type : {"node"}, id : Node, object : Properties]
    \cup [type : {"client"}, id : Client]
    \cup [type : {"device"}, id : Device]
    \cup [type : {"metadata"}]
    \cup [type : {"gone"}, id : Node \cup Client \cup Device \cup {Metadata}]
    \cup [type : {"removed"}, id : Node]
    \cup [type : {"node info"}, id : Node, label : Label, device : Device \cup {None}]
    \cup [type : {"props"}, id : Node, level : Level]
    \cup [type : {"client info"}, id : Client, label : Label \cup {None}]
    \cup [type : {"device info"}, id : Device, dict : Dict]
    \cup [type : {"route"}, id : Device, port : Port]
    \cup [type : {"defaults"}, names : UNION {[K -> Name \cup {None}] : K \in SUBSET Direction}]
    \cup [type : {"targets"}, names : UNION {[I -> Name \cup {None}] : I \in SUBSET Node}]
    \cup [type : {"nothing"}]

Init ==
  /\ nodes = [i \in Node |-> Absent]
  /\ apps = [c \in Client |-> Absent]
  /\ cards = [d \in Device |-> Absent]
  /\ meta = FALSE
  /\ defaults = [k \in Direction |-> None]
  /\ pins = [i \in Node |-> None]
  /\ inbox = <<>>
  /\ bound = [i \in Node |-> Absent]
  /\ clients = [c \in Client |-> Absent]
  /\ devices = [d \in Device |-> Absent]
  /\ slot = FALSE
  /\ cache = [k \in Direction |-> None]
  /\ told = [i \in Node |-> Absent]
  /\ outdated = {}
  /\ removed = {}

-----------------------------------------------------------------------------
(* The server.                                                             *)

Says(messages) ==
  /\ Len(inbox) < MaxInbox
  /\ inbox' = inbox \o messages

\* What a listener of the worker is told; without one nothing is sent.
Notifies(listening, message) == Says(IF listening THEN <<message>> ELSE <<>>)

ByServer == removed' = {} /\ UNCHANGED <<bound, mapVars, outdated, told>>

Gone(id) == [type |-> "gone", id |-> id]

Removed(i) == [type |-> "removed", id |-> i]

NodeInfo(i) ==
  LET o == nodes[i].object
  IN  [type |-> "node info", id |-> i, label |-> o.label, device |-> o.device]

Props(i, level) == [type |-> "props", id |-> i, level |-> level]

ClientInfo(c, label) == [type |-> "client info", id |-> c, label |-> label]

DeviceInfo(d, dict) == [type |-> "device info", id |-> d, dict |-> dict]

Route(d, port) == [type |-> "route", id |-> d, port |-> port]

\* Property messages of the metadata. Those that answer its bind come back to
\* back and are one message here, for the keys there are.
DefaultsAre(names) == [type |-> "defaults", names |-> names]

TargetsAre(names) == [type |-> "targets", names |-> names]

\* A global's own properties often lack a device's name and its card.
FirstLabels(o) == {o.label} \cup (IF o.kind \in Direction THEN {Unnamed} ELSE {})

NodeComes(i, o, level) ==
  /\ nodes[i] = Absent
  /\ nodes' = [nodes EXCEPT ![i] = [object |-> o, level |-> level]]
  /\ \E label \in FirstLabels(o), device \in {o.device, None} :
       LET announced == [o EXCEPT !.label = label, !.device = device]
       IN  Says(<<[type |-> "node", id |-> i, object |-> announced]>>)
  /\ ByServer
  /\ UNCHANGED <<apps, cards, meta, defaults, pins>>

\* The registry and the proxy are both told, in either order.
NodeGoes(i) ==
  /\ nodes[i] # Absent
  /\ nodes' = [nodes EXCEPT ![i] = Absent]
  /\ pins' = [pins EXCEPT ![i] = None]
  /\ IF bound[i] = Absent THEN Says(<<Gone(i)>>)
     ELSE Says(<<Gone(i), Removed(i)>>) \/ Says(<<Removed(i), Gone(i)>>)
  /\ ByServer
  /\ UNCHANGED <<apps, cards, meta, defaults>>

LevelMoves(i, level) ==
  /\ nodes[i] # Absent
  /\ nodes' = [nodes EXCEPT ![i].level = level]
  /\ Notifies(bound[i] # Absent, Props(i, level))
  /\ ByServer
  /\ UNCHANGED <<apps, cards, meta, defaults, pins>>

ClientComes(c, label) ==
  /\ apps[c] = Absent
  /\ apps' = [apps EXCEPT ![c] = [label |-> label]]
  /\ Says(<<[type |-> "client", id |-> c]>>)
  /\ ByServer
  /\ UNCHANGED <<nodes, cards, meta, defaults, pins>>

\* An info message whose properties have not changed comes without them.
ClientStirs(c, label) ==
  /\ apps[c] # Absent
  /\ apps' = IF label = None THEN apps ELSE [apps EXCEPT ![c] = [label |-> label]]
  /\ Notifies(clients[c] # Absent, ClientInfo(c, label))
  /\ ByServer
  /\ UNCHANGED <<nodes, cards, meta, defaults, pins>>

ClientGoes(c) ==
  /\ apps[c] # Absent
  /\ apps' = [apps EXCEPT ![c] = Absent]
  /\ Says(<<Gone(c)>>)
  /\ ByServer
  /\ UNCHANGED <<nodes, cards, meta, defaults, pins>>

CardComes(d, dict, port) ==
  /\ cards[d] = Absent
  /\ cards' = [cards EXCEPT ![d] = [dict |-> dict, port |-> port]]
  /\ Says(<<[type |-> "device", id |-> d]>>)
  /\ ByServer
  /\ UNCHANGED <<nodes, apps, meta, defaults, pins>>

\* Another route, or a message that repeats nothing of what is known.
CardStirs(d, port) ==
  /\ cards[d] # Absent
  /\ \/ /\ cards' = [cards EXCEPT ![d].port = port]
        /\ Notifies(devices[d] # Absent, Route(d, port))
     \/ /\ UNCHANGED cards
        /\ \E m \in {DeviceInfo(d, EmptyDict), Route(d, None)} : Notifies(devices[d] # Absent, m)
  /\ ByServer
  /\ UNCHANGED <<nodes, apps, meta, defaults, pins>>

CardGoes(d) ==
  /\ cards[d] # Absent
  /\ cards' = [cards EXCEPT ![d] = Absent]
  /\ Says(<<Gone(d)>>)
  /\ ByServer
  /\ UNCHANGED <<nodes, apps, meta, defaults, pins>>

MetaComes ==
  /\ ~meta
  /\ meta' = TRUE
  /\ Says(<<[type |-> "metadata"]>>)
  /\ ByServer
  /\ UNCHANGED <<nodes, apps, cards, defaults, pins>>

\* The session manager restarts: no message says what becomes of the pins.
MetaGoes ==
  /\ meta
  /\ meta' = FALSE
  /\ defaults' = [k \in Direction |-> None]
  /\ pins' = [i \in Node |-> None]
  /\ Says(<<Gone(Metadata)>>)
  /\ ByServer
  /\ UNCHANGED <<nodes, apps, cards>>

DefaultMoves(k, name) ==
  /\ meta
  /\ defaults' = [defaults EXCEPT ![k] = name]
  /\ Notifies(slot, DefaultsAre([key \in {k} |-> name]))
  /\ ByServer
  /\ UNCHANGED <<nodes, apps, cards, meta, pins>>

PinMoves(i, name) ==
  /\ meta
  /\ nodes[i] # Absent
  /\ pins' = [pins EXCEPT ![i] = name]
  /\ Notifies(slot, TargetsAre([subject \in {i} |-> name]))
  /\ ByServer
  /\ UNCHANGED <<nodes, apps, cards, meta, defaults>>

\* What a bind is answered with.
NodeReplies(i) ==
  IF nodes[i] = Absent THEN <<Removed(i)>> ELSE <<NodeInfo(i), Props(i, nodes[i].level)>>

ClientReplies(c) == IF apps[c] = Absent THEN <<>> ELSE <<ClientInfo(c, apps[c].label)>>

DeviceReplies(d) ==
  IF cards[d] = Absent THEN <<>> ELSE <<DeviceInfo(d, cards[d].dict), Route(d, cards[d].port)>>

Known(names) == {x \in DOMAIN names : names[x] # None}

MetadataReplies ==
  IF ~meta THEN <<>>
  ELSE <<DefaultsAre([k \in Known(defaults) |-> defaults[k]]),
         TargetsAre([i \in Known(pins) |-> pins[i]])>>

-----------------------------------------------------------------------------
(* The worker.                                                             *)

Takes(type) == inbox # <<>> /\ Head(inbox).type = type /\ UNCHANGED serverVars

Answered(replies) == inbox' = Tail(inbox) \o replies

\* The events a handler sends: the whole stream of each id in ids.
Reports(ids) ==
  /\ told' = [i \in Node |-> IF i \in ids THEN bound'[i].stream ELSE told[i]]
  /\ removed' = {}

ReportsGone(ids) ==
  /\ told' = [i \in Node |-> IF i \in ids THEN Absent ELSE told[i]]
  /\ removed' = ids

\* What was sent to a proxy that is destroyed is read and dropped.
AddressedTo(m, id) ==
  \/ /\ m.type \in {"removed", "node info", "props", "client info", "device info", "route"}
     /\ m.id = id
  \/ /\ m.type \in {"defaults", "targets"}
     /\ id = Metadata

Dropped(id) ==
  inbox' = [k \in 1..(Len(inbox) - 1) |->
              IF AddressedTo(inbox[k + 1], id) THEN [type |-> "nothing"] ELSE inbox[k + 1]]

Nothing ==
  /\ Takes("nothing")
  /\ Answered(<<>>)
  /\ Reports({})
  /\ UNCHANGED <<bound, mapVars, outdated>>

\* refresh_default_marks, for the directions in `kinds`.
Marks(s, name) == name # None /\ s.name = name

Rows == {i \in Node : bound[i] # Absent}

RowsOf(kinds) == {i \in Rows : bound[i].stream.kind \in kinds}

Moved(kinds, names) ==
  {i \in RowsOf(kinds) :
     LET s == bound[i].stream IN s.isDefault # Marks(s, names[s.kind])}

Refresh(kinds, names) ==
  bound' = [i \in Node |-> IF i \in Moved(kinds, names)
                           THEN [bound[i] EXCEPT !.stream.isDefault = ~@] ELSE bound[i]]

\* Client properties win over a node's own, for apps.
LabelOf(o) ==
  IF /\ o.kind = "app"
     /\ o.client # None
     /\ clients[o.client] # Absent
     /\ clients[o.client].label # None
  THEN clients[o.client].label ELSE o.label

MarkedAtInsert(o) == o.kind \in Direction /\ Marks(o, cache[o.kind])

Row(o) ==
  [stream |-> [kind |-> o.kind, name |-> o.name, label |-> LabelOf(o), level |-> None,
               form |-> None, isDefault |-> MarkedAtInsert(o), target |-> None],
   client |-> o.client, device |-> o.device]

\* bind_node. Streams that record, videos and monitors of sinks get no row.
BindNode ==
  LET m == Head(inbox)
  IN  /\ Takes("node")
      /\ IF m.object.kind \in Heard
         THEN /\ bound' = [bound EXCEPT ![m.id] = Row(m.object)]
              /\ Answered(NodeReplies(m.id))
              /\ Reports({m.id})
         ELSE /\ UNCHANGED bound
              /\ Answered(<<>>)
              /\ Reports({})
      /\ UNCHANGED <<mapVars, outdated>>

\* resolve_sink_form and resolve_source_form, which differ in names alone.
Resolved(card) ==
  IF card.dict.factor # None THEN card.dict.factor
  ELSE IF card.port # None THEN card.port
  ELSE IF card.dict.bluez THEN Bluetooth
  ELSE Generic

\* Broken variant of FormOf: the first form wins over what is resolved later.
FormOfFirst(row, cards_) ==
  IF row.stream.form # None \/ cards_[row.device] = Absent THEN row.stream.form
  ELSE Resolved(cards_[row.device])

\* recompute_device_forms_for_device: a form once taken is never taken back.
FormOf(row, cards_) ==
  IF cards_[row.device] = Absent THEN row.stream.form ELSE Resolved(cards_[row.device])

Reformed(rows, cards_, d) ==
  {i \in Node : /\ rows[i] # Absent
                /\ rows[i].stream.kind \in Direction
                /\ rows[i].device = d
                /\ rows[i].stream.form # FormOf(rows[i], cards_)}

Reform(rows, cards_, d) ==
  [i \in Node |-> IF i \in Reformed(rows, cards_, d)
                  THEN [rows[i] EXCEPT !.stream.form = FormOf(rows[i], cards_)] ELSE rows[i]]

\* The info listener of a node: its card, its name, and then its form.
NodeSays ==
  LET m      == Head(inbox)
      row    == bound[m.id]
      device == IF m.device = None THEN row.device ELSE m.device
      label  == IF row.stream.kind \in Direction /\ m.label # Unnamed
                THEN m.label ELSE row.stream.label
      rows   == [bound EXCEPT ![m.id] = [row EXCEPT !.device = device, !.stream.label = label]]
  IN  /\ Takes("node info")
      /\ IF row = Absent THEN UNCHANGED bound /\ Reports({})
         ELSE /\ bound' = IF device = None THEN rows ELSE Reform(rows, devices, device)
              /\ Reports((IF label = row.stream.label THEN {} ELSE {m.id})
                           \cup (IF device = None THEN {} ELSE Reformed(rows, devices, device)))
      /\ Answered(<<>>)
      /\ UNCHANGED <<mapVars, outdated>>

\* The param listener of a node: only what changed is reported.
PropsCome ==
  LET m       == Head(inbox)
      changed == {i \in {m.id} \cap Rows : bound[i].stream.level # m.level}
  IN  /\ Takes("props")
      /\ bound' = [i \in Node |-> IF i \in changed
                                  THEN [bound[i] EXCEPT !.stream.level = m.level] ELSE bound[i]]
      /\ Reports(changed)
      /\ Answered(<<>>)
      /\ UNCHANGED <<mapVars, outdated>>

\* The removed listener of a node's proxy, which goes with the row.
ProxyRemoved ==
  LET m == Head(inbox)
  IN  /\ Takes("removed")
      /\ bound' = [bound EXCEPT ![m.id] = Absent]
      /\ ReportsGone({m.id})
      /\ Dropped(m.id)
      /\ outdated' = outdated \ {m.id}
      /\ UNCHANGED mapVars

\* bind_client.
BindClient ==
  LET m == Head(inbox)
  IN  /\ Takes("client")
      /\ clients' = [clients EXCEPT ![m.id] = [label |-> None]]
      /\ Answered(ClientReplies(m.id))
      /\ Reports({})
      /\ UNCHANGED <<bound, outdated, devices, slot, cache>>

\* The info listener of a client, and apply_client_props_map.
ClientSays ==
  LET m       == Head(inbox)
      changed == {i \in RowsOf({"app"}) : /\ bound[i].client = m.id
                                          /\ m.label \notin {None, bound[i].stream.label}}
  IN  /\ Takes("client info")
      /\ clients' = IF clients[m.id] = Absent THEN clients
                    ELSE [clients EXCEPT ![m.id] = [label |-> m.label]]
      /\ bound' = [i \in Node |-> IF i \in changed
                                  THEN [bound[i] EXCEPT !.stream.label = m.label] ELSE bound[i]]
      /\ Reports(changed)
      /\ Answered(<<>>)
      /\ UNCHANGED <<outdated, devices, slot, cache>>

\* bind_device.
BindDevice ==
  LET m == Head(inbox)
  IN  /\ Takes("device")
      /\ devices' = [devices EXCEPT ![m.id] = [dict |-> EmptyDict, port |-> None]]
      /\ Answered(DeviceReplies(m.id))
      /\ Reports({})
      /\ UNCHANGED <<bound, outdated, clients, slot, cache>>

\* The listeners of a device: the dictionary is replaced, a port is kept.
DeviceSays ==
  LET m    == Head(inbox)
      card == devices[m.id]
  IN  /\ \/ /\ Takes("device info")
            /\ devices' = [devices EXCEPT ![m.id].dict = m.dict]
         \/ /\ Takes("route")
            /\ devices' = IF m.port = None THEN devices ELSE [devices EXCEPT ![m.id].port = m.port]
      /\ bound' = Reform(bound, devices', m.id)
      /\ Reports(Reformed(bound, devices', m.id))
      /\ Answered(<<>>)
      /\ UNCHANGED <<outdated, clients, slot, cache>>

\* bind_default_meta.
BindMetadata ==
  /\ Takes("metadata")
  /\ slot' = TRUE
  /\ Answered(MetadataReplies)
  /\ Reports({})
  /\ UNCHANGED <<bound, outdated, clients, devices, cache>>

\* The property listener, for the two defaults.
DefaultsCome ==
  LET names == Head(inbox).names
  IN  /\ Takes("defaults")
      /\ cache' = [k \in Direction |-> IF k \in DOMAIN names THEN names[k] ELSE cache[k]]
      /\ Refresh(DOMAIN names, names)
      /\ Reports(Moved(DOMAIN names, names))
      /\ Answered(<<>>)
      /\ UNCHANGED <<outdated, clients, devices, slot>>

\* The property listener, for target.object: apply_stream_target_to_row.
TargetsCome ==
  LET names   == Head(inbox).names
      changed == {i \in RowsOf({"app"}) \cap DOMAIN names : bound[i].stream.target # names[i]}
  IN  /\ Takes("targets")
      /\ bound' = [i \in Node |-> IF i \in changed
                                  THEN [bound[i] EXCEPT !.stream.target = names[i]] ELSE bound[i]]
      /\ Reports(changed)
      /\ Answered(<<>>)
      /\ outdated' = outdated \ DOMAIN names
      /\ UNCHANGED mapVars

\* Broken variant of MetadataRemoved: the marks that go are not reported.
MetadataRemovedQuietly ==
  LET none == [k \in Direction |-> None]
  IN  /\ Takes("gone")
      /\ Head(inbox).id = Metadata
      /\ slot' = FALSE
      /\ cache' = none
      /\ Refresh(Direction, none)
      /\ Reports({})
      /\ outdated' = {i \in Rows : bound[i].stream.target # None}
      /\ Dropped(Metadata)
      /\ UNCHANGED <<clients, devices>>

\* global_remove, when the default metadata goes and when another global does.
MetadataRemoved ==
  LET none == [k \in Direction |-> None]
  IN  /\ Takes("gone")
      /\ Head(inbox).id = Metadata
      /\ slot' = FALSE
      /\ IF slot
         THEN /\ cache' = none
              /\ Refresh(Direction, none)
              /\ Reports(Moved(Direction, none))
         ELSE UNCHANGED <<cache, bound>> /\ Reports({})
      /\ outdated' = {i \in Rows : bound[i].stream.target # None}
      /\ Dropped(Metadata)
      /\ UNCHANGED <<clients, devices>>

\* Broken variant of GlobalRemoved: it reports nodes the map no longer holds.
GlobalRemovedAlways ==
  LET id == Head(inbox).id
  IN  /\ Takes("gone")
      /\ id # Metadata
      /\ bound' = [i \in Node |-> IF i = id THEN Absent ELSE bound[i]]
      /\ clients' = [c \in Client |-> IF c = id THEN Absent ELSE clients[c]]
      /\ devices' = [d \in Device |-> IF d = id THEN Absent ELSE devices[d]]
      /\ outdated' = outdated \ {id}
      /\ ReportsGone({id} \cap Node)
      /\ Dropped(id)
      /\ UNCHANGED <<slot, cache>>

GlobalRemoved ==
  LET id == Head(inbox).id
  IN  /\ Takes("gone")
      /\ id # Metadata
      /\ bound' = [i \in Node |-> IF i = id THEN Absent ELSE bound[i]]
      /\ clients' = [c \in Client |-> IF c = id THEN Absent ELSE clients[c]]
      /\ devices' = [d \in Device |-> IF d = id THEN Absent ELSE devices[d]]
      /\ outdated' = outdated \ {id}
      /\ ReportsGone({id} \cap Rows)
      /\ Dropped(id)
      /\ UNCHANGED <<slot, cache>>

Handle ==
  \/ Nothing
  \/ BindNode \/ NodeSays \/ PropsCome \/ ProxyRemoved
  \/ BindClient \/ ClientSays
  \/ BindDevice \/ DeviceSays
  \/ BindMetadata \/ DefaultsCome \/ TargetsCome \/ MetadataRemoved
  \/ GlobalRemoved

-----------------------------------------------------------------------------
(* Commands. One that finds no row or no metadata reports an error and     *)
(* changes nothing.                                                        *)

\* A write goes to the proxy the worker has. One whose global is gone loses it,
\* and until it hears of that the worker may hold either.
Pending(id) == \E k \in DOMAIN inbox : inbox[k] = Gone(id)

Loses(alive, id) == (~alive \/ Pending(id)) /\ UNCHANGED <<serverVars, inbox>>

SetVolume(i, level) ==
  /\ bound[i] # Absent
  /\ \/ LevelMoves(i, level)
     \/ Loses(nodes[i] # Absent, i) /\ ByServer

\* apply_default: the rows are marked before the server's echo.
SetDefault(k, name) ==
  /\ slot
  /\ \/ /\ meta
        /\ defaults' = [defaults EXCEPT ![k] = name]
        /\ Says(<<DefaultsAre([key \in {k} |-> name])>>)
        /\ UNCHANGED <<nodes, apps, cards, meta, pins>>
     \/ Loses(meta, Metadata)
  /\ cache' = [cache EXCEPT ![k] = name]
  /\ Refresh({k}, cache')
  /\ Reports(Moved({k}, cache'))
  /\ UNCHANGED <<outdated, clients, devices, slot>>

\* apply_stream_target: the row waits for the server's echo.
SetStreamTarget(i, name) ==
  /\ slot
  /\ \/ PinMoves(i, name)
     \/ Loses(meta /\ nodes[i] # Absent, Metadata) /\ ByServer

-----------------------------------------------------------------------------
ServerStep ==
  \/ \E i \in Node, o \in Object, level \in Level : NodeComes(i, o, level)
  \/ \E i \in Node : NodeGoes(i)
  \/ \E i \in Node, level \in Level : LevelMoves(i, level)
  \/ \E i \in Node, name \in Name \cup {None} : PinMoves(i, name)
  \/ \E c \in Client, label \in Label : ClientComes(c, label)
  \/ \E c \in Client, label \in Label \cup {None} : ClientStirs(c, label)
  \/ \E c \in Client : ClientGoes(c)
  \/ \E d \in Device, dict \in Dict, port \in Port : CardComes(d, dict, port)
  \/ \E d \in Device, port \in Port : CardStirs(d, port)
  \/ \E d \in Device : CardGoes(d)
  \/ MetaComes
  \/ MetaGoes
  \/ \E k \in Direction, name \in Name \cup {None} : DefaultMoves(k, name)

CommandStep ==
  \/ \E i \in Node, level \in Level : SetVolume(i, level)
  \/ \E k \in Direction, name \in Name : SetDefault(k, name)
  \/ \E i \in Node, name \in Name \cup {None} : SetStreamTarget(i, name)

Next == ServerStep \/ Handle \/ CommandStep

Spec == Init /\ [][Next]_vars

-----------------------------------------------------------------------------
(* Properties.                                                             *)

\* Rows keep the shape domain.rs gives them: "`false` for app streams" of the
\* default mark, "always `None` for device streams" of the target, and no form
\* for an app.
RowShape(s) ==
  /\ s.kind = "app" => ~s.isDefault /\ s.form = None
  /\ s.kind \in Direction => s.target = None

TypeOK ==
  /\ nodes \in [Node -> [object : Object, level : Level] \cup {Absent}]
  /\ apps \in [Client -> [label : Label] \cup {Absent}]
  /\ cards \in [Device -> BoundDevice \cup {Absent}]
  /\ meta \in BOOLEAN
  /\ defaults \in [Direction -> Name \cup {None}]
  /\ pins \in [Node -> Name \cup {None}]
  /\ bound \in [Node -> Bound \cup {Absent}]
  /\ \A i \in Node : bound[i] # Absent => RowShape(bound[i].stream)
  /\ clients \in [Client -> BoundClient \cup {Absent}]
  /\ devices \in [Device -> BoundDevice \cup {Absent}]
  /\ slot \in BOOLEAN
  /\ cache \in [Direction -> Name \cup {None}]
  /\ inbox \in Seq(Message)
  /\ told \in [Node -> Stream \cup {Absent}]
  /\ outdated \subseteq Node
  /\ removed \subseteq Node

\* Whoever has read every event knows every row as the worker does: a handler
\* that changes a stream reports it, and the reducer is never left behind.
EventsTellAll ==
  \A i \in Node : told[i] = IF bound[i] = Absent THEN Absent ELSE bound[i].stream

\* A device's row is marked default exactly when it bears the cached default
\* name, whichever of node, metadata and command came last.
MarksFollowCache ==
  \A i \in RowsOf(Direction) :
    bound[i].stream.isDefault = Marks(bound[i].stream, cache[bound[i].stream.kind])

\* "a stream cannot end up with one or the other depending on which arrived
\* last": an app's row bears its client's label once that is known.
ClientsNameTheirStreams ==
  \A i \in RowsOf({"app"}) :
    LET c == bound[i].client
    IN  c # None /\ clients[c] # Absent /\ clients[c].label # None
          => bound[i].stream.label = clients[c].label

\* Once everything the server said has been handled, the rows are the
\* server's nodes: whatever order globals, properties, proxies and ids reused
\* came in, and whatever was asked meanwhile. A pin that went with the
\* metadata is the exception: nothing tells the worker.
MirrorsServer ==
  inbox = <<>> =>
    /\ slot = meta
    /\ cache = defaults
    /\ \A i \in Node :
         IF nodes[i] = Absent \/ nodes[i].object.kind \notin Heard THEN bound[i] = Absent
         ELSE /\ bound[i] # Absent
              /\ LET o == nodes[i].object
                     s == bound[i].stream
                 IN  /\ s.kind = o.kind /\ s.name = o.name
                     /\ s.level = nodes[i].level
                     /\ bound[i].device = o.device
                     /\ o.kind = "app" /\ i \notin outdated => s.target = pins[i]
                     /\ o.kind \in Direction =>
                          /\ s.label = o.label
                          /\ o.device # None /\ devices[o.device] # Absent
                               => s.form = Resolved(devices[o.device])

\* A row that is reported removed had been reported, and only once: of the two
\* listeners that hear of a node's end only the first finds it.
RemovalsMet == [][\A i \in removed' : told[i] # Absent]_vars

=============================================================================
