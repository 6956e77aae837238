---------------------------- MODULE ThreadsProofs -----------------------------
(***************************************************************************)
(* What threads and processes share, for any number of them. The bus: the  *)
(* queue stays bounded, nothing in it goes unseen, each producer's         *)
(* messages come out in order, and every step of it is one of the channel. *)
(* The peak pool: the wake behind its flag, and that no audible peak is    *)
(* left where no drain looks. The lock of one window: that no launch gives *)
(* way to a socket whose window is going, and what holds of launches and   *)
(* exits that come one at a time.                                          *)
(***************************************************************************)
EXTENDS MCThreads, TLAPS

-----------------------------------------------------------------------------
(* The message bus.                                                        *)

\* What is queued was sent after what was handed over and, per producer, in
\* the order of the queue; nothing is numbered above what was tried.
OrderInv ==
  /\ \A i, j \in DOMAIN queue :
       i < j /\ queue[i][1] = queue[j][1] => queue[i][2] < queue[j][2]
  /\ Later(got, queue)
  /\ \A i \in DOMAIN queue : queue[i][2] <= tried[queue[i][1]]
  /\ \A i \in DOMAIN got : got[i][2] <= tried[got[i][1]]

BusIInv == BusTypeOK /\ NothingStranded /\ InOrder /\ OrderInv

-----------------------------------------------------------------------------

\* An empty queue is a queue of messages.
LEMMA EmptyQueue == <<>> \in Seq(Message) /\ Len(<<>>) = 0 /\ DOMAIN <<>> = {}
OBVIOUS

LEMMA BusInitIInv == BusInit => BusIInv
<1> SUFFICES ASSUME BusInit PROVE BusIInv
  OBVIOUS
<1>1. BusTypeOK
  <2>1. queue \in Seq(Message) /\ Len(queue) = 0 /\ got \in Seq(Message)
    BY EmptyQueue DEF BusInit
  <2>2. Len(queue) <= Capacity
    BY <2>1, CapacityAssumption
  <2>3. tried \in [Producer -> 0..Burst]
    BY BurstAssumption DEF BusInit
  <2> QED BY <2>1, <2>2, <2>3 DEF BusInit, BusTypeOK
<1>2. NothingStranded
  BY DEF BusInit, NothingStranded
<1>3. InOrder /\ OrderInv
  BY EmptyQueue DEF BusInit, InOrder, OrderInv, Later
<1> QED BY <1>1, <1>2, <1>3 DEF BusIInv

\* What a send that finds room does to the queue.
LEMMA SendKeeps ==
  ASSUME BusIInv, NEW p \in Producer, TrySend(p)
  PROVE  BusIInv'
<1> USE DEF BusIInv
<1>1. CASE open /\ Len(queue) < Capacity
  <2> DEFINE m == <<p, tried[p] + 1>>
  <2>1. tried[p] \in 0..Burst /\ tried[p] < Burst
    BY DEF TrySend, BusTypeOK
  <2>2. m \in Message
    BY <2>1, BurstAssumption DEF Message
  <2>3. queue' = Append(queue, m) /\ signalling' = signalling \cup {p}
    BY <1>1 DEF TrySend
  <2>4. tried' = [tried EXCEPT ![p] = @ + 1]
        /\ UNCHANGED <<got, open, readable, draining>>
    BY DEF TrySend
  <2>5. tried' \in [Producer -> 0..Burst] /\ \A q \in Producer : tried'[q] >= tried[q]
    BY <2>1, <2>4, BurstAssumption DEF BusTypeOK
  <2>6. /\ Len(queue') = Len(queue) + 1
        /\ DOMAIN queue' = 1..(Len(queue) + 1)
        /\ \A i \in 1..Len(queue) : queue'[i] = queue[i]
        /\ queue'[Len(queue) + 1] = m
    BY <2>2, <2>3 DEF BusTypeOK
  <2>7. BusTypeOK'
    BY <1>1, <2>2, <2>3, <2>4, <2>5, <2>6, CapacityAssumption DEF BusTypeOK
  <2>8. NothingStranded' /\ InOrder'
    BY <2>3, <2>4 DEF NothingStranded, InOrder
  <2>9. tried'[p] = tried[p] + 1
    BY <2>4 DEF BusTypeOK
  <2>10. /\ m[1] = p /\ m[2] = tried[p] + 1
         /\ \A i \in DOMAIN queue : queue[i][1] \in Producer /\ queue[i][2] \in Nat
         /\ \A i \in DOMAIN got : got[i][1] \in Producer /\ got[i][2] \in Nat
    BY DEF BusTypeOK, Message
  <2>11. \A i \in DOMAIN queue' : queue'[i][2] <= tried'[queue'[i][1]]
    <3> SUFFICES ASSUME NEW i \in DOMAIN queue'
                 PROVE  queue'[i][2] <= tried'[queue'[i][1]]
      OBVIOUS
    <3>1. CASE i \in DOMAIN queue
      <4>1. queue'[i] = queue[i] /\ queue[i][2] <= tried[queue[i][1]]
        BY <3>1, <2>6 DEF OrderInv, BusTypeOK
      <4>2. /\ queue[i][1] \in Producer /\ queue[i][2] \in Nat
            /\ tried[queue[i][1]] \in Nat /\ tried'[queue[i][1]] \in Nat
            /\ tried'[queue[i][1]] >= tried[queue[i][1]]
        BY <3>1, <2>5, <2>10 DEF BusTypeOK
      <4> QED BY <4>1, <4>2
    <3>2. CASE i \notin DOMAIN queue
      <4>1. i = Len(queue) + 1
        BY <3>2, <2>6 DEF BusTypeOK
      <4> QED BY <4>1, <2>1, <2>6, <2>9, <2>10
    <3> QED BY <3>1, <3>2
  <2>12. \A i \in DOMAIN got' : got'[i][2] <= tried'[got'[i][1]]
    BY <2>4, <2>5, <2>10 DEF OrderInv, BusTypeOK
  <2>13. Later(got, queue)'
    <3> SUFFICES ASSUME NEW i \in DOMAIN got, NEW j \in DOMAIN queue',
                        got[i][1] = queue'[j][1]
                 PROVE  got[i][2] < queue'[j][2]
      BY <2>4 DEF Later
    <3>1. CASE j \in DOMAIN queue
      <4>1. queue'[j] = queue[j]
        BY <3>1, <2>6 DEF BusTypeOK
      <4> QED BY <3>1, <4>1 DEF OrderInv, Later
    <3>2. CASE j \notin DOMAIN queue
      <4>1. j = Len(queue) + 1
        BY <3>2, <2>6 DEF BusTypeOK
      <4>2. queue'[j] = m /\ queue'[j][1] = p /\ queue'[j][2] = tried[p] + 1
        BY <4>1, <2>6, <2>10
      <4>3. got[i][2] <= tried[got[i][1]] /\ got[i][2] \in Nat
        BY <2>10 DEF OrderInv
      <4>4. got[i][2] <= tried[p]
        BY <4>2, <4>3
      <4>5. tried[p] \in Nat
        BY <2>1, BurstAssumption
      <4> QED BY <4>2, <4>3, <4>4, <4>5
    <3> QED BY <3>1, <3>2
  <2>14. \A i, j \in DOMAIN queue' :
           i < j /\ queue'[i][1] = queue'[j][1] => queue'[i][2] < queue'[j][2]
    BY SMTT(30), <2>1, <2>6, <2>10 DEF OrderInv, BusTypeOK
  <2> QED
    BY <2>7, <2>8, <2>11, <2>12, <2>13, <2>14 DEF OrderInv
<1>2. CASE ~(open /\ Len(queue) < Capacity)
  <2>1. /\ UNCHANGED <<queue, signalling, got, open, readable, draining>>
        /\ tried' = [tried EXCEPT ![p] = @ + 1]
        /\ tried[p] < Burst
    BY <1>2 DEF TrySend
  <2>2. tried' \in [Producer -> 0..Burst] /\ \A q \in Producer : tried'[q] >= tried[q]
    BY <2>1, BurstAssumption DEF BusTypeOK
  <2>3. BusTypeOK' /\ NothingStranded' /\ InOrder'
    BY <2>1, <2>2 DEF BusTypeOK, NothingStranded, InOrder
  <2>4. /\ \A i \in DOMAIN queue : queue[i][1] \in Producer /\ queue[i][2] \in Nat
        /\ \A i \in DOMAIN got : got[i][1] \in Producer /\ got[i][2] \in Nat
    BY DEF BusTypeOK, Message
  <2>5. OrderInv'
    BY <2>1, <2>2, <2>4 DEF OrderInv, BusTypeOK, Later
  <2> QED BY <2>3, <2>5
<1> QED BY <1>1, <1>2

LEMMA ReceiveKeeps ==
  ASSUME BusIInv, Receive
  PROVE  BusIInv'
<1> USE DEF BusIInv
<1>1. /\ queue # <<>> /\ queue \in Seq(Message) /\ got \in Seq(Message)
      /\ draining /\ queue' = Tail(queue) /\ got' = Append(got, Head(queue))
      /\ UNCHANGED <<open, readable, signalling, draining, tried>>
  BY DEF Receive, BusTypeOK
<1>2. /\ Len(queue) \in Nat \ {0}
      /\ Len(queue') = Len(queue) - 1
      /\ DOMAIN queue' = 1..(Len(queue) - 1)
      /\ \A i \in DOMAIN queue' : i + 1 \in DOMAIN queue /\ queue'[i] = queue[i + 1]
      /\ queue[1] \in Message /\ 1 \in DOMAIN queue /\ Head(queue) = queue[1]
  BY <1>1
<1>3. /\ Len(got') = Len(got) + 1
      /\ DOMAIN got' = 1..(Len(got) + 1)
      /\ \A i \in 1..Len(got) : got'[i] = got[i]
      /\ got'[Len(got) + 1] = queue[1]
      /\ DOMAIN got = 1..Len(got) /\ Len(got) \in Nat
  BY <1>1, <1>2
<1>4. BusTypeOK'
  BY <1>1, <1>2, CapacityAssumption DEF BusTypeOK
<1>5. NothingStranded'
  BY <1>1 DEF NothingStranded
<1>6. /\ \A i \in DOMAIN queue : queue[i][1] \in Producer /\ queue[i][2] \in Nat
      /\ \A i \in DOMAIN got : got[i][1] \in Producer /\ got[i][2] \in Nat
  BY DEF BusTypeOK, Message
<1>7. InOrder'
  <2> SUFFICES ASSUME NEW i \in DOMAIN got', NEW j \in DOMAIN got',
                      i < j, got'[i][1] = got'[j][1]
               PROVE  got'[i][2] < got'[j][2]
    BY DEF InOrder
  <2>1. i \in 1..Len(got)
    BY <1>3
  <2>2. CASE j \in 1..Len(got)
    BY <2>1, <2>2, <1>3 DEF InOrder
  <2>3. CASE j \notin 1..Len(got)
    <3>1. j = Len(got) + 1
      BY <2>3, <1>3
    <3>2. got'[i] = got[i] /\ got'[j] = queue[1] /\ i \in DOMAIN got
      BY <2>1, <3>1, <1>3
    <3> QED BY <3>2, <1>2 DEF OrderInv, Later
  <2> QED BY <2>2, <2>3
<1>8. \A i, j \in DOMAIN queue' :
        i < j /\ queue'[i][1] = queue'[j][1] => queue'[i][2] < queue'[j][2]
  <2> SUFFICES ASSUME NEW i \in DOMAIN queue', NEW j \in DOMAIN queue',
                      i < j, queue'[i][1] = queue'[j][1]
               PROVE  queue'[i][2] < queue'[j][2]
    OBVIOUS
  <2>1. /\ i + 1 \in DOMAIN queue /\ j + 1 \in DOMAIN queue /\ i + 1 < j + 1
        /\ queue'[i] = queue[i + 1] /\ queue'[j] = queue[j + 1]
    BY <1>2
  <2> QED BY <2>1 DEF OrderInv
<1>9. Later(got, queue)'
  <2> SUFFICES ASSUME NEW i \in DOMAIN got', NEW j \in DOMAIN queue',
                      got'[i][1] = queue'[j][1]
               PROVE  got'[i][2] < queue'[j][2]
    BY DEF Later
  <2>1. j + 1 \in DOMAIN queue /\ queue'[j] = queue[j + 1] /\ 1 < j + 1
    BY <1>2
  <2>2. CASE i \in 1..Len(got)
    BY <2>1, <2>2, <1>3 DEF OrderInv, Later
  <2>3. CASE i \notin 1..Len(got)
    <3>1. got'[i] = queue[1]
      BY <2>3, <1>3
    <3> QED BY <2>1, <3>1, <1>2 DEF OrderInv
  <2> QED BY <2>2, <2>3
<1>10. \A i \in DOMAIN queue' : queue'[i][2] <= tried'[queue'[i][1]]
  BY <1>1, <1>2 DEF OrderInv
<1>11. \A i \in DOMAIN got' : got'[i][2] <= tried'[got'[i][1]]
  BY <1>1, <1>2, <1>3 DEF OrderInv
<1> QED BY <1>4, <1>5, <1>7, <1>8, <1>9, <1>10, <1>11 DEF OrderInv

LEMMA BusNextIInv == BusIInv /\ [BusNext]_busVars => BusIInv'
<1> SUFFICES ASSUME BusIInv, [BusNext]_busVars PROVE BusIInv'
  OBVIOUS
<1>1. CASE \E p \in Producer : TrySend(p)
  BY <1>1, SendKeeps
<1>2. CASE \E p \in Producer : Signal(p)
  BY <1>2 DEF BusIInv, BusTypeOK, NothingStranded, InOrder, OrderInv, Later, Signal
<1>3. CASE Wake \/ OtherTurn
  BY <1>3 DEF BusIInv, BusTypeOK, NothingStranded, InOrder, OrderInv, Later, Wake, OtherTurn, StartDrain
<1>4. CASE Receive
  BY <1>4, ReceiveKeeps
<1>5. CASE EndDrain
  BY ZenonT(60), <1>5 DEF BusIInv, BusTypeOK, NothingStranded, InOrder, OrderInv, Later, EndDrain
<1>6. CASE Close
  <2>1. queue' = <<>> /\ UNCHANGED <<got, readable, signalling, draining, tried>>
        /\ open' = FALSE
    BY <1>6 DEF Close
  <2>2. BusTypeOK'
    <3>1. queue' \in Seq(Message) /\ Len(queue') = 0
      BY <2>1, EmptyQueue
    <3>2. Len(queue') <= Capacity
      BY <3>1, CapacityAssumption
    <3> QED BY <2>1, <3>1, <3>2 DEF BusIInv, BusTypeOK
  <2> QED BY <2>1, <2>2, EmptyQueue DEF BusIInv, NothingStranded, InOrder, OrderInv, Later
<1>7. CASE UNCHANGED busVars
  BY <1>7 DEF BusIInv, BusTypeOK, NothingStranded, InOrder, OrderInv, Later, busVars
<1> QED BY <1>1, <1>2, <1>3, <1>4, <1>5, <1>6, <1>7 DEF BusNext

\* The invariant the three safety properties follow from.
THEOREM BusInvariance == BusSafety => []BusIInv
<1>1. BusInit => BusIInv
  BY BusInitIInv
<1>2. BusIInv /\ [BusNext]_busVars => BusIInv'
  BY BusNextIInv
<1> QED BY <1>1, <1>2, PTL DEF BusSafety

\* The bus keeps its shape and its bound, whatever the producers do.
THEOREM BusTypeCorrect == BusSafety => []BusTypeOK
BY BusInvariance, PTL DEF BusIInv

\* No wake is ever lost: a queued message always has somebody coming for it.
THEOREM WakeHolds == BusSafety => []NothingStranded
BY BusInvariance, PTL DEF BusIInv

\* Each producer's messages are handed over in order and once.
THEOREM OrderHolds == BusSafety => []InOrder
BY BusInvariance, PTL DEF BusIInv

-----------------------------------------------------------------------------

\* A step of the bus is a step of the channel or leaves it alone: the
\* eventfd, the signals and the drains are invisible to its users.
LEMMA StepRefines ==
  ASSUME BusIInv, [BusNext]_busVars
  PROVE  [C!ChannelNext]_C!channelVars
<1> USE DEF C!channelVars
<1>1. CASE \E p \in Producer : TrySend(p)
  <2> PICK p \in Producer : TrySend(p)
    BY <1>1
  <2>1. CASE open /\ Len(queue) < Capacity
    <3>1. tried[p] \in 0..Burst /\ tried[p] < Burst
      BY DEF TrySend, BusIInv, BusTypeOK
    <3>2. <<p, tried[p] + 1>> \in Message
      BY <3>1, BurstAssumption DEF Message
    <3>3. C!Accept(<<p, tried[p] + 1>>)
      BY <2>1 DEF TrySend, C!Accept
    <3> QED BY <3>2, <3>3 DEF C!ChannelNext
  <2>2. CASE ~(open /\ Len(queue) < Capacity)
    BY <2>2 DEF TrySend
  <2> QED BY <2>1, <2>2
<1>2. CASE Receive
  BY <1>2 DEF Receive, C!Deliver, C!ChannelNext
<1>3. CASE Close
  BY <1>3 DEF Close, C!Shut, C!ChannelNext
<1>4. CASE \E p \in Producer : Signal(p)
  BY <1>4 DEF Signal
<1>5. CASE Wake \/ OtherTurn
  BY <1>5 DEF Wake, OtherTurn, StartDrain
<1>6. CASE EndDrain
  BY <1>6 DEF EndDrain
<1>7. CASE UNCHANGED busVars
  BY <1>7 DEF busVars
<1> QED BY <1>1, <1>2, <1>3, <1>4, <1>5, <1>6, <1>7 DEF BusNext

\* The bus implements the channel, as far as safety goes.
THEOREM Refinement == BusSafety => C!ChannelSafety
<1>1. BusInit => C!ChannelInit
  BY DEF BusInit, C!ChannelInit
<1>2. BusIInv /\ [BusNext]_busVars => [C!ChannelNext]_C!channelVars
  BY StepRefines
<1> QED BY <1>1, <1>2, BusInvariance, PTL DEF BusSafety, C!ChannelSafety

-----------------------------------------------------------------------------
(* The peak pool.                                                          *)

\* While no drain is between its slots its position is at the first, and a
\* slot is read from its first channel; a drain past a node id holds one.
ReaderSound ==
  /\ reader \in {"rest", "clear"} => at.slot = 1
  /\ reader \notin {"chans", "sink"} => at.channel = 1
  /\ reader \in {"len", "chans", "sink"} => read.node \in Node

\* A meter holds a slot of its own exactly while it is on.
OwnerSound ==
  /\ \A s \in Slot : node_id[s] # NoNode => writer[node_id[s]] # "off"
  /\ \A s, t \in Slot : node_id[s] = node_id[t] /\ node_id[s] # NoNode => s = t
  /\ \A n \in Node : writer[n] # "off" => \E s \in Slot : node_id[s] = n

\* What a claim has zeroed so far stays silent until it is done.
ZeroedSound ==
  \A n \in Node : writer[n] = "zero chans" =>
    \A c \in Channel \ todo[n] : chans[Held(n)][c] = NoNode

\* NoPeakAsleep, also while the callback that set the flag is at its signal.
PeaksAwake ==
  \A s \in Slot, c \in Channel :
    chans[s][c] # NoNode /\ node_id[s] # NoNode /\ writer[node_id[s]] \in {"idle", "signal"}
      => pending \/ Ahead(s, c)

PoolIInv == PoolTypeOK /\ ReaderSound /\ OwnerSound /\ ZeroedSound /\ FlagHasAWake /\ PeaksAwake

-----------------------------------------------------------------------------
(* A node and its slot.                                                    *)

\* The slot a meter holds is the one that names its node.
LEMMA HeldIsOwn ==
  ASSUME PoolTypeOK, OwnerSound, NEW n \in Node, writer[n] # "off"
  PROVE  /\ Held(n) \in Slot
         /\ node_id[Held(n)] = n
         /\ \A s \in Slot : node_id[s] = n => s = Held(n)
<1>1. PICK s \in Slot : node_id[s] = n
  BY DEF OwnerSound
<1>2. Held(n) \in Slot /\ node_id[Held(n)] = n
  BY <1>1 DEF Held
<1>3. n # NoNode
  BY NodeAssumption
<1> QED
  BY <1>2, <1>3 DEF OwnerSound

-----------------------------------------------------------------------------
(* The shape of the pool.                                                  *)

LEMMA Sizes ==
  /\ Slots \in Nat /\ 1 \in Slot
  /\ Channels \in Nat /\ 1 \in Channel /\ 0 \in 0..Channels
  /\ 0 \in Nat
BY SlotsAssumption, ChannelsAssumption DEF Slot, Channel

LEMMA PoolInitIInv == PoolInit => PoolIInv
<1> SUFFICES ASSUME PoolInit PROVE PoolIInv
  OBVIOUS
<1>1. PoolTypeOK
  <2>1. at \in [slot : Slot, channel : Channel]
    BY Sizes DEF PoolInit
  <2>2. read \in [node : Node \cup {NoNode}, len : 0..Channels, peaks : SUBSET Node]
    BY Sizes DEF PoolInit, Nothing
  <2>3. len \in [Slot -> 0..Channels] /\ wake \in Nat
    BY Sizes DEF PoolInit
  <2>4. todo \in [Node -> SUBSET Channel]
    BY DEF PoolInit
  <2> QED BY <2>1, <2>2, <2>3, <2>4 DEF PoolInit, PoolTypeOK, Silent
<1>2. ReaderSound /\ OwnerSound /\ ZeroedSound /\ FlagHasAWake /\ PeaksAwake
  BY NodeAssumption
  DEF PoolInit, ReaderSound, OwnerSound, ZeroedSound, FlagHasAWake, PeaksAwake, Silent
<1> QED BY <1>1, <1>2 DEF PoolIInv

\* Where the reader goes from a slot it is done with.
LEMMA NextSlotTypes ==
  ASSUME PoolTypeOK, NextSlot
  PROVE  /\ at' \in [slot : Slot, channel : Channel]
         /\ reader' \in {"node", "rest"}
         /\ moving' \in BOOLEAN
         /\ at'.channel = 1
         /\ reader' = "node" => at.slot < Slots /\ at'.slot = at.slot + 1
         /\ reader' = "rest" => at.slot = Slots /\ at'.slot = 1
<1>1. at \in [slot : Slot, channel : Channel] /\ moving \in BOOLEAN
  BY DEF PoolTypeOK
<1>2. at.slot \in 1..Slots
  BY <1>1 DEF Slot
<1>3. CASE at.slot < Slots
  <2>1. at' = [slot |-> at.slot + 1, channel |-> 1] /\ reader' = "node" /\ moving' = moving
    BY <1>3 DEF NextSlot
  <2>2. at.slot + 1 \in Slot
    BY <1>2, <1>3, Sizes DEF Slot
  <2> QED BY <1>1, <1>3, <2>1, <2>2, Sizes
<1>4. CASE ~(at.slot < Slots)
  <2>1. at' = [slot |-> 1, channel |-> 1] /\ reader' = "rest" /\ moving' \in BOOLEAN
    BY <1>4 DEF NextSlot
  <2>2. at.slot = Slots
    BY <1>2, <1>4, Sizes
  <2> QED BY <2>1, <2>2, Sizes
<1> QED BY <1>3, <1>4

LEMMA WriterTypes ==
  ASSUME PoolTypeOK, NEW n \in Node,
         \/ ClaimSlot(n) \/ Release(n) \/ Finish(n)
         \/ \E count \in Channel : \E loud \in SUBSET (1..count) : FoldLen(n, count, loud)
  PROVE  PoolTypeOK'
<1>1. CASE ClaimSlot(n)
  <2>1. node_id' \in [Slot -> Node \cup {NoNode}]
    BY <1>1 DEF ClaimSlot, PoolTypeOK
  <2>2. writer' = [writer EXCEPT ![n] = "zero len"]
        /\ UNCHANGED <<len, chans, pending, wake, todo, readerVars>>
    BY <1>1 DEF ClaimSlot, WriterAt
  <2> QED BY <2>1, <2>2 DEF PoolTypeOK, readerVars
<1>2. CASE Release(n)
  BY <1>2 DEF Release, WriterAt, PoolTypeOK, readerVars
<1>3. CASE ZeroLen(n)
  <2>1. len' \in [Slot -> 0..Channels]
    <3>1. len' = [len EXCEPT ![Held(n)] = 0] /\ len \in [Slot -> 0..Channels]
      BY <1>3 DEF ZeroLen, PoolTypeOK
    <3> QED BY <3>1, Sizes
  <2> QED BY <1>3, <2>1 DEF ZeroLen, WriterAt, PoolTypeOK, readerVars
<1>4. CASE ZeroChannel(n)
  BY <1>4 DEF ZeroChannel, WriterAt, PoolTypeOK, readerVars
<1>5. CASE FoldChannel(n)
  BY <1>5 DEF FoldChannel, WriterAt, PoolTypeOK, readerVars
<1>6. CASE SwapFlag(n)
  BY <1>6 DEF SwapFlag, WriterAt, PoolTypeOK, readerVars
<1>7. CASE Notify(n)
  <2>1. wake' \in Nat
    <3>1. wake \in Nat /\ wake' = wake + 1
      BY <1>7 DEF Notify, PoolTypeOK
    <3> QED BY <3>1
  <2> QED BY <1>7, <2>1 DEF Notify, WriterAt, PoolTypeOK, readerVars
<1>8. ASSUME NEW count \in Channel, NEW loud \in SUBSET (1..count), FoldLen(n, count, loud)
      PROVE  PoolTypeOK'
  <2>1. count \in 0..Channels /\ loud \subseteq Channel
    BY ChannelsAssumption DEF Channel
  <2> QED BY <1>8, <2>1 DEF FoldLen, WriterAt, PoolTypeOK, readerVars
<1> QED BY <1>1, <1>2, <1>3, <1>4, <1>5, <1>6, <1>7, <1>8 DEF Finish

LEMMA DrainTypes ==
  ASSUME PoolTypeOK, ReaderSound, Drain
  PROVE  PoolTypeOK' /\ ReaderSound'
<1>1. CASE BeginDrain
  <2>1. wake' = 0 /\ UNCHANGED pending
    BY <1>1 DEF BeginDrain, Clears
  <2> QED BY <1>1, <2>1, Sizes DEF BeginDrain, PoolTypeOK, ReaderSound, writerVars
<1>2. CASE ClearFlag
  <2>1. pending' = FALSE /\ UNCHANGED wake
    BY <1>2 DEF ClearFlag, Clears
  <2> QED BY <1>2, <2>1 DEF ClearFlag, PoolTypeOK, ReaderSound, writerVars
<1>3. CASE LoadNode
  <2>1. CASE node_id[at.slot] = NoNode
    <3>1. NextSlot /\ UNCHANGED <<read, node_id, len, chans, pending, wake, writerVars>>
          /\ shown' = NoNode
      BY <1>3, <2>1 DEF LoadNode
    <3> QED BY <3>1, NextSlotTypes DEF PoolTypeOK, ReaderSound, writerVars
  <2>2. CASE node_id[at.slot] # NoNode
    <3>1. node_id[at.slot] \in Node
      BY <2>2 DEF PoolTypeOK
    <3>2. read' = [node |-> node_id[at.slot], len |-> 0, peaks |-> {}]
      BY <1>3, <2>2 DEF LoadNode, Nothing
    <3>3. read' \in [node : Node \cup {NoNode}, len : 0..Channels, peaks : SUBSET Node]
      BY <3>1, <3>2, ChannelsAssumption
    <3> QED BY <1>3, <2>2, <3>1, <3>2, <3>3 DEF LoadNode, PoolTypeOK, ReaderSound, writerVars
  <2> QED BY <2>1, <2>2
<1>4. CASE LoadLen
  <2>1. len[at.slot] \in 0..Channels
    BY DEF PoolTypeOK
  <2> QED BY <1>4, <2>1 DEF LoadLen, PoolTypeOK, ReaderSound, writerVars
<1>5. CASE SwapChannel
  <2> DEFINE peak == chans[at.slot][at.channel]
  <2>1. peak \in Node \cup {NoNode}
    <3>1. /\ chans \in [Slot -> [Channel -> Node \cup {NoNode}]]
          /\ at \in [slot : Slot, channel : Channel]
      BY DEF PoolTypeOK
    <3> QED BY <3>1
  <2>2. read' \in [node : Node \cup {NoNode}, len : 0..Channels, peaks : SUBSET Node]
        /\ read'.node = read.node
    BY <1>5, <2>1 DEF SwapChannel, PoolTypeOK
  <2>3. at' \in [slot : Slot, channel : Channel] /\ reader' \in {"chans", "sink"}
    <3>1. at \in [slot : Slot, channel : Channel]
      BY DEF PoolTypeOK
    <3>2. CASE at.channel < Channels
      <4>1. at' = [at EXCEPT !.channel = @ + 1] /\ reader' = "chans"
        BY <1>5, <3>2 DEF SwapChannel
      <4>2. at.channel + 1 \in Channel
        BY <3>1, <3>2, Sizes DEF Channel
      <4> QED BY <3>1, <4>1, <4>2
    <3>3. CASE ~(at.channel < Channels)
      BY <1>5, <3>1, <3>3 DEF SwapChannel
    <3> QED BY <3>2, <3>3
  <2>4. chans' \in [Slot -> [Channel -> Node \cup {NoNode}]]
    BY <1>5 DEF SwapChannel, PoolTypeOK
  <2> QED BY <1>5, <2>2, <2>3, <2>4 DEF SwapChannel, PoolTypeOK, ReaderSound, writerVars
<1>6. CASE Show
  <2>1. Nothing \in [node : Node \cup {NoNode}, len : 0..Channels, peaks : SUBSET Node]
    BY ChannelsAssumption DEF Nothing
  <2>2. read \in [node : Node, len : 0..Channels, peaks : SUBSET Node]
    BY <1>6 DEF Show, PoolTypeOK, ReaderSound
  <2>3. NextSlot /\ UNCHANGED <<node_id, len, chans, pending, wake, writerVars>>
        /\ shown' \in {NoNode, read} /\ read' = Nothing
    BY <1>6 DEF Show
  <2> QED BY <2>1, <2>2, <2>3, NextSlotTypes DEF PoolTypeOK, ReaderSound, writerVars
<1> QED BY <1>1, <1>2, <1>3, <1>4, <1>5, <1>6 DEF Drain

-----------------------------------------------------------------------------
(* Who touches what.                                                       *)

\* A drain takes peaks out and leaves the writers alone.
LEMMA DrainFrame ==
  ASSUME PoolTypeOK, Drain
  PROVE  /\ UNCHANGED <<node_id, writer, todo>>
         /\ \A s \in Slot, c \in Channel : chans'[s][c] \in {chans[s][c], NoNode}
<1>1. CASE SwapChannel
  BY <1>1 DEF SwapChannel, PoolTypeOK, writerVars
<1>2. CASE ~SwapChannel
  BY <1>2 DEF Drain, BeginDrain, ClearFlag, LoadNode, LoadLen, Show, writerVars
<1> QED BY <1>1, <1>2

\* A meter's channels are written by its claim and its callback alone.
LEMMA WriterFrame ==
  ASSUME PoolTypeOK, OwnerSound, NEW n \in Node,
         \/ ClaimSlot(n) \/ Release(n) \/ Finish(n)
         \/ \E count \in Channel : \E loud \in SUBSET (1..count) : FoldLen(n, count, loud)
  PROVE  /\ \A m \in Node \ {n} : writer'[m] = writer[m] /\ todo'[m] = todo[m]
         /\ \A s \in Slot : node_id[s] # n => chans'[s] = chans[s]
         /\ UNCHANGED <<reader, at>>
         /\ pending => pending'
<1>1. CASE ZeroChannel(n) \/ FoldChannel(n)
  <2>1. writer[n] # "off"
    BY <1>1 DEF ZeroChannel, FoldChannel
  <2>2. \A s \in Slot : node_id[s] # n => s # Held(n)
    BY <2>1, HeldIsOwn
  <2> QED BY <1>1, <2>2 DEF ZeroChannel, FoldChannel, WriterAt, PoolTypeOK, readerVars
<1>2. CASE ClaimSlot(n) \/ Release(n) \/ ZeroLen(n)
  BY <1>2 DEF ClaimSlot, Release, ZeroLen, WriterAt, PoolTypeOK, readerVars
<1>3. CASE SwapFlag(n) \/ Notify(n)
  BY <1>3 DEF SwapFlag, Notify, WriterAt, PoolTypeOK, readerVars
<1>4. ASSUME NEW count \in Channel, NEW loud \in SUBSET (1..count), FoldLen(n, count, loud)
      PROVE  /\ \A m \in Node \ {n} : writer'[m] = writer[m] /\ todo'[m] = todo[m]
             /\ UNCHANGED <<chans, reader, at, pending>>
  BY <1>4 DEF FoldLen, WriterAt, PoolTypeOK, readerVars
<1> QED BY <1>1, <1>2, <1>3, <1>4 DEF Finish

LEMMA OwnerKept ==
  ASSUME PoolTypeOK, OwnerSound, NEW n \in Node,
         \/ ClaimSlot(n) \/ Release(n) \/ Finish(n)
         \/ \E count \in Channel : \E loud \in SUBSET (1..count) : FoldLen(n, count, loud)
  PROVE  OwnerSound'
<1>1. CASE ClaimSlot(n)
  <2>1. PICK s \in Slot : node_id[s] = NoNode /\ node_id' = [node_id EXCEPT ![s] = n]
    BY <1>1 DEF ClaimSlot
  <2>2. writer[n] = "off" /\ writer' = [writer EXCEPT ![n] = "zero len"]
    BY <1>1 DEF ClaimSlot, WriterAt
  <2>3. \A t \in Slot : node_id[t] # n
    BY <2>2, NodeAssumption DEF OwnerSound
  <2>4. node_id'[s] = n /\ \A t \in Slot \ {s} : node_id'[t] = node_id[t]
    BY <2>1 DEF PoolTypeOK
  <2>5. writer'[n] = "zero len" /\ \A m \in Node \ {n} : writer'[m] = writer[m]
    BY <2>2 DEF PoolTypeOK
  <2>6. \A t \in Slot : node_id[t] \in Node \cup {NoNode}
    BY DEF PoolTypeOK
  <2>7. \A t \in Slot : node_id'[t] # NoNode => writer'[node_id'[t]] # "off"
    <3>1. \A t \in Slot \ {s} : node_id'[t] # NoNode => writer'[node_id'[t]] = writer[node_id[t]]
      BY <2>3, <2>4, <2>5, <2>6
    <3> QED BY <2>4, <2>5, <3>1 DEF OwnerSound
  <2>8. \A t, u \in Slot : node_id'[t] = node_id'[u] /\ node_id'[t] # NoNode => t = u
    BY <2>3, <2>4 DEF OwnerSound
  <2>9. \A m \in Node : writer'[m] # "off" => \E t \in Slot : node_id'[t] = m
    <3> SUFFICES ASSUME NEW m \in Node, writer'[m] # "off"
                 PROVE  \E t \in Slot : node_id'[t] = m
      OBVIOUS
    <3>1. CASE m = n
      BY <2>4, <3>1
    <3>2. CASE m # n
      <4>1. PICK t \in Slot : node_id[t] = m
        BY <2>5, <3>2 DEF OwnerSound
      <4>2. t # s
        BY <2>1, <4>1, NodeAssumption
      <4> QED BY <2>4, <4>1, <4>2
    <3> QED BY <3>1, <3>2
  <2> QED BY <2>7, <2>8, <2>9 DEF OwnerSound
<1>2. CASE Release(n)
  <2>1. writer[n] = "idle" /\ writer' = [writer EXCEPT ![n] = "off"]
        /\ node_id' = [node_id EXCEPT ![Held(n)] = NoNode]
    BY <1>2 DEF Release, WriterAt
  <2>2. /\ Held(n) \in Slot
        /\ node_id[Held(n)] = n
        /\ \A s \in Slot : node_id[s] = n => s = Held(n)
    BY <2>1, HeldIsOwn
  <2>3. node_id'[Held(n)] = NoNode /\ \A s \in Slot \ {Held(n)} : node_id'[s] = node_id[s]
    BY <2>1, <2>2 DEF PoolTypeOK
  <2>4. writer'[n] = "off" /\ \A m \in Node \ {n} : writer'[m] = writer[m]
    BY <2>1 DEF PoolTypeOK
  <2>5. \A s \in Slot : node_id[s] \in Node \cup {NoNode}
    BY DEF PoolTypeOK
  <2>6. \A t \in Slot : node_id'[t] # NoNode => writer'[node_id'[t]] # "off"
    BY <2>2, <2>3, <2>4, <2>5 DEF OwnerSound
  <2>7. \A t, u \in Slot : node_id'[t] = node_id'[u] /\ node_id'[t] # NoNode => t = u
    BY <2>3 DEF OwnerSound
  <2>8. \A m \in Node : writer'[m] # "off" => \E t \in Slot : node_id'[t] = m
    BY <2>2, <2>3, <2>4 DEF OwnerSound
  <2> QED BY <2>6, <2>7, <2>8 DEF OwnerSound
<1>3. ASSUME UNCHANGED node_id, writer[n] # "off", writer'[n] # "off"
      PROVE  OwnerSound'
  <2>1. \A m \in Node : writer'[m] # "off" <=> writer[m] # "off"
    BY <1>3, WriterFrame
  <2>2. \A s \in Slot : node_id[s] \in Node \cup {NoNode}
    BY DEF PoolTypeOK
  <2> QED BY <1>3, <2>1, <2>2 DEF OwnerSound
<1>4. CASE Finish(n)
  BY <1>3, <1>4
  DEF Finish, ZeroLen, ZeroChannel, FoldChannel, SwapFlag, Notify, WriterAt, PoolTypeOK
<1>5. ASSUME NEW count \in Channel, NEW loud \in SUBSET (1..count), FoldLen(n, count, loud)
      PROVE  OwnerSound'
  BY <1>3, <1>5 DEF FoldLen, WriterAt, PoolTypeOK
<1> QED BY <1>1, <1>2, <1>4, <1>5

-----------------------------------------------------------------------------
(* The flag and its wake.                                                  *)

LEMMA WakeKept ==
  ASSUME PoolTypeOK, FlagHasAWake, [PoolNext]_poolVars
  PROVE  FlagHasAWake'
<1>1. ASSUME NEW n \in Node, Notify(n) PROVE FlagHasAWake'
  <2>1. wake \in Nat /\ wake' = wake + 1
    BY <1>1 DEF Notify, PoolTypeOK
  <2> QED BY <2>1 DEF FlagHasAWake
<1>2. ASSUME NEW n \in Node, SwapFlag(n) PROVE FlagHasAWake'
  <2>1. CASE pending
    <3>1. writer[n] = "flag" /\ writer' = [writer EXCEPT ![n] = "idle"]
          /\ UNCHANGED <<wake, reader>>
      BY <1>2, <2>1 DEF SwapFlag, WriterAt, readerVars
    <3>2. \A m \in Node : writer[m] = "signal" => writer'[m] = "signal"
      BY <3>1 DEF PoolTypeOK
    <3> QED BY <2>1, <3>1, <3>2 DEF FlagHasAWake
  <2>2. CASE ~pending
    BY <1>2, <2>2 DEF SwapFlag, WriterAt, PoolTypeOK, FlagHasAWake
  <2> QED BY <2>1, <2>2
<1>3. ASSUME NEW n \in Node,
             \/ ClaimSlot(n) \/ Release(n) \/ ZeroLen(n) \/ ZeroChannel(n) \/ FoldChannel(n)
             \/ \E count \in Channel : \E loud \in SUBSET (1..count) : FoldLen(n, count, loud)
      PROVE  FlagHasAWake'
  <2>1. writer[n] # "signal" /\ UNCHANGED <<pending, wake, reader>>
    BY <1>3 DEF ClaimSlot, Release, ZeroLen, ZeroChannel, FoldChannel, FoldLen, readerVars
  <2>2. \A m \in Node \ {n} : writer'[m] = writer[m]
    BY <1>3 DEF ClaimSlot, Release, ZeroLen, ZeroChannel, FoldChannel, FoldLen, WriterAt, PoolTypeOK
  <2> QED BY <2>1, <2>2 DEF FlagHasAWake
<1>4. CASE Drain
  <2>1. CASE BeginDrain
    BY <2>1 DEF BeginDrain, FlagHasAWake
  <2>2. CASE ClearFlag
    BY <2>2 DEF ClearFlag, Clears, FlagHasAWake
  <2>3. CASE LoadNode \/ LoadLen \/ SwapChannel \/ Show
    BY <2>3 DEF LoadNode, LoadLen, SwapChannel, Show, writerVars, FlagHasAWake
  <2> QED BY <1>4, <2>1, <2>2, <2>3 DEF Drain
<1>5. CASE UNCHANGED poolVars
  BY <1>5 DEF poolVars, writerVars, readerVars, FlagHasAWake
<1> QED BY <1>1, <1>2, <1>3, <1>4, <1>5 DEF PoolNext, Finish

-----------------------------------------------------------------------------
(* Claims leave silence behind.                                            *)

\* A meter whose slot stays its own keeps what its claim has zeroed.
LEMMA ZeroedKept ==
  ASSUME PoolTypeOK, OwnerSound, ZeroedSound, [PoolNext]_poolVars, OwnerSound', PoolTypeOK'
  PROVE  ZeroedSound'
<1>1. ASSUME NEW m \in Node, writer'[m] = "zero chans", writer[m] = "zero chans",
             node_id'[Held(m)] = m, todo'[m] = todo[m],
             \A c \in Channel : chans'[Held(m)][c] \in {chans[Held(m)][c], NoNode}
      PROVE  \A c \in Channel \ todo'[m] : chans'[Held(m)'][c] = NoNode
  <2>1. Held(m) \in Slot
    BY <1>1, HeldIsOwn
  <2>2. Held(m)' = Held(m)
    <3>1. \A s \in Slot : node_id'[s] = m => s = Held(m)
      <4>1. \A s, t \in Slot : node_id'[s] = node_id'[t] /\ node_id'[s] # NoNode => s = t
        BY DEF OwnerSound
      <4> QED BY <1>1, <2>1, <4>1, NodeAssumption
    <3> QED BY <1>1, <2>1, <3>1 DEF Held
  <2> QED BY <1>1, <2>2 DEF ZeroedSound
<1>2. ASSUME NEW n \in Node,
             \/ ClaimSlot(n) \/ Release(n) \/ Finish(n)
             \/ \E count \in Channel : \E loud \in SUBSET (1..count) : FoldLen(n, count, loud)
      PROVE  ZeroedSound'
  <2>1. ASSUME NEW m \in Node \ {n}, writer'[m] = "zero chans"
        PROVE  \A c \in Channel \ todo'[m] : chans'[Held(m)'][c] = NoNode
    <3>1. writer[m] = "zero chans" /\ todo'[m] = todo[m]
      BY <1>2, <2>1, WriterFrame
    <3>2. Held(m) \in Slot /\ node_id[Held(m)] = m
      BY <3>1, HeldIsOwn
    <3>3. chans'[Held(m)] = chans[Held(m)]
      BY <1>2, <3>2, WriterFrame
    <3>4. node_id'[Held(m)] = m
      <4>1. CASE ClaimSlot(n)
        <5>1. PICK s \in Slot : node_id[s] = NoNode /\ node_id' = [node_id EXCEPT ![s] = n]
          BY <4>1 DEF ClaimSlot
        <5> QED BY <3>2, <5>1, NodeAssumption DEF PoolTypeOK
      <4>2. CASE Release(n)
        <5>1. writer[n] # "off" /\ node_id' = [node_id EXCEPT ![Held(n)] = NoNode]
          BY <4>2 DEF Release
        <5>2. Held(n) # Held(m)
          BY <3>2, <5>1, HeldIsOwn
        <5> QED BY <3>2, <5>1, <5>2 DEF PoolTypeOK
      <4>3. CASE UNCHANGED node_id
        BY <3>2, <4>3
      <4> QED
        BY <1>2, <4>1, <4>2, <4>3
        DEF Finish, ZeroLen, ZeroChannel, FoldChannel, SwapFlag, Notify, FoldLen
    <3> QED BY <1>1, <2>1, <3>1, <3>3, <3>4
  <2>2. ASSUME writer'[n] = "zero chans"
        PROVE  \A c \in Channel \ todo'[n] : chans'[Held(n)'][c] = NoNode
    <3>1. CASE ZeroLen(n)
      BY <3>1 DEF ZeroLen, PoolTypeOK
    <3>2. CASE ZeroChannel(n)
      <4>1. writer[n] = "zero chans" /\ UNCHANGED node_id
        BY <3>2 DEF ZeroChannel
      <4>2. Held(n) \in Slot /\ Held(n)' = Held(n)
        BY <4>1, HeldIsOwn DEF Held
      <4>3. chans' = [chans EXCEPT ![Held(n)][Min(todo[n])] = NoNode]
            /\ todo' = [todo EXCEPT ![n] = @ \ {Min(todo[n])}]
        BY <3>2 DEF ZeroChannel
      <4>4. todo'[n] = todo[n] \ {Min(todo[n])}
        BY <4>3 DEF PoolTypeOK
      <4>5. \A c \in Channel : chans'[Held(n)][c] =
              IF c = Min(todo[n]) THEN NoNode ELSE chans[Held(n)][c]
        BY <4>2, <4>3 DEF PoolTypeOK
      <4> QED BY <4>1, <4>2, <4>4, <4>5 DEF ZeroedSound
    <3>3. CASE ~ZeroLen(n) /\ ~ZeroChannel(n)
      BY <1>2, <2>2, <3>3
      DEF Finish, ClaimSlot, Release, FoldChannel, SwapFlag, Notify, FoldLen, WriterAt, PoolTypeOK
    <3> QED BY <3>1, <3>2, <3>3
  <2> QED BY <2>1, <2>2 DEF ZeroedSound
<1>3. CASE Drain
  <2> SUFFICES ASSUME NEW m \in Node, writer'[m] = "zero chans"
               PROVE  \A c \in Channel \ todo'[m] : chans'[Held(m)'][c] = NoNode
    BY DEF ZeroedSound
  <2>1. writer[m] = "zero chans" /\ todo'[m] = todo[m] /\ UNCHANGED node_id
    BY <1>3, DrainFrame
  <2>2. Held(m) \in Slot /\ node_id[Held(m)] = m
    BY <2>1, HeldIsOwn
  <2>3. \A c \in Channel : chans'[Held(m)][c] \in {chans[Held(m)][c], NoNode}
    BY <1>3, <2>2, DrainFrame
  <2> QED BY <1>1, <2>1, <2>2, <2>3
<1>4. CASE UNCHANGED poolVars
  <2>1. UNCHANGED <<node_id, chans, writer, todo>>
    BY <1>4 DEF poolVars, writerVars
  <2>2. \A m \in Node : Held(m)' = Held(m)
    BY <2>1 DEF Held
  <2> QED BY <2>1, <2>2 DEF ZeroedSound
<1> QED BY <1>2, <1>3, <1>4 DEF PoolNext

-----------------------------------------------------------------------------
(* No peak asleep.                                                         *)

\* A step of a writer wakes what it leaves, and its claim leaves nothing.
LEMMA WriterLeavesAwake ==
  ASSUME PoolIInv, PoolTypeOK', OwnerSound', ZeroedSound', NEW n \in Node,
         \/ ClaimSlot(n) \/ Release(n) \/ Finish(n)
         \/ \E count \in Channel : \E loud \in SUBSET (1..count) : FoldLen(n, count, loud)
  PROVE  PeaksAwake'
<1> USE DEF PoolIInv
<1> SUFFICES ASSUME NEW s \in Slot, NEW c \in Channel, chans'[s][c] # NoNode,
                    node_id'[s] # NoNode, writer'[node_id'[s]] \in {"idle", "signal"}
             PROVE  pending' \/ Ahead(s, c)'
  BY DEF PeaksAwake
<1>1. UNCHANGED <<reader, at>> /\ (pending => pending')
  BY WriterFrame
<1>2. Ahead(s, c) => Ahead(s, c)'
  BY <1>1 DEF Ahead
<1>3. node_id'[s] \in Node
  BY DEF PoolTypeOK
<1>4. CASE node_id'[s] # n
  <2>1. node_id[s] = node_id'[s]
    <3>1. CASE ClaimSlot(n)
      BY <1>4, <3>1 DEF ClaimSlot, PoolTypeOK
    <3>2. CASE Release(n)
      <4>1. node_id' = [node_id EXCEPT ![Held(n)] = NoNode]
        BY <3>2 DEF Release
      <4> QED BY <1>3, <4>1, NodeAssumption DEF PoolTypeOK
    <3>3. CASE UNCHANGED node_id
      BY <3>3
    <3> QED
      BY <3>1, <3>2, <3>3
      DEF Finish, ZeroLen, ZeroChannel, FoldChannel, SwapFlag, Notify, FoldLen
  <2>2. chans'[s] = chans[s] /\ writer'[node_id[s]] = writer[node_id[s]]
    BY <1>3, <1>4, <2>1, WriterFrame
  <2> QED BY <1>1, <1>2, <1>3, <2>1, <2>2, NodeAssumption DEF PeaksAwake
<1>5. CASE node_id'[s] = n
  <2>1. CASE SwapFlag(n)
    BY <2>1 DEF SwapFlag
  <2>2. CASE Notify(n)
    BY <1>1, <1>2, <1>5, <2>2, NodeAssumption DEF Notify, readerVars, PeaksAwake
  <2>3. CASE ZeroChannel(n)
    <3>1. writer[n] = "zero chans" /\ UNCHANGED node_id
          /\ writer'[n] = IF todo'[n] = {} THEN "idle" ELSE "zero chans"
      BY <2>3 DEF ZeroChannel, WriterAt, PoolTypeOK
    <3>2. todo'[n] = {}
      BY <1>5, <3>1
    <3>3. todo[n] \ {Min(todo[n])} = {}
      BY <2>3, <3>2 DEF ZeroChannel, PoolTypeOK
    <3>4. s = Held(n)
      BY <1>5, <3>1, HeldIsOwn
    <3>5. chans'[s][c] = IF c = Min(todo[n]) THEN NoNode ELSE chans[s][c]
      BY ZenonT(60), <2>3, <3>4 DEF ZeroChannel, PoolTypeOK
    <3>6. c # Min(todo[n]) => chans[s][c] = NoNode
      BY <3>1, <3>3, <3>4 DEF ZeroedSound
    <3> QED BY <3>5, <3>6
  <2>4. ASSUME NEW count \in Channel, NEW loud \in SUBSET (1..count), FoldLen(n, count, loud)
        PROVE  pending' \/ Ahead(s, c)'
    BY <1>1, <1>2, <1>5, <2>4, NodeAssumption DEF FoldLen, readerVars, PeaksAwake
  <2>5. CASE ClaimSlot(n) \/ Release(n) \/ ZeroLen(n) \/ FoldChannel(n)
    BY <1>5, <2>5 DEF ClaimSlot, Release, ZeroLen, FoldChannel, WriterAt, PoolTypeOK
  <2> QED BY <2>1, <2>2, <2>3, <2>4, <2>5 DEF Finish
<1> QED BY <1>4, <1>5

\* A drain passes a slot only once it has taken out all of its peaks.
LEMMA DrainLeavesAwake ==
  ASSUME PoolIInv, PoolTypeOK', ReaderSound', Drain
  PROVE  PeaksAwake'
<1> USE DEF PoolIInv
<1> SUFFICES ASSUME NEW s \in Slot, NEW c \in Channel, chans'[s][c] # NoNode,
                    node_id'[s] # NoNode, writer'[node_id'[s]] \in {"idle", "signal"}
             PROVE  pending' \/ Ahead(s, c)'
  BY DEF PeaksAwake
<1>1. UNCHANGED <<node_id, writer>> /\ chans[s][c] = chans'[s][c]
  BY DrainFrame
<1>2. pending \/ Ahead(s, c)
  BY <1>1 DEF PeaksAwake
<1>3. s \in 1..Slots /\ c \in 1..Channels /\ at.slot \in 1..Slots /\ at.channel \in 1..Channels
      /\ Slots \in Nat /\ Channels \in Nat
  BY SlotsAssumption, ChannelsAssumption DEF PoolTypeOK, Slot, Channel
<1>4. CASE BeginDrain
  BY <1>4 DEF BeginDrain, Ahead
<1>5. CASE ClearFlag
  BY <1>3, <1>5 DEF ClearFlag, ReaderSound, Ahead
<1>6. CASE LoadNode
  <2>1. CASE node_id[at.slot] = NoNode
    <3>1. NextSlot /\ UNCHANGED pending /\ reader = "node"
      BY <1>6, <2>1 DEF LoadNode
    <3>2. s # at.slot
      BY <1>1, <2>1
    <3> QED BY <1>2, <1>3, <3>1, <3>2, NextSlotTypes DEF Ahead
  <2>2. CASE node_id[at.slot] # NoNode
    BY <1>2, <1>6, <2>2 DEF LoadNode, Ahead
  <2> QED BY <2>1, <2>2
<1>7. CASE LoadLen
  BY <1>2, <1>3, <1>7 DEF LoadLen, ReaderSound, Ahead
<1>8. CASE SwapChannel
  <2>1. reader = "chans" /\ UNCHANGED pending
    BY <1>8 DEF SwapChannel
  <2>2. chans' = [chans EXCEPT ![at.slot][at.channel] = NoNode]
    BY <1>8 DEF SwapChannel
  <2>3. ~(s = at.slot /\ c = at.channel)
    BY <2>2 DEF PoolTypeOK
  <2>4. CASE at.channel < Channels
    <3>1. at' = [at EXCEPT !.channel = @ + 1] /\ reader' = "chans"
      BY <1>8, <2>1, <2>4 DEF SwapChannel
    <3>2. at'.slot = at.slot /\ at'.channel = at.channel + 1
      BY <3>1 DEF PoolTypeOK
    <3> QED BY <1>2, <1>3, <2>1, <2>3, <3>1, <3>2 DEF Ahead
  <2>5. CASE ~(at.channel < Channels)
    <3>1. at' = at /\ reader' = "sink"
      BY <1>8, <2>5 DEF SwapChannel
    <3> QED BY <1>2, <1>3, <2>1, <2>3, <2>5, <3>1 DEF Ahead
  <2> QED BY <2>4, <2>5
<1>9. CASE Show
  <2>1. NextSlot /\ UNCHANGED pending /\ reader = "sink"
    BY <1>9 DEF Show
  <2> QED BY <1>2, <1>3, <2>1, NextSlotTypes DEF Ahead
<1> QED BY <1>4, <1>5, <1>6, <1>7, <1>8, <1>9 DEF Drain

-----------------------------------------------------------------------------

LEMMA PoolNextIInv == PoolIInv /\ [PoolNext]_poolVars => PoolIInv'
<1> SUFFICES ASSUME PoolIInv, [PoolNext]_poolVars PROVE PoolIInv'
  OBVIOUS
<1> USE DEF PoolIInv
<1>1. FlagHasAWake'
  BY WakeKept
<1>2. ASSUME NEW n \in Node,
             \/ ClaimSlot(n) \/ Release(n) \/ Finish(n)
             \/ \E count \in Channel : \E loud \in SUBSET (1..count) : FoldLen(n, count, loud)
      PROVE  PoolIInv'
  <2>1. PoolTypeOK' /\ OwnerSound'
    BY <1>2, WriterTypes, OwnerKept
  <2>2. ZeroedSound'
    BY <2>1, ZeroedKept
  <2>3. ReaderSound'
    BY <1>2
    DEF ReaderSound, Finish, ClaimSlot, Release, ZeroLen, ZeroChannel, FoldChannel, SwapFlag,
        Notify, FoldLen, readerVars
  <2>4. PeaksAwake'
    BY <1>2, <2>1, <2>2, WriterLeavesAwake
  <2> QED BY <1>1, <2>1, <2>2, <2>3, <2>4
<1>3. CASE Drain
  <2>1. PoolTypeOK' /\ ReaderSound'
    BY <1>3, DrainTypes
  <2>2. OwnerSound'
    BY <1>3, DrainFrame DEF OwnerSound
  <2>3. ZeroedSound'
    BY <2>1, <2>2, ZeroedKept
  <2>4. PeaksAwake'
    BY <1>3, <2>1, DrainLeavesAwake
  <2> QED BY <1>1, <2>1, <2>2, <2>3, <2>4
<1>4. CASE UNCHANGED poolVars
  <2>1. PoolTypeOK' /\ ReaderSound' /\ OwnerSound'
    BY <1>4 DEF poolVars, writerVars, readerVars, PoolTypeOK, ReaderSound, OwnerSound
  <2>2. PeaksAwake'
    BY <1>4 DEF poolVars, writerVars, readerVars, PeaksAwake, Ahead
  <2>3. ZeroedSound'
    BY <2>1, ZeroedKept
  <2> QED BY <1>1, <2>1, <2>2, <2>3
<1> QED BY <1>2, <1>3, <1>4 DEF PoolNext

LEMMA PoolSafetyIInv == PoolSafety => []PoolIInv
BY PoolInitIInv, PoolNextIInv, PTL DEF PoolSafety

\* The pool keeps its shape and a drain stays inside it, for any number of
\* slots and channels.
THEOREM PoolTypeCorrect == PoolSafety => []PoolTypeOK
BY PoolSafetyIInv, PTL DEF PoolIInv

\* The flag that silences later folds always has its wake: no interleaving of
\* PeakPool::drain and any number of MeterSlot::fold strands it.
THEOREM FlagHolds == PoolSafety => []FlagHasAWake
BY PoolSafetyIInv, PTL DEF PoolIInv

\* No audible peak of a live meter is left where no drain will look, through
\* claims, releases and reuse of slots.
THEOREM AwakeHolds == PoolSafety => []NoPeakAsleep
<1>1. PoolIInv => NoPeakAsleep
  BY DEF PoolIInv, PeaksAwake, NoPeakAsleep
<1> QED BY <1>1, PoolSafetyIInv, PTL

-----------------------------------------------------------------------------
(* The lock of one window.                                                 *)

\* Sockets that take connections belong to processes that show a window, are
\* about to, or are closing one.
ListenersRun == \A p \in listening : pc[p] \in {"set up", "up", "leaving"}

\* The file goes before the socket: nobody finds the way to one that leaves.
LeaversUnlinked == path # None => pc[path] # "leaving"

LockIInv == LockTypeOK /\ ListenersRun /\ LeaversUnlinked

-----------------------------------------------------------------------------

LEMMA LockInitIInv == LockInit => LockIInv
<1> SUFFICES ASSUME LockInit PROVE LockIInv
  OBVIOUS
<1>1. 1 \in 1..Turns
  BY TurnsAssumption
<1>2. turn \in [Launch -> 1..Turns]
  BY <1>1 DEF LockInit
<1>3. pc \in [Launch -> {"idle", "up", "alone", "handed", "leaving", "gone"} \cup Claiming]
  BY DEF LockInit
<1> QED BY <1>2, <1>3 DEF LockInit, LockIInv, LockTypeOK, ListenersRun, LeaversUnlinked

\* A step of a process is at one of the points a process can be at.
LEMMA PlacesKept ==
  ASSUME LockTypeOK, NEW p \in Launch, NEW where, Goes(p, where),
         where \in {"idle", "up", "alone", "handed", "leaving", "gone"} \cup Claiming
  PROVE  /\ pc' \in [Launch -> {"idle", "up", "alone", "handed", "leaving", "gone"} \cup Claiming]
         /\ pc'[p] = where
         /\ \A q \in Launch \ {p} : pc'[q] = pc[q]
BY DEF LockTypeOK, Goes

\* What a process that closes its socket leaves behind.
LEMMA ClosesKeeps ==
  ASSUME LockTypeOK, NEW p \in Launch, Closes(p)
  PROVE  /\ listening' = listening \ {p} /\ listening' \subseteq Launch
         /\ waiting' \in [Launch -> SUBSET Launch]
BY DEF LockTypeOK, Closes

\* A launch becomes one that gave way by Connect alone.
LEMMA OnlyConnectHands ==
  ASSUME LockTypeOK, NEW p \in Launch, pc[p] = "connect", pc'[p] = "handed", NEW q \in Launch,
         Start(q) \/ Claim(q) \/ Accept(q) \/ Leave(q) \/ Left(q) \/ Crash(q)
  PROVE  Connect(p)
<1>1. ASSUME NEW where, Goes(q, where) PROVE p = q /\ where = "handed"
  BY <1>1 DEF Goes, LockTypeOK
<1>2. ~UNCHANGED pc
  OBVIOUS
<1>3. CASE Start(q) \/ Accept(q) \/ Leave(q) \/ Left(q) \/ Crash(q)
  BY <1>1, <1>2, <1>3 DEF Start, Accept, Leave, Left, Crash
<1>4. CASE Claim(q)
  <2>1. CASE Bind(q)
    BY <1>1, <2>1 DEF Bind
  <2>2. CASE Clear(q)
    BY <1>1, <2>2 DEF Clear
  <2>3. CASE CannotBind(q) \/ Listen(q) \/ SetUp(q) \/ CannotSetUp(q)
    BY <1>1, <2>3 DEF CannotBind, Listen, SetUp, CannotSetUp
  <2>4. CASE Connect(q)
    BY <1>1, <2>4 DEF Connect
  <2> QED BY <1>4, <2>1, <2>2, <2>3, <2>4 DEF Claim
<1> QED BY <1>3, <1>4

LEMMA ClaimKeeps ==
  ASSUME LockIInv, NEW p \in Launch, Claim(p)
  PROVE  LockIInv'
<1> USE DEF LockIInv
<1>1. CASE Bind(p)
  <2>1. CASE path = None
    <3>1. Goes(p, "listen") /\ path' = p /\ UNCHANGED <<turn, listening, waiting, raised>>
          /\ pc[p] = "bind"
      BY <1>1, <2>1 DEF Bind
    <3>2. /\ pc' \in [Launch -> {"idle", "up", "alone", "handed", "leaving", "gone"} \cup Claiming]
          /\ pc'[p] = "listen"
          /\ \A q \in Launch \ {p} : pc'[q] = pc[q]
      BY <3>1, PlacesKept DEF Claiming
    <3>3. LockTypeOK'
      BY <3>1, <3>2 DEF LockTypeOK
    <3>4. ListenersRun'
      BY <3>1, <3>2 DEF LockTypeOK, ListenersRun
    <3>5. LeaversUnlinked'
      BY <3>1, <3>2 DEF LeaversUnlinked
    <3> QED BY <3>3, <3>4, <3>5
  <2>2. CASE path # None
    <3>1. Goes(p, "connect") /\ UNCHANGED <<turn, path, listening, waiting, raised>>
          /\ pc[p] = "bind"
      BY <1>1, <2>2 DEF Bind
    <3> QED BY <3>1, PlacesKept DEF LockTypeOK, ListenersRun, LeaversUnlinked, Claiming
  <2> QED BY <2>1, <2>2
<1>2. CASE CannotBind(p)
  <2>1. Goes(p, "alone") /\ UNCHANGED <<turn, path, listening, waiting, raised>>
        /\ pc[p] = "bind"
    BY <1>2 DEF CannotBind
  <2> QED BY <2>1, PlacesKept DEF LockTypeOK, ListenersRun, LeaversUnlinked
<1>3. CASE Listen(p)
  <2>1. Goes(p, "set up") /\ listening' = listening \cup {p}
        /\ UNCHANGED <<turn, path, waiting, raised>>
    BY <1>3 DEF Listen
  <2> QED BY <2>1, PlacesKept DEF LockTypeOK, ListenersRun, LeaversUnlinked, Claiming
<1>4. CASE SetUp(p)
  <2>1. Goes(p, "up") /\ UNCHANGED <<turn, path, listening, waiting, raised>>
    BY <1>4 DEF SetUp
  <2> QED BY <2>1, PlacesKept DEF LockTypeOK, ListenersRun, LeaversUnlinked
<1>5. CASE CannotSetUp(p)
  <2>1. Goes(p, "alone") /\ Closes(p) /\ UNCHANGED <<turn, path, raised>>
    BY <1>5 DEF CannotSetUp
  <2> QED BY <2>1, PlacesKept, ClosesKeeps DEF LockTypeOK, ListenersRun, LeaversUnlinked
<1>6. CASE Connect(p)
  <2>1. pc[p] = "connect" /\ UNCHANGED <<turn, path, listening, raised>>
    BY <1>6 DEF Connect
  <2>2. waiting' \in [Launch -> SUBSET Launch]
    BY <1>6 DEF Connect, LockTypeOK
  <2>3. Goes(p, "handed") \/ Goes(p, "clear")
    BY <1>6 DEF Connect
  <2> QED BY <2>1, <2>2, <2>3, PlacesKept DEF LockTypeOK, ListenersRun, LeaversUnlinked, Claiming
<1>7. CASE Clear(p)
  <2>1. pc[p] = "clear" /\ path' = None /\ UNCHANGED <<listening, waiting, raised>>
    BY <1>7 DEF Clear
  <2>2. Goes(p, "bind") \/ Goes(p, "alone")
    BY <1>7 DEF Clear
  <2>3. turn' \in [Launch -> 1..Turns]
    <3>1. turn \in [Launch -> 1..Turns] /\ Turns \in Nat
      BY TurnsAssumption DEF LockTypeOK
    <3>2. CASE path # None /\ turn[p] < Turns
      <4>1. turn' = [turn EXCEPT ![p] = @ + 1]
        BY <1>7, <3>2 DEF Clear
      <4>2. turn[p] + 1 \in 1..Turns
        BY <3>1, <3>2
      <4> QED BY <3>1, <4>1, <4>2
    <3>3. CASE ~(path # None /\ turn[p] < Turns)
      BY <1>7, <3>1, <3>3 DEF Clear
    <3> QED BY <3>2, <3>3
  <2> QED BY <2>1, <2>2, <2>3, PlacesKept DEF LockTypeOK, ListenersRun, LeaversUnlinked, Claiming
<1> QED BY <1>1, <1>2, <1>3, <1>4, <1>5, <1>6, <1>7 DEF Claim

LEMMA LockNextIInv == LockIInv /\ [LockNext]_lockVars => LockIInv'
<1> SUFFICES ASSUME LockIInv, [LockNext]_lockVars PROVE LockIInv'
  OBVIOUS
<1> USE DEF LockIInv
<1>1. ASSUME NEW p \in Launch, Start(p) PROVE LockIInv'
  <2>1. Goes(p, "bind") /\ UNCHANGED <<turn, path, listening, waiting, raised>>
        /\ pc[p] = "idle"
    BY <1>1 DEF Start
  <2> QED BY <2>1, PlacesKept DEF LockTypeOK, ListenersRun, LeaversUnlinked, Claiming
<1>2. ASSUME NEW p \in Launch, Accept(p) PROVE LockIInv'
  <2>1. raised' \subseteq Launch /\ waiting' \in [Launch -> SUBSET Launch]
        /\ UNCHANGED <<pc, turn, path, listening>>
    BY <1>2 DEF Accept, LockTypeOK
  <2> QED BY <2>1 DEF LockTypeOK, ListenersRun, LeaversUnlinked
<1>3. ASSUME NEW p \in Launch, Leave(p) PROVE LockIInv'
  <2>1. CASE pc[p] = "up"
    <3>1. Goes(p, "leaving") /\ path' = None /\ UNCHANGED <<turn, listening, waiting, raised>>
      BY <1>3, <2>1 DEF Leave, Dropping, Unlinks
    <3> QED BY <2>1, <3>1, PlacesKept DEF LockTypeOK, ListenersRun, LeaversUnlinked
  <2>2. CASE pc[p] = "alone"
    <3>1. Goes(p, "gone") /\ UNCHANGED <<turn, path, listening, waiting, raised>>
      BY <1>3, <2>2 DEF Leave
    <3> QED BY <2>2, <3>1, PlacesKept DEF LockTypeOK, ListenersRun, LeaversUnlinked
  <2> QED BY <1>3, <2>1, <2>2 DEF Leave
<1>4. ASSUME NEW p \in Launch, Left(p) \/ Crash(p) PROVE LockIInv'
  <2>1. Goes(p, "gone") /\ Closes(p) /\ UNCHANGED <<turn, path, raised>>
    BY <1>4 DEF Left, Dropping, Crash
  <2> QED BY <2>1, PlacesKept, ClosesKeeps DEF LockTypeOK, ListenersRun, LeaversUnlinked
<1>5. CASE UNCHANGED lockVars
  BY <1>5 DEF lockVars, LockTypeOK, ListenersRun, LeaversUnlinked
<1> QED BY <1>1, <1>2, <1>3, <1>4, <1>5, ClaimKeeps DEF LockNext

LEMMA LockSafetyIInv == LockSafety => []LockIInv
BY LockInitIInv, LockNextIInv, PTL DEF LockSafety

-----------------------------------------------------------------------------

\* The lock keeps its shape, and no claim goes past its turns, whatever the
\* number of launches and of turns.
THEOREM LockTypeCorrect == LockSafety => []LockTypeOK
BY LockSafetyIInv, PTL DEF LockIInv

\* claim_at hands over only to a process whose window is up or about to be:
\* Listener::drop takes the file away before it stops to listen.
THEOREM GivesWay == LockSafety => GivesWayToAWindow
<1>1. ASSUME LockIInv, [LockNext]_lockVars
      PROVE  [\A p \in Launch : pc[p] = "connect" /\ pc'[p] = "handed" =>
                \E q \in Launch : pc[q] \in {"set up", "up"}]_lockVars
  <2> SUFFICES ASSUME NEW p \in Launch, pc[p] = "connect", pc'[p] = "handed"
               PROVE  \E q \in Launch : pc[q] \in {"set up", "up"}
    OBVIOUS
  <2>1. PICK q \in Launch :
          Start(q) \/ Claim(q) \/ Accept(q) \/ Leave(q) \/ Left(q) \/ Crash(q)
    BY <1>1 DEF LockNext, lockVars
  <2>2. Connect(p)
    BY <1>1, <2>1, OnlyConnectHands DEF LockIInv
  <2>3. path \in listening
    <3>1. path \notin listening => Goes(p, "clear")
      BY <2>2 DEF Connect
    <3> QED BY <1>1, <3>1, PlacesKept DEF LockIInv, Claiming
  <2>4. path \in Launch /\ path # None
    <3>1. listening \subseteq Launch
      BY <1>1 DEF LockIInv, LockTypeOK
    <3> QED BY <2>3, <3>1, LaunchAssumption
  <2>5. pc[path] \in {"set up", "up", "leaving"} /\ pc[path] # "leaving"
    BY <1>1, <2>3, <2>4 DEF LockIInv, ListenersRun, LeaversUnlinked
  <2> QED BY <2>4, <2>5
<1> QED BY <1>1, LockSafetyIInv, PTL DEF LockSafety, GivesWayToAWindow

-----------------------------------------------------------------------------
(* Launches and exits that come one at a time (MCThreads).                  *)

\* While no launch has met another, one process claims, and the file is the one
\* of the window that is up or coming up, which listens.
OneClaims ==
  "launches met" \notin mishaps =>
    /\ \A p, q \in Launch : pc[p] \in Claiming /\ pc[q] \in Claiming => p = q
    /\ \A p \in Launch : pc[p] \in {"listen", "set up", "up"} => path = p
    /\ \A p \in Launch : pc[p] \in {"set up", "up"} => p \in listening
    /\ \A p \in Launch : pc[p] = "clear" => path \notin listening

\* While nothing has gone wrong at all, the file a launch found is there until
\* the launch itself takes it away, and no window goes without the lock.
InTurn ==
  mishaps = {} =>
    /\ \A p \in Launch : pc[p] # "alone"
    /\ \A p \in Launch : pc[p] \in {"connect", "clear"} => path # None
    /\ \A p \in Launch : pc[p] \in {"idle", "connect", "clear"} => turn[p] = 1
    /\ \A p \in Launch : pc[p] = "bind" /\ turn[p] # 1 => path = None


InTurnIInv == LockIInv /\ OneClaims /\ InTurn

\* A launch that starts, a window that closes and a lock that fails are noted.
LEMMA Noted ==
  ASSUME NEW p \in Launch
  PROVE  /\ Start(p) /\ SomeIn(Claiming) => "launches met" \in Mishaps
         /\ Leave(p) /\ SomeIn(Claiming) => "exit met" \in Mishaps
         /\ CannotBind(p) \/ CannotSetUp(p) => "lock failed" \in Mishaps
BY DEF Mishaps

LEMMA StartInTurn ==
  ASSUME InTurnIInv, NEW p \in Launch, Start(p), mishaps' = mishaps \cup Mishaps
  PROVE  OneClaims' /\ InTurn'
<1> USE DEF InTurnIInv, LockIInv
<1>1. /\ pc[p] = "idle" /\ pc'[p] = "bind" /\ \A q \in Launch \ {p} : pc'[q] = pc[q]
      /\ UNCHANGED <<turn, path, listening, waiting, raised>>
  BY PlacesKept DEF Start, Claiming
<1>2. "launches met" \notin mishaps' => \A q \in Launch : pc[q] \notin Claiming
  BY Noted DEF SomeIn
<1>3. mishaps' = {} => mishaps = {}
  OBVIOUS
<1>4. OneClaims'
  BY <1>1, <1>2, <1>3 DEF OneClaims, Claiming
<1>5. InTurn'
  BY <1>1, <1>2, <1>3 DEF InTurn, Claiming
<1> QED BY <1>4, <1>5

LEMMA ClaimInTurn ==
  ASSUME InTurnIInv, Turns > 1, NEW p \in Launch, Claim(p), mishaps' = mishaps \cup Mishaps
  PROVE  OneClaims' /\ InTurn'
<1> USE DEF InTurnIInv, LockIInv, Claiming
<1>1. mishaps' = {} => mishaps = {}
  OBVIOUS
<1>2. "launches met" \notin mishaps' => "launches met" \notin mishaps
  OBVIOUS
<1>3. CASE Bind(p)
  <2>1. pc[p] = "bind" /\ UNCHANGED <<turn, listening>>
        /\ IF path = None THEN path' = p /\ Goes(p, "listen") ELSE path' = path /\ Goes(p, "connect")
    BY <1>3 DEF Bind
  <2>2. /\ pc'[p] = IF path = None THEN "listen" ELSE "connect"
        /\ \A q \in Launch \ {p} : pc'[q] = pc[q]
    BY <2>1, PlacesKept
  <2>3. p # None
    BY LaunchAssumption
  <2>4. OneClaims'
    BY ZenonT(60), <1>2, <2>1, <2>2, <2>3, LaunchAssumption DEF OneClaims, LockTypeOK
  <2>5. InTurn'
    <3>1. mishaps = {} => \A q \in Launch \ {p} : pc[q] \notin Claiming
      BY <2>1 DEF OneClaims
    <3>2. mishaps = {} /\ path # None => turn[p] = 1
      BY <2>1 DEF InTurn
    <3> QED BY <1>1, <2>1, <2>2, <2>3, <3>1, <3>2 DEF InTurn
  <2> QED BY <2>4, <2>5
<1>4. CASE CannotBind(p) \/ CannotSetUp(p)
  <2>1. "lock failed" \in mishaps'
    BY <1>4, Noted
  <2>2. /\ UNCHANGED <<path, turn>> /\ pc[p] \in {"bind", "set up"}
        /\ listening' = listening \/ (pc[p] = "set up" /\ listening' = listening \ {p})
        /\ Goes(p, "alone")
    BY <1>4 DEF CannotBind, CannotSetUp, Closes
  <2>3. pc'[p] = "alone" /\ \A q \in Launch \ {p} : pc'[q] = pc[q]
    BY <2>2, PlacesKept
  <2>4. OneClaims'
    BY <1>2, <2>2, <2>3 DEF OneClaims
  <2> QED BY <2>1, <2>4 DEF InTurn
<1>5. CASE Listen(p)
  <2>1. pc[p] = "listen" /\ Goes(p, "set up") /\ listening' = listening \cup {p} /\ UNCHANGED <<turn, path>>
    BY <1>5 DEF Listen
  <2>2. pc'[p] = "set up" /\ \A q \in Launch \ {p} : pc'[q] = pc[q]
    BY <2>1, PlacesKept
  <2>3. OneClaims'
    BY <1>2, <2>1, <2>2 DEF OneClaims
  <2>4. InTurn'
    BY <1>1, <2>1, <2>2 DEF InTurn
  <2> QED BY <2>3, <2>4
<1>6. CASE SetUp(p)
  <2>1. pc[p] = "set up" /\ Goes(p, "up") /\ UNCHANGED <<turn, path, listening>>
    BY <1>6 DEF SetUp
  <2>2. pc'[p] = "up" /\ \A q \in Launch \ {p} : pc'[q] = pc[q]
    BY <2>1, PlacesKept
  <2> QED BY <1>1, <1>2, <2>1, <2>2 DEF OneClaims, InTurn
<1>7. CASE Connect(p)
  <2>1. /\ pc[p] = "connect" /\ UNCHANGED <<turn, path, listening>>
        /\ Goes(p, IF path \in listening THEN "handed" ELSE "clear")
    BY <1>7 DEF Connect
  <2>2. /\ pc'[p] = IF path \in listening THEN "handed" ELSE "clear"
        /\ \A q \in Launch \ {p} : pc'[q] = pc[q]
    BY <2>1, PlacesKept
  <2>3. OneClaims'
    BY <1>2, <2>1, <2>2 DEF OneClaims
  <2>4. InTurn'
    BY <1>1, <2>1, <2>2 DEF InTurn
  <2> QED BY <2>3, <2>4
<1>8. CASE Clear(p)
  <2>1. /\ pc[p] = "clear" /\ path' = None /\ UNCHANGED listening
        /\ IF path # None /\ turn[p] < Turns THEN turn' = [turn EXCEPT ![p] = @ + 1] /\ Goes(p, "bind")
                                             ELSE turn' = turn /\ Goes(p, "alone")
    BY <1>8 DEF Clear
  <2>2. /\ pc'[p] = IF path # None /\ turn[p] < Turns THEN "bind" ELSE "alone"
        /\ \A q \in Launch \ {p} : pc'[q] = pc[q] /\ turn'[q] = turn[q]
    BY <2>1, PlacesKept DEF LockTypeOK
  <2>3. OneClaims'
    <3>1. "launches met" \notin mishaps => \A q \in Launch : pc[q] \notin {"listen", "set up", "up"}
      BY <2>1 DEF OneClaims
    <3> QED BY <1>2, <2>1, <2>2, <3>1 DEF OneClaims
  <2>4. InTurn'
    <3>1. mishaps = {} => path # None /\ turn[p] < Turns
      BY <2>1 DEF InTurn
    <3>2. mishaps = {} => \A q \in Launch \ {p} : pc[q] \notin Claiming
      BY <2>1 DEF OneClaims
    <3> QED BY <1>1, <2>1, <2>2, <3>1, <3>2 DEF InTurn
  <2> QED BY <2>3, <2>4
<1> QED BY <1>3, <1>4, <1>5, <1>6, <1>7, <1>8 DEF Claim

LEMMA LeaveInTurn ==
  ASSUME InTurnIInv, NEW p \in Launch, Leave(p), mishaps' = mishaps \cup Mishaps
  PROVE  OneClaims' /\ InTurn'
<1> USE DEF InTurnIInv, LockIInv, Claiming
<1>1. mishaps' = {} => mishaps = {} /\ \A q \in Launch : pc[q] \notin Claiming
  BY Noted DEF SomeIn
<1>2. "launches met" \notin mishaps' => "launches met" \notin mishaps
  OBVIOUS
<1>3. CASE pc[p] = "up"
  <2>1. Goes(p, "leaving") /\ path' = None /\ UNCHANGED <<turn, listening>>
    BY <1>3 DEF Leave, Dropping, Unlinks
  <2>2. pc'[p] = "leaving" /\ \A q \in Launch \ {p} : pc'[q] = pc[q]
    BY <2>1, PlacesKept
  <2>3. "launches met" \notin mishaps => \A q \in Launch \ {p} : pc[q] \notin {"listen", "set up", "up"}
    BY <1>3 DEF OneClaims
  <2>4. None \notin listening
    BY LaunchAssumption DEF LockTypeOK
  <2>5. OneClaims'
    BY <1>2, <2>1, <2>2, <2>3, <2>4 DEF OneClaims
  <2>6. InTurn'
    BY <1>1, <2>1, <2>2 DEF InTurn
  <2> QED BY <2>5, <2>6
<1>4. CASE pc[p] = "alone"
  <2>1. Goes(p, "gone") /\ UNCHANGED <<turn, path, listening>>
    BY <1>4 DEF Leave
  <2>2. pc'[p] = "gone" /\ \A q \in Launch \ {p} : pc'[q] = pc[q]
    BY <2>1, PlacesKept
  <2> QED BY <1>1, <1>2, <2>1, <2>2 DEF OneClaims, InTurn
<1> QED BY <1>3, <1>4 DEF Leave

LEMMA GoneInTurn ==
  ASSUME InTurnIInv, NEW p \in Launch, Left(p) \/ Crash(p), mishaps' = mishaps \cup Mishaps
  PROVE  OneClaims' /\ InTurn'
<1> USE DEF InTurnIInv, LockIInv, Claiming
<1>1. Goes(p, "gone") /\ listening' = listening \ {p} /\ UNCHANGED <<turn, path>>
  BY DEF Left, Dropping, Closes, Crash
<1>2. pc'[p] = "gone" /\ \A q \in Launch \ {p} : pc'[q] = pc[q]
  BY <1>1, PlacesKept
<1>3. OneClaims'
  BY <1>1, <1>2 DEF OneClaims
<1>4. InTurn'
  BY <1>1, <1>2 DEF InTurn
<1> QED BY <1>3, <1>4

\* The second half of an exit closes the socket alone.
LEMMA LeftKeepsFile ==
  ASSUME NEW p \in Launch, Left(p)
  PROVE  path' = path
BY DEF Left, Dropping, Closes

LEMMA SceneInitInTurn == SceneInit => InTurnIInv
BY LockInitIInv DEF SceneInit, InTurnIInv, OneClaims, InTurn, LockInit, Claiming

LEMMA SceneNextInTurn ==
  ASSUME InTurnIInv, Turns > 1, [SceneNext]_threadsVars
  PROVE  InTurnIInv'
<1>1. CASE LockNext /\ mishaps' = mishaps \cup Mishaps
  <2>1. PICK p \in Launch : Start(p) \/ Claim(p) \/ Accept(p) \/ Leave(p) \/ Left(p) \/ Crash(p)
    BY <1>1 DEF LockNext
  <2>2. CASE Accept(p)
    <3>1. UNCHANGED <<pc, turn, path, listening>>
      BY <2>2 DEF Accept
    <3>2. OneClaims'
      BY <1>1, <3>1 DEF InTurnIInv, OneClaims
    <3>3. InTurn'
      BY <1>1, <3>1 DEF InTurnIInv, InTurn
    <3> QED BY <1>1, <3>2, <3>3, LockNextIInv DEF InTurnIInv
  <2>3. OneClaims' /\ InTurn'
    BY <1>1, <2>1, <2>2, StartInTurn, ClaimInTurn, LeaveInTurn, GoneInTurn DEF InTurnIInv
  <2> QED BY <1>1, <2>3, LockNextIInv DEF InTurnIInv
<1>2. CASE UNCHANGED <<lockVars, mishaps>>
  <2>1. LockIInv'
    BY <1>2, LockNextIInv DEF InTurnIInv
  <2> QED BY <1>2, <2>1 DEF InTurnIInv, OneClaims, InTurn, lockVars
<1> QED BY <1>1, <1>2 DEF SceneNext, threadsVars

\* "One window per session" (instance.rs): with launches and exits one at a time
\* there is never a second window, whatever was killed and left its file, and
\* however many launches there are. It takes a second turn at the bind.
THEOREM InTurnHolds == Turns > 1 => (SceneSpec => []OneWindowInTurn)
<1> SUFFICES ASSUME Turns > 1
             PROVE  SceneSpec => []OneWindowInTurn
  OBVIOUS
<1>1. InTurnIInv => OneWindowInTurn
  <2> SUFFICES ASSUME InTurnIInv, mishaps = {}, NEW p \in Windows, NEW q \in Windows
               PROVE  p = q
    BY DEF OneWindowInTurn, OneWindow
  <2>1. pc[p] = "up" /\ pc[q] = "up"
    BY DEF InTurnIInv, InTurn, Windows
  <2> QED BY <2>1 DEF InTurnIInv, OneClaims, Windows
<1>2. InTurnIInv /\ [SceneNext]_threadsVars => InTurnIInv'
  BY SceneNextInTurn
<1> QED BY <1>1, <1>2, SceneInitInTurn, PTL DEF SceneSpec

\* Listener's drop takes away the file of its own process, as long as no two
\* launches have been under way at once.
THEOREM SparesHolds == Turns > 1 => (SceneSpec => ExitSparesOthers)
<1> SUFFICES ASSUME Turns > 1
             PROVE  SceneSpec => ExitSparesOthers
  OBVIOUS
<1>1. ASSUME InTurnIInv, [SceneNext]_threadsVars
      PROVE  [\A p \in Launch : (Leave(p) \/ Left(p)) /\ path' # path
                => path = p \/ "launches met" \in mishaps]_threadsVars
  <2> SUFFICES ASSUME NEW p \in Launch, Leave(p) \/ Left(p), path' # path, "launches met" \notin mishaps
               PROVE  path = p
    OBVIOUS
  <2>1. pc[p] = "up"
    <3>1. ~Left(p)
      BY LeftKeepsFile
    <3> QED BY <3>1 DEF Leave
  <2> QED BY <1>1, <2>1 DEF InTurnIInv, OneClaims
<1>2. InTurnIInv /\ [SceneNext]_threadsVars => InTurnIInv'
  BY SceneNextInTurn
<1> QED BY <1>1, <1>2, SceneInitInTurn, PTL DEF SceneSpec, ExitSparesOthers

=============================================================================
