------------------------------- MODULE PeakPool -------------------------------
(***************************************************************************)
(* The meters' shared store (src/meter.rs): a slot per metered node that   *)
(* the realtime audio threads fold peaks into and the main thread drains,  *)
(* with a flag and an eventfd that wake a loop whose bars are at rest.     *)
(* Every atomic operation is a step of its own. Slots are claimed and      *)
(* released on the PipeWire thread (src/pipewire_worker/monitor.rs).       *)
(*                                                                         *)
(* A channel keeps whether it holds an audible peak and whose; how loud it *)
(* is, and peaks under the meter's floor, are left out.                    *)
(***************************************************************************)
EXTENDS Naturals, FiniteSetsExt

CONSTANTS
  Node,       \* nodes that can be metered
  Slots,      \* number of slots (MAX_METERS = 64 in the code)
  Channels,   \* channels of a slot (MAX_CHANNELS = 8 in the code)
  NoNode        \* FREE (SPA_ID_INVALID), and no peak

ASSUME SlotsAssumption == Slots \in Nat \ {0}
ASSUME ChannelsAssumption == Channels \in Nat \ {0}
ASSUME NodeAssumption == NoNode \notin Node

VARIABLES
  node_id,   \* slot -> the node that holds it, or NoNode
  len,       \* slot -> channels of the last buffer folded
  chans,     \* slot -> channel -> whose audible peak waits there, or NoNode
  pending,   \* set by the first audible fold after a drain
  wake,      \* the eventfd's counter
  writer,    \* node -> where its claim or its audio callback is
  todo,      \* node -> channels of the current buffer still to fold
  reader,    \* where the drain is
  at,        \* the slot and channel the drain is at
  read,      \* what the drain has read of that slot
  shown,     \* the call of the sink just made, or NoNode
  moving     \* the meters have a step due (Shell::meters_due)

writerVars == <<writer, todo>>
readerVars == <<reader, at, read, shown, moving>>
poolVars == <<node_id, len, chans, pending, wake, writerVars, readerVars>>

Slot == 1..Slots
Channel == 1..Channels

Silent == [c \in Channel |-> NoNode]

Nothing == [node |-> NoNode, len |-> 0, peaks |-> {}]

PoolInit ==
  /\ node_id = [s \in Slot |-> NoNode]
  /\ len = [s \in Slot |-> 0]
  /\ chans = [s \in Slot |-> Silent]
  /\ pending = FALSE
  /\ wake = 0
  /\ writer = [n \in Node |-> "off"]
  /\ todo = [n \in Node |-> {}]
  /\ reader = "rest"
  /\ at = [slot |-> 1, channel |-> 1]
  /\ read = Nothing
  /\ shown = NoNode
  /\ moving = FALSE

Held(n) == CHOOSE s \in Slot : node_id[s] = n

WriterAt(n, where) == writer' = [writer EXCEPT ![n] = where]

-----------------------------------------------------------------------------
(* The PipeWire thread.                                                    *)

\* Claims and releases are made by one thread, a claim to its end.
PipeWireFree == \A n \in Node : writer[n] \notin {"zero len", "zero chans"}

\* The compare-and-swap that finds the first free slot. A full pool leaves
\* the node without a meter, which changes nothing here.
ClaimSlot(n) ==
  /\ PipeWireFree
  /\ writer[n] = "off"
  /\ \E s \in Slot :
       /\ node_id[s] = NoNode
       /\ \A before \in 1..(s - 1) : node_id[before] # NoNode
       /\ node_id' = [node_id EXCEPT ![s] = n]
  /\ WriterAt(n, "zero len")
  /\ UNCHANGED <<len, chans, pending, wake, todo, readerVars>>

ZeroLen(n) ==
  /\ writer[n] = "zero len"
  /\ len' = [len EXCEPT ![Held(n)] = 0]
  /\ WriterAt(n, "zero chans")
  /\ todo' = [todo EXCEPT ![n] = Channel]
  /\ UNCHANGED <<node_id, chans, pending, wake, readerVars>>

ZeroChannel(n) ==
  /\ writer[n] = "zero chans"
  /\ chans' = [chans EXCEPT ![Held(n)][Min(todo[n])] = NoNode]
  /\ todo' = [todo EXCEPT ![n] = @ \ {Min(todo[n])}]
  /\ WriterAt(n, IF todo'[n] = {} THEN "idle" ELSE "zero chans")
  /\ UNCHANGED <<node_id, len, pending, wake, readerVars>>

\* PipeWire fires no callback during or after the teardown that drops a slot.
\* What the slot holds stays behind.
Release(n) ==
  /\ PipeWireFree
  /\ writer[n] = "idle"
  /\ node_id' = [node_id EXCEPT ![Held(n)] = NoNode]
  /\ WriterAt(n, "off")
  /\ UNCHANGED <<len, chans, pending, wake, todo, readerVars>>

-----------------------------------------------------------------------------
(* The audio threads: MeterSlot::fold of a buffer of `count` channels, the *)
(* ones in `loud` audible.                                                 *)

FoldLen(n, count, loud) ==
  /\ writer[n] = "idle"
  /\ len' = [len EXCEPT ![Held(n)] = count]
  /\ todo' = [todo EXCEPT ![n] = loud]
  /\ WriterAt(n, IF loud = {} THEN "idle" ELSE "fold")
  /\ UNCHANGED <<node_id, chans, pending, wake, readerVars>>

FoldChannel(n) ==
  /\ writer[n] = "fold"
  /\ chans' = [chans EXCEPT ![Held(n)][Min(todo[n])] = n]
  /\ todo' = [todo EXCEPT ![n] = @ \ {Min(todo[n])}]
  /\ WriterAt(n, IF todo'[n] = {} THEN "flag" ELSE "fold")
  /\ UNCHANGED <<node_id, len, pending, wake, readerVars>>

SwapFlag(n) ==
  /\ writer[n] = "flag"
  /\ pending' = TRUE
  /\ WriterAt(n, IF pending THEN "idle" ELSE "signal")
  /\ UNCHANGED <<node_id, len, chans, wake, todo, readerVars>>

Notify(n) ==
  /\ writer[n] = "signal"
  /\ wake' = wake + 1
  /\ WriterAt(n, "idle")
  /\ UNCHANGED <<node_id, len, chans, pending, todo, readerVars>>

-----------------------------------------------------------------------------
(* The main thread: PeakPool::drain, called by Shell::tick_meters when the *)
(* bars have a step due and by wake_meters when they rest on the fd.       *)

\* A drain clears the fd first and the flag second.
Clears(step) ==
  IF step = 1 THEN wake' = 0 /\ UNCHANGED pending ELSE pending' = FALSE /\ UNCHANGED wake

\* Broken variant of BeginDrain: bars at rest do not look at the fd.
BeginDrainDeaf ==
  /\ reader = "rest"
  /\ moving
  /\ Clears(1)
  /\ reader' = "clear"
  /\ shown' = NoNode
  /\ moving' = FALSE
  /\ UNCHANGED <<node_id, len, chans, writerVars, at, read>>

BeginDrain ==
  /\ reader = "rest"
  /\ moving \/ wake > 0
  /\ Clears(1)
  /\ reader' = "clear"
  /\ shown' = NoNode
  /\ moving' = FALSE
  /\ UNCHANGED <<node_id, len, chans, writerVars, at, read>>

ClearFlag ==
  /\ reader = "clear"
  /\ Clears(2)
  /\ reader' = "node"
  /\ UNCHANGED <<node_id, len, chans, writerVars, at, read, shown, moving>>

\* Broken variant of NextSlot: the last slot is not looked at.
NextSlotShort ==
  IF at.slot + 1 < Slots
  THEN /\ reader' = "node"
       /\ at' = [slot |-> at.slot + 1, channel |-> 1]
       /\ UNCHANGED moving
  ELSE /\ reader' = "rest"
       /\ moving' \in BOOLEAN
       /\ at' = [slot |-> 1, channel |-> 1]

\* On to the next slot, or to the end of the drain. Whether any bar moved
\* also depends on what is decaying and on which rows are routed.
NextSlot ==
  IF at.slot < Slots
  THEN /\ reader' = "node"
       /\ at' = [slot |-> at.slot + 1, channel |-> 1]
       /\ UNCHANGED moving
  ELSE /\ reader' = "rest"
       /\ moving' \in BOOLEAN
       /\ at' = [slot |-> 1, channel |-> 1]

LoadNode ==
  /\ reader = "node"
  /\ IF node_id[at.slot] = NoNode
     THEN NextSlot /\ UNCHANGED read
     ELSE /\ reader' = "len"
          /\ read' = [Nothing EXCEPT !.node = node_id[at.slot]]
          /\ UNCHANGED <<at, moving>>
  /\ shown' = NoNode
  /\ UNCHANGED <<node_id, len, chans, pending, wake, writerVars>>

LoadLen ==
  /\ reader = "len"
  /\ read' = [read EXCEPT !.len = len[at.slot]]
  /\ reader' = "chans"
  /\ UNCHANGED <<node_id, len, chans, pending, wake, writerVars, at, shown, moving>>

\* Every channel is cleared, and those within the count are kept.
SwapChannel ==
  LET peak  == chans[at.slot][at.channel]
  IN  /\ reader = "chans"
      /\ chans' = [chans EXCEPT ![at.slot][at.channel] = NoNode]
      /\ read' = IF peak # NoNode /\ at.channel <= read.len
                 THEN [read EXCEPT !.peaks = @ \cup {peak}] ELSE read
      /\ IF at.channel < Channels
         THEN at' = [at EXCEPT !.channel = @ + 1] /\ UNCHANGED reader
         ELSE reader' = "sink" /\ UNCHANGED at
      /\ UNCHANGED <<node_id, len, pending, wake, writerVars, shown, moving>>

\* The sink is called if any channel was audible.
Show ==
  /\ reader = "sink"
  /\ shown' = IF read.peaks = {} THEN NoNode ELSE read
  /\ read' = Nothing
  /\ NextSlot
  /\ UNCHANGED <<node_id, len, chans, pending, wake, writerVars>>

Drain == BeginDrain \/ ClearFlag \/ LoadNode \/ LoadLen \/ SwapChannel \/ Show

\* The rest of a claim or of a callback that has started.
Finish(n) ==
  ZeroLen(n) \/ ZeroChannel(n) \/ FoldChannel(n) \/ SwapFlag(n) \/ Notify(n)

PoolNext ==
  \/ \E n \in Node : ClaimSlot(n) \/ Release(n) \/ Finish(n)
  \/ \E n \in Node, count \in Channel : \E loud \in SUBSET (1..count) : FoldLen(n, count, loud)
  \/ Drain

PoolSafety == PoolInit /\ [][PoolNext]_poolVars

\* Claims and callbacks run to their end, a readable fd or a step that is due
\* starts a drain, and a drain runs to its end. A window that is not painted
\* lets its due step wait, so this is about one that is.
PoolProgress == WF_poolVars(Drain) /\ \A n \in Node : WF_poolVars(Finish(n))

PoolSpec == PoolSafety /\ PoolProgress

-----------------------------------------------------------------------------

\* The shape of the pool, and a drain that stays inside it.
PoolTypeOK ==
  /\ node_id \in [Slot -> Node \cup {NoNode}]
  /\ len \in [Slot -> 0..Channels]
  /\ chans \in [Slot -> [Channel -> Node \cup {NoNode}]]
  /\ pending \in BOOLEAN
  /\ wake \in Nat
  /\ writer \in [Node -> {"off", "zero len", "zero chans", "idle", "fold", "flag", "signal"}]
  /\ todo \in [Node -> SUBSET Channel]
  /\ reader \in {"rest", "clear", "node", "len", "chans", "sink"}
  /\ at \in [slot : Slot, channel : Channel]
  /\ read \in [node : Node \cup {NoNode}, len : 0..Channels, peaks : SUBSET Node]
  /\ shown \in [node : Node, len : 0..Channels, peaks : SUBSET Node] \cup {NoNode}
  /\ moving \in BOOLEAN

\* The flag that makes later folds stay silent is never left set without the
\* wake it stands for: the fd is readable, or the thread that set the flag
\* is about to write it, or a drain is about to clear the flag.
FlagHasAWake ==
  pending => wake > 0 \/ reader = "clear" \/ \E n \in Node : writer[n] = "signal"

\* The drain under way has yet to read channel c of slot s.
Ahead(s, c) ==
  \/ reader = "clear"
  \/ reader \in {"node", "len", "chans", "sink"} /\ at.slot < s
  \/ reader \in {"node", "len"} /\ at.slot = s
  \/ reader = "chans" /\ at.slot = s /\ at.channel <= c

\* No loop sleeps on an audible peak: once a callback is over, a peak in its
\* slot is one the drain under way still reads or one the flag stands for,
\* in any order of folds, drains, claims and releases.
NoPeakAsleep ==
  \A s \in Slot, c \in Channel :
    chans[s][c] # NoNode /\ node_id[s] # NoNode /\ writer[node_id[s]] = "idle"
      => pending \/ Ahead(s, c)

\* Every peak of a slot in use is taken out of it again.
PeaksAreTaken ==
  \A s \in Slot, c \in Channel :
    chans[s][c] # NoNode ~> chans[s][c] = NoNode \/ node_id[s] = NoNode

=============================================================================
