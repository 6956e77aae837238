--------------------------------- MODULE Bus ---------------------------------
(***************************************************************************)
(* The message bus (src/bus.rs): a bounded queue and an eventfd the        *)
(* consumer's loop sleeps on. A producer enqueues and then signals, two    *)
(* steps another thread can come between; the consumer clears the fd and   *)
(* then empties the queue. Nothing but the fd tells the consumer to look,  *)
(* although a turn of the loop taken for another reason drains as well.    *)
(***************************************************************************)
EXTENDS Naturals, Sequences

CONSTANTS
  Producer,   \* threads that hold a Sender
  Capacity,   \* slots in the queue (4096 in the code)
  Burst       \* bound: messages a producer sends

ASSUME CapacityAssumption == Capacity \in Nat \ {0}
ASSUME BurstAssumption == Burst \in Nat

VARIABLES
  queue,        \* the mpsc queue
  got,          \* messages handed to the shell, oldest first
  open,         \* the Receiver exists
  readable,     \* the eventfd's counter is not zero
  signalling,   \* producers between the enqueue and the signal
  draining,     \* the consumer is inside drain
  tried         \* how many messages each producer has sent

busVars == <<queue, got, open, readable, signalling, draining, tried>>

\* A producer's messages are numbered in the order it sends them.
Message == Producer \X (1..Burst)

BusInit ==
  /\ queue = <<>>
  /\ got = <<>>
  /\ open = TRUE
  /\ readable = FALSE
  /\ signalling = {}
  /\ draining = FALSE
  /\ tried = [p \in Producer |-> 0]

\* Sender::send up to the outcome of try_send: queued, dropped because the
\* queue is full, or refused because the receiver is gone.
TrySend(p) ==
  /\ p \notin signalling
  /\ tried[p] < Burst
  /\ tried' = [tried EXCEPT ![p] = @ + 1]
  /\ IF open /\ Len(queue) < Capacity
     THEN queue' = Append(queue, <<p, tried[p] + 1>>) /\ signalling' = signalling \cup {p}
     ELSE UNCHANGED <<queue, signalling>>
  /\ UNCHANGED <<got, open, readable, draining>>

Signal(p) ==
  /\ p \in signalling
  /\ signalling' = signalling \ {p}
  /\ readable' = TRUE
  /\ UNCHANGED <<queue, got, open, draining, tried>>

\* The consumer enters drain, which clears the fd before anything else.
StartDrain ==
  /\ open
  /\ ~draining
  /\ draining' = TRUE
  /\ readable' = FALSE
  /\ UNCHANGED <<queue, got, open, signalling, tried>>

\* The poll returns because of the fd.
Wake == readable /\ StartDrain

\* A turn of the loop that something else woke.
OtherTurn == ~readable /\ StartDrain

\* Broken variant of Receive: the newest message is handed over first.
ReceiveNewest ==
  /\ draining
  /\ queue # <<>>
  /\ got' = Append(got, queue[Len(queue)])
  /\ queue' = SubSeq(queue, 1, Len(queue) - 1)
  /\ UNCHANGED <<open, readable, signalling, draining, tried>>

Receive ==
  /\ draining
  /\ queue # <<>>
  /\ got' = Append(got, Head(queue))
  /\ queue' = Tail(queue)
  /\ UNCHANGED <<open, readable, signalling, draining, tried>>

\* Broken variant of EndDrain: a drain may leave messages for the next one.
EndDrainEarly ==
  /\ draining
  /\ draining' = FALSE
  /\ UNCHANGED <<queue, got, open, readable, signalling, tried>>

EndDrain ==
  /\ draining
  /\ queue = <<>>
  /\ draining' = FALSE
  /\ UNCHANGED <<queue, got, open, readable, signalling, tried>>

\* The receiver is dropped at shutdown, with whatever is still queued.
Close ==
  /\ open
  /\ ~draining
  /\ open' = FALSE
  /\ queue' = <<>>
  /\ UNCHANGED <<got, readable, signalling, draining, tried>>

BusNext ==
  \/ \E p \in Producer : TrySend(p) \/ Signal(p)
  \/ Wake \/ OtherTurn \/ Receive \/ EndDrain \/ Close

BusSafety == BusInit /\ [][BusNext]_busVars

\* A thread that has enqueued gets to signal, a readable fd ends the poll and
\* a drain runs to its end. Nothing makes a producer send, another turn come
\* or the receiver go.
BusProgress ==
  /\ \A p \in Producer : WF_busVars(Signal(p))
  /\ WF_busVars(Wake \/ Receive \/ EndDrain)

BusSpec == BusSafety /\ BusProgress

-----------------------------------------------------------------------------

\* The shape of the bus; the queue is never longer than it was made.
BusTypeOK ==
  /\ queue \in Seq(Message)
  /\ Len(queue) <= Capacity
  /\ got \in Seq(Message)
  /\ open \in BOOLEAN
  /\ readable \in BOOLEAN
  /\ signalling \subseteq Producer
  /\ draining \in BOOLEAN
  /\ tried \in [Producer -> 0..Burst]

\* No message waits unseen: while one is queued the fd is readable, or a
\* drain that has cleared it is still reading, or a signal is on its way. In
\* particular the drain never ends between an enqueue and the look it owes it.
NothingStranded == queue # <<>> => readable \/ draining \/ signalling # {}

\* Later(q, r): no message of r was sent before a message of the same
\* producer in q.
Later(q, r) ==
  \A i \in DOMAIN q, j \in DOMAIN r : q[i][1] = r[j][1] => q[i][2] < r[j][2]

\* A producer's messages are handed over in the order it sent them and none
\* twice, whatever is dropped in between: a removal never overtakes the
\* arrival it undoes.
InOrder ==
  \A i, j \in DOMAIN got : i < j /\ got[i][1] = got[j][1] => got[i][2] < got[j][2]

\* The bus is the bounded channel its users take it for: the consumer wakes
\* for everything accepted, although it sleeps on the fd alone.
C == INSTANCE Channel WITH
       Message <- Message, Capacity <- Capacity, queue <- queue, got <- got, open <- open

IsAChannel == C!ChannelSpec

=============================================================================
