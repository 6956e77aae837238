--------------------------------- MODULE Seat ---------------------------------
(***************************************************************************)
(* The native shell's connection to the compositor (src/platform/conn.rs)  *)
(* and what it does there with its seat: keys and their repeats, the       *)
(* cursor, the clipboard (src/native/app.rs, src/native/clipboard.rs).     *)
(*                                                                         *)
(* Both directions are bytes in order, with descriptors beside them that   *)
(* are taken in order too. A message is so many units long, and a read or  *)
(* a write may stop between any two. The compositor, the other clients and *)
(* the keymap are external.                                                *)
(***************************************************************************)
EXTENDS Integers, SequencesExt

CONSTANTS
  Room,       \* units a socket takes before the peer reads
  MaxComing,  \* bound: events on their way
  MaxStrokes, \* bound: what the user and the other clients do
  MaxCopies,  \* bound: what the client puts on the clipboard
  MaxStalls,  \* bound: a whole second in which the compositor reads nothing
  Outings,    \* sets of deeds: those that may be done in one run of the shell
  Nil         \* no object, no descriptor, no owner

\* What the user, the other clients and the shell itself may do.
Deed == {"press", "release", "leave", "enter", "keymap", "rate", "copy", "paste", "point", "draw", "grow"}

ASSUME OutingsAssumption == Outings \subseteq SUBSET Deed

ASSUME RoomAssumption == Room \in Nat

Code == {"copy", "paste", "shift"}

Shape == {"default", "grab"}

\* Who holds the selection: one of the client's sources, or another client.
Holder == [by : {"us", "other"}, n : Nat]

Ours(n) == [by |-> "us", n |-> n]
Theirs(n) == [by |-> "other", n |-> n]

\* What goes beside a message: one end of a pipe, the memory of the buffers, or
\* what the compositor hands over, told apart.
Descriptor == {"pipe", "pool"} \cup ({"keymap", "send"} \X Nat)

ASSUME NilAssumption == Nil \notin Nat \cup Shape \cup Holder \cup Descriptor

VARIABLES
  \* The connection.
  requests,         \* encoded and not yet carried out, oldest first
  sent,             \* units of them that have left
  riding,           \* the descriptors that left with them
  coming,           \* events not yet handled, oldest first
  got,              \* units of them that have been read
  fds,              \* the descriptors read with them
  \* The client.
  stage,            \* "asleep", "repeating", "reading", "handing" a descriptor over,
                    \* "pasting", or "gone"
  back,             \* the stage a paste goes back to
  bound,            \* the devices of the seat it has
  xkb,              \* whether a keymap is loaded
  period,           \* repeat_period
  held_key,         \* the key that repeats, and whether it is time
  data_source, clipboard_text, selection_offer,
  pointer_inside, pointer_serial, cursor_shape,
  copies, stalls,
  \* The compositor and the others.
  deeds, owner, focused, down, pointer_on, shape, strokes, pipe,
  \* History.
  crossed,          \* a message took a descriptor that was not its own, or none
  strayed,          \* a descriptor was left without its message, or a message without it
  self_wait         \* a paste waits for the client's own source

connVars == <<requests, sent, riding, coming, got, fds>>
keyVars == <<bound, xkb, period, held_key>>
clipVars == <<data_source, clipboard_text, selection_offer, copies>>
cursorVars == <<pointer_inside, pointer_serial, cursor_shape>>
worldVars == <<deeds, owner, focused, down, pointer_on, shape, strokes, pipe>>
historyVars == <<crossed, strayed, self_wait>>
seatVars == <<connVars, stage, back, keyVars, clipVars, cursorVars, stalls, worldVars, historyVars>>

\* How long messages are together.
Units(messages) ==
  LET upTo[k \in 0..Len(messages)] == IF k = 0 THEN 0 ELSE upTo[k - 1] + messages[k].len
  IN upTo[Len(messages)]

\* A request is as long as it takes a frame or a message with a descriptor to
\* be sent in parts.
Request(op, arg, fd) == [op |-> op, arg |-> arg, fd |-> fd, len |-> IF fd # Nil \/ op = "draw" THEN 2 ELSE 1]

Sending(op, arg, fd) == [op |-> op, arg |-> arg, fd |-> fd, len |-> IF fd # Nil THEN 2 ELSE 1]

\* A flush without a descriptor sends what there is room for.
Flushed(reqs) == Max({sent, Min({Units(reqs), Room})})

-----------------------------------------------------------------------------
(* Keys.                                                                   *)

\* Broken variant of Paste: the client's own source is asked like any other.
PasteFromAnyone(here) ==
  IF selection_offer = Nil
  THEN stage' = here /\ UNCHANGED <<requests, sent, back, clipVars>>
  ELSE /\ requests' = Append(requests, Request("receive", selection_offer, "pipe"))
       /\ stage' = "handing" /\ back' = here
       /\ UNCHANGED <<sent, clipVars>>

\* Its own text the client has at hand; for another's it sends a pipe.
Paste(here) ==
  IF data_source # Nil \/ selection_offer = Nil
  THEN stage' = here /\ UNCHANGED <<requests, sent, back, clipVars>>
  ELSE /\ requests' = Append(requests, Request("receive", selection_offer, "pipe"))
       /\ stage' = "handing" /\ back' = here
       /\ UNCHANGED <<sent, clipVars>>

\* A copy replaces the source before.
OfferSelection(here) ==
  /\ copies < MaxCopies
  /\ copies' = copies + 1
  /\ data_source' = copies + 1 /\ clipboard_text' = copies + 1
  /\ requests' = requests \o (IF data_source = Nil THEN <<>> ELSE <<Request("destroy", data_source, Nil)>>)
                          \o <<Request("select", copies + 1, Nil)>>
  /\ sent' = Flushed(requests')
  /\ stage' = here
  /\ UNCHANGED <<back, selection_offer>>

\* What a key does here, pressed or repeated; the turn goes on at `here`.
KeyPress(code, here) ==
  \/ /\ xkb /\ code = "copy" /\ "device" \in bound
     /\ OfferSelection(here)
  \/ /\ xkb /\ code = "paste"
     /\ Paste(here)
  \/ /\ ~xkb \/ code \in {"shift", "copy"}  \* a copy of nothing
     /\ stage' = here
     /\ UNCHANGED <<requests, sent, back, clipVars>>

Repeats(code) == xkb /\ code # "shift"

\* Poll has returned. A repeat may be due.
PollReturns ==
  /\ stage = "asleep"
  /\ stage' = "repeating"
  /\ \/ UNCHANGED held_key
     \/ held_key # Nil /\ held_key' = [held_key EXCEPT !.due = TRUE]
  /\ UNCHANGED <<connVars, back, bound, xkb, period, clipVars, cursorVars, stalls, worldVars, historyVars>>

\* With no time between two repeats, the next one is due at once.
Repeat ==
  /\ stage = "repeating" /\ held_key # Nil /\ held_key.due
  /\ KeyPress(held_key.code, "repeating")
  /\ held_key' = [held_key EXCEPT !.due = period = 0]
  /\ UNCHANGED <<riding, coming, got, fds, bound, xkb, period, cursorVars, stalls, worldVars, historyVars>>

-----------------------------------------------------------------------------
(* The connection.                                                         *)

\* The descriptors whose first byte is among the units read from .. upto.
Arrived(from, upto) ==
  LET start(k) == Units(SubSeq(coming, 1, k - 1))
      found[k \in 0..Len(coming)] ==
        IF k = 0 THEN <<>>
        ELSE IF coming[k].fd # Nil /\ start(k) \in from..(upto - 1) THEN Append(found[k - 1], coming[k].fd)
        ELSE found[k - 1]
  IN found[Len(coming)]

\* A read takes what has come, or part of it.
Fill ==
  /\ stage = "repeating" /\ (held_key # Nil => ~held_key.due)
  /\ stage' = "reading"
  /\ got' \in got .. Units(coming)
  /\ fds' = fds \o Arrived(got, got')
  /\ UNCHANGED <<requests, sent, riding, coming, back, keyVars, clipVars, cursorVars, stalls, worldVars, historyVars>>

Complete == coming # <<>> /\ got >= Head(coming).len

\* Broken variant of HandOver: a full socket is left for a later flush.
HandOverAnyway ==
  /\ stage = "handing"
  /\ riding' = IF sent < Room THEN Append(riding, Last(requests).fd) ELSE riding
  /\ sent' = Flushed(requests)
  /\ IF Last(requests).fd = "pool" THEN stage' = "asleep" /\ UNCHANGED pipe
     ELSE stage' = "pasting" /\ pipe' = "open"
  /\ UNCHANGED <<requests, coming, got, fds, back, keyVars, clipVars, cursorVars, stalls, deeds, owner, focused, down,
                 pointer_on, shape, strokes, historyVars>>

\* A descriptor goes with the first bytes to leave, those of older requests
\* maybe, and waits for room for them.
HandOver ==
  /\ stage = "handing" /\ sent < Room
  /\ riding' = Append(riding, Last(requests).fd)
  /\ sent' = Flushed(requests)
  /\ IF Last(requests).fd = "pool" THEN stage' = "asleep" /\ UNCHANGED pipe
     ELSE stage' = "pasting" /\ pipe' = "open"
  /\ UNCHANGED <<requests, coming, got, fds, back, keyVars, clipVars, cursorVars, stalls, deeds, owner, focused, down,
                 pointer_on, shape, strokes, historyVars>>

\* A second without room. The shell ends without its buffers; a paste is
\* given up, but its request stays encoded.
Stall ==
  /\ stage = "handing" /\ sent = Room /\ stalls < MaxStalls
  /\ stalls' = stalls + 1
  /\ IF Last(requests).fd = "pool" THEN stage' = "gone" /\ UNCHANGED strayed
     ELSE stage' = back /\ strayed' = TRUE
  /\ UNCHANGED <<connVars, back, keyVars, clipVars, cursorVars, worldVars, crossed, self_wait>>

\* The writer has closed the pipe, or the fifth of a second is over.
EndPaste ==
  /\ stage = "pasting"
  /\ stage' = back
  /\ pipe' = "closed"
  /\ UNCHANGED <<connVars, back, keyVars, clipVars, cursorVars, stalls, deeds, owner, focused, down, pointer_on, shape,
                 strokes, historyVars>>

\* The end of a turn may rebuild the buffers, whose pool goes with a
\* descriptor, and paint.
FinishTurn ==
  /\ stage = "reading" /\ ~Complete
  /\ \E op \in {"nothing", "draw", "grow"} \cap (deeds \cup {"nothing"}) :
       /\ op # "nothing" => strokes < MaxStrokes
       /\ strokes' = IF op = "nothing" THEN strokes ELSE strokes + 1
       /\ requests' = CASE op = "draw" -> Append(requests, Request("draw", Nil, Nil))
                        [] op = "grow" -> Append(requests, Request("pool", Nil, "pool"))
                        [] OTHER       -> requests
       /\ stage' = IF op = "grow" THEN "handing" ELSE "asleep"
       /\ sent' = Flushed(IF op = "grow" THEN requests ELSE requests')
  /\ UNCHANGED <<riding, coming, got, fds, back, keyVars, clipVars, cursorVars, stalls, deeds, owner, focused, down,
                 pointer_on, shape, pipe, historyVars>>

-----------------------------------------------------------------------------
(* Events. Each takes the first message off what was read.                 *)

Taken(op) ==
  /\ stage = "reading" /\ Complete /\ Head(coming).op = op
  /\ coming' = Tail(coming)
  /\ got' = got - Head(coming).len
  /\ UNCHANGED <<riding, stalls, worldVars>>

Says == Head(coming).arg

Quietly == UNCHANGED <<requests, sent, stage, back, clipVars>>

\* The descriptor is the oldest one read, whoever it was meant for.
TakeFd ==
  /\ fds' = IF fds = <<>> THEN fds ELSE Tail(fds)
  /\ crossed' = (crossed \/ fds = <<>> \/ Head(fds) # Head(coming).fd)

\* The seat says what it has: each device is asked for once.
HandleCapabilities ==
  /\ Taken("capabilities")
  /\ bound' = bound \cup Says \cup {"device"}
  /\ requests' = requests \o SetToSeq({Request("get", d, Nil) : d \in (Says \cup {"device"}) \ bound})
  /\ UNCHANGED <<sent, fds, stage, back, xkb, period, held_key, clipVars, cursorVars, historyVars>>

HandleKeymap ==
  /\ Taken("keymap") /\ TakeFd
  /\ xkb' = (xkb \/ (fds # <<>> /\ Head(fds)[1] = "keymap"))
  /\ Quietly
  /\ UNCHANGED <<bound, period, held_key, cursorVars, strayed, self_wait>>

HandleRate ==
  /\ Taken("rate")
  /\ period' = Says
  /\ Quietly
  /\ UNCHANGED <<fds, bound, xkb, held_key, cursorVars, historyVars>>

\* A press arms the repeat of a key that has one; the release of that key
\* ends it.
HandleKey ==
  /\ Taken("key")
  /\ IF Says.pressed
     THEN /\ KeyPress(Says.code, "reading")
          /\ held_key' = IF Repeats(Says.code) /\ period # 0 THEN [code |-> Says.code, due |-> FALSE]
                         ELSE held_key
     ELSE /\ held_key' = IF held_key # Nil THEN (IF held_key.code = Says.code THEN Nil ELSE held_key) ELSE Nil
          /\ Quietly
  /\ UNCHANGED <<fds, bound, xkb, period, cursorVars, historyVars>>

HandleLeave ==
  /\ Taken("leave")
  /\ held_key' = Nil
  /\ Quietly
  /\ UNCHANGED <<fds, bound, xkb, period, cursorVars, historyVars>>

HandleSelection ==
  /\ Taken("selection")
  /\ selection_offer' = Says
  /\ requests' = IF selection_offer = Nil THEN requests
                 ELSE Append(requests, Request("destroy_offer", selection_offer, Nil))
  /\ UNCHANGED <<sent, fds, stage, back, bound, xkb, period, held_key, data_source, clipboard_text, copies, cursorVars, historyVars>>

\* A client asks for a source's text. For a source that has been replaced
\* since nothing is done, and the descriptor stays.
HandleSend ==
  /\ Taken("send")
  /\ IF data_source # Nil /\ Says = data_source
     THEN TakeFd /\ UNCHANGED strayed
     ELSE strayed' = TRUE /\ UNCHANGED <<fds, crossed>>
  /\ Quietly
  /\ UNCHANGED <<bound, xkb, period, held_key, cursorVars, self_wait>>

\* Broken variant of HandleCancelled: the source is kept.
HandleCancelledKeeping ==
  /\ Taken("cancelled")
  /\ Quietly
  /\ UNCHANGED <<fds, bound, xkb, period, held_key, cursorVars, historyVars>>

HandleCancelled ==
  /\ Taken("cancelled")
  /\ data_source' = IF Says = data_source THEN Nil ELSE data_source
  /\ requests' = IF Says = data_source THEN Append(requests, Request("destroy", Says, Nil)) ELSE requests
  /\ UNCHANGED <<sent, fds, stage, back, bound, xkb, period, held_key, clipboard_text, selection_offer, copies, cursorVars,
                 historyVars>>

\* The shape is the compositor's own again at each enter.
HandlePointer ==
  /\ Taken("pointer")
  /\ pointer_inside' = (Says # Nil)
  /\ pointer_serial' = IF Says = Nil THEN pointer_serial ELSE Says
  /\ \E want \in Shape :
       LET worn == IF Says \in {Nil, pointer_serial} THEN cursor_shape ELSE Nil
       IN IF Says = Nil \/ worn = want
          THEN cursor_shape' = worn /\ UNCHANGED requests
          ELSE /\ cursor_shape' = want
               /\ requests' = Append(requests, Request("shape", <<pointer_serial', want>>, Nil))
  /\ UNCHANGED <<sent, fds, stage, back, bound, xkb, period, held_key, clipVars, historyVars>>

Handle ==
  \/ HandleCapabilities \/ HandleKeymap \/ HandleRate \/ HandleKey \/ HandleLeave
  \/ HandleSelection \/ HandleSend \/ HandleCancelled \/ HandlePointer

-----------------------------------------------------------------------------
(* The compositor and the other clients.                                   *)

Tell(events) == coming' = coming \o events

\* The window with the keyboard is told of the selection.
OfSelection(to) == IF focused THEN <<Sending("selection", to, Nil)>> ELSE <<>>

\* A request is carried out once all of it is there; one that needs a
\* descriptor takes the oldest.
Serve ==
  /\ requests # <<>> /\ Head(requests).len <= sent
  /\ LET r == Head(requests)
     IN /\ requests' = Tail(requests)
        /\ sent' = sent - r.len
        /\ riding' = IF r.fd = Nil \/ riding = <<>> THEN riding ELSE Tail(riding)
        /\ crossed' = (crossed \/ (r.fd # Nil /\ (riding = <<>> \/ Head(riding) # r.fd)))
        /\ \/ /\ r.op = "get"
              /\ Tell(IF r.arg = "keyboard" THEN <<Sending("keymap", Nil, <<"keymap", 0>>), Sending("rate", 1, Nil)>>
                      ELSE <<>>)
              /\ UNCHANGED <<owner, shape, self_wait, pipe>>
           \/ /\ r.op = "select"
              /\ owner' = Ours(r.arg)
              /\ Tell(OfSelection(Ours(r.arg)))
              /\ UNCHANGED <<shape, self_wait, pipe>>
           \/ /\ r.op = "destroy"
              /\ owner' = IF owner = Ours(r.arg) THEN Nil ELSE owner
              /\ Tell(IF owner = Ours(r.arg) THEN OfSelection(Nil) ELSE <<>>)
              /\ UNCHANGED <<shape, self_wait, pipe>>
           \/ /\ r.op = "receive"
              /\ self_wait' = (self_wait \/ (r.arg = owner /\ owner.by = "us"))
              /\ pipe' = IF pipe = "open" THEN "asked" ELSE pipe
              /\ UNCHANGED <<coming, owner, shape>>
           \/ /\ r.op = "shape"
              /\ shape' = IF pointer_on = r.arg[1] THEN r.arg[2] ELSE shape
              /\ UNCHANGED <<coming, owner, self_wait, pipe>>
           \/ /\ r.op \in {"draw", "pool", "destroy_offer"}
              /\ UNCHANGED <<coming, owner, shape, self_wait, pipe>>
  /\ UNCHANGED <<got, fds, stage, back, keyVars, clipVars, cursorVars, stalls, deeds, focused, down, pointer_on, strokes,
                 strayed>>

\* What else may happen out there.
Stroke(deed) ==
  /\ deed \in deeds /\ strokes < MaxStrokes /\ Len(coming) < MaxComing
  /\ strokes' = strokes + 1
  /\ UNCHANGED <<requests, sent, riding, got, fds, stage, back, keyVars, clipVars, cursorVars, stalls, pipe, historyVars>>

\* A device the client has asked for and the compositor knows of it.
Has(device) == device \in bound /\ \A k \in DOMAIN requests : requests[k].op # "get"

Keyed == focused /\ Has("keyboard")

Press(code) ==
  /\ Stroke("press") /\ Keyed /\ code \notin down
  /\ down' = down \cup {code}
  /\ Tell(<<Sending("key", [code |-> code, pressed |-> TRUE], Nil)>>)
  /\ UNCHANGED <<deeds, owner, focused, pointer_on, shape>>

LetGo(code) ==
  /\ Stroke("release") /\ Keyed /\ code \in down
  /\ down' = down \ {code}
  /\ Tell(<<Sending("key", [code |-> code, pressed |-> FALSE], Nil)>>)
  /\ UNCHANGED <<deeds, owner, focused, pointer_on, shape>>

\* The keyboard goes elsewhere; what is pressed is let go there.
Leave ==
  /\ Stroke("leave") /\ Keyed
  /\ focused' = FALSE /\ down' = {}
  /\ Tell(<<Sending("leave", Nil, Nil)>>)
  /\ UNCHANGED <<deeds, owner, pointer_on, shape>>

Enter ==
  /\ Stroke("enter") /\ ~focused /\ Has("keyboard")
  /\ focused' = TRUE
  /\ Tell(<<Sending("selection", owner, Nil)>>)
  /\ UNCHANGED <<deeds, owner, down, pointer_on, shape>>

NewKeymap ==
  /\ Stroke("keymap") /\ Has("keyboard")
  /\ Tell(<<Sending("keymap", Nil, <<"keymap", strokes + 1>>)>>)
  /\ UNCHANGED <<deeds, owner, focused, down, pointer_on, shape>>

NewRate ==
  /\ Stroke("rate") /\ Has("keyboard")
  /\ \E rate \in {0, 1} : Tell(<<Sending("rate", rate, Nil)>>)
  /\ UNCHANGED <<deeds, owner, focused, down, pointer_on, shape>>

OtherCopies ==
  /\ Stroke("copy")
  /\ owner' = Theirs(strokes + 1)
  /\ Tell((IF owner = Nil THEN <<>> ELSE IF owner.by = "us" THEN <<Sending("cancelled", owner.n, Nil)>> ELSE <<>>)
          \o OfSelection(owner'))
  /\ UNCHANGED <<deeds, focused, down, pointer_on, shape>>

OtherPastes ==
  /\ Stroke("paste") /\ owner # Nil
  /\ owner.by = "us"
  /\ Tell(<<Sending("send", owner.n, <<"send", strokes + 1>>)>>)
  /\ UNCHANGED <<deeds, owner, focused, down, pointer_on, shape>>

Point ==
  /\ Stroke("point") /\ Has("pointer")
  /\ \/ pointer_on = Nil /\ pointer_on' = strokes + 1 /\ shape' = Nil
     \/ pointer_on # Nil /\ pointer_on' = Nil /\ UNCHANGED shape
     \/ pointer_on # Nil /\ UNCHANGED <<pointer_on, shape>>
  /\ Tell(<<Sending("pointer", pointer_on', Nil)>>)
  /\ UNCHANGED <<deeds, owner, focused, down>>

World ==
  \/ Serve
  \/ \E code \in Code : Press(code) \/ LetGo(code)
  \/ Leave \/ Enter \/ NewKeymap \/ NewRate \/ OtherCopies \/ OtherPastes \/ Point

\* The window is up and has asked for its seat.
SeatInit ==
  /\ requests = <<>> /\ sent = 0 /\ riding = <<>>
  /\ coming \in {<<Sending("capabilities", caps, Nil)>> : caps \in {{"keyboard"}, {"keyboard", "pointer"}}}
  /\ got = 0 /\ fds = <<>>
  /\ stage = "asleep" /\ back = "reading"
  /\ bound = {} /\ xkb = FALSE /\ period = 0 /\ held_key = Nil
  /\ data_source = Nil /\ clipboard_text = Nil /\ selection_offer = Nil /\ copies = 0 /\ stalls = 0
  /\ pointer_inside = FALSE /\ pointer_serial = Nil /\ cursor_shape = Nil
  /\ deeds \in Outings
  /\ owner = Nil /\ focused = FALSE /\ down = {} /\ pointer_on = Nil /\ shape = Nil /\ strokes = 0
  /\ pipe = "closed"
  /\ crossed = FALSE /\ strayed = FALSE /\ self_wait = FALSE

\* The shell has ended; nothing more happens here.
Gone == stage = "gone" /\ UNCHANGED seatVars

SeatNext ==
  \/ PollReturns \/ Repeat \/ Fill \/ Handle \/ HandOver \/ Stall \/ EndPaste \/ FinishTurn
  \/ World \/ Gone

SeatSpec == SeatInit /\ [][SeatNext]_seatVars

-----------------------------------------------------------------------------
(* Correctness.                                                            *)

\* A message that comes with a descriptor gets its own, in both directions,
\* however reads and writes cut the streams; until a source is asked after it
\* has been replaced, or a paste is given up on a socket without room.
DescriptorsMeetTheirMessages == crossed => strayed

Quiet == coming = <<>> /\ requests = <<>>

\* What the client makes of its seat is so once all is told: a key that
\* repeats is down, the client owns the selection if it thinks so and knows
\* whose it is otherwise, and the cursor has the shape it was given. And a
\* paste never waits for the client itself.
SeatAgrees ==
  /\ ~self_wait
  /\ Quiet /\ held_key # Nil => focused /\ held_key.code \in down
  /\ Quiet => /\ owner = (IF data_source # Nil THEN Ours(data_source)
                          ELSE IF focused THEN selection_offer ELSE owner)
              /\ focused => selection_offer = owner
              /\ pointer_inside = (pointer_on # Nil)
              /\ pointer_inside => shape = cursor_shape

\* The connection hands over what was sent, and the seat is what it says.
SeatIsSound == DescriptorsMeetTheirMessages /\ SeatAgrees

=============================================================================
