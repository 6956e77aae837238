--------------------------------- MODULE Wire ---------------------------------
(***************************************************************************)
(* D-Bus messages as bytes (src/dbus/wire.rs) and the connection that      *)
(* frames them out of a socket (src/dbus/connection.rs): the handshake's   *)
(* line, reads of any length, calls given up in the middle of a message,   *)
(* signals put aside. The bus, which writes in either byte order and picks *)
(* the lengths of the reads, is external.                                  *)
(*                                                                         *)
(* A byte is a number; the bytes of a name are any numbers. A signature is *)
(* a sequence of type characters and goes by their place in Types.         *)
(***************************************************************************)
EXTENDS Integers, SequencesExt

CONSTANTS
  MaxBody,       \* largest header or body accepted
  MaxLine,       \* longest line of the handshake
  MaxKept,       \* signals kept while a call waits
  Calls,         \* what the client may ask: destination, path, interface, member, arguments
  Scripts,       \* what the bus may write: sequences of messages
  Greetings,     \* what it may answer to the handshake
  ReadLengths,   \* how many bytes a read may return
  MaxGivenUp     \* bound: calls given up

PrefixLen == 16

-----------------------------------------------------------------------------
(* Types.                                                                  *)

Types == <<"y", "b", "n", "q", "i", "u", "h", "x", "t", "d", "s", "o", "g", "v", "a", "(", ")", "{", "}">>

CharByte(c) == CHOOSE k \in DOMAIN Types : Types[k] = c

Alignment(sig) ==
  CASE sig[1] \in {"y", "g", "v"}           -> 1
    [] sig[1] \in {"n", "q"}                -> 2
    [] sig[1] \in {"x", "t", "d", "(", "{"} -> 8
    [] OTHER                                -> 4

Count(sig, c) == Cardinality({k \in DOMAIN sig : sig[k] = c})

Signature == Seq(STRING)

\* Where the brackets of c first balance, 0 if they never do.
Balanced(sig, opening, closing) ==
  LET at == {k \in DOMAIN sig : Count(SubSeq(sig, 1, k), opening) = Count(SubSeq(sig, 1, k), closing)}
  IN IF at = {} THEN 0 ELSE Min(at)

\* The length of the first complete type, 0 if it is cut off.
TypeLen[sig \in Signature] ==
  IF sig = <<>> THEN 0
  ELSE CASE sig[1] = "a" -> (IF TypeLen[Tail(sig)] = 0 THEN 0 ELSE TypeLen[Tail(sig)] + 1)
         [] sig[1] = "(" -> Balanced(sig, "(", ")")
         [] sig[1] = "{" -> Balanced(sig, "{", "}")
         [] OTHER        -> 1

\* A signature's complete types; an empty one stands for one cut off.
SplitTypes[sig \in Signature] ==
  IF sig = <<>> THEN <<>>
  ELSE IF TypeLen[sig] = 0 THEN <<<<>>>>
  ELSE <<SubSeq(sig, 1, TypeLen[sig])>> \o SplitTypes[SubSeq(sig, TypeLen[sig] + 1, Len(sig))]

Fixed(c) == CASE c = "y" -> 1 [] c \in {"n", "q"} -> 2 [] c \in {"b", "i", "u", "h"} -> 4
              [] c \in {"x", "t", "d"} -> 8 [] OTHER -> 0

-----------------------------------------------------------------------------
(* Writing. Each takes the buffer so far, for a value's place depends on   *)
(* where the buffer ends.                                                  *)

Pad(n, len) == (n - (len % n)) % n

Align(buf, n) == buf \o [k \in 1 .. Pad(n, Len(buf)) |-> 0]

\* The bytes of a number; those over the second are 0 here.
Bytes(v, width, le) ==
  LET low == [k \in 1 .. width |-> IF k = 1 THEN v % 256 ELSE IF k = 2 THEN v \div 256 ELSE 0]
  IN IF le THEN low ELSE Reverse(low)

PutNumber(buf, v, width, le) == Align(buf, width) \o Bytes(v, width, le)

PutString(buf, s, le) == PutNumber(buf, Len(s), 4, le) \o s \o <<0>>

PutSignature(buf, sig) == buf \o <<Len(sig)>> \o [k \in DOMAIN sig |-> CharByte(sig[k])] \o <<0>>

\* The count is of the elements alone, without the padding before the first.
PutCounted(buf, align, Body(_), le) ==
  LET at    == Align(buf, 4)
      start == Align(at \o <<0, 0, 0, 0>>, align)
      whole == Body(start)
  IN at \o Bytes(Len(whole) - Len(start), 4, le) \o SubSeq(whole, Len(at) + 5, Len(whole))

\* Any value: a number, a row of bytes, or a row of values.
RECURSIVE Put(_, _, _, _)
Put(buf, sig, v, le) ==
  LET inner == SubSeq(sig, 2, Len(sig) - 1)
  IN CASE Fixed(sig[1]) > 0       -> PutNumber(buf, v, Fixed(sig[1]), le)
       [] sig[1] \in {"s", "o"}   -> PutString(buf, v, le)
       [] sig[1] = "g"            -> PutSignature(buf, v)
       [] sig[1] = "v"            -> Put(PutSignature(buf, v[1]), v[1], v[2], le)
       [] sig[1] = "a"            ->
            PutCounted(buf, Alignment(Tail(sig)),
                       LAMBDA b : FoldLeft(LAMBDA acc, x : Put(acc, Tail(sig), x, le), b, v), le)
       [] sig[1] \in {"(", "{"}   ->
            LET types == SplitTypes[inner]
            IN FoldLeftDomain(LAMBDA acc, k : Put(acc, types[k], v[k], le), Align(buf, 8), types)

\* A message: prefix, header fields, padding, body. The flag is the byte
\* order, 'l' or 'B'.
Written(m) ==
  LET le     == m.flag = 108
      sigs   == SplitTypes[m.signature]
      body   == FoldLeftDomain(LAMBDA acc, k : Put(acc, sigs[k], m.body[k], le), <<>>, sigs)
      prefix == PutNumber(PutNumber(<<m.flag, m.kind, 0, 1>>, Len(body), 4, le), m.serial, 4, le)
  IN Align(Put(prefix, <<"a", "(", "y", "v", ")">>, m.fields, le), 8) \o body

\* A call of the client: its arguments are strings.
Message(n, call) ==
  LET text(code, type, v) == <<code, <<<<type>>, v>>>>
      sig == [k \in DOMAIN call.args |-> "s"]
  IN [flag |-> 108, kind |-> 1, serial |-> n, signature |-> sig, body |-> call.args,
      fields |-> <<text(1, "o", call.path), text(6, "s", call.destination),
                   text(2, "s", call.interface), text(3, "s", call.member)>>
                   \o (IF sig = <<>> THEN <<>> ELSE <<text(8, "g", sig)>>)]

-----------------------------------------------------------------------------
(* Reading. A read gives the value and the place after it, or nothing.     *)

Failed == <<>>

After(r, F(_)) == IF r = Failed THEN Failed ELSE F(r)

Huge == 65536

\* A number over two bytes is more than any buffer here.
Low(low) ==
  IF \E k \in 3 .. Len(low) : low[k] # 0 THEN Huge
  ELSE low[1] + (IF Len(low) = 1 THEN 0 ELSE 256 * low[2])

Take(buf, pos, n) == IF pos + n > Len(buf) THEN Failed ELSE <<SubSeq(buf, pos + 1, pos + n), pos + n>>

ReadNumber(buf, pos, width, le) ==
  After(Take(buf, pos + Pad(width, pos), width), LAMBDA r : <<Low(IF le THEN r[1] ELSE Reverse(r[1])), r[2]>>)

\* So many bytes and a nul.
ReadCounted(buf, n) ==
  After(n, LAMBDA c : After(Take(buf, c[2], c[1] + 1), LAMBDA r : <<Front(r[1]), r[2]>>))

ReadSignature(buf, pos, le) ==
  After(ReadCounted(buf, ReadNumber(buf, pos, 1, le)),
        LAMBDA r : <<[k \in DOMAIN r[1] |-> IF r[1][k] \in DOMAIN Types THEN Types[r[1][k]] ELSE "?"], r[2]>>)

\* What is to be read: values of these types, one after another from pos, or
\* if an end is given, values of the one type up to there.
Request == [types : Seq(Signature), buf : Seq(Nat), pos : Nat, le : BOOLEAN, end : Nat]

\* One value in the place of the whole request.
Within(r, sig, pos) == [r EXCEPT !.types = <<SubSeq(sig, 1, TypeLen[sig])>>, !.pos = pos, !.end = 0]

\* The members of a struct, or the key and the value of an entry.
Members(r, sig) ==
  [r EXCEPT !.types = LET inner == SplitTypes[SubSeq(sig, 2, Len(sig) - 1)]
                      IN IF sig[1] = "{" THEN SubSeq(inner, 1, 2) ELSE inner,
            !.pos = @ + Pad(8, @), !.end = 0]

\* The elements of an array, after its count.
Elements(r, elem, n) ==
  LET start == n[2] + Pad(Alignment(elem), n[2])
  IN [r EXCEPT !.types = <<elem>>, !.pos = start, !.end = start + n[1]]

Fits(r, elem, n) == elem # <<>> /\ n[1] <= MaxBody /\ Elements(r, elem, n).end <= Len(r.buf)

\* The values of a request. Containers are requests of their own; a malformed
\* count may leave an element past the declared end.
ReadRow[r \in Request] ==
  LET One(sig) ==
        CASE Fixed(sig[1]) > 0     -> ReadNumber(r.buf, r.pos, Fixed(sig[1]), r.le)
          [] sig[1] \in {"s", "o"} -> ReadCounted(r.buf, ReadNumber(r.buf, r.pos, 4, r.le))
          [] sig[1] = "g"          -> ReadSignature(r.buf, r.pos, r.le)
          [] sig[1] = "v"          ->
               After(ReadSignature(r.buf, r.pos, r.le),
                     LAMBDA s : After(ReadRow[Within(r, s[1], s[2])],
                                      LAMBDA v : <<<<s[1], v[1][1]>>, v[2]>>))
          [] sig[1] = "a"          ->
               After(ReadNumber(r.buf, r.pos, 4, r.le),
                     LAMBDA n : IF Fits(r, Tail(sig), n) THEN ReadRow[Elements(r, Tail(sig), n)] ELSE Failed)
          [] sig[1] \in {"(", "{"} ->
               IF sig[1] = "{" /\ Len(Members(r, sig).types) < 2 THEN Failed ELSE ReadRow[Members(r, sig)]
          [] OTHER                 -> Failed
  IN IF r.types = <<>> \/ (r.end > 0 /\ r.pos = r.end) THEN <<<<>>, r.pos>>
     ELSE IF (r.end > 0 /\ r.pos > r.end) \/ r.types[1] = <<>> THEN Failed
     ELSE After(One(r.types[1]),
                LAMBDA one :
                  After(ReadRow[[r EXCEPT !.types = IF r.end = 0 THEN Tail(@) ELSE @, !.pos = one[2]]],
                        LAMBDA rest : <<<<one[1]>> \o rest[1], rest[2]>>))

Read(sig, buf, pos, le) ==
  ReadRow[[types |-> SplitTypes[sig], buf |-> buf, pos |-> pos, le |-> le, end |-> 0]]

RECURSIVE Unboxed(_)
Unboxed(v) == IF v[1] # <<>> /\ v[1][1] = "v" THEN Unboxed(v[2]) ELSE v

\* The last field of a code, if it is of a type that code has.
Field(fields, code, types) ==
  LET at == {k \in DOMAIN fields : fields[k][1] = code}
      v  == Unboxed(fields[CHOOSE k \in at : \A j \in at : j <= k][2])
  IN IF at = {} \/ v[1] = <<>> THEN <<>>
     ELSE IF v[1][1] \in types THEN <<v[2]>> ELSE <<>>

\* What the client keeps of a message.
Kept(kind, serial, fields, body, le) ==
  [kind |-> kind, serial |-> serial, reply |-> Field(fields, 5, {"u", "h"}),
   names |-> [code \in {1, 2, 3, 4, 7} |-> Field(fields, code, {"s", "o"})],
   values |-> After(Read(FlattenSeq(Field(fields, 8, {"g"})), body, 0, le), LAMBDA r : <<r[1]>>)]

\* Broken variant of BodyStart: the padding after the header is forgotten.
BodyStartUnpadded(end) == end

BodyStart(end) == end + Pad(8, end)

More == [is |-> "more"]

Bad == [is |-> "bad"]

Framed(buf, le, start, body) ==
  IF Len(buf) < start + body THEN More
  ELSE LET Of(r) == IF r = Failed THEN Bad
                    ELSE [is |-> "message", used |-> start + body,
                          message |-> Kept(buf[2], ReadNumber(buf, 8, 4, le)[1], r[1][1],
                                           SubSeq(buf, start + 1, start + body), le)]
       IN Of(Read(<<"a", "(", "y", "v", ")">>, buf, 12, le))

\* The first message of a buffer and its length, none yet, or none ever.
Parse(buf) ==
  LET Bounded(le, body, fields) ==
        IF body > MaxBody \/ PrefixLen + fields > MaxBody THEN Bad
        ELSE Framed(buf, le, BodyStart(PrefixLen + fields), body)
  IN CASE Len(buf) < PrefixLen -> More
       [] Len(buf) >= PrefixLen /\ (buf[1] \notin {108, 66} \/ buf[4] # 1) -> Bad
       [] OTHER -> Bounded(buf[1] = 108, ReadNumber(buf, 4, 4, buf[1] = 108)[1],
                           ReadNumber(buf, 12, 4, buf[1] = 108)[1])

-----------------------------------------------------------------------------
(* The connection. The script is all the bus will write; a reply comes     *)
(* after its call.                                                         *)

VARIABLES
  script, greeting,   \* what the bus writes
  encoded,            \* the bytes of each message of the script
  mode,               \* "greeting", "idle", "calling", "following" or "dead"
  position,           \* bytes read off the socket
  in_buf,             \* of those, the ones not framed yet
  serial,             \* the last call's
  kept,               \* signals put aside during calls
  heard,              \* history: messages framed
  signals, replies,   \* history: signals handed over, and replies with their calls
  dropped, given_up   \* whether a signal was pushed out; calls given up

wireVars == <<script, greeting, encoded, mode, position, in_buf, serial, kept, heard, signals, replies,
              dropped, given_up>>

\* The first k messages.
BytesOf(k) == FlattenSeq(SubSeq(encoded, 1, k))

Stream == BytesOf(Len(script))

\* How much the bus has written: nothing from the first reply to a call that
\* is still to come.
Sendable ==
  LET early == {k \in DOMAIN script : script[k].to > serial}
  IN Len(BytesOf(IF early = {} THEN Len(script) ELSE Min(early) - 1))

\* read_line takes a byte at a time, so nothing after the line is lost.
Greeted(line) ==
  LET ends == {k \in DOMAIN line : line[k] = 10}
  IN ends # {} /\ Min(ends) <= MaxLine /\ IsPrefix(<<79, 75>>, line)

Authenticate ==
  /\ mode = "greeting"
  /\ mode' = IF Greeted(greeting) THEN "idle" ELSE "dead"
  /\ UNCHANGED <<script, greeting, encoded, position, in_buf, serial, kept, heard, signals, replies, dropped, given_up>>

PlaceCall ==
  /\ mode = "idle" /\ serial < Len(script)
  /\ mode' = "calling"
  /\ serial' = serial + 1
  /\ UNCHANGED <<script, greeting, encoded, position, in_buf, kept, heard, signals, replies, dropped, given_up>>

\* A signal put aside is handed over at once.
NextSignal ==
  /\ mode = "idle"
  /\ mode' = IF kept = <<>> THEN "following" ELSE "idle"
  /\ kept' = IF kept = <<>> THEN kept ELSE Tail(kept)
  /\ signals' = IF kept = <<>> THEN signals ELSE Append(signals, Head(kept))
  /\ UNCHANGED <<script, greeting, encoded, position, in_buf, serial, heard, replies, dropped, given_up>>

ReadSome(parsed, n) ==
  /\ parsed = More
  /\ position + n <= Sendable
  /\ in_buf' = in_buf \o SubSeq(Stream, position + 1, position + n)
  /\ position' = position + n
  /\ UNCHANGED <<script, greeting, encoded, mode, serial, kept, heard, signals, replies, dropped, given_up>>

IsReply(m) == m.kind \in {2, 3} /\ m.reply = <<serial>>

\* A whole message: the reply waited for, a signal, or neither.
Frame(parsed) ==
  /\ parsed.is = "message"
  /\ LET m == parsed.message
     IN /\ in_buf' = SubSeq(in_buf, parsed.used + 1, Len(in_buf))
        /\ heard' = Append(heard, m)
        /\ \/ /\ mode = "calling" /\ IsReply(m)
              /\ replies' = Append(replies, <<serial, m.reply>>)
              /\ mode' = "idle"
              /\ UNCHANGED <<kept, signals, dropped>>
           \/ /\ mode = "calling" /\ m.kind = 4
              /\ kept' = Append(IF Len(kept) >= MaxKept THEN Tail(kept) ELSE kept, m)
              /\ dropped' = (dropped \/ Len(kept) >= MaxKept)
              /\ UNCHANGED <<mode, signals, replies>>
           \/ /\ mode = "following" /\ m.kind = 4
              /\ signals' = Append(signals, m)
              /\ mode' = "idle"
              /\ UNCHANGED <<kept, replies, dropped>>
           \/ /\ m.kind # 4 /\ ~(mode = "calling" /\ IsReply(m))
              /\ UNCHANGED <<mode, kept, signals, replies, dropped>>
  /\ UNCHANGED <<script, greeting, encoded, position, serial, given_up>>

\* Broken variant of GiveUp: what was read of a message goes with the call.
GiveUpForgetting(parsed) ==
  /\ mode = "calling" /\ parsed = More /\ given_up < MaxGivenUp
  /\ given_up' = given_up + 1
  /\ mode' = "idle"
  /\ in_buf' = <<>>
  /\ UNCHANGED <<script, greeting, encoded, position, serial, kept, heard, signals, replies, dropped>>

\* Five seconds without the reply; what was read of a message stays.
GiveUp(parsed) ==
  /\ mode = "calling" /\ parsed = More /\ given_up < MaxGivenUp
  /\ given_up' = given_up + 1
  /\ mode' = "idle"
  /\ UNCHANGED <<script, greeting, encoded, position, in_buf, serial, kept, heard, signals, replies, dropped>>

\* A stream that makes no sense, or has ended, fails every call from then on.
Break(parsed) ==
  /\ parsed = Bad \/ (parsed = More /\ position = Len(Stream))
  /\ mode' = "dead"
  /\ UNCHANGED <<script, greeting, encoded, position, in_buf, serial, kept, heard, signals, replies, dropped, given_up>>

WireInit ==
  /\ script \in Scripts /\ greeting \in Greetings
  /\ encoded = [k \in DOMAIN script |-> Written(script[k])]
  /\ mode = "greeting" /\ position = 0 /\ in_buf = <<>> /\ serial = 0
  /\ kept = <<>> /\ heard = <<>> /\ signals = <<>> /\ replies = <<>>
  /\ dropped = FALSE /\ given_up = 0

\* Who waits goes by what the buffer holds.
Waits ==
  /\ mode \in {"calling", "following"}
  /\ \E parsed \in {Parse(in_buf)} :
       \/ Frame(parsed) \/ GiveUp(parsed) \/ Break(parsed)
       \/ \E n \in ReadLengths \cup {Sendable - position} : n > 0 /\ ReadSome(parsed, n)

WireNext == Authenticate \/ PlaceCall \/ NextSignal \/ Waits

-----------------------------------------------------------------------------
(* Correctness.                                                            *)

\* What the client should keep of a message the bus wrote.
Meant(m) == [Kept(m.kind, m.serial, m.fields, <<>>, TRUE) EXCEPT !.values = <<m.body>>]

\* What the client asks reads as it was meant.
CallsRead ==
  \A call \in Calls :
    LET bytes == Written(Message(1, call))
    IN Parse(bytes) = [is |-> "message", used |-> Len(bytes), message |-> Meant(Message(1, call))]

Signals(row) == SelectSeq(row, LAMBDA m : m.kind = 4)

Sound == [s \in Scripts |-> LET sound == SelectSeq(s, LAMBDA m : m.sound)
                            IN [k \in DOMAIN sound |-> Meant(sound[k])]]

\* However the bytes come, and whichever calls are given up in between, the
\* messages are those the bus wrote, whole, once and in order, as far as they
\* have come; a reply goes to its own call, and the signals of the calls'
\* time are handed over before later ones, none lost but the oldest of too
\* many.
MessagesAreExact ==
  /\ mode = "idle" /\ position + serial = 0 => CallsRead
  /\ mode # "greeting" => IsPrefix(heard, Sound[script])
  /\ in_buf = SubSeq(Stream, Len(BytesOf(Len(heard))) + 1, position)
  /\ \A k \in DOMAIN replies : replies[k][2] = <<replies[k][1]>>
  /\ dropped \/ signals \o kept = Signals(heard)
  /\ mode = "dead" => \/ ~Greeted(greeting) \/ Len(heard) = Len(script)
                      \/ \E k \in DOMAIN script : ~script[k].sound

=============================================================================
