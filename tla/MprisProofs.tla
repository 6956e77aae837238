---------------------------- MODULE MprisProofs -----------------------------
(***************************************************************************)
(* Titles from media players, for any names, connections, streams and      *)
(* bounds.                                                                 *)
(***************************************************************************)
EXTENDS Mpris, TLAPS, FiniteSetTheorems, SequenceTheorems, WellFoundedInduction

-----------------------------------------------------------------------------
(* What is on the socket, and what is asked.                               *)

Serials == 1 .. MaxTimeouts + 2

Owners == Conn \cup {Nobody}

TitleSet == (UNION {TitlesOf[c] : c \in Conn}) \cup {Nobody}

PidSet == {PidOf[c] : c \in Conn} \cup {Nobody}

IdentitySet == {Declared[c] : c \in Conn} \cup {<<>>}

\* What a reply may carry.
Said ==
  {"owner", "properties"} \cup (SUBSET PlayerName) \cup Owners \cup PidSet
  \cup {Declared[c] : c \in Conn} \cup TitleSet

OwnerSignals == {"owner"} \X PlayerName \X Owners \X Owners

PropertiesSignals == {"properties"} \X Conn \X {Nobody} \X {Nobody}

Signals == OwnerSignals \cup PropertiesSignals

Answers == {"reply"} \X Serials \X Said

Messages == Signals \cup Answers

CallSet ==
  [serial : Serials, what : {"match"}, of : {"owner", "properties"}]
  \cup [serial : Serials, what : {"names"}, of : {Nobody}]
  \cup [serial : Serials, what : {"owner", "pid"}, of : PlayerName]
  \cup [serial : Serials, what : {"calls", "title"}, of : Conn]

PlayerSet == [name : PlayerName, owner : Conn, pid : PidSet, calls : IdentitySet, title : TitleSet]

\* A player with a title and a name of its own, or none.
OwnSet ==
  {e \in PlayerSet : e.title \in TitlesOf[e.owner] \cup {Nobody} /\ e.calls \in {Declared[e.owner], <<>>}}

Replies(l) == {i \in DOMAIN l : l[i][1] = "reply"}

\* The serials that are taken.
Outstanding(o, l) == {c.serial : c \in o} \cup {l[i][2] : i \in Replies(l)}

TypeOk ==
  /\ owner \in [PlayerName -> Owners] /\ playing \in [Conn -> TitleSet]
  /\ open \subseteq CallSet /\ line \in Seq(Messages) /\ backlog \in Seq(Signals)
  /\ waits \in {0} \cup Serials /\ timeouts \in 0 .. MaxTimeouts
  /\ cache \in Seq(OwnSet)
  /\ todo \subseteq PlayerName

PlayingOk == \A c \in Conn : playing[c] \in TitlesOf[c] \cup {Nobody}

\* A serial is taken once, and those of calls given up are no more than were
\* given up: so a new call always finds one.
SerialsApart ==
  /\ \A c, d \in open : c.serial = d.serial => c = d
  /\ \A c \in open, i \in Replies(line) : c.serial # line[i][2]
  /\ \A i, j \in Replies(line) : line[i][2] = line[j][2] => i = j
  /\ Cardinality(Outstanding(open, line) \ {waits}) <= timeouts

Asking == {"match owner", "match properties", "names", "owner", "pid", "calls", "title", "refresh"}

AsksFor(at) == CASE at \in {"match owner", "match properties"} -> "match"
                 [] at \in {"title", "refresh"} -> "title"
                 [] OTHER -> at

\* Whom it asks for.
Concerns == CASE step = "match owner" -> "owner"
              [] step = "match properties" -> "properties"
              [] step = "names" -> Nobody
              [] step \in {"owner", "pid"} -> job.name
              [] OTHER -> job.owner

\* The call in hand is what the step is about.
CallFits == \A c \in open : c.serial = waits => c.what = AsksFor(step) /\ c.of = Concerns

\* What an answer to it may be.
Right(value) ==
  /\ step = "names" => value \in (SUBSET PlayerName) \cup {Nobody}
  /\ step = "owner" => value \in Owners
  /\ step = "pid" => value \in PidSet
  /\ step = "calls" => value \in {Declared[job.owner], Nobody}
  /\ step \in {"title", "refresh"} => value \in TitlesOf[job.owner] \cup {Nobody}

ReplyFits == \A i \in Replies(line) : line[i][2] = waits => Right(line[i][3])

JobOk ==
  /\ step \in Asking \cup {"start", "follow", "stopped"}
  /\ waits # 0 <=> step \in Asking
  /\ step \in {"owner", "pid", "calls", "title"} => job.name \in PlayerName
  /\ step \in {"pid", "calls", "title", "refresh"} => job.owner \in Conn
  /\ step \in {"calls", "title"} => job.pid \in PidSet
  /\ step = "title" => job.calls \in {Declared[job.owner], <<>>}

JobSet == [name : PlayerName \cup {Nobody}, owner : Owners, pid : PidSet, calls : IdentitySet, bound : BOOLEAN]

\* A title that is remembered is what a match would find, if nothing changed since.
MemoryOk ==
  \A s \in Audio : resolved[s].generation = generation => resolved[s].title = Match(cache, s, resolved[s].ident)

AnswersStand ==
  TypeOk /\ PlayingOk /\ SerialsApart /\ CallFits /\ ReplyFits /\ JobOk /\ job \in JobSet /\ MemoryOk

-----------------------------------------------------------------------------
(* Serials: every call finds one that is free.                             *)

LEMMA MessagesAre ==
  ASSUME NEW m \in Messages
  PROVE  /\ m[1] = "reply" => m \in Answers /\ m[2] \in Serials /\ m[3] \in Said
         /\ m[1] # "reply" => m \in Signals
         /\ m \in Signals => m[1] \in {"owner", "properties"}
BY DEF Messages, Answers, Signals, OwnerSignals, PropertiesSignals

LEMMA CallsHaveSerials == \A c \in CallSet : c.serial \in Serials
BY DEF CallSet

LEMMA TailIs ==
  ASSUME NEW S, NEW l \in Seq(S), l # <<>>
  PROVE  /\ Len(l) \in Nat \ {0} /\ Head(l) = l[1] /\ Head(l) \in S /\ 1 \in DOMAIN l
         /\ Tail(l) \in Seq(S) /\ Len(Tail(l)) = Len(l) - 1 /\ DOMAIN Tail(l) = 1 .. Len(l) - 1
         /\ \A i \in 1 .. Len(l) - 1 : Tail(l)[i] = l[i + 1] /\ i + 1 \in DOMAIN l
OBVIOUS

LEMMA AppendIs ==
  ASSUME NEW S, NEW l \in Seq(S), NEW m \in S
  PROVE  /\ Append(l, m) \in Seq(S) /\ Len(l) \in Nat /\ DOMAIN Append(l, m) = 1 .. Len(l) + 1
         /\ DOMAIN l = 1 .. Len(l)
         /\ Append(l, m)[Len(l) + 1] = m
         /\ \A i \in DOMAIN l : Append(l, m)[i] = l[i] /\ i \in DOMAIN Append(l, m)
OBVIOUS

\* A signal more is no reply more.
LEMMA SignalsAreNoReplies ==
  ASSUME NEW l \in Seq(Messages), NEW m \in Signals
  PROVE  /\ Append(l, m) \in Seq(Messages)
         /\ Replies(Append(l, m)) = Replies(l) /\ \A i \in Replies(l) : Append(l, m)[i] = l[i]
<1>1. m \in Messages /\ m[1] # "reply"
  BY MessagesAre DEF Messages
<1>2. /\ Append(l, m) \in Seq(Messages) /\ Len(l) \in Nat /\ DOMAIN Append(l, m) = 1 .. Len(l) + 1
      /\ DOMAIN l = 1 .. Len(l)
      /\ Append(l, m)[Len(l) + 1] = m
      /\ \A i \in DOMAIN l : Append(l, m)[i] = l[i] /\ i \in DOMAIN Append(l, m)
  BY <1>1, AppendIs
<1> QED BY <1>1, <1>2 DEF Replies

LEMMA RepliesOfTail ==
  ASSUME NEW l \in Seq(Messages), l # <<>>
  PROVE  /\ \A i \in Replies(Tail(l)) : i + 1 \in Replies(l) /\ i + 1 # 1 /\ Tail(l)[i] = l[i + 1]
         /\ Replies(Tail(l)) \subseteq Int
         /\ Head(l)[1] = "reply" => 1 \in Replies(l) /\ Head(l) = l[1]
BY TailIs DEF Replies

LEMMA OutstandingIs ==
  ASSUME TypeOk
  PROVE  /\ Outstanding(open, line) \subseteq Serials
         /\ IsFiniteSet(Serials) /\ Cardinality(Serials) = MaxTimeouts + 2
         /\ IsFiniteSet(Outstanding(open, line))
<1>1. \A i \in Replies(line) : line[i] \in Messages /\ line[i][1] = "reply"
  BY DEF TypeOk, Replies
<1>2. \A i \in Replies(line) : line[i][2] \in Serials
  BY <1>1, MessagesAre
<1>3. Outstanding(open, line) \subseteq Serials
  BY <1>2, CallsHaveSerials DEF TypeOk, Outstanding
<1>4. IsFiniteSet(Serials) /\ Cardinality(Serials) = MaxTimeouts + 2
  BY FS_Interval, BoundsAssumption DEF Serials
<1> QED BY <1>3, <1>4, FS_Subset

LEMMA SerialIsFree ==
  ASSUME TypeOk, SerialsApart
  PROVE  Serial \in Serials /\ Serial \notin Outstanding(open, line)
<1> DEFINE taken == Outstanding(open, line)
           late == taken \ {waits}
<1>1. taken \subseteq Serials /\ IsFiniteSet(Serials) /\ Cardinality(Serials) = MaxTimeouts + 2 /\ IsFiniteSet(taken)
  BY OutstandingIs
<1>2. IsFiniteSet(late) /\ Cardinality(late) <= timeouts
  BY <1>1, FS_RemoveElement DEF SerialsApart
<1>3. Cardinality(late) \in Nat /\ timeouts \in 0 .. MaxTimeouts /\ MaxTimeouts \in Nat
  BY <1>2, FS_CardinalityType, BoundsAssumption DEF TypeOk
<1>4. IsFiniteSet(late \cup {waits}) /\ Cardinality(late \cup {waits}) <= MaxTimeouts + 1
  <2> HIDE DEF late
  <2>1. IsFiniteSet(late \cup {waits})
        /\ Cardinality(late \cup {waits}) = IF waits \in late THEN Cardinality(late) ELSE Cardinality(late) + 1
    BY <1>2, FS_AddElement
  <2> QED BY <1>2, <1>3, <2>1
<1>5. taken \in SUBSET (late \cup {waits})
  OBVIOUS
<1>6. Cardinality(taken) \in Nat /\ Cardinality(taken) <= Cardinality(late \cup {waits})
  BY <1>1, <1>4, <1>5, FS_Subset, FS_CardinalityType
<1>7. Cardinality(late \cup {waits}) \in Nat
  BY <1>4, FS_CardinalityType
<1>8. taken # Serials
  BY <1>1, <1>3, <1>4, <1>6, <1>7
<1>9. PICK n \in Serials : n \notin taken
  BY <1>1, <1>8
<1>10. \A k \in Serials : k \notin taken <=>
         /\ \A c \in open : c.serial # k
         /\ \A i \in DOMAIN line : line[i][1] = "reply" => line[i][2] # k
  BY DEF Outstanding, Replies
<1> HIDE DEF taken
<1>11. /\ Serial \in Serials /\ (\A c \in open : c.serial # Serial)
       /\ \A i \in DOMAIN line : line[i][1] = "reply" => line[i][2] # Serial
  BY <1>9, <1>10 DEF Serial, Serials
<1> QED BY <1>10, <1>11 DEF taken

\* One call ends, or is given up, and another may begin.
Ends == open' = open /\ waits' = 0

Asks(c) == c \in CallSet /\ c.serial = Serial /\ open' = open \cup {c} /\ waits' = Serial

HeadIsMine == line # <<>> /\ Head(line)[1] = "reply" /\ Head(line)[2] = waits /\ line' = Tail(line)

LEMMA WireStep ==
  ASSUME TypeOk, SerialsApart,
         line' = line \/ (line # <<>> /\ line' = Tail(line)),
         Ends \/ (\E c : Asks(c)) \/ (open' = open /\ waits' = waits),
         \/ timeouts' = timeouts /\ (waits = 0 \/ waits' = waits \/ HeadIsMine)
         \/ timeouts < MaxTimeouts /\ timeouts' = timeouts + 1
  PROVE  /\ SerialsApart'
         /\ open' \subseteq CallSet /\ line' \in Seq(Messages)
         /\ waits' \in {0} \cup Serials /\ timeouts' \in 0 .. MaxTimeouts
         /\ \A c : Asks(c) => c \notin open /\ \A d \in open : d.serial # c.serial
         /\ \A c : Asks(c) => \A i \in Replies(line') : line'[i][2] # waits'
<1> DEFINE taken == Outstanding(open, line)
           late == taken \ {waits}
           taken2 == Outstanding(open', line')
           late2 == taken2 \ {waits'}
<1>1. Serial \in Serials /\ Serial \notin taken
  BY SerialIsFree
<1>2. open \subseteq CallSet /\ line \in Seq(Messages) /\ waits \in {0} \cup Serials
      /\ timeouts \in 0 .. MaxTimeouts /\ MaxTimeouts \in Nat
  BY BoundsAssumption DEF TypeOk
<1>3. open' \subseteq CallSet /\ line' \in Seq(Messages) /\ waits' \in {0} \cup Serials /\ timeouts' \in 0 .. MaxTimeouts
  BY <1>1, <1>2, TailIs DEF Ends, Asks
<1>4. /\ \A i \in Replies(line') : \E k \in Replies(line) : line'[i] = line[k]
                                  /\ (line' = Tail(line) /\ line # <<>> => k # 1)
      /\ \A i, j \in Replies(line') : line'[i][2] = line'[j][2] => i = j
  <2>1. CASE line' = line /\ ~(line' = Tail(line) /\ line # <<>>)
    BY <2>1 DEF SerialsApart
  <2>2. CASE line # <<>> /\ line' = Tail(line)
    <3>1. /\ \A i \in Replies(line') : i + 1 \in Replies(line) /\ i + 1 # 1 /\ line'[i] = line[i + 1]
          /\ Replies(line') \subseteq Int
      BY <1>2, <2>2, RepliesOfTail
    <3>2. ASSUME NEW i \in Replies(line'), NEW j \in Replies(line'), line'[i][2] = line'[j][2]
          PROVE  i = j
      <4>1. line[i + 1][2] = line[j + 1][2] /\ i + 1 \in Replies(line) /\ j + 1 \in Replies(line)
        BY <3>1, <3>2
      <4>2. i + 1 = j + 1
        BY <4>1 DEF SerialsApart
      <4> QED BY <3>1, <4>2
    <3> QED BY <3>1, <3>2
  <2> QED BY <2>1, <2>2
<1>5. \A i \in Replies(line') : line'[i][2] \in taken
  BY <1>4 DEF Outstanding
<1>6. \A c \in open' : c \in open \/ Asks(c)
  BY DEF Ends, Asks
<1>7. \A c \in open : c.serial \in taken
  BY DEF Outstanding
<1>8. \A c : Asks(c) => c \notin open /\ (\A d \in open : d.serial # c.serial) /\ c.serial \notin taken
  BY <1>1, <1>7 DEF Asks
<1>9. \A c, d \in open' : c.serial = d.serial => c = d
  <2> SUFFICES ASSUME NEW c \in open', NEW d \in open', c.serial = d.serial PROVE c = d
    OBVIOUS
  <2>1. CASE c \in open /\ d \in open
    BY <2>1 DEF SerialsApart
  <2>2. CASE Asks(c) /\ Asks(d)
    <3>1. open' = open \cup {c} /\ open' = open \cup {d} /\ c \notin open /\ d \notin open
      BY <1>8, <2>2 DEF Asks
    <3> QED BY <3>1
  <2> QED BY <1>6, <1>8, <2>1, <2>2
<1>10. \A c \in open', i \in Replies(line') : c.serial # line'[i][2]
  <2> SUFFICES ASSUME NEW c \in open', NEW i \in Replies(line') PROVE c.serial # line'[i][2]
    OBVIOUS
  <2>1. CASE c \in open
    BY <1>4, <2>1 DEF SerialsApart
  <2>2. CASE Asks(c)
    BY <1>5, <1>8, <2>2
  <2> QED BY <1>6, <2>1, <2>2
<1>11. taken2 \subseteq taken \cup {waits'}
  <2>1. \A c \in open' : c.serial \in taken \cup {waits'}
    BY <1>6, <1>7 DEF Asks
  <2> QED BY <1>5, <2>1 DEF Outstanding
<1>12. IsFiniteSet(taken) /\ IsFiniteSet(late) /\ Cardinality(late) \in Nat /\ Cardinality(late) <= timeouts
  BY OutstandingIs, FS_RemoveElement, FS_CardinalityType DEF SerialsApart
<1>13. HeadIsMine => waits \notin taken2 \/ waits = waits'
  <2> SUFFICES ASSUME HeadIsMine PROVE waits \notin taken2 \/ waits = waits'
    OBVIOUS
  <2>1. 1 \in Replies(line) /\ line[1][2] = waits
    BY <1>2, RepliesOfTail DEF HeadIsMine
  <2>2. \A c \in open : c.serial # waits
    BY <2>1 DEF SerialsApart
  <2>3. \A i \in Replies(line') : line'[i][2] # waits
    <3> SUFFICES ASSUME NEW i \in Replies(line') PROVE line'[i][2] # waits
      OBVIOUS
    <3>1. PICK k \in Replies(line) : line'[i] = line[k] /\ k # 1
      BY <1>4 DEF HeadIsMine
    <3> QED BY <2>1, <3>1 DEF SerialsApart
  <2>4. \A c \in open' : c.serial = waits => waits = waits'
    BY <1>6, <2>2 DEF Asks
  <2> QED BY <2>3, <2>4 DEF Outstanding
<1> HIDE DEF taken, taken2
<1>14. IsFiniteSet(late2) /\ Cardinality(late2) <= timeouts'
  <2>1. CASE timeouts' = timeouts /\ (waits = 0 \/ waits' = waits \/ HeadIsMine)
    <3>1. late2 \subseteq late
      <4>1. CASE waits = 0
        <5>1. 0 \notin taken
          BY OutstandingIs DEF taken, Serials
        <5> QED BY <1>11, <4>1, <5>1
      <4>2. CASE waits' = waits
        BY <1>11, <4>2
      <4>3. CASE HeadIsMine
        BY <1>11, <1>13, <4>3
      <4> QED BY <2>1, <4>1, <4>2, <4>3
    <3> HIDE DEF late2, late
    <3> QED BY <1>2, <1>12, <2>1, <3>1, FS_Subset, FS_CardinalityType
  <2>2. CASE timeouts < MaxTimeouts /\ timeouts' = timeouts + 1
    <3>1. late2 \subseteq late \cup {waits}
      BY <1>11
    <3> HIDE DEF late2, late
    <3>2. IsFiniteSet(late \cup {waits}) /\ Cardinality(late \cup {waits}) <= Cardinality(late) + 1
      <4>1. IsFiniteSet(late \cup {waits})
            /\ Cardinality(late \cup {waits}) = IF waits \in late THEN Cardinality(late) ELSE Cardinality(late) + 1
        BY <1>12, FS_AddElement
      <4> QED BY <1>12, <4>1
    <3>3. /\ IsFiniteSet(late2) /\ Cardinality(late2) <= Cardinality(late \cup {waits})
          /\ Cardinality(late2) \in Nat /\ Cardinality(late \cup {waits}) \in Nat
      BY <3>1, <3>2, FS_Subset, FS_CardinalityType
    <3> QED BY <1>2, <1>12, <2>2, <3>2, <3>3
  <2> QED BY <2>1, <2>2
<1>15. \A c : Asks(c) => \A i \in Replies(line') : line'[i][2] # waits'
  BY <1>1, <1>5 DEF Asks
<1>16. SerialsApart'
  BY <1>4, <1>9, <1>10, <1>14 DEF SerialsApart, taken2
<1> QED BY <1>3, <1>8, <1>15, <1>16

-----------------------------------------------------------------------------
(* The cache.                                                              *)

LessThan == {pair \in Nat \X Nat : pair[1] < pair[2]}

LEMMA LessThanWellFounded == IsWellFoundedOn(LessThan, Nat)
BY NatLessThanWellFounded DEF OpToRel, LessThan

LEMMA LeastExists ==
  ASSUME NEW S, S \subseteq Nat, S # {}
  PROVE  \E x \in S : \A y \in S : x <= y
<1>1. \E x \in S : \A y \in S : ~ (<<y, x>> \in LessThan)
  BY LessThanWellFounded, WFMin, Zenon
<1>2. \A x, y \in Nat : ~ (<<y, x>> \in LessThan) => x <= y
  BY DEF LessThan
<1> QED BY <1>1, <1>2

\* There is a first player that fits.
LEMMA FirstExists ==
  ASSUME NEW c \in Seq(OwnSet), NEW F, \E i \in DOMAIN c : c[i] \in F
  PROVE  \E k \in DOMAIN c : c[k] \in F /\ \A j \in 1 .. k - 1 : c[j] \notin F
<1> DEFINE S == {i \in DOMAIN c : c[i] \in F}
<1>1. S \subseteq Nat /\ S # {}
  OBVIOUS
<1>2. PICK i \in S : \A j \in S : i <= j
  BY <1>1, LeastExists
<1>3. \A j \in 1 .. i - 1 : j \in DOMAIN c /\ ~(i <= j)
  OBVIOUS
<1> QED BY <1>2, <1>3

LEMMA FirstOwner ==
  ASSUME NEW c \in Seq(OwnSet), NEW who, \E i \in DOMAIN c : c[i].owner = who
  PROVE  \E k \in DOMAIN c : c[k].owner = who /\ \A j \in 1 .. k - 1 : ~(c[j].owner = who)
<1> DEFINE F == {e \in OwnSet : e.owner = who}
<1>1. \A i \in DOMAIN c : c[i] \in OwnSet /\ (c[i] \in F <=> c[i].owner = who)
  OBVIOUS
<1>2. \A k \in DOMAIN c : \A j \in 1 .. k - 1 : j \in DOMAIN c
  OBVIOUS
<1> HIDE DEF F
<1>3. PICK k \in DOMAIN c : c[k] \in F /\ \A j \in 1 .. k - 1 : c[j] \notin F
  BY <1>1, FirstExists
<1> QED BY <1>1, <1>2, <1>3

LEMMA FirstName ==
  ASSUME NEW c \in Seq(OwnSet), NEW name, \E i \in DOMAIN c : c[i].name = name
  PROVE  \E k \in DOMAIN c : c[k].name = name /\ \A j \in 1 .. k - 1 : ~(c[j].name = name)
<1> DEFINE F == {e \in OwnSet : e.name = name}
<1>1. \A i \in DOMAIN c : c[i] \in OwnSet /\ (c[i] \in F <=> c[i].name = name)
  OBVIOUS
<1>2. \A k \in DOMAIN c : \A j \in 1 .. k - 1 : j \in DOMAIN c
  OBVIOUS
<1> HIDE DEF F
<1>3. PICK k \in DOMAIN c : c[k] \in F /\ \A j \in 1 .. k - 1 : c[j] \notin F
  BY <1>1, FirstExists
<1> QED BY <1>1, <1>2, <1>3

LEMMA InsertKeeps ==
  ASSUME cache \in Seq(OwnSet), NEW e \in OwnSet, Insert(e)
  PROVE  cache' \in Seq(OwnSet) /\ generation' = Bumped
<1>1. CASE Cached(e.name)
  <2> DEFINE k == IndexOf(cache, LAMBDA x : x.name = e.name)
  <2>1. cache' = [cache EXCEPT ![k] = e] /\ generation' = Bumped
    BY <1>1 DEF Insert
  <2>2. k \in DOMAIN cache
    BY <1>1, FirstName DEF Cached, IndexOf
  <2> HIDE DEF k
  <2>3. k \in 1 .. Len(cache)
    BY <2>2
  <2> QED BY <2>1, <2>3, ExceptSeq
<1>2. CASE ~Cached(e.name) /\ Takes(e.name)
  BY <1>2 DEF Insert
<1>3. CASE ~Cached(e.name) /\ ~Takes(e.name)
  BY <1>3 DEF Insert
<1> QED BY <1>1, <1>2, <1>3

LEMMA DetachKeeps ==
  ASSUME cache \in Seq(OwnSet), NEW name, Detach(name)
  PROVE  cache' \in Seq(OwnSet) /\ generation' = Bumped
<1>1. CASE Cached(name)
  <2> DEFINE k == IndexOf(cache, LAMBDA e : e.name = name)
  <2>1. cache' = SwapRemoved(k) /\ generation' = Bumped
    BY <1>1 DEF Detach
  <2> HIDE DEF k
  <2>2. Len(cache) \in Nat \ {0} /\ DOMAIN cache = 1 .. Len(cache)
    BY <1>1 DEF Cached
  <2>3. \A j \in 1 .. Len(cache) - 1 : cache[j] \in OwnSet /\ cache[Len(cache)] \in OwnSet
    BY <2>2
  <2>4. SwapRemoved(k) \in Seq(OwnSet)
    BY <2>2, <2>3 DEF SwapRemoved
  <2> QED BY <2>1, <2>4
<1>2. CASE ~Cached(name)
  BY <1>2 DEF Detach
<1> QED BY <1>1, <1>2

\* The new number is none that is remembered.
LEMMA BumpedIsFresh == \A s \in Audio : resolved[s].generation # Bumped
<1> DEFINE T == {resolved[s].generation : s \in Audio}
           f == [s \in Audio |-> resolved[s].generation]
           G == 1 .. Cardinality(Audio) + 1
<1>1. IsFiniteSet(Audio) /\ Cardinality(Audio) \in Nat
  BY BoundsAssumption, FS_CardinalityType
<1>2. f \in Surjection(Audio, T)
  BY DEF Surjection
<1>3. IsFiniteSet(T) /\ Cardinality(T) <= Cardinality(Audio)
  BY <1>1, <1>2, FS_Surjection
<1>4. IsFiniteSet(G) /\ Cardinality(G) = Cardinality(Audio) + 1
  BY <1>1, FS_Interval
<1> HIDE DEF T, G
<1>5. ~(G \subseteq T)
  <2> SUFFICES ASSUME G \subseteq T PROVE FALSE
    OBVIOUS
  <2>1. Cardinality(G) <= Cardinality(T)
    BY <1>3, FS_Subset
  <2> QED BY <1>1, <1>3, <1>4, <2>1, FS_CardinalityType
<1>6. PICK g \in G : g \notin T
  BY <1>5
<1>7. \E h \in 1 .. Cardinality(Audio) + 1 : \A s \in Audio : resolved[s].generation # h
  BY <1>6 DEF T, G
<1> QED BY <1>7 DEF Bumped

LEMMA MemoryStep ==
  ASSUME MemoryOk, UNCHANGED resolved, (cache' = cache /\ generation' = generation) \/ generation' = Bumped
  PROVE  MemoryOk'
BY BumpedIsFresh DEF MemoryOk

-----------------------------------------------------------------------------
(* The worker's turns: a call ends, and what comes next is asked.          *)

\* The next call is what the next step is about, or there is none.
Turned ==
  \/ Ends /\ step' \notin Asking
  \/ \E c : Asks(c) /\ step' \in Asking /\ c.what = AsksFor(step') /\ c.of = Concerns'

LEMMA TurnFits ==
  ASSUME TypeOk, SerialsApart, Turned,
         line' = line \/ (line # <<>> /\ line' = Tail(line)),
         \/ timeouts' = timeouts /\ (waits = 0 \/ waits' = waits \/ HeadIsMine)
         \/ timeouts < MaxTimeouts /\ timeouts' = timeouts + 1
  PROVE  /\ SerialsApart' /\ CallFits' /\ ReplyFits'
         /\ open' \subseteq CallSet /\ line' \in Seq(Messages)
         /\ waits' \in {0} \cup Serials /\ timeouts' \in 0 .. MaxTimeouts
         /\ waits' # 0 <=> step' \in Asking
<1>1. Ends \/ \E c : Asks(c)
  BY DEF Turned
<1>2. /\ SerialsApart'
      /\ open' \subseteq CallSet /\ line' \in Seq(Messages)
      /\ waits' \in {0} \cup Serials /\ timeouts' \in 0 .. MaxTimeouts
      /\ \A c : Asks(c) => c \notin open /\ \A d \in open : d.serial # c.serial
      /\ \A c : Asks(c) => \A i \in Replies(line') : line'[i][2] # waits'
  BY <1>1, WireStep
<1>3. /\ \A c \in open' : c.serial \in Serials
      /\ \A i \in Replies(line') : line'[i][2] \in Serials
      /\ 0 \notin Serials
  <2>1. \A c \in open' : c.serial \in Serials
    BY <1>2, CallsHaveSerials
  <2>2. \A i \in Replies(line') : line'[i] \in Messages /\ line'[i][1] = "reply"
    BY <1>2 DEF Replies
  <2>3. \A i \in Replies(line') : line'[i][2] \in Serials
    BY <2>2, MessagesAre
  <2> QED BY <2>1, <2>3 DEF Serials
<1>4. CASE Ends /\ step' \notin Asking
  <2>1. waits' = 0
    BY <1>4 DEF Ends
  <2>2. CallFits' /\ ReplyFits'
    BY <1>3, <2>1 DEF CallFits, ReplyFits
  <2> QED BY <1>2, <1>4, <2>1, <2>2
<1>5. ASSUME NEW c, Asks(c), step' \in Asking, c.what = AsksFor(step'), c.of = Concerns'
      PROVE  CallFits' /\ ReplyFits' /\ waits' # 0
  <2>1. open' = open \cup {c} /\ waits' = c.serial /\ c \in open'
    BY <1>5 DEF Asks
  <2>2. \A d \in open' : d.serial = waits' => d = c
    BY <1>2, <1>5, <2>1
  <2>3. CallFits'
    BY <1>5, <2>2 DEF CallFits
  <2>4. ReplyFits'
    BY <1>2, <1>5 DEF ReplyFits
  <2> QED BY <1>3, <2>1, <2>3, <2>4
<1> QED BY <1>2, <1>4, <1>5 DEF Turned

\* Nothing is asked, and the socket has what it had, or one message less.
LEMMA StayFits ==
  ASSUME TypeOk, SerialsApart, CallFits, ReplyFits, UNCHANGED <<open, step, job, waits, timeouts>>,
         line' = line \/ (line # <<>> /\ line' = Tail(line))
  PROVE  SerialsApart' /\ CallFits' /\ ReplyFits' /\ line' \in Seq(Messages)
<1>1. SerialsApart' /\ line' \in Seq(Messages)
  BY WireStep
<1>2. CallFits'
  BY DEF CallFits, Concerns
<1>3. ReplyFits'
  <2>1. \A value : Right(value)' <=> Right(value)
    BY DEF Right
  <2>2. CASE line' = line
    BY <2>1, <2>2 DEF ReplyFits
  <2>3. CASE line # <<>> /\ line' = Tail(line)
    <3>1. \A i \in Replies(line') : i + 1 \in Replies(line) /\ line'[i] = line[i + 1]
      BY <2>3, RepliesOfTail DEF TypeOk
    <3> QED BY <2>1, <3>1 DEF ReplyFits
  <2> QED BY <2>2, <2>3
<1> QED BY <1>1, <1>2, <1>3

LEMMA CallAsks ==
  ASSUME TypeOk, SerialsApart, NEW what, NEW of, NEW at, Call(what, of, at),
         \/ what = "match" /\ of \in {"owner", "properties"}
         \/ what = "names" /\ of = Nobody
         \/ what \in {"owner", "pid"} /\ of \in PlayerName
         \/ what \in {"calls", "title"} /\ of \in Conn
  PROVE  /\ step' = at
         /\ \E c : Asks(c) /\ c.what = what /\ c.of = of
<1> DEFINE c == [serial |-> Serial, what |-> what, of |-> of]
<1>1. Serial \in Serials
  BY SerialIsFree
<1>2. c \in CallSet
  BY <1>1 DEF CallSet
<1>3. Asks(c)
  BY <1>2 DEF Asks, Call
<1> QED BY <1>3 DEF Call

LEMMA NoJobIs == NoJob \in JobSet
BY DEF NoJob, JobSet, PidSet, Owners, IdentitySet

LEMMA RestTurns ==
  ASSUME TypeOk, SerialsApart, NEW names \in SUBSET PlayerName, NEW bound \in BOOLEAN, Rest(names, bound)
  PROVE  /\ Turned /\ todo' \subseteq PlayerName /\ job' \in JobSet
         /\ step' = "follow" \/ (step' = "owner" /\ job'.name \in PlayerName)
<1>1. CASE names = {}
  <2>1. step' = "follow" /\ todo' = {} /\ job' = NoJob /\ Ends
    BY <1>1 DEF Rest, Ends
  <2>2. Turned
    BY <2>1 DEF Turned, Asking
  <2> QED BY <2>1, <2>2, NoJobIs
<1>2. CASE names # {}
  <2>1. PICK n \in names :
          /\ todo' = names \ {n}
          /\ job' = [NoJob EXCEPT !.name = n, !.bound = bound]
          /\ Call("owner", n, "owner")
    BY <1>2 DEF Rest
  <2>2. step' = "owner" /\ \E c : Asks(c) /\ c.what = "owner" /\ c.of = n
    BY <2>1, CallAsks
  <2>3. job' \in JobSet /\ job'.name = n
    BY <2>1 DEF NoJob, JobSet, PidSet, Owners, IdentitySet
  <2>4. Turned
    BY <2>2, <2>3 DEF Turned, Asking, AsksFor, Concerns
  <2> QED BY <2>1, <2>2, <2>3, <2>4
<1> QED BY <1>1, <1>2

\* An answer of the right kind takes the worker on, or back to the signals.
LEMMA ProceedTurns ==
  ASSUME TypeOk, SerialsApart, JobOk, job \in JobSet, step \in Asking,
         NEW value, Right(value), Proceed(value)
  PROVE  /\ Turned /\ todo' \subseteq PlayerName /\ job' \in JobSet /\ cache' \in Seq(OwnSet)
         /\ (waits' # 0 <=> step' \in Asking) => JobOk'
         /\ (cache' = cache /\ generation' = generation) \/ generation' = Bumped
<1> DEFINE Goal == /\ Turned /\ todo' \subseteq PlayerName /\ job' \in JobSet /\ cache' \in Seq(OwnSet)
                   /\ (waits' # 0 <=> step' \in Asking) => JobOk'
                   /\ (cache' = cache /\ generation' = generation) \/ generation' = Bumped
<1> SUFFICES Goal
  OBVIOUS
<1>a. cache \in Seq(OwnSet) /\ todo \subseteq PlayerName
  BY DEF TypeOk
\* The player in hand is done with.
<1> HIDE DEF Goal
<1>b. ASSUME NEW names \in SUBSET PlayerName, NEW bound \in BOOLEAN, Rest(names, bound),
             cache' \in Seq(OwnSet), (cache' = cache /\ generation' = generation) \/ generation' = Bumped
      PROVE  Goal
  <2>1. /\ Turned /\ todo' \subseteq PlayerName /\ job' \in JobSet
        /\ step' = "follow" \/ (step' = "owner" /\ job'.name \in PlayerName)
    BY <1>b, RestTurns
  <2>2. (waits' # 0 <=> step' \in Asking) => JobOk'
    BY <2>1 DEF JobOk, Asking
  <2> QED BY <1>b, <2>1, <2>2 DEF Goal
<1>1. CASE step \in {"match owner", "match properties"} /\ value = Nobody
           /\ step' = "stopped" /\ waits' = 0 /\ UNCHANGED <<open, todo, job, cache, generation, nudged>>
  <2>1. Turned
    BY <1>1 DEF Turned, Ends, Asking
  <2>2. (waits' # 0 <=> step' \in Asking) => JobOk'
    BY <1>1 DEF JobOk, Asking
  <2> QED BY <1>a, <1>1, <2>1, <2>2 DEF Goal
<1>2. CASE step = "match owner" /\ value # Nobody
           /\ Call("match", "properties", "match properties")
           /\ UNCHANGED <<todo, job, cache, generation, nudged>>
  <2>1. step' = "match properties" /\ \E c : Asks(c) /\ c.what = "match" /\ c.of = "properties"
    BY <1>2, CallAsks
  <2>2. Turned
    BY <2>1 DEF Turned, Asking, AsksFor, Concerns
  <2>3. (waits' # 0 <=> step' \in Asking) => JobOk'
    BY <2>1 DEF JobOk, Asking
  <2> QED BY <1>a, <1>2, <2>2, <2>3 DEF Goal
<1>3. CASE step = "match properties" /\ value # Nobody
           /\ Call("names", Nobody, "names")
           /\ UNCHANGED <<todo, job, cache, generation, nudged>>
  <2>1. step' = "names" /\ \E c : Asks(c) /\ c.what = "names" /\ c.of = Nobody
    BY <1>3, CallAsks
  <2>2. Turned
    BY <2>1 DEF Turned, Asking, AsksFor, Concerns
  <2>3. (waits' # 0 <=> step' \in Asking) => JobOk'
    BY <2>1 DEF JobOk, Asking
  <2> QED BY <1>a, <1>3, <2>2, <2>3 DEF Goal
<1>4. CASE step = "names" /\ Rest(IF value = Nobody THEN {} ELSE value, FALSE) /\ UNCHANGED <<cache, generation>>
  <2>1. (IF value = Nobody THEN {} ELSE value) \in SUBSET PlayerName
    BY <1>4 DEF Right
  <2> DEFINE names == IF value = Nobody THEN {} ELSE value
  <2>2. Rest(names, FALSE) /\ names \in SUBSET PlayerName
    BY <1>4, <2>1
  <2> HIDE DEF names
  <2> QED BY <1>a, <1>b, <1>4, <2>2
<1>5. CASE step = "owner" /\ value = Nobody /\ Rest(todo, job.bound) /\ UNCHANGED <<cache, generation>>
  <2>1. todo \in SUBSET PlayerName /\ job.bound \in BOOLEAN
    BY <1>a DEF JobSet
  <2> QED BY <1>a, <1>b, <1>5, <2>1
<1>6. CASE step = "owner" /\ value # Nobody /\ job' = [job EXCEPT !.owner = value]
           /\ Call("pid", job.name, "pid") /\ UNCHANGED <<todo, cache, generation, nudged>>
  <2>1. job.name \in PlayerName /\ value \in Conn
    BY <1>6 DEF JobOk, Right, Owners
  <2>2. step' = "pid" /\ \E c : Asks(c) /\ c.what = "pid" /\ c.of = job.name
    BY <1>6, <2>1, CallAsks
  <2>3. job' \in JobSet /\ job'.name = job.name /\ job'.owner = value
    BY <1>6, <2>1 DEF JobSet, Owners
  <2>4. Turned
    BY <2>2, <2>3 DEF Turned, Asking, AsksFor, Concerns
  <2>5. (waits' # 0 <=> step' \in Asking) => JobOk'
    BY <2>1, <2>2, <2>3 DEF JobOk, Asking
  <2> QED BY <1>a, <1>6, <2>3, <2>4, <2>5 DEF Goal
<1>7. CASE step = "pid" /\ job' = [job EXCEPT !.pid = value]
           /\ Call("calls", job.owner, "calls") /\ UNCHANGED <<todo, cache, generation, nudged>>
  <2>1. job.name \in PlayerName /\ job.owner \in Conn /\ value \in PidSet
    BY <1>7 DEF JobOk, Right
  <2>2. step' = "calls" /\ \E c : Asks(c) /\ c.what = "calls" /\ c.of = job.owner
    BY <1>7, <2>1, CallAsks
  <2>3. job' \in JobSet /\ job'.name = job.name /\ job'.owner = job.owner /\ job'.pid = value
    BY <1>7, <2>1 DEF JobSet
  <2>4. Turned
    BY <2>2, <2>3 DEF Turned, Asking, AsksFor, Concerns
  <2>5. (waits' # 0 <=> step' \in Asking) => JobOk'
    BY <2>1, <2>2, <2>3 DEF JobOk, Asking
  <2> QED BY <1>a, <1>7, <2>3, <2>4, <2>5 DEF Goal
<1>8. CASE step = "calls" /\ job' = [job EXCEPT !.calls = IF value = Nobody THEN <<>> ELSE value]
           /\ Call("title", job.owner, "title") /\ UNCHANGED <<todo, cache, generation, nudged>>
  <2> DEFINE calls == IF value = Nobody THEN <<>> ELSE value
  <2>1. job.name \in PlayerName /\ job.owner \in Conn /\ calls \in {Declared[job.owner], <<>>}
    BY <1>8 DEF JobOk, Right
  <2>2. step' = "title" /\ \E c : Asks(c) /\ c.what = "title" /\ c.of = job.owner
    BY <1>8, <2>1, CallAsks
  <2>3. calls \in IdentitySet
    BY <2>1 DEF IdentitySet
  <2>4. job' = [job EXCEPT !.calls = calls]
    BY <1>8
  <2> HIDE DEF calls
  <2>5. job' \in JobSet /\ job'.name = job.name /\ job'.owner = job.owner /\ job'.pid = job.pid /\ job'.calls = calls
    BY <2>3, <2>4 DEF JobSet
  <2>6. Turned
    BY <2>2, <2>5 DEF Turned, Asking, AsksFor, Concerns
  <2>7. job.pid \in PidSet
    BY DEF JobSet
  <2>8. (waits' # 0 <=> step' \in Asking) => JobOk'
    BY <2>1, <2>2, <2>5, <2>7 DEF JobOk, Asking
  <2> QED BY <1>a, <1>8, <2>5, <2>6, <2>8 DEF Goal
<1>9. CASE step = "title" /\ Insert(Entry(job.name, job.owner, job.pid, job.calls, value))
           /\ Rest(todo, job.bound \/ Takes(job.name))
  <2> DEFINE e == Entry(job.name, job.owner, job.pid, job.calls, value)
  <2>1. /\ job.name \in PlayerName /\ job.owner \in Conn /\ job.pid \in PidSet /\ job.calls \in IdentitySet
        /\ job.calls \in {Declared[job.owner], <<>>} /\ value \in TitlesOf[job.owner] \cup {Nobody}
    BY <1>9 DEF JobOk, Right, JobSet
  <2>2. value \in TitleSet
    BY <2>1 DEF TitleSet
  <2>3. e \in OwnSet
    BY <2>1, <2>2 DEF Entry, OwnSet, PlayerSet
  <2>4. Insert(e)
    BY <1>9
  <2> HIDE DEF e
  <2>5. cache' \in Seq(OwnSet) /\ generation' = Bumped
    BY <1>a, <2>3, <2>4, InsertKeeps
  <2>6. todo \in SUBSET PlayerName /\ (job.bound \/ Takes(job.name)) \in BOOLEAN
    BY <1>a DEF JobSet
  <2> QED BY <1>b, <1>9, <2>5, <2>6
<1>10. CASE /\ step = "refresh"
            /\ LET there == \E i \in DOMAIN cache : cache[i].owner = job.owner
                   at    == IndexOf(cache, LAMBDA e : e.owner = job.owner)
               IN /\ cache' = IF there THEN [cache EXCEPT ![at].title = value] ELSE cache
                  /\ Rest({}, there /\ cache[at].title # value)
            /\ generation' = Bumped
  <2> DEFINE there == \E i \in DOMAIN cache : cache[i].owner = job.owner
             at    == IndexOf(cache, LAMBDA e : e.owner = job.owner)
             more  == there /\ cache[at].title # value
  <2>1. Rest({}, more) /\ more \in BOOLEAN /\ generation' = Bumped
    BY <1>10
  <2>2. cache' \in Seq(OwnSet)
    <3>1. CASE ~there
      BY <1>a, <1>10, <3>1
    <3>2. CASE there
      <4>1. at \in DOMAIN cache /\ cache[at].owner = job.owner
        BY <1>a, <3>2, FirstOwner DEF IndexOf
      <4>2. cache' = [cache EXCEPT ![at].title = value]
        BY <1>10, <3>2
      <4> HIDE DEF at
      <4>3. cache[at] \in OwnSet /\ at \in 1 .. Len(cache)
        BY <1>a, <4>1
      <4>4. job.owner \in Conn /\ value \in TitlesOf[job.owner] \cup {Nobody}
        BY <1>10 DEF JobOk, Right
      <4>5. value \in TitleSet
        BY <4>4 DEF TitleSet
      <4>6. [cache[at] EXCEPT !.title = value] \in OwnSet
        BY <4>1, <4>3, <4>4, <4>5 DEF OwnSet, PlayerSet
      <4>7. cache' = [cache EXCEPT ![at] = [cache[at] EXCEPT !.title = value]]
        BY <4>2
      <4> QED BY <1>a, <4>3, <4>6, <4>7, ExceptSeq
    <3> QED BY <3>1, <3>2
  <2> HIDE DEF more
  <2>3. {} \in SUBSET PlayerName
    OBVIOUS
  <2> QED BY <1>b, <2>1, <2>2, <2>3
<1> QED BY <1>1, <1>2, <1>3, <1>4, <1>5, <1>6, <1>7, <1>8, <1>9, <1>10 DEF Proceed

-----------------------------------------------------------------------------
(* The steps.                                                              *)

\* What the players and the bus have to say is what the call asks for.
LEMMA ReplyIsRight ==
  ASSUME TypeOk, PlayingOk, CallFits, NEW c \in open
  PROVE  ReplyTo(c) \in Said /\ (c.serial = waits => Right(ReplyTo(c)))
<1>1. c \in CallSet /\ owner \in [PlayerName -> Owners]
  BY DEF TypeOk
<1>2. CASE c.what = "match"
  <2>1. ReplyTo(c) \in {"owner", "properties"}
    BY <1>1, <1>2 DEF ReplyTo, CallSet
  <2> QED BY <1>2, <2>1 DEF Said, CallFits, Right, AsksFor, Concerns
<1>3. CASE c.what = "names"
  <2>1. ReplyTo(c) \in SUBSET PlayerName
    BY <1>1, <1>3 DEF ReplyTo
  <2> QED BY <1>3, <2>1 DEF Said, CallFits, Right, AsksFor, Concerns
<1>4. CASE c.what = "owner"
  <2>1. ReplyTo(c) \in Owners
    BY <1>1, <1>4 DEF ReplyTo, CallSet
  <2> QED BY <1>4, <2>1 DEF Said, CallFits, Right, AsksFor, Concerns
<1>5. CASE c.what = "pid"
  <2>1. c.of \in PlayerName
    BY <1>1, <1>5 DEF CallSet
  <2>2. ReplyTo(c) \in PidSet
    BY <1>1, <1>5, <2>1 DEF ReplyTo, PidSet, Owners
  <2> QED BY <1>5, <2>2 DEF Said, CallFits, Right, AsksFor, Concerns
<1>6. CASE c.what = "calls"
  <2>1. c.of \in Conn
    BY <1>1, <1>6 DEF CallSet
  <2>2. ReplyTo(c) \in {Declared[c.of], Nobody}
    BY <1>6 DEF ReplyTo
  <2>3. ReplyTo(c) \in Said
    BY <2>1, <2>2 DEF Said, PidSet
  <2> QED BY <1>6, <2>2, <2>3 DEF CallFits, Right, AsksFor, Concerns
<1>7. CASE c.what = "title"
  <2>1. c.of \in Conn
    BY <1>1, <1>7 DEF CallSet
  <2>2. ReplyTo(c) \in TitlesOf[c.of] \cup {Nobody}
    BY <1>7, <2>1 DEF ReplyTo, PlayingOk
  <2>3. ReplyTo(c) \in Said
    BY <2>1, <2>2 DEF Said, TitleSet
  <2> QED BY <1>7, <2>2, <2>3 DEF CallFits, Right, AsksFor, Concerns
<1>8. c.what \in {"match", "names", "owner", "pid", "calls", "title"}
  BY <1>1 DEF CallSet
<1> QED BY <1>2, <1>3, <1>4, <1>5, <1>6, <1>7, <1>8

\* The socket gets a signal, or nothing.
LEMMA SentFits ==
  ASSUME TypeOk, SerialsApart, CallFits, ReplyFits, UNCHANGED <<open, step, job, waits, timeouts>>,
         NEW m \in Signals, Sent(m)
  PROVE  SerialsApart' /\ CallFits' /\ ReplyFits' /\ line' \in Seq(Messages)
<1>1. line \in Seq(Messages)
  BY DEF TypeOk
<1>2. line' \in Seq(Messages) /\ Replies(line') = Replies(line) /\ \A i \in Replies(line) : line'[i] = line[i]
  BY <1>1, SignalsAreNoReplies DEF Sent
<1>3. \A value : Right(value)' <=> Right(value)
  BY DEF Right
<1>4. CallFits' /\ ReplyFits'
  BY <1>2, <1>3 DEF CallFits, Concerns, ReplyFits
<1>5. Outstanding(open', line') = Outstanding(open, line)
  BY <1>2 DEF Outstanding
<1>6. SerialsApart'
  BY <1>2, <1>5 DEF SerialsApart
<1> QED BY <1>2, <1>4, <1>6

LEMMA OwnStep ==
  ASSUME AnswersStand, NEW n \in PlayerName, NEW c \in Conn \cup {Nobody}, Own(n, c)
  PROVE  AnswersStand'
<1>1. TypeOk /\ SerialsApart /\ CallFits /\ ReplyFits
  BY DEF AnswersStand
<1>2. owner \in [PlayerName -> Owners] /\ owner[n] \in Owners /\ c \in Owners
  BY <1>1 DEF TypeOk, Owners
<1>3. Signal("owner", n, owner[n], c) \in Signals
  BY <1>2 DEF Signal, Signals, OwnerSignals
<1>4. UNCHANGED <<open, step, job, waits, timeouts, playing, backlog, cache, todo, generation, resolved>>
      /\ Sent(Signal("owner", n, owner[n], c)) /\ owner' = [owner EXCEPT ![n] = c]
  BY DEF Own, workerVars, mainVars
<1>5. SerialsApart' /\ CallFits' /\ ReplyFits' /\ line' \in Seq(Messages)
  BY <1>1, <1>3, <1>4, SentFits
<1>6. owner' \in [PlayerName -> Owners]
  BY <1>2, <1>4
<1>7. TypeOk'
  BY <1>1, <1>4, <1>5, <1>6 DEF TypeOk
<1>8. PlayingOk' /\ JobOk' /\ (job \in JobSet)'
  BY <1>4 DEF AnswersStand, PlayingOk, JobOk
<1>9. MemoryOk'
  BY <1>4, MemoryStep DEF AnswersStand
<1> QED BY <1>5, <1>7, <1>8, <1>9 DEF AnswersStand

LEMMA PlayStep ==
  ASSUME AnswersStand, NEW c \in Conn, NEW t \in TitlesOf[c], Play(c, t)
  PROVE  AnswersStand'
<1>1. TypeOk /\ SerialsApart /\ CallFits /\ ReplyFits /\ PlayingOk
  BY DEF AnswersStand
<1>2. Signal("properties", c, Nobody, Nobody) \in Signals
  BY DEF Signal, Signals, PropertiesSignals
<1>3. UNCHANGED <<open, step, job, waits, timeouts, owner, backlog, cache, todo, generation, resolved>>
      /\ Sent(Signal("properties", c, Nobody, Nobody)) /\ playing' = [playing EXCEPT ![c] = t]
  BY DEF Play, workerVars, mainVars
<1>4. SerialsApart' /\ CallFits' /\ ReplyFits' /\ line' \in Seq(Messages)
  BY <1>1, <1>2, <1>3, SentFits
<1>5. playing \in [Conn -> TitleSet] /\ t \in TitleSet
  BY <1>1 DEF TypeOk, TitleSet
<1>6. playing' \in [Conn -> TitleSet] /\ PlayingOk'
  BY <1>1, <1>3, <1>5 DEF PlayingOk
<1>7. TypeOk'
  BY <1>1, <1>3, <1>4, <1>6 DEF TypeOk
<1>8. JobOk' /\ (job \in JobSet)'
  BY <1>3 DEF AnswersStand, JobOk
<1>9. MemoryOk'
  BY <1>3, MemoryStep DEF AnswersStand
<1> QED BY <1>4, <1>6, <1>7, <1>8, <1>9 DEF AnswersStand

LEMMA ReplyStep ==
  ASSUME AnswersStand, NEW c \in open, Reply(c)
  PROVE  AnswersStand'
<1> DEFINE r == <<"reply", c.serial, ReplyTo(c)>>
<1>1. TypeOk /\ SerialsApart /\ CallFits /\ ReplyFits /\ PlayingOk
  BY DEF AnswersStand
<1>2. c.serial \in Serials /\ ReplyTo(c) \in Said /\ (c.serial = waits => Right(ReplyTo(c)))
  BY <1>1, ReplyIsRight, CallsHaveSerials DEF TypeOk
<1>3. r \in Messages /\ r[1] = "reply" /\ r[2] = c.serial /\ r[3] = ReplyTo(c)
  BY <1>2 DEF Messages, Answers
<1>4. UNCHANGED <<step, job, waits, timeouts, owner, playing, backlog, cache, todo, generation, resolved>>
      /\ open' = open \ {c} /\ line' = Append(line, r)
  BY DEF Reply, workerVars, mainVars, busVars
<1> HIDE DEF r
<1>5. line \in Seq(Messages)
  BY <1>1 DEF TypeOk
<1>6. /\ line' \in Seq(Messages) /\ Len(line) \in Nat /\ DOMAIN line' = 1 .. Len(line) + 1 /\ DOMAIN line = 1 .. Len(line)
      /\ line'[Len(line) + 1] = r
      /\ \A i \in DOMAIN line : line'[i] = line[i] /\ i \in DOMAIN line'
  BY <1>3, <1>4, <1>5, AppendIs
<1>7. /\ Replies(line') = Replies(line) \cup {Len(line) + 1}
      /\ \A i \in Replies(line) : line'[i] = line[i] /\ i # Len(line) + 1
  BY <1>3, <1>6 DEF Replies
<1>8. \A i \in Replies(line) : line[i][2] # c.serial
  BY <1>1 DEF SerialsApart
<1>9. SerialsApart'
  <2>1. \A a, b \in open' : a.serial = b.serial => a = b
    BY <1>1, <1>4 DEF SerialsApart
  <2>2. \A a \in open' : a.serial # c.serial
    BY <1>1, <1>4 DEF SerialsApart
  <2>3. \A a \in open', i \in Replies(line') : a.serial # line'[i][2]
    <3> SUFFICES ASSUME NEW a \in open', NEW i \in Replies(line') PROVE a.serial # line'[i][2]
      OBVIOUS
    <3>1. CASE i \in Replies(line)
      <4>1. a \in open /\ line'[i] = line[i]
        BY <1>4, <1>7, <3>1
      <4>2. a.serial # line[i][2]
        BY <1>1, <3>1, <4>1 DEF SerialsApart
      <4> QED BY <4>1, <4>2
    <3>2. CASE i = Len(line) + 1
      BY <1>3, <1>6, <2>2, <3>2
    <3> QED BY <1>7, <3>1, <3>2
  <2>4. \A i, j \in Replies(line') : line'[i][2] = line'[j][2] => i = j
    BY <1>1, <1>3, <1>6, <1>7, <1>8 DEF SerialsApart
  <2>5. Outstanding(open', line') = Outstanding(open, line)
    <3>1. \A n : n \in Outstanding(open, line) => n \in Outstanding(open', line')
      <4> SUFFICES ASSUME NEW n \in Outstanding(open, line) PROVE n \in Outstanding(open', line')
        OBVIOUS
      <4>1. CASE n = c.serial
        <5>1. Len(line) + 1 \in Replies(line') /\ line'[Len(line) + 1][2] = n
          BY <1>3, <1>6, <1>7, <4>1
        <5> QED BY <5>1 DEF Outstanding
      <4>2. CASE n # c.serial
        <5>1. CASE \E a \in open : n = a.serial
          BY <1>4, <4>2, <5>1 DEF Outstanding
        <5>2. CASE \E i \in Replies(line) : n = line[i][2]
          BY <1>7, <5>2 DEF Outstanding
        <5> QED BY <5>1, <5>2 DEF Outstanding
      <4> QED BY <4>1, <4>2
    <3>2. \A n : n \in Outstanding(open', line') => n \in Outstanding(open, line)
      <4> SUFFICES ASSUME NEW n \in Outstanding(open', line') PROVE n \in Outstanding(open, line)
        OBVIOUS
      <4>1. CASE \E a \in open' : n = a.serial
        BY <1>4, <4>1 DEF Outstanding
      <4>2. CASE \E i \in Replies(line') : n = line'[i][2]
        <5>1. PICK i \in Replies(line') : n = line'[i][2]
          BY <4>2
        <5>2. CASE i \in Replies(line)
          BY <1>7, <5>1, <5>2 DEF Outstanding
        <5>3. CASE i = Len(line) + 1
          BY <1>3, <1>6, <5>1, <5>3 DEF Outstanding
        <5> QED BY <1>7, <5>2, <5>3
      <4> QED BY <4>1, <4>2 DEF Outstanding
    <3> QED BY <3>1, <3>2
  <2> QED BY <1>1, <1>4, <2>1, <2>3, <2>4, <2>5 DEF SerialsApart
<1>10. CallFits'
  BY <1>1, <1>4 DEF CallFits, Concerns
<1>11. ReplyFits'
  <2>1. \A value : Right(value)' <=> Right(value)
    BY <1>4 DEF Right
  <2> SUFFICES ASSUME NEW i \in Replies(line'), line'[i][2] = waits PROVE Right(line'[i][3])
    BY <1>4, <2>1 DEF ReplyFits
  <2>2. CASE i \in Replies(line)
    BY <1>1, <1>7, <2>2 DEF ReplyFits
  <2>3. CASE i = Len(line) + 1
    BY <1>2, <1>3, <1>6, <2>3
  <2> QED BY <1>7, <2>2, <2>3
<1>12. open' \subseteq CallSet
  BY <1>1, <1>4 DEF TypeOk
<1>13. TypeOk'
  BY <1>1, <1>4, <1>6, <1>12 DEF TypeOk
<1>14. JobOk' /\ (job \in JobSet)' /\ PlayingOk'
  BY <1>4 DEF AnswersStand, JobOk, PlayingOk
<1>15. MemoryOk'
  BY <1>4, MemoryStep DEF AnswersStand
<1> QED BY <1>9, <1>10, <1>11, <1>13, <1>14, <1>15 DEF AnswersStand

LEMMA SubscribeStep ==
  ASSUME AnswersStand, Subscribe
  PROVE  AnswersStand'
<1>1. TypeOk /\ SerialsApart /\ JobOk
  BY DEF AnswersStand
<1>2. UNCHANGED <<owner, playing, line, backlog, cache, todo, job, generation, resolved, timeouts>>
      /\ step = "start" /\ Call("match", "owner", "match owner")
  BY DEF Subscribe, busVars, mainVars
<1>3. waits = 0
  BY <1>1, <1>2 DEF JobOk, Asking
<1>4. step' = "match owner" /\ \E c : Asks(c) /\ c.what = "match" /\ c.of = "owner"
  BY <1>1, <1>2, CallAsks
<1>5. Turned
  BY <1>4 DEF Turned, Asking, AsksFor, Concerns
<1>6. /\ SerialsApart' /\ CallFits' /\ ReplyFits'
      /\ open' \subseteq CallSet /\ waits' \in {0} \cup Serials
      /\ waits' # 0 <=> step' \in Asking
  BY <1>1, <1>2, <1>3, <1>5, TurnFits
<1>7. TypeOk'
  BY <1>1, <1>2, <1>6 DEF TypeOk
<1>8. JobOk' /\ (job \in JobSet)' /\ PlayingOk'
  BY <1>2, <1>4, <1>6 DEF AnswersStand, JobOk, PlayingOk, Asking
<1>9. MemoryOk'
  BY <1>2, MemoryStep DEF AnswersStand
<1> QED BY <1>6, <1>7, <1>8, <1>9 DEF AnswersStand

\* A call in hand goes on with an answer of the right kind.
LEMMA AnswerStep ==
  ASSUME AnswersStand, NEW value, Right(value), Proceed(value), step \in Asking,
         UNCHANGED <<owner, playing, backlog, resolved>>,
         line' = line \/ (line # <<>> /\ line' = Tail(line)),
         \/ timeouts' = timeouts /\ HeadIsMine
         \/ timeouts < MaxTimeouts /\ timeouts' = timeouts + 1
  PROVE  AnswersStand'
<1>1. TypeOk /\ SerialsApart /\ JobOk /\ job \in JobSet
  BY DEF AnswersStand
<1>2. /\ Turned /\ todo' \subseteq PlayerName /\ job' \in JobSet /\ cache' \in Seq(OwnSet)
      /\ (waits' # 0 <=> step' \in Asking) => JobOk'
      /\ (cache' = cache /\ generation' = generation) \/ generation' = Bumped
  BY <1>1, ProceedTurns
<1>3. /\ SerialsApart' /\ CallFits' /\ ReplyFits'
      /\ open' \subseteq CallSet /\ line' \in Seq(Messages)
      /\ waits' \in {0} \cup Serials /\ timeouts' \in 0 .. MaxTimeouts
      /\ waits' # 0 <=> step' \in Asking
  BY <1>1, <1>2, TurnFits
<1>4. TypeOk'
  BY <1>1, <1>2, <1>3 DEF TypeOk
<1>5. MemoryOk'
  BY <1>2, MemoryStep DEF AnswersStand
<1> QED BY <1>2, <1>3, <1>4, <1>5 DEF AnswersStand, PlayingOk

LEMMA ReadReplyStep ==
  ASSUME AnswersStand, ReadReply
  PROVE  AnswersStand'
<1>1. TypeOk /\ ReplyFits /\ JobOk
  BY DEF AnswersStand
<1>2. /\ UNCHANGED <<owner, playing, backlog, resolved, timeouts>> /\ waits # 0
      /\ line # <<>> /\ Head(line)[1] = "reply" /\ Head(line)[2] = waits /\ line' = Tail(line)
      /\ Proceed(Head(line)[3])
  BY DEF ReadReply, TakesReply, busVars, mainVars
<1>3. 1 \in Replies(line) /\ Head(line) = line[1]
  BY <1>1, <1>2, RepliesOfTail DEF TypeOk
<1>4. Right(Head(line)[3])
  BY <1>1, <1>2, <1>3 DEF ReplyFits
<1>5. step \in Asking
  BY <1>1, <1>2 DEF JobOk
<1> QED BY <1>2, <1>4, <1>5, AnswerStep DEF HeadIsMine

LEMMA TimeoutStep ==
  ASSUME AnswersStand, Timeout
  PROVE  AnswersStand'
<1>1. /\ UNCHANGED <<owner, playing, line, backlog, resolved>> /\ waits # 0
      /\ timeouts < MaxTimeouts /\ timeouts' = timeouts + 1 /\ Proceed(Nobody)
  BY DEF Timeout, busVars, mainVars
<1>2. step \in Asking
  BY <1>1 DEF AnswersStand, JobOk
<1>3. Right(Nobody)
  BY DEF Right, Owners, PidSet
<1> QED BY <1>1, <1>2, <1>3, AnswerStep

LEMMA ReadAsideStep ==
  ASSUME AnswersStand, ReadAside
  PROVE  AnswersStand'
<1>1. TypeOk /\ SerialsApart /\ CallFits /\ ReplyFits /\ line \in Seq(Messages) /\ backlog \in Seq(Signals)
  BY DEF AnswersStand, TypeOk
<1>2. /\ UNCHANGED <<owner, playing, open, step, todo, job, waits, cache, generation, resolved, timeouts>>
      /\ line # <<>> /\ line' = Tail(line)
      /\ backlog' = IF Head(line)[1] = "reply" THEN backlog
                    ELSE Append(IF Len(backlog) < MaxPending THEN backlog ELSE Tail(backlog), Head(line))
  BY DEF ReadAside, busVars, mainVars
<1>3. SerialsApart' /\ CallFits' /\ ReplyFits' /\ line' \in Seq(Messages)
  BY <1>1, <1>2, StayFits
<1>4. backlog' \in Seq(Signals)
  <2>1. Head(line) \in Messages
    BY <1>1, <1>2, TailIs
  <2>2. CASE Head(line)[1] = "reply"
    BY <1>1, <1>2, <2>2
  <2>3. CASE Head(line)[1] # "reply"
    <3>1. Head(line) \in Signals
      BY <2>1, <2>3, MessagesAre
    <3>2. backlog = <<>> => Len(backlog) < MaxPending
      BY BoundsAssumption
    <3>3. backlog # <<>> => Tail(backlog) \in Seq(Signals)
      BY <1>1, TailIs
    <3>4. (IF Len(backlog) < MaxPending THEN backlog ELSE Tail(backlog)) \in Seq(Signals)
      BY <1>1, <3>2, <3>3
    <3> QED BY <1>2, <2>3, <3>1, <3>4, AppendIs
  <2> QED BY <2>2, <2>3
<1>5. TypeOk'
  BY <1>1, <1>2, <1>3, <1>4 DEF TypeOk
<1>6. JobOk' /\ (job \in JobSet)' /\ PlayingOk'
  BY <1>2 DEF AnswersStand, JobOk, PlayingOk
<1>7. MemoryOk'
  BY <1>2, MemoryStep DEF AnswersStand
<1> QED BY <1>3, <1>5, <1>6, <1>7 DEF AnswersStand

LEMMA SignalStep ==
  ASSUME AnswersStand, NEW m \in Messages, OnSignal(m), step = "follow",
         UNCHANGED <<owner, playing, resolved, timeouts>>, backlog' \in Seq(Signals),
         line' = line \/ (line # <<>> /\ line' = Tail(line))
  PROVE  AnswersStand'
<1>1. /\ TypeOk /\ SerialsApart /\ CallFits /\ ReplyFits /\ JobOk /\ job \in JobSet /\ PlayingOk
      /\ todo \subseteq PlayerName /\ cache \in Seq(OwnSet)
  BY DEF AnswersStand, TypeOk
<1>2. waits = 0
  BY <1>1 DEF JobOk, Asking
\* Nothing is asked.
<1>a. ASSUME UNCHANGED <<step, todo, job, waits, open>>, cache' \in Seq(OwnSet),
             (cache' = cache /\ generation' = generation) \/ generation' = Bumped
      PROVE  AnswersStand'
  <2>1. SerialsApart' /\ CallFits' /\ ReplyFits' /\ line' \in Seq(Messages)
    BY <1>1, <1>a, StayFits
  <2>2. TypeOk'
    BY <1>1, <1>a, <2>1 DEF TypeOk
  <2>3. JobOk' /\ (job \in JobSet)' /\ PlayingOk'
    BY <1>1, <1>a DEF JobOk, PlayingOk
  <2>4. MemoryOk'
    BY <1>a, MemoryStep DEF AnswersStand
  <2> QED BY <2>1, <2>2, <2>3, <2>4 DEF AnswersStand
\* A call begins.
<1>b. ASSUME Turned, todo' = todo, job' \in JobSet, cache' \in Seq(OwnSet),
             (waits' # 0 <=> step' \in Asking) => JobOk',
             (cache' = cache /\ generation' = generation) \/ generation' = Bumped
      PROVE  AnswersStand'
  <2>1. /\ SerialsApart' /\ CallFits' /\ ReplyFits'
        /\ open' \subseteq CallSet /\ line' \in Seq(Messages)
        /\ waits' \in {0} \cup Serials /\ timeouts' \in 0 .. MaxTimeouts
        /\ waits' # 0 <=> step' \in Asking
    BY <1>1, <1>2, <1>b, TurnFits
  <2>2. TypeOk'
    BY <1>1, <1>b, <2>1 DEF TypeOk
  <2>3. MemoryOk'
    BY <1>b, MemoryStep DEF AnswersStand
  <2>4. PlayingOk'
    BY <1>1 DEF PlayingOk
  <2> QED BY <1>b, <2>1, <2>2, <2>3, <2>4 DEF AnswersStand
<1>3. CASE m[1] = "owner" /\ OnOwner(m[2], m[3], m[4])
  <2>1. m[2] \in PlayerName
    BY <1>3 DEF Messages, Answers, Signals, OwnerSignals, PropertiesSignals
  <2>2. CASE /\ m[4] # Nobody
             /\ Detach(m[2])
             /\ job' = [NoJob EXCEPT !.name = m[2]]
             /\ Call("owner", m[2], "owner")
             /\ UNCHANGED <<todo, nudged>>
    <3>1. cache' \in Seq(OwnSet) /\ generation' = Bumped
      BY <1>1, <2>2, DetachKeeps
    <3>2. step' = "owner" /\ \E c : Asks(c) /\ c.what = "owner" /\ c.of = m[2]
      BY <1>1, <2>1, <2>2, CallAsks
    <3>3. job' \in JobSet /\ job'.name = m[2]
      BY <2>1, <2>2 DEF NoJob, JobSet, PidSet, Owners, IdentitySet
    <3>4. Turned
      BY <3>2, <3>3 DEF Turned, Asking, AsksFor, Concerns
    <3>5. (waits' # 0 <=> step' \in Asking) => JobOk'
      BY <2>1, <3>2, <3>3 DEF JobOk, Asking
    <3> QED BY <1>b, <2>2, <3>1, <3>3, <3>4, <3>5
  <2>3. CASE /\ m[4] = Nobody /\ m[3] # Nobody
             /\ Detach(m[2])
             /\ nudged' = (nudged \/ Cached(m[2]))
             /\ UNCHANGED <<step, todo, job, waits, open>>
    BY <1>1, <1>a, <2>3, DetachKeeps
  <2> QED BY <1>3, <2>2, <2>3 DEF OnOwner
<1>4. CASE m[1] = "properties" /\ OnProperties(m[2])
  <2>1. CASE /\ \E i \in DOMAIN cache : cache[i].owner = m[2]
             /\ job' = [NoJob EXCEPT !.owner = m[2]]
             /\ Call("title", m[2], "refresh")
             /\ UNCHANGED <<todo, cache, generation, nudged>>
    <3>1. m[2] \in Conn
      BY <1>1, <2>1 DEF OwnSet, PlayerSet
    <3>2. step' = "refresh" /\ \E c : Asks(c) /\ c.what = "title" /\ c.of = m[2]
      BY <1>1, <2>1, <3>1, CallAsks
    <3>3. job' \in JobSet /\ job'.owner = m[2]
      BY <2>1, <3>1 DEF NoJob, JobSet, PidSet, Owners, IdentitySet
    <3>4. Turned
      BY <3>2, <3>3 DEF Turned, Asking, AsksFor, Concerns
    <3>5. (waits' # 0 <=> step' \in Asking) => JobOk'
      BY <3>1, <3>2, <3>3 DEF JobOk, Asking
    <3> QED BY <1>1, <1>b, <2>1, <3>3, <3>4, <3>5
  <2>2. CASE UNCHANGED <<step, todo, job, waits, open, cache, generation, nudged>>
    BY <1>1, <1>a, <2>2
  <2> QED BY <1>4, <2>1, <2>2 DEF OnProperties
<1>5. CASE UNCHANGED <<step, todo, job, waits, open, cache, generation, nudged>>
  BY <1>1, <1>a, <1>5
<1> QED BY <1>3, <1>4, <1>5 DEF OnSignal

LEMMA FollowStep ==
  ASSUME AnswersStand, Follow
  PROVE  AnswersStand'
<1>1. line \in Seq(Messages) /\ backlog \in Seq(Signals)
  BY DEF AnswersStand, TypeOk
<1>2. UNCHANGED <<owner, playing, resolved, timeouts>> /\ step = "follow"
  BY DEF Follow, busVars, mainVars
<1>3. CASE backlog # <<>> /\ backlog' = Tail(backlog) /\ OnSignal(Head(backlog)) /\ UNCHANGED line
  <2>1. Head(backlog) \in Messages /\ backlog' \in Seq(Signals)
    BY <1>1, <1>3, TailIs DEF Messages
  <2> QED BY <1>2, <1>3, <2>1, SignalStep
<1>4. CASE backlog = <<>> /\ line # <<>> /\ line' = Tail(line) /\ OnSignal(Head(line)) /\ UNCHANGED backlog
  <2>1. Head(line) \in Messages /\ backlog' \in Seq(Signals)
    BY <1>1, <1>4, TailIs
  <2> QED BY <1>2, <1>4, <2>1, SignalStep
<1> QED BY <1>3, <1>4 DEF Follow

LEMMA ProjectStep ==
  ASSUME AnswersStand, NEW idents, Project(idents)
  PROVE  AnswersStand'
<1>1. UNCHANGED <<owner, playing, line, open, step, todo, job, backlog, waits, cache, generation, timeouts>>
      /\ resolved' = [s \in Audio |-> Resolve(s, idents[s])]
  BY DEF Project, workerVars
<1>2. MemoryOk'
  <2> SUFFICES ASSUME NEW s \in Audio PROVE resolved'[s].title = Match(cache, s, resolved'[s].ident)
    BY <1>1 DEF MemoryOk
  <2>1. resolved'[s] = Resolve(s, idents[s])
    BY <1>1
  <2>2. CASE resolved[s].generation = generation /\ resolved[s].ident = idents[s]
    BY <2>1, <2>2 DEF Resolve, AnswersStand, MemoryOk
  <2>3. CASE ~(resolved[s].generation = generation /\ resolved[s].ident = idents[s])
    BY <2>1, <2>3 DEF Resolve
  <2> QED BY <2>2, <2>3
<1>3. \A value : Right(value)' <=> Right(value)
  BY <1>1 DEF Right
<1>4. TypeOk' /\ PlayingOk' /\ SerialsApart' /\ CallFits' /\ ReplyFits' /\ JobOk' /\ (job \in JobSet)'
  <2>1. TypeOk' /\ PlayingOk' /\ JobOk' /\ (job \in JobSet)'
    BY <1>1 DEF AnswersStand, TypeOk, PlayingOk, JobOk
  <2>2. SerialsApart' /\ CallFits' /\ ReplyFits'
    BY <1>1, <1>3 DEF AnswersStand, SerialsApart, CallFits, Concerns, ReplyFits
  <2> QED BY <2>1, <2>2
<1> QED BY <1>2, <1>4 DEF AnswersStand

LEMMA StartStands ==
  ASSUME MprisInit
  PROVE  AnswersStand
<1>1. \A i \in DOMAIN << >> : FALSE
  OBVIOUS
<1>2. Replies(line) = {} /\ open = {} /\ waits = 0 /\ timeouts = 0 /\ step = "start" /\ cache = <<>>
  BY DEF MprisInit, Replies
<1>3. Outstanding(open, line) = {}
  BY <1>2 DEF Outstanding
<1>4. Cardinality(Outstanding(open, line) \ {waits}) = 0
  BY <1>3, FS_EmptySet
<1>5. SerialsApart /\ CallFits /\ ReplyFits
  BY <1>2, <1>4 DEF SerialsApart, CallFits, ReplyFits
<1>6. TypeOk
  BY BoundsAssumption DEF MprisInit, TypeOk, Owners, TitleSet
<1>7. job \in JobSet /\ JobOk
  BY <1>2, NoJobIs DEF MprisInit, JobOk, Asking
<1>8. PlayingOk
  BY DEF MprisInit, PlayingOk
<1>9. MemoryOk
  BY DEF MprisInit, MemoryOk, Forgotten
<1> QED BY <1>5, <1>6, <1>7, <1>8, <1>9 DEF AnswersStand

-----------------------------------------------------------------------------

\* The invariant holds in every behaviour.
THEOREM AnswersHold == MprisSpec => []AnswersStand
<1>1. MprisInit => AnswersStand
  BY StartStands
<1>2. AnswersStand /\ [MprisNext]_mprisVars => AnswersStand'
  <2> SUFFICES ASSUME AnswersStand, [MprisNext]_mprisVars PROVE AnswersStand'
    OBVIOUS
  <2>1. ASSUME NEW n \in PlayerName, NEW c \in Conn \cup {Nobody}, Own(n, c) PROVE AnswersStand'
    BY <2>1, OwnStep
  <2>2. ASSUME NEW c \in Conn, NEW t \in TitlesOf[c], Play(c, t) PROVE AnswersStand'
    BY <2>2, PlayStep
  <2>3. ASSUME NEW c \in open, Reply(c) PROVE AnswersStand'
    BY <2>3, ReplyStep
  <2>4. CASE Subscribe
    BY <2>4, SubscribeStep
  <2>5. CASE ReadReply
    BY <2>5, ReadReplyStep
  <2>6. CASE ReadAside
    BY <2>6, ReadAsideStep
  <2>7. CASE Timeout
    BY <2>7, TimeoutStep
  <2>8. CASE Follow
    BY <2>8, FollowStep
  <2>9. CASE Refresh
    BY <2>9, ProjectStep DEF Refresh
  <2>10. ASSUME NEW s \in Audio, NEW parts \in StreamIdent, Identify(s, parts) PROVE AnswersStand'
    BY <2>10, ProjectStep DEF Identify
  <2>11. CASE UNCHANGED mprisVars
    <3>1. UNCHANGED <<owner, playing, line, open, step, todo, job, backlog, waits, cache, generation, timeouts, resolved>>
      BY <2>11 DEF mprisVars, busVars, workerVars, mainVars
    <3>2. \A value : Right(value)' <=> Right(value)
      BY <3>1 DEF Right
    <3>3. MemoryOk'
      BY <3>1, MemoryStep DEF AnswersStand
    <3>4. TypeOk' /\ PlayingOk' /\ JobOk' /\ (job \in JobSet)'
      BY <3>1 DEF AnswersStand, TypeOk, PlayingOk, JobOk
    <3>5. SerialsApart' /\ CallFits' /\ ReplyFits'
      BY <3>1, <3>2 DEF AnswersStand, SerialsApart, CallFits, Concerns, ReplyFits
    <3> QED BY <3>3, <3>4, <3>5 DEF AnswersStand
  <2> QED BY <2>1, <2>2, <2>3, <2>4, <2>5, <2>6, <2>7, <2>8, <2>9, <2>10, <2>11 DEF MprisNext
<1> QED BY <1>1, <1>2, PTL DEF MprisSpec

\* No late reply and no memory of an older match puts one player's title on
\* another's row: the answers taken are those asked for (mpris.rs, attach,
\* over the serials of Connection::call), and a lookup is only taken from
\* memory when nothing it depends on has moved (mpris.rs, resolve_title).
THEOREM TitlesHold == MprisSpec => []TitlesAreTheirOwn
<1>1. AnswersStand => TitlesAreTheirOwn
  <2> SUFFICES ASSUME AnswersStand PROVE TitlesAreTheirOwn
    OBVIOUS
  <2>1. cache \in Seq(OwnSet) /\ MemoryOk
    BY DEF AnswersStand, TypeOk
  <2>2. \A i \in DOMAIN cache : cache[i] \in OwnSet
    BY <2>1
  <2>3. AnswersAreTheirOwn
    BY <2>2 DEF AnswersAreTheirOwn, OwnSet
  <2>4. RememberedHolds
    BY <2>1 DEF MemoryOk, RememberedHolds
  <2> QED BY <2>3, <2>4 DEF TitlesAreTheirOwn
<1> QED BY <1>1, AnswersHold, PTL

-----------------------------------------------------------------------------
(* The cache mirrors the bus: nothing given up, dropped or left out, and no *)
(* connection with two names.                                              *)

\* The signals to come, those kept first; replies among them.
Pending == backlog \o line

About(m, n) == m[1] = "owner" /\ m[2] = n

Plays(m, c) == m[1] = "properties" /\ m[2] = c

StaleIn(p, n) == \E i \in DOMAIN p : About(p[i], n)

PlaysIn(p, c) == \E i \in DOMAIN p : Plays(p[i], c)

BeforeIn(p, m, n) == \E i, j \in DOMAIN p : i < j /\ About(p[i], m) /\ About(p[j], n)

\* A name is yet to be heard of; what a connection plays is.
Stale(n) == StaleIn(Pending, n)

Replays(c) == PlaysIn(Pending, c)

Binding == {"owner", "pid", "calls", "title"}

Listening == step \in Binding \cup {"names", "refresh", "follow"}

\* The answer to the call in hand is on its way.
Answered(v) == \E i \in Replies(line) : line[i][2] = waits /\ line[i][3] = v

\* Both kinds of signal are asked for before the players are listed.
Listens ==
  /\ timeouts = 0 /\ step # "stopped"
  /\ Listening => {"owner", "properties"} \subseteq rules
  /\ step = "match properties" => "owner" \in rules
  /\ \A v : Answered(v) =>
       /\ step = "match owner" => "owner" \in rules
       /\ step = "match properties" => "properties" \in rules
       /\ step \in {"match owner", "match properties", "names"} => v # Nobody
  /\ step \in {"start", "match owner", "match properties", "names"} => cache = <<>> /\ todo = {}
  /\ step \in {"follow", "refresh"} => todo = {}
  /\ \A i \in DOMAIN Pending : Pending[i][1] \in rules \cup {"reply"}

NamesApart == \A i, j \in DOMAIN cache : cache[i].name = cache[j].name => i = j

OwnersApart == \A m, n \in PlayerName : owner[m] = owner[n] /\ owner[n] # Nobody => m = n

\* The last that is heard of a name is who owns it.
LastSays(p, n, who) ==
  \A i \in DOMAIN p : About(p[i], n) /\ (\A j \in DOMAIN p : i < j => ~About(p[j], n)) => p[i][4] = who

LastWords == \A n \in PlayerName : LastSays(Pending, n, owner[n])

\* Where nothing is to be heard of a name, its player is as it is on the bus;
\* its title may be on its way.
EntryTrue(e) ==
  \/ Stale(e.name)
  \/ /\ e.owner = owner[e.name] /\ e.pid = PidOf[e.owner] /\ e.calls = Declared[e.owner]
     /\ e.title = playing[e.owner] \/ Replays(e.owner) \/ (step = "refresh" /\ job.owner = e.owner)

EntriesTrue == \A i \in DOMAIN cache : EntryTrue(cache[i])

JobTrue ==
  step \in {"pid", "calls", "title"} =>
    \/ Stale(job.name)
    \/ /\ job.owner = owner[job.name]
       /\ step \in {"calls", "title"} => job.pid = PidOf[job.owner]
       /\ step = "title" => job.calls = Declared[job.owner]

\* So is what is answered.
AnswerTrue ==
  \A v : Answered(v) =>
    /\ step = "names" => \A n \in PlayerName : owner[n] # Nobody => Stale(n) \/ n \in v
    /\ step = "owner" => Stale(job.name) \/ v = owner[job.name]
    /\ step = "pid" => Stale(job.name) \/ v = PidOf[job.owner]
    /\ step = "calls" => Stale(job.name) \/ v = Declared[job.owner]
    /\ step = "title" => Stale(job.name) \/ v = playing[job.owner] \/ Replays(job.owner)
    /\ step = "refresh" =>
         \A n \in PlayerName : owner[n] = job.owner => Stale(n) \/ v = playing[job.owner] \/ Replays(job.owner)

\* A player there is, is known, in hand, listed or yet to be heard of.
AllListed ==
  Listening => \A n \in PlayerName : owner[n] # Nobody =>
    Stale(n) \/ Cached(n) \/ n \in todo \/ step = "names" \/ (step \in Binding /\ job.name = n)

\* The worker takes a connection for the owner of a name.
Claims(n, c) ==
  \/ \E i \in DOMAIN cache : cache[i].name = n /\ cache[i].owner = c
  \/ step \in {"pid", "calls", "title"} /\ job.name = n /\ job.owner = c
  \/ step = "owner" /\ job.name = n /\ Answered(c)

\* If it is another's by now, the name's loss is heard of before the other's gain.
Handed ==
  \A m, n \in PlayerName : m # n /\ owner[n] # Nobody /\ Claims(m, owner[n]) => BeforeIn(Pending, m, n)

MirrorParts ==
  Listens /\ NamesApart /\ LastWords /\ EntriesTrue /\ JobTrue /\ AnswerTrue /\ AllListed /\ Handed

MirrorsBus == OwnersApart /\ (~missed => MirrorParts)

\* A message more.
LEMMA AppendTells ==
  ASSUME NEW p \in Seq(Messages), NEW m \in Messages, NEW q, q = Append(p, m)
  PROVE  /\ \A n : StaleIn(q, n) <=> StaleIn(p, n) \/ About(m, n)
         /\ \A c : PlaysIn(q, c) <=> PlaysIn(p, c) \/ Plays(m, c)
         /\ \A a, b : BeforeIn(p, a, b) => BeforeIn(q, a, b)
         /\ \A a, b : StaleIn(p, a) /\ About(m, b) => BeforeIn(q, a, b)
         /\ \A n, who : LastSays(p, n, who) /\ ~About(m, n) => LastSays(q, n, who)
         /\ \A n : About(m, n) => LastSays(q, n, m[4])
<1> DEFINE k == Len(p) + 1
<1>1. /\ k \in Nat /\ DOMAIN p = 1 .. k - 1 /\ DOMAIN q = 1 .. k /\ q[k] = m
      /\ \A i \in DOMAIN p : q[i] = p[i] /\ i \in DOMAIN q /\ i < k /\ i \in Nat
      /\ \A i \in DOMAIN q : i \in Nat /\ (i \in DOMAIN p \/ i = k)
  BY AppendIs
<1> HIDE DEF k
<1>2. \A n : StaleIn(q, n) <=> StaleIn(p, n) \/ About(m, n)
  BY <1>1 DEF StaleIn
<1>3. \A c : PlaysIn(q, c) <=> PlaysIn(p, c) \/ Plays(m, c)
  BY <1>1 DEF PlaysIn
<1>4. \A a, b : BeforeIn(p, a, b) => BeforeIn(q, a, b)
  BY <1>1 DEF BeforeIn
<1>5. \A a, b : StaleIn(p, a) /\ About(m, b) => BeforeIn(q, a, b)
  BY <1>1 DEF StaleIn, BeforeIn
<1>6. ASSUME NEW n, NEW who, LastSays(p, n, who), ~About(m, n) PROVE LastSays(q, n, who)
  <2> SUFFICES ASSUME NEW i \in DOMAIN q, About(q[i], n), \A j \in DOMAIN q : i < j => ~About(q[j], n)
               PROVE  q[i][4] = who
    BY DEF LastSays
  <2>1. i \in DOMAIN p /\ q[i] = p[i]
    BY <1>1, <1>6
  <2>2. \A j \in DOMAIN p : i < j => ~About(p[j], n)
    BY <1>1
  <2> QED BY <1>6, <2>1, <2>2 DEF LastSays
<1>7. ASSUME NEW n, About(m, n) PROVE LastSays(q, n, m[4])
  <2> SUFFICES ASSUME NEW i \in DOMAIN q, About(q[i], n), \A j \in DOMAIN q : i < j => ~About(q[j], n)
               PROVE  q[i][4] = m[4]
    BY DEF LastSays
  <2>1. ~(i < k) /\ k \in DOMAIN q
    BY <1>1, <1>7
  <2> QED BY <1>1, <2>1
<1> QED BY <1>2, <1>3, <1>4, <1>5, <1>6, <1>7

\* A message less: the first, or one that says nothing of the names.
LEMMA DropTells ==
  ASSUME NEW p \in Seq(Messages), NEW q \in Seq(Messages), NEW k \in DOMAIN p, Len(q) = Len(p) - 1,
         \A i \in 1 .. Len(p) - 1 : q[i] = IF i < k THEN p[i] ELSE p[i + 1]
  PROVE  /\ \A n : StaleIn(q, n) => StaleIn(p, n)
         /\ \A n : StaleIn(p, n) /\ ~About(p[k], n) => StaleIn(q, n)
         /\ \A c : PlaysIn(q, c) => PlaysIn(p, c)
         /\ \A c : PlaysIn(p, c) /\ ~Plays(p[k], c) => PlaysIn(q, c)
         /\ \A a, b : BeforeIn(p, a, b) /\ ~About(p[k], a) /\ (k = 1 \/ ~About(p[k], b)) => BeforeIn(q, a, b)
         /\ \A n, who : LastSays(p, n, who) /\ (k = 1 \/ ~About(p[k], n)) => LastSays(q, n, who)
         /\ \A n, who : k = 1 /\ LastSays(p, n, who) /\ About(p[1], n) /\ ~StaleIn(q, n) => p[1][4] = who
<1> DEFINE from(i) == IF i < k THEN i ELSE i + 1
           to(i) == IF i < k THEN i ELSE i - 1
<1>1. DOMAIN p = 1 .. Len(p) /\ DOMAIN q = 1 .. Len(p) - 1 /\ Len(p) \in Nat /\ k \in Nat /\ k \in 1 .. Len(p)
  OBVIOUS
<1>2. \A i \in DOMAIN q : from(i) \in DOMAIN p /\ from(i) # k /\ q[i] = p[from(i)] /\ to(from(i)) = i
  BY <1>1
<1>3. \A i \in DOMAIN p : i # k => to(i) \in DOMAIN q /\ q[to(i)] = p[i] /\ from(to(i)) = i
  BY <1>1
<1>4. \A i, j \in DOMAIN p : i < j /\ i # k /\ j # k => to(i) < to(j)
  BY <1>1
<1>5. \A i, j \in DOMAIN q : i < j => from(i) < from(j)
  BY <1>1
<1>6. k = 1 => \A i \in DOMAIN p : i # k => 1 < i
  BY <1>1
<1>7. \A i, j \in DOMAIN p : i \in Nat /\ j \in Nat /\ (i < j => ~(j = i))
  BY <1>1
<1> HIDE DEF from, to
<1>8. \A n : StaleIn(q, n) => StaleIn(p, n)
  BY <1>2 DEF StaleIn
<1>9. \A n : StaleIn(p, n) /\ ~About(p[k], n) => StaleIn(q, n)
  BY <1>3 DEF StaleIn
<1>10. \A c : PlaysIn(q, c) => PlaysIn(p, c)
  BY <1>2 DEF PlaysIn
<1>11. \A c : PlaysIn(p, c) /\ ~Plays(p[k], c) => PlaysIn(q, c)
  BY <1>3 DEF PlaysIn
<1>12. ASSUME NEW a, NEW b, BeforeIn(p, a, b), ~About(p[k], a), k = 1 \/ ~About(p[k], b) PROVE BeforeIn(q, a, b)
  <2>1. PICK i \in DOMAIN p, j \in DOMAIN p : i < j /\ About(p[i], a) /\ About(p[j], b)
    BY <1>12 DEF BeforeIn
  <2>2. i # k
    BY <1>12, <2>1
  <2>3. j # k
    BY <1>1, <1>12, <2>1
  <2> QED BY <1>3, <1>4, <2>1, <2>2, <2>3 DEF BeforeIn
<1>13. ASSUME NEW n, NEW who, LastSays(p, n, who), k = 1 \/ ~About(p[k], n) PROVE LastSays(q, n, who)
  <2> SUFFICES ASSUME NEW i \in DOMAIN q, About(q[i], n), \A j \in DOMAIN q : i < j => ~About(q[j], n)
               PROVE  q[i][4] = who
    BY DEF LastSays
  <2>1. from(i) \in DOMAIN p /\ q[i] = p[from(i)] /\ from(i) # k /\ to(from(i)) = i
    BY <1>2
  <2>2. ASSUME NEW j \in DOMAIN p, from(i) < j PROVE ~About(p[j], n)
    <3>1. CASE j = k
      BY <1>1, <1>13, <2>1, <2>2, <3>1
    <3>2. CASE j # k
      <4>1. i < to(j) /\ to(j) \in DOMAIN q /\ q[to(j)] = p[j]
        BY <1>3, <1>4, <2>1, <2>2, <3>2
      <4> QED BY <4>1
    <3> QED BY <3>1, <3>2
  <2> QED BY <1>13, <2>1, <2>2 DEF LastSays
<1>14. ASSUME NEW n, NEW who, k = 1, LastSays(p, n, who), About(p[1], n), ~StaleIn(q, n) PROVE p[1][4] = who
  <2>1. ASSUME NEW j \in DOMAIN p, 1 < j PROVE ~About(p[j], n)
    <3>1. j # k
      BY <1>1, <1>14, <2>1
    <3> QED BY <1>3, <1>14, <3>1 DEF StaleIn
  <2> QED BY <1>1, <1>14, <2>1 DEF LastSays
<1> QED BY <1>8, <1>9, <1>10, <1>11, <1>12, <1>13, <1>14

\* What is to be heard of names and titles is as it was.
SameNews ==
  /\ \A n : Stale(n)' <=> Stale(n)
  /\ \A c : Replays(c)' <=> Replays(c)
  /\ \A a, b : BeforeIn(Pending, a, b) => BeforeIn(Pending', a, b)
  /\ \A n, who : LastSays(Pending, n, who) => LastSays(Pending', n, who)

LEMMA RepliesTellNothing ==
  ASSUME NEW m \in Messages, m[1] = "reply"
  PROVE  (\A n : ~About(m, n)) /\ (\A c : ~Plays(m, c))
BY DEF About, Plays

LEMMA PendingIs ==
  ASSUME TypeOk
  PROVE  /\ Pending \in Seq(Messages) /\ backlog \in Seq(Messages) /\ line \in Seq(Messages)
         /\ Len(backlog) \in Nat /\ Len(line) \in Nat
         /\ Len(Pending) = Len(backlog) + Len(line) /\ DOMAIN Pending = 1 .. Len(backlog) + Len(line)
         /\ \A i \in 1 .. Len(backlog) + Len(line) :
              Pending[i] = IF i <= Len(backlog) THEN backlog[i] ELSE line[i - Len(backlog)]
<1>1. line \in Seq(Messages) /\ backlog \in Seq(Signals) /\ Signals \subseteq Messages
  BY DEF TypeOk, Messages
<1>2. backlog \in Seq(Messages)
  BY <1>1
<1> QED BY <1>1, <1>2 DEF Pending

\* The socket gets a message.
LEMMA PendingAppends ==
  ASSUME TypeOk, NEW m \in Messages, line' = Append(line, m), backlog' = backlog
  PROVE  Pending' = Append(Pending, m)
<1>1. backlog \in Seq(Messages) /\ line \in Seq(Messages)
  BY PendingIs
<1> QED BY <1>1 DEF Pending

\* A signal is kept for later.
LEMMA PendingKeeps ==
  ASSUME TypeOk, line # <<>>, line' = Tail(line), backlog' = Append(backlog, Head(line))
  PROVE  Pending' = Pending
<1>1. backlog \in Seq(Messages) /\ line \in Seq(Messages)
  BY PendingIs
<1>2. Head(line) \in Messages /\ Tail(line) \in Seq(Messages) /\ line = <<Head(line)>> \o Tail(line)
  BY <1>1
<1> DEFINE h == Head(line)
           t == Tail(line)
<1> HIDE DEF h, t
<1>3. Append(backlog, h) \o t = backlog \o (<<h>> \o t)
  BY <1>1, <1>2 DEF h, t
<1> QED BY <1>2, <1>3 DEF Pending, h, t

\* The first on the socket is taken.
LEMMA PendingDrops ==
  ASSUME TypeOk, line # <<>>, line' = Tail(line), backlog' = backlog
  PROVE  /\ Len(backlog) + 1 \in DOMAIN Pending /\ Pending[Len(backlog) + 1] = Head(line)
         /\ Pending' \in Seq(Messages) /\ Len(Pending') = Len(Pending) - 1
         /\ \A i \in 1 .. Len(Pending) - 1 :
              Pending'[i] = IF i < Len(backlog) + 1 THEN Pending[i] ELSE Pending[i + 1]
<1>1. /\ backlog \in Seq(Messages) /\ line \in Seq(Messages) /\ Len(backlog) \in Nat
      /\ Len(Pending) = Len(backlog) + Len(line) /\ DOMAIN Pending = 1 .. Len(backlog) + Len(line)
      /\ \A i \in 1 .. Len(backlog) + Len(line) :
           Pending[i] = IF i <= Len(backlog) THEN backlog[i] ELSE line[i - Len(backlog)]
  BY PendingIs
<1>2. /\ Len(line) \in Nat \ {0} /\ Head(line) = line[1]
      /\ Tail(line) \in Seq(Messages) /\ Len(Tail(line)) = Len(line) - 1
      /\ \A i \in 1 .. Len(line) - 1 : Tail(line)[i] = line[i + 1]
  BY <1>1, TailIs
<1> DEFINE t == Tail(line)
<1> HIDE DEF t
<1>3. /\ backlog \o t \in Seq(Messages) /\ Len(backlog \o t) = Len(backlog) + Len(t)
      /\ \A i \in 1 .. Len(backlog) + Len(t) :
           (backlog \o t)[i] = IF i <= Len(backlog) THEN backlog[i] ELSE t[i - Len(backlog)]
  BY <1>1, <1>2 DEF t
<1>4. Pending' = backlog \o t
  BY DEF Pending, t
<1>5. /\ Len(backlog) + 1 \in DOMAIN Pending /\ Pending[Len(backlog) + 1] = Head(line)
  <2>1. /\ Len(backlog) + 1 \in 1 .. Len(backlog) + Len(line) /\ ~(Len(backlog) + 1 <= Len(backlog))
        /\ Len(backlog) + 1 - Len(backlog) = 1
    BY <1>1, <1>2
  <2>2. Pending[Len(backlog) + 1] = line[Len(backlog) + 1 - Len(backlog)]
    BY <1>1, <2>1
  <2> QED BY <1>1, <1>2, <2>1, <2>2
<1>6. ASSUME NEW i \in 1 .. Len(Pending) - 1
      PROVE  Pending'[i] = IF i < Len(backlog) + 1 THEN Pending[i] ELSE Pending[i + 1]
  <2>1. CASE i <= Len(backlog)
    BY <1>1, <1>2, <1>3, <1>4, <2>1 DEF t
  <2>2. CASE ~(i <= Len(backlog))
    <3>1. i - Len(backlog) \in 1 .. Len(line) - 1 /\ i + 1 \in 1 .. Len(backlog) + Len(line)
      BY <1>1, <1>2, <2>2
    <3>2. Pending'[i] = line[i - Len(backlog) + 1]
      BY <1>1, <1>2, <1>3, <1>4, <2>2, <3>1 DEF t
    <3>3. Pending[i + 1] = line[i + 1 - Len(backlog)]
      BY <1>1, <2>2, <3>1
    <3> QED BY <1>1, <2>2, <3>2, <3>3
  <2> QED BY <1>1, <2>1, <2>2
<1> QED BY <1>1, <1>2, <1>3, <1>4, <1>5, <1>6 DEF t

\* The first kept is taken.
LEMMA PendingTails ==
  ASSUME TypeOk, backlog # <<>>, backlog' = Tail(backlog), line' = line
  PROVE  /\ 1 \in DOMAIN Pending /\ Pending[1] = Head(backlog)
         /\ Pending' \in Seq(Messages) /\ Len(Pending') = Len(Pending) - 1
         /\ \A i \in 1 .. Len(Pending) - 1 : Pending'[i] = IF i < 1 THEN Pending[i] ELSE Pending[i + 1]
<1>1. /\ backlog \in Seq(Messages) /\ line \in Seq(Messages) /\ Len(line) \in Nat
      /\ Len(Pending) = Len(backlog) + Len(line) /\ DOMAIN Pending = 1 .. Len(backlog) + Len(line)
      /\ \A i \in 1 .. Len(backlog) + Len(line) :
           Pending[i] = IF i <= Len(backlog) THEN backlog[i] ELSE line[i - Len(backlog)]
  BY PendingIs
<1>2. /\ Len(backlog) \in Nat \ {0} /\ Head(backlog) = backlog[1]
      /\ Tail(backlog) \in Seq(Messages) /\ Len(Tail(backlog)) = Len(backlog) - 1
      /\ \A i \in 1 .. Len(backlog) - 1 : Tail(backlog)[i] = backlog[i + 1]
  BY <1>1, TailIs
<1> DEFINE t == Tail(backlog)
<1> HIDE DEF t
<1>3. /\ t \o line \in Seq(Messages) /\ Len(t \o line) = Len(t) + Len(line)
      /\ \A i \in 1 .. Len(t) + Len(line) : (t \o line)[i] = IF i <= Len(t) THEN t[i] ELSE line[i - Len(t)]
  BY <1>1, <1>2 DEF t
<1>4. Pending' = t \o line
  BY DEF Pending, t
<1>5. ASSUME NEW i \in 1 .. Len(Pending) - 1 PROVE Pending'[i] = Pending[i + 1]
  <2>1. CASE i <= Len(t)
    BY <1>1, <1>2, <1>3, <1>4, <2>1 DEF t
  <2>2. CASE ~(i <= Len(t))
    <3>1. Pending'[i] = line[i - Len(t)]
      BY <1>1, <1>2, <1>3, <1>4, <2>2 DEF t
    <3>2. Pending[i + 1] = line[i + 1 - Len(backlog)]
      BY <1>1, <1>2, <2>2 DEF t
    <3> QED BY <1>2, <3>1, <3>2 DEF t
  <2> QED BY <1>1, <1>2, <2>1, <2>2 DEF t
<1>6. \A i \in 1 .. Len(Pending) - 1 : ~(i < 1)
  BY <1>1, <1>2
<1> QED BY <1>1, <1>2, <1>3, <1>4, <1>5, <1>6 DEF t

LEMMA StillTells ==
  ASSUME Pending' = Pending
  PROVE  SameNews
BY DEF SameNews, Stale, Replays

LEMMA AppendedReply ==
  ASSUME TypeOk, NEW m \in Messages, m[1] = "reply", line' = Append(line, m), backlog' = backlog
  PROVE  SameNews
<1>1. Pending \in Seq(Messages) /\ Pending' = Append(Pending, m)
  BY PendingIs, PendingAppends
<1>2. (\A n : ~About(m, n)) /\ (\A c : ~Plays(m, c))
  BY RepliesTellNothing
<1>3. /\ \A n : StaleIn(Pending', n) <=> StaleIn(Pending, n) \/ About(m, n)
      /\ \A c : PlaysIn(Pending', c) <=> PlaysIn(Pending, c) \/ Plays(m, c)
      /\ \A a, b : BeforeIn(Pending, a, b) => BeforeIn(Pending', a, b)
      /\ \A n, who : LastSays(Pending, n, who) /\ ~About(m, n) => LastSays(Pending', n, who)
  BY <1>1, AppendTells
<1> QED BY <1>2, <1>3 DEF SameNews, Stale, Replays

LEMMA DroppedReply ==
  ASSUME TypeOk, line # <<>>, Head(line)[1] = "reply", line' = Tail(line), backlog' = backlog
  PROVE  SameNews
<1> DEFINE k == Len(backlog) + 1
<1>1. /\ Pending \in Seq(Messages) /\ k \in DOMAIN Pending /\ Pending[k] = Head(line)
      /\ Pending' \in Seq(Messages) /\ Len(Pending') = Len(Pending) - 1
      /\ \A i \in 1 .. Len(Pending) - 1 : Pending'[i] = IF i < k THEN Pending[i] ELSE Pending[i + 1]
  BY PendingIs, PendingDrops
<1> HIDE DEF k
<1>2. (\A n : ~About(Pending[k], n)) /\ (\A c : ~Plays(Pending[k], c))
  BY <1>1, RepliesTellNothing
<1>3. /\ \A n : StaleIn(Pending', n) => StaleIn(Pending, n)
      /\ \A n : StaleIn(Pending, n) /\ ~About(Pending[k], n) => StaleIn(Pending', n)
      /\ \A c : PlaysIn(Pending', c) => PlaysIn(Pending, c)
      /\ \A c : PlaysIn(Pending, c) /\ ~Plays(Pending[k], c) => PlaysIn(Pending', c)
      /\ \A a, b : BeforeIn(Pending, a, b) /\ ~About(Pending[k], a) /\ (k = 1 \/ ~About(Pending[k], b)) => BeforeIn(Pending', a, b)
      /\ \A n, who : LastSays(Pending, n, who) /\ (k = 1 \/ ~About(Pending[k], n)) => LastSays(Pending', n, who)
  BY <1>1, DropTells
<1> QED BY <1>2, <1>3 DEF SameNews, Stale, Replays

\* The cache with a player more, or one that is anew.
LEMMA InsertTells ==
  ASSUME cache \in Seq(OwnSet), NEW e \in OwnSet, Insert(e), Takes(e.name), NamesApart
  PROVE  /\ NamesApart'
         /\ \A i \in DOMAIN cache' : cache'[i] = e \/ \E k \in DOMAIN cache : cache'[i] = cache[k] /\ cache[k].name # e.name
         /\ \A n : Cached(n) \/ n = e.name => Cached(n)'
<1>1. CASE Cached(e.name)
  <2> DEFINE k == IndexOf(cache, LAMBDA x : x.name = e.name)
  <2>1. cache' = [cache EXCEPT ![k] = e]
    BY <1>1 DEF Insert
  <2>2. k \in DOMAIN cache /\ cache[k].name = e.name
    BY <1>1, FirstName DEF Cached, IndexOf
  <2> HIDE DEF k
  <2>3. DOMAIN cache' = DOMAIN cache /\ \A i \in DOMAIN cache : cache'[i] = IF i = k THEN e ELSE cache[i]
    BY <2>1
  <2>4. NamesApart' /\ \A i \in DOMAIN cache : i # k => cache[i].name # e.name
    BY <2>2, <2>3 DEF NamesApart
  <2>5. \A n : Cached(n) \/ n = e.name => Cached(n)'
    BY <2>2, <2>3 DEF Cached
  <2> QED BY <2>2, <2>3, <2>4, <2>5
<1>2. CASE ~Cached(e.name)
  <2>1. cache' = Append(cache, e)
    BY <1>2 DEF Insert
  <2>2. /\ Len(cache) \in Nat /\ DOMAIN cache' = 1 .. Len(cache) + 1 /\ DOMAIN cache = 1 .. Len(cache)
        /\ cache'[Len(cache) + 1] = e
        /\ \A i \in DOMAIN cache : cache'[i] = cache[i] /\ i \in DOMAIN cache'
    BY <2>1, AppendIs
  <2>3. /\ \A i \in DOMAIN cache' : i \in DOMAIN cache \/ i = Len(cache) + 1
        /\ \A i \in DOMAIN cache : cache[i].name # e.name
    BY <1>2, <2>2 DEF Cached
  <2>4. NamesApart'
    BY <2>2, <2>3 DEF NamesApart
  <2>5. \A n : Cached(n) \/ n = e.name => Cached(n)'
    BY <2>2, <2>3 DEF Cached
  <2> QED BY <2>2, <2>3, <2>4, <2>5
<1> QED BY <1>1, <1>2

\* The cache without a player.
LEMMA DetachTells ==
  ASSUME cache \in Seq(OwnSet), NEW name, Detach(name), NamesApart
  PROVE  /\ NamesApart'
         /\ \A i \in DOMAIN cache' : \E k \in DOMAIN cache : cache'[i] = cache[k] /\ cache[k].name # name
         /\ \A n : Cached(n) /\ n # name => Cached(n)'
<1>1. CASE Cached(name)
  <2> DEFINE k == IndexOf(cache, LAMBDA e : e.name = name)
             from(j) == IF j = k THEN Len(cache) ELSE j
  <2>1. cache' = SwapRemoved(k)
    BY <1>1 DEF Detach
  <2>2. k \in DOMAIN cache /\ cache[k].name = name
    BY <1>1, FirstName DEF Cached, IndexOf
  <2> HIDE DEF k
  <2>3. Len(cache) \in Nat \ {0} /\ DOMAIN cache = 1 .. Len(cache)
    BY <2>2
  <2>4. DOMAIN cache' = 1 .. Len(cache) - 1 /\ \A j \in DOMAIN cache' : cache'[j] = cache[from(j)]
    BY <2>1, <2>3 DEF SwapRemoved
  <2>5. /\ \A j \in DOMAIN cache' : from(j) \in DOMAIN cache /\ from(j) # k
        /\ \A i, j \in DOMAIN cache' : from(i) = from(j) => i = j
        /\ \A i \in DOMAIN cache : i # k => \E j \in DOMAIN cache' : from(j) = i
    <3>1. \A j \in DOMAIN cache' : from(j) \in DOMAIN cache /\ from(j) # k
      BY <2>2, <2>3, <2>4
    <3>2. \A i, j \in DOMAIN cache' : from(i) = from(j) => i = j
      BY <2>2, <2>3, <2>4
    <3>3. ASSUME NEW i \in DOMAIN cache, i # k PROVE \E j \in DOMAIN cache' : from(j) = i
      <4>1. CASE i = Len(cache)
        <5>1. k \in DOMAIN cache' /\ from(k) = i
          BY <2>2, <2>3, <2>4, <3>3, <4>1
        <5> QED BY <5>1
      <4>2. CASE i # Len(cache)
        <5>1. i \in DOMAIN cache' /\ from(i) = i
          BY <2>3, <2>4, <3>3, <4>2
        <5> QED BY <5>1
      <4> QED BY <4>1, <4>2
    <3> QED BY <3>1, <3>2, <3>3
  <2> HIDE DEF from
  <2>6. NamesApart'
    BY <2>4, <2>5 DEF NamesApart
  <2>7. \A i \in DOMAIN cache' : \E x \in DOMAIN cache : cache'[i] = cache[x] /\ cache[x].name # name
    <3> SUFFICES ASSUME NEW i \in DOMAIN cache' PROVE cache'[i] = cache[from(i)] /\ from(i) \in DOMAIN cache /\ cache[from(i)].name # name
      OBVIOUS
    <3> QED BY <2>2, <2>4, <2>5 DEF NamesApart
  <2>8. \A n : Cached(n) /\ n # name => Cached(n)'
    <3> SUFFICES ASSUME NEW n, NEW i \in DOMAIN cache, cache[i].name = n, n # name PROVE \E j \in DOMAIN cache' : cache'[j].name = n
      BY DEF Cached
    <3>1. i # k
      BY <2>2
    <3>2. PICK j \in DOMAIN cache' : from(j) = i
      BY <2>5, <3>1
    <3> QED BY <2>4, <3>2
  <2> QED BY <2>6, <2>7, <2>8
<1>2. CASE ~Cached(name)
  <2>1. cache' = cache /\ \A i \in DOMAIN cache : cache[i].name # name
    BY <1>2 DEF Detach, Cached
  <2>2. NamesApart' /\ \A n : Cached(n) => Cached(n)'
    BY <2>1 DEF NamesApart, Cached
  <2> QED BY <2>1, <2>2
<1> QED BY <1>1, <1>2

\* Where nothing was given up, what is asked and answered is all of the call in hand.
LEMMA OnlyMine ==
  ASSUME AnswersStand, timeouts = 0
  PROVE  /\ \A c \in open : c.serial = waits /\ waits # 0 /\ Replies(line) = {}
         /\ \A i \in Replies(line) : line[i][2] = waits /\ waits # 0 /\ open = {}
         /\ \A i, j \in Replies(line) : i = j
<1> DEFINE taken == Outstanding(open, line)
           late == taken \ {waits}
<1>1. TypeOk /\ SerialsApart
  BY DEF AnswersStand
<1>2. IsFiniteSet(late) /\ Cardinality(late) <= 0 /\ taken \subseteq Serials
  BY <1>1, OutstandingIs, FS_RemoveElement DEF SerialsApart
<1>3. Cardinality(late) \in Nat
  BY <1>2, FS_CardinalityType
<1>4. Cardinality(late) = 0
  BY <1>2, <1>3
<1>5. late = {}
  BY <1>2, <1>4, FS_EmptySet
<1>6. \A n \in taken : n = waits /\ n # 0
  BY <1>2, <1>5 DEF Serials
<1>7. \A c \in open : c.serial = waits /\ waits # 0
  BY <1>6 DEF Outstanding
<1>8. \A i \in Replies(line) : line[i][2] = waits /\ waits # 0
  BY <1>6 DEF Outstanding
<1>9. \A c \in open, i \in Replies(line) : c.serial # line[i][2]
  BY <1>1 DEF SerialsApart
<1>10. \A i, j \in Replies(line) : i = j
  BY <1>1, <1>8 DEF SerialsApart
<1> QED BY <1>7, <1>8, <1>9, <1>10

\* A call that was only just made has no answer yet.
LEMMA Unanswered ==
  ASSUME AnswersStand', Turned
  PROVE  \A v : ~Answered(v)'
<1>1. line' \in Seq(Messages) /\ SerialsApart'
  BY DEF AnswersStand, TypeOk
<1>2. \A i \in Replies(line') : line'[i][2] \in Serials
  <2>1. \A i \in Replies(line') : line'[i] \in Messages /\ line'[i][1] = "reply"
    BY <1>1 DEF Replies
  <2> QED BY <2>1, MessagesAre
<1>3. CASE Ends
  BY <1>2, <1>3 DEF Ends, Answered, Serials
<1>4. ASSUME NEW c, Asks(c) PROVE \A v : ~Answered(v)'
  <2>1. c \in open' /\ c.serial = waits'
    BY <1>4 DEF Asks
  <2>2. \A i \in Replies(line') : c.serial # line'[i][2]
    BY <1>1, <2>1 DEF SerialsApart
  <2> QED BY <2>1, <2>2 DEF Answered
<1> QED BY <1>3, <1>4 DEF Turned

\* Who is taken for an owner is one, where nothing is to be heard of the name.
LEMMA ClaimsAreTrue ==
  ASSUME EntriesTrue, JobTrue, AnswerTrue, NEW n, NEW c, Claims(n, c), ~Stale(n)
  PROVE  owner[n] = c
<1>1. CASE \E i \in DOMAIN cache : cache[i].name = n /\ cache[i].owner = c
  BY <1>1 DEF EntriesTrue, EntryTrue
<1>2. CASE step \in {"pid", "calls", "title"} /\ job.name = n /\ job.owner = c
  BY <1>2 DEF JobTrue
<1>3. CASE step = "owner" /\ job.name = n /\ Answered(c)
  BY <1>3 DEF AnswerTrue
<1> QED BY <1>1, <1>2, <1>3 DEF Claims

\* The worker before it listens: nothing is known, nothing is on its way.
LEMMA Deaf ==
  ASSUME AnswersStand, MirrorParts, ~Listening
  PROVE  step \in {"start", "match owner", "match properties"} /\ cache = <<>> /\ todo = {}
BY DEF AnswersStand, JobOk, MirrorParts, Listens, Listening, Binding, Asking

LEMMA NothingIn ==
  ASSUME NEW c, c = <<>>
  PROVE  \A i \in DOMAIN c : FALSE
OBVIOUS

\* So there is nothing to be wrong about.
LEMMA DeafMirrors ==
  ASSUME step' \in {"start", "match owner", "match properties"}, cache' = <<>>
  PROVE  (EntriesTrue /\ JobTrue /\ AnswerTrue /\ AllListed /\ Handed /\ NamesApart)'
<1>1. \A i \in DOMAIN cache' : FALSE
  BY NothingIn
<1>2. (EntriesTrue /\ JobTrue /\ AnswerTrue /\ AllListed /\ NamesApart)'
  BY <1>1 DEF EntriesTrue, JobTrue, AnswerTrue, AllListed, Listening, Binding, NamesApart
<1>3. Handed'
  <2>1. \A m, n \in PlayerName : ~(Claims(m, owner[n])')
    BY <1>1 DEF Claims
  <2> QED BY <2>1 DEF Handed
<1> QED BY <1>2, <1>3

LEMMA OwnMirrors ==
  ASSUME AnswersStand, ~ManyNames, MirrorsBus, NEW who \in PlayerName, NEW to \in Conn \cup {Nobody}, Own(who, to)
  PROVE  MirrorsBus'
<1> DEFINE m == Signal("owner", who, owner[who], to)
<1>1. TypeOk /\ owner \in [PlayerName -> Owners] /\ line \in Seq(Messages) /\ owner[who] \in Owners /\ to \in Owners
  BY DEF AnswersStand, TypeOk, Owners
<1>2. /\ owner' = [owner EXCEPT ![who] = to] /\ Sent(m)
      /\ to = Nobody \/ \A n \in PlayerName : owner[n] # to
      /\ UNCHANGED <<playing, rules, open, step, todo, job, backlog, waits, cache, missed, timeouts>>
  BY DEF Own, workerVars
<1>3. owner'[who] = to /\ \A n \in PlayerName : n # who => owner'[n] = owner[n]
  BY <1>1, <1>2
<1>4. m \in Signals /\ m \in Messages /\ m[1] = "owner" /\ m[2] = who /\ m[4] = to
  BY <1>1 DEF Signal, Signals, OwnerSignals, Messages
<1> HIDE DEF m
<1>5. OwnersApart'
  BY <1>2, <1>3 DEF MirrorsBus, OwnersApart
<1> SUFFICES ASSUME ~missed PROVE MirrorParts'
  BY <1>2, <1>5 DEF MirrorsBus
<1>6. MirrorParts
  BY DEF MirrorsBus
<1>7. Replies(line') = Replies(line) /\ \A i \in Replies(line) : line'[i] = line[i]
  BY <1>1, <1>4, SignalsAreNoReplies, <1>2 DEF Sent
<1>8. \A v : Answered(v)' <=> Answered(v)
  BY <1>2, <1>7 DEF Answered
<1>9. CASE "owner" \notin rules
  <2>1. Pending' = Pending /\ line' = line
    BY <1>2, <1>4, <1>9 DEF Sent, Pending
  <2>2. ~Listening
    BY <1>6, <1>9 DEF MirrorParts, Listens
  <2>3. step \in {"start", "match owner", "match properties"} /\ cache = <<>> /\ todo = {}
    BY <1>6, <2>2, Deaf
  <2>4. (EntriesTrue /\ JobTrue /\ AnswerTrue /\ AllListed /\ Handed /\ NamesApart)'
    BY <1>2, <2>3, DeafMirrors
  <2>5. \A i \in DOMAIN Pending : \A n : ~About(Pending[i], n)
    BY <1>6, <1>9 DEF MirrorParts, Listens, About
  <2>6. LastWords'
    BY <2>1, <2>5 DEF LastWords, LastSays
  <2>7. Listens'
    BY <1>2, <1>6, <1>8, <2>1 DEF MirrorParts, Listens, Listening
  <2> QED BY <2>4, <2>6, <2>7 DEF MirrorParts
<1>10. CASE "owner" \in rules
  <2>1. Pending \in Seq(Messages) /\ Pending' = Append(Pending, m)
    BY <1>1, <1>2, <1>4, <1>10, PendingIs, PendingAppends DEF Sent
  <2>2. /\ \A n : Stale(n)' <=> Stale(n) \/ About(m, n)
        /\ \A c : Replays(c)' <=> Replays(c) \/ Plays(m, c)
        /\ \A a, b : BeforeIn(Pending, a, b) => BeforeIn(Pending', a, b)
        /\ \A a, b : Stale(a) /\ About(m, b) => BeforeIn(Pending', a, b)
        /\ \A n, w : LastSays(Pending, n, w) /\ ~About(m, n) => LastSays(Pending', n, w)
        /\ \A n : About(m, n) => LastSays(Pending', n, m[4])
    BY <1>4, <2>1, AppendTells DEF Stale, Replays
  <2>3. /\ \A n : About(m, n) <=> n = who
        /\ \A c : ~Plays(m, c)
    BY <1>4 DEF About, Plays
  <2>4. /\ \A n : Stale(n)' <=> Stale(n) \/ n = who
        /\ \A c : Replays(c)' <=> Replays(c)
    BY <2>2, <2>3
  <2>5. LastWords'
    BY <1>3, <1>4, <1>6, <2>2, <2>3 DEF MirrorParts, LastWords
  <2>6. Listens'
    <3>1. \A i \in DOMAIN Pending' : Pending'[i][1] \in rules \cup {"reply"}
      <4>1. \A i \in DOMAIN Pending' : i \in DOMAIN Pending \/ i = Len(Pending) + 1
        BY <1>4, <2>1, AppendIs
      <4>2. Pending'[Len(Pending) + 1] = m /\ \A i \in DOMAIN Pending : Pending'[i] = Pending[i]
        BY <1>4, <2>1, AppendIs
      <4> QED BY <1>4, <1>6, <1>10, <4>1, <4>2 DEF MirrorParts, Listens
    <3> QED BY <1>2, <1>6, <1>8, <3>1 DEF MirrorParts, Listens, Listening
  <2>7. EntriesTrue'
    <3> SUFFICES ASSUME NEW i \in DOMAIN cache PROVE EntryTrue(cache[i])'
      BY <1>2 DEF EntriesTrue
    <3>1. EntryTrue(cache[i]) /\ cache[i].name \in PlayerName
      BY <1>1, <1>6 DEF MirrorParts, EntriesTrue, TypeOk, OwnSet, PlayerSet
    <3> QED BY <1>2, <1>3, <2>4, <3>1 DEF EntryTrue
  <2>8. JobTrue'
    <3>1. step \in {"pid", "calls", "title"} => job.name \in PlayerName
      BY DEF AnswersStand, JobOk
    <3> QED BY <1>2, <1>3, <1>6, <2>4, <3>1 DEF MirrorParts, JobTrue
  <2>9. AnswerTrue'
    <3> SUFFICES ASSUME NEW v, Answered(v)
                 PROVE  /\ step = "names" => \A n \in PlayerName : owner'[n] # Nobody => Stale(n)' \/ n \in v
                        /\ step = "owner" => Stale(job.name)' \/ v = owner'[job.name]
                        /\ step = "pid" => Stale(job.name)' \/ v = PidOf[job.owner]
                        /\ step = "calls" => Stale(job.name)' \/ v = Declared[job.owner]
                        /\ step = "title" => Stale(job.name)' \/ v = playing[job.owner] \/ Replays(job.owner)'
                        /\ step = "refresh" =>
                             \A n \in PlayerName : owner'[n] = job.owner => Stale(n)' \/ v = playing[job.owner] \/ Replays(job.owner)'
      BY <1>2, <1>8 DEF AnswerTrue
    <3>1. step = "owner" => job.name \in PlayerName
      BY DEF AnswersStand, JobOk
    <3>2. /\ step = "names" => \A n \in PlayerName : owner[n] # Nobody => Stale(n) \/ n \in v
          /\ step = "owner" => Stale(job.name) \/ v = owner[job.name]
          /\ step = "pid" => Stale(job.name) \/ v = PidOf[job.owner]
          /\ step = "calls" => Stale(job.name) \/ v = Declared[job.owner]
          /\ step = "title" => Stale(job.name) \/ v = playing[job.owner] \/ Replays(job.owner)
          /\ step = "refresh" =>
               \A n \in PlayerName : owner[n] = job.owner => Stale(n) \/ v = playing[job.owner] \/ Replays(job.owner)
      BY <1>6 DEF MirrorParts, AnswerTrue
    <3> QED BY <1>2, <1>3, <2>4, <3>1, <3>2
  <2>10. AllListed'
    <3> SUFFICES ASSUME Listening, NEW n \in PlayerName, owner'[n] # Nobody
                 PROVE  Stale(n)' \/ Cached(n) \/ n \in todo \/ step = "names" \/ (step \in Binding /\ job.name = n)
      BY <1>2 DEF AllListed, Listening, Cached
    <3> QED BY <1>3, <1>6, <2>4 DEF MirrorParts, AllListed
  <2>11. Handed'
    <3> SUFFICES ASSUME NEW a \in PlayerName, NEW n \in PlayerName, a # n, owner'[n] # Nobody, Claims(a, owner'[n])
                 PROVE  BeforeIn(Pending', a, n)
      BY <1>2, <1>8 DEF Handed, Claims
    <3>1. CASE n # who
      BY <1>3, <1>6, <2>2, <3>1 DEF MirrorParts, Handed
    <3>2. CASE n = who
      <4>1. owner[a] # to
        BY <1>2, <1>3, <3>2
      <4>2. Stale(a)
        BY <1>3, <1>6, <3>2, <4>1, ClaimsAreTrue DEF MirrorParts
      <4> QED BY <2>2, <2>3, <3>2, <4>2
    <3> QED BY <3>1, <3>2
  <2>12. NamesApart'
    BY <1>2, <1>6 DEF MirrorParts, NamesApart
  <2> QED BY <2>5, <2>6, <2>7, <2>8, <2>9, <2>10, <2>11, <2>12 DEF MirrorParts
<1> QED BY <1>9, <1>10

LEMMA PlayMirrors ==
  ASSUME AnswersStand, MirrorsBus, NEW who \in Conn, NEW title \in TitlesOf[who], Play(who, title)
  PROVE  MirrorsBus'
<1> DEFINE m == Signal("properties", who, Nobody, Nobody)
<1>1. TypeOk /\ playing \in [Conn -> TitleSet] /\ line \in Seq(Messages)
  BY DEF AnswersStand, TypeOk
<1>2. /\ playing' = [playing EXCEPT ![who] = title] /\ Sent(m)
      /\ UNCHANGED <<owner, rules, open, step, todo, job, backlog, waits, cache, missed, timeouts>>
  BY DEF Play, workerVars
<1>3. \A c : c # who => playing'[c] = playing[c]
  BY <1>1, <1>2
<1>4. m \in Signals /\ m \in Messages /\ m[1] = "properties" /\ m[2] = who
  BY DEF Signal, Signals, PropertiesSignals, Messages
<1> HIDE DEF m
<1>5. OwnersApart'
  BY <1>2 DEF MirrorsBus, OwnersApart
<1> SUFFICES ASSUME ~missed PROVE MirrorParts'
  BY <1>2, <1>5 DEF MirrorsBus
<1>6. MirrorParts
  BY DEF MirrorsBus
<1>7. Replies(line') = Replies(line) /\ \A i \in Replies(line) : line'[i] = line[i]
  BY <1>1, <1>4, SignalsAreNoReplies, <1>2 DEF Sent
<1>8. \A v : Answered(v)' <=> Answered(v)
  BY <1>2, <1>7 DEF Answered
<1>9. CASE "properties" \notin rules
  <2>1. Pending' = Pending /\ line' = line
    BY <1>2, <1>4, <1>9 DEF Sent, Pending
  <2>2. ~Listening
    BY <1>6, <1>9 DEF MirrorParts, Listens
  <2>3. step \in {"start", "match owner", "match properties"} /\ cache = <<>> /\ todo = {}
    BY <1>6, <2>2, Deaf
  <2>4. (EntriesTrue /\ JobTrue /\ AnswerTrue /\ AllListed /\ Handed /\ NamesApart)'
    BY <1>2, <2>3, DeafMirrors
  <2>5. LastWords'
    BY <1>2, <1>6, <2>1 DEF MirrorParts, LastWords
  <2>6. Listens'
    BY <1>2, <1>6, <1>8, <2>1 DEF MirrorParts, Listens, Listening
  <2> QED BY <2>4, <2>5, <2>6 DEF MirrorParts
<1>10. CASE "properties" \in rules
  <2>1. Pending \in Seq(Messages) /\ Pending' = Append(Pending, m)
    BY <1>1, <1>2, <1>4, <1>10, PendingIs, PendingAppends DEF Sent
  <2>2. /\ \A n : Stale(n)' <=> Stale(n) \/ About(m, n)
        /\ \A c : Replays(c)' <=> Replays(c) \/ Plays(m, c)
        /\ \A a, b : BeforeIn(Pending, a, b) => BeforeIn(Pending', a, b)
        /\ \A n, w : LastSays(Pending, n, w) /\ ~About(m, n) => LastSays(Pending', n, w)
    BY <1>4, <2>1, AppendTells DEF Stale, Replays
  <2>3. (\A n : ~About(m, n)) /\ (\A c : Plays(m, c) <=> c = who)
    BY <1>4 DEF About, Plays
  <2>4. /\ \A n : Stale(n)' <=> Stale(n)
        /\ \A c : Replays(c)' <=> Replays(c) \/ c = who
        /\ \A n, w : LastSays(Pending, n, w) => LastSays(Pending', n, w)
    BY <2>2, <2>3
  <2>5. LastWords'
    BY <1>2, <1>6, <2>4 DEF MirrorParts, LastWords
  <2>6. Listens'
    <3>1. \A i \in DOMAIN Pending' : Pending'[i][1] \in rules \cup {"reply"}
      <4>1. \A i \in DOMAIN Pending' : i \in DOMAIN Pending \/ i = Len(Pending) + 1
        BY <1>4, <2>1, AppendIs
      <4>2. Pending'[Len(Pending) + 1] = m /\ \A i \in DOMAIN Pending : Pending'[i] = Pending[i]
        BY <1>4, <2>1, AppendIs
      <4> QED BY <1>4, <1>6, <1>10, <4>1, <4>2 DEF MirrorParts, Listens
    <3> QED BY <1>2, <1>6, <1>8, <3>1 DEF MirrorParts, Listens, Listening
  <2>7. EntriesTrue'
    <3> SUFFICES ASSUME NEW i \in DOMAIN cache PROVE EntryTrue(cache[i])'
      BY <1>2 DEF EntriesTrue
    <3>1. EntryTrue(cache[i])
      BY <1>6 DEF MirrorParts, EntriesTrue
    <3> QED BY <1>2, <1>3, <2>4, <3>1 DEF EntryTrue
  <2>8. JobTrue'
    BY <1>2, <1>6, <2>4 DEF MirrorParts, JobTrue
  <2>9. AnswerTrue'
    <3> SUFFICES ASSUME NEW v, Answered(v)
                 PROVE  /\ step = "names" => \A n \in PlayerName : owner[n] # Nobody => Stale(n)' \/ n \in v
                        /\ step = "owner" => Stale(job.name)' \/ v = owner[job.name]
                        /\ step = "pid" => Stale(job.name)' \/ v = PidOf[job.owner]
                        /\ step = "calls" => Stale(job.name)' \/ v = Declared[job.owner]
                        /\ step = "title" => Stale(job.name)' \/ v = playing'[job.owner] \/ Replays(job.owner)'
                        /\ step = "refresh" =>
                             \A n \in PlayerName : owner[n] = job.owner => Stale(n)' \/ v = playing'[job.owner] \/ Replays(job.owner)'
      BY <1>2, <1>8 DEF AnswerTrue
    <3>1. /\ step = "names" => \A n \in PlayerName : owner[n] # Nobody => Stale(n) \/ n \in v
          /\ step = "owner" => Stale(job.name) \/ v = owner[job.name]
          /\ step = "pid" => Stale(job.name) \/ v = PidOf[job.owner]
          /\ step = "calls" => Stale(job.name) \/ v = Declared[job.owner]
          /\ step = "title" => Stale(job.name) \/ v = playing[job.owner] \/ Replays(job.owner)
          /\ step = "refresh" =>
               \A n \in PlayerName : owner[n] = job.owner => Stale(n) \/ v = playing[job.owner] \/ Replays(job.owner)
      BY <1>6 DEF MirrorParts, AnswerTrue
    <3> QED BY <1>2, <1>3, <2>4, <3>1
  <2>10. AllListed'
    BY <1>2, <1>6, <2>4 DEF MirrorParts, AllListed, Listening, Cached
  <2>11. Handed'
    BY <1>2, <1>6, <1>8, <2>2 DEF MirrorParts, Handed, Claims
  <2>12. NamesApart'
    BY <1>2, <1>6 DEF MirrorParts, NamesApart
  <2> QED BY <2>5, <2>6, <2>7, <2>8, <2>9, <2>10, <2>11, <2>12 DEF MirrorParts
<1> QED BY <1>9, <1>10

LEMMA ReplyMirrors ==
  ASSUME AnswersStand, MirrorsBus, NEW c \in open, Reply(c)
  PROVE  MirrorsBus'
<1> DEFINE r == <<"reply", c.serial, ReplyTo(c)>>
<1>1. TypeOk /\ CallFits /\ PlayingOk /\ JobOk /\ c \in CallSet /\ line \in Seq(Messages) /\ owner \in [PlayerName -> Owners]
  BY DEF AnswersStand, TypeOk
<1>2. /\ UNCHANGED <<owner, playing, step, todo, job, backlog, waits, cache, missed, timeouts>>
      /\ open' = open \ {c} /\ line' = Append(line, r)
      /\ rules' = rules \cup IF c.what = "match" THEN {c.of} ELSE {}
  BY DEF Reply, busVars, workerVars
<1>3. c.serial \in Serials /\ ReplyTo(c) \in Said
  BY <1>1, ReplyIsRight, CallsHaveSerials
<1>4. r \in Messages /\ r[1] = "reply" /\ r[2] = c.serial /\ r[3] = ReplyTo(c)
  BY <1>3 DEF Messages, Answers
<1> HIDE DEF r
<1>5. OwnersApart'
  BY <1>2 DEF MirrorsBus, OwnersApart
<1> SUFFICES ASSUME ~missed PROVE MirrorParts'
  BY <1>2, <1>5 DEF MirrorsBus
<1>6. MirrorParts /\ OwnersApart
  BY DEF MirrorsBus
<1>7. c.serial = waits /\ waits # 0 /\ Replies(line) = {}
  BY <1>6, OnlyMine DEF MirrorParts, Listens
<1>8. c.what = AsksFor(step) /\ c.of = Concerns /\ step \in Asking
  BY <1>1, <1>7 DEF CallFits, JobOk
<1>9. SameNews
  BY <1>1, <1>2, <1>4, AppendedReply
<1>10. \A v : ~Answered(v)
  BY <1>7 DEF Answered
<1>11. \A v : Answered(v)' => v = ReplyTo(c)
  <2>1. /\ DOMAIN line' = 1 .. Len(line) + 1 /\ DOMAIN line = 1 .. Len(line) /\ Len(line) \in Nat
        /\ line'[Len(line) + 1] = r /\ \A i \in DOMAIN line : line'[i] = line[i]
    BY <1>1, <1>2, <1>4, AppendIs
  <2>2. \A i \in Replies(line') : i = Len(line) + 1
    BY <1>7, <2>1 DEF Replies
  <2> QED BY <1>4, <2>1, <2>2 DEF Answered
<1>12. /\ \A n : Stale(n)' <=> Stale(n)
       /\ \A x : Replays(x)' <=> Replays(x)
  BY <1>9 DEF SameNews
\* What is answered is so.
<1>13. AnswerTrue'
  <2> SUFFICES ASSUME NEW v, v = ReplyTo(c)
               PROVE  /\ step = "names" => \A n \in PlayerName : owner[n] # Nobody => n \in v
                      /\ step = "owner" => v = owner[job.name]
                      /\ step = "pid" => Stale(job.name) \/ v = PidOf[job.owner]
                      /\ step = "calls" => Stale(job.name) \/ v = Declared[job.owner]
                      /\ step = "title" => Stale(job.name) \/ v = playing[job.owner]
                      /\ step = "refresh" => \A n \in PlayerName : owner[n] = job.owner => v = playing[job.owner]
    BY <1>2, <1>11, <1>12 DEF AnswerTrue
  <2>1. CASE step = "names"
    BY <1>8, <2>1 DEF ReplyTo, AsksFor, Concerns
  <2>2. CASE step = "owner"
    BY <1>8, <2>2 DEF ReplyTo, AsksFor, Concerns
  <2>3. CASE step \in {"pid", "calls", "title"}
    <3>1. job.name \in PlayerName /\ job.owner \in Conn
      BY <1>1, <2>3 DEF JobOk
    <3>2. Stale(job.name) \/ job.owner = owner[job.name]
      BY <1>6, <2>3 DEF MirrorParts, JobTrue
    <3>3. CASE Stale(job.name)
      BY <2>3, <3>3
    <3>4. CASE job.owner = owner[job.name]
      <4>1. Alive(job.owner) /\ job.owner # Nobody
        BY <3>1, <3>4, NobodyAssumption DEF Alive
      <4>2. CASE step = "pid"
        <5>1. ReplyTo(c) = IF owner[c.of] = Nobody THEN Nobody ELSE PidOf[owner[c.of]]
          BY <1>8, <4>2 DEF ReplyTo, AsksFor
        <5>2. c.of = job.name
          BY <1>8, <4>2 DEF Concerns
        <5> QED BY <3>4, <4>1, <4>2, <5>1, <5>2
      <4>3. CASE step = "calls"
        <5>1. ReplyTo(c) = IF Alive(c.of) THEN Declared[c.of] ELSE Nobody
          BY <1>8, <4>3 DEF ReplyTo, AsksFor
        <5>2. c.of = job.owner
          BY <1>8, <4>3 DEF Concerns
        <5> QED BY <4>1, <4>3, <5>1, <5>2
      <4>4. CASE step = "title"
        <5>1. ReplyTo(c) = IF Alive(c.of) THEN playing[c.of] ELSE Nobody
          BY <1>8, <4>4 DEF ReplyTo, AsksFor
        <5>2. c.of = job.owner
          BY <1>8, <4>4 DEF Concerns
        <5> QED BY <4>1, <4>4, <5>1, <5>2
      <4> QED BY <2>3, <4>2, <4>3, <4>4
    <3> QED BY <3>2, <3>3, <3>4
  <2>4. CASE step = "refresh"
    <3>1. ReplyTo(c) = IF Alive(c.of) THEN playing[c.of] ELSE Nobody
      BY <1>8, <2>4 DEF ReplyTo, AsksFor
    <3>2. c.of = job.owner
      BY <1>8, <2>4 DEF Concerns
    <3>3. \A n \in PlayerName : owner[n] = job.owner => Alive(job.owner)
      BY DEF Alive
    <3> QED BY <2>4, <3>1, <3>2, <3>3
  <2> QED BY <2>1, <2>2, <2>3, <2>4
<1>14. Listens'
  <2>1. \A i \in DOMAIN Pending' : Pending'[i][1] \in rules' \cup {"reply"}
    <3>1. Pending \in Seq(Messages) /\ Pending' = Append(Pending, r)
      BY <1>1, <1>2, <1>4, PendingIs, PendingAppends
    <3>2. /\ \A i \in DOMAIN Pending' : i \in DOMAIN Pending \/ i = Len(Pending) + 1
          /\ Pending'[Len(Pending) + 1] = r /\ \A i \in DOMAIN Pending : Pending'[i] = Pending[i]
      BY <1>4, <3>1, AppendIs
    <3> QED BY <1>2, <1>4, <1>6, <3>2 DEF MirrorParts, Listens
  <2>2. /\ step = "match owner" => "owner" \in rules' /\ ReplyTo(c) = "owner"
        /\ step = "match properties" => "properties" \in rules' /\ ReplyTo(c) = "properties"
    BY <1>2, <1>8 DEF ReplyTo, AsksFor, Concerns
  <2>3. step = "names" => ReplyTo(c) \in SUBSET PlayerName
    BY <1>8 DEF ReplyTo, AsksFor
  <2>4. step \in {"match owner", "match properties", "names"} => ReplyTo(c) # Nobody
    BY <2>2, <2>3, NobodyAssumption
  <2>5. rules \subseteq rules'
    BY <1>2
  <2> QED BY <1>2, <1>6, <1>11, <2>1, <2>2, <2>4, <2>5 DEF MirrorParts, Listens, Listening
<1>15. NamesApart' /\ LastWords' /\ EntriesTrue' /\ JobTrue' /\ AllListed'
  <2>1. NamesApart'
    BY <1>2, <1>6 DEF MirrorParts, NamesApart
  <2>2. LastWords'
    BY <1>2, <1>6, <1>9 DEF MirrorParts, LastWords, SameNews
  <2>3. EntriesTrue'
    BY <1>2, <1>6, <1>12 DEF MirrorParts, EntriesTrue, EntryTrue
  <2>4. JobTrue'
    BY <1>2, <1>6, <1>12 DEF MirrorParts, JobTrue
  <2>5. AllListed'
    BY <1>2, <1>6, <1>12 DEF MirrorParts, AllListed, Listening, Cached
  <2> QED BY <2>1, <2>2, <2>3, <2>4, <2>5
<1>16. Handed'
  <2> SUFFICES ASSUME NEW a \in PlayerName, NEW n \in PlayerName, a # n, owner[n] # Nobody, Claims(a, owner[n])'
               PROVE  BeforeIn(Pending', a, n)
    BY <1>2 DEF Handed
  <2>1. CASE Claims(a, owner[n])
    BY <1>6, <1>9, <2>1 DEF MirrorParts, Handed, SameNews
  <2>2. CASE step = "owner" /\ job.name = a /\ owner[n] = ReplyTo(c)
    <3>1. owner[n] = owner[a]
      BY <1>8, <2>2 DEF ReplyTo, AsksFor, Concerns
    <3> QED BY <1>6, <3>1 DEF OwnersApart
  <2> QED BY <1>2, <1>11, <2>1, <2>2 DEF Claims
<1> QED BY <1>13, <1>14, <1>15, <1>16 DEF MirrorParts

LEMMA SubscribeMirrors ==
  ASSUME AnswersStand, MirrorsBus, Subscribe
  PROVE  MirrorsBus'
<1>1. TypeOk /\ SerialsApart /\ JobOk
  BY DEF AnswersStand
<1>2. /\ UNCHANGED <<owner, playing, rules, line, backlog, cache, todo, job, missed, timeouts>>
      /\ step = "start" /\ Call("match", "owner", "match owner")
  BY DEF Subscribe, busVars
<1>3. step' = "match owner" /\ waits = 0
  BY <1>1, <1>2 DEF Call, JobOk, Asking
<1>4. OwnersApart'
  BY <1>2 DEF MirrorsBus, OwnersApart
<1> SUFFICES ASSUME ~missed PROVE MirrorParts'
  BY <1>2, <1>4 DEF MirrorsBus
<1>5. MirrorParts
  BY DEF MirrorsBus
<1>6. Replies(line) = {} /\ timeouts = 0
  BY <1>3, <1>5, OnlyMine DEF MirrorParts, Listens
<1>7. \A v : ~Answered(v)'
  BY <1>2, <1>6 DEF Answered
<1>8. Pending' = Pending
  BY <1>2 DEF Pending
<1>9. Listens'
  BY <1>2, <1>3, <1>5, <1>7, <1>8 DEF MirrorParts, Listens, Listening, Binding
<1>10. LastWords'
  BY <1>2, <1>5, <1>8 DEF MirrorParts, LastWords
<1>11. cache' = <<>>
  BY <1>2, <1>5 DEF MirrorParts, Listens
<1>12. (EntriesTrue /\ JobTrue /\ AnswerTrue /\ AllListed /\ Handed /\ NamesApart)'
  BY <1>3, <1>11, DeafMirrors
<1> QED BY <1>9, <1>10, <1>12 DEF MirrorParts

\* Nothing the mirror is about moves; replies may come off the socket.
LEMMA SameMirrors ==
  ASSUME MirrorsBus, UNCHANGED <<owner, playing, rules, step, todo, job, waits, cache, timeouts>>,
         ~missed' => ~missed, SameNews, \A v : Answered(v)' => Answered(v), \A i \in DOMAIN Pending' : Pending'[i][1] \in rules \cup {"reply"}
  PROVE  MirrorsBus'
<1>1. OwnersApart'
  BY DEF MirrorsBus, OwnersApart
<1> SUFFICES ASSUME ~missed' PROVE MirrorParts'
  BY <1>1 DEF MirrorsBus
<1>2. MirrorParts
  BY DEF MirrorsBus
<1>3. /\ \A n : Stale(n)' <=> Stale(n)
      /\ \A x : Replays(x)' <=> Replays(x)
  BY DEF SameNews
<1>4. Listens' /\ NamesApart'
  BY <1>2 DEF MirrorParts, Listens, Listening, NamesApart
<1>5. LastWords'
  BY <1>2 DEF MirrorParts, LastWords, SameNews
<1>6. EntriesTrue'
  BY <1>2, <1>3 DEF MirrorParts, EntriesTrue, EntryTrue
<1>7. JobTrue'
  BY <1>2, <1>3 DEF MirrorParts, JobTrue
<1>8. AllListed'
  BY <1>2, <1>3 DEF MirrorParts, AllListed, Listening, Cached
<1>9. AnswerTrue'
  BY <1>2, <1>3 DEF MirrorParts, AnswerTrue
<1>10. Handed'
  BY <1>2 DEF MirrorParts, Handed, Claims, SameNews
<1> QED BY <1>4, <1>5, <1>6, <1>7, <1>8, <1>9, <1>10 DEF MirrorParts

LEMMA ReadAsideMirrors ==
  ASSUME AnswersStand, MirrorsBus, ReadAside
  PROVE  MirrorsBus'
<1>1. TypeOk /\ line \in Seq(Messages)
  BY DEF AnswersStand, TypeOk
<1>2. /\ UNCHANGED <<owner, playing, rules, step, todo, job, waits, cache, timeouts>>
      /\ line # <<>> /\ line' = Tail(line) /\ ~TakesReply(Head(line))
      /\ backlog' = IF Head(line)[1] = "reply" THEN backlog
                    ELSE Append(IF Len(backlog) < MaxPending THEN backlog ELSE Tail(backlog), Head(line))
      /\ missed' = (missed \/ (Head(line)[1] # "reply" /\ Len(backlog) >= MaxPending))
  BY DEF ReadAside, busVars
<1>3. OwnersApart'
  BY <1>2 DEF MirrorsBus, OwnersApart
<1> SUFFICES ASSUME ~missed' PROVE MirrorsBus'
  BY <1>2, <1>3 DEF MirrorsBus
<1>4. ~missed /\ ~(Head(line)[1] # "reply" /\ Len(backlog) >= MaxPending)
  BY <1>2, Zenon
<1>5. MirrorParts /\ timeouts = 0
  BY <1>4 DEF MirrorsBus, MirrorParts, Listens
<1>6. Head(line)[1] # "reply"
  <2> SUFFICES ASSUME Head(line)[1] = "reply" PROVE FALSE
    OBVIOUS
  <2>1. 1 \in Replies(line) /\ Head(line) = line[1]
    BY <1>1, <1>2, RepliesOfTail
  <2>2. line[1][2] = waits
    BY <1>5, <2>1, OnlyMine
  <2> QED BY <1>2, <2>1, <2>2 DEF TakesReply
<1>7. backlog' = Append(backlog, Head(line))
  <2>1. Len(backlog) < MaxPending
    BY <1>1, <1>4, <1>6, PendingIs, BoundsAssumption
  <2> QED BY <1>2, <1>6, <2>1
<1>8. Pending' = Pending /\ SameNews
  BY <1>1, <1>2, <1>7, PendingKeeps, StillTells
<1>9. \A v : Answered(v)' => Answered(v)
  <2>1. \A i \in Replies(line') : i + 1 \in Replies(line) /\ line'[i] = line[i + 1]
    BY <1>1, <1>2, RepliesOfTail
  <2> QED BY <1>2, <2>1 DEF Answered
<1>10. \A i \in DOMAIN Pending' : Pending'[i][1] \in rules \cup {"reply"}
  BY <1>5, <1>8 DEF MirrorParts, Listens
<1> QED BY <1>2, <1>4, <1>8, <1>9, <1>10, SameMirrors

\* What is known of a player is so, its title or a signal of it included.
EntryTold(e) ==
  \/ Stale(e.name)
  \/ /\ e.owner = owner[e.name] /\ e.pid = PidOf[e.owner] /\ e.calls = Declared[e.owner]
     /\ e.title = playing[e.owner] \/ Replays(e.owner)

\* What the worker hears of, and what it may hear, is as it was; the call in
\* hand, if any, has no answer yet.
Onward ==
  /\ UNCHANGED <<owner, playing, rules, timeouts>> /\ SameNews
  /\ \A i \in DOMAIN Pending' : Pending'[i][1] \in rules \cup {"reply"}
  /\ \A v : ~Answered(v)'

LEMMA OnwardTells ==
  ASSUME MirrorParts, Onward
  PROVE  /\ LastWords' /\ AnswerTrue'
         /\ \A n : Stale(n)' <=> Stale(n)
         /\ \A x : Replays(x)' <=> Replays(x)
         /\ \A e : EntryTold(e) => EntryTrue(e)'
<1>1. /\ \A n : Stale(n)' <=> Stale(n)
      /\ \A x : Replays(x)' <=> Replays(x)
  BY DEF Onward, SameNews
<1>2. LastWords'
  BY DEF MirrorParts, LastWords, Onward, SameNews
<1>3. AnswerTrue'
  BY DEF Onward, AnswerTrue
<1>4. ASSUME NEW e, EntryTold(e) PROVE EntryTrue(e)'
  BY <1>1, <1>4 DEF EntryTold, EntryTrue, Onward
<1> QED BY <1>1, <1>2, <1>3, <1>4

LEMMA RestMirrors ==
  ASSUME MirrorParts, Onward, Listening, NEW names \in SUBSET PlayerName, NEW bound, Rest(names, bound), NamesApart',
         \A i \in DOMAIN cache' : EntryTold(cache'[i]),
         \A m, n \in PlayerName :
           m # n /\ owner[n] # Nobody /\ (\E i \in DOMAIN cache' : cache'[i].name = m /\ cache'[i].owner = owner[n])
             => BeforeIn(Pending, m, n),
         \A n \in PlayerName : owner[n] # Nobody => Stale(n) \/ Cached(n)' \/ n \in names
  PROVE  MirrorParts'
<1>1. \/ step' = "follow" /\ todo' = {} /\ names = {}
      \/ \E n \in names : todo' = names \ {n} /\ job'.name = n /\ step' = "owner"
  <2>1. CASE names = {}
    BY <2>1 DEF Rest
  <2>2. CASE names # {}
    <3>1. PICK n \in names : todo' = names \ {n} /\ job' = [NoJob EXCEPT !.name = n, !.bound = bound] /\ Call("owner", n, "owner")
      BY <2>2 DEF Rest
    <3>2. job'.name = n /\ step' = "owner"
      BY <3>1 DEF NoJob, Call
    <3> QED BY <3>1, <3>2
  <2> QED BY <2>1, <2>2
<1>2. step' \in {"follow", "owner"}
  BY <1>1
<1>3. /\ LastWords' /\ AnswerTrue'
      /\ \A n : Stale(n)' <=> Stale(n)
      /\ \A e : EntryTold(e) => EntryTrue(e)'
  BY OnwardTells
<1>4. EntriesTrue'
  <2>1. \A i \in DOMAIN cache' : EntryTrue(cache[i])'
    <3> SUFFICES ASSUME NEW i \in DOMAIN cache' PROVE EntryTrue(cache[i])'
      OBVIOUS
    <3>1. EntryTold(cache'[i])
      OBVIOUS
    <3> QED BY <1>3, <3>1 DEF EntryTold, EntryTrue, Onward, SameNews
  <2> QED BY <2>1 DEF EntriesTrue
<1>5. JobTrue'
  BY <1>2 DEF JobTrue
<1>6. AllListed'
  <2> SUFFICES ASSUME NEW n \in PlayerName, owner[n] # Nobody
               PROVE  Stale(n)' \/ Cached(n)' \/ n \in todo' \/ (step' \in Binding /\ job'.name = n)
    BY DEF AllListed, Onward
  <2> QED BY <1>1, <1>3 DEF Binding
<1>7. Handed'
  <2> SUFFICES ASSUME NEW m \in PlayerName, NEW n \in PlayerName, m # n, owner[n] # Nobody, Claims(m, owner[n])'
               PROVE  BeforeIn(Pending', m, n)
    BY DEF Handed, Onward
  <2>1. \E i \in DOMAIN cache' : cache'[i].name = m /\ cache'[i].owner = owner[n]
    BY <1>2 DEF Claims, Onward
  <2>2. BeforeIn(Pending, m, n)
    BY <2>1
  <2> QED BY <2>2 DEF Onward, SameNews
<1>8. Listens'
  BY <1>1, <1>2 DEF Listens, Listening, MirrorParts, Onward, Binding
<1> QED BY <1>3, <1>4, <1>5, <1>6, <1>7, <1>8 DEF MirrorParts

\* A player in hand is asked the next thing.
LEMMA NextMirrors ==
  ASSUME MirrorParts, Onward, step \in {"owner", "pid", "calls"}, step' \in {"pid", "calls", "title"},
         cache' = cache, todo' = todo, job'.name = job.name, JobTrue', Claims(job.name, job'.owner)
  PROVE  MirrorParts'
<1>1. /\ LastWords' /\ AnswerTrue'
      /\ \A n : Stale(n)' <=> Stale(n)
      /\ \A x : Replays(x)' <=> Replays(x)
  BY OnwardTells
<1>2. NamesApart'
  BY DEF MirrorParts, NamesApart
<1>3. EntriesTrue'
  <2> SUFFICES ASSUME NEW i \in DOMAIN cache PROVE EntryTrue(cache[i])'
    BY DEF EntriesTrue
  <2>1. EntryTrue(cache[i])
    BY DEF MirrorParts, EntriesTrue
  <2> QED BY <1>1, <2>1 DEF EntryTrue, Onward
<1>4. AllListed'
  BY <1>1 DEF MirrorParts, AllListed, Listening, Binding, Cached, Onward
<1>5. Handed'
  <2> SUFFICES ASSUME NEW m \in PlayerName, NEW n \in PlayerName, m # n, owner[n] # Nobody, Claims(m, owner[n])'
               PROVE  BeforeIn(Pending', m, n)
    BY DEF Handed, Onward
  <2>1. Claims(m, owner[n])
    <3>1. CASE \E i \in DOMAIN cache : cache[i].name = m /\ cache[i].owner = owner[n]
      BY <3>1 DEF Claims
    <3>2. CASE job.name = m /\ job'.owner = owner[n]
      BY <3>2
    <3> QED BY <3>1, <3>2 DEF Claims, Onward
  <2> QED BY <2>1 DEF MirrorParts, Handed, Onward, SameNews
<1>6. Listens'
  BY DEF Listens, Listening, MirrorParts, Onward, Binding
<1> QED BY <1>1, <1>2, <1>3, <1>4, <1>5, <1>6 DEF MirrorParts

\* The answer to a call takes what is known on.
LEMMA ProceedMirrors ==
  ASSUME AnswersStand, AnswersStand', OwnersApart, MirrorParts, Onward, step \in Asking,
         NEW value, Right(value), Answered(value), Proceed(value), step = "title" => Takes(job.name)
  PROVE  MirrorParts'
<1>1. TypeOk /\ SerialsApart /\ JobOk /\ job \in JobSet /\ cache \in Seq(OwnSet) /\ todo \subseteq PlayerName
  BY DEF AnswersStand, TypeOk
<1>2. Listens /\ NamesApart /\ EntriesTrue /\ JobTrue /\ AnswerTrue /\ AllListed /\ Handed
  BY DEF MirrorParts
<1>3. step # "refresh" => \A i \in DOMAIN cache : EntryTold(cache[i])
  BY <1>2 DEF EntriesTrue, EntryTrue, EntryTold
<1>4. \A m, n \in PlayerName :
        m # n /\ owner[n] # Nobody /\ (\E i \in DOMAIN cache : cache[i].name = m /\ cache[i].owner = owner[n])
          => BeforeIn(Pending, m, n)
  BY <1>2 DEF Handed, Claims
<1>5. LastWords' /\ AnswerTrue'
  BY OnwardTells
<1>6. CASE step \in {"match owner", "match properties"} /\ value = Nobody
  BY <1>2, <1>6 DEF Listens
<1>7. CASE step = "match owner" /\ value # Nobody
           /\ Call("match", "properties", "match properties")
           /\ UNCHANGED <<todo, job, cache, generation, nudged>>
  <2>1. step' = "match properties" /\ cache' = <<>>
    BY <1>2, <1>7 DEF Call, Listens
  <2>2. (EntriesTrue /\ JobTrue /\ AnswerTrue /\ AllListed /\ Handed /\ NamesApart)'
    BY <2>1, DeafMirrors
  <2>3. Listens'
    BY <1>2, <1>7, <2>1 DEF Listens, Listening, Binding, Onward
  <2> QED BY <1>5, <2>2, <2>3 DEF MirrorParts
<1>8. CASE step = "match properties" /\ value # Nobody
           /\ Call("names", Nobody, "names")
           /\ UNCHANGED <<todo, job, cache, generation, nudged>>
  <2>1. step' = "names" /\ cache' = <<>> /\ todo' = {}
    BY <1>2, <1>8 DEF Call, Listens
  <2>2. \A i \in DOMAIN cache' : FALSE
    BY <2>1, NothingIn
  <2>3. Listens'
    BY <1>2, <1>8, <2>1 DEF Listens, Listening, Binding, Onward
  <2>4. EntriesTrue' /\ JobTrue' /\ AllListed' /\ NamesApart'
    BY <2>1, <2>2 DEF EntriesTrue, JobTrue, AllListed, NamesApart
  <2>5. Handed'
    BY <2>1, <2>2 DEF Handed, Claims
  <2> QED BY <1>5, <2>3, <2>4, <2>5 DEF MirrorParts
<1>9. CASE step = "names" /\ Rest(IF value = Nobody THEN {} ELSE value, FALSE) /\ UNCHANGED <<cache, generation>>
  <2>1. value # Nobody
    BY <1>2, <1>9 DEF Listens
  <2>2. value \in SUBSET PlayerName /\ Rest(value, FALSE)
    BY <1>9, <2>1 DEF Right
  <2>3. Listening /\ NamesApart'
    BY <1>2, <1>9 DEF Listening, NamesApart
  <2>4. \A n \in PlayerName : owner[n] # Nobody => Stale(n) \/ n \in value
    BY <1>2, <1>9 DEF AnswerTrue
  <2> QED BY <1>3, <1>4, <1>9, <2>2, <2>3, <2>4, RestMirrors
<1>10. CASE step = "owner" /\ value = Nobody /\ Rest(todo, job.bound) /\ UNCHANGED <<cache, generation>>
  <2>1. Listening /\ NamesApart'
    BY <1>2, <1>10 DEF Listening, Binding, NamesApart
  <2>2. Stale(job.name) \/ owner[job.name] = Nobody
    BY <1>2, <1>10 DEF AnswerTrue
  <2>3. \A n \in PlayerName : owner[n] # Nobody => Stale(n) \/ Cached(n)' \/ n \in todo
    BY <1>2, <1>10, <2>1, <2>2 DEF AllListed, Cached
  <2> QED BY <1>1, <1>3, <1>4, <1>10, <2>1, <2>3, RestMirrors
<1>11. CASE step = "owner" /\ value # Nobody /\ job' = [job EXCEPT !.owner = value]
            /\ Call("pid", job.name, "pid") /\ UNCHANGED <<todo, cache, generation, nudged>>
  <2>1. step' = "pid" /\ job'.name = job.name /\ job'.owner = value
    BY <1>1, <1>11 DEF Call, JobSet
  <2>2. Stale(job.name) \/ value = owner[job.name]
    BY <1>2, <1>11 DEF AnswerTrue
  <2>3. JobTrue'
    BY <2>1, <2>2, OnwardTells DEF JobTrue, Onward
  <2>4. Claims(job.name, job'.owner)
    BY <1>11, <2>1 DEF Claims
  <2> QED BY <1>11, <2>1, <2>3, <2>4, NextMirrors
<1>12. CASE step = "pid" /\ job' = [job EXCEPT !.pid = value]
            /\ Call("calls", job.owner, "calls") /\ UNCHANGED <<todo, cache, generation, nudged>>
  <2>1. step' = "calls" /\ job'.name = job.name /\ job'.owner = job.owner /\ job'.pid = value
    BY <1>1, <1>12 DEF Call, JobSet
  <2>2. Stale(job.name) \/ (job.owner = owner[job.name] /\ value = PidOf[job.owner])
    BY <1>2, <1>12 DEF AnswerTrue, JobTrue
  <2>3. JobTrue'
    BY <2>1, <2>2, OnwardTells DEF JobTrue, Onward
  <2>4. Claims(job.name, job'.owner)
    BY <1>12, <2>1 DEF Claims
  <2> QED BY <1>12, <2>1, <2>3, <2>4, NextMirrors
<1>13. CASE step = "calls" /\ job' = [job EXCEPT !.calls = IF value = Nobody THEN <<>> ELSE value]
            /\ Call("title", job.owner, "title") /\ UNCHANGED <<todo, cache, generation, nudged>>
  <2>1. step' = "title" /\ job'.name = job.name /\ job'.owner = job.owner /\ job'.pid = job.pid
        /\ job'.calls = IF value = Nobody THEN <<>> ELSE value
    BY <1>1, <1>13 DEF Call, JobSet
  <2>2. Stale(job.name) \/ (job.owner = owner[job.name] /\ job.pid = PidOf[job.owner] /\ value = Declared[job.owner])
    BY <1>2, <1>13 DEF AnswerTrue, JobTrue
  <2>3. Declared[job.owner] # Nobody
    BY <1>1, <1>13, NobodyAssumption DEF JobOk
  <2>4. Stale(job.name) \/ (job'.owner = owner[job.name] /\ job'.pid = PidOf[job'.owner] /\ job'.calls = Declared[job'.owner])
    BY <2>1, <2>2, <2>3
  <2>5. JobTrue'
    BY <2>1, <2>4, OnwardTells DEF JobTrue, Onward
  <2>6. Claims(job.name, job'.owner)
    BY <1>13, <2>1 DEF Claims
  <2> QED BY <1>13, <2>1, <2>5, <2>6, NextMirrors
<1>14. CASE step = "title" /\ Insert(Entry(job.name, job.owner, job.pid, job.calls, value))
            /\ Rest(todo, job.bound \/ Takes(job.name))
  <2> DEFINE e == Entry(job.name, job.owner, job.pid, job.calls, value)
  <2>1. /\ job.name \in PlayerName /\ job.owner \in Conn /\ job.pid \in PidSet /\ job.calls \in IdentitySet
        /\ job.calls \in {Declared[job.owner], <<>>} /\ value \in TitlesOf[job.owner] \cup {Nobody}
    BY <1>1, <1>14 DEF JobOk, Right, JobSet
  <2>2. value \in TitleSet
    BY <2>1 DEF TitleSet
  <2>3. e \in OwnSet
    BY <2>1, <2>2 DEF Entry, OwnSet, PlayerSet
  <2>4. /\ e.name = job.name /\ e.owner = job.owner /\ e.pid = job.pid /\ e.calls = job.calls /\ e.title = value
        /\ Insert(e)
    BY <1>14 DEF Entry
  <2> HIDE DEF e
  <2>5. /\ NamesApart'
        /\ \A i \in DOMAIN cache' : cache'[i] = e \/ \E k \in DOMAIN cache : cache'[i] = cache[k] /\ cache[k].name # e.name
        /\ \A n : Cached(n) \/ n = e.name => Cached(n)'
    BY <1>1, <1>2, <1>14, <2>3, <2>4, InsertTells
  <2>6. EntryTold(e)
    <3>1. Stale(job.name) \/ (job.owner = owner[job.name] /\ job.pid = PidOf[job.owner] /\ job.calls = Declared[job.owner])
      BY <1>2, <1>14 DEF JobTrue
    <3>2. Stale(job.name) \/ value = playing[job.owner] \/ Replays(job.owner)
      BY <1>2, <1>14 DEF AnswerTrue
    <3> QED BY <2>4, <3>1, <3>2 DEF EntryTold
  <2>7. \A i \in DOMAIN cache' : EntryTold(cache'[i])
    <3> SUFFICES ASSUME NEW i \in DOMAIN cache' PROVE EntryTold(cache'[i])
      OBVIOUS
    <3>1. CASE cache'[i] = e
      BY <2>6, <3>1
    <3>2. CASE \E k \in DOMAIN cache : cache'[i] = cache[k]
      BY <1>3, <1>14, <3>2
    <3> QED BY <2>5, <3>1, <3>2
  <2>8. \A m, n \in PlayerName :
          m # n /\ owner[n] # Nobody /\ (\E i \in DOMAIN cache' : cache'[i].name = m /\ cache'[i].owner = owner[n])
            => BeforeIn(Pending, m, n)
    <3> SUFFICES ASSUME NEW m \in PlayerName, NEW n \in PlayerName, m # n, owner[n] # Nobody,
                        NEW i \in DOMAIN cache', cache'[i].name = m, cache'[i].owner = owner[n]
                 PROVE  BeforeIn(Pending, m, n)
      OBVIOUS
    <3>1. CASE cache'[i] = e
      <4>1. Claims(m, owner[n])
        BY <1>14, <2>4, <3>1 DEF Claims
      <4> QED BY <1>2, <4>1 DEF Handed
    <3>2. CASE \E k \in DOMAIN cache : cache'[i] = cache[k]
      BY <1>4, <3>2
    <3> QED BY <2>5, <3>1, <3>2
  <2>9. Listening
    BY <1>14 DEF Listening, Binding
  <2>10. \A n \in PlayerName : owner[n] # Nobody => Stale(n) \/ Cached(n)' \/ n \in todo
    BY <1>2, <1>14, <2>4, <2>5, <2>9 DEF AllListed
  <2> QED BY <1>1, <1>14, <2>5, <2>7, <2>8, <2>9, <2>10, RestMirrors
<1>15. CASE /\ step = "refresh"
            /\ LET there == \E i \in DOMAIN cache : cache[i].owner = job.owner
                   at    == IndexOf(cache, LAMBDA e : e.owner = job.owner)
               IN /\ cache' = IF there THEN [cache EXCEPT ![at].title = value] ELSE cache
                  /\ Rest({}, there /\ cache[at].title # value)
            /\ generation' = Bumped
  <2> DEFINE there == \E i \in DOMAIN cache : cache[i].owner = job.owner
             at    == IndexOf(cache, LAMBDA e : e.owner = job.owner)
             more  == there /\ cache[at].title # value
  <2>1. /\ Rest({}, more)
        /\ cache' = IF there THEN [cache EXCEPT ![at].title = value] ELSE cache
    BY <1>15
  <2>2. there => at \in DOMAIN cache /\ cache[at].owner = job.owner
    BY <1>1, FirstOwner DEF IndexOf
  <2> HIDE DEF at, more
  <2>3. /\ DOMAIN cache' = DOMAIN cache
        /\ \A i \in DOMAIN cache :
             /\ cache'[i].name = cache[i].name /\ cache'[i].owner = cache[i].owner
             /\ cache'[i].pid = cache[i].pid /\ cache'[i].calls = cache[i].calls
             /\ cache'[i].title = IF there /\ i = at THEN value ELSE cache[i].title
    <3>1. \A i \in DOMAIN cache : cache[i] \in PlayerSet
      BY <1>1 DEF OwnSet
    <3>2. CASE ~there
      BY <2>1, <3>2
    <3>3. CASE there
      <4>1. cache' = [cache EXCEPT ![at] = [cache[at] EXCEPT !.title = value]]
        BY <2>1, <3>3
      <4>2. DOMAIN cache' = DOMAIN cache
            /\ \A i \in DOMAIN cache : cache'[i] = IF i = at THEN [cache[at] EXCEPT !.title = value] ELSE cache[i]
        BY <4>1
      <4>3. cache[at] \in PlayerSet
        BY <2>2, <3>1, <3>3
      <4> HIDE DEF there
      <4> QED BY <3>3, <4>2, <4>3 DEF PlayerSet
    <3> QED BY <3>2, <3>3
  <2>4. NamesApart'
    BY <1>2, <2>3 DEF NamesApart
  <2>5. \A i \in DOMAIN cache' : EntryTold(cache'[i])
    <3> SUFFICES ASSUME NEW i \in DOMAIN cache, ~Stale(cache[i].name) PROVE EntryTold(cache'[i])
      BY <2>3 DEF EntryTold
    <3> DEFINE c == cache[i].owner
    <3>1. /\ cache[i].owner = owner[cache[i].name] /\ cache[i].pid = PidOf[c] /\ cache[i].calls = Declared[c]
          /\ cache[i].title = playing[c] \/ Replays(c) \/ job.owner = c
      BY <1>2 DEF EntriesTrue, EntryTrue
    <3>2. cache[i].name \in PlayerName /\ c \in Conn /\ c # Nobody
      <4>1. cache[i] \in PlayerSet
        BY <1>1 DEF OwnSet
      <4> QED BY <4>1, NobodyAssumption DEF PlayerSet
    <3>3. CASE job.owner # c
      <4>1. cache'[i].title = cache[i].title
        BY <2>2, <2>3, <3>3
      <4> QED BY <2>3, <3>1, <3>3, <4>1 DEF EntryTold
    <3>4. CASE job.owner = c
      \* No other player is taken for the owner's.
      <4>1. there /\ at \in DOMAIN cache /\ cache[at].owner = c
        BY <2>2, <3>4
      <4>2. cache[at].name \in PlayerName
        <5>1. cache[at] \in PlayerSet
          BY <1>1, <4>1 DEF OwnSet
        <5> QED BY <5>1 DEF PlayerSet
      <4>3. cache[at].name = cache[i].name
        <5> SUFFICES ASSUME cache[at].name # cache[i].name PROVE FALSE
          OBVIOUS
        <5>1. BeforeIn(Pending, cache[at].name, cache[i].name)
          BY <1>4, <3>1, <3>2, <4>1, <4>2
        <5>2. Stale(cache[i].name)
          BY <5>1 DEF BeforeIn, Stale, StaleIn
        <5> QED BY <5>2
      <4>4. at = i
        BY <1>2, <4>1, <4>3 DEF NamesApart
      <4>5. cache'[i].title = value
        BY <2>3, <4>1, <4>4
      <4>6. value = playing[c] \/ Replays(c)
        BY <1>2, <1>15, <3>1, <3>2, <3>4 DEF AnswerTrue
      <4> QED BY <2>3, <3>1, <4>5, <4>6 DEF EntryTold
    <3> QED BY <3>3, <3>4
  <2>6. \A m, n \in PlayerName :
          m # n /\ owner[n] # Nobody /\ (\E i \in DOMAIN cache' : cache'[i].name = m /\ cache'[i].owner = owner[n])
            => BeforeIn(Pending, m, n)
    BY <1>4, <2>3
  <2>7. Listening
    BY <1>15 DEF Listening
  <2>8. \A n \in PlayerName : owner[n] # Nobody => Stale(n) \/ Cached(n)'
    BY <1>2, <1>15, <2>3, <2>7 DEF AllListed, Cached, Listens, Binding
  <2>9. {} \in SUBSET PlayerName
    OBVIOUS
  <2> QED BY <2>1, <2>4, <2>5, <2>6, <2>7, <2>8, <2>9, RestMirrors
<1> QED BY <1>6, <1>7, <1>8, <1>9, <1>10, <1>11, <1>12, <1>13, <1>14, <1>15 DEF Proceed

LEMMA ReadReplyMirrors ==
  ASSUME AnswersStand, AnswersStand', MirrorsBus, ReadReply
  PROVE  MirrorsBus'
<1>1. TypeOk /\ SerialsApart /\ ReplyFits /\ JobOk /\ job \in JobSet /\ line \in Seq(Messages)
  BY DEF AnswersStand, TypeOk
<1>2. /\ UNCHANGED <<owner, playing, rules, backlog, timeouts>> /\ waits # 0
      /\ line # <<>> /\ Head(line)[1] = "reply" /\ Head(line)[2] = waits /\ line' = Tail(line)
      /\ Proceed(Head(line)[3])
      /\ missed' = (missed \/ (step = "title" /\ ~Takes(job.name)))
  BY DEF ReadReply, TakesReply, busVars
<1>3. OwnersApart'
  BY <1>2 DEF MirrorsBus, OwnersApart
<1> SUFFICES ASSUME ~missed' PROVE MirrorParts'
  BY <1>3 DEF MirrorsBus
<1>4. ~missed /\ ~(step = "title" /\ ~Takes(job.name))
  BY <1>2, Zenon
<1>5. MirrorParts /\ OwnersApart
  BY <1>4 DEF MirrorsBus
<1>6. 1 \in Replies(line) /\ Head(line) = line[1]
  BY <1>1, <1>2, RepliesOfTail
<1>7. Right(Head(line)[3]) /\ Answered(Head(line)[3])
  BY <1>1, <1>2, <1>6 DEF ReplyFits, Answered
<1>8. step \in Asking
  BY <1>1, <1>2 DEF JobOk
<1>9. SameNews
  BY <1>1, <1>2, DroppedReply
<1>10. \A v : ~Answered(v)'
  <2>1. \A i, j \in Replies(line) : i = j
    BY <1>5, OnlyMine DEF MirrorParts, Listens
  <2>2. \A i \in Replies(line') : i + 1 \in Replies(line) /\ i + 1 # 1
    BY <1>1, <1>2, RepliesOfTail
  <2>3. Replies(line') = {}
    BY <1>6, <2>1, <2>2
  <2> QED BY <2>3 DEF Answered
<1>11. \A i \in DOMAIN Pending' : Pending'[i][1] \in rules \cup {"reply"}
  <2> DEFINE k == Len(backlog) + 1
  <2>1. /\ Pending \in Seq(Messages) /\ k \in DOMAIN Pending
        /\ Pending' \in Seq(Messages) /\ Len(Pending') = Len(Pending) - 1
        /\ \A i \in 1 .. Len(Pending) - 1 : Pending'[i] = IF i < k THEN Pending[i] ELSE Pending[i + 1]
    BY <1>1, <1>2, PendingIs, PendingDrops
  <2> HIDE DEF k
  <2>2. \A i \in DOMAIN Pending' : i \in 1 .. Len(Pending) - 1 /\ i \in DOMAIN Pending /\ i + 1 \in DOMAIN Pending
    BY <2>1
  <2> QED BY <1>5, <2>1, <2>2 DEF MirrorParts, Listens
<1>12. Onward
  BY <1>2, <1>9, <1>10, <1>11 DEF Onward
<1> QED BY <1>2, <1>4, <1>5, <1>7, <1>8, <1>12, ProceedMirrors

\* A signal is taken in, and what is known with it.
LEMMA SignalMirrors ==
  ASSUME AnswersStand, MirrorsBus, step = "follow", NEW m \in Signals, OnSignal(m),
         UNCHANGED <<owner, playing, rules, missed, timeouts>>, \A v : ~Answered(v)',
         1 \in DOMAIN Pending, Pending[1] = m, Pending' \in Seq(Messages), Len(Pending') = Len(Pending) - 1,
         \A i \in 1 .. Len(Pending) - 1 : Pending'[i] = IF i < 1 THEN Pending[i] ELSE Pending[i + 1]
  PROVE  MirrorsBus'
<1>1. TypeOk /\ cache \in Seq(OwnSet) /\ Pending \in Seq(Messages)
  BY PendingIs DEF AnswersStand, TypeOk
<1>2. OwnersApart'
  BY DEF MirrorsBus, OwnersApart
<1> SUFFICES ASSUME ~missed PROVE MirrorParts'
  BY <1>2 DEF MirrorsBus
<1>3. MirrorParts
  BY DEF MirrorsBus
<1>4. Listening /\ todo = {}
  BY <1>3 DEF MirrorParts, Listens, Listening
<1>5. \A i \in DOMAIN Pending' : Pending'[i][1] \in rules \cup {"reply"}
  <2>1. \A i \in DOMAIN Pending' : i \in 1 .. Len(Pending) - 1 /\ ~(i < 1) /\ i + 1 \in DOMAIN Pending
    BY <1>1
  <2>2. \A i \in DOMAIN Pending' : Pending'[i] = Pending[i + 1]
    BY <2>1
  <2> QED BY <1>3, <2>1, <2>2 DEF MirrorParts, Listens
<1>6. /\ \A n : StaleIn(Pending', n) => StaleIn(Pending, n)
      /\ \A n : StaleIn(Pending, n) /\ ~About(Pending[1], n) => StaleIn(Pending', n)
      /\ \A c : PlaysIn(Pending', c) => PlaysIn(Pending, c)
      /\ \A c : PlaysIn(Pending, c) /\ ~Plays(Pending[1], c) => PlaysIn(Pending', c)
      /\ \A a, b : BeforeIn(Pending, a, b) /\ ~About(Pending[1], a) => BeforeIn(Pending', a, b)
      /\ \A n, w : LastSays(Pending, n, w) => LastSays(Pending', n, w)
      /\ \A n, w : LastSays(Pending, n, w) /\ About(Pending[1], n) /\ ~StaleIn(Pending', n) => Pending[1][4] = w
  BY <1>1, DropTells
<1>7. /\ \A n : Stale(n) /\ ~About(m, n) => Stale(n)'
      /\ \A c : Replays(c) /\ ~Plays(m, c) => Replays(c)'
      /\ \A a, b : BeforeIn(Pending, a, b) /\ ~About(m, a) => BeforeIn(Pending', a, b)
      /\ \A n, w : LastSays(Pending, n, w) /\ About(m, n) /\ ~Stale(n)' => m[4] = w
  BY <1>6 DEF Stale, Replays
<1>8. LastWords'
  BY <1>3, <1>6 DEF MirrorParts, LastWords
<1>9. AnswerTrue'
  BY DEF AnswerTrue
<1>10. \A n \in PlayerName : owner[n] # Nobody => Stale(n) \/ Cached(n)
  BY <1>3, <1>4 DEF MirrorParts, AllListed, Binding
<1>11. \A i \in DOMAIN cache :
         LET e == cache[i] IN Stale(e.name) \/ (/\ e.owner = owner[e.name] /\ e.pid = PidOf[e.owner]
                                                /\ e.calls = Declared[e.owner]
                                                /\ e.title = playing[e.owner] \/ Replays(e.owner))
  BY <1>3 DEF MirrorParts, EntriesTrue, EntryTrue
<1>12. CASE m[1] = "owner"
  <2> DEFINE name == m[2]
  <2>1. name \in PlayerName /\ (\A n : About(m, n) <=> n = name) /\ (\A c : ~Plays(m, c))
    BY <1>12 DEF Signals, OwnerSignals, PropertiesSignals, About, Plays
  <2>2. OnOwner(name, m[3], m[4])
    BY <1>12 DEF OnSignal
  <2>3. Detach(name) /\ todo' = todo
    BY <2>2 DEF OnOwner
  <2>4. /\ NamesApart'
        /\ \A i \in DOMAIN cache' : \E k \in DOMAIN cache : cache'[i] = cache[k] /\ cache[k].name # name
        /\ \A n : Cached(n) /\ n # name => Cached(n)'
    BY <1>1, <1>3, <2>3, DetachTells DEF MirrorParts
  <2>5. \/ step' = "owner" /\ job'.name = name
        \/ step' = "follow" /\ m[4] = Nobody
    <3>1. CASE job' = [NoJob EXCEPT !.name = name] /\ Call("owner", name, "owner")
      BY <3>1 DEF NoJob, Call
    <3>2. CASE m[4] = Nobody /\ step' = step
      BY <3>2
    <3> QED BY <2>2, <3>1, <3>2 DEF OnOwner
  <2> HIDE DEF name
  <2>6. EntriesTrue'
    <3> SUFFICES ASSUME NEW i \in DOMAIN cache' PROVE EntryTrue(cache[i])'
      BY DEF EntriesTrue
    <3>1. PICK k \in DOMAIN cache : cache'[i] = cache[k] /\ cache[k].name # name
      BY <2>4
    <3> DEFINE e == cache[k]
    <3>2. Stale(e.name) \/ (/\ e.owner = owner[e.name] /\ e.pid = PidOf[e.owner] /\ e.calls = Declared[e.owner]
                            /\ e.title = playing[e.owner] \/ Replays(e.owner))
      BY <1>11
    <3> QED BY <1>7, <2>1, <3>1, <3>2 DEF EntryTrue
  <2>7. JobTrue'
    BY <2>5 DEF JobTrue
  <2>8. AllListed'
    <3> SUFFICES ASSUME NEW n \in PlayerName, owner[n] # Nobody
                 PROVE  Stale(n)' \/ Cached(n)' \/ (step' \in Binding /\ job'.name = n)
      BY DEF AllListed
    <3>1. CASE n # name
      BY <1>7, <1>10, <2>1, <2>4, <3>1
    <3>2. CASE n = name
      <4>1. LastSays(Pending, n, owner[n])
        BY <1>3 DEF MirrorParts, LastWords
      <4> QED BY <1>7, <2>1, <2>5, <3>2, <4>1 DEF Binding
    <3> QED BY <3>1, <3>2
  <2>9. Handed'
    <3> SUFFICES ASSUME NEW a \in PlayerName, NEW b \in PlayerName, a # b, owner[b] # Nobody, Claims(a, owner[b])'
                 PROVE  BeforeIn(Pending', a, b)
      BY DEF Handed
    <3>1. PICK i \in DOMAIN cache' : cache'[i].name = a /\ cache'[i].owner = owner[b]
      BY <2>5 DEF Claims
    <3>2. PICK k \in DOMAIN cache : cache'[i] = cache[k] /\ cache[k].name # name
      BY <2>4
    <3>3. Claims(a, owner[b]) /\ a # name
      BY <3>1, <3>2 DEF Claims
    <3>4. BeforeIn(Pending, a, b)
      BY <1>3, <3>3 DEF MirrorParts, Handed
    <3> QED BY <1>7, <2>1, <3>3, <3>4
  <2>10. Listens'
    BY <1>3, <1>4, <1>5, <2>3, <2>5 DEF MirrorParts, Listens, Listening, Binding
  <2> QED BY <1>8, <1>9, <2>4, <2>6, <2>7, <2>8, <2>9, <2>10 DEF MirrorParts
<1>13. CASE m[1] = "properties"
  <2> DEFINE who == m[2]
  <2>1. (\A n : ~About(m, n)) /\ (\A c : Plays(m, c) <=> c = who)
    BY <1>13 DEF About, Plays
  <2>2. OnProperties(who)
    BY <1>13 DEF OnSignal
  <2>3. todo' = todo /\ cache' = cache
    BY <2>2 DEF OnProperties
  <2>4. \/ step' = "refresh" /\ job'.owner = who
        \/ step' = "follow" /\ \A i \in DOMAIN cache : cache[i].owner # who
    <3>1. CASE job' = [NoJob EXCEPT !.owner = who] /\ Call("title", who, "refresh")
      BY <3>1 DEF NoJob, Call
    <3>2. CASE step' = step /\ \A i \in DOMAIN cache : cache[i].owner # who
      BY <3>2
    <3> QED BY <2>2, <3>1, <3>2 DEF OnProperties
  <2> HIDE DEF who
  <2>5. EntriesTrue'
    <3> SUFFICES ASSUME NEW i \in DOMAIN cache PROVE EntryTrue(cache[i])'
      BY <2>3 DEF EntriesTrue
    <3> DEFINE e == cache[i]
    <3>1. Stale(e.name) \/ (/\ e.owner = owner[e.name] /\ e.pid = PidOf[e.owner] /\ e.calls = Declared[e.owner]
                            /\ e.title = playing[e.owner] \/ Replays(e.owner))
      BY <1>11
    <3> QED BY <1>7, <2>1, <2>3, <2>4, <3>1 DEF EntryTrue
  <2>6. JobTrue' /\ NamesApart'
    BY <1>3, <2>3, <2>4 DEF JobTrue, NamesApart, MirrorParts
  <2>7. AllListed'
    BY <1>7, <1>10, <2>1, <2>3 DEF AllListed, Cached
  <2>8. Handed'
    <3> SUFFICES ASSUME NEW a \in PlayerName, NEW b \in PlayerName, a # b, owner[b] # Nobody, Claims(a, owner[b])'
                 PROVE  BeforeIn(Pending', a, b)
      BY DEF Handed
    <3>1. Claims(a, owner[b])
      BY <2>3, <2>4 DEF Claims
    <3>2. BeforeIn(Pending, a, b)
      BY <1>3, <3>1 DEF MirrorParts, Handed
    <3> QED BY <1>7, <2>1, <3>2
  <2>9. Listens'
    BY <1>3, <1>4, <1>5, <2>3, <2>4 DEF MirrorParts, Listens, Listening, Binding
  <2> QED BY <1>8, <1>9, <2>5, <2>6, <2>7, <2>8, <2>9 DEF MirrorParts
<1> QED BY <1>12, <1>13, MessagesAre DEF Messages

LEMMA FollowMirrors ==
  ASSUME AnswersStand, MirrorsBus, Follow
  PROVE  MirrorsBus'
<1>1. TypeOk /\ JobOk /\ line \in Seq(Messages) /\ backlog \in Seq(Signals)
  BY DEF AnswersStand, TypeOk
<1>2. step = "follow" /\ UNCHANGED <<owner, playing, rules, missed, timeouts>>
  BY DEF Follow, busVars
<1>3. waits = 0
  BY <1>1, <1>2 DEF JobOk, Asking
<1>4. OwnersApart'
  BY <1>2 DEF MirrorsBus, OwnersApart
<1> SUFFICES ASSUME ~missed PROVE MirrorsBus'
  BY <1>2, <1>4 DEF MirrorsBus
<1>5. Replies(line) = {}
  BY <1>3, OnlyMine DEF MirrorsBus, MirrorParts, Listens
<1>6. CASE backlog # <<>> /\ backlog' = Tail(backlog) /\ OnSignal(Head(backlog)) /\ UNCHANGED line
  <2>1. Head(backlog) \in Signals
    BY <1>1, <1>6, TailIs
  <2>2. \A v : ~Answered(v)'
    BY <1>5, <1>6 DEF Answered
  <2>3. /\ 1 \in DOMAIN Pending /\ Pending[1] = Head(backlog)
        /\ Pending' \in Seq(Messages) /\ Len(Pending') = Len(Pending) - 1
        /\ \A i \in 1 .. Len(Pending) - 1 : Pending'[i] = IF i < 1 THEN Pending[i] ELSE Pending[i + 1]
    BY <1>1, <1>6, PendingTails
  <2> QED BY <1>2, <1>6, <2>1, <2>2, <2>3, SignalMirrors
<1>7. CASE backlog = <<>> /\ line # <<>> /\ line' = Tail(line) /\ OnSignal(Head(line)) /\ UNCHANGED backlog
  <2>1. Head(line) \in Signals
    <3>1. Head(line) \in Messages /\ Head(line) = line[1] /\ 1 \in DOMAIN line
      BY <1>1, <1>7, TailIs
    <3>2. Head(line)[1] # "reply"
      BY <1>5, <3>1 DEF Replies
    <3> QED BY <3>1, <3>2, MessagesAre
  <2>2. \A v : ~Answered(v)'
    <3>1. \A i \in Replies(line') : i + 1 \in Replies(line)
      BY <1>1, <1>7, RepliesOfTail
    <3> QED BY <1>5, <3>1 DEF Answered
  <2>3. /\ 1 \in DOMAIN Pending /\ Pending[1] = Head(line)
        /\ Pending' \in Seq(Messages) /\ Len(Pending') = Len(Pending) - 1
        /\ \A i \in 1 .. Len(Pending) - 1 : Pending'[i] = IF i < 1 THEN Pending[i] ELSE Pending[i + 1]
    <3>1. Len(backlog) + 1 = 1
      BY <1>7
    <3> QED BY <1>1, <1>7, <3>1, PendingDrops
  <2> QED BY <1>2, <1>7, <2>1, <2>2, <2>3, SignalMirrors
<1> QED BY <1>6, <1>7 DEF Follow

\* The main thread only looks.
LEMMA LookingMirrors ==
  ASSUME MirrorsBus, UNCHANGED <<owner, playing, rules, line, step, todo, job, backlog, waits, cache, missed, timeouts>>
  PROVE  MirrorsBus'
<1>1. OwnersApart'
  BY DEF MirrorsBus, OwnersApart
<1> SUFFICES ASSUME ~missed PROVE MirrorsBus'
  BY <1>1 DEF MirrorsBus
<1>2. Pending' = Pending
  BY DEF Pending
<1>3. SameNews /\ \A v : Answered(v)' => Answered(v)
  BY <1>2, StillTells DEF Answered
<1>4. \A i \in DOMAIN Pending' : Pending'[i][1] \in rules \cup {"reply"}
  BY <1>2 DEF MirrorsBus, MirrorParts, Listens
<1> QED BY <1>3, <1>4, SameMirrors

\* At first nobody is on the bus, and nothing is known.
LEMMA StartMirrors ==
  ASSUME MprisInit
  PROVE  MirrorsBus
<1>1. /\ owner = [n \in PlayerName |-> Nobody] /\ rules = {} /\ line = <<>> /\ step = "start" /\ todo = {}
      /\ backlog = <<>> /\ waits = 0 /\ cache = <<>> /\ timeouts = 0
  BY DEF MprisInit
<1>2. (\A i \in DOMAIN cache : FALSE) /\ (\A i \in DOMAIN line : FALSE) /\ \A i \in DOMAIN Pending : FALSE
  BY <1>1, NothingIn DEF Pending
<1>3. \A v : ~Answered(v)
  BY <1>2 DEF Answered, Replies
<1>4. OwnersApart /\ NamesApart /\ LastWords
  BY <1>1, <1>2 DEF OwnersApart, NamesApart, LastWords, LastSays
<1>5. Listens
  BY <1>1, <1>2, <1>3 DEF Listens, Listening, Binding
<1>6. EntriesTrue /\ JobTrue /\ AnswerTrue /\ AllListed
  BY <1>1, <1>2, <1>3 DEF EntriesTrue, JobTrue, AnswerTrue, AllListed, Listening, Binding
<1>7. Handed
  BY <1>1 DEF Handed
<1> QED BY <1>4, <1>5, <1>6, <1>7 DEF MirrorsBus, MirrorParts

\* The mirror in every behaviour.
LEMMA MirrorHolds == ASSUME ~ManyNames PROVE MprisSpec => []MirrorsBus
<1>1. MprisInit => MirrorsBus
  BY StartMirrors
<1>2. AnswersStand /\ AnswersStand' /\ MirrorsBus /\ [MprisNext]_mprisVars => MirrorsBus'
  <2> SUFFICES ASSUME AnswersStand, AnswersStand', MirrorsBus, [MprisNext]_mprisVars PROVE MirrorsBus'
    OBVIOUS
  <2>1. ASSUME NEW n \in PlayerName, NEW c \in Conn \cup {Nobody}, Own(n, c) PROVE MirrorsBus'
    BY <2>1, OwnMirrors
  <2>2. ASSUME NEW c \in Conn, NEW t \in TitlesOf[c], Play(c, t) PROVE MirrorsBus'
    BY <2>2, PlayMirrors
  <2>3. ASSUME NEW c \in open, Reply(c) PROVE MirrorsBus'
    BY <2>3, ReplyMirrors
  <2>4. CASE Subscribe
    BY <2>4, SubscribeMirrors
  <2>5. CASE ReadReply
    BY <2>5, ReadReplyMirrors
  <2>6. CASE ReadAside
    BY <2>6, ReadAsideMirrors
  <2>7. CASE Timeout
    BY <2>7 DEF Timeout, busVars, MirrorsBus, OwnersApart
  <2>8. CASE Follow
    BY <2>8, FollowMirrors
  <2>9. ASSUME NEW idents, Project(idents) PROVE MirrorsBus'
    BY <2>9, LookingMirrors DEF Project, workerVars
  <2>10. CASE UNCHANGED mprisVars
    BY <2>10, LookingMirrors DEF mprisVars, busVars, workerVars
  <2> QED BY <2>1, <2>2, <2>3, <2>4, <2>5, <2>6, <2>7, <2>8, <2>9, <2>10 DEF MprisNext, Refresh, Identify
<1> QED BY <1>1, <1>2, AnswersHold, PTL DEF MprisSpec

\* When everything sent has been read and nothing was given up, dropped or
\* left out for want of room, the cache has the players of the bus, each once,
\* with what it plays: though names changed hands and titles changed while the
\* players were listed and bound (mpris.rs, prime, attach,
\* on_name_owner_changed and on_properties_changed). A connection with two
\* names is out: a refresh reaches only the first (by_owner_mut).
THEOREM SettledHold == ASSUME ~ManyNames PROVE MprisSpec => []SettledMirrors
<1>1. AnswersStand /\ MirrorsBus => SettledMirrors
  <2> SUFFICES ASSUME AnswersStand, MirrorsBus, Quiet, ~missed
               PROVE  /\ \A n \in PlayerName : owner[n] # Nobody => Cached(n)
                      /\ \A i, j \in DOMAIN cache : cache[i].name = cache[j].name => i = j
                      /\ \A i \in DOMAIN cache :
                           LET conn == owner[cache[i].name]
                           IN conn # Nobody /\ cache[i] = Entry(cache[i].name, conn, PidOf[conn], Declared[conn], playing[conn])
    BY DEF SettledMirrors
  <2>1. MirrorParts /\ cache \in Seq(OwnSet) /\ step = "follow"
    BY DEF MirrorsBus, Quiet, AnswersStand, TypeOk
  <2>2. (\A n : ~Stale(n)) /\ (\A c : ~Replays(c))
    <3>1. Pending = <<>>
      BY DEF Quiet, Pending
    <3> QED BY <3>1, NothingIn DEF Stale, StaleIn, Replays, PlaysIn
  <2>3. \A n \in PlayerName : owner[n] # Nobody => Cached(n)
    BY <2>1, <2>2 DEF MirrorParts, AllListed, Listens, Listening, Binding
  <2>4. \A i, j \in DOMAIN cache : cache[i].name = cache[j].name => i = j
    BY <2>1 DEF MirrorParts, NamesApart
  <2>5. ASSUME NEW i \in DOMAIN cache
        PROVE  LET conn == owner[cache[i].name]
               IN conn # Nobody /\ cache[i] = Entry(cache[i].name, conn, PidOf[conn], Declared[conn], playing[conn])
    <3> DEFINE e == cache[i]
    <3>1. e \in PlayerSet
      BY <2>1 DEF OwnSet
    <3>2. e.owner = owner[e.name] /\ e.pid = PidOf[e.owner] /\ e.calls = Declared[e.owner] /\ e.title = playing[e.owner]
      BY <2>1, <2>2 DEF MirrorParts, EntriesTrue, EntryTrue
    <3>3. e.owner \in Conn /\ e.owner # Nobody
      BY <3>1, NobodyAssumption DEF PlayerSet
    <3>4. e = [name |-> e.name, owner |-> e.owner, pid |-> e.pid, calls |-> e.calls, title |-> e.title]
      BY <3>1 DEF PlayerSet
    <3> QED BY <3>2, <3>3, <3>4 DEF Entry
  <2> QED BY <2>3, <2>4, <2>5
<1> QED BY <1>1, AnswersHold, MirrorHolds, PTL

=============================================================================
