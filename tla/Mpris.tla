-------------------------------- MODULE Mpris --------------------------------
(***************************************************************************)
(* Titles from media players: the worker thread of mpris.rs, the calls and *)
(* signals of dbus/connection.rs under it, and the title lookups of the    *)
(* main thread over the cache they share.                                  *)
(*                                                                         *)
(* The bus and the players are external: names change hands, players play  *)
(* and exit at any time. Everything for the worker comes over one socket,  *)
(* in the order the bus sent it: signals as things happen, replies as the  *)
(* bus and the players get round to them. A call may give up waiting; its  *)
(* reply comes all the same.                                               *)
(***************************************************************************)
EXTENDS Integers, FiniteSets, SequencesExt

CONSTANTS
  PlayerName,   \* the well-known names, each a sequence of its dotted parts
  Conn,         \* connections that players have to the bus
  TitlesOf,     \* connection -> what it may be playing
  Audio,        \* audio streams
  Ancestors,    \* stream -> the processes to try, its own first
  StreamIdent,  \* what a stream may say it is: a sequence of parts
  PidOf,        \* connection -> its process
  Declared,     \* connection -> what the player calls itself, of parts
  MaxPending,   \* signals kept while a call waits
  MaxPlayers,   \* players tracked
  ManyNames,    \* whether one connection may hold two names
  MaxEvents,    \* bound: what happens on the bus and to the streams
  MaxTimeouts,  \* bound: calls given up
  Nobody

ASSUME BoundsAssumption ==
  /\ MaxPending \in Nat \ {0} /\ MaxPlayers \in Nat \ {0}
  /\ MaxTimeouts \in Nat /\ IsFiniteSet(Audio)

\* Nobody is no connection, and is not what a call may return.
ASSUME NobodyAssumption ==
  /\ Nobody \notin Conn \cup {"owner", "properties"}
  /\ \A names \in SUBSET PlayerName : Nobody # names
  /\ \A conn \in Conn : Nobody # Declared[conn]

VARIABLES
  owner, playing, events,       \* the bus: who holds a name, what a connection plays
  rules, line, open,            \* the kinds of signal asked for, what the worker can read, and
                                \* the calls not answered yet
  step, todo, job,              \* the worker: where it is, names to attach, the player in hand
  backlog, waits,               \* signals kept for later, the serial waited for
  cache, generation,            \* the players, under the lock
  nudged,                       \* a MprisChanged is on its way
  ident, resolved, shown,       \* the main thread: streams, titles remembered, titles on screen
  missed,                       \* a call was given up, a signal dropped or the cache full
  timeouts

busVars    == <<owner, playing, events>>
workerVars == <<step, todo, job, backlog, waits>>
mainVars   == <<ident, resolved, shown>>
mprisVars  == <<busVars, rules, line, open, workerVars, cache, generation, nudged, mainVars, missed, timeouts>>

-----------------------------------------------------------------------------
(* The bus.                                                                *)

Signal(kind, of, old, new) == <<kind, of, old, new>>

Sent(message) == line' = IF message[1] \in rules THEN Append(line, message) ELSE line

\* A name goes to a connection, or to nobody.
Own(name, to) ==
  /\ events < MaxEvents /\ owner[name] # to
  /\ ManyNames \/ to = Nobody \/ \A n \in PlayerName : owner[n] # to
  /\ owner' = [owner EXCEPT ![name] = to]
  /\ Sent(Signal("owner", name, owner[name], to))
  /\ events' = events + 1
  /\ UNCHANGED <<playing, rules, open, workerVars, cache, generation, nudged, mainVars, missed, timeouts>>

Alive(conn) == \E n \in PlayerName : owner[n] = conn

Play(conn, title) ==
  /\ events < MaxEvents /\ playing[conn] # title
  /\ Alive(conn)
  /\ playing' = [playing EXCEPT ![conn] = title]
  /\ Sent(Signal("properties", conn, Nobody, Nobody))
  /\ events' = events + 1
  /\ UNCHANGED <<owner, rules, open, workerVars, cache, generation, nudged, mainVars, missed, timeouts>>

\* What the bus or a player has to say to a call, Nobody for an error.
ReplyTo(c) ==
  CASE c.what = "match"  -> c.of
    [] c.what = "names"  -> {n \in PlayerName : owner[n] # Nobody}
    [] c.what = "owner"  -> owner[c.of]
    [] c.what = "pid"    -> IF owner[c.of] = Nobody THEN Nobody ELSE PidOf[owner[c.of]]
    [] c.what = "calls"  -> IF Alive(c.of) THEN Declared[c.of] ELSE Nobody
    [] c.what = "title"  -> IF Alive(c.of) THEN playing[c.of] ELSE Nobody

Reply(c) ==
  /\ c \in open
  /\ open' = open \ {c}
  /\ line' = Append(line, <<"reply", c.serial, ReplyTo(c)>>)
  /\ rules' = rules \cup IF c.what = "match" THEN {c.of} ELSE {}
  /\ UNCHANGED <<busVars, workerVars, cache, generation, nudged, mainVars, missed, timeouts>>

-----------------------------------------------------------------------------
(* The player cache.                                                       *)

Entry(name, who, pid, calls, title) ==
  [name |-> name, owner |-> who, pid |-> pid, calls |-> calls, title |-> title]

\* The number moves with every change; what counts is that it is none that
\* is remembered.
Bumped == CHOOSE g \in 1 .. Cardinality(Audio) + 1 : \A s \in Audio : resolved[s].generation # g

\* The first player that fits.
IndexOf(players, Fits(_)) ==
  CHOOSE i \in DOMAIN players : Fits(players[i]) /\ \A j \in 1 .. i - 1 : ~Fits(players[j])

Cached(name) == \E i \in DOMAIN cache : cache[i].name = name

\* The last entry takes the place of the one that goes.
SwapRemoved(i) ==
  [j \in 1 .. Len(cache) - 1 |-> IF j = i THEN cache[Len(cache)] ELSE cache[j]]

Detach(name) ==
  /\ cache' = IF Cached(name) THEN SwapRemoved(IndexOf(cache, LAMBDA e : e.name = name)) ELSE cache
  /\ generation' = Bumped

Takes(name) == Cached(name) \/ Len(cache) < MaxPlayers

\* In its place, at the end, or not at all when the cache is full.
Insert(e) ==
  /\ cache' = CASE Cached(e.name) -> [cache EXCEPT ![IndexOf(cache, LAMBDA x : x.name = e.name)] = e]
                [] ~Cached(e.name) /\ Takes(e.name) -> Append(cache, e)
                [] OTHER -> cache
  /\ generation' = Bumped

-----------------------------------------------------------------------------
(* Calls. One is under way at a time; what it asks next follows from the   *)
(* answer it gets.                                                         *)

NoJob == [name |-> Nobody, owner |-> Nobody, pid |-> Nobody, calls |-> <<>>, bound |-> FALSE]

\* A serial that no call and no reply under way has.
Serial ==
  CHOOSE n \in 1 .. MaxTimeouts + 2 :
    /\ \A c \in open : c.serial # n
    /\ \A i \in DOMAIN line : line[i][1] = "reply" => line[i][2] # n

Call(what, of, at) ==
  /\ open' = open \cup {[serial |-> Serial, what |-> what, of |-> of]}
  /\ waits' = Serial
  /\ step' = at

\* The player in hand is done with, bound or not: the next one to prime, or
\* follow. The view is told at the end if any was bound.
Rest(names, bound) ==
  IF names = {}
  THEN /\ step' = "follow" /\ todo' = {} /\ job' = NoJob /\ waits' = 0
       /\ nudged' = (nudged \/ bound)
       /\ UNCHANGED open
  ELSE \E n \in names :
         /\ todo' = names \ {n}
         /\ job' = [NoJob EXCEPT !.name = n, !.bound = bound]
         /\ Call("owner", n, "owner")
         /\ UNCHANGED nudged

\* Subscribe to both kinds of signal, then list the players there are.
Subscribe ==
  /\ step = "start"
  /\ Call("match", "owner", "match owner")
  /\ UNCHANGED <<busVars, rules, line, todo, job, backlog, cache, generation, nudged, mainVars, missed, timeouts>>

\* What a reply, or giving up on it, makes of the call in hand. Without its
\* signals the worker ends.
Proceed(value) ==
  \/ /\ step \in {"match owner", "match properties"} /\ value = Nobody
     /\ step' = "stopped" /\ waits' = 0
     /\ UNCHANGED <<open, todo, job, cache, generation, nudged>>
  \/ /\ step = "match owner" /\ value # Nobody
     /\ Call("match", "properties", "match properties")
     /\ UNCHANGED <<todo, job, cache, generation, nudged>>
  \/ /\ step = "match properties" /\ value # Nobody
     /\ Call("names", Nobody, "names")
     /\ UNCHANGED <<todo, job, cache, generation, nudged>>
  \/ /\ step = "names"
     /\ Rest(IF value = Nobody THEN {} ELSE value, FALSE)
     /\ UNCHANGED <<cache, generation>>
  \/ /\ step = "owner" /\ value = Nobody
     /\ Rest(todo, job.bound)
     /\ UNCHANGED <<cache, generation>>
  \/ /\ step = "owner" /\ value # Nobody
     /\ job' = [job EXCEPT !.owner = value]
     /\ Call("pid", job.name, "pid")
     /\ UNCHANGED <<todo, cache, generation, nudged>>
  \/ /\ step = "pid"
     /\ job' = [job EXCEPT !.pid = value]
     /\ Call("calls", job.owner, "calls")
     /\ UNCHANGED <<todo, cache, generation, nudged>>
  \/ /\ step = "calls"
     /\ job' = [job EXCEPT !.calls = IF value = Nobody THEN <<>> ELSE value]
     /\ Call("title", job.owner, "title")
     /\ UNCHANGED <<todo, cache, generation, nudged>>
  \/ /\ step = "title"
     /\ Insert(Entry(job.name, job.owner, job.pid, job.calls, value))
     /\ Rest(todo, job.bound \/ Takes(job.name))
  \/ /\ step = "refresh"
     /\ LET there == \E i \in DOMAIN cache : cache[i].owner = job.owner
            at    == IndexOf(cache, LAMBDA e : e.owner = job.owner)
        IN /\ cache' = IF there THEN [cache EXCEPT ![at].title = value] ELSE cache
           /\ Rest({}, there /\ cache[at].title # value)
     /\ generation' = Bumped

\* Broken variant of TakesReply: a player is asked one thing after another,
\* and whatever comes is the answer.
TakesReplyAnyhow(m) ==
  m[1] = "reply" /\ (m[2] = waits \/ step \in {"calls", "title", "refresh"})

TakesReply(m) == m[1] = "reply" /\ m[2] = waits

\* A call reads until its reply: signals are kept, the oldest go first when
\* there are too many, and the replies of calls given up are thrown away.
ReadReply ==
  /\ waits # 0 /\ line # <<>>
  /\ TakesReply(Head(line))
  /\ line' = Tail(line)
  /\ Proceed(Head(line)[3])
  /\ missed' = (missed \/ (step = "title" /\ ~Takes(job.name)))
  /\ UNCHANGED <<busVars, rules, backlog, mainVars, timeouts>>

\* Broken variant of ReadAside: what comes during a call is thrown away.
ReadAsideDropping ==
  /\ waits # 0 /\ line # <<>>
  /\ ~TakesReply(Head(line))
  /\ line' = Tail(line)
  /\ UNCHANGED <<busVars, rules, open, workerVars, cache, generation, nudged, mainVars, missed, timeouts>>

ReadAside ==
  /\ waits # 0 /\ line # <<>>
  /\ ~TakesReply(Head(line))
  /\ line' = Tail(line)
  /\ backlog' = IF Head(line)[1] = "reply" THEN backlog
                ELSE Append(IF Len(backlog) < MaxPending THEN backlog ELSE Tail(backlog), Head(line))
  /\ missed' = (missed \/ (Head(line)[1] # "reply" /\ Len(backlog) >= MaxPending))
  /\ UNCHANGED <<busVars, rules, open, step, todo, job, waits, cache, generation, nudged, mainVars, timeouts>>

\* Five seconds without the reply.
Timeout ==
  /\ waits # 0 /\ timeouts < MaxTimeouts
  /\ timeouts' = timeouts + 1
  /\ Proceed(Nobody)
  /\ missed' = TRUE
  /\ UNCHANGED <<busVars, rules, line, backlog, mainVars>>

-----------------------------------------------------------------------------
(* Signals.                                                                *)

\* A player appeared or changed hands: forgotten, and bound anew. One that
\* left is forgotten, and the view is told if it was known.
OnOwner(name, old, new) ==
  \/ /\ new # Nobody
     /\ Detach(name)
     /\ job' = [NoJob EXCEPT !.name = name]
     /\ Call("owner", name, "owner")
     /\ UNCHANGED <<todo, nudged>>
  \/ /\ new = Nobody /\ old # Nobody
     /\ Detach(name)
     /\ nudged' = (nudged \/ Cached(name))
     /\ UNCHANGED <<step, todo, job, waits, open>>

\* A player that is tracked changed something: its title is read again.
OnProperties(who) ==
  \/ /\ \E i \in DOMAIN cache : cache[i].owner = who
     /\ job' = [NoJob EXCEPT !.owner = who]
     /\ Call("title", who, "refresh")
     /\ UNCHANGED <<todo, cache, generation, nudged>>
  \/ /\ \A i \in DOMAIN cache : cache[i].owner # who
     /\ UNCHANGED <<step, todo, job, waits, open, cache, generation, nudged>>

OnSignal(m) ==
  \/ m[1] = "owner" /\ OnOwner(m[2], m[3], m[4])
  \/ m[1] = "properties" /\ OnProperties(m[2])
  \/ /\ m[1] = "reply"
     /\ UNCHANGED <<step, todo, job, waits, open, cache, generation, nudged>>

\* The signals kept come before those on the socket.
Follow ==
  /\ step = "follow"
  /\ \/ /\ backlog # <<>>
        /\ backlog' = Tail(backlog)
        /\ OnSignal(Head(backlog))
        /\ UNCHANGED line
     \/ /\ backlog = <<>> /\ line # <<>>
        /\ line' = Tail(line)
        /\ OnSignal(Head(line))
        /\ UNCHANGED backlog
  /\ UNCHANGED <<busVars, rules, mainVars, missed, timeouts>>

-----------------------------------------------------------------------------
(* The main thread.                                                        *)

Stripped(parts) ==
  IF parts # <<>> /\ Last(parts) = "desktop" THEN SubSeq(parts, 1, Len(parts) - 1) ELSE parts

\* The stream's identity is the player's, or the front of it up to a dot.
IdentityMatches(stream, player) ==
  /\ Stripped(stream) # <<>> /\ Stripped(player) # <<>>
  /\ IsPrefix(Stripped(stream), Stripped(player))

PlayerMatches(e, parts) ==
  \/ IdentityMatches(parts, e.name)
  \/ IdentityMatches(parts, e.calls)

\* The first of the stream's ancestors that is a player, then the first
\* player that answers to its identity.
Match(players, s, parts) ==
  LET pids  == {i \in DOMAIN Ancestors[s] : \E k \in DOMAIN players : players[k].pid = Ancestors[s][i]}
      first == CHOOSE i \in pids : \A j \in pids : i <= j
      names == \E k \in DOMAIN players : PlayerMatches(players[k], parts)
  IN CASE pids # {}           -> players[IndexOf(players, LAMBDA e : e.pid = Ancestors[s][first])].title
       [] pids = {} /\ names  -> players[IndexOf(players, LAMBDA e : PlayerMatches(e, parts))].title
       [] OTHER               -> Nobody

Forgotten == [generation |-> 0, ident |-> <<>>, title |-> Nobody]

\* An answer is good for as long as both sides of the match stand still.
Resolve(s, parts) ==
  IF resolved[s].generation = generation /\ resolved[s].ident = parts
  THEN resolved[s]
  ELSE [generation |-> generation, ident |-> parts, title |-> Match(cache, s, parts)]

\* A projection looks every stream up, with what it says it is by now.
Project(idents) ==
  /\ ident' = idents
  /\ resolved' = [s \in Audio |-> Resolve(s, idents[s])]
  /\ shown' = [s \in Audio |-> Resolve(s, idents[s]).title]
  /\ nudged' = FALSE
  /\ UNCHANGED <<owner, playing, rules, line, open, workerVars, cache, generation, missed, timeouts>>

\* It follows a nudge, and every change of a stream: its properties come in
\* stages.
Refresh == nudged /\ Project(ident) /\ UNCHANGED events

Identify(s, parts) ==
  /\ events < MaxEvents /\ ident[s] # parts
  /\ events' = events + 1
  /\ Project([ident EXCEPT ![s] = parts])

-----------------------------------------------------------------------------

MprisInit ==
  /\ owner = [n \in PlayerName |-> Nobody] /\ playing = [c \in Conn |-> Nobody] /\ events = 0
  /\ rules = {} /\ line = <<>> /\ open = {}
  /\ step = "start" /\ todo = {} /\ job = NoJob /\ backlog = <<>> /\ waits = 0
  /\ cache = <<>> /\ generation = 1
  /\ nudged = FALSE
  /\ ident \in [Audio -> StreamIdent]
  /\ resolved = [s \in Audio |-> Forgotten] /\ shown = [s \in Audio |-> Nobody]
  /\ missed = FALSE /\ timeouts = 0

MprisNext ==
  \/ \E n \in PlayerName, c \in Conn \cup {Nobody} : Own(n, c)
  \/ \E c \in Conn : \E t \in TitlesOf[c] : Play(c, t)
  \/ \E c \in open : Reply(c)
  \/ Subscribe \/ ReadReply \/ ReadAside \/ Timeout \/ Follow
  \/ Refresh
  \/ \E s \in Audio, parts \in StreamIdent : Identify(s, parts)

MprisSpec == MprisInit /\ [][MprisNext]_mprisVars

-----------------------------------------------------------------------------
(* Correctness.                                                            *)

Quiet == step = "follow" /\ line = <<>> /\ backlog = <<>> /\ open = {}

\* When everything sent has been read, and nothing was given up or dropped,
\* the cache has the players of the bus, each once, with what it plays:
\* whatever went on while they were listed and bound.
SettledMirrors ==
  Quiet /\ ~missed =>
    /\ \A n \in PlayerName : owner[n] # Nobody => Cached(n)
    /\ \A i, j \in DOMAIN cache : cache[i].name = cache[j].name => i = j
    /\ \A i \in DOMAIN cache :
         LET conn == owner[cache[i].name]
         IN conn # Nobody /\ cache[i] = Entry(cache[i].name, conn, PidOf[conn], Declared[conn], playing[conn])

\* A late reply, to a call that was given up, is not taken for the answer to
\* another: a player has a title of its own, or none.
AnswersAreTheirOwn ==
  \A i \in DOMAIN cache :
    /\ cache[i].title \in TitlesOf[cache[i].owner] \cup {Nobody}
    /\ cache[i].calls \in {Declared[cache[i].owner], <<>>}

\* A title that is remembered, and would be used again, is the one a new
\* match would find.
RememberedHolds ==
  \A s \in Audio :
    resolved[s].generation = generation /\ resolved[s].ident = ident[s] => resolved[s].title = Match(cache, s, ident[s])

\* No late reply and no memory of an older match puts one player's title on
\* another's row.
TitlesAreTheirOwn == AnswersAreTheirOwn /\ RememberedHolds

\* The module's comment: the UI "is nudged to repaint with a Message". So
\* when all is quiet and no nudge is on its way, what is on screen is what
\* the players in the cache have to say.
TitlesAreCurrent == Quiet /\ ~nudged => \A s \in Audio : shown[s] = Match(cache, s, ident[s])

=============================================================================
