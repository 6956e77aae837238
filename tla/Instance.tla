------------------------------- MODULE Instance -------------------------------
(***************************************************************************)
(* One window per session (src/native/instance.rs): a launch binds a       *)
(* socket file or, finding it bound, hands itself over to the process that *)
(* listens on it. Every system call is a step of its own, so that launches *)
(* race each other, an exit and a crash.                                   *)
(*                                                                         *)
(* A process is one launch. The token handed over is left out, and so is a *)
(* session without XDG_RUNTIME_DIR, which has no lock at all.              *)
(***************************************************************************)
EXTENDS Naturals

CONSTANTS
  Launch,       \* the processes started
  Turns,        \* attempts at binding (2 in the code)
  LockMayFail,  \* whether a socket may fail for another reason than a taken path
  None          \* no file at the path

ASSUME TurnsAssumption == Turns \in Nat \ {0}
ASSUME LockMayFailAssumption == LockMayFail \in BOOLEAN
ASSUME LaunchAssumption == None \notin Launch

VARIABLES
  pc,         \* where each process is
  turn,       \* the attempt it is at
  path,       \* whose socket the file at the path is, or None
  listening,  \* the processes whose socket takes connections
  waiting,    \* process -> launches connected to it and not yet accepted
  raised      \* the launches whose window has been brought forward

lockVars == <<pc, turn, path, listening, waiting, raised>>

Goes(p, where) == pc' = [pc EXCEPT ![p] = where]

Claiming == {"bind", "listen", "set up", "connect", "clear"}

\* A process that shows a window, with the lock or without it.
Windows == {p \in Launch : pc[p] \in {"up", "alone"}}

LockInit ==
  /\ pc = [p \in Launch |-> "idle"]
  /\ turn = [p \in Launch |-> 1]
  /\ path = None
  /\ listening = {}
  /\ waiting = [p \in Launch |-> {}]
  /\ raised = {}

\* Connections nobody accepted go with the socket.
Closes(p) ==
  /\ listening' = listening \ {p}
  /\ waiting' = [waiting EXCEPT ![p] = {}]

Start(p) ==
  /\ pc[p] = "idle"
  /\ Goes(p, "bind")
  /\ UNCHANGED <<turn, path, listening, waiting, raised>>

\* bind(2) makes the file, unless there is one.
Bind(p) ==
  /\ pc[p] = "bind"
  /\ IF path = None
     THEN path' = p /\ Goes(p, "listen")
     ELSE UNCHANGED path /\ Goes(p, "connect")
  /\ UNCHANGED <<turn, listening, waiting, raised>>

\* Any other error leaves the window to open without the lock.
CannotBind(p) ==
  /\ LockMayFail
  /\ pc[p] = "bind"
  /\ Goes(p, "alone")
  /\ UNCHANGED <<turn, path, listening, waiting, raised>>

\* The second half of UnixListener::bind.
Listen(p) ==
  /\ pc[p] = "listen"
  /\ listening' = listening \cup {p}
  /\ Goes(p, "set up")
  /\ UNCHANGED <<turn, path, waiting, raised>>

SetUp(p) ==
  /\ pc[p] = "set up"
  /\ Goes(p, "up")
  /\ UNCHANGED <<turn, path, listening, waiting, raised>>

\* A socket that cannot be made nonblocking is closed and its file stays.
CannotSetUp(p) ==
  /\ LockMayFail
  /\ pc[p] = "set up"
  /\ Closes(p)
  /\ Goes(p, "alone")
  /\ UNCHANGED <<turn, path, raised>>

\* Connecting is refused where nobody listens, and fails where there is no
\* file any more.
Connect(p) ==
  /\ pc[p] = "connect"
  /\ IF path \in listening
     THEN waiting' = [waiting EXCEPT ![path] = @ \cup {p}] /\ Goes(p, "handed")
     ELSE UNCHANGED waiting /\ Goes(p, "clear")
  /\ UNCHANGED <<turn, path, listening, raised>>

\* Broken variant of Clear: the stale file is left and the bind tried again.
ClearNothing(p) ==
  /\ pc[p] = "clear"
  /\ IF path # None THEN Goes(p, "bind") ELSE Goes(p, "alone")
  /\ UNCHANGED <<turn, path, listening, waiting, raised>>

\* Broken variant of Clear: the stale file stays for the next launch.
ClearForgotten(p) ==
  /\ pc[p] = "clear"
  /\ Goes(p, "alone")
  /\ UNCHANGED <<turn, path, listening, waiting, raised>>

\* What is left at the path is unlinked and the bind tried again; a file
\* that is gone by now cannot be unlinked, which ends the claim.
Clear(p) ==
  /\ pc[p] = "clear"
  /\ path' = None
  /\ IF path # None /\ turn[p] < Turns
     THEN turn' = [turn EXCEPT ![p] = @ + 1] /\ Goes(p, "bind")
     ELSE UNCHANGED turn /\ Goes(p, "alone")
  /\ UNCHANGED <<listening, waiting, raised>>

\* The loop's poll reports the socket, and every connection is answered.
Accept(p) ==
  /\ pc[p] = "up"
  /\ waiting[p] # {}
  /\ raised' = raised \cup waiting[p]
  /\ waiting' = [waiting EXCEPT ![p] = {}]
  /\ UNCHANGED <<pc, turn, path, listening>>

Unlinks == path' = None

\* Broken variant of Dropping: the socket is closed before the file goes.
DroppingSocketFirst(p, step) ==
  IF step = 1 THEN Closes(p) /\ UNCHANGED path ELSE Unlinks /\ UNCHANGED <<listening, waiting>>

\* Listener's Drop removes the file, whose ever it is, and only then do its
\* fields go.
Dropping(p, step) ==
  IF step = 1 THEN Unlinks /\ UNCHANGED <<listening, waiting>> ELSE Closes(p) /\ UNCHANGED path

\* The window is closed; without the lock there is nothing to give back.
Leave(p) ==
  \/ /\ pc[p] = "up"
     /\ Dropping(p, 1)
     /\ Goes(p, "leaving")
     /\ UNCHANGED <<turn, raised>>
  \/ /\ pc[p] = "alone"
     /\ Goes(p, "gone")
     /\ UNCHANGED <<turn, path, listening, waiting, raised>>

Left(p) ==
  /\ pc[p] = "leaving"
  /\ Dropping(p, 2)
  /\ Goes(p, "gone")
  /\ UNCHANGED <<turn, raised>>

\* Killed at any point: the socket goes and the file stays.
Crash(p) ==
  /\ pc[p] \notin {"idle", "handed", "gone"}
  /\ Closes(p)
  /\ Goes(p, "gone")
  /\ UNCHANGED <<turn, path, raised>>

Claim(p) ==
  \/ Bind(p) \/ CannotBind(p)
  \/ Listen(p) \/ SetUp(p) \/ CannotSetUp(p)
  \/ Connect(p) \/ Clear(p)

LockNext ==
  \E p \in Launch : Start(p) \/ Claim(p) \/ Accept(p) \/ Leave(p) \/ Left(p) \/ Crash(p)

LockSafety == LockInit /\ [][LockNext]_lockVars

\* A process that runs goes on: a claim to its end, the loop of a window to
\* its socket, an exit to its end. No one starts, closes or kills anything
\* on its own.
LockProgress ==
  \A p \in Launch : WF_lockVars(Claim(p) \/ Accept(p) \/ Left(p))

LockSpec == LockSafety /\ LockProgress

-----------------------------------------------------------------------------
(* What holds however launches, exits and crashes race.                    *)

\* The shape of the lock; a claim never goes past its turns.
LockTypeOK ==
  /\ pc \in [Launch -> {"idle", "up", "alone", "handed", "leaving", "gone"} \cup Claiming]
  /\ turn \in [Launch -> 1..Turns]
  /\ path \in Launch \cup {None}
  /\ listening \subseteq Launch
  /\ waiting \in [Launch -> SUBSET Launch]
  /\ raised \subseteq Launch

\* A launch settles: it shows a window or hands itself over, whatever the
\* others do to the file in the meantime (claim_at's two turns).
LaunchesSettle ==
  \A p \in Launch : pc[p] = "bind" ~> pc[p] \notin Claiming

\* A launch gives way only to a window that is up or about to be: never to a socket whose
\* process is gone or on its way out, which would leave the user with none.
GivesWayToAWindow ==
  [][\A p \in Launch : pc[p] = "connect" /\ pc'[p] = "handed" =>
       \E q \in Launch : pc[q] \in {"set up", "up"}]_lockVars

\* Every launch handed over has the window brought forward, unless the
\* process that shows it lost its lock or goes away before it gets to it.
HandoversAnswered ==
  \A p, q \in Launch :
    p \in waiting[q] ~> p \in raised \/ pc[q] \in {"alone", "leaving", "gone"}

\* A launch comes to an end, with its own window or with another's raised.
LaunchesEnd == LaunchesSettle /\ HandoversAnswered

-----------------------------------------------------------------------------
(* What the comments promise, in all circumstances.                        *)

\* "One window per session."
OneWindow == \A p, q \in Windows : p = q

=============================================================================
