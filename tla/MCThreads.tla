------------------------------ MODULE MCThreads -------------------------------
(***************************************************************************)
(* What threads and processes share below the loops, in three scenes that  *)
(* share no state: the message bus between two threads and the shell, a    *)
(* pool of two slots that two nodes share and swap, and three launches,    *)
(* with a record of what has come between them so far: some promises are   *)
(* for launches and exits that come one at a time.                         *)
(***************************************************************************)
EXTENDS Bus, PeakPool, Instance

VARIABLES
  scene,
  mishaps  \* what has happened of "launches met", "exit met", "lock failed"

threadsVars == <<busVars, poolVars, lockVars, scene, mishaps>>

Threads == {"worker", "mpris"}

TwoNodes == {"music", "chat"}

Three == {"first", "second", "third"}

SomeIn(places) == \E p \in Launch : pc[p] \in places

Mishaps ==
  {m \in {"launches met", "exit met", "lock failed"} :
     \/ /\ m = "launches met"
        /\ SomeIn(Claiming) /\ \E p \in Launch : Start(p)
     \/ /\ m = "exit met"
        /\ SomeIn(Claiming) /\ \E p \in Launch : Leave(p)
     \/ /\ m = "lock failed"
        /\ \E p \in Launch : CannotBind(p) \/ CannotSetUp(p)}

SceneInit ==
  /\ BusInit /\ PoolInit /\ LockInit
  /\ scene \in {"bus", "pool", "lock"}
  /\ mishaps = {}

SceneNext ==
  /\ \/ scene = "bus" /\ BusNext /\ UNCHANGED <<poolVars, lockVars, mishaps>>
     \/ scene = "pool" /\ PoolNext /\ UNCHANGED <<busVars, lockVars, mishaps>>
     \/ scene = "lock" /\ LockNext /\ mishaps' = mishaps \cup Mishaps /\ UNCHANGED <<busVars, poolVars>>
  /\ UNCHANGED scene

SceneSpec ==
  SceneInit /\ [][SceneNext]_threadsVars /\ BusProgress /\ PoolProgress /\ LockProgress

\* "One window per session": while no two launches were under way at once and
\* no window was closed under one, whatever crashed and left its file.
OneWindowInTurn == mishaps = {} => OneWindow

\* "a launch that races the exit and binds its own cannot have it unlinked
\* from under it": a process that goes takes no other's file with it, while
\* no two launches were under way at once.
ExitSparesOthers ==
  [][\A p \in Launch : (Leave(p) \/ Left(p)) /\ path' # path
       => path = p \/ "launches met" \in mishaps]_threadsVars

=============================================================================
