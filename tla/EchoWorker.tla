----------------------------- MODULE EchoWorker -----------------------------
(***************************************************************************)
(* The echo server (src/test/echo.cpp, class echo_worker) and its control  *)
(* panel (src/test/run.cpp).  /set/start creates the thread that runs      *)
(* server_pool::run, /set/stop calls server_pool::stop and joins it; the   *)
(* HTTP library serves requests in several threads at once, which          *)
(* echo_worker::lock_ keeps apart.  create() has succeeded: main() makes   *)
(* no control panel otherwise.                                             *)
(***************************************************************************)
EXTENDS ServerPool

CONSTANT Server   \* the thread of work_; the other threads are handlers

ASSUME EchoAssumption == Server \in Threads

Handlers == Threads \ {Server}

VARIABLES
  workLock,   \* the owner of echo_worker::lock_
  work        \* is there a thread in work_?

panelVars == <<serverVars, workLock, work>>

PanelInit ==
  /\ ServerInit
  /\ workLock = NoThread
  /\ work = FALSE

-----------------------------------------------------------------------------
(* /set/start, in whichever handler: a server that has a thread is left    *)
(* alone.                                                                  *)
HandleStart ==
  /\ workLock = NoThread
  /\ ~work
  /\ work' = TRUE
  /\ Goto(Server, "run")
  /\ UNCHANGED <<threadCount, pipe, lock, pool, turnedAway, workLock>>

(* /set/stop takes the lock and calls server_pool::stop; without a thread  *)
(* there is nothing to do.  (Only MaxMessages is no guard of the code.)    *)
HandleStop(h) ==
  /\ workLock = NoThread
  /\ work
  /\ pipe < MaxMessages
  /\ workLock' = h
  /\ Goto(h, "stop")
  /\ UNCHANGED <<threadCount, pipe, lock, pool, turnedAway, work>>

(* A faulty variant, for the checks: the thread is not joined. *)
DetachServer(h) ==
  /\ workLock = h /\ pc[h] = "idle"
  /\ work' = FALSE
  /\ workLock' = NoThread
  /\ UNCHANGED serverVars

(* work_->join() waits until run() has returned. *)
JoinServer(h) ==
  /\ workLock = h /\ pc[h] = "idle"
  /\ pc[Server] = "idle"
  /\ work' = FALSE
  /\ workLock' = NoThread
  /\ UNCHANGED serverVars

ServerRuns == Run(Server) /\ UNCHANGED <<workLock, work>>

(* What a handler does inside echo_worker::stop. *)
Stopping(h) == (Stop(h) /\ UNCHANGED <<workLock, work>>) \/ JoinServer(h)

PanelNext ==
  \/ ServerRuns
  \/ HandleStart
  \/ \E h \in Handlers : HandleStop(h) \/ Stopping(h)

PanelSpec == PanelInit /\ [][PanelNext]_panelVars

(* Threads that are inside a call go on; nobody has to send a request. *)
PanelFairness ==
  /\ WF_panelVars(ServerRuns)
  /\ \A h \in Handlers : WF_panelVars(Stopping(h))

PanelFairSpec == PanelSpec /\ PanelFairness

-----------------------------------------------------------------------------

(* Types of the panel and of server_pool under it. *)
PanelTypeOK ==
  /\ ServerTypeOK
  /\ workLock \in Handlers \cup {NoThread}
  /\ work \in BOOLEAN

(* A server whose counter held another number than zero from the start:    *)
(* run() sends its thread away, this time and every time.                  *)
NeverListens == threadCount # 0 /\ pc[Server] \in {"idle", "run"}

(* The clients of a server that does not listen are not served: the pool   *)
(* runs while the server thread is between starting it and leaving, and    *)
(* after that only until the stop() that ended the thread has stopped it.  *)
PoolWithServer ==
  pool <=> \/ pc[Server] \in {"runCount", "wait", "dec", "unlock"}
           \/ threadCount = 0 /\ \E h \in Handlers : pc[h] \in {"stopLock", "stopPool"}

(* There is an exit message for the server thread exactly while a stop()   *)
(* that wrote it waits for it to be read: none is left for the next run(). *)
(* Messages without a reader are those of a server that will never have    *)
(* one, because its counter started at one.                                *)
MessageHasReader ==
  IF pc[Server] = "wait"
    THEN pipe = IF \E h \in Handlers : pc[h] = "stopLock" THEN 1 ELSE 0
    ELSE pipe = 0 \/ (NeverListens /\ threadCount = 1)

(* /set/start and /set/stop treat the server as a group of one thread: it  *)
(* leaves only for a stop, and a stop that is answered has seen it leave.  *)
(* Where the counter did not start at zero the thread breaks off at once.  *)
TG == INSTANCE ThreadGroup WITH
        Workers <- {Server},
        alive   <- IF pc[Server] = "idle" THEN {} ELSE {Server},
        state   <- IF ~work THEN "stopped"
                   ELSE IF workLock = NoThread THEN "running" ELSE "stopping",
        broken  <- turnedAway

ImplementsThreadGroup == TG!Spec

(* A server that was started comes to listen, whatever runs and stops came *)
(* before; one whose counter is not zero returns from run() at once.       *)
StartListens ==
  /\ pc[Server] = "run" /\ threadCount = 0 ~> pc[Server] = "wait"
  /\ pc[Server] = "run" /\ threadCount # 0 ~> pc[Server] = "idle"

(* A stop that found the counter at one is answered. *)
HeardStopReturns ==
  \A h \in Handlers : pc[h] = "close" ~> workLock # h

(* Every stop is answered, whenever it comes.  It is not: between the      *)
(* creation of the thread and the store to threadCount_ server_pool::stop  *)
(* finds nothing to stop, and the join that follows waits for a thread     *)
(* nobody has told to leave.                                               *)
EveryStopReturns == \A h \in Handlers : workLock = h ~> workLock # h

(* What is left running is what the state of the panel says. *)
PanelConsistent == PanelTypeOK /\ PoolWithServer

(* A start comes to listen, and a stop it can hear is answered. *)
PanelResponds == StartListens /\ HeardStopReturns
=============================================================================
