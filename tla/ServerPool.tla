----------------------------- MODULE ServerPool -----------------------------
(***************************************************************************)
(* The life cycle of server_pool (src/pool.hpp, run() and stop()): the     *)
(* thread that calls run() holds lock_ while it listens, whoever calls     *)
(* stop() sends it the exit message through the self-pipe of the server's  *)
(* own epoll instance and then stops the client pool.  threadCount_ has no *)
(* initialiser, so its first value is whatever the memory holds: any       *)
(* number.                                                                 *)
(*                                                                         *)
(* Starting and stopping the workers of the client pool is the subject of  *)
(* ShutdownChain and one step here; accepting connections is the subject   *)
(* of ClientPool.  Who calls run() and stop(), and when, is up to the      *)
(* program that uses the library: EchoWorker adds one.                     *)
(***************************************************************************)
EXTENDS Integers

CONSTANTS
  Threads,        \* threads that call run() or stop()
  NoThread,       \* lock_ is free
  InitialCounts,  \* what threadCount_ may hold after construction
  MaxMessages     \* bound: exit messages that are left unread

ASSUME ServerAssumption ==
  /\ NoThread \notin Threads
  /\ MaxMessages \in Nat \ {0}
  /\ InitialCounts \subseteq Nat /\ InitialCounts # {}

VARIABLES
  threadCount,  \* threadCount_
  pipe,         \* exit messages in the self-pipe of the server
  lock,         \* the owner of lock_
  pool,         \* do the workers of clientPool_ run?
  pc,           \* where each thread is
  turnedAway    \* history: run() has found a counter other than zero

serverVars == <<threadCount, pipe, lock, pool, pc, turnedAway>>

ServerInit ==
  /\ threadCount \in InitialCounts
  /\ pipe = 0
  /\ lock = NoThread
  /\ pool = FALSE
  /\ pc   = [t \in Threads |-> "idle"]
  /\ turnedAway = FALSE

Goto(t, place) == pc' = [pc EXCEPT ![t] = place]

-----------------------------------------------------------------------------
(* run().                                                                  *)

(* The lock is taken; a counter other than zero sends the caller away. *)
RunLock(t) ==
  /\ pc[t] = "run"
  /\ lock = NoThread
  /\ lock' = IF threadCount = 0 THEN t ELSE NoThread
  /\ Goto(t, IF threadCount = 0 THEN "runPool" ELSE "idle")
  /\ turnedAway' = (turnedAway \/ threadCount # 0)
  /\ UNCHANGED <<threadCount, pipe, pool>>

RunPool(t) ==
  /\ pc[t] = "runPool"
  /\ pool' = TRUE
  /\ Goto(t, "runCount")
  /\ UNCHANGED <<threadCount, pipe, lock, turnedAway>>

RunCount(t) ==
  /\ pc[t] = "runCount"
  /\ threadCount' = 1
  /\ Goto(t, "wait")
  /\ UNCHANGED <<pipe, lock, pool, turnedAway>>

(* A faulty variant, for the checks: the byte stays in the pipe. *)
ControlPeeks(t) ==
  /\ pc[t] = "wait"
  /\ pipe > 0
  /\ Goto(t, "dec")
  /\ UNCHANGED <<threadCount, pipe, lock, pool, turnedAway>>

(* The only thread of this epoll instance reads the exit message and       *)
(* enables its registration again: nobody sees the steps in between.       *)
ControlEvent(t) ==
  /\ pc[t] = "wait"
  /\ pipe > 0
  /\ pipe' = pipe - 1
  /\ Goto(t, "dec")
  /\ UNCHANGED <<threadCount, lock, pool, turnedAway>>

(* Faulty variants: nothing is counted, or too much. *)
CountOutForgotten(t) ==
  /\ pc[t] = "dec"
  /\ Goto(t, "unlock")
  /\ UNCHANGED <<threadCount, pipe, lock, pool, turnedAway>>

CountOutTwice(t) ==
  /\ pc[t] = "dec"
  /\ threadCount' = threadCount - 2
  /\ Goto(t, "unlock")
  /\ UNCHANGED <<pipe, lock, pool, turnedAway>>

(* The message is passed on to the other threads of the instance, of which *)
(* a server has none.                                                      *)
CountOut(t) ==
  /\ pc[t] = "dec"
  /\ threadCount' = threadCount - 1
  /\ pipe' = IF threadCount > 1 THEN pipe + 1 ELSE pipe
  /\ Goto(t, "unlock")
  /\ UNCHANGED <<lock, pool, turnedAway>>

RunUnlock(t) ==
  /\ pc[t] = "unlock"
  /\ lock' = NoThread
  /\ Goto(t, "idle")
  /\ UNCHANGED <<threadCount, pipe, pool, turnedAway>>

Run(t) ==
  \/ RunLock(t) \/ RunPool(t) \/ RunCount(t)
  \/ ControlEvent(t) \/ CountOut(t) \/ RunUnlock(t)

-----------------------------------------------------------------------------
(* stop().                                                                 *)

(* The counter is read without the lock; a counter other than one sends    *)
(* the caller away.                                                        *)
StopLoad(t) ==
  /\ pc[t] = "stop"
  /\ Goto(t, IF threadCount = 1 THEN "close" ELSE "idle")
  /\ UNCHANGED <<threadCount, pipe, lock, pool, turnedAway>>

(* A faulty variant: the lock is taken before the message is sent. *)
StopCloseLocked(t) ==
  /\ pc[t] = "close"
  /\ lock = NoThread
  /\ pipe' = pipe + 1
  /\ Goto(t, "stopLock")
  /\ UNCHANGED <<threadCount, lock, pool, turnedAway>>

StopClose(t) ==
  /\ pc[t] = "close"
  /\ pipe' = pipe + 1
  /\ Goto(t, "stopLock")
  /\ UNCHANGED <<threadCount, lock, pool, turnedAway>>

StopLock(t) ==
  /\ pc[t] = "stopLock"
  /\ lock = NoThread
  /\ lock' = t
  /\ Goto(t, "stopPool")
  /\ UNCHANGED <<threadCount, pipe, pool, turnedAway>>

(* A faulty variant: the workers of the pool are left running. *)
StopPoolForgotten(t) ==
  /\ pc[t] = "stopPool"
  /\ lock' = NoThread
  /\ Goto(t, "idle")
  /\ UNCHANGED <<threadCount, pipe, pool, turnedAway>>

StopPool(t) ==
  /\ pc[t] = "stopPool"
  /\ pool' = FALSE
  /\ lock' = NoThread
  /\ Goto(t, "idle")
  /\ UNCHANGED <<threadCount, pipe, turnedAway>>

Stop(t) == StopLoad(t) \/ StopClose(t) \/ StopLock(t) \/ StopPool(t)

-----------------------------------------------------------------------------

(* Types: threadCount_ never goes below zero. *)
ServerTypeOK ==
  /\ threadCount \in Nat
  /\ pipe \in Nat
  /\ lock \in Threads \cup {NoThread}
  /\ {pool, turnedAway} \subseteq BOOLEAN
  /\ pc   \in [Threads -> {"idle", "run", "runPool", "runCount", "wait", "dec",
                           "unlock", "stop", "close", "stopLock", "stopPool"}]
=============================================================================
