--------------------------- MODULE ShutdownChain ---------------------------
(***************************************************************************)
(* How client_pool starts and stops its workers (src/pool.hpp, run() and   *)
(* stop()) and how epoll::wait and epoll::close (src/epoll.hpp) carry the  *)
(* exit message: stop() writes one byte to the self-pipe; the worker whose *)
(* epoll_wait reports it reads the byte, enables the one-shot registration *)
(* again, counts itself out, and writes the byte back for the next worker  *)
(* unless it was the last one.                                             *)
(*                                                                         *)
(* A worker in "wait" polls or handles client events; what those do is the *)
(* subject of ClientPool.                                                  *)
(***************************************************************************)
EXTENDS Naturals, FiniteSets

CONSTANTS
  Workers,      \* the workerCount_ threads run() starts
  Callers,      \* threads that call run() and stop()
  NoCaller,     \* lock_ is free
  SizeMax,      \* the largest std::size_t
  MaxStale      \* bound: run() is not called over more stale bytes than this

ASSUME ChainAssumption ==
  /\ IsFiniteSet(Workers) /\ Workers # {}
  /\ NoCaller \notin Callers
  /\ SizeMax \in Nat /\ Cardinality(Workers) <= SizeMax
  /\ MaxStale \in Nat

VARIABLES
  pipe,               \* bytes in the self-pipe
  armed,              \* is the registration of selfpipe_[1] enabled?
  runningInstances,   \* threadCount_
  wpc,                \* where each worker is
  cpc,                \* where each caller is
  lock,               \* the owner of lock_
  failed              \* history: has epoll_wait ever returned -1?

vars == <<pipe, armed, runningInstances, wpc, cpc, lock, failed>>

Init ==
  /\ pipe = 0
  /\ armed = TRUE
  /\ runningInstances = 0
  /\ wpc  = [w \in Workers |-> "none"]
  /\ cpc  = [c \in Callers |-> "idle"]
  /\ lock = NoCaller
  /\ failed = FALSE

-----------------------------------------------------------------------------
(* The callers.                                                            *)

ThreadsEmpty == \A w \in Workers : wpc[w] = "none"

(* A faulty variant, for the checks: the counter is not set. *)
RunKeepsCounter(c) ==
  /\ cpc[c] = "idle"
  /\ lock = NoCaller
  /\ ThreadsEmpty
  /\ pipe <= MaxStale
  /\ lock' = c
  /\ cpc'  = [cpc EXCEPT ![c] = "spawn"]
  /\ wpc'  = [w \in Workers |-> "new"]
  /\ UNCHANGED <<pipe, armed, runningInstances, failed>>

(* run() on a stopped pool takes the lock and sets the counter.  On a      *)
(* running pool it returns at once and changes nothing.                    *)
RunBegin(c) ==
  /\ cpc[c] = "idle"
  /\ lock = NoCaller
  /\ ThreadsEmpty
  /\ pipe <= MaxStale
  /\ lock' = c
  /\ cpc'  = [cpc EXCEPT ![c] = "spawn"]
  /\ wpc'  = [w \in Workers |-> "new"]
  /\ runningInstances' = Cardinality(Workers)
  /\ UNCHANGED <<pipe, armed, failed>>

(* threads_.emplace_back: the thread runs while later ones are created. *)
Spawn(c, w) ==
  /\ cpc[c] = "spawn"
  /\ wpc[w] = "new"
  /\ wpc' = [wpc EXCEPT ![w] = "wait"]
  /\ UNCHANGED <<pipe, armed, runningInstances, cpc, lock, failed>>

RunEnd(c) ==
  /\ cpc[c] = "spawn"
  /\ \A w \in Workers : wpc[w] # "new"
  /\ cpc'  = [cpc EXCEPT ![c] = "idle"]
  /\ lock' = NoCaller
  /\ UNCHANGED <<pipe, armed, runningInstances, wpc, failed>>

(* stop() on a running pool takes the lock and calls close(). *)
StopBegin(c) ==
  /\ cpc[c] = "idle"
  /\ lock = NoCaller
  /\ ~ThreadsEmpty
  /\ lock' = c
  /\ cpc'  = [cpc EXCEPT ![c] = "join"]
  /\ pipe' = pipe + 1
  /\ UNCHANGED <<armed, runningInstances, wpc, failed>>

(* A faulty variant: the threads are not joined. *)
StopNoJoin(c) ==
  /\ cpc[c] = "join"
  /\ wpc'  = [w \in Workers |-> "none"]
  /\ cpc'  = [cpc EXCEPT ![c] = "idle"]
  /\ lock' = NoCaller
  /\ UNCHANGED <<pipe, armed, runningInstances, failed>>

(* All threads are joined, threads_ is cleared. *)
StopEnd(c) ==
  /\ cpc[c] = "join"
  /\ \A w \in Workers : wpc[w] = "exited"
  /\ wpc'  = [w \in Workers |-> "none"]
  /\ cpc'  = [cpc EXCEPT ![c] = "idle"]
  /\ lock' = NoCaller
  /\ UNCHANGED <<pipe, armed, runningInstances, failed>>

Caller(c) ==
  \/ RunBegin(c) \/ (\E w \in Workers : Spawn(c, w)) \/ RunEnd(c)
  \/ StopBegin(c) \/ StopEnd(c)

-----------------------------------------------------------------------------
(* A worker in epoll::wait.                                                *)

Goto(w, place) == wpc' = [wpc EXCEPT ![w] = place]

(* epoll_wait reports the control event to one worker and, the             *)
(* registration being one-shot, disables it.                               *)
ControlEvent(w) ==
  /\ wpc[w] = "wait"
  /\ armed /\ pipe > 0
  /\ armed' = FALSE
  /\ Goto(w, "read")
  /\ UNCHANGED <<pipe, runningInstances, cpc, lock, failed>>

(* endpoint_read(selfpipe_[1], ...) blocks while the pipe is empty. *)
ReadPipe(w) ==
  /\ wpc[w] = "read"
  /\ pipe > 0
  /\ pipe' = pipe - 1
  /\ Goto(w, "rearm")
  /\ UNCHANGED <<armed, runningInstances, cpc, lock, failed>>

(* A faulty variant: the registration stays disabled. *)
RearmForgotten(w) ==
  /\ wpc[w] = "rearm"
  /\ Goto(w, "dec")
  /\ UNCHANGED <<pipe, armed, runningInstances, cpc, lock, failed>>

(* EPOLL_CTL_MOD reports a byte that is already there once more.  It does  *)
(* not fail here: a failure is thrown out of a thread and ends the         *)
(* program, whatever the others were doing.                                *)
RearmPipe(w) ==
  /\ wpc[w] = "rearm"
  /\ armed' = TRUE
  /\ Goto(w, "dec")
  /\ UNCHANGED <<pipe, runningInstances, cpc, lock, failed>>

(* --runningInstances > 0, on an unsigned counter. *)
Decremented == IF runningInstances = 0 THEN SizeMax ELSE runningInstances - 1

(* Faulty variants: the worker counts itself out twice, or passes the      *)
(* message on although it is the last one.                                 *)
CountOutTwice(w) ==
  /\ wpc[w] = "dec"
  /\ runningInstances' = Decremented - 1
  /\ Goto(w, IF Decremented > 0 THEN "write" ELSE "exited")
  /\ UNCHANGED <<pipe, armed, cpc, lock, failed>>

CountOutAlwaysPasses(w) ==
  /\ wpc[w] = "dec"
  /\ runningInstances' = Decremented
  /\ Goto(w, "write")
  /\ UNCHANGED <<pipe, armed, cpc, lock, failed>>

CountOut(w) ==
  /\ wpc[w] = "dec"
  /\ runningInstances' = Decremented
  /\ Goto(w, IF Decremented > 0 THEN "write" ELSE "exited")
  /\ UNCHANGED <<pipe, armed, cpc, lock, failed>>

PassOn(w) ==
  /\ wpc[w] = "write"
  /\ pipe' = pipe + 1
  /\ Goto(w, "exited")
  /\ UNCHANGED <<armed, runningInstances, cpc, lock, failed>>

(* epoll_wait returned -1: the loop is left without counting out. *)
WaitFails(w) ==
  /\ wpc[w] = "wait"
  /\ Goto(w, "exited")
  /\ failed' = TRUE
  /\ UNCHANGED <<pipe, armed, runningInstances, cpc, lock>>

Leaving(w) == ReadPipe(w) \/ RearmPipe(w) \/ CountOut(w) \/ PassOn(w)

Worker(w) == ControlEvent(w) \/ Leaving(w) \/ WaitFails(w)

Next ==
  \/ \E c \in Callers : Caller(c)
  \/ \E w \in Workers : Worker(w)

Spec == Init /\ [][Next]_vars

(* A thread that is inside a call goes on, and some worker that polls gets *)
(* a control event that stays pending.  Nobody has to call run() or        *)
(* stop().                                                                 *)
Fairness ==
  /\ \A w \in Workers : WF_vars(Leaving(w))
  /\ WF_vars(\E w \in Workers : ControlEvent(w))
  /\ \A c \in Callers :
       WF_vars(StopEnd(c) \/ RunEnd(c) \/ \E w \in Workers : Spawn(c, w))

FairSpec == Spec /\ Fairness

-----------------------------------------------------------------------------

(* Types: threadCount_ stays between zero and the number of workers. *)
TypeOK ==
  /\ pipe  \in Nat
  /\ armed \in BOOLEAN
  /\ runningInstances \in 0 .. SizeMax
  /\ wpc   \in [Workers -> {"none", "new", "wait", "read", "rearm", "dec",
                            "write", "exited"}]
  /\ cpc   \in [Callers -> {"idle", "spawn", "join"}]
  /\ lock  \in Callers \cup {NoCaller}
  /\ failed \in BOOLEAN

Stopping == \E c \in Callers : cpc[c] = "join"

(* Workers that have the byte in hand, between reading and passing it on. *)
Carriers == {w \in Workers : wpc[w] \in {"rearm", "dec", "write"}}

(* threadCount_ is the number of workers that have not counted out, unless *)
(* epoll_wait failed in one of them, which leaves without counting.        *)
CounterExact ==
  ~failed => runningInstances =
    Cardinality({w \in Workers : wpc[w] \in {"new", "wait", "read", "rearm", "dec"}})

(* There is one exit message while stop() waits for workers, in the pipe   *)
(* or in the hands of one worker, and none at any other time: the chain    *)
(* cannot break, and no byte is left over that would end the workers of    *)
(* the next run().  A worker in which epoll_wait failed does leave one.    *)
OneBaton ==
  ~failed => pipe + Cardinality(Carriers) =
    IF Stopping /\ \E w \in Workers : wpc[w] # "exited" THEN 1 ELSE 0

(* The blocking read of the self-pipe finds its byte, and a byte nobody is *)
(* about to read will be reported: the registration is enabled.            *)
PipeReported ==
  /\ \A w \in Workers : wpc[w] = "read" => pipe > 0
  /\ armed <=> \A w \in Workers : wpc[w] \notin {"read", "rearm"}

(* The workers behave as one thread group: nobody leaves before stop() is  *)
(* called, and stop() returns when all have left, also after epoll_wait    *)
(* has failed in one of them.                                              *)
TG == INSTANCE ThreadGroup WITH
        alive <- {w \in Workers : wpc[w] \notin {"none", "exited"}},
        state <- IF ThreadsEmpty THEN "stopped"
                 ELSE IF Stopping THEN "stopping" ELSE "running",
        broken <- failed

ImplementsThreadGroup == TG!Spec

(* stop() returns, however many workers there are to wake one by one, and  *)
(* even if epoll_wait fails in some of them.                               *)
StopReturns == \A c \in Callers : cpc[c] = "join" ~> cpc[c] = "idle"

(* The counter, the pipe and its registration tell where the workers are.  *)
Consistent == TypeOK /\ CounterExact /\ PipeReported
=============================================================================
