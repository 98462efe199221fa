----------------------------- MODULE HttpServer -----------------------------
(***************************************************************************)
(* The HTTP server of a control panel: the thread that called listen()     *)
(* accepts connections and queues them for a pool of threads, each of      *)
(* which has one connection at a time until it is closed                   *)
(* (src/test-client/http/httplib.hpp 547-618, 2597-2715, 5525-5605).  The  *)
(* panels do not call Server::stop(): a port that cannot be bound or an    *)
(* error of accept() ends listen().                                        *)
(***************************************************************************)
EXTENDS HttpConnection

CONSTANTS
  MaxAddresses,   \* bound: addresses getaddrinfo() finds
  Threads,        \* CPPHTTPLIB_THREAD_POOL_COUNT of them
  MaxFds,         \* descriptors left to connections (RLIMIT_NOFILE)
  AcceptMayFail   \* may accept() fail for good?

ASSUME ServerAssumption ==
  /\ MaxAddresses \in Nat
  /\ Threads # {} /\ Threads \cap Conns = {}
  /\ Conns \cap {"ready", "waiting", "exited"} = {}
  /\ MaxFds \in Nat \ {0}
  /\ AcceptMayFail \in BOOLEAN

VARIABLES
  addresses, \* those the panel may still be bound to
  jobs,      \* the connections no thread has taken
  shutdown,  \* shutdown_
  thread,    \* "ready", "waiting" on cond_, "exited", or the connection
  apc        \* where listen_internal() is

pool == <<addresses, jobs, shutdown, thread, apc>>
vars == <<connection, pool>>

Init ==
  /\ ConnectionInit
  /\ addresses \in 0 .. MaxAddresses
  /\ jobs = <<>> /\ shutdown = FALSE
  /\ thread = [t \in Threads |-> "exited"]
  /\ apc = "bind"

-----------------------------------------------------------------------------
(* listen().                                                               *)

StartThreads == thread' = [t \in Threads |-> "ready"]

(* create_socket() makes a socket for an address, binds it and listens, or *)
(* closes it and tries the next.  Then the pool starts its threads.        *)
TryAddress ==
  /\ apc = "bind" /\ addresses > 0
  /\ \/ /\ addresses' = 0
        /\ apc' = "accept"
        /\ StartThreads
     \/ addresses' = addresses - 1 /\ UNCHANGED <<apc, thread>>
  /\ UNCHANGED <<connection, jobs, shutdown>>

BindFails ==
  /\ apc = "bind" /\ addresses = 0
  /\ apc' = "returned"
  /\ UNCHANGED <<connection, addresses, jobs, shutdown, thread>>

(* A client connects, with or without something to ask. *)
Connect(c) ==
  /\ at[c] = "none" /\ plan[c].comes
  /\ apc \in {"accept", "enqueue", "notify"}
  /\ Goto(c, "backlog")
  /\ UNCHANGED <<client, fin, stream, exchange, replies, history, pool>>

Open == {c \in Conns : at[c] \notin {"none", "backlog", "closed"}}

(* Without a descriptor (EMFILE), or interrupted, it tries again. *)
Accept(c) ==
  /\ apc = "accept"
  /\ at[c] = "backlog" /\ Cardinality(Open) < MaxFds
  /\ Goto(c, "accepted")
  /\ apc' = "enqueue"
  /\ UNCHANGED <<client, fin, stream, exchange, replies, history,
                 addresses, jobs, shutdown, thread>>

(* Any other error closes the listener, and with it what waits there. *)
AcceptFails ==
  /\ AcceptMayFail /\ apc = "accept"
  /\ apc' = "shutdown"
  /\ at' = [c \in Conns |-> IF at[c] = "backlog" THEN "closed" ELSE at[c]]
  /\ cause' = [c \in Conns |-> IF at[c] = "backlog" THEN "refused" ELSE cause[c]]
  /\ UNCHANGED <<client, fin, stream, exchange, replies, astray,
                 addresses, jobs, shutdown, thread>>

(* ThreadPool::enqueue: under the lock, then notify_one(). *)
Enqueue(c) ==
  /\ apc = "enqueue" /\ at[c] = "accepted"
  /\ jobs' = Append(jobs, c)
  /\ Goto(c, "queued")
  /\ apc' = "notify"
  /\ UNCHANGED <<client, fin, stream, exchange, replies, history,
                 addresses, shutdown, thread>>

Waiting == {t \in Threads : thread[t] = "waiting"}

Wake(ts) == thread' = [t \in Threads |-> IF t \in ts THEN "ready" ELSE thread[t]]

(* A faulty variant, for the checks: nobody is told. *)
NotifyNobody ==
  /\ apc = "notify"
  /\ Wake({})
  /\ apc' = "accept"
  /\ UNCHANGED <<connection, addresses, jobs, shutdown>>

NotifyOne ==
  /\ apc = "notify"
  /\ IF Waiting = {} THEN UNCHANGED thread ELSE \E t \in Waiting : Wake({t})
  /\ apc' = "accept"
  /\ UNCHANGED <<connection, addresses, jobs, shutdown>>

(* A faulty variant: one thread is told. *)
ShutdownOne ==
  /\ apc = "shutdown"
  /\ shutdown' = TRUE
  /\ IF Waiting = {} THEN UNCHANGED thread ELSE \E t \in Waiting : Wake({t})
  /\ apc' = "join"
  /\ UNCHANGED <<connection, addresses, jobs>>

(* ThreadPool::shutdown: the flag under the lock, then notify_all(): no    *)
(* thread can tell the two apart.                                          *)
Shutdown ==
  /\ apc = "shutdown"
  /\ shutdown' = TRUE
  /\ Wake(Waiting)
  /\ apc' = "join"
  /\ UNCHANGED <<connection, addresses, jobs>>

Join ==
  /\ apc = "join"
  /\ \A t \in Threads : thread[t] = "exited"
  /\ apc' = "returned"
  /\ UNCHANGED <<connection, addresses, jobs, shutdown, thread>>

Listen ==
  \/ \E c \in Conns : Accept(c) \/ Enqueue(c)
  \/ TryAddress \/ BindFails \/ NotifyOne \/ Shutdown \/ Join

-----------------------------------------------------------------------------
(* ThreadPool::worker.                                                     *)

Become(t, what) == thread' = [thread EXCEPT ![t] = what]

(* A faulty variant: the job is not removed. *)
TakeJobKept(t) ==
  /\ thread[t] = "ready" /\ jobs # <<>>
  /\ Become(t, Head(jobs))
  /\ Goto(Head(jobs), "idle")
  /\ UNCHANGED <<client, fin, stream, exchange, replies, history,
                 addresses, jobs, shutdown, apc>>

(* cond_.wait() with its condition, and taking the job, under the lock.    *)
(* A wake-up for nothing finds no job and waits on: it is left out.        *)
TakeJob(t) ==
  /\ thread[t] = "ready" /\ jobs # <<>>
  /\ Become(t, Head(jobs))
  /\ jobs' = Tail(jobs)
  /\ Goto(Head(jobs), "idle")
  /\ UNCHANGED <<client, fin, stream, exchange, replies, history,
                 addresses, shutdown, apc>>

(* A faulty variant: the flag is looked at first. *)
NoJobHasty(t) ==
  /\ thread[t] = "ready" /\ (jobs = <<>> \/ shutdown)
  /\ Become(t, IF shutdown THEN "exited" ELSE "waiting")
  /\ UNCHANGED <<connection, addresses, jobs, shutdown, apc>>

NoJob(t) ==
  /\ thread[t] = "ready" /\ jobs = <<>>
  /\ Become(t, IF shutdown THEN "exited" ELSE "waiting")
  /\ UNCHANGED <<connection, addresses, jobs, shutdown, apc>>

Serve(t) ==
  /\ thread[t] \in Conns
  /\ Exchange(thread[t])
  /\ UNCHANGED pool

JobDone(t) ==
  /\ thread[t] \in Conns /\ at[thread[t]] = "closed"
  /\ Become(t, "ready")
  /\ UNCHANGED <<connection, addresses, jobs, shutdown, apc>>

Thread(t) == TakeJob(t) \/ NoJob(t) \/ Serve(t) \/ JobDone(t)

-----------------------------------------------------------------------------

Next ==
  \/ \E c \in Conns : Connect(c) \/ (ClientStep(c) /\ UNCHANGED pool)
  \/ Listen \/ AcceptFails
  \/ \E t \in Threads : Thread(t)

Spec == Init /\ [][Next]_vars

(* Threads run, handlers return, and the timeouts of keep_alive() and      *)
(* read() expire.  Clients owe nothing, accept() need not fail.            *)
FairSpec ==
  /\ Spec
  /\ \A t \in Threads : WF_vars(Thread(t))
  /\ WF_vars(Listen)

-----------------------------------------------------------------------------

(* Types of the thread pool, of listen() and of the connections. *)
TypeOK ==
  /\ ConnectionTypeOK
  /\ jobs \in Seq(Conns) /\ shutdown \in BOOLEAN
  /\ thread \in [Threads -> {"ready", "waiting", "exited"} \cup Conns]
  /\ addresses \in 0 .. MaxAddresses
  /\ apc \in {"bind", "accept", "enqueue", "notify", "shutdown", "join", "returned"}

(* Whoever has a connection has it alone: it is queued once, or in the     *)
(* hands of one thread, or just accepted, until its descriptor is closed.  *)
OneOwner ==
  /\ IsInjective(jobs)
  /\ \A c \in Conns :
       LET threads == {t \in Threads : thread[t] = c} IN
         /\ c \in ToSet(jobs) <=> at[c] = "queued"
         /\ Cardinality(threads) <= 1
         /\ at[c] \in {"none", "backlog", "accepted", "queued"} => threads = {}
         /\ at[c] \notin {"none", "backlog", "accepted", "queued", "closed"} => threads # {}

(* A thread leaves no job behind when the pool shuts down. *)
ShutdownDrains == apc = "returned" => \A c \in Conns : at[c] \in {"none", "closed"}

(* Every connection that was accepted is served and closed: no wake-up is  *)
(* lost, and no client holds a thread for ever.                            *)
ConnectionServed == \A c \in Conns : at[c] = "accepted" ~> at[c] = "closed"

(* After an error of accept() listen() returns. *)
ListenReturns == apc = "shutdown" ~> apc = "returned"

(* A connection has one owner, and its client knows when it ends. *)
Consistent == TypeOK /\ OneOwner /\ CloseAnnounced

(* Requests and connections get their answer, and listen() its end. *)
Served == RequestAnswered /\ ConnectionServed /\ ListenReturns
=============================================================================
