------------------------------ MODULE Listener ------------------------------
(***************************************************************************)
(* The listening socket and the server thread behind it: server_pool       *)
(* bind/add/process (src/pool.hpp) over an edge-triggered registration     *)
(* (src/epoll.hpp 105-113).  EchoWorker has the details of run() and       *)
(* stop(), ClientPool those of add_client().                               *)
(***************************************************************************)
EXTENDS Naturals

CONSTANTS
  MaxConns,       \* bound: connections the peers make
  MaxFds,         \* descriptors left to clients (RLIMIT_NOFILE)
  AcceptMayFail,  \* may accept() fail for a single connection?
  ListenerMayFail \* may epoll report EPOLLERR alone for the listener?

ASSUME ListenerAssumption ==
  /\ MaxConns \in Nat
  /\ MaxFds \in Nat
  /\ AcceptMayFail \in BOOLEAN
  /\ ListenerMayFail \in BOOLEAN

VARIABLES
  lfd,        \* the listener: "none", "bound", "listening" or "closed"
  blocking,   \* its file status
  registered, \* whether epoll watches it
  arrived,    \* connections made so far
  queue,      \* connections in its queue
  announced,  \* it is on epoll's ready list
  exitByte,   \* the exit message is in the self-pipe
  spc,        \* where the server thread is
  batch,      \* the events it has not handled
  clients,    \* slots in use, each with its descriptor
  phase,      \* what run() and stop() have brought the server to
  stranded    \* history: the queue lost its announcement, and no connection
              \* has come since

socket   == <<lfd, blocking, registered>>
listener == <<socket, arrived, queue, announced, exitByte, spc, batch, clients, phase, stranded>>

ListenerInit ==
  /\ lfd = "none" /\ blocking = TRUE /\ registered = FALSE
  /\ arrived = 0 /\ queue = 0 /\ announced = FALSE
  /\ exitByte = FALSE /\ spc = "off" /\ batch = {}
  /\ clients = 0 /\ phase = "stopped" /\ stranded = FALSE

-----------------------------------------------------------------------------
(* Peers.                                                                  *)

Connect ==
  /\ lfd = "listening" /\ arrived < MaxConns
  /\ arrived' = arrived + 1
  /\ queue' = queue + 1
  /\ announced' = registered
  /\ stranded' = FALSE
  /\ UNCHANGED <<socket, exitByte, spc, batch, clients, phase>>

(* A client is released by a worker of the pool. *)
Release ==
  /\ clients > 0 /\ phase # "stopped"
  /\ clients' = clients - 1
  /\ UNCHANGED <<socket, arrived, queue, announced, exitByte, spc, batch, phase, stranded>>

-----------------------------------------------------------------------------
(* The server thread.                                                      *)

(* epoll_wait().  The edge of the listener is used up by its event. *)
Wait ==
  /\ spc = "poll" /\ (announced \/ exitByte)
  /\ batch' = (IF announced THEN {"listener"} ELSE {}) \cup (IF exitByte THEN {"exit"} ELSE {})
  /\ announced' = FALSE
  /\ spc' = "batch"
  /\ UNCHANGED <<socket, arrived, queue, exitByte, clients, phase, stranded>>

(* process() without EPOLLERR: the accept loop. *)
ListenerEvent ==
  /\ spc = "batch" /\ "listener" \in batch
  /\ batch' = batch \ {"listener"}
  /\ spc' = "accept"
  /\ UNCHANGED <<socket, arrived, queue, announced, exitByte, clients, phase, stranded>>

(* process() with EPOLLERR: the listener is closed, its queue lost. *)
ListenerError ==
  /\ ListenerMayFail
  /\ spc = "batch" /\ "listener" \in batch
  /\ batch' = batch \ {"listener"}
  /\ lfd' = "closed" /\ registered' = FALSE
  /\ queue' = 0 /\ announced' = FALSE
  /\ UNCHANGED <<blocking, arrived, exitByte, spc, clients, phase, stranded>>

(* The exit message ends wait(): what follows it in the batch is dropped. *)
ExitEvent ==
  /\ spc = "batch" /\ "exit" \in batch
  /\ batch' = {} /\ exitByte' = FALSE
  /\ spc' = "off"
  /\ stranded' = (stranded \/ ("listener" \in batch /\ queue > 0))
  /\ UNCHANGED <<socket, arrived, queue, announced, clients, phase>>

BatchDone ==
  /\ spc = "batch" /\ batch = {}
  /\ spc' = "poll"
  /\ UNCHANGED <<socket, arrived, queue, announced, exitByte, batch, clients, phase, stranded>>

Accept ==
  /\ spc = "accept" /\ queue > 0 /\ clients < MaxFds
  /\ queue' = queue - 1
  /\ spc' = "add"
  /\ UNCHANGED <<socket, arrived, announced, exitByte, batch, clients, phase, stranded>>

(* EMFILE, or an error of one connection, which the kernel may have taken  *)
(* off the queue: the loop ends like an empty queue.                       *)
AcceptFails ==
  /\ spc = "accept" /\ queue > 0
  /\ clients = MaxFds \/ AcceptMayFail
  /\ queue' \in {queue} \cup (IF AcceptMayFail THEN {queue - 1} ELSE {})
  /\ spc' = "batch"
  /\ stranded' = (queue' > 0)
  /\ UNCHANGED <<socket, arrived, announced, exitByte, batch, clients, phase>>

(* EAGAIN.  A blocking listener would keep the thread here. *)
AcceptNone ==
  /\ spc = "accept" /\ queue = 0 /\ ~blocking
  /\ spc' = "batch"
  /\ UNCHANGED <<socket, arrived, queue, announced, exitByte, batch, clients, phase, stranded>>

(* A faulty variant, for the checks: one connection per event. *)
AddClientOnce(cap) ==
  /\ spc = "add"
  /\ clients' \in {clients} \cup (IF clients < cap THEN {clients + 1} ELSE {})
  /\ spc' = "batch"
  /\ UNCHANGED <<socket, arrived, queue, announced, exitByte, batch, phase, stranded>>

(* A faulty variant: a client that is refused ends the loop. *)
AddClientBreaks(cap) ==
  /\ spc = "add"
  /\ clients' \in {clients} \cup (IF clients < cap THEN {clients + 1} ELSE {})
  /\ spc' = IF clients' = clients THEN "batch" ELSE "accept"
  /\ UNCHANGED <<socket, arrived, queue, announced, exitByte, batch, phase, stranded>>

(* A faulty variant: the free list is not asked whether it is empty. *)
AddClientUnbounded(cap) ==
  /\ spc = "add"
  /\ clients' \in {clients, clients + 1}
  /\ spc' = "accept"
  /\ UNCHANGED <<socket, arrived, queue, announced, exitByte, batch, phase, stranded>>

(* endpoint_unblock() and add_client(): the client gets one of cap slots,  *)
(* or one of these calls fails and the connection is closed.               *)
AddClient(cap) ==
  /\ spc = "add"
  /\ clients' \in {clients} \cup (IF clients < cap THEN {clients + 1} ELSE {})
  /\ spc' = "accept"
  /\ UNCHANGED <<socket, arrived, queue, announced, exitByte, batch, phase, stranded>>

ServerThread(cap) ==
  \/ Wait \/ ListenerEvent \/ ListenerError \/ ExitEvent \/ BatchDone
  \/ Accept \/ AcceptFails \/ AcceptNone \/ AddClient(cap)

-----------------------------------------------------------------------------
(* run() and stop().                                                       *)

RunBegin ==
  /\ phase = "stopped"
  /\ phase' = "running"
  /\ spc' = "poll"
  /\ UNCHANGED <<socket, arrived, queue, announced, exitByte, batch, clients, stranded>>

StopBegin ==
  /\ phase = "running"
  /\ phase' = "stopping"
  /\ exitByte' = TRUE
  /\ UNCHANGED <<socket, arrived, queue, announced, spc, batch, clients, stranded>>

(* The server thread has left, client_pool::stop releases every client. *)
StopEnd ==
  /\ phase = "stopping" /\ spc = "off"
  /\ phase' = "stopped"
  /\ clients' = 0
  /\ UNCHANGED <<socket, arrived, queue, announced, exitByte, spc, batch, stranded>>

-----------------------------------------------------------------------------

(* Types of the listener and of the slots server_pool takes for its clients. *)
ListenerTypeOK ==
  /\ lfd \in {"none", "bound", "listening", "closed"}
  /\ {blocking, registered, announced, exitByte, stranded} \subseteq BOOLEAN
  /\ arrived \in 0 .. MaxConns /\ queue \in 0 .. arrived
  /\ spc \in {"off", "poll", "batch", "accept", "add"}
  /\ batch \subseteq {"listener", "exit"}
  /\ clients \in 0 .. MaxFds
  /\ phase \in {"stopped", "running", "stopping"}

(* The registration is edge-triggered: whenever the server thread waits,   *)
(* connections in the queue have an event pending, unless an accept()      *)
(* failed or the event was dropped with the exit message.                  *)
QueueAnnounced ==
  registered /\ queue > 0 /\ spc \in {"off", "poll"} => announced \/ stranded
=============================================================================
