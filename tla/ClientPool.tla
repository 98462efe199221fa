----------------------------- MODULE ClientPool -----------------------------
(***************************************************************************)
(* comm::client_pool with the server thread that feeds it                  *)
(* (src/pool.hpp), over a model of what the kernel does for it: sockets,   *)
(* descriptor numbers that are reused as soon as they are closed, and the  *)
(* epoll interest list with EPOLLONESHOT.                                  *)
(*                                                                         *)
(* The free list is the set FreeList describes (AtomicStack implements     *)
(* it).  Urgent data and EPOLLPRI are left out here.  The daisy chain that *)
(* hands the exit message from worker to worker is reduced to its effect:  *)
(* after stop() every worker finds the message in one of its batches.      *)
(***************************************************************************)
EXTENDS Naturals, FiniteSets

CONSTANTS
  Workers,        \* the threads of client_pool::run
  ClientCap,      \* number of client slots
  Fds,            \* descriptor numbers the kernel may hand out
  MaxSends,       \* bound: chunks a peer sends on one connection
  EndlessPeers,   \* do peers ignore that bound and send for ever?
  AddMayFail,     \* may epoll_ctl(EPOLL_CTL_ADD) fail?
  AppMayShutdown  \* may on_input call shutdown(sfd, SHUT_WR)?

ASSUME PoolAssumption ==
  /\ IsFiniteSet(Workers) /\ Workers # {}
  /\ IsFiniteSet(Fds) /\ 0 \notin Fds
  /\ ClientCap \in Nat \ {0}
  /\ MaxSends \in Nat
  /\ EndlessPeers \in BOOLEAN
  /\ AddMayFail \in BOOLEAN
  /\ AppMayShutdown \in BOOLEAN

VARIABLES
  sfd,      \* client::sfd of every slot, NoFd when the slot is unused
  free,     \* freeMem_
  count,    \* clientCount_
  sock,     \* the kernel's socket behind every descriptor
  reg,      \* interest list: the client pointer registered for a descriptor
  armed,    \* descriptors whose one-shot registration is enabled
  wpc,      \* where each worker is
  cur,      \* the client each worker is handling
  batch,    \* the events a worker got from epoll_wait and has not handled
  apc,      \* where the server thread is
  afd,      \* the descriptor it accepted (cfd)
  aslot,    \* the slot it popped (mem)
  phase     \* what run() and stop() have brought the pool to

pool    == <<sfd, free, count>>
kernel  == <<sock, reg, armed>>
workers == <<wpc, cur, batch>>
server  == <<apc, afd, aslot>>
vars    == <<pool, kernel, workers, server, phase>>

NoFd   == 0
NoSlot == 0
Slots  == 1 .. ClientCap

-----------------------------------------------------------------------------
(* The kernel.                                                             *)

ClosedSocket ==
  [open |-> FALSE, data |-> 0, left |-> 0,
   fin |-> FALSE, err |-> FALSE, shut |-> FALSE]

NewSocket == [ClosedSocket EXCEPT !.open = TRUE, !.left = MaxSends]

(* What a poll of a connected socket reports.  A reset shuts both          *)
(* directions down as well.                                                *)
Flags(f) ==
  LET s == sock[f] IN
    (IF s.data > 0 \/ s.fin \/ s.err THEN {"IN"} ELSE {})
      \cup (IF s.fin \/ s.err THEN {"RDHUP"} ELSE {})
      \cup (IF (s.fin /\ s.shut) \/ s.err THEN {"HUP"} ELSE {})
      \cup (IF s.err THEN {"ERR"} ELSE {})

Deliverable == {f \in armed : Flags(f) # {}}

(* The peer of an accepted connection sends, closes, or resets it.  An     *)
(* endless peer is held back by the receive buffer only.                   *)
PeerSend(f) ==
  /\ sock[f].open /\ ~sock[f].fin /\ ~sock[f].err /\ sock[f].left > 0
  /\ sock[f].data < MaxSends
  /\ sock' = [sock EXCEPT ![f].data = @ + 1,
                          ![f].left = IF EndlessPeers THEN @ ELSE @ - 1]
  /\ UNCHANGED <<pool, reg, armed, workers, server, phase>>

PeerClose(f) ==
  /\ sock[f].open /\ ~sock[f].fin /\ ~sock[f].err
  /\ sock' = [sock EXCEPT ![f].fin = TRUE, ![f].left = 0]
  /\ UNCHANGED <<pool, reg, armed, workers, server, phase>>

PeerReset(f) ==
  /\ sock[f].open /\ ~sock[f].err
  /\ sock' = [sock EXCEPT ![f].err = TRUE, ![f].left = 0]
  /\ UNCHANGED <<pool, reg, armed, workers, server, phase>>

(* close(f): the number is free for the next accept(), the registration    *)
(* goes away.  Closing a number that is not open does nothing.             *)
Close(f) ==
  /\ sock'  = [sock EXCEPT ![f] = ClosedSocket]
  /\ reg'   = [reg EXCEPT ![f] = NoSlot]
  /\ armed' = armed \ {f}

-----------------------------------------------------------------------------
(* The server thread: server_pool::process and client_pool::add_client.    *)

(* One turn of the accept loop is over, its locals are gone. *)
NextAccept ==
  /\ apc'   = "accept"
  /\ afd'   = NoFd
  /\ aslot' = NoSlot

Accept(f) ==
  /\ apc = "accept"
  /\ ~sock[f].open
  /\ sock' = [sock EXCEPT ![f] = NewSocket]
  /\ afd'  = f
  /\ apc'  = "unblock"
  /\ UNCHANGED <<pool, reg, armed, workers, aslot, phase>>

(* endpoint_unblock(cfd); its failure drops the connection. *)
Unblock ==
  /\ apc = "unblock"
  /\ apc' \in {"pop", "reject"}
  /\ UNCHANGED <<pool, kernel, workers, afd, aslot, phase>>

(* use(): take a slot, unless none is left. *)
UsePop ==
  /\ apc = "pop"
  /\ \/ \E s \in free :
          /\ free'  = free \ {s}
          /\ aslot' = s
          /\ apc'   = "construct"
     \/ /\ free = {}
        /\ apc' = "reject"
        /\ UNCHANGED <<free, aslot>>
  /\ UNCHANGED <<sfd, count, kernel, workers, afd, phase>>

(* A faulty variant, for the checks: the client is not counted. *)
UseUncounted ==
  /\ apc = "construct"
  /\ sfd' = [sfd EXCEPT ![aslot] = afd]
  /\ apc' = "add"
  /\ UNCHANGED <<free, count, kernel, workers, afd, aslot, phase>>

(* use(): count the client and construct it in its slot. *)
UseConstruct ==
  /\ apc = "construct"
  /\ count' = count + 1
  /\ sfd'   = [sfd EXCEPT ![aslot] = afd]
  /\ apc'   = "add"
  /\ UNCHANGED <<free, kernel, workers, afd, aslot, phase>>

(* A faulty variant: EPOLLIN and EPOLLRDHUP are not asked for. *)
AddUnarmed ==
  /\ apc = "add"
  /\ reg' = [reg EXCEPT ![afd] = aslot]
  /\ NextAccept
  /\ UNCHANGED <<pool, sock, armed, workers, phase>>

(* epoll::add(cl) succeeds, and the accept loop goes on. *)
AddOk ==
  /\ apc = "add"
  /\ reg'   = [reg EXCEPT ![afd] = aslot]
  /\ armed' = armed \cup {afd}
  /\ NextAccept
  /\ UNCHANGED <<pool, sock, workers, phase>>

(* epoll::add(cl) fails: add_client returns false, and nothing else. *)
AddFail ==
  /\ AddMayFail
  /\ apc = "add"
  /\ apc' = "reject"
  /\ UNCHANGED <<pool, kernel, workers, afd, aslot, phase>>

(* The connection was not taken: endpoint_close(cfd). *)
Reject ==
  /\ apc = "reject"
  /\ Close(afd)
  /\ NextAccept
  /\ UNCHANGED <<pool, workers, phase>>

-----------------------------------------------------------------------------
(* The workers: epoll::wait, client_pool::process and its handlers.        *)

Control == [cl |-> NoSlot, flags |-> {}]

(* A faulty variant: no EPOLLONESHOT. *)
EpollWaitNoOneShot(w) ==
  /\ wpc[w] = "loop"
  /\ batch[w] = {}
  /\ Deliverable # {} \/ phase = "stopping"
  /\ batch' = [batch EXCEPT ![w] =
                 {[cl |-> reg[f], flags |-> Flags(f)] : f \in Deliverable}
                   \cup (IF phase = "stopping" THEN {Control} ELSE {})]
  /\ UNCHANGED <<pool, kernel, wpc, cur, server, phase>>

(* epoll_wait() hands over everything that is ready and, the registrations *)
(* being one-shot, disables it.  The flags are those of this moment.       *)
EpollWait(w) ==
  /\ wpc[w] = "loop"
  /\ batch[w] = {}
  /\ Deliverable # {} \/ phase = "stopping"
  /\ batch' = [batch EXCEPT ![w] =
                 {[cl |-> reg[f], flags |-> Flags(f)] : f \in Deliverable}
                   \cup (IF phase = "stopping" THEN {Control} ELSE {})]
  /\ armed' = armed \ Deliverable
  /\ UNCHANGED <<pool, sock, reg, wpc, cur, server, phase>>

(* A faulty variant: a case label is missing. *)
InputFlagsNoHangup == {{"IN"}, {"IN", "HUP"}}

(* The case labels of process() that a socket without urgent data meets. *)
HangupFlags == {{"HUP"}, {"RDHUP"}}
InputFlags == {{"IN"}, {"IN", "HUP"}, {"IN", "RDHUP"}}

(* What process() does with an event: the step the worker goes to. *)
Disposition(flags) ==
  CASE flags \in HangupFlags -> "unuse"
    [] flags \in InputFlags  -> "read"
    [] OTHER -> IF "ERR" \in flags THEN "unuse" ELSE "loop"

(* A faulty variant: the client is re-armed before it is handled. *)
ProcessRearmsFirst(w) ==
  /\ wpc[w] = "loop"
  /\ \E e \in batch[w] \ {Control} :
       LET next == Disposition(e.flags) IN
         /\ batch' = [batch EXCEPT ![w] = @ \ {e}]
         /\ wpc'   = [wpc EXCEPT ![w] = next]
         /\ cur'   = [cur EXCEPT ![w] = IF next = "loop" THEN NoSlot ELSE e.cl]
         /\ armed' = armed \cup {sfd[e.cl]}
  /\ UNCHANGED <<pool, sock, reg, server, phase>>

Process(w) ==
  /\ wpc[w] = "loop"
  /\ \E e \in batch[w] \ {Control} :
       LET next == Disposition(e.flags) IN
         /\ batch' = [batch EXCEPT ![w] = @ \ {e}]
         /\ wpc'   = [wpc EXCEPT ![w] = next]
         /\ cur'   = [cur EXCEPT ![w] = IF next = "loop" THEN NoSlot ELSE e.cl]
  /\ UNCHANGED <<pool, kernel, server, phase>>

(* process() returns, and the worker takes the next event of its batch. *)
NextEvent(w) ==
  /\ wpc' = [wpc EXCEPT ![w] = "loop"]
  /\ cur' = [cur EXCEPT ![w] = NoSlot]

(* handle_epollin(), one recv() per step.  A chunk is handed to on_input(), *)
(* which may half-close the socket.                                         *)
ReadData(w) ==
  LET f == sfd[cur[w]] IN
    /\ wpc[w] = "read"
    /\ sock[f].data > 0
    /\ \E shut \in {sock[f].shut, sock[f].shut \/ AppMayShutdown} :
         sock' = [sock EXCEPT ![f].data = @ - 1, ![f].shut = shut]
    /\ UNCHANGED <<pool, reg, armed, workers, server, phase>>

(* recv() reports an error or, after a FIN, zero bytes. *)
ReadEnd(w) ==
  LET f == sfd[cur[w]] IN
    /\ wpc[w] = "read"
    /\ sock[f].data = 0
    /\ sock[f].err \/ sock[f].fin
    /\ wpc' = [wpc EXCEPT ![w] = "unuse"]
    /\ UNCHANGED <<pool, kernel, cur, batch, server, phase>>

(* recv() reports EAGAIN ... *)
ReadAgain(w) ==
  LET f == sfd[cur[w]] IN
    /\ wpc[w] = "read"
    /\ sock[f].data = 0 /\ ~sock[f].err /\ ~sock[f].fin
    /\ wpc' = [wpc EXCEPT ![w] = "rearm"]
    /\ UNCHANGED <<pool, kernel, cur, batch, server, phase>>

(* A faulty variant: rearm() is not called. *)
RearmForgotten(w) ==
  /\ wpc[w] = "rearm"
  /\ NextEvent(w)
  /\ UNCHANGED <<pool, kernel, batch, server, phase>>

(* ... and the registration is enabled again, whatever arrived meanwhile. *)
Rearm(w) ==
  /\ wpc[w] = "rearm"
  /\ armed' = armed \cup {sfd[cur[w]]}
  /\ NextEvent(w)
  /\ UNCHANGED <<pool, sock, reg, batch, server, phase>>

(* unuse(): leave the interest list and close the socket, ... *)
UnuseClose(w) ==
  /\ wpc[w] = "unuse"
  /\ Close(sfd[cur[w]])
  /\ wpc' = [wpc EXCEPT ![w] = "clear"]
  /\ UNCHANGED <<pool, cur, batch, server, phase>>

(* A faulty variant: the descriptor is not forgotten. *)
UnuseClearForgotten(w) ==
  /\ wpc[w] = "clear"
  /\ wpc' = [wpc EXCEPT ![w] = "push"]
  /\ UNCHANGED <<pool, kernel, cur, batch, server, phase>>

(* ... forget the descriptor, ... *)
UnuseClear(w) ==
  /\ wpc[w] = "clear"
  /\ sfd' = [sfd EXCEPT ![cur[w]] = NoFd]
  /\ wpc' = [wpc EXCEPT ![w] = "push"]
  /\ UNCHANGED <<free, count, kernel, cur, batch, server, phase>>

(* ... give the slot back, ... *)
UnusePush(w) ==
  /\ wpc[w] = "push"
  /\ free' = free \cup {cur[w]}
  /\ wpc'  = [wpc EXCEPT ![w] = "dec"]
  /\ UNCHANGED <<sfd, count, kernel, cur, batch, server, phase>>

(* A faulty variant: the client is counted for ever. *)
UnuseCountForgotten(w) ==
  /\ wpc[w] = "dec"
  /\ NextEvent(w)
  /\ UNCHANGED <<pool, kernel, batch, server, phase>>

(* ... and only then stop counting the client. *)
UnuseCount(w) ==
  /\ wpc[w] = "dec"
  /\ count' = count - 1
  /\ NextEvent(w)
  /\ UNCHANGED <<sfd, free, kernel, batch, server, phase>>

(* A faulty variant: the message ends the batch, not wait(). *)
WorkerBreaks(w) ==
  /\ wpc[w] = "loop"
  /\ Control \in batch[w]
  /\ batch' = [batch EXCEPT ![w] = {}]
  /\ UNCHANGED <<pool, kernel, wpc, cur, server, phase>>

(* The exit message: the worker returns from wait() and drops the events   *)
(* of the batch that come after it.                                        *)
WorkerExit(w) ==
  /\ wpc[w] = "loop"
  /\ Control \in batch[w]
  /\ batch' = [batch EXCEPT ![w] = {}]
  /\ wpc'   = [wpc EXCEPT ![w] = "exited"]
  /\ UNCHANGED <<pool, kernel, cur, server, phase>>

Worker(w) ==
  \/ EpollWait(w) \/ Process(w)
  \/ ReadData(w) \/ ReadEnd(w) \/ ReadAgain(w) \/ Rearm(w)
  \/ UnuseClose(w) \/ UnuseClear(w) \/ UnusePush(w) \/ UnuseCount(w)
  \/ WorkerExit(w)

-----------------------------------------------------------------------------
(* run() and stop(), as server_pool calls them.                            *)

(* server_pool::stop waits for the server thread first: it leaves wait()   *)
(* between two calls of process().                                         *)
StopServer ==
  /\ apc = "accept"
  /\ apc' = "off"
  /\ UNCHANGED <<pool, kernel, workers, afd, aslot, phase>>

(* client_pool::stop: the exit message is sent, ... *)
StopPool ==
  /\ apc = "off"
  /\ phase = "running"
  /\ phase' = "stopping"
  /\ UNCHANGED <<pool, kernel, workers, server>>

(* A faulty variant: the slots are not swept. *)
JoinNoSweep ==
  /\ phase = "stopping"
  /\ \A w \in Workers : wpc[w] = "exited"
  /\ phase' = "stopped"
  /\ UNCHANGED <<pool, kernel, workers, server>>

(* ... all workers are joined, ... *)
JoinWorkers ==
  /\ phase = "stopping"
  /\ \A w \in Workers : wpc[w] = "exited"
  /\ phase' = "sweeping"
  /\ UNCHANGED <<pool, kernel, workers, server>>

(* A faulty variant: unused slots are swept as well. *)
SweepUnused(s) ==
  /\ phase = "sweeping"
  /\ \A r \in 1 .. s - 1 : sfd[r] = NoFd
  /\ Close(sfd[s])
  /\ sfd'   = [sfd EXCEPT ![s] = NoFd]
  /\ free'  = free \cup {s}
  /\ count' = count - 1
  /\ UNCHANGED <<workers, server, phase>>

(* ... and every slot that still has a descriptor is taken through         *)
(* unuse(), from the first to the last.  No other thread of the pool is    *)
(* left, so one slot is one step.                                          *)
Sweep(s) ==
  /\ phase = "sweeping"
  /\ sfd[s] # NoFd
  /\ \A r \in 1 .. s - 1 : sfd[r] = NoFd
  /\ Close(sfd[s])
  /\ sfd'   = [sfd EXCEPT ![s] = NoFd]
  /\ free'  = free \cup {s}
  /\ count' = count - 1
  /\ UNCHANGED <<workers, server, phase>>

StopDone ==
  /\ phase = "sweeping"
  /\ \A s \in Slots : sfd[s] = NoFd
  /\ phase' = "stopped"
  /\ UNCHANGED <<pool, kernel, workers, server>>

(* A stopped server may be run again. *)
Run ==
  /\ phase = "stopped"
  /\ phase' = "running"
  /\ wpc'   = [w \in Workers |-> "loop"]
  /\ apc'   = "accept"
  /\ UNCHANGED <<pool, kernel, cur, batch, afd, aslot>>

-----------------------------------------------------------------------------

Init ==
  /\ sfd   = [s \in Slots |-> NoFd]
  /\ free  = Slots
  /\ count = 0
  /\ sock  = [f \in Fds |-> ClosedSocket]
  /\ reg   = [f \in Fds |-> NoSlot]
  /\ armed = {}
  /\ wpc   = [w \in Workers |-> "loop"]
  /\ cur   = [w \in Workers |-> NoSlot]
  /\ batch = [w \in Workers |-> {}]
  /\ apc   = "accept"
  /\ afd   = NoFd
  /\ aslot = NoSlot
  /\ phase = "running"

Peer == \E f \in Fds : PeerSend(f) \/ PeerClose(f) \/ PeerReset(f)

AddClient ==
  \/ Unblock \/ UsePop \/ UseConstruct \/ AddOk \/ AddFail \/ Reject

Stop == StopPool \/ JoinWorkers \/ (\E s \in Slots : Sweep(s)) \/ StopDone

Next ==
  \/ Peer
  \/ \E f \in Fds : Accept(f)
  \/ AddClient
  \/ \E w \in Workers : Worker(w)
  \/ StopServer \/ Stop \/ Run

Spec == Init /\ [][Next]_vars

(* The threads run; a stop() that was begun goes on.  Peers, new           *)
(* connections, stop() and run() come when they like, or never.            *)
Fairness ==
  /\ \A w \in Workers : WF_vars(Worker(w))
  /\ WF_vars(AddClient)
  /\ WF_vars(Stop)

FairSpec == Spec /\ Fairness

-----------------------------------------------------------------------------

WorkerPlaces ==
  {"loop", "read", "rearm", "unuse", "clear", "push", "dec", "exited"}

ServerPlaces ==
  {"accept", "unblock", "pop", "construct", "add", "reject", "off"}

SocketStates ==
  [open : BOOLEAN, data : 0 .. MaxSends, left : 0 .. MaxSends,
   fin : BOOLEAN, err : BOOLEAN, shut : BOOLEAN]

EventSet ==
  [cl : Slots \cup {NoSlot}, flags : SUBSET {"IN", "RDHUP", "HUP", "ERR"}]

(* Types: slots, descriptors, event batches and the program counters of the pool. *)
TypeOK ==
  /\ sfd   \in [Slots -> Fds \cup {NoFd}]
  /\ free  \subseteq Slots
  /\ count \in Nat
  /\ sock  \in [Fds -> SocketStates]
  /\ reg   \in [Fds -> Slots \cup {NoSlot}]
  /\ armed \subseteq Fds
  /\ wpc   \in [Workers -> WorkerPlaces]
  /\ cur   \in [Workers -> Slots \cup {NoSlot}]
  /\ batch \in [Workers -> SUBSET EventSet]
  /\ apc   \in ServerPlaces
  /\ afd   \in Fds \cup {NoFd}
  /\ aslot \in Slots \cup {NoSlot}
  /\ phase \in {"running", "stopping", "sweeping", "stopped"}

(* The clients a worker answers for: those of the events it has yet to     *)
(* handle, and the one it is handling until that is back on the free list. *)
Handling(w) ==
  {e.cl : e \in batch[w] \ {Control}}
    \cup (IF wpc[w] \in {"loop", "dec", "exited"} THEN {} ELSE {cur[w]})

(* Who can touch a slot next: a worker, an enabled registration, the free  *)
(* list, or the server thread that is setting it up.                       *)
Keepers(s) ==
    Cardinality({w \in Workers : s \in Handling(w)})
  + Cardinality({f \in armed : reg[f] = s})
  + Cardinality({s} \cap free)
  + Cardinality({s} \cap {aslot})

(* No two threads ever work on the same client, and none works on a client *)
(* whose slot is free, being set up, or about to be reported to another    *)
(* thread.  This is what the one-shot registration is for.                 *)
AtMostOneKeeper == \A s \in Slots : Keepers(s) <= 1

(* A slot whose connection epoll_ctl refused: the connection is closed,    *)
(* the slot and the number in it are held until stop() sweeps them.        *)
Stale(s) ==
  AddMayFail /\ sfd[s] # NoFd /\ reg[sfd[s]] # s /\ Keepers(s) = 0

(* A client that was closed from both ends: process() has no case for what *)
(* epoll then reports, and does not re-arm it.                             *)
HalfClosed(s) ==
  LET f == sfd[s] IN f # NoFd /\ reg[f] = s /\ sock[f].fin /\ sock[f].shut

(* While the pool runs every client can still be reached: a slot that is   *)
(* not free is in a thread's hands or has an enabled registration.  A      *)
(* client nobody keeps stays connected and unheard until stop(); the code  *)
(* has two, the ones above.                                                *)
NoOrphan ==
  phase = "running" => \A s \in Slots : Keepers(s) >= 1 \/ Stale(s) \/ HalfClosed(s)

(* Descriptor numbers are reused at once, the pool's own records of them   *)
(* never get mixed up: a registration leads to the slot that holds the     *)
(* open descriptor, and two slots hold the same number only while one of   *)
(* them is about to forget it or was refused by epoll_ctl.                 *)
DescriptorsConsistent ==
  /\ \A f \in Fds :
       reg[f] # NoSlot => sock[f].open /\ sfd[reg[f]] = f
  /\ \A r, s \in Slots :
       r # s /\ sfd[r] = sfd[s] /\ sfd[s] # NoFd =>
         \/ \E w \in Workers : wpc[w] = "clear" /\ cur[w] \in {r, s}
         \/ Stale(r) \/ Stale(s)

(* A handler reads, re-arms and closes the connection its event was about, *)
(* never one that was accepted since under the same number.                *)
HandlerOwnsSocket ==
  \A w \in Workers :
    wpc[w] \in {"read", "rearm", "unuse"} =>
      /\ sfd[cur[w]] # NoFd
      /\ sock[sfd[cur[w]]].open
      /\ reg[sfd[cur[w]]] = cur[w]

(* get_active_count(), when no client is being added or released, is the   *)
(* number of open connections, and of refused ones still held.             *)
CountAtRest ==
  apc \in {"accept", "off"} /\ (\A w \in Workers : wpc[w] \in {"loop", "exited"})
    => count = Cardinality({f \in Fds : sock[f].open}) + Cardinality({s \in Slots : Stale(s)})

(* At any other time the counter is off by the clients that are just being *)
(* added or released, and by no more.                                      *)
CountTracksSlots ==
  count + Cardinality({s \in Slots : apc = "construct" /\ s = aslot})
    = Cardinality(Slots \ free) + Cardinality({w \in Workers : wpc[w] = "dec"})

(* stop() leaves nothing behind, whatever events the workers dropped when  *)
(* they exited: run() starts again with every slot free, no connection     *)
(* open and nothing registered.                                            *)
CleanStop ==
  phase = "stopped" =>
    /\ free = Slots
    /\ count = 0
    /\ armed = {}
    /\ \A f \in Fds : ~sock[f].open /\ reg[f] = NoSlot

(* What a connection has for the pool to see. *)
Pending(f) == sock[f].data > 0 \/ sock[f].fin \/ sock[f].err

(* No client is forgotten: what a registered client sent is read, or its   *)
(* connection is closed (with data unread, if an event of hanging up came  *)
(* first); one that hung up or failed is closed.  A connection that was    *)
(* closed from both ends may be forgotten, see HalfClosed.                 *)
Attended ==
  \A f \in Fds :
    reg[f] # NoSlot /\ Pending(f)
      ~> ~sock[f].open \/ ~Pending(f) \/ (sock[f].fin /\ sock[f].shut)

(* stop() returns. *)
StopReturns == phase = "stopping" ~> phase = "stopped"

(* The pool's own records agree with each other and with the kernel's: the *)
(* slots, the descriptors and the number of active clients.                *)
Consistent == TypeOK /\ DescriptorsConsistent /\ CountTracksSlots /\ CountAtRest

(* Exactly one thread or registration can touch a client of a running      *)
(* pool, and none a client the pool has lost.                              *)
OneKeeper == AtMostOneKeeper /\ NoOrphan
=============================================================================
