------------------------------- MODULE Server -------------------------------
(***************************************************************************)
(* The life of a program: its command line, echo_worker::create            *)
(* (src/test/echo.cpp 46-104) over endpoint_tcp_server, the constructors   *)
(* of epoll and client_pool and the slot memory, the time its control      *)
(* panel is up, and the destructors.  The client program goes from its     *)
(* command line to its panel (TestClient).                                 *)
(***************************************************************************)
EXTENDS CommandLine, SlotMemory, Listener

VARIABLE stage  \* how far main() is

vars == <<commandLine, memory, listener, stage>>

Init ==
  /\ CommandLineInit /\ MemoryInit /\ ListenerInit
  /\ stage = "options"

-----------------------------------------------------------------------------
(* Start.                                                                  *)

(* What the settings were is not read again once they have been used. *)
Forget ==
  /\ given' = <<>>
  /\ set' = Unset(program)
  /\ result' = "used"
  /\ UNCHANGED <<program, args>>

ParseOptions ==
  /\ stage = "options" /\ result = "options"
  /\ ReadCommandLine
  /\ UNCHANGED <<memory, listener, stage>>

(* usage() and the error messages leave main(). *)
Main ==
  /\ stage = "options" /\ result # "options"
  /\ stage' = IF result # "run" THEN "exit"
              ELSE IF program = "client" THEN "client panel" ELSE "listen"
  /\ UNCHANGED <<commandLine, memory, listener>>

(* endpoint_tcp_server: socket, SO_REUSEADDR, bind, listen. *)
Listen ==
  /\ stage = "listen"
  /\ stage' = "unblock"
  /\ lfd' = "listening"
  /\ Forget
  /\ UNCHANGED <<memory, blocking, registered, arrived, queue, announced,
                 exitByte, spc, batch, clients, phase, stranded>>

(* One of its calls fails.  The socket is closed, except after setsockopt. *)
ListenFails ==
  /\ stage = "listen"
  /\ stage' = "failed"
  /\ lfd' \in {"none", "bound", "closed"}
  /\ UNCHANGED <<commandLine, memory, blocking, registered, arrived, queue,
                 announced, exitByte, spc, batch, clients, phase, stranded>>

(* A faulty variant, for the checks: the result is not looked at. *)
UnblockUnchecked ==
  /\ stage = "unblock"
  /\ stage' = "pool"
  /\ blocking' \in BOOLEAN
  /\ UNCHANGED <<commandLine, memory, lfd, registered, arrived, queue,
                 announced, exitByte, spc, batch, clients, phase, stranded>>

Unblock ==
  /\ stage = "unblock"
  /\ \/ stage' = "pool" /\ blocking' = FALSE
     \/ stage' = "failed" /\ UNCHANGED blocking
  /\ UNCHANGED <<commandLine, memory, lfd, registered, arrived, queue,
                 announced, exitByte, spc, batch, clients, phase, stranded>>

(* The constructors of both epoll objects throw std::runtime_error, which  *)
(* init_server catches; the listener stays open.                           *)
EpollFails ==
  /\ stage = "pool"
  /\ stage' = "failed"
  /\ UNCHANGED <<commandLine, memory, listener>>

(* That of client_pool throws std::bad_alloc, which nobody catches.        *)
(* Memory that could not be mapped ends the program at its first node, and *)
(* nodes beyond it may or may not.                                         *)
MakePool ==
  /\ stage = "pool"
  /\ CreateSlots
  /\ stage' \in IF buffer' = "null" THEN {"terminated"}
                ELSE IF buffer' # "mapped" THEN {"crashed"}
                ELSE IF written' > mapped' THEN {"crashed", "add"} ELSE {"add"}
  /\ UNCHANGED <<commandLine, listener>>

(* server_pool::add, which tells of connections that came before. *)
Add ==
  /\ stage = "add"
  /\ stage' = "panel"
  /\ registered' = TRUE
  /\ announced' = (queue > 0)
  /\ UNCHANGED <<commandLine, memory, lfd, blocking, arrived, queue,
                 exitByte, spc, batch, clients, phase, stranded>>

AddFails ==
  /\ stage = "add"
  /\ stage' = "failed"
  /\ UNCHANGED <<commandLine, memory, listener>>

(* server_pool::bind makes these calls; create() has the pool made between *)
(* the second and the third.                                               *)
Bind == Listen \/ ListenFails \/ Unblock \/ Add \/ AddFails

Create == Bind \/ EpollFails \/ MakePool

-----------------------------------------------------------------------------
(* While the control panel is up, and after.                               *)

(* Past listen(), until main() returns. *)
Alive == stage \in {"unblock", "pool", "add", "panel", "destroy"}

Serve ==
  /\ Alive
  /\ \/ Connect
     \/ Release
     \/ ServerThread(capacity)
     \/ stage = "panel" /\ (RunBegin \/ StopBegin \/ StopEnd)
  /\ UNCHANGED <<commandLine, memory, stage>>

(* http.listen() returns: the panel cannot be bound, or its own listener   *)
(* failed.  Its handlers have been joined.                                 *)
PanelEnds ==
  /\ stage = "panel" /\ phase # "stopping"
  /\ stage' = "destroy"
  /\ UNCHANGED <<commandLine, memory, listener>>

(* A faulty variant: the thread is detached before the members go. *)
DestroyDetached ==
  /\ stage = "destroy"
  /\ stage' = "exit" /\ DestroySlots
  /\ lfd' \in {lfd, "closed"}
  /\ UNCHANGED <<commandLine, blocking, registered, arrived, queue,
                 announced, exitByte, spc, batch, clients, phase, stranded>>

(* ~echo_worker: svfd_ was never set, close() gets any number, that of the *)
(* listener included; then a thread that may still be joined ends the      *)
(* program in the destructor of work_, before sv_ goes with its slots.     *)
Destroy ==
  /\ stage = "destroy"
  /\ IF phase = "running"
       THEN stage' = "terminated" /\ UNCHANGED memory
       ELSE stage' = "exit" /\ DestroySlots
  /\ lfd' \in {lfd, "closed"}
  /\ UNCHANGED <<commandLine, blocking, registered, arrived, queue,
                 announced, exitByte, spc, batch, clients, phase, stranded>>

Next ==
  \/ ParseOptions \/ Main \/ Create \/ Serve \/ PanelEnds \/ Destroy

Spec == Init /\ [][Next]_vars

(* The server thread runs, and a stop() that was begun goes on. *)
Fairness ==
  /\ WF_vars(Alive /\ ServerThread(capacity) /\ UNCHANGED <<commandLine, memory, stage>>)
  /\ WF_vars(stage = "panel" /\ StopEnd /\ UNCHANGED <<commandLine, memory, stage>>)

FairSpec == Spec /\ Fairness

-----------------------------------------------------------------------------

(* Types of the assembled program. *)
TypeOK ==
  /\ CommandLineTypeOK /\ MemoryTypeOK /\ ListenerTypeOK
  /\ clients <= capacity
  /\ stage \in {"options", "listen", "unblock", "pool", "add", "panel", "client panel",
                "destroy", "failed", "terminated", "crashed", "exit"}

(* The slots are never unmapped under a thread that uses them, however     *)
(* the program ends.                                                       *)
MemoryOutlivesThreads ==
  spc # "off" \/ clients > 0 => buffer = "mapped"

(* A connection in the queue of a running server is accepted, or refused   *)
(* in the accept loop, unless its announcement was lost.                   *)
QueueServed ==
  queue > 0 /\ phase = "running" ~>
    queue = 0 \/ stranded \/ phase # "running" \/ stage # "panel"

(* stop() returns: the listener does not block the server thread. *)
StopReturns == phase = "stopping" ~> phase = "stopped"

(* The program runs as its command line says, maps what it unmaps, and its *)
(* listener owes no event.                                                 *)
Consistent ==
  TypeOK /\ RunsAsAsked /\ AddressTerminated /\ NothingLeftMapped /\ QueueAnnounced

(* Nobody waits for ever: neither a connection in the queue nor stop(). *)
Responds == QueueServed /\ StopReturns
=============================================================================
