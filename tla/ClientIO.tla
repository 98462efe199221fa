------------------------------ MODULE ClientIO ------------------------------
(***************************************************************************)
(* What becomes of the bytes of one connection: client_pool::process with  *)
(* all its cases and the handlers for input and urgent data (src/pool.hpp  *)
(* 203-392), over a model of the kernel's receive queue with TCP's urgent  *)
(* mark.  ClientPool shows that one worker at a time has the client.       *)
(*                                                                         *)
(* Byte p is the p-th byte of the stream.  The kernel (Linux, SO_OOBINLINE *)
(* off) remembers one urgent position.  recv() stops in front of it, and   *)
(* from there skips the urgent byte; a newer mark turns the older byte     *)
(* into ordinary data, or discards it if it is the next to be read.        *)
(***************************************************************************)
EXTENDS Naturals, Sequences, SequencesExt

CONSTANTS
  MaxBytes,   \* bound: bytes the peer sends
  BufSize     \* client::size, the most one recv() returns

ASSUME IOAssumption ==
  /\ MaxBytes \in Nat
  /\ BufSize \in Nat \ {0}

VARIABLES
  kind,      \* how the peer sent each byte: "data" or "urgent"
  arrived,   \* bytes received by the kernel
  copied,    \* bytes that left the receive queue
  urg,       \* the kernel's urgent state
  mark,      \* and the position it is about
  fin, err,  \* the peer has closed, or reset the connection
  pc,        \* where the worker is, "wait" when the registration is enabled
  flags,     \* the event it handles
  calls,     \* the callbacks made so far: which, with what byte
  reported,  \* history: the position of the last EPOLLPRI event
  moved,     \* history: the mark moved between SIOCATMARK and MSG_OOB
  stale      \* history: on_write_ready was called for a released client

network == <<kind, arrived, mark, fin, err>>
history == <<reported, moved, stale>>
vars    == <<network, copied, urg, pc, flags, calls, history>>

-----------------------------------------------------------------------------
(* The peer and the kernel.                                                *)

Open == ~fin /\ ~err /\ pc # "done"

(* The mark moves to position p. *)
MoveMark(p, state) ==
  /\ urg' = state
  /\ mark' = p
  /\ copied' = IF urg # "none" /\ mark = copied + 1 /\ mark <= arrived
                 THEN copied + 1 ELSE copied
  /\ reported' = 0
  /\ moved' = (moved \/ pc = "oob")

PeerSend(k) ==
  /\ Open /\ Len(kind) < MaxBytes
  /\ kind' = Append(kind, k)
  /\ UNCHANGED <<arrived, mark, fin, err, copied, urg, pc, flags, calls, history>>

NewMark(p) == kind[p] = "urgent" /\ (urg = "none" \/ p > mark)

Arrive ==
  /\ pc # "done" /\ ~err /\ arrived < Len(kind)
  /\ arrived' = arrived + 1
  /\ IF NewMark(arrived + 1)
       THEN MoveMark(arrived + 1, "valid")
       ELSE /\ urg' = IF urg = "notyet" /\ mark = arrived + 1 THEN "valid" ELSE urg
            /\ UNCHANGED <<mark, copied, reported, moved>>
  /\ UNCHANGED <<kind, fin, err, pc, flags, calls, stale>>

(* A segment announces an urgent byte that a later one will bring. *)
Announce(p) ==
  /\ pc # "done" /\ ~err /\ p > arrived /\ NewMark(p)
  /\ MoveMark(p, "notyet")
  /\ UNCHANGED <<kind, arrived, fin, err, pc, flags, calls, stale>>

PeerClose ==
  /\ Open /\ arrived = Len(kind)
  /\ fin' = TRUE
  /\ UNCHANGED <<kind, arrived, mark, err, copied, urg, pc, flags, calls, history>>

PeerReset ==
  /\ ~err /\ pc # "done"
  /\ err' = TRUE
  /\ UNCHANGED <<kind, arrived, mark, fin, copied, urg, pc, flags, calls, history>>

AtMark == urg # "none" /\ mark = copied + 1

(* Poll: EPOLLIN does not count an urgent byte that is next. *)
Ready ==
  {"OUT"}
    \cup (IF fin \/ err \/ arrived > copied + (IF AtMark THEN 1 ELSE 0) THEN {"IN"} ELSE {})
    \cup (IF urg = "valid" THEN {"PRI"} ELSE {})
    \cup (IF fin \/ err THEN {"RDHUP"} ELSE {})
    \cup (IF err THEN {"HUP", "ERR"} ELSE {})

(* recv(): the bytes from copied + 1 on, short of the mark, and the number *)
(* of the first and last of them.                                          *)
RecvFrom == IF AtMark /\ mark <= arrived THEN copied + 2 ELSE copied + 1

RecvTo ==
  LET stops == {arrived, RecvFrom + BufSize - 1}
                 \cup (IF urg # "none" /\ mark >= RecvFrom THEN {mark - 1} ELSE {})
  IN CHOOSE n \in stops : \A m \in stops : n <= m

(* The queue up to byte n is gone, and with it a mark on the way. *)
Consume(n) ==
  /\ copied' = n
  /\ urg' = IF urg # "none" /\ mark <= n THEN "none" ELSE urg

-----------------------------------------------------------------------------
(* The worker.                                                             *)

(* A faulty variant, for the checks: EPOLLOUT is requested as well. *)
RequestedOut == {"IN", "RDHUP", "PRI", "HUP", "ERR", "OUT"}

(* What add() and rearm() ask for, and what epoll reports in any case. *)
Requested == {"IN", "RDHUP", "PRI"} \cup {"HUP", "ERR"}

EpollWait ==
  /\ pc = "wait"
  /\ Ready \cap Requested # {}
  /\ flags' = Ready \cap Requested
  /\ reported' = IF "PRI" \in flags' THEN mark ELSE reported
  /\ pc' = "process"
  /\ UNCHANGED <<network, copied, urg, calls, moved, stale>>

Hangups == {{}, {"HUP"}, {"RDHUP"}}

(* A faulty variant: EPOLLIN with EPOLLPRI is handled as input. *)
InputCasesWide == {{"IN"} \cup h : h \in Hangups} \cup {{"IN", "PRI"}}

InputCases == {{"IN"} \cup h : h \in Hangups}

(* A faulty variant: the labels with EPOLLRDHUP and EPOLLHUP are missing. *)
UrgentCasesNarrow == {{"PRI"}, {"IN", "PRI"}}

UrgentCases == {u \cup h : u \in {{"PRI"}, {"IN", "PRI"}}, h \in Hangups}

WriteCases == {d \cup {"OUT"} : d \in SUBSET {"IN", "PRI"}}

(* The switch of process(); EPOLLOUT matters to WriteCases only. *)
Handler ==
  LET f == flags \ {"OUT"} IN
    CASE f \in {{"HUP"}, {"RDHUP"}} -> "unuse"
      [] f \in InputCases  -> "input"
      [] f \in UrgentCases -> "mark"
      [] OTHER -> IF "ERR" \in flags THEN "unuse" ELSE "lost"

Process ==
  /\ pc = "process"
  /\ pc' = Handler
  /\ UNCHANGED <<network, copied, urg, flags, calls, history>>

(* process() returns, after handle_epollout() if that is called. *)
Return(place) ==
  /\ pc' = place
  /\ flags' = {}
  /\ stale' = (stale \/ (flags \in WriteCases /\ place = "done"))

Input(from, to) == [i \in 1 .. to + 1 - from |-> [name |-> "on_input", byte |-> from - 1 + i]]

(* A faulty variant: what handle_epollpri() reads is not passed on. *)
ReadUnheard(loop) ==
  /\ pc = loop
  /\ RecvFrom <= RecvTo
  /\ Consume(RecvTo)
  /\ calls' = IF loop = "input" THEN calls \o Input(RecvFrom, RecvTo) ELSE calls
  /\ pc' = IF loop = "input" THEN "input" ELSE "mark"
  /\ UNCHANGED <<network, flags, history>>

(* recv() returns data, and on_input() gets it.  handle_epollin() comes    *)
(* back to recv(), handle_epollpri() to its look at the mark.              *)
Read(loop) ==
  /\ pc = loop
  /\ RecvFrom <= RecvTo
  /\ Consume(RecvTo)
  /\ calls' = calls \o Input(RecvFrom, RecvTo)
  /\ pc' = IF loop = "input" THEN "input" ELSE "mark"
  /\ UNCHANGED <<network, flags, history>>

(* A faulty variant: EAGAIN is an error like any other. *)
ReadNothingUnuses(loop) ==
  /\ pc = loop
  /\ RecvFrom > RecvTo
  /\ Consume(RecvFrom - 1)
  /\ pc' = IF fin \/ err \/ loop = "urgent" THEN "unuse" ELSE "rearm"
  /\ UNCHANGED <<network, flags, calls, history>>

(* recv() has nothing to return: -1 with EAGAIN, with an error, or 0. *)
ReadNothing(loop) ==
  /\ pc = loop
  /\ RecvFrom > RecvTo
  /\ Consume(RecvFrom - 1)
  /\ pc' = IF fin \/ err THEN "unuse" ELSE "rearm"
  /\ UNCHANGED <<network, flags, calls, history>>

(* A faulty variant: the mark is taken for where the urgent byte is. *)
LookAnywhere ==
  /\ pc = "mark"
  /\ pc' = IF urg = "valid" THEN "oob" ELSE "urgent"
  /\ UNCHANGED <<network, copied, urg, flags, calls, history>>

(* ioctl(SIOCATMARK) *)
Look ==
  /\ pc = "mark"
  /\ pc' = IF AtMark THEN "oob" ELSE "urgent"
  /\ UNCHANGED <<network, copied, urg, flags, calls, history>>

(* recv(MSG_OOB) returns the urgent byte, and on_oob() of client_pool      *)
(* itself gets it, which does nothing: unlike that of on_input(), the call *)
(* is not made through the derived class.                                  *)
ReadOob ==
  /\ pc = "oob"
  /\ urg = "valid" /\ (err => fin)
  /\ urg' = "read"
  /\ calls' = Append(calls, [name |-> "client_pool::on_oob", byte |-> mark])
  /\ pc' = "urgent"
  /\ UNCHANGED <<network, copied, flags, history>>

(* It fails: not connected, not there yet, or already read. *)
ReadOobFails ==
  /\ pc = "oob"
  /\ urg # "valid" \/ (err /\ ~fin)
  /\ pc' = "unuse"
  /\ UNCHANGED <<network, copied, urg, flags, calls, history>>

(* A faulty variant: the registration stays disabled. *)
RearmForgotten ==
  /\ pc = "rearm"
  /\ Return("lost")
  /\ UNCHANGED <<network, copied, urg, calls, reported, moved>>

Rearm ==
  /\ pc = "rearm"
  /\ Return("wait")
  /\ UNCHANGED <<network, copied, urg, calls, reported, moved>>

Unuse ==
  /\ pc = "unuse"
  /\ Return("done")
  /\ UNCHANGED <<network, copied, urg, calls, reported, moved>>

Worker ==
  \/ EpollWait \/ Process
  \/ \E loop \in {"input", "urgent"} : Read(loop) \/ ReadNothing(loop)
  \/ Look \/ ReadOob \/ ReadOobFails \/ Rearm \/ Unuse

-----------------------------------------------------------------------------

Init ==
  /\ kind = <<>> /\ arrived = 0 /\ copied = 0
  /\ urg = "none" /\ mark = 0
  /\ fin = FALSE /\ err = FALSE
  /\ pc = "wait" /\ flags = {}
  /\ calls = <<>> /\ reported = 0
  /\ moved = FALSE /\ stale = FALSE

Peer ==
  \/ \E k \in {"data", "urgent"} : PeerSend(k)
  \/ PeerClose \/ PeerReset

Next ==
  \/ Peer \/ Arrive \/ Worker
  \/ \E p \in 1 .. Len(kind) : Announce(p)

Spec == Init /\ [][Next]_vars

(* The worker runs.  The peer and the network owe nothing. *)
FairSpec == Spec /\ WF_vars(Worker)

-----------------------------------------------------------------------------

(* The callbacks of the derived handler, and client_pool's own on_oob(). *)
Callbacks == {"on_input", "on_oob", "client_pool::on_oob"}

(* Types; and process() never ends with the registration of a client left disabled. *)
TypeOK ==
  /\ kind \in Seq({"data", "urgent"}) /\ Len(kind) <= MaxBytes
  /\ arrived \in 0 .. Len(kind) /\ copied \in 0 .. arrived
  /\ urg \in {"none", "notyet", "valid", "read"}
  /\ mark \in 0 .. Len(kind) /\ reported \in 0 .. Len(kind)
  /\ {fin, err, moved, stale} \subseteq BOOLEAN
  /\ pc \in {"wait", "process", "input", "mark", "oob", "urgent", "rearm", "unuse", "done"}
  /\ flags \subseteq {"IN", "PRI", "RDHUP", "HUP", "ERR", "OUT"}
  /\ calls \in Seq([name : Callbacks, byte : 1 .. Len(kind)])

(* The callbacks get the bytes in the order they were sent, those that     *)
(* client_pool gives to itself among the others, and none twice.  The      *)
(* exception is a mark that moves between the look at it and the read of   *)
(* the urgent byte: the newer byte is taken before the data in front of    *)
(* it.                                                                     *)
CallsInOrder ==
  ~moved => \A i \in 1 .. Len(calls) - 1 : calls[i].byte < calls[i + 1].byte

(* No ordinary byte leaves the receive queue without reaching the derived  *)
(* handler's on_input(): only urgent bytes are ever skipped.               *)
NoDataLost ==
  \A p \in 1 .. copied : kind[p] = "data" =>
    \E i \in DOMAIN calls : calls[i].name = "on_input" /\ calls[i].byte = p

(* The derived handler gets the data that was sent: in its order, and all  *)
(* of it.  Of the urgent bytes it gets none (UrgentHandled).               *)
InputFaithful == CallsInOrder /\ NoDataLost

(* An urgent byte an event has announced is taken at its place, unless a   *)
(* newer one replaced it: neither loop reads past it.                      *)
ReportedUrgentTaken ==
  0 < reported /\ reported <= copied =>
    \E i \in DOMAIN calls :
      calls[i].name = "client_pool::on_oob" /\ calls[i].byte = reported

(* And it is given to the on_oob() of the derived handler: "Override this  *)
(* to handle out-of-band events" (pool.hpp 115), "on_oob(); // Invoked to  *)
(* process out-of-band data" (README.md 74).  It is not, the override is   *)
(* never called.                                                           *)
UrgentHandled ==
  0 < reported /\ reported <= copied =>
    \E i \in DOMAIN calls : calls[i].name = "on_oob" /\ calls[i].byte = reported

(* A client is released for something its peer did: it closed or reset the *)
(* connection, or announced an urgent byte it has not sent.  After a mark  *)
(* moved at the wrong moment the handler meets a byte it has already read, *)
(* takes the error for that of the connection, and drops a healthy client. *)
ReleasedForCause ==
  [][pc # "unuse" /\ pc' = "unuse" => fin \/ err \/ urg = "notyet" \/ moved]_vars

(* handle_epollout() never uses a client that the handler before it        *)
(* released: EPOLLOUT is not requested (and on_write_ready never called).  *)
WriteReadyInTime == ~stale

(* Data is read, and the last worker does not leave with a disabled        *)
(* registration: what arrives during a handler is handled by a later one.  *)
DataDelivered ==
  \A p \in 1 .. MaxBytes : p <= arrived ~> p <= copied \/ pc = "done"

(* A peer that is gone is noticed, urgent data or not. *)
HangupReleases == fin \/ err ~> pc = "done"

(* What the handlers read is what the events announced, and their client   *)
(* is still theirs.                                                        *)
Consistent == TypeOK /\ WriteReadyInTime /\ ReportedUrgentTaken

(* Neither data nor the end of the connection is left unattended. *)
Attended == DataDelivered /\ HangupReleases
=============================================================================
