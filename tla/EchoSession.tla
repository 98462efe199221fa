---------------------------- MODULE EchoSession ----------------------------
(***************************************************************************)
(* The workers of the test client (src/test-client/work.cpp, worker()) in  *)
(* conversation with the echo server (src/test/echo.cpp, on_input): a      *)
(* worker sends its fixed message in as many pieces as the socket takes,   *)
(* then reads until it has as many bytes back, and compares.  The echo     *)
(* writes each chunk it reads back once and ignores how much of it the     *)
(* socket took.                                                            *)
(*                                                                         *)
(* A byte is its position in the message, a direction of a connection the  *)
(* sequence of bytes that were sent and not read.                          *)
(***************************************************************************)
EXTENDS Integers, SequencesExt

CONSTANTS
  Workers,         \* the threads the test client may start
  MsgLen,          \* MAXBUFLEN
  SndBuf,          \* what a direction takes before send() would block
  ConnMayFail,     \* may a connection be refused, or closed by the server?
  IntLimit,        \* 2^31, where int wraps
  MaxRounds        \* bound: messages a worker sends

ASSUME SessionAssumption ==
  /\ MsgLen \in Nat \ {0}
  /\ SndBuf \in Nat /\ SndBuf >= MsgLen
  /\ ConnMayFail \in BOOLEAN
  /\ IntLimit \in Nat \ {0}
  /\ MaxRounds \in Nat

VARIABLES
  run,        \* work::run
  wpc,        \* where each worker is
  pos,        \* bytes of the message given to send()
  got,        \* bytes received into the buffer of this round
  log,        \* work::workLog, packets and bytes sent and received
  conn,       \* the connection of each worker
  toServer,   \* bytes sent by the worker and not read by the server
  hand,       \* the chunk on_input is about to write
  toClient    \* bytes sent by the server and not read by the worker

sockets     == <<conn, toServer, hand, toClient>>
rounds      == <<pos, got, log>>
sessionVars == <<run, wpc, rounds, sockets>>

Message == [i \in 1 .. MsgLen |-> i]
NoLog   == [sent |-> 0, sentBytes |-> 0, good |-> 0, goodBytes |-> 0, bad |-> 0, badBytes |-> 0]

SessionInit ==
  /\ run  = [w \in Workers |-> FALSE]
  /\ wpc  = [w \in Workers |-> "none"]
  /\ pos  = [w \in Workers |-> 0]
  /\ got  = [w \in Workers |-> <<>>]
  /\ log  = [w \in Workers |-> NoLog]
  /\ conn = [w \in Workers |-> "none"]
  /\ toServer = [w \in Workers |-> <<>>]
  /\ hand     = [w \in Workers |-> <<>>]
  /\ toClient = [w \in Workers |-> <<>>]

Goto(w, place) == wpc' = [wpc EXCEPT ![w] = place]

IsRunning(w)     == run[w]
SetRunning(w, b) == run' = [run EXCEPT ![w] = b]

(* The first n, and all but the first n, bytes of a direction. *)
Taken(s, n) == SubSeq(s, 1, n)
Left(s, n)  == SubSeq(s, n + 1, Len(s))

-----------------------------------------------------------------------------
(* The connection.                                                         *)

Connected(w) ==
  /\ conn[w] = "connecting"
  /\ conn' = [conn EXCEPT ![w] = "open"]
  /\ UNCHANGED <<run, wpc, rounds, toServer, hand, toClient>>

Refused(w) ==
  /\ ConnMayFail
  /\ conn[w] = "connecting"
  /\ conn' = [conn EXCEPT ![w] = "reset"]
  /\ UNCHANGED <<run, wpc, rounds, toServer, hand, toClient>>

(* The server closes its side: it has no slot, or it is stopped.  Bytes it *)
(* has not read turn the end of the stream into a reset, which discards    *)
(* what was on its way back.                                               *)
ServerCloses(w) ==
  /\ ConnMayFail
  /\ conn[w] = "open"
  /\ hand[w] = <<>>
  /\ IF toServer[w] = <<>>
     THEN conn' = [conn EXCEPT ![w] = "fin"] /\ UNCHANGED toClient
     ELSE /\ conn' = [conn EXCEPT ![w] = "reset"]
          /\ toClient' = [toClient EXCEPT ![w] = <<>>]
  /\ toServer' = [toServer EXCEPT ![w] = <<>>]
  /\ UNCHANGED <<run, wpc, rounds, hand>>

Network(w) == Connected(w) \/ Refused(w) \/ ServerCloses(w)

-----------------------------------------------------------------------------
(* The echo.                                                               *)

(* handle_epollin reads what has arrived of the stream. *)
EchoRead(w) ==
  /\ conn[w] = "open"
  /\ hand[w] = <<>>
  /\ \E n \in 1 .. Len(toServer[w]) :
       /\ hand' = [hand EXCEPT ![w] = Taken(toServer[w], n)]
       /\ toServer' = [toServer EXCEPT ![w] = Left(toServer[w], n)]
  /\ UNCHANGED <<run, wpc, rounds, conn, toClient>>

(* on_input: what does not fit in the send buffer is gone.  No byte leaves *)
(* that buffer before the worker reads it, which is the least room send()  *)
(* can find.                                                               *)
EchoWrite(w) ==
  /\ hand[w] # <<>>
  /\ LET room == SndBuf - Len(toClient[w])
         n    == IF Len(hand[w]) <= room THEN Len(hand[w]) ELSE room
     IN  toClient' = [toClient EXCEPT ![w] = @ \o Taken(hand[w], n)]
  /\ hand' = [hand EXCEPT ![w] = <<>>]
  /\ UNCHANGED <<run, wpc, rounds, conn, toServer>>

Echo(w) == EchoRead(w) \/ EchoWrite(w)

-----------------------------------------------------------------------------
(* The worker.  Every iteration of its loops looks at run before it calls  *)
(* send() or recv(), and goes on after EAGAIN.                             *)

(* The thread opens its socket; connect() fails at once, or is under way. *)
Connect(w) ==
  /\ wpc[w] = "new"
  /\ Goto(w, "top")
  /\ conn' = [conn EXCEPT ![w] = "connecting"]
  /\ UNCHANGED <<run, rounds, toServer, hand, toClient>>

ConnectFails(w) ==
  /\ ConnMayFail
  /\ wpc[w] = "new"
  /\ Goto(w, "exited")
  /\ UNCHANGED <<run, rounds, sockets>>

NextRound(w) ==
  /\ wpc[w] = "top" /\ IsRunning(w)
  /\ log[w].sent < MaxRounds
  /\ Goto(w, "send")
  /\ pos' = [pos EXCEPT ![w] = 0]
  /\ got' = [got EXCEPT ![w] = <<>>]
  /\ UNCHANGED <<run, log, sockets>>

(* The bytes of so many packets, multiplied as size_t and kept as int. *)
Bytes(packets) == (((packets * MsgLen) + IntLimit) % (2 * IntLimit)) - IntLimit

LogSent(w) ==
  log' = [log EXCEPT ![w].sent = @ + 1, ![w].sentBytes = Bytes(log[w].sent + 1)]

(* send() took n more bytes; the last of them completes the message. *)
Sent(w, n) ==
  /\ pos' = [pos EXCEPT ![w] = @ + n]
  /\ IF pos[w] + n = MsgLen
     THEN LogSent(w) /\ Goto(w, "recv")
     ELSE UNCHANGED <<log, wpc>>
  /\ UNCHANGED <<run, got>>

(* Faulty variants, for the checks: a short count counts as all of the     *)
(* message, what send() did not take is sent from the wrong place, and     *)
(* send() is given the length of the message, not what remains of it.      *)
SendShort(w) ==
  /\ wpc[w] = "send" /\ IsRunning(w)
  /\ conn[w] = "open"
  /\ \E n \in 1 .. MsgLen - pos[w] :
       /\ Len(toServer[w]) + n <= SndBuf
       /\ Sent(w, MsgLen - pos[w])
       /\ toServer' = [toServer EXCEPT ![w] = @ \o SubSeq(Message, pos[w] + 1, pos[w] + n)]
  /\ UNCHANGED <<conn, hand, toClient>>

SendFromStart(w) ==
  /\ wpc[w] = "send" /\ IsRunning(w)
  /\ conn[w] = "open"
  /\ \E n \in 1 .. MsgLen - pos[w] :
       /\ Len(toServer[w]) + n <= SndBuf
       /\ Sent(w, n)
       /\ toServer' = [toServer EXCEPT ![w] = @ \o SubSeq(Message, 1, n)]
  /\ UNCHANGED <<conn, hand, toClient>>

SendTooMuch(w) ==
  /\ wpc[w] = "send" /\ IsRunning(w)
  /\ conn[w] = "open"
  /\ \E n \in 1 .. MsgLen :
       /\ Len(toServer[w]) + n <= SndBuf
       /\ Sent(w, n)
       /\ toServer' = [toServer EXCEPT ![w] = @ \o Taken(Message, n)]
  /\ UNCHANGED <<conn, hand, toClient>>

Send(w) ==
  /\ wpc[w] = "send" /\ IsRunning(w)
  /\ conn[w] = "open"
  /\ \E n \in 1 .. MsgLen - pos[w] :
       /\ Len(toServer[w]) + n <= SndBuf
       /\ Sent(w, n)
       /\ toServer' = [toServer EXCEPT ![w] = @ \o SubSeq(Message, pos[w] + 1, pos[w] + n)]
  /\ UNCHANGED <<conn, hand, toClient>>

(* The peer has closed: the bytes are taken, and answered by a reset. *)
SendInVain(w) ==
  /\ wpc[w] = "send" /\ IsRunning(w)
  /\ conn[w] = "fin"
  /\ \E n \in 1 .. MsgLen - pos[w] : Sent(w, n)
  /\ conn' = [conn EXCEPT ![w] = "reset"]
  /\ toClient' = [toClient EXCEPT ![w] = <<>>]
  /\ UNCHANGED <<toServer, hand>>

(* A faulty variant: it ends the thread. *)
SendFailsQuits(w) ==
  /\ wpc[w] = "send" /\ IsRunning(w)
  /\ conn[w] = "reset"
  /\ Goto(w, "exited")
  /\ UNCHANGED <<run, rounds, sockets>>

(* An error other than EAGAIN ends the loop over the pieces. *)
SendFails(w) ==
  /\ wpc[w] = "send" /\ IsRunning(w)
  /\ conn[w] = "reset"
  /\ Goto(w, "recv")
  /\ UNCHANGED <<run, rounds, sockets>>

(* memcmp of the whole buffer with the message. *)
Received(w) ==
  /\ log' = IF got'[w] = Message
       THEN [log EXCEPT ![w].good = @ + 1, ![w].goodBytes = Bytes(log[w].good + 1)]
       ELSE [log EXCEPT ![w].bad = @ + 1, ![w].badBytes = Bytes(log[w].bad + 1)]
  /\ Goto(w, "top")

(* Faulty variants: the first bytes count as the whole reply, and a        *)
(* complete reply is not counted.                                          *)
RecvShort(w) ==
  /\ wpc[w] = "recv" /\ IsRunning(w)
  /\ toClient[w] # <<>>
  /\ \E n \in 1 .. Len(toClient[w]) :
       /\ got' = [got EXCEPT ![w] = @ \o Taken(toClient[w], n)]
       /\ toClient' = [toClient EXCEPT ![w] = Left(toClient[w], n)]
  /\ Goto(w, "top")
  /\ UNCHANGED <<run, pos, log, conn, toServer, hand>>

RecvUnlogged(w) ==
  /\ wpc[w] = "recv" /\ IsRunning(w)
  /\ \E n \in 1 .. Len(toClient[w]) :
       /\ Len(got[w]) + n <= MsgLen
       /\ got' = [got EXCEPT ![w] = @ \o Taken(toClient[w], n)]
       /\ toClient' = [toClient EXCEPT ![w] = Left(toClient[w], n)]
       /\ IF Len(got[w]) + n = MsgLen THEN Goto(w, "top") ELSE UNCHANGED wpc
  /\ UNCHANGED <<run, pos, log, conn, toServer, hand>>

Recv(w) ==
  /\ wpc[w] = "recv" /\ IsRunning(w)
  /\ \E n \in 1 .. Len(toClient[w]) :
       /\ Len(got[w]) + n <= MsgLen
       /\ got' = [got EXCEPT ![w] = @ \o Taken(toClient[w], n)]
       /\ toClient' = [toClient EXCEPT ![w] = Left(toClient[w], n)]
       /\ IF Len(got[w]) + n = MsgLen THEN Received(w) ELSE UNCHANGED <<log, wpc>>
  /\ UNCHANGED <<run, pos, conn, toServer, hand>>

(* An error ends this loop too; at the end of the stream recv() returns    *)
(* zero and the loop spins.                                                *)
RecvFails(w) ==
  /\ wpc[w] = "recv" /\ IsRunning(w)
  /\ conn[w] = "reset"
  /\ Goto(w, "top")
  /\ UNCHANGED <<run, rounds, sockets>>

(* A faulty variant: only the outer loop looks at run. *)
QuitAtTop(w) ==
  /\ wpc[w] = "top"
  /\ ~IsRunning(w)
  /\ Goto(w, "exited")
  /\ conn' = [conn EXCEPT ![w] = "none"]
  /\ toServer' = [toServer EXCEPT ![w] = <<>>]
  /\ hand'     = [hand EXCEPT ![w] = <<>>]
  /\ toClient' = [toClient EXCEPT ![w] = <<>>]
  /\ UNCHANGED <<run, rounds>>

(* run is not set: the socket is closed, the thread ends. *)
Quit(w) ==
  /\ wpc[w] \in {"top", "send", "recv"}
  /\ ~IsRunning(w)
  /\ Goto(w, "exited")
  /\ conn' = [conn EXCEPT ![w] = "none"]
  /\ toServer' = [toServer EXCEPT ![w] = <<>>]
  /\ hand'     = [hand EXCEPT ![w] = <<>>]
  /\ toClient' = [toClient EXCEPT ![w] = <<>>]
  /\ UNCHANGED <<run, rounds>>

Worker(w) ==
  \/ Connect(w) \/ ConnectFails(w) \/ NextRound(w)
  \/ Send(w) \/ SendInVain(w) \/ SendFails(w)
  \/ Recv(w) \/ RecvFails(w) \/ Quit(w)

Session(w) == Network(w) \/ Echo(w) \/ Worker(w)

-----------------------------------------------------------------------------

(* Types: no more than one message of worker() is ever under way. *)
SessionTypeOK ==
  /\ run  \in [Workers -> BOOLEAN]
  /\ wpc  \in [Workers -> {"none", "new", "top", "send", "recv", "exited"}]
  /\ pos  \in [Workers -> 0 .. MsgLen]
  /\ \A w \in Workers :
       /\ {log[w].sent, log[w].good, log[w].bad} \subseteq 0 .. MaxRounds
       /\ {log[w].sentBytes, log[w].goodBytes, log[w].badBytes} \subseteq -IntLimit .. IntLimit - 1
  /\ conn \in [Workers -> {"none", "connecting", "open", "fin", "reset"}]
  /\ \A w \in Workers : \A s \in {got[w], toServer[w], hand[w], toClient[w]} :
       s \in Seq(1 .. MsgLen) /\ Len(s) <= MsgLen

(* Nothing is lost, doubled or moved on a connection that is open: what    *)
(* the worker has back, what is on its way and what it has yet to send     *)
(* make up its message, with at most one message under way.                *)
StreamIntact ==
  \A w \in Workers :
    LET echoed == got[w] \o toClient[w] \o hand[w] \o toServer[w] IN
      conn[w] \in {"connecting", "open"} =>
        /\ wpc[w] = "send" => got[w] = <<>> /\ echoed = Taken(Message, pos[w])
        /\ wpc[w] = "recv" => echoed = Message
        /\ wpc[w] = "top"  => echoed = got[w]

(* The echo may ignore how much of a chunk was sent: it always fits. *)
EchoFits ==
  \A w \in Workers : Len(hand[w]) + Len(toClient[w]) <= SndBuf

(* No reply is ever counted as bad, also when the connection breaks in the *)
(* middle of a message.                                                    *)
NoBadReply == \A w \in Workers : log[w].bad = 0

(* The status page shows as many packets, and bytes, received as sent, but *)
(* for those under way; the bytes still agree when int has wrapped.        *)
CountersAgree ==
  \A w \in Workers :
    LET l == log[w]
        waiting == IF wpc[w] = "recv" THEN 1 ELSE 0
    IN conn[w] \in {"connecting", "open"} =>
         /\ l.sent = l.good + l.bad + waiting
         /\ (l.sentBytes - l.goodBytes - l.badBytes - (waiting * MsgLen)) % (2 * IntLimit) = 0

(* A message that was sent comes back, if the connection lasts. *)
ReplyArrives ==
  \A w \in Workers :
    wpc[w] = "recv" /\ conn[w] = "open" ~> wpc[w] # "recv" \/ conn[w] # "open"
=============================================================================
