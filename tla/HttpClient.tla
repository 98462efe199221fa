----------------------------- MODULE HttpClient -----------------------------
(***************************************************************************)
(* One httplib client (class ClientImpl of src/test-client/http/           *)
(* httplib.hpp) shared by several threads.  send() holds the recursive     *)
(* request_mutex_ for a whole request; a reply that redirects to the same  *)
(* host is followed by a send() inside that send().  socket_mutex_ is held *)
(* for single steps only, so that stop() can come in between any two.      *)
(*                                                                         *)
(* The calls of a thread are a stack of frames:                            *)
(*   pc     "open", "take", "write", "read", "close", "follow", "nested"   *)
(*          (a send() inside this one is at work) or "done"                *)
(*   conn   the descriptor its stream uses                                 *)
(*   left   redirect_count_                                                *)
(*   close  close_connection                                               *)
(*   req    the request: get (GET or HEAD, else one with content), body    *)
(*          ("none", "string", "provider" or "chunked"), and chunked (it   *)
(*          has Transfer-Encoding: chunked)                                *)
(*   again  is the reply a redirect that will be followed?                 *)
(*   ok     what it returns                                                *)
(* Header values, the text of replies and 100 Continue are left out, and   *)
(* TLS and proxies are not used.                                           *)
(***************************************************************************)
EXTENDS Naturals, SequencesExt

CONSTANTS
  Threads,        \* threads that call send()
  NoThread,       \* std::thread::id()
  Fds,            \* descriptor numbers the kernel may hand out
  NoFd,           \* INVALID_SOCKET
  RedirectMax,    \* CPPHTTPLIB_REDIRECT_MAX_COUNT
  MaxReplies      \* bound: replies under way that the model counts

ASSUME ClientAssumption ==
  /\ NoThread \notin Threads
  /\ NoFd \notin Fds
  /\ RedirectMax \in Nat
  /\ MaxReplies \in Nat \ {0}

VARIABLES
  net,            \* the kernel's and the server's view of every descriptor
  sock,           \* socket_.sock
  inFlight,       \* socket_requests_in_flight_
  fromThread,     \* socket_requests_are_from_thread_
  closeWhenDone,  \* socket_should_be_closed_when_request_is_done_
  requester,      \* the owner of request_mutex_
  stack,          \* the calls of send() each thread is in
  told            \* history: stop() was called since the last send() opened

clientVars == <<net, sock, inFlight, fromThread, closeWhenDone, requester,
                stack, told>>

(* A socket: is it open, was it shut down, has the server closed its end,  *)
(* requests it has not answered, replies not yet read, and whether a body  *)
(* without framing went over it.                                           *)
Closed == [open |-> FALSE, shut |-> FALSE, gone |-> FALSE,
           owed |-> 0, replies |-> 0, mixed |-> FALSE]

Connected == [Closed EXCEPT !.open = TRUE]

Init ==
  /\ net = [d \in Fds |-> Closed]
  /\ sock = NoFd
  /\ inFlight = 0
  /\ fromThread = NoThread
  /\ closeWhenDone = FALSE
  /\ requester = NoThread
  /\ stack = [t \in Threads |-> <<>>]
  /\ told = FALSE

-----------------------------------------------------------------------------
(* Frames and sockets.                                                     *)

Requests ==
  [get : BOOLEAN, body : {"none", "string", "provider", "chunked"}, chunked : BOOLEAN]

NoRequest == [get |-> TRUE, body |-> "none", chunked |-> FALSE]

(* send_with_content_provider() adds the header that belongs to a provider *)
(* without length.                                                         *)
Prepared == {r \in Requests : (r.get => r.body = "none") /\ r.chunked = (r.body = "chunked")}

Frame(req, left, close) ==
  [pc |-> "open", conn |-> NoFd, left |-> left, close |-> close, req |-> req,
   again |-> FALSE, ok |-> FALSE]

Busy(t) == stack[t] # <<>>

Top(t) == Last(stack[t])

At(t, pc) == Busy(t) /\ Top(t).pc = pc

Becomes(t, f) == stack' = [stack EXCEPT ![t] = ReplaceAt(@, Len(@), f)]

(* What is left of a call that has failed or succeeded. *)
Finished(f, ok) ==
  [f EXCEPT !.pc = "done", !.conn = NoFd, !.req = NoRequest, !.again = FALSE, !.ok = ok]

(* send() returns to its caller, or redirect() to the send() around it. *)
Return(t, ok) ==
  LET below == Front(stack[t]) IN
    /\ stack' = [stack EXCEPT ![t] =
         IF below = <<>> THEN <<>>
         ELSE Append(Front(below), Finished(Last(below), ok))]
    /\ requester' = IF below = <<>> THEN NoThread ELSE requester

(* shutdown_socket() and close_socket() on socket_. *)
WithoutSocket == [d \in Fds |-> IF d = sock THEN Closed ELSE net[d]]

(* is_socket_alive(): nothing to read is well, end of stream is not; a     *)
(* reply nobody asked for would pass.                                      *)
IsAlive(d) == net[d].replies > 0 \/ ~(net[d].shut \/ net[d].gone)

-----------------------------------------------------------------------------
(* send().                                                                 *)

Begin(t) ==
  /\ requester = NoThread
  /\ requester' = t
  /\ told' = FALSE
  /\ \E req \in Prepared, close \in BOOLEAN :
       stack' = [stack EXCEPT ![t] = <<Frame(req, RedirectMax, close)>>]
  /\ UNCHANGED <<net, sock, inFlight, fromThread, closeWhenDone>>

(* create_client_socket() connects, or does not within its time. *)
Connect(d) ==
  /\ ~WithoutSocket[d].open
  /\ sock' = d
  /\ net' = [WithoutSocket EXCEPT ![d] = Connected]

(* A faulty variant, for the checks: the dead socket is not closed. *)
OpenLeaks(t) ==
  /\ At(t, "open")
  /\ closeWhenDone' = FALSE
  /\ told' = FALSE
  /\ \E d \in Fds :
       \/ d = sock /\ IsAlive(d) /\ UNCHANGED <<net, sock>>
       \/ ~net[d].open /\ sock' = d /\ net' = [net EXCEPT ![d] = Connected]
  /\ inFlight' = inFlight + 1
  /\ fromThread' = t
  /\ Becomes(t, [Top(t) EXCEPT !.pc = "take"])
  /\ UNCHANGED requester

(* The first part under socket_mutex_: the connection is used again if the *)
(* server keeps it, and made anew otherwise.  What stop() has asked for    *)
(* before is forgotten, also by the send() of a redirect.                  *)
Open(t) ==
  /\ At(t, "open")
  /\ closeWhenDone' = FALSE
  /\ told' = FALSE
  /\ \/ sock \in Fds /\ IsAlive(sock) /\ UNCHANGED <<net, sock>>
     \/ ~(sock \in Fds /\ IsAlive(sock)) /\ \E d \in Fds : Connect(d)
  /\ inFlight' = inFlight + 1
  /\ fromThread' = t
  /\ Becomes(t, [Top(t) EXCEPT !.pc = "take"])
  /\ UNCHANGED requester

OpenFails(t) ==
  /\ At(t, "open")
  /\ ~(sock \in Fds /\ IsAlive(sock))
  /\ closeWhenDone' = FALSE
  /\ told' = FALSE
  /\ sock' = NoFd
  /\ net' = WithoutSocket
  /\ Return(t, FALSE)
  /\ UNCHANGED <<inFlight, fromThread>>

(* process_socket() reads socket_.sock outside the lock. *)
Take(t) ==
  /\ At(t, "take")
  /\ Becomes(t, [Top(t) EXCEPT !.pc = "write", !.conn = sock])
  /\ UNCHANGED <<net, sock, inFlight, fromThread, closeWhenDone, requester, told>>

(* write_request(): a string and a provider of known length get            *)
(* Content-Length; chunks are recognised by a header that is there or not. *)
Delimited(req) == req.body = "chunked" => req.chunked

AtMost(n, max) == IF n < max THEN n ELSE max

(* The server gets a whole request, and what it takes for a second one     *)
(* when the end of the content cannot be told.                             *)
Received(s, req) ==
  IF s.gone THEN s
  ELSE [s EXCEPT !.owed  = AtMost(@ + (IF Delimited(req) THEN 1 ELSE 2), MaxReplies),
                 !.mixed = @ \/ ~Delimited(req)]

Fail(t) == Becomes(t, Finished(Top(t), FALSE))

Write(t) ==
  LET f == Top(t)
      s == net[f.conn]
  IN  /\ At(t, "write")
      /\ \/ /\ ~s.shut
            /\ net' = [net EXCEPT ![f.conn] = Received(s, f.req)]
            /\ Becomes(t, [f EXCEPT !.pc = "read"])
         \/ /\ net' \in {net, [net EXCEPT ![f.conn] =
                                 IF s.shut THEN s ELSE Received(s, f.req)]}
            /\ Fail(t)
      /\ UNCHANGED <<sock, inFlight, fromThread, closeWhenDone, requester, told>>

(* The rest of process_request(): the response line, headers and content   *)
(* arrive; they say whether to close and where else to ask.                *)
Read(t) ==
  LET f == Top(t) IN
    /\ At(t, "read")
    /\ net[f.conn].replies > 0
    /\ net' = [net EXCEPT ![f.conn].replies = @ - 1]
    /\ \E again, closes \in BOOLEAN :
         Becomes(t, [f EXCEPT !.pc = IF closes THEN "close" ELSE "follow",
                              !.again = again])
    /\ UNCHANGED <<sock, inFlight, fromThread, closeWhenDone, requester, told>>

(* A timeout, the end of the stream, bytes that are no reply, or a         *)
(* callback that cancels, with part of the reply read.                     *)
ReadFails(t) ==
  /\ At(t, "read")
  /\ Fail(t)
  /\ UNCHANGED <<net, sock, inFlight, fromThread, closeWhenDone, requester, told>>

(* Connection: close, or HTTP/1.0. *)
CloseSaid(t) ==
  /\ At(t, "close")
  /\ sock' = NoFd
  /\ net' = WithoutSocket
  /\ Becomes(t, [Top(t) EXCEPT !.pc = "follow", !.conn = NoFd])
  /\ UNCHANGED <<inFlight, fromThread, closeWhenDone, requester, told>>

-----------------------------------------------------------------------------
(* Redirects.                                                              *)

(* detail::redirect(): 303 See Other turns other methods into GET and      *)
(* drops the body and all headers, but not a content provider.             *)
SeeOther(req) ==
  IF req.get THEN req
  ELSE [get |-> TRUE, body |-> IF req.body = "string" THEN "none" ELSE req.body,
        chunked |-> FALSE]

(* handle_request(): a reply that is not followed is the result. *)
TakeReply(t) ==
  /\ At(t, "follow") /\ ~Top(t).again
  /\ Becomes(t, Finished(Top(t), TRUE))
  /\ UNCHANGED <<net, sock, inFlight, fromThread, closeWhenDone, requester, told>>

(* The last redirect, or one without a Location that can be used. *)
RedirectFails(t) ==
  /\ At(t, "follow") /\ Top(t).again
  /\ Fail(t)
  /\ UNCHANGED <<net, sock, inFlight, fromThread, closeWhenDone, requester, told>>

(* Another host is asked by a client of its own that goes when it is done. *)
RedirectElsewhere(t) ==
  /\ At(t, "follow") /\ Top(t).again /\ Top(t).left > 0
  /\ Becomes(t, Finished(Top(t), TRUE))
  /\ UNCHANGED <<net, sock, inFlight, fromThread, closeWhenDone, requester, told>>

(* A faulty variant: a loop instead of the call, which does not count      *)
(* redirect_count_ down.                                                   *)
RedirectUncounted(t) ==
  LET f == Top(t) IN
    /\ At(t, "follow") /\ f.again /\ f.left > 0
    /\ Becomes(t, Frame(f.req, f.left, f.close))
    /\ inFlight' = inFlight - 1
    /\ fromThread' = IF inFlight' = 0 THEN NoThread ELSE fromThread
    /\ UNCHANGED <<net, sock, closeWhenDone, requester, told>>

(* The same host is asked by a send() of this client inside this one. *)
RedirectHere(t) ==
  LET f == Top(t) IN
    /\ At(t, "follow") /\ f.again /\ f.left > 0
    /\ \E req \in {f.req, SeeOther(f.req)} :
         stack' = [stack EXCEPT ![t] =
                     Front(@) \o <<[Finished(f, FALSE) EXCEPT !.pc = "nested"],
                                   Frame(req, f.left - 1, f.close)>>]
    /\ UNCHANGED <<net, sock, inFlight, fromThread, closeWhenDone, requester, told>>

-----------------------------------------------------------------------------
(* The end of send(), and stop().                                          *)

(* A faulty variant: the thread stays after its last request. *)
MarkDoneKept ==
  /\ inFlight' = inFlight - 1
  /\ UNCHANGED fromThread

MarkDone ==
  /\ inFlight' = inFlight - 1
  /\ fromThread' = IF inFlight' = 0 THEN NoThread ELSE fromThread

(* Faulty variants: a failed request keeps its connection, and what stop() *)
(* has asked for is not looked at.                                         *)
DoneKeepsFailed(t) ==
  LET f == Top(t) IN
    /\ At(t, "done")
    /\ MarkDone
    /\ IF closeWhenDone \/ f.close
         THEN sock' = NoFd /\ net' = WithoutSocket
         ELSE UNCHANGED <<net, sock>>
    /\ Return(t, f.ok)
    /\ UNCHANGED <<closeWhenDone, told>>

DoneUnasked(t) ==
  LET f == Top(t) IN
    /\ At(t, "done")
    /\ MarkDone
    /\ IF f.close \/ ~f.ok
         THEN sock' = NoFd /\ net' = WithoutSocket
         ELSE UNCHANGED <<net, sock>>
    /\ Return(t, f.ok)
    /\ UNCHANGED <<closeWhenDone, told>>

(* The last part under socket_mutex_. *)
Done(t) ==
  LET f == Top(t) IN
    /\ At(t, "done")
    /\ MarkDone
    /\ IF closeWhenDone \/ f.close \/ ~f.ok
         THEN sock' = NoFd /\ net' = WithoutSocket
         ELSE UNCHANGED <<net, sock>>
    /\ Return(t, f.ok)
    /\ UNCHANGED <<closeWhenDone, told>>

(* A faulty variant: the socket is closed in any case. *)
StopCloses ==
  /\ told' = TRUE
  /\ sock' = NoFd
  /\ net' = WithoutSocket
  /\ UNCHANGED <<inFlight, fromThread, closeWhenDone, requester, stack>>

(* stop(), in any thread, also in one that is told of progress by send().  *)
(* A socket in use is only shut down, and closed by the request.           *)
Stop ==
  /\ told' = TRUE
  /\ IF inFlight > 0
       THEN /\ closeWhenDone' = TRUE
            /\ net' = [d \in Fds |-> IF d = sock THEN [net[d] EXCEPT !.shut = TRUE]
                                     ELSE net[d]]
            /\ UNCHANGED sock
       ELSE /\ sock' = NoFd
            /\ net' = WithoutSocket
            /\ UNCHANGED closeWhenDone
  /\ UNCHANGED <<inFlight, fromThread, requester, stack>>

-----------------------------------------------------------------------------
(* The server.                                                             *)

Answer(d) ==
  /\ net[d].open /\ ~net[d].gone /\ net[d].owed > 0
  /\ net[d].replies < MaxReplies
  /\ net' = [net EXCEPT ![d].owed = @ - 1, ![d].replies = @ + 1]
  /\ UNCHANGED <<sock, inFlight, fromThread, closeWhenDone, requester, stack, told>>

HangUp(d) ==
  /\ net[d].open /\ ~net[d].gone
  /\ net' = [net EXCEPT ![d].gone = TRUE]
  /\ UNCHANGED <<sock, inFlight, fromThread, closeWhenDone, requester, stack, told>>

Send(t) ==
  \/ Open(t) \/ OpenFails(t) \/ Take(t) \/ Write(t) \/ Read(t) \/ ReadFails(t)
  \/ CloseSaid(t) \/ TakeReply(t) \/ RedirectFails(t) \/ RedirectElsewhere(t)
  \/ RedirectHere(t) \/ Done(t)

Next ==
  \/ \E t \in Threads : Begin(t) \/ Send(t)
  \/ Stop
  \/ \E d \in Fds : Answer(d) \/ HangUp(d)

Spec == Init /\ [][Next]_clientVars

(* A thread inside send() goes on: connections and reads have timeouts. *)
Fairness == \A t \in Threads : WF_clientVars(Send(t))

FairSpec == Spec /\ Fairness

-----------------------------------------------------------------------------

Frames == [pc : {"open", "take", "write", "read", "close", "follow", "nested", "done"},
           conn : Fds \cup {NoFd}, left : 0 .. RedirectMax, close : BOOLEAN,
           req : Requests, again : BOOLEAN, ok : BOOLEAN]

(* Types: sockets, the state of the client, and the frames of its calls. *)
TypeOK ==
  /\ net \in [Fds -> [open : BOOLEAN, shut : BOOLEAN, gone : BOOLEAN,
                      owed : 0 .. MaxReplies, replies : 0 .. MaxReplies,
                      mixed : BOOLEAN]]
  /\ sock \in Fds \cup {NoFd}
  /\ inFlight \in Nat
  /\ fromThread \in Threads \cup {NoThread}
  /\ closeWhenDone \in BOOLEAN
  /\ requester \in Threads \cup {NoThread}
  /\ stack \in [Threads -> Seq(Frames)]
  /\ told \in BOOLEAN

(* socket_requests_in_flight_ counts the calls between their two parts     *)
(* under the lock, all of one thread: the assertions of close_socket() and *)
(* send() hold, and the counter does not wrap.                             *)
InFlightExact ==
  /\ \A t \in Threads : Busy(t) <=> requester = t
  /\ inFlight = IF requester = NoThread THEN 0
                ELSE Len(stack[requester]) - (IF At(requester, "open") THEN 1 ELSE 0)
  /\ fromThread = IF inFlight = 0 THEN NoThread ELSE requester

(* The client owns one descriptor, that of socket_; a call that reads or   *)
(* writes uses it, whatever stop() does: no number is used after it was    *)
(* closed, or leaked.                                                      *)
OwnSocket ==
  /\ \A d \in Fds : net[d].open <=> d = sock
  /\ \A t \in Threads :
       At(t, "write") \/ At(t, "read") => Top(t).conn = sock /\ sock # NoFd

(* A request is written where no reply to an earlier one can come, so the  *)
(* reply that is read is its own.  This is not so of a connection over     *)
(* which chunks went without the header that announces them: the server    *)
(* takes them for a request of their own, and the client then takes the    *)
(* reply to them for that of its next request.  What a caller asks for     *)
(* never does this; only a GET does that follows a 303 to a request with   *)
(* a provider of chunks.                                                   *)
AnswersOwn ==
  \A t \in Threads : At(t, "write") =>
    /\ LET s == net[Top(t).conn] IN s.owed + s.replies = 0 \/ s.mixed
    /\ Delimited(Top(t).req) \/ (Top(t).req.get /\ Len(stack[t]) > 1)

(* Once stop() was called and no request is in flight the connection is    *)
(* closed, unless the request was redirected to this host after the stop:  *)
(* the send() of a redirect forgets that stop() was called, and what the   *)
(* comment promises of stop() is then not kept.                            *)
StopHeard == told /\ requester = NoThread => sock = NoFd

(* send() returns, however often it is redirected. *)
RequestReturns == \A t \in Threads : Busy(t) ~> ~Busy(t)

(* Counter, thread and descriptor say what the calls are doing. *)
Consistent == TypeOK /\ InFlightExact /\ OwnSocket

(* A stop() is heard, and a request ends. *)
Responds == []StopHeard /\ RequestReturns
=============================================================================
