--------------------------- MODULE HttpConnection ---------------------------
(***************************************************************************)
(* The connections of a control panel: what their clients send, and what   *)
(* process_and_close_socket() of the HTTP library does with it in a thread *)
(* of the pool (src/test-client/http/httplib.hpp 2525-2577, 5823-5977).    *)
(* HttpServer has the acceptor and the pool.                               *)
(*                                                                         *)
(* A request is a sequence of parts: its line, header lines, the blank     *)
(* line, and pieces of content that end no line.  A client sends any       *)
(* number of parts at a time.  Its request also says what it is:           *)
(*   line     "good", "bad" (not parsed), "long" (over the limit)          *)
(*   method   "GET", "HEAD", "POST" (like PUT and PATCH),                  *)
(*            "PRI" (may have content, no handlers), "TRACE" (neither)     *)
(*   path     "page", "unknown", "failing" (its handler throws)            *)
(*   version  "1.0" when it is HTTP/1.0 without Connection: Keep-Alive;    *)
(*            with it the connection is kept as for "1.1"                  *)
(*   closes   it has Connection: close                                     *)
(*   ranges   those of its Range header                                    *)
(*   framing  "none", "length", "chunked"                                  *)
(*   pieces   of content, content as HttpForm reads it: "plain", "broken", *)
(*            "large" (over the limit of a form), or "encoded"             *)
(* The reply to Expect: 100-continue is left out, and so are replies that  *)
(* wait for the send buffer: panel pages are small.  So are DELETE and     *)
(* OPTIONS, and the 500 for a descriptor that is FD_SETSIZE or more.       *)
(***************************************************************************)
EXTENDS HttpRange

CONSTANTS
  Conns,          \* connections
  Workloads,      \* what the client of each connection does: whether it
                  \* comes, its requests, and whether it waits for each
                  \* reply (polite)
  PageLength,     \* bytes of a page
  RecvMax,        \* parts one recv() returns (4096 bytes)
  KeepAliveMax    \* keep_alive_max_count_

Requests ==
  [line : {"good", "bad", "long"}, method : {"GET", "HEAD", "POST", "PRI", "TRACE"},
   path : {"page", "unknown", "failing"}, version : {"1.0", "1.1"}, closes : BOOLEAN,
   ranges : Seq(Numbers \X Numbers), framing : {"none", "length", "chunked"},
   pieces : Nat, content : {"plain", "broken", "large", "encoded"}]

ASSUME ConnectionAssumption ==
  /\ Workloads \subseteq
       [Conns -> [comes : BOOLEAN, requests : Seq(Requests), polite : BOOLEAN]]
  /\ PageLength \in 1 .. (SizeWidth \div 2) - 1   \* a page fits in memory
  /\ RecvMax \in Nat \ {0}
  /\ KeepAliveMax \in Nat \ {0}

VARIABLES
  plan,     \* what each client will do
  unsent,   \* the parts it has not sent
  queue,    \* those in the kernel's receive queue
  buffer,   \* those in the read buffer of the request's SocketStream
  fin,      \* the client sends no more
  at,       \* where the connection is
  left,     \* requests it may still carry
  handled,  \* the request being handled, 0 for a line that is none
  status,   \* its status, -1 while undecided
  hangup,   \* connection_closed: it asked to close afterwards
  replies,  \* those that reached the client
  astray,   \* history: a reply left a part of its request unread
  cause     \* history: why the server closed the connection

client     == <<plan, unsent>>
stream     == <<queue, buffer>>
exchange   == <<left, handled, status, hangup>>
history    == <<astray, cause>>
connection == <<client, fin, stream, at, exchange, replies, history>>

Places == {"none", "backlog", "accepted", "queued", "idle", "line", "junk", "headers",
           "drain", "route", "content", "handler", "reply", "closing", "closed"}

Goto(c, place) == at' = [at EXCEPT ![c] = place]

-----------------------------------------------------------------------------
(* Clients.                                                                *)

PartsOf(r, i) ==
  LET part(what) == [req |-> i, what |-> what]
      fields == r.framing # "none" \/ r.ranges # <<>> \/ r.closes
  IN <<part("line")>> \o (IF fields THEN <<part("header")>> ELSE <<>>) \o <<part("blank")>>
       \o [n \in 1 .. r.pieces |-> part("content")]
       \o (IF r.framing = "chunked" THEN <<part("last")>> ELSE <<>>)

AllParts(p) == FlattenSeq([i \in DOMAIN p.requests |-> PartsOf(p.requests[i], i)])

(* A polite client has at most one request without a reply.  What clients  *)
(* do after the server closed the connection is left out.                  *)
Send(c, n) ==
  /\ at[c] \notin {"none", "closed"} /\ ~fin[c]
  /\ plan[c].polite => unsent[c][n].req <= Len(replies[c]) + 1
  /\ queue'  = [queue EXCEPT ![c] = @ \o SubSeq(unsent[c], 1, n)]
  /\ unsent' = [unsent EXCEPT ![c] = SubSeq(@, n + 1, Len(@))]
  /\ UNCHANGED <<plan, fin, buffer, at, exchange, replies, history>>

Finish(c) ==
  /\ at[c] \notin {"none", "closed"} /\ ~fin[c]
  /\ fin' = [fin EXCEPT ![c] = TRUE]
  /\ UNCHANGED <<client, stream, at, exchange, replies, history>>

-----------------------------------------------------------------------------
(* SocketStream.                                                           *)

(* What one recv() finds. *)
Recv(c) == SubSeq(queue[c], 1, Min({RecvMax, Len(queue[c])}))

(* What read() can return: the rest of the buffer, or what recv() puts     *)
(* there.                                                                  *)
Available(c) == IF buffer[c] # <<>> THEN buffer[c] ELSE Recv(c)

Take(c, n) ==
  /\ buffer' = [buffer EXCEPT ![c] = SubSeq(Available(c), n + 1, Len(Available(c)))]
  /\ IF buffer[c] # <<>> THEN UNCHANGED queue
     ELSE queue' = [queue EXCEPT ![c] = SubSeq(@, Len(Available(c)) + 1, Len(@))]

(* read() fails after five seconds, or at once if the client is done. *)
NoInput(c) == Available(c) = <<>>

(* is_writable(): a client is taken for dead when there is an end of file  *)
(* to be read, though it may only have shut down its sending side.         *)
Deaf(c) == fin[c] /\ queue[c] = <<>>

(* There always is room in the send buffer. *)
Writable(c) == ~Deaf(c)

-----------------------------------------------------------------------------
(* process_server_socket_core.                                             *)

Close(c, why) ==
  /\ Goto(c, "closing")
  /\ cause' = [cause EXCEPT ![c] = why]

(* Every request gets a stream of its own, with an empty buffer. *)
NewStream(c) == buffer' = [buffer EXCEPT ![c] = <<>>]

(* keep_alive() finds the socket readable. *)
KeepAlive(c) ==
  /\ at[c] = "idle" /\ (queue[c] # <<>> \/ fin[c])
  /\ Goto(c, "line")
  /\ NewStream(c)
  /\ handled' = [handled EXCEPT ![c] = 0]
  /\ status'  = [status EXCEPT ![c] = -1]
  /\ hangup'  = [hangup EXCEPT ![c] = FALSE]
  /\ UNCHANGED <<client, fin, queue, left, replies, history>>

KeepAliveTimeout(c) ==
  /\ at[c] = "idle" /\ queue[c] = <<>> /\ ~fin[c]
  /\ Close(c, "idle")
  /\ UNCHANGED <<client, fin, stream, exchange, replies, astray>>

-----------------------------------------------------------------------------
(* process_request.                                                        *)

Request(c) == plan[c].requests[handled[c]]

(* The request is answered with status s without being routed. *)
Answer(c, s) ==
  /\ Goto(c, "reply")
  /\ status' = [status EXCEPT ![c] = s]

(* getline() and parse_request_line().  Content that no request has read   *)
(* is the start of a line like any other.                                  *)
RequestLine(c) ==
  /\ at[c] \in {"line", "junk"} /\ ~NoInput(c)
  /\ Take(c, 1)
  /\ LET part == Head(Available(c)) IN
       CASE part.what = "content" ->
              Goto(c, "junk") /\ UNCHANGED <<handled, status>>
         [] at[c] = "line" /\ part.what = "line" ->
              LET line == plan[c].requests[part.req].line IN
                /\ handled' = [handled EXCEPT ![c] = part.req]
                /\ \/ line = "good" /\ Goto(c, "headers") /\ UNCHANGED status
                   \/ line = "long" /\ Goto(c, "drain") /\ UNCHANGED status
                   \/ line = "bad"  /\ Answer(c, 400)
         [] OTHER -> Answer(c, 400) /\ UNCHANGED handled
  /\ UNCHANGED <<client, fin, left, hangup, replies, history>>

(* Nothing came, or half a line: at its end of file that is a line.        *)
RequestLineMissing(c) ==
  /\ at[c] \in {"line", "junk"} /\ NoInput(c)
  /\ IF at[c] = "junk" /\ fin[c]
       THEN Answer(c, 400) /\ UNCHANGED cause
       ELSE Close(c, IF fin[c] THEN "gone" ELSE "idle") /\ UNCHANGED status
  /\ UNCHANGED <<client, fin, stream, left, handled, hangup, replies, astray>>

AsksToClose(r) == r.closes \/ r.version = "1.0"

(* read_headers(), up to the blank line, and what process_request() makes  *)
(* of Connection and Range.                                                *)
HeaderLine(c) ==
  /\ at[c] \in {"headers", "drain"} /\ ~NoInput(c)
  /\ Take(c, 1)
  /\ IF Head(Available(c)).what # "blank" THEN UNCHANGED <<at, status, hangup>>
     ELSE IF at[c] = "drain" THEN Answer(c, 414) /\ UNCHANGED hangup
     ELSE /\ hangup' = [hangup EXCEPT ![c] = AsksToClose(Request(c))]
          /\ IF ParseRangeHeader(Request(c).ranges)
               THEN Goto(c, "route") /\ UNCHANGED status ELSE Answer(c, 416)
  /\ UNCHANGED <<client, fin, left, handled, replies, history>>

HeadersMissing(c) ==
  /\ at[c] \in {"headers", "drain"} /\ NoInput(c)
  /\ Answer(c, IF at[c] = "drain" THEN 414 ELSE 400)
  /\ UNCHANGED <<client, fin, stream, left, handled, hangup, replies, history>>

ExpectContent(r) == r.method \in {"POST", "PRI"}

(* The panels have handlers for GET only, which answer HEAD too. *)
HasHandler(r) == r.method \in {"GET", "HEAD"} /\ r.path # "unknown"

(* dispatch_request(). *)
Dispatch(c) ==
  LET r == Request(c) IN
    IF HasHandler(r)
      THEN Goto(c, "handler") /\ UNCHANGED status
      ELSE Answer(c, IF r.method \in {"PRI", "TRACE"} THEN 400 ELSE 404)

(* A faulty variant, for the checks: content is not read for a page there is not. *)
RouteUnread(c) ==
  /\ at[c] = "route"
  /\ Dispatch(c)
  /\ UNCHANGED <<client, fin, stream, left, handled, hangup, replies, history>>

(* routing(), up to read_content(). *)
Route(c) ==
  /\ at[c] = "route"
  /\ IF ~ExpectContent(Request(c)) THEN Dispatch(c)
     ELSE IF Request(c).content = "encoded" THEN Answer(c, 415)
     ELSE Goto(c, "content") /\ UNCHANGED status
  /\ UNCHANGED <<client, fin, stream, left, handled, hangup, replies, history>>

(* All that is to come from the client, and where in it parts of the       *)
(* request that is being handled are.                                      *)
Rest(c) == buffer[c] \o queue[c] \o unsent[c]

Unread(c) == {i \in DOMAIN Rest(c) : Rest(c)[i].req = handled[c]}

(* The parts of the content that are still to come, as its framing says. *)
Pending(c) ==
  IF Request(c).framing = "none" THEN Len(Available(c)) + 1 ELSE Cardinality(Unread(c))

ContentRead(c) ==
  IF Request(c).content = "large" THEN Answer(c, 413) ELSE Dispatch(c)

(* One read() of read_content(), which gives it to the receiver.  That of  *)
(* a form refuses parts that are not of its shape.                         *)
ReadContent(c) ==
  /\ at[c] = "content" /\ Pending(c) > 0 /\ ~NoInput(c)
  /\ LET n == IF Request(c).framing = "chunked" THEN 1 ELSE Min({Pending(c), Len(Available(c))})
     IN Take(c, n)
  /\ IF Request(c).content = "broken" THEN Answer(c, 400) ELSE UNCHANGED <<at, status>>
  /\ UNCHANGED <<client, fin, left, handled, hangup, replies, history>>

(* A faulty variant: read() has no timeout. *)
ContentEndsNever(c) ==
  /\ at[c] = "content"
  /\ Pending(c) = 0 \/ (NoInput(c) /\ fin[c])
  /\ IF Pending(c) = 0 \/ Request(c).framing = "none" THEN ContentRead(c) ELSE Answer(c, 400)
  /\ UNCHANGED <<client, fin, stream, left, handled, hangup, replies, history>>

(* Without a length, the content ends with the connection. *)
ContentEnds(c) ==
  /\ at[c] = "content"
  /\ Pending(c) = 0 \/ NoInput(c)
  /\ IF Pending(c) = 0 \/ (Request(c).framing = "none" /\ fin[c])
       THEN ContentRead(c) ELSE Answer(c, 400)
  /\ UNCHANGED <<client, fin, stream, left, handled, hangup, replies, history>>

(* A handler of the panel returns, or throws: status 500. *)
Handler(c) ==
  /\ at[c] = "handler"
  /\ Answer(c, IF Request(c).path = "failing" THEN 500
               ELSE IF Request(c).ranges = <<>> THEN 200 ELSE 206)
  /\ UNCHANGED <<client, fin, stream, left, handled, hangup, replies, history>>

WholePage == <<[offset |-> 0, range |-> <<>>, bytes |-> 0 .. PageLength - 1]>>

(* Only the page of a handler has a body, and is subject to ranges.        *)
Content(c) ==
  IF status[c] = 206 THEN ApplyRanges(Request(c).ranges, PageLength)
  ELSE [status |-> status[c],
        parts |-> IF status[c] = 200 THEN WholePage ELSE <<>>]

HeaderRead(c) == \A i \in Unread(c) : Rest(c)[i].what # "header"

(* A faulty variant: the last reply does not say so. *)
SaysCloseSilent(c) ==
  handled[c] # 0 /\ Request(c).line = "good" /\ Request(c).closes /\ HeaderRead(c)

(* Whether the reply has Connection: close.  The headers of a request that *)
(* is refused by its line are not in req, those of HTTP/1.0 have no say.   *)
SaysClose(c) ==
  \/ left[c] = 1
  \/ handled[c] # 0 /\ Request(c).line = "good" /\ Request(c).closes /\ HeaderRead(c)

(* The replies that leave a part of their request in the socket: it is     *)
(* refused before its content is read, or has content it should not have.  *)
LeavesContent(c) ==
  /\ handled[c] # 0 /\ Unread(c) # {}
  /\ status[c] \in {400, 414, 415, 416} \/ ~ExpectContent(Request(c))

(* A faulty variant: every connection carries one request more. *)
AfterReplyOnce(c, written) ==
  IF ~written THEN Close(c, "gone")
  ELSE IF hangup[c] THEN Close(c, "asked")
  ELSE IF left[c] = 0 THEN Close(c, "limit")
  ELSE Goto(c, "idle") /\ UNCHANGED cause

(* The loop goes on unless writing failed, or the request was the last. *)
AfterReply(c, written) ==
  IF ~written THEN Close(c, "gone")
  ELSE IF hangup[c] THEN Close(c, "asked")
  ELSE IF left[c] = 1 THEN Close(c, "limit")
  ELSE Goto(c, "idle") /\ UNCHANGED cause

(* write_headers() and write_data(): a deaf client gets neither.  Whether  *)
(* the headers were written is not looked at.                              *)
Deliver(c, reply) ==
  IF Writable(c) THEN replies' = [replies EXCEPT ![c] = Append(@, reply)] ELSE UNCHANGED replies

Written(c, body) == body = <<>> \/ Writable(c)

(* write_response_core().  HEAD has no body to write. *)
Reply(c) ==
  /\ at[c] = "reply"
  /\ LET content == Content(c)
         body == IF handled[c] # 0 /\ Request(c).method = "HEAD" THEN <<>> ELSE content.parts
     IN /\ Deliver(c, [to |-> handled[c], status |-> content.status,
                       length |-> content.parts, body |-> body, close |-> SaysClose(c)])
        /\ AfterReply(c, Written(c, body))
  /\ left'   = [left EXCEPT ![c] = @ - 1]
  /\ astray' = [astray EXCEPT ![c] = @ \/ LeavesContent(c)]
  /\ UNCHANGED <<client, fin, stream, handled, status, hangup>>

(* process_and_close_socket() closes the descriptor. *)
CloseSocket(c) ==
  /\ at[c] = "closing"
  /\ Goto(c, "closed")
  /\ UNCHANGED <<client, fin, stream, exchange, replies, history>>

Exchange(c) ==
  \/ KeepAlive(c) \/ KeepAliveTimeout(c)
  \/ RequestLine(c) \/ RequestLineMissing(c) \/ HeaderLine(c) \/ HeadersMissing(c)
  \/ Route(c) \/ ReadContent(c) \/ ContentEnds(c) \/ Handler(c)
  \/ Reply(c) \/ CloseSocket(c)

ClientStep(c) == Finish(c) \/ \E n \in DOMAIN unsent[c] : Send(c, n)

-----------------------------------------------------------------------------

ConnectionInit ==
  /\ plan \in Workloads
  /\ unsent = [c \in Conns |-> AllParts(plan[c])]
  /\ queue = [c \in Conns |-> <<>>] /\ buffer = [c \in Conns |-> <<>>]
  /\ fin = [c \in Conns |-> FALSE]
  /\ at = [c \in Conns |-> "none"] /\ left = [c \in Conns |-> KeepAliveMax]
  /\ handled = [c \in Conns |-> 0] /\ status = [c \in Conns |-> -1]
  /\ hangup = [c \in Conns |-> FALSE]
  /\ replies = [c \in Conns |-> <<>>]
  /\ astray = [c \in Conns |-> FALSE] /\ cause = [c \in Conns |-> "none"]

(* Types: a keep-alive connection never carries more requests than allowed. *)
ConnectionTypeOK ==
  /\ plan \in Workloads
  /\ \A c \in Conns :
       /\ IsSuffix(unsent[c], AllParts(plan[c]))
       /\ left[c] \in 0 .. KeepAliveMax
       /\ handled[c] \in 0 .. Len(plan[c].requests)
  /\ at \in [Conns -> Places]
  /\ status \in [Conns -> {-1, 200, 206, 400, 404, 413, 414, 415, 416, 500}]
  /\ {fin, hangup, astray} \subseteq [Conns -> BOOLEAN]
  /\ cause \in [Conns -> {"none", "idle", "gone", "asked", "limit", "refused"}]

(* Replies come in the order of the requests, and a client that waits for  *)
(* each of them gets the i-th for its i-th request, unless the server left *)
(* content of an earlier one in the socket and took it for a request.      *)
RepliesMatch ==
  \A c \in Conns :
    LET to == [i \in DOMAIN replies[c] |-> replies[c][i].to] IN
      /\ \A i, j \in DOMAIN to : i < j /\ to[i] # 0 /\ to[j] # 0 => to[i] < to[j]
      /\ plan[c].polite /\ ~astray[c] => \A i \in DOMAIN to : to[i] = i

(* When the server ends a connection that was in use, its last reply said  *)
(* so.  A request of HTTP/1.0 is promised Keep-Alive and closed.           *)
CloseAnnounced ==
  \A c \in Conns :
    cause[c] \in {"asked", "limit"} /\ ~fin[c] =>
      replies[c] # <<>> /\
        LET last == Last(replies[c])
        IN last.close \/ (last.to # 0 /\ plan[c].requests[last.to].version = "1.0")

(* A partial reply has exactly the bytes that were asked for, and says so. *)
(* It names a last byte the page does not have if the request did.         *)
RangesHonoured ==
  \A c \in Conns : \A i \in DOMAIN replies[c] :
    replies[c][i].status = 206 =>
      LET ranges == plan[c].requests[replies[c][i].to].ranges
          parts  == replies[c][i].length
      IN /\ Len(parts) = Len(ranges)
         /\ \A n \in DOMAIN parts :
              /\ parts[n].bytes = Selected(ranges[n], PageLength)
              /\ ranges[n][2] < PageLength =>
                   parts[n].range = <<Min(parts[n].bytes), Max(parts[n].bytes)>>

(* The client waits for its reply to request i. *)
Waits(c, i) ==
  /\ plan[c].polite /\ at[c] # "none"
  /\ i \in DOMAIN plan[c].requests
  /\ unsent[c] = <<>> \/ Head(unsent[c]).req > i

(* A client that waits for its replies gets one for each whole request, or *)
(* sees the connection closed.                                             *)
RequestAnswered ==
  \A c \in Conns : \A i \in 1 .. Max({Len(w[c].requests) : w \in Workloads}) :
    Waits(c, i) ~> Len(replies[c]) >= i \/ fin[c] \/ astray[c] \/ at[c] = "closed"
=============================================================================
