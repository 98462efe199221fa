-------------------------- MODULE HttpClientProofs --------------------------
(***************************************************************************)
(* Proofs about HttpClient, for any number of threads and descriptors and  *)
(* any number of redirects.                                                *)
(***************************************************************************)
EXTENDS HttpClient, SequenceTheorems, TLAPS

Sockets == [open : BOOLEAN, shut : BOOLEAN, gone : BOOLEAN,
            owed : 0 .. MaxReplies, replies : 0 .. MaxReplies, mixed : BOOLEAN]

Due(d) == net[d].owed + net[d].replies

(* A call that has a connection still has it, and the stream of that call  *)
(* is the connection's.                                                    *)
Using ==
  \A t \in Threads : Busy(t) =>
    /\ Top(t).pc \in {"take", "write", "read", "close"} => sock # NoFd
    /\ Top(t).pc \in {"write", "read"} => Top(t).conn = sock

(* Only the reply a call reads can be due, unless that call has failed and *)
(* will close the connection.                                              *)
Clean ==
  sock # NoFd /\ ~net[sock].mixed =>
    /\ requester = NoThread => Due(sock) = 0
    /\ \A t \in Threads : Busy(t) =>
         /\ Top(t).pc = "read" => Due(sock) <= 1
         /\ Top(t).pc # "read" /\ (Top(t).pc # "done" \/ Top(t).ok) => Due(sock) = 0

OneSocket == \A d \in Fds : net[d].open <=> d = sock

IInv == TypeOK /\ InFlightExact /\ OneSocket /\ Using /\ Clean

-----------------------------------------------------------------------------
(* Stacks of frames.                                                       *)

LEMMA LastFrame ==
  ASSUME NEW s \in Seq(Frames), s # <<>>
  PROVE  Last(s) \in Frames /\ Len(s) \in Nat \ {0}
  BY EmptySeq, LenProperties, ElementOfSeq DEF Last

LEMMA FrontFrames ==
  ASSUME NEW s \in Seq(Frames), s # <<>>
  PROVE  Front(s) \in Seq(Frames) /\ Len(Front(s)) = Len(s) - 1
<1>1. Len(s) \in Nat \ {0}
  BY LastFrame
<1>2. PICK n \in Nat : n = Len(s) - 1
  BY <1>1
<1>3. \A i \in 1 .. n : s[i] \in Frames
  BY <1>1, <1>2, ElementOfSeq
<1>4. SubSeq(s, 1, n) \in Seq(Frames) /\ Len(SubSeq(s, 1, n)) = n
  BY <1>3, SubSeqProperties
<1> QED
  BY <1>2, <1>4 DEF Front

LEMMA ReplaceTop ==
  ASSUME NEW s \in Seq(Frames), s # <<>>, NEW f \in Frames, NEW u, u = ReplaceAt(s, Len(s), f)
  PROVE  u \in Seq(Frames) /\ Len(u) = Len(s) /\ u # <<>> /\ Last(u) = f
<1>1. Len(s) \in Nat \ {0}
  BY LastFrame
<1>2. u \in Seq(Frames) /\ Len(u) = Len(s) /\ u[Len(s)] = f
  BY <1>1, ExceptSeq DEF ReplaceAt
<1> QED
  BY <1>1, <1>2, EmptySeq DEF Last

LEMMA PushFrame ==
  ASSUME NEW s \in Seq(Frames), NEW f \in Frames, NEW u, u = Append(s, f)
  PROVE  u \in Seq(Frames) /\ Len(u) = Len(s) + 1 /\ u # <<>> /\ Last(u) = f
<1>1. Len(s) \in Nat
  BY LenProperties
<1>2. u \in Seq(Frames) /\ Len(u) = Len(s) + 1 /\ u[Len(s) + 1] = f
  BY AppendProperties
<1> QED
  BY <1>1, <1>2, EmptySeq DEF Last

-----------------------------------------------------------------------------
(* Frames and sockets as records.                                          *)

LEMMA NewFrame ==
  ASSUME NEW req \in Requests, NEW left \in 0 .. RedirectMax, NEW close \in BOOLEAN
  PROVE  Frame(req, left, close) \in Frames /\ Frame(req, left, close).pc = "open"
  BY DEF Frame, Frames

LEMMA FinishedFrame ==
  ASSUME NEW f \in Frames, NEW ok \in BOOLEAN, NEW g, g = Finished(f, ok)
  PROVE  g \in Frames /\ g.pc = "done" /\ g.ok = ok /\ g.req = NoRequest
  BY DEF Finished, Frames, NoRequest, Requests

LEMMA SocketRecords ==
  /\ Closed \in Sockets /\ ~Closed.open
  /\ Connected \in Sockets /\ Connected.open /\ Connected.owed = 0 /\ Connected.replies = 0
<1>1. Closed \in Sockets /\ ~Closed.open
  BY ClientAssumption DEF Closed, Sockets
<1>2. Closed.owed = 0 /\ Closed.replies = 0
  BY DEF Closed
<1>3. PICK c, k : c \in Sockets /\ c = Closed /\ k = [c EXCEPT !.open = TRUE]
  BY <1>1
<1>4. k \in Sockets /\ k.open /\ k.owed = c.owed /\ k.replies = c.replies
  BY <1>3 DEF Sockets
<1> QED
  BY <1>1, <1>2, <1>3, <1>4 DEF Connected

(* What every step of the proof uses of the invariant, with net and stack  *)
(* as functions.                                                           *)
LEMMA Shape ==
  ASSUME IInv
  PROVE  /\ net \in [Fds -> Sockets] /\ stack \in [Threads -> Seq(Frames)]
         /\ sock \in Fds \cup {NoFd} /\ inFlight \in Nat
         /\ requester \in Threads \cup {NoThread} /\ fromThread \in Threads \cup {NoThread}
         /\ closeWhenDone \in BOOLEAN /\ told \in BOOLEAN
  BY DEF IInv, TypeOK, Sockets

LEMMA Released ==
  ASSUME IInv
  PROVE  WithoutSocket \in [Fds -> Sockets] /\ \A d \in Fds : ~WithoutSocket[d].open
<1>1. \A d \in Fds : WithoutSocket[d] = IF d = sock THEN Closed ELSE net[d]
  BY DEF WithoutSocket
<1>2. \A d \in Fds : WithoutSocket[d] \in Sockets
  BY <1>1, Shape, SocketRecords
<1>3. \A d \in Fds : ~WithoutSocket[d].open
  BY <1>1, SocketRecords DEF IInv, OneSocket
<1> QED
  BY <1>2, <1>3 DEF WithoutSocket

(* The thread that is in a call of send() is the requester. *)
LEMMA Caller ==
  ASSUME IInv, NEW t \in Threads, Busy(t)
  PROVE  /\ requester = t /\ Top(t) \in Frames /\ Len(stack[t]) \in Nat \ {0}
         /\ \A u \in Threads : Busy(u) <=> u = t
         /\ inFlight = Len(stack[t]) - (IF Top(t).pc = "open" THEN 1 ELSE 0)
         /\ fromThread = IF inFlight = 0 THEN NoThread ELSE t
<1>1. requester = t /\ \A u \in Threads : Busy(u) <=> u = t
  BY DEF IInv, InFlightExact
<1>2. stack[t] \in Seq(Frames) /\ stack[t] # <<>>
  BY Shape DEF Busy
<1>3. Top(t) \in Frames /\ Len(stack[t]) \in Nat \ {0}
  BY <1>2, LastFrame DEF Top
<1> QED
  BY <1>1, <1>3, ClientAssumption DEF IInv, InFlightExact, At

(* The calls after a step of thread t that leaves it in a call of send(),  *)
(* with g on top of a stack of n frames.                                   *)
Topped(t, g, n) ==
  /\ stack' \in [Threads -> Seq(Frames)] /\ requester' = t
  /\ \A u \in Threads : Busy(u)' <=> u = t
  /\ Top(t)' = g /\ Len(stack'[t]) = n

LEMMA StackTopped ==
  ASSUME IInv, NEW t \in Threads, Busy(t) \/ requester = NoThread, requester' = t,
         NEW u \in Seq(Frames), u # <<>>, stack' = [stack EXCEPT ![t] = u]
  PROVE  Topped(t, Last(u), Len(u))
<1>1. \A v \in Threads : v # t => ~Busy(v)
  BY Caller, ClientAssumption DEF IInv, InFlightExact
<1>2. /\ stack' \in [Threads -> Seq(Frames)] /\ stack'[t] = u
      /\ \A v \in Threads : v # t => stack'[v] = stack[v]
  BY Shape
<1> QED
  BY <1>1, <1>2 DEF Topped, Busy, Top

LEMMA TopReplaced ==
  ASSUME IInv, NEW t \in Threads, Busy(t), NEW g \in Frames, Becomes(t, g), requester' = requester
  PROVE  Topped(t, g, Len(stack[t]))
<1>1. PICK s, u : s \in Seq(Frames) /\ s = stack[t] /\ u = ReplaceAt(s, Len(s), g)
  BY Shape
<1>2. u \in Seq(Frames) /\ Len(u) = Len(s) /\ u # <<>> /\ Last(u) = g
  BY <1>1, ReplaceTop DEF Busy
<1>3. stack' = [stack EXCEPT ![t] = u]
  BY <1>1, Shape DEF Becomes
<1>4. requester' = t
  BY Caller
<1>5. Topped(t, Last(u), Len(u))
  BY <1>2, <1>3, <1>4, StackTopped
<1> QED
  BY <1>1, <1>2, <1>5

-----------------------------------------------------------------------------
(* How a step keeps the invariant: what is left to show when the call of a *)
(* thread goes on, when nobody calls, and when no call moves.              *)

LEMMA CallGoesOn ==
  ASSUME IInv, NEW t \in Threads, NEW g \in Frames, NEW n \in Nat \ {0}, Topped(t, g, n),
         net' \in [Fds -> Sockets], sock' \in Fds \cup {NoFd},
         closeWhenDone' \in BOOLEAN, told' \in BOOLEAN,
         inFlight' = n - (IF g.pc = "open" THEN 1 ELSE 0),
         fromThread' = IF inFlight' = 0 THEN NoThread ELSE t,
         \A d \in Fds : net'[d].open <=> d = sock',
         g.pc \in {"take", "write", "read", "close"} => sock' # NoFd,
         g.pc \in {"write", "read"} => g.conn = sock',
         sock' # NoFd /\ ~net'[sock'].mixed =>
           /\ g.pc = "read" => Due(sock)' <= 1
           /\ g.pc # "read" /\ (g.pc # "done" \/ g.ok) => Due(sock)' = 0
  PROVE  IInv'
<1>1. /\ requester' = t /\ stack' \in [Threads -> Seq(Frames)]
      /\ \A u \in Threads : Busy(u)' <=> u = t
      /\ Top(t)' = g /\ Len(stack'[t]) = n
  BY DEF Topped
<1>2. TypeOK'
  BY <1>1 DEF TypeOK, Sockets
<1>3. InFlightExact'
  BY <1>1, ClientAssumption DEF InFlightExact, At
<1>4. OneSocket'
  BY DEF OneSocket
<1>5. Using'
  BY <1>1 DEF Using
<1>6. Clean'
  BY <1>1, ClientAssumption DEF Clean
<1> QED
  BY <1>2, <1>3, <1>4, <1>5, <1>6 DEF IInv

LEMMA NobodyCalls ==
  ASSUME IInv, stack' \in [Threads -> Seq(Frames)], \A t \in Threads : ~Busy(t)',
         requester' = NoThread, inFlight' = 0, fromThread' = NoThread,
         net' \in [Fds -> Sockets], sock' \in Fds \cup {NoFd},
         closeWhenDone' \in BOOLEAN, told' \in BOOLEAN,
         \A d \in Fds : net'[d].open <=> d = sock',
         sock' # NoFd /\ ~net'[sock'].mixed => Due(sock)' = 0
  PROVE  IInv'
<1>1. TypeOK'
  BY DEF TypeOK, Sockets
<1>2. InFlightExact'
  BY ClientAssumption DEF InFlightExact
<1>3. OneSocket' /\ Using' /\ Clean'
  BY DEF OneSocket, Using, Clean
<1> QED
  BY <1>1, <1>2, <1>3 DEF IInv

LEMMA CallsStand ==
  ASSUME IInv, UNCHANGED <<stack, requester, inFlight, fromThread>>,
         net' \in [Fds -> Sockets], closeWhenDone' \in BOOLEAN, told' \in BOOLEAN,
         sock' = sock \/ (sock' = NoFd /\ inFlight = 0),
         \A d \in Fds : net'[d].open <=> d = sock',
         sock' # NoFd => net'[sock].mixed = net[sock].mixed /\ Due(sock)' = Due(sock)
  PROVE  IInv'
<1>1. TypeOK'
  BY Shape DEF TypeOK, Sockets
<1>2. InFlightExact'
  BY DEF IInv, InFlightExact, Busy, At, Top
<1>3. OneSocket'
  BY DEF OneSocket
<1>4. Using'
  <2> SUFFICES ASSUME NEW t \in Threads, Busy(t)
               PROVE  /\ Top(t).pc \in {"take", "write", "read", "close"} => sock' # NoFd
                      /\ Top(t).pc \in {"write", "read"} => Top(t).conn = sock'
    BY DEF Using, Busy, Top
  <2>1. Len(stack[t]) \in Nat \ {0} /\ inFlight = Len(stack[t]) - (IF Top(t).pc = "open" THEN 1 ELSE 0)
    BY Caller
  <2>2. sock' # sock => Top(t).pc = "open"
    BY <2>1
  <2> QED
    BY <2>2 DEF IInv, Using
<1>5. Clean'
  BY DEF IInv, Clean, Busy, Top
<1> QED
  BY <1>1, <1>2, <1>3, <1>4, <1>5 DEF IInv

-----------------------------------------------------------------------------
(* The steps of the server, and stop().                                    *)

LEMMA ServerInv ==
  ASSUME IInv, NEW d \in Fds, Answer(d) \/ HangUp(d)
  PROVE  IInv'
<1>1. PICK s \in Sockets : s = net[d]
  BY Shape
<1>2. PICK r \in Sockets :
        /\ net' = [net EXCEPT ![d] = r]
        /\ r.open = s.open /\ r.mixed = s.mixed /\ r.owed + r.replies = s.owed + s.replies
  <2>1. CASE Answer(d)
    <3>1. PICK r : r = [s EXCEPT !.owed = s.owed - 1, !.replies = s.replies + 1]
      OBVIOUS
    <3>2. s.owed \in 1 .. MaxReplies /\ s.replies \in 0 .. MaxReplies - 1
      BY <1>1, <2>1, ClientAssumption DEF Answer, Sockets
    <3>3. s.owed - 1 \in 0 .. MaxReplies /\ s.replies + 1 \in 0 .. MaxReplies
      BY <3>2, ClientAssumption
    <3>4. /\ r \in Sockets /\ r.open = s.open /\ r.mixed = s.mixed
          /\ r.owed = s.owed - 1 /\ r.replies = s.replies + 1
      BY <3>1, <3>3 DEF Sockets
    <3>5. net' = [net EXCEPT ![d] = r]
      BY <1>1, <2>1, <3>1, Shape DEF Answer
    <3>6. r.owed + r.replies = s.owed + s.replies
      BY <3>2, <3>4
    <3> QED
      BY <3>4, <3>5, <3>6
  <2>2. CASE HangUp(d)
    <3>1. PICK r : r = [s EXCEPT !.gone = TRUE]
      OBVIOUS
    <3>2. /\ r \in Sockets /\ r.open = s.open /\ r.mixed = s.mixed
          /\ r.owed = s.owed /\ r.replies = s.replies
      BY <3>1 DEF Sockets
    <3>3. net' = [net EXCEPT ![d] = r]
      BY <1>1, <2>2, <3>1, Shape DEF HangUp
    <3> QED
      BY <3>2, <3>3
  <2> QED
    BY <2>1, <2>2
<1>3. /\ net' \in [Fds -> Sockets]
      /\ \A e \in Fds : /\ net'[e].open = net[e].open /\ net'[e].mixed = net[e].mixed
                       /\ net'[e].owed + net'[e].replies = net[e].owed + net[e].replies
  BY <1>1, <1>2, Shape
<1>4. UNCHANGED <<sock, stack, requester, inFlight, fromThread, closeWhenDone, told>>
  BY DEF Answer, HangUp
<1>5. \A e \in Fds : net'[e].open <=> e = sock'
  BY <1>3, <1>4 DEF IInv, OneSocket
<1>6. sock' # NoFd => net'[sock].mixed = net[sock].mixed /\ Due(sock)' = Due(sock)
  BY <1>3, <1>4, Shape DEF Due
<1> QED
  BY <1>3, <1>4, <1>5, <1>6, Shape, CallsStand

LEMMA StopInv ==
  ASSUME IInv, Stop
  PROVE  IInv'
<1>1. told' = TRUE /\ UNCHANGED <<stack, requester, inFlight, fromThread>>
  BY DEF Stop
<1>2. CASE inFlight > 0
  <2>1. /\ closeWhenDone' = TRUE /\ sock' = sock
        /\ net' = [d \in Fds |-> IF d = sock THEN [net[d] EXCEPT !.shut = TRUE] ELSE net[d]]
    BY <1>2 DEF Stop
  <2>2. ASSUME NEW d \in Fds
        PROVE  /\ net'[d] \in Sockets /\ net'[d].open = net[d].open /\ net'[d].mixed = net[d].mixed
               /\ net'[d].owed = net[d].owed /\ net'[d].replies = net[d].replies
    <3>1. PICK s, r : s \in Sockets /\ s = net[d] /\ r = [s EXCEPT !.shut = TRUE]
      BY Shape
    <3>2. /\ r \in Sockets /\ r.open = s.open /\ r.mixed = s.mixed
          /\ r.owed = s.owed /\ r.replies = s.replies
      BY <3>1 DEF Sockets
    <3>3. net'[d] = IF d = sock THEN r ELSE s
      BY <2>1, <3>1
    <3> QED
      BY <3>1, <3>2, <3>3
  <2>3. net' \in [Fds -> Sockets]
    BY <2>1, <2>2
  <2>4. \A d \in Fds : net'[d].open <=> d = sock'
    BY <2>1, <2>2 DEF IInv, OneSocket
  <2>5. sock' # NoFd => net'[sock].mixed = net[sock].mixed /\ Due(sock)' = Due(sock)
    BY <2>1, <2>2, Shape DEF Due
  <2> QED
    BY <1>1, <2>1, <2>3, <2>4, <2>5, CallsStand
<1>3. CASE ~(inFlight > 0)
  <2>1. sock' = NoFd /\ net' = WithoutSocket /\ closeWhenDone' = closeWhenDone /\ inFlight = 0
    BY <1>3, Shape DEF Stop
  <2>2. net' \in [Fds -> Sockets] /\ \A d \in Fds : net'[d].open <=> d = sock'
    BY <2>1, Released, ClientAssumption
  <2> QED
    BY <1>1, <2>1, <2>2, Shape, CallsStand
<1> QED
  BY <1>2, <1>3

-----------------------------------------------------------------------------
(* The steps of send().                                                    *)

(* send() starts with what the caller asks for.                            *)
LEMMA BeginTopped ==
  ASSUME IInv, NEW t \in Threads, Begin(t)
  PROVE  \E g \in Frames : g.pc = "open" /\ Delimited(g.req) /\ Topped(t, g, 1)
<1>1. PICK req \in Prepared, close \in BOOLEAN :
        stack' = [stack EXCEPT ![t] = <<Frame(req, RedirectMax, close)>>]
  BY DEF Begin
<1>2. PICK g \in Frames : g = Frame(req, RedirectMax, close) /\ g.pc = "open"
  <2>1. req \in Requests /\ RedirectMax \in 0 .. RedirectMax
    BY ClientAssumption DEF Prepared
  <2> QED
    BY <2>1, NewFrame
<1>3. PICK u \in Seq(Frames) : u = <<g>> /\ Len(u) = 1 /\ u # <<>> /\ Last(u) = g
  <2>1. <<g>> \in Seq(Frames) /\ Len(<<g>>) = 1 /\ <<g>>[1] = g /\ <<g>> # <<>>
    OBVIOUS
  <2>2. Last(<<g>>) = g
    BY <2>1 DEF Last
  <2> QED
    BY <2>1, <2>2
<1>4. Topped(t, g, 1)
  <2>1. stack' = [stack EXCEPT ![t] = u] /\ requester = NoThread /\ requester' = t
    BY <1>1, <1>2, <1>3 DEF Begin
  <2>2. Topped(t, Last(u), Len(u))
    BY <1>3, <2>1, StackTopped
  <2> QED
    BY <1>3, <2>2
<1>5. Delimited(g.req)
  <2>1. req.chunked = (req.body = "chunked")
    BY DEF Prepared
  <2>2. g.req = req
    BY <1>2 DEF Frame
  <2> QED
    BY <2>1, <2>2 DEF Delimited
<1> QED
  BY <1>2, <1>4, <1>5

LEMMA BeginInv ==
  ASSUME IInv, NEW t \in Threads, Begin(t)
  PROVE  IInv'
<1>1. PICK g \in Frames : g.pc = "open" /\ Topped(t, g, 1)
  BY BeginTopped
<1>2. /\ UNCHANGED <<net, sock, inFlight, fromThread, closeWhenDone>> /\ told' = FALSE
      /\ inFlight = 0 /\ fromThread = NoThread /\ requester = NoThread
  BY DEF Begin, IInv, InFlightExact
<1>3. \A d \in Fds : net'[d].open <=> d = sock'
  BY <1>2 DEF IInv, OneSocket
<1>4. sock' # NoFd /\ ~net'[sock'].mixed => Due(sock)' = 0
  BY <1>2 DEF IInv, Clean, Due
<1>5. /\ inFlight' = 1 - (IF g.pc = "open" THEN 1 ELSE 0)
      /\ fromThread' = IF inFlight' = 0 THEN NoThread ELSE t
  BY <1>1, <1>2
<1>6. /\ net' \in [Fds -> Sockets] /\ sock' \in Fds \cup {NoFd}
      /\ closeWhenDone' \in BOOLEAN /\ told' \in BOOLEAN
  BY <1>2, Shape
<1> QED
  BY <1>1, <1>1, <1>3, <1>4, <1>5, <1>6, CallGoesOn

(* A call that goes on, and neither opens nor has just been opened.        *)
LEMMA CallMoves ==
  ASSUME IInv, NEW t \in Threads, Busy(t), Top(t).pc # "open",
         NEW g \in Frames, g.pc # "open", Becomes(t, g),
         UNCHANGED <<inFlight, fromThread, closeWhenDone, requester, told>>,
         net' \in [Fds -> Sockets], sock' \in Fds \cup {NoFd},
         \A d \in Fds : net'[d].open <=> d = sock',
         g.pc \in {"take", "write", "read", "close"} => sock' # NoFd,
         g.pc \in {"write", "read"} => g.conn = sock',
         sock' # NoFd /\ ~net'[sock'].mixed =>
           /\ g.pc = "read" => Due(sock)' <= 1
           /\ g.pc # "read" /\ (g.pc # "done" \/ g.ok) => Due(sock)' = 0
  PROVE  IInv'
<1>1. Topped(t, g, Len(stack[t]))
  BY TopReplaced
<1>2. PICK n \in Nat \ {0} :
        /\ n = Len(stack[t]) /\ inFlight = n - (IF Top(t).pc = "open" THEN 1 ELSE 0)
        /\ fromThread = IF inFlight = 0 THEN NoThread ELSE t
  BY Caller
<1>3. /\ inFlight' = n - (IF g.pc = "open" THEN 1 ELSE 0)
      /\ fromThread' = IF inFlight' = 0 THEN NoThread ELSE t
  BY <1>2
<1> QED
  BY <1>1, <1>2, <1>3, Shape, CallGoesOn

LEMMA OpenInv ==
  ASSUME IInv, NEW t \in Threads, Open(t)
  PROVE  IInv'
<1>1. Busy(t) /\ Top(t).pc = "open"
  BY DEF Open, At
<1>2. PICK f, g : f \in Frames /\ f = Top(t) /\ g = [f EXCEPT !.pc = "take"]
  BY <1>1, Caller
<1>3. g \in Frames /\ g.pc = "take"
  BY <1>2 DEF Frames
<1>4. Topped(t, g, Len(stack[t]))
  BY <1>1, <1>2, <1>3, TopReplaced DEF Open
<1>a. PICK n \in Nat \ {0} :
        n = Len(stack[t]) /\ inFlight = n - (IF Top(t).pc = "open" THEN 1 ELSE 0)
  BY <1>1, Caller
<1>5. /\ inFlight' = n - (IF g.pc = "open" THEN 1 ELSE 0)
      /\ fromThread' = IF inFlight' = 0 THEN NoThread ELSE t
      /\ closeWhenDone' = FALSE /\ told' = FALSE
  <2>1. inFlight' = inFlight + 1 /\ fromThread' = t /\ closeWhenDone' = FALSE /\ told' = FALSE
    BY DEF Open
  <2> QED
    BY <1>1, <1>3, <1>a, <2>1
<1>6. /\ net' \in [Fds -> Sockets] /\ sock' \in Fds
      /\ \A d \in Fds : net'[d].open <=> d = sock'
      /\ ~net'[sock'].mixed => Due(sock)' = 0
  <2>1. CASE sock \in Fds /\ UNCHANGED <<net, sock>>
    <3>1. sock # NoFd
      BY <2>1, ClientAssumption
    <3>2. ~net[sock].mixed => Due(sock) = 0
      BY <1>1, <3>1 DEF IInv, Clean
    <3> QED
      BY <2>1, <3>2, Shape DEF IInv, OneSocket, Due
  <2>2. CASE \E d \in Fds : Connect(d)
    <3>1. PICK d \in Fds : sock' = d /\ net' = [WithoutSocket EXCEPT ![d] = Connected]
      BY <2>2 DEF Connect
    <3>2. net' \in [Fds -> Sockets] /\ net'[d] = Connected
      BY <3>1, Released, SocketRecords
    <3>3. \A e \in Fds : e # d => ~net'[e].open
      BY <3>1, Released
    <3>4. Due(sock)' = 0
      BY <3>1, <3>2, SocketRecords DEF Due
    <3> QED
      BY <3>1, <3>2, <3>3, <3>4, SocketRecords
  <2> QED
    BY <2>1, <2>2 DEF Open
<1>7. sock' # NoFd
  BY <1>6, ClientAssumption
<1> QED
  BY <1>3, <1>4, <1>a, <1>5, <1>6, <1>7, CallGoesOn

LEMMA TakeInv ==
  ASSUME IInv, NEW t \in Threads, Take(t)
  PROVE  IInv'
<1>1. Busy(t) /\ Top(t).pc = "take"
  BY DEF Take, At
<1>2. PICK f, g : f \in Frames /\ f = Top(t) /\ g = [f EXCEPT !.pc = "write", !.conn = sock]
  BY <1>1, Caller
<1>3. g \in Frames /\ g.pc = "write" /\ g.conn = sock
  BY <1>2, Shape DEF Frames
<1>4. /\ Becomes(t, g)
      /\ UNCHANGED <<net, sock, inFlight, fromThread, closeWhenDone, requester, told>>
  BY <1>2 DEF Take
<1>5. sock # NoFd /\ (~net[sock].mixed => Due(sock) = 0)
  BY <1>1 DEF IInv, Using, Clean
<1>6. \A d \in Fds : net'[d].open <=> d = sock'
  BY <1>4 DEF IInv, OneSocket
<1>7. ~net'[sock'].mixed => Due(sock)' = 0
  BY <1>4, <1>5 DEF Due
<1> QED
  BY <1>1, <1>3, <1>4, <1>5, <1>6, <1>7, Shape, CallMoves

(* One request more, or a connection over which replies cannot be told     *)
(* apart any more.                                                         *)
LEMMA RequestArrives ==
  ASSUME NEW s \in Sockets, NEW req, NEW r, r = Received(s, req)
  PROVE  /\ r \in Sockets /\ r.open = s.open
         /\ ~r.mixed => ~s.mixed /\ r.owed + r.replies <= s.owed + s.replies + 1
<1>1. CASE s.gone
  BY <1>1 DEF Received, Sockets
<1>2. CASE ~s.gone
  <2>a. PICK o \in 0 .. MaxReplies, k \in {1, 2}, m \in BOOLEAN :
          /\ o = s.owed /\ k = (IF Delimited(req) THEN 1 ELSE 2)
          /\ m = (s.mixed \/ ~Delimited(req))
    BY DEF Sockets
  <2>b. PICK n : n = AtMost(o + k, MaxReplies)
    OBVIOUS
  <2>c. n \in 0 .. MaxReplies /\ n <= o + k
    BY <2>b, ClientAssumption DEF AtMost
  <2>d. ~m => ~s.mixed /\ k = 1
    BY <2>a
  <2>1. /\ n = AtMost(s.owed + (IF Delimited(req) THEN 1 ELSE 2), MaxReplies)
        /\ m = (s.mixed \/ ~Delimited(req))
    BY <2>a, <2>b
  <2>2. n \in 0 .. MaxReplies /\ (~m => ~s.mixed /\ n <= s.owed + 1)
    BY <2>a, <2>c, <2>d
  <2>3. r = [s EXCEPT !.owed = n, !.mixed = m]
    BY <1>2, <2>1 DEF Received, Sockets
  <2>4. /\ r \in Sockets /\ r.open = s.open /\ r.owed = n /\ r.mixed = m
        /\ r.replies = s.replies
    BY <2>2, <2>3 DEF Sockets
  <2>5. s.owed \in Nat /\ s.replies \in Nat
    BY DEF Sockets
  <2> QED
    BY <2>2, <2>4, <2>5
<1> QED
  BY <1>1, <1>2

LEMMA FailInv ==
  ASSUME IInv, NEW t \in Threads, Busy(t), Top(t).pc # "open", Fail(t),
         UNCHANGED <<sock, inFlight, fromThread, closeWhenDone, requester, told>>,
         net' \in [Fds -> Sockets], \A d \in Fds : net'[d].open = net[d].open
  PROVE  IInv'
<1>1. PICK f, g : f \in Frames /\ f = Top(t) /\ g = Finished(f, FALSE)
  BY Caller
<1>2. g \in Frames /\ g.pc = "done" /\ ~g.ok
  BY <1>1, FinishedFrame
<1>3. Becomes(t, g)
  BY <1>1 DEF Fail
<1>4. \A d \in Fds : net'[d].open <=> d = sock'
  BY DEF IInv, OneSocket
<1> QED
  BY <1>2, <1>3, <1>4, Shape, CallMoves

LEMMA WriteInv ==
  ASSUME IInv, NEW t \in Threads, Write(t)
  PROVE  IInv'
<1>1. /\ Busy(t) /\ Top(t).pc = "write"
      /\ UNCHANGED <<sock, inFlight, fromThread, closeWhenDone, requester, told>>
  BY DEF Write, At
<1>2. Top(t).conn = sock /\ sock \in Fds /\ (~net[sock].mixed => Due(sock) = 0)
  BY <1>1, Shape DEF IInv, Using, Clean
<1>3. PICK s, r : s \in Sockets /\ s = net[sock] /\ r = Received(s, Top(t).req)
  BY <1>2, Shape
<1>4. /\ r \in Sockets /\ r.open = s.open
      /\ ~r.mixed => ~s.mixed /\ r.owed + r.replies <= s.owed + s.replies + 1
  BY <1>3, RequestArrives
<1>5. CASE /\ net' = [net EXCEPT ![sock] = r]
           /\ Becomes(t, [Top(t) EXCEPT !.pc = "read"])
  <2>1. PICK f, g : f \in Frames /\ f = Top(t) /\ g = [f EXCEPT !.pc = "read"]
    BY <1>1, Caller
  <2>2. g \in Frames /\ g.pc = "read" /\ g.conn = sock
    BY <1>2, <2>1 DEF Frames
  <2>3. Becomes(t, g)
    BY <1>5, <2>1
  <2>4. net' \in [Fds -> Sockets] /\ \A d \in Fds : net'[d].open = net[d].open
    BY <1>2, <1>3, <1>4, <1>5, Shape
  <2>5. \A d \in Fds : net'[d].open <=> d = sock'
    BY <1>1, <2>4 DEF IInv, OneSocket
  <2>6. ~net'[sock'].mixed => Due(sock)' <= 1
    <3>1. net'[sock'] = r
      BY <1>1, <1>2, <1>5, Shape
    <3>2. ~s.mixed => s.owed + s.replies = 0
      BY <1>2, <1>3 DEF Due
    <3>3. ~r.mixed => r.owed + r.replies <= 1
      <4>1. s.owed \in Nat /\ s.replies \in Nat /\ r.owed \in Nat /\ r.replies \in Nat
        BY <1>3, <1>4 DEF Sockets
      <4> QED
        BY <1>4, <3>2, <4>1
    <3> QED
      BY <1>1, <3>1, <3>3 DEF Due
  <2>7. sock' # NoFd
    BY <1>1, <1>2, ClientAssumption
  <2> QED
    BY <1>1, <2>2, <2>3, <2>4, <2>5, <2>6, <2>7, Shape, CallMoves
<1>6. CASE net' \in {net, [net EXCEPT ![sock] = IF s.shut THEN s ELSE r]} /\ Fail(t)
  <2>1. net' \in [Fds -> Sockets] /\ \A d \in Fds : net'[d].open = net[d].open
    BY <1>2, <1>3, <1>4, <1>6, Shape
  <2> QED
    BY <1>1, <1>6, <2>1, FailInv
<1> QED
  BY <1>2, <1>3, <1>5, <1>6 DEF Write

LEMMA ReadInv ==
  ASSUME IInv, NEW t \in Threads, Read(t)
  PROVE  IInv'
<1>1. /\ Busy(t) /\ Top(t).pc = "read"
      /\ UNCHANGED <<sock, inFlight, fromThread, closeWhenDone, requester, told>>
  BY DEF Read, At
<1>2. Top(t).conn = sock /\ sock \in Fds /\ (~net[sock].mixed => Due(sock) <= 1)
  BY <1>1, Shape DEF IInv, Using, Clean
<1>3. PICK s, r : s \in Sockets /\ s = net[sock] /\ r = [s EXCEPT !.replies = s.replies - 1]
  BY <1>2, Shape
<1>4. s.replies \in 1 .. MaxReplies
  BY <1>2, <1>3 DEF Read, Sockets
<1>5. /\ r \in Sockets /\ r.open = s.open /\ r.mixed = s.mixed
      /\ r.owed = s.owed /\ r.replies = s.replies - 1
  <2>1. s.replies - 1 \in 0 .. MaxReplies
    BY <1>4, ClientAssumption
  <2> QED
    BY <1>3, <2>1 DEF Sockets
<1>6. net' = [net EXCEPT ![sock] = r]
  BY <1>2, <1>3, Shape DEF Read
<1>7. PICK g \in Frames : g.pc \in {"close", "follow"} /\ Becomes(t, g)
  <2>1. PICK again \in BOOLEAN, closes \in BOOLEAN :
          Becomes(t, [Top(t) EXCEPT !.pc = IF closes THEN "close" ELSE "follow",
                                    !.again = again])
    BY DEF Read
  <2>2. PICK f, p, g :
          /\ f \in Frames /\ p \in {"close", "follow"}
          /\ f = Top(t) /\ p = (IF closes THEN "close" ELSE "follow")
          /\ g = [f EXCEPT !.pc = p, !.again = again]
    <3>1. Top(t) \in Frames
      BY <1>1, Caller
    <3> QED
      BY <3>1
  <2>3. g \in Frames /\ g.pc = p
    BY <2>2 DEF Frames
  <2> QED
    BY <2>1, <2>2, <2>3
<1>8. net' \in [Fds -> Sockets] /\ \A d \in Fds : net'[d].open = net[d].open
  BY <1>2, <1>3, <1>5, <1>6, Shape
<1>9. \A d \in Fds : net'[d].open <=> d = sock'
  BY <1>1, <1>8 DEF IInv, OneSocket
<1>10. ~net'[sock'].mixed => Due(sock)' = 0
  <2>1. net'[sock'] = r
    BY <1>1, <1>2, <1>6, Shape
  <2>2. ~s.mixed => s.owed + s.replies <= 1
    BY <1>2, <1>3 DEF Due
  <2>3. ~r.mixed => r.owed + r.replies = 0
    <3>1. s.owed \in Nat
      BY <1>3 DEF Sockets
    <3> QED
      BY <1>4, <1>5, <2>2, <3>1
  <2> QED
    BY <1>1, <2>1, <2>3 DEF Due
<1>11. sock' # NoFd
  BY <1>1, <1>2, ClientAssumption
<1> QED
  BY <1>1, <1>7, <1>8, <1>9, <1>10, <1>11, Shape, CallMoves

(* Steps that leave the sockets as they are.                               *)
LEMMA SettledInv ==
  ASSUME IInv, NEW t \in Threads,
         \/ ReadFails(t) \/ TakeReply(t) \/ RedirectFails(t) \/ RedirectElsewhere(t)
  PROVE  IInv'
<1>1. /\ Busy(t) /\ Top(t).pc \in {"read", "follow"}
      /\ UNCHANGED <<net, sock, inFlight, fromThread, closeWhenDone, requester, told>>
  BY DEF ReadFails, TakeReply, RedirectFails, RedirectElsewhere, At
<1>2. CASE ReadFails(t) \/ RedirectFails(t)
  <2>1. Fail(t)
    BY <1>2 DEF ReadFails, RedirectFails
  <2> QED
    BY <1>1, <2>1, Shape, FailInv
<1>3. CASE TakeReply(t) \/ RedirectElsewhere(t)
  <2>1. PICK f, g : f \in Frames /\ f = Top(t) /\ g = Finished(f, TRUE)
    BY <1>1, Caller
  <2>2. g \in Frames /\ g.pc = "done" /\ g.ok
    BY <2>1, FinishedFrame
  <2>3. Becomes(t, g) /\ Top(t).pc = "follow"
    BY <1>3, <2>1 DEF TakeReply, RedirectElsewhere, At
  <2>4. \A d \in Fds : net'[d].open <=> d = sock'
    BY <1>1 DEF IInv, OneSocket
  <2>5. sock' # NoFd /\ ~net'[sock'].mixed => Due(sock)' = 0
    BY <1>1, <2>3 DEF IInv, Clean, Due
  <2> QED
    BY <1>1, <2>2, <2>3, <2>4, <2>5, Shape, CallMoves
<1> QED
  BY <1>2, <1>3

LEMMA CloseSaidInv ==
  ASSUME IInv, NEW t \in Threads, CloseSaid(t)
  PROVE  IInv'
<1>1. /\ Busy(t) /\ Top(t).pc = "close" /\ sock' = NoFd /\ net' = WithoutSocket
      /\ UNCHANGED <<inFlight, fromThread, closeWhenDone, requester, told>>
  BY DEF CloseSaid, At
<1>2. PICK f, g : f \in Frames /\ f = Top(t) /\ g = [f EXCEPT !.pc = "follow", !.conn = NoFd]
  BY <1>1, Caller
<1>3. g \in Frames /\ g.pc = "follow"
  BY <1>2 DEF Frames
<1>4. Becomes(t, g)
  BY <1>2 DEF CloseSaid
<1>5. net' \in [Fds -> Sockets] /\ \A d \in Fds : net'[d].open <=> d = sock'
  BY <1>1, Released, ClientAssumption
<1> QED
  BY <1>1, <1>3, <1>4, <1>5, CallMoves

(* A redirect starts a send() with the same request, or what a 303 makes   *)
(* of it.                                                                  *)
LEMMA RedirectTopped ==
  ASSUME IInv, NEW t \in Threads, RedirectHere(t)
  PROVE  \E g \in Frames, n \in Nat \ {0} :
           /\ n = Len(stack[t]) /\ g.pc = "open" /\ Topped(t, g, n + 1)
           /\ g.req \in {Top(t).req, SeeOther(Top(t).req)}
           /\ inFlight = n /\ fromThread = IF inFlight = 0 THEN NoThread ELSE t
<1>1. /\ Busy(t) /\ Top(t).pc = "follow" /\ Top(t).left > 0
      /\ UNCHANGED <<net, sock, inFlight, fromThread, closeWhenDone, requester, told>>
  BY DEF RedirectHere, At
<1>2. PICK f \in Frames, s \in Seq(Frames) : f = Top(t) /\ s = stack[t] /\ s # <<>>
  BY <1>1, Caller, Shape DEF Busy
<1>3. PICK req \in {f.req, SeeOther(f.req)} :
        stack' = [stack EXCEPT ![t] = Front(s) \o <<[Finished(f, FALSE) EXCEPT !.pc = "nested"],
                                                    Frame(req, f.left - 1, f.close)>>]
  BY <1>2, Shape DEF RedirectHere
<1>4. PICK h \in Frames : h = [Finished(f, FALSE) EXCEPT !.pc = "nested"]
  <2>1. PICK e : e = Finished(f, FALSE)
    OBVIOUS
  <2>2. e \in Frames
    BY <2>1, FinishedFrame
  <2>3. [e EXCEPT !.pc = "nested"] \in Frames
    BY <2>2 DEF Frames
  <2> QED
    BY <2>1, <2>3
<1>5. PICK g \in Frames : g = Frame(req, f.left - 1, f.close) /\ g.pc = "open"
  <2>1. f.req \in Requests /\ f.left \in 0 .. RedirectMax /\ f.close \in BOOLEAN
    BY DEF Frames
  <2>2. SeeOther(f.req) \in Requests
    BY <2>1 DEF SeeOther, Requests
  <2>3. f.left - 1 \in 0 .. RedirectMax
    BY <1>1, <1>2, <2>1, ClientAssumption
  <2> QED
    BY <2>1, <2>2, <2>3, NewFrame
<1>6. PICK n \in Nat \ {0} :
        /\ n = Len(s) /\ inFlight = n - (IF Top(t).pc = "open" THEN 1 ELSE 0)
        /\ fromThread = IF inFlight = 0 THEN NoThread ELSE t
  BY <1>1, <1>2, Caller
<1>7. PICK b, p, u :
        b \in Seq(Frames) /\
        b = Front(s) /\ Len(b) = n - 1 /\ p = <<h, g>> /\ u = b \o p
  BY <1>2, <1>6, FrontFrames
<1>8. u \in Seq(Frames) /\ Len(u) = Len(b) + 2 /\ u # <<>> /\ Last(u) = g
  <2>1. p \in Seq(Frames) /\ Len(p) = 2 /\ p[2] = g
    BY <1>7
  <2>2. /\ u \in Seq(Frames) /\ Len(u) = Len(b) + Len(p)
        /\ \A i \in 1 .. Len(b) + Len(p) : u[i] = IF i <= Len(b) THEN b[i] ELSE p[i - Len(b)]
    BY <1>7, <2>1, ConcatProperties
  <2>3. PICK m \in Nat : m = Len(b)
    BY <1>7, LenProperties
  <2>4. Len(u) = m + 2 /\ u[m + 2] = g
    BY <2>1, <2>2, <2>3
  <2> QED
    BY <2>2, <2>3, <2>4, EmptySeq DEF Last
<1>9. Topped(t, g, n + 1)
  <2>1. stack' = [stack EXCEPT ![t] = u] /\ requester' = t
    BY <1>1, <1>3, <1>4, <1>5, <1>7, Caller
  <2>2. Topped(t, Last(u), Len(u))
    BY <1>1, <1>8, <2>1, StackTopped
  <2>3. Len(u) = n + 1
    BY <1>7, <1>8
  <2> QED
    BY <1>8, <2>2, <2>3
<1>10. g.req = req
  BY <1>5 DEF Frame
<1> QED
  BY <1>1, <1>2, <1>3, <1>5, <1>6, <1>9, <1>10

(* The send() of a redirect starts where that of the reply stands.         *)
LEMMA RedirectHereInv ==
  ASSUME IInv, NEW t \in Threads, RedirectHere(t)
  PROVE  IInv'
<1>1. UNCHANGED <<net, sock, inFlight, fromThread, closeWhenDone, requester, told>>
  BY DEF RedirectHere
<1>2. PICK g \in Frames, n \in Nat \ {0} :
        /\ g.pc = "open" /\ Topped(t, g, n + 1)
        /\ inFlight = n /\ fromThread = IF inFlight = 0 THEN NoThread ELSE t
  BY RedirectTopped
<1>3. /\ n + 1 \in Nat \ {0} /\ inFlight' = (n + 1) - (IF g.pc = "open" THEN 1 ELSE 0)
      /\ fromThread' = IF inFlight' = 0 THEN NoThread ELSE t
  BY <1>1, <1>2
<1>4. \A d \in Fds : net'[d].open <=> d = sock'
  BY <1>1 DEF IInv, OneSocket
<1>5. sock' # NoFd /\ ~net'[sock'].mixed => Due(sock)' = 0
  <2>1. Busy(t) /\ Top(t).pc = "follow"
    BY DEF RedirectHere, At
  <2> QED
    BY <1>1, <2>1 DEF IInv, Clean, Due
<1>6. /\ net' \in [Fds -> Sockets] /\ sock' \in Fds \cup {NoFd}
      /\ closeWhenDone' \in BOOLEAN /\ told' \in BOOLEAN
  BY <1>1, Shape
<1> QED
  BY <1>2, <1>3, <1>4, <1>5, <1>6, CallGoesOn

(* A send() that returns leaves its caller with its result, or nobody in a *)
(* call.                                                                   *)
LEMMA ReturnStep ==
  ASSUME IInv, NEW t \in Threads, Busy(t), NEW ok \in BOOLEAN, Return(t, ok),
         NEW n \in Nat \ {0}, n = Len(stack[t])
  PROVE  \/ /\ n = 1 /\ requester' = NoThread
            /\ stack' \in [Threads -> Seq(Frames)] /\ \A u \in Threads : ~Busy(u)'
         \/ /\ n - 1 \in Nat \ {0}
            /\ \E g \in Frames : /\ g.pc = "done" /\ g.ok = ok /\ g.req = NoRequest
                               /\ Topped(t, g, n - 1)
<1>1. PICK s \in Seq(Frames), b \in Seq(Frames) :
        s = stack[t] /\ s # <<>> /\ b = Front(s) /\ Len(b) = n - 1
  <2>1. stack[t] \in Seq(Frames) /\ stack[t] # <<>>
    BY Shape DEF Busy
  <2> QED
    BY <2>1, FrontFrames
<1>2. CASE b = <<>>
  <2>1. Len(b) = 0
    BY <1>2, EmptySeq
  <2>2. n = 1
    BY <1>1, <2>1
  <2>3. requester' = NoThread /\ stack' = [stack EXCEPT ![t] = <<>>]
    BY <1>1, <1>2 DEF Return
  <2>4. <<>> \in Seq(Frames)
    BY EmptySeq
  <2>5. stack' \in [Threads -> Seq(Frames)]
    BY <2>3, <2>4, Shape
  <2>6. \A u \in Threads : ~Busy(u)'
    BY <2>3, Shape, Caller DEF Busy
  <2> QED
    BY <2>2, <2>3, <2>5, <2>6
<1>3. CASE b # <<>>
  <2>1. PICK f, g : f \in Frames /\ f = Last(b) /\ g = Finished(f, ok)
    BY <1>3, LastFrame
  <2>2. g \in Frames /\ g.pc = "done" /\ g.ok = ok /\ g.req = NoRequest
    BY <2>1, FinishedFrame
  <2>3. PICK h, u : h \in Seq(Frames) /\ h = Front(b) /\ Len(h) = Len(b) - 1 /\ u = Append(h, g)
    BY <1>3, FrontFrames
  <2>4. u \in Seq(Frames) /\ Len(u) = Len(h) + 1 /\ u # <<>> /\ Last(u) = g
    BY <2>2, <2>3, PushFrame
  <2>5. Len(b) \in Nat \ {0}
    BY <1>3, LastFrame
  <2>6. Len(u) = n - 1 /\ n - 1 \in Nat \ {0}
    BY <1>1, <2>3, <2>4, <2>5
  <2>7. stack' = [stack EXCEPT ![t] = u] /\ requester' = t
    BY <1>1, <1>3, <2>1, <2>3, Caller DEF Return
  <2>8. Topped(t, Last(u), Len(u))
    BY <2>4, <2>7, StackTopped
  <2> QED
    BY <2>2, <2>4, <2>6, <2>8
<1> QED
  BY <1>2, <1>3

LEMMA OpenFailsInv ==
  ASSUME IInv, NEW t \in Threads, OpenFails(t)
  PROVE  IInv'
<1>1. /\ Busy(t) /\ Top(t).pc = "open" /\ Return(t, FALSE)
      /\ sock' = NoFd /\ net' = WithoutSocket /\ closeWhenDone' = FALSE /\ told' = FALSE
      /\ UNCHANGED <<inFlight, fromThread>>
  BY DEF OpenFails, At
<1>2. PICK n \in Nat \ {0} :
        /\ n = Len(stack[t]) /\ inFlight = n - (IF Top(t).pc = "open" THEN 1 ELSE 0)
        /\ fromThread = IF inFlight = 0 THEN NoThread ELSE t
  BY <1>1, Caller
<1>3. net' \in [Fds -> Sockets] /\ \A d \in Fds : net'[d].open <=> d = sock'
  BY <1>1, Released, ClientAssumption
<1>4. CASE /\ n = 1 /\ requester' = NoThread
           /\ stack' \in [Threads -> Seq(Frames)] /\ \A u \in Threads : ~Busy(u)'
  <2>1. inFlight' = 0 /\ fromThread' = NoThread
    BY <1>1, <1>2, <1>4
  <2> QED
    BY <1>1, <1>3, <1>4, <2>1, NobodyCalls
<1>5. ASSUME n - 1 \in Nat \ {0}, NEW g \in Frames, g.pc = "done", Topped(t, g, n - 1) PROVE IInv'
  <2>1. /\ inFlight' = (n - 1) - (IF g.pc = "open" THEN 1 ELSE 0)
        /\ fromThread' = IF inFlight' = 0 THEN NoThread ELSE t
    BY <1>1, <1>2, <1>5
  <2> QED
    BY <1>1, <1>3, <1>5, <2>1, CallGoesOn
<1> QED
  BY <1>1, <1>2, <1>4, <1>5, ReturnStep

LEMMA DoneInv ==
  ASSUME IInv, NEW t \in Threads, Done(t)
  PROVE  IInv'
<1>1. /\ Busy(t) /\ Top(t).pc = "done" /\ Return(t, Top(t).ok) /\ inFlight' = inFlight - 1
      /\ fromThread' = (IF inFlight' = 0 THEN NoThread ELSE fromThread)
      /\ UNCHANGED <<closeWhenDone, told>>
  BY DEF Done, At, MarkDone
<1>2. PICK n \in Nat \ {0} :
        /\ n = Len(stack[t]) /\ inFlight = n - (IF Top(t).pc = "open" THEN 1 ELSE 0)
        /\ fromThread = IF inFlight = 0 THEN NoThread ELSE t
  BY <1>1, Caller
<1>3. inFlight = n /\ inFlight' = n - 1 /\ fromThread = t
  BY <1>1, <1>2
<1>4. PICK ok \in BOOLEAN : ok = Top(t).ok
  <2>1. Top(t) \in Frames
    BY <1>1, Caller
  <2> QED
    BY <2>1 DEF Frames
<1>5. /\ net' \in [Fds -> Sockets] /\ sock' \in Fds \cup {NoFd}
      /\ \A d \in Fds : net'[d].open <=> d = sock'
      /\ sock' # NoFd /\ ~net'[sock'].mixed => Due(sock)' = 0
  <2>1. CASE sock' = NoFd /\ net' = WithoutSocket
    BY <2>1, Released, ClientAssumption
  <2>2. CASE UNCHANGED <<net, sock>> /\ Top(t).ok
    <3>1. sock # NoFd /\ ~net[sock].mixed => Due(sock) = 0
      BY <1>1, <2>2 DEF IInv, Clean
    <3> QED
      BY <2>2, <3>1, Shape DEF IInv, OneSocket, Due
  <2> QED
    BY <2>1, <2>2 DEF Done
<1>6. closeWhenDone' \in BOOLEAN /\ told' \in BOOLEAN
  BY <1>1, Shape
<1>7. CASE /\ n = 1 /\ requester' = NoThread
           /\ stack' \in [Threads -> Seq(Frames)] /\ \A u \in Threads : ~Busy(u)'
  <2>1. inFlight' = 0 /\ fromThread' = NoThread
    BY <1>1, <1>3, <1>7
  <2> QED
    BY <1>5, <1>6, <1>7, <2>1, NobodyCalls
<1>8. ASSUME n - 1 \in Nat \ {0}, NEW g \in Frames, g.pc = "done", Topped(t, g, n - 1) PROVE IInv'
  <2>1. /\ inFlight' = (n - 1) - (IF g.pc = "open" THEN 1 ELSE 0)
        /\ fromThread' = IF inFlight' = 0 THEN NoThread ELSE t
    BY <1>1, <1>3, <1>8
  <2> QED
    BY <1>5, <1>6, <1>8, <2>1, CallGoesOn
<1> QED
  BY <1>1, <1>2, <1>4, <1>7, <1>8, ReturnStep

-----------------------------------------------------------------------------
(* The theorems.                                                           *)

LEMMA InitInv == Init => IInv
<1> SUFFICES ASSUME Init PROVE IInv
  OBVIOUS
<1>1. net \in [Fds -> Sockets] /\ \A d \in Fds : ~net[d].open
  BY SocketRecords DEF Init
<1>2. stack \in [Threads -> Seq(Frames)] /\ \A t \in Threads : ~Busy(t)
  BY EmptySeq DEF Init, Busy
<1>3. /\ sock = NoFd /\ inFlight = 0 /\ fromThread = NoThread /\ closeWhenDone = FALSE
      /\ requester = NoThread /\ told = FALSE
  BY DEF Init
<1>4. TypeOK
  BY <1>1, <1>2, <1>3 DEF TypeOK, Sockets
<1>5. InFlightExact
  BY <1>2, <1>3, ClientAssumption DEF InFlightExact
<1>6. OneSocket /\ Using /\ Clean
  BY <1>1, <1>2, <1>3, ClientAssumption DEF OneSocket, Using, Clean
<1> QED
  BY <1>4, <1>5, <1>6 DEF IInv

LEMMA NextInv == IInv /\ [Next]_clientVars => IInv'
<1> SUFFICES ASSUME IInv, [Next]_clientVars PROVE IInv'
  OBVIOUS
<1>1. ASSUME NEW t \in Threads, Send(t) PROVE IInv'
  BY <1>1, OpenInv, OpenFailsInv, TakeInv, WriteInv, ReadInv, SettledInv, CloseSaidInv,
     RedirectHereInv, DoneInv
  DEF Send
<1>2. CASE UNCHANGED clientVars
  BY <1>2 DEF clientVars, IInv, TypeOK, InFlightExact, OneSocket, Using, Clean, Due, Busy, Top, At
<1> QED
  BY <1>1, <1>2, BeginInv, StopInv, ServerInv DEF Next

LEMMA Invariance == Spec => []IInv
  BY InitInv, NextInv, PTL DEF Spec

(* The counter of requests is exact and never wraps, its thread is the one *)
(* inside send(), and a call uses the one descriptor the client owns, for  *)
(* any number of threads, descriptors and redirects.                       *)
THEOREM ConsistentHolds == Spec => []Consistent
<1>1. IInv => OwnSocket
  BY DEF IInv, OneSocket, Using, OwnSocket, At
<1>2. IInv => Consistent
  BY <1>1 DEF IInv, Consistent
<1> QED
  BY <1>2, Invariance, PTL

-----------------------------------------------------------------------------
(* Chunks without a header are the content of a followed 303 only.         *)

Told(req, n) == Delimited(req) \/ (req.get /\ n > 1)

Announced == \A t \in Threads : Busy(t) => Told(Top(t).req, Len(stack[t]))

LEMMA ToldAfter ==
  ASSUME NEW t \in Threads, NEW g \in Frames, NEW n \in Nat \ {0}, Topped(t, g, n),
         Told(g.req, n)
  PROVE  Announced'
  BY DEF Announced, Topped

LEMMA FinishedTold ==
  ASSUME NEW f \in Frames, NEW ok \in BOOLEAN, NEW n \in Nat
  PROVE  Told(Finished(f, ok).req, n)
<1>1. Finished(f, ok).req = NoRequest
  BY DEF Finished, Frames
<1> QED
  BY <1>1 DEF Told, Delimited, NoRequest

(* The request on top stays, or the call has ended. *)
LEMMA BecomesTold ==
  ASSUME IInv, Announced, NEW t \in Threads, Busy(t), NEW g \in Frames, Becomes(t, g),
         requester' = requester, g.req \in {Top(t).req, NoRequest}
  PROVE  Announced'
<1>1. PICK n \in Nat \ {0} : n = Len(stack[t])
  BY Caller
<1>2. Topped(t, g, n)
  BY <1>1, TopReplaced
<1>3. Told(g.req, n)
  BY <1>1 DEF Announced, Told, Delimited, NoRequest
<1> QED
  BY <1>1, <1>2, <1>3, ToldAfter

LEMMA RedirectTold ==
  ASSUME IInv, Announced, NEW t \in Threads, RedirectHere(t)
  PROVE  Announced'
<1>1. Busy(t)
  BY DEF RedirectHere, At
<1>2. PICK f \in Frames : f = Top(t)
  BY <1>1, Caller
<1>3. PICK g \in Frames, n \in Nat \ {0} :
        n = Len(stack[t]) /\ Topped(t, g, n + 1) /\ g.req \in {f.req, SeeOther(f.req)}
  BY <1>2, RedirectTopped
<1>4. Told(f.req, n) /\ n + 1 > 1 /\ n + 1 \in Nat \ {0}
  BY <1>1, <1>2, <1>3 DEF Announced
<1>5. Delimited(g.req) \/ g.req.get
  <2>1. CASE g.req = f.req
    BY <1>4, <2>1 DEF Told
  <2>2. CASE f.req.get /\ g.req = SeeOther(f.req)
    BY <2>2 DEF SeeOther
  <2>3. CASE ~f.req.get /\ g.req = SeeOther(f.req)
    BY <2>3 DEF SeeOther
  <2> QED
    BY <1>3, <2>1, <2>2, <2>3
<1>6. Told(g.req, n + 1)
  BY <1>4, <1>5 DEF Told
<1> QED
  BY <1>3, <1>4, <1>6, ToldAfter

LEMMA ReturnTold ==
  ASSUME IInv, NEW t \in Threads, Busy(t), NEW ok \in BOOLEAN, Return(t, ok)
  PROVE  Announced'
<1>1. PICK n \in Nat \ {0} : n = Len(stack[t])
  BY Caller
<1>2. CASE \A u \in Threads : ~Busy(u)'
  BY <1>2 DEF Announced
<1>3. ASSUME n - 1 \in Nat \ {0}, NEW g \in Frames, g.req = NoRequest, Topped(t, g, n - 1)
      PROVE  Announced'
  <2>1. Told(g.req, n - 1)
    BY <1>3 DEF Told, Delimited, NoRequest
  <2> QED
    BY <1>3, <2>1, ToldAfter
<1> QED
  BY <1>1, <1>2, <1>3, ReturnStep

LEMMA SendTold ==
  ASSUME IInv, Announced, NEW t \in Threads, Send(t)
  PROVE  Announced'
<1>1. Busy(t)
  BY DEF Send, Open, OpenFails, Take, Write, Fail, Read, ReadFails, CloseSaid, TakeReply,
         RedirectFails, RedirectElsewhere, RedirectHere, Done, At
<1>2. PICK f \in Frames : f = Top(t)
  BY <1>1, Caller
<1>3. /\ Finished(f, FALSE) \in Frames /\ Finished(f, FALSE).req = NoRequest
      /\ Finished(f, TRUE) \in Frames /\ Finished(f, TRUE).req = NoRequest
  BY FinishedFrame
<1>4. CASE Open(t)
  <2>1. PICK g : g = [f EXCEPT !.pc = "take"]
    OBVIOUS
  <2>2. g \in Frames /\ g.req = f.req
    BY <2>1 DEF Frames
  <2>3. Becomes(t, g) /\ requester' = requester
    BY <1>2, <1>4, <2>1 DEF Open
  <2> QED
    BY <1>1, <1>2, <2>2, <2>3, BecomesTold
<1>5. CASE OpenFails(t)
  BY <1>1, <1>5, ReturnTold DEF OpenFails
<1>6. CASE Take(t)
  <2>1. PICK g : g = [f EXCEPT !.pc = "write", !.conn = sock]
    OBVIOUS
  <2>2. g \in Frames /\ g.req = f.req
    BY <2>1, Shape DEF Frames
  <2>3. Becomes(t, g) /\ requester' = requester
    BY <1>2, <1>6, <2>1 DEF Take
  <2> QED
    BY <1>1, <1>2, <2>2, <2>3, BecomesTold
<1>7. CASE Write(t)
  <2>1. PICK g : g = [f EXCEPT !.pc = "read"]
    OBVIOUS
  <2>2. g \in Frames /\ g.req = f.req
    BY <2>1 DEF Frames
  <2>3. (Becomes(t, g) \/ Becomes(t, Finished(f, FALSE))) /\ requester' = requester
    BY <1>2, <1>7, <2>1 DEF Write, Fail
  <2> QED
    BY <1>1, <1>2, <1>3, <2>2, <2>3, BecomesTold
<1>8. CASE Read(t)
  <2>1. PICK again \in BOOLEAN, closes \in BOOLEAN :
          Becomes(t, [f EXCEPT !.pc = IF closes THEN "close" ELSE "follow", !.again = again])
    BY <1>2, <1>8 DEF Read
  <2>2. PICK g : g = [f EXCEPT !.pc = IF closes THEN "close" ELSE "follow", !.again = again]
    OBVIOUS
  <2>3. g \in Frames /\ g.req = f.req
    BY <2>2 DEF Frames
  <2>4. Becomes(t, g) /\ requester' = requester
    BY <1>8, <2>1, <2>2 DEF Read
  <2> QED
    BY <1>1, <1>2, <2>3, <2>4, BecomesTold
<1>9. CASE CloseSaid(t)
  <2>1. PICK g : g = [f EXCEPT !.pc = "follow", !.conn = NoFd]
    OBVIOUS
  <2>2. g \in Frames /\ g.req = f.req
    BY <2>1 DEF Frames
  <2>3. Becomes(t, g) /\ requester' = requester
    BY <1>2, <1>9, <2>1 DEF CloseSaid
  <2> QED
    BY <1>1, <1>2, <2>2, <2>3, BecomesTold
<1>10. CASE ReadFails(t) \/ TakeReply(t) \/ RedirectFails(t) \/ RedirectElsewhere(t)
  <2>1. /\ Becomes(t, Finished(f, FALSE)) \/ Becomes(t, Finished(f, TRUE))
        /\ requester' = requester
    BY <1>2, <1>10 DEF ReadFails, TakeReply, RedirectFails, RedirectElsewhere, Fail
  <2> QED
    BY <1>1, <1>2, <1>3, <2>1, BecomesTold
<1>11. CASE RedirectHere(t)
  BY <1>11, RedirectTold
<1>12. CASE Done(t)
  <2>1. f.ok \in BOOLEAN /\ Return(t, f.ok)
    BY <1>2, <1>12 DEF Frames, Done
  <2> QED
    BY <1>1, <2>1, ReturnTold
<1> QED
  BY <1>4, <1>5, <1>6, <1>7, <1>8, <1>9, <1>10, <1>11, <1>12 DEF Send

LEMMA NextTold == IInv /\ Announced /\ [Next]_clientVars => Announced'
<1> SUFFICES ASSUME IInv, Announced, [Next]_clientVars PROVE Announced'
  OBVIOUS
<1>1. ASSUME NEW t \in Threads, Begin(t) PROVE Announced'
  <2>1. PICK g \in Frames : Delimited(g.req) /\ Topped(t, g, 1)
    BY <1>1, BeginTopped
  <2> QED
    BY <2>1, ToldAfter DEF Told
<1>2. ASSUME UNCHANGED stack PROVE Announced'
  BY <1>2 DEF Announced, Busy, Top
<1>3. Stop \/ (\E d \in Fds : Answer(d) \/ HangUp(d)) \/ UNCHANGED clientVars => UNCHANGED stack
  BY DEF Stop, Answer, HangUp, clientVars
<1> QED
  BY <1>1, <1>2, <1>3, SendTold DEF Next

LEMMA AnnouncedHolds == Spec => []Announced
<1>1. Init => Announced
  BY DEF Init, Announced, Busy
<1> QED
  BY <1>1, NextTold, Invariance, PTL DEF Spec

(* A request is written only where no reply to an earlier one can arrive,  *)
(* unless chunks went over the connection without the header that          *)
(* announces them; what a caller asks for is never sent like that, only a  *)
(* GET that follows a 303, whatever the number of threads and redirects.   *)
THEOREM AnswersOwnHolds == Spec => []AnswersOwn
<1>1. IInv => \A t \in Threads : At(t, "write") =>
                LET s == net[Top(t).conn] IN s.owed + s.replies = 0 \/ s.mixed
  BY Shape DEF IInv, Using, Clean, Due, At
<1>2. Announced => \A t \in Threads : At(t, "write") =>
                     Delimited(Top(t).req) \/ (Top(t).req.get /\ Len(stack[t]) > 1)
  BY DEF Announced, Told, At
<1>3. IInv /\ Announced => AnswersOwn
  BY <1>1, <1>2 DEF AnswersOwn
<1> QED
  BY <1>3, Invariance, AnnouncedHolds, PTL
=============================================================================
