-------------------------- MODULE HttpServerProofs --------------------------
(***************************************************************************)
(* Proofs about HttpServer, for any number of threads and connections,     *)
(* whatever the clients send.  IInv is about the thread pool and the owner *)
(* of each connection, EInv about what happens on a connection.  It sees   *)
(* all that a client sends as one stream of parts, and says where in it    *)
(* the server is, the request that is handled, and those with a reply.     *)
(***************************************************************************)
EXTENDS HttpServer, SequenceTheorems, FiniteSetTheorems, WellFoundedInduction, TLAPS

(* Where a connection is before and while a thread has it.                 *)
Before  == {"none", "backlog", "accepted", "queued"}
Serving == Places \ (Before \cup {"closed"})

PoolTypes ==
  /\ at \in [Conns -> Places]
  /\ jobs \in Seq(Conns) /\ shutdown \in BOOLEAN
  /\ thread \in [Threads -> {"ready", "waiting", "exited"} \cup Conns]
  /\ apc \in {"bind", "accept", "enqueue", "notify", "shutdown", "join", "returned"}

(* The queue holds the queued connections, each once.                      *)
Queued ==
  /\ \A i \in 1 .. Len(jobs) : at[jobs[i]] = "queued"
  /\ \A c \in Conns : at[c] = "queued" => \E i \in 1 .. Len(jobs) : jobs[i] = c
  /\ \A i, j \in 1 .. Len(jobs) : jobs[i] = jobs[j] => i = j

(* A thread has a connection that has left the queue, and has it alone.    *)
Taken ==
  /\ \A t \in Threads : thread[t] \in Conns => at[thread[t]] \notin Before
  /\ \A t, u \in Threads : thread[t] \in Conns /\ thread[t] = thread[u] => t = u
  /\ \A c \in Conns : at[c] \in Serving => \E t \in Threads : thread[t] = c

(* The listening thread has what it has accepted in its hands, and leaves  *)
(* no client waiting when it ends.                                         *)
Listening ==
  /\ \A c \in Conns : at[c] = "accepted" => apc = "enqueue"
  /\ \A c, d \in Conns : at[c] = "accepted" /\ at[d] = "accepted" => c = d
  /\ apc \in {"bind", "shutdown", "join", "returned"} => \A c \in Conns : at[c] # "backlog"

(* Threads end when they find the queue empty after the flag is set, and   *)
(* nothing is queued any more by then.                                     *)
Ending ==
  /\ shutdown => apc \in {"join", "returned"}
  /\ apc = "bind" => \A c \in Conns : at[c] = "none"
  /\ apc \notin {"bind", "returned"} =>
       \A t \in Threads : thread[t] = "exited" => shutdown /\ jobs = <<>>
  /\ apc = "returned" => \A c \in Conns : at[c] \in {"none", "closed"}

IInv == PoolTypes /\ Queued /\ Taken /\ Listening /\ Ending

-----------------------------------------------------------------------------
(* What a request does to the place of its connection.                     *)

Moves(c) ==
  /\ at[c] \in Serving
  /\ UNCHANGED at \/ \E p \in Serving \cup {"closed"} : at' = [at EXCEPT ![c] = p]

LEMMA ExchangeMoves ==
  ASSUME NEW c \in Conns, Exchange(c)
  PROVE  Moves(c)
<1> USE DEF Moves, Serving, Before, Places, Goto
<1>1. CASE KeepAlive(c) \/ KeepAliveTimeout(c)
  BY <1>1 DEF KeepAlive, KeepAliveTimeout, Close
<1>2. CASE RequestLine(c)
  <2>1. /\ at[c] \in {"line", "junk"}
        /\ \/ at' = [at EXCEPT ![c] = "junk"] \/ at' = [at EXCEPT ![c] = "headers"]
           \/ at' = [at EXCEPT ![c] = "drain"] \/ at' = [at EXCEPT ![c] = "reply"]
    BY <1>2 DEF RequestLine, Answer
  <2> QED
    BY <2>1
<1>3. CASE RequestLineMissing(c)
  BY <1>3 DEF RequestLineMissing, Answer, Close
<1>4. CASE HeaderLine(c) \/ HeadersMissing(c)
  BY <1>4 DEF HeaderLine, HeadersMissing, Answer
<1>5. CASE Route(c) \/ ContentEnds(c)
  <2>1. Dispatch(c) =>
          at' = [at EXCEPT ![c] = "handler"] \/ at' = [at EXCEPT ![c] = "reply"]
    BY DEF Dispatch, Answer
  <2>2. /\ at[c] \in {"route", "content"}
        /\ Dispatch(c) \/ at' = [at EXCEPT ![c] = "content"] \/ at' = [at EXCEPT ![c] = "reply"]
    BY <1>5 DEF Route, ContentEnds, ContentRead, Answer
  <2> QED
    BY <2>1, <2>2
<1>6. CASE ReadContent(c) \/ Handler(c)
  BY <1>6 DEF ReadContent, Handler, Answer
<1>7. CASE Reply(c) \/ CloseSocket(c)
  <2>1. CASE Reply(c)
    <3>1. PICK written : at[c] = "reply" /\ AfterReply(c, written)
      BY <2>1 DEF Reply
    <3> QED
      BY <3>1 DEF AfterReply, Close
  <2>2. CASE CloseSocket(c)
    BY <2>2 DEF CloseSocket
  <2> QED
    BY <1>7, <2>1, <2>2
<1> QED
  BY <1>1, <1>2, <1>3, <1>4, <1>5, <1>6, <1>7 DEF Exchange

-----------------------------------------------------------------------------
(* The listening thread and the clients.                                   *)

LEMMA ConnectInv ==
  ASSUME IInv, NEW c \in Conns, Connect(c)
  PROVE  IInv'
<1>1. /\ at' = [at EXCEPT ![c] = "backlog"] /\ at[c] = "none"
      /\ apc \in {"accept", "enqueue", "notify"} /\ UNCHANGED <<jobs, shutdown, thread, apc>>
  BY DEF Connect, Goto, pool
<1>2. PoolTypes'
  BY <1>1 DEF IInv, PoolTypes, Places
<1>3. \A d \in Conns : at'[d] = IF d = c THEN "backlog" ELSE at[d]
  BY <1>1 DEF IInv, PoolTypes
<1>4. Queued'
  <2>1. \A i \in 1 .. Len(jobs) : jobs[i] \in Conns
    BY ElementOfSeq DEF IInv, PoolTypes
  <2> QED
    BY <1>1, <1>3, <2>1 DEF IInv, Queued
<1>5. Taken'
  BY <1>1, <1>3 DEF IInv, Taken, Before, Serving
<1>6. Listening' /\ Ending'
  BY <1>1, <1>3 DEF IInv, Listening, Ending
<1> QED
  BY <1>2, <1>4, <1>5, <1>6 DEF IInv

LEMMA BindInv ==
  ASSUME IInv, TryAddress \/ BindFails
  PROVE  IInv'
<1>1. /\ apc = "bind" /\ UNCHANGED <<at, jobs, shutdown>>
      /\ \/ apc' = "accept" /\ thread' = [t \in Threads |-> "ready"]
         \/ apc' \in {"bind", "returned"} /\ UNCHANGED thread
  BY DEF TryAddress, BindFails, StartThreads, connection
<1>2. /\ \A c \in Conns : at[c] = "none"
      /\ Conns \cap {"ready", "waiting", "exited"} = {}
  BY <1>1, ServerAssumption DEF IInv, Ending
<1>3. PoolTypes'
  BY <1>1 DEF IInv, PoolTypes
<1>4. Queued'
  BY <1>1 DEF IInv, Queued
<1>5. Taken'
  BY <1>1, <1>2 DEF IInv, Taken, Before, Serving
<1>6. Listening' /\ Ending'
  BY <1>1, <1>2 DEF IInv, Listening, Ending
<1> QED
  BY <1>3, <1>4, <1>5, <1>6 DEF IInv

LEMMA AcceptInv ==
  ASSUME IInv, NEW c \in Conns, Accept(c)
  PROVE  IInv'
<1>1. /\ at' = [at EXCEPT ![c] = "accepted"] /\ at[c] = "backlog" /\ apc = "accept"
      /\ apc' = "enqueue" /\ UNCHANGED <<jobs, shutdown, thread>>
  BY DEF Accept, Goto
<1>2. PoolTypes'
  BY <1>1 DEF IInv, PoolTypes, Places
<1>3. \A d \in Conns : at'[d] = IF d = c THEN "accepted" ELSE at[d]
  BY <1>1 DEF IInv, PoolTypes
<1>4. Queued'
  <2>1. \A i \in 1 .. Len(jobs) : jobs[i] \in Conns
    BY ElementOfSeq DEF IInv, PoolTypes
  <2> QED
    BY <1>1, <1>3, <2>1 DEF IInv, Queued
<1>5. Taken'
  BY <1>1, <1>3 DEF IInv, Taken, Before, Serving
<1>6. Listening' /\ Ending'
  BY <1>1, <1>3 DEF IInv, Listening, Ending
<1> QED
  BY <1>2, <1>4, <1>5, <1>6 DEF IInv

LEMMA AcceptFailsInv ==
  ASSUME IInv, AcceptFails
  PROVE  IInv'
<1>1. /\ at' = [c \in Conns |-> IF at[c] = "backlog" THEN "closed" ELSE at[c]]
      /\ apc = "accept" /\ apc' = "shutdown" /\ UNCHANGED <<jobs, shutdown, thread>>
  BY DEF AcceptFails
<1>2. PoolTypes'
  BY <1>1 DEF IInv, PoolTypes, Places
<1>3. Queued'
  <2>1. \A i \in 1 .. Len(jobs) : jobs[i] \in Conns
    BY ElementOfSeq DEF IInv, PoolTypes
  <2> QED
    BY <1>1, <2>1 DEF IInv, Queued
<1>4. Taken'
  BY <1>1 DEF IInv, Taken, Before, Serving
<1>5. Listening' /\ Ending'
  BY <1>1 DEF IInv, Listening, Ending
<1> QED
  BY <1>2, <1>3, <1>4, <1>5 DEF IInv

LEMMA EnqueueInv ==
  ASSUME IInv, NEW c \in Conns, Enqueue(c)
  PROVE  IInv'
<1>1. /\ at' = [at EXCEPT ![c] = "queued"] /\ at[c] = "accepted" /\ apc = "enqueue"
      /\ apc' = "notify" /\ jobs' = Append(jobs, c) /\ UNCHANGED <<shutdown, thread>>
  BY DEF Enqueue, Goto
<1>2. PICK n \in Nat : n = Len(jobs)
  BY LenProperties DEF IInv, PoolTypes
<1>3. /\ jobs' \in Seq(Conns) /\ Len(jobs') = n + 1
      /\ \A i \in 1 .. n : jobs'[i] = jobs[i] /\ jobs[i] \in Conns
      /\ jobs'[n + 1] = c
  BY <1>1, <1>2, AppendProperties, ElementOfSeq DEF IInv, PoolTypes
<1>4. PoolTypes'
  BY <1>1, <1>3 DEF IInv, PoolTypes, Places
<1>5. \A d \in Conns : at'[d] = IF d = c THEN "queued" ELSE at[d]
  BY <1>1 DEF IInv, PoolTypes
<1>6. Queued'
  <2>1. \A i \in 1 .. n : at[jobs[i]] = "queued" /\ jobs[i] # c
    BY <1>1, <1>2 DEF IInv, Queued
  <2>2. \A i \in 1 .. n + 1 : i \in 1 .. n \/ i = n + 1
    BY <1>2
  <2>3. \A i \in 1 .. n + 1 : at'[jobs'[i]] = "queued"
    BY <1>3, <1>5, <2>1, <2>2
  <2>4. ASSUME NEW d \in Conns, at'[d] = "queued" PROVE \E i \in 1 .. n + 1 : jobs'[i] = d
    <3>1. CASE d = c
      BY <1>2, <1>3, <3>1
    <3>2. CASE d # c
      <4>1. PICK i \in 1 .. n : jobs[i] = d
        BY <1>2, <1>5, <2>4, <3>2 DEF IInv, Queued
      <4> QED
        BY <1>2, <1>3, <4>1
    <3> QED
      BY <3>1, <3>2
  <2>5. \A i, j \in 1 .. n + 1 : jobs'[i] = jobs'[j] => i = j
    BY <1>2, <1>3, <2>1, <2>2 DEF IInv, Queued
  <2> QED
    BY <1>3, <2>3, <2>4, <2>5 DEF Queued
<1>7. Taken'
  BY <1>1, <1>5 DEF IInv, Taken, Before, Serving
<1>8. Listening' /\ Ending'
  <2>1. \A t \in Threads : thread[t] # "exited"
    BY <1>1 DEF IInv, Ending
  <2>2. Listening'
    BY <1>1, <1>5 DEF IInv, Listening
  <2> QED
    BY <1>1, <1>5, <2>1, <2>2 DEF IInv, Ending
<1> QED
  BY <1>4, <1>6, <1>7, <1>8 DEF IInv

LEMMA NotifyInv ==
  ASSUME IInv, NotifyOne
  PROVE  IInv'
<1>1. /\ apc = "notify" /\ apc' = "accept" /\ UNCHANGED <<at, jobs, shutdown>>
      /\ UNCHANGED thread \/ \E t \in Waiting : Wake({t})
  BY DEF NotifyOne, connection
<1>2. \A t \in Threads : thread'[t] = thread[t] \/ (thread[t] = "waiting" /\ thread'[t] = "ready")
  BY <1>1 DEF Wake, Waiting, IInv, PoolTypes
<1>3. Conns \cap {"ready", "waiting", "exited"} = {}
  BY ServerAssumption
<1>4. PoolTypes'
  BY <1>1 DEF IInv, PoolTypes, Wake, Waiting
<1>5. Queued'
  BY <1>1 DEF IInv, Queued
<1>6. \A t \in Threads : (thread[t] \in Conns \/ thread'[t] \in Conns) => thread'[t] = thread[t]
  BY <1>2, <1>3
<1>7. Taken'
  BY <1>1, <1>6 DEF IInv, Taken, Before, Serving
<1>8. Listening' /\ Ending'
  BY <1>1, <1>2 DEF IInv, Listening, Ending
<1> QED
  BY <1>4, <1>5, <1>7, <1>8 DEF IInv

LEMMA ShutdownInv ==
  ASSUME IInv, Shutdown
  PROVE  IInv'
<1>1. /\ apc = "shutdown" /\ apc' = "join" /\ shutdown' = TRUE
      /\ UNCHANGED <<at, jobs>> /\ Wake(Waiting)
  BY DEF Shutdown, connection
<1>2. \A t \in Threads : thread'[t] = thread[t] \/ (thread[t] = "waiting" /\ thread'[t] = "ready")
  BY <1>1 DEF Wake, Waiting
<1>3. Conns \cap {"ready", "waiting", "exited"} = {}
  BY ServerAssumption
<1>4. PoolTypes'
  BY <1>1 DEF IInv, PoolTypes, Wake, Waiting
<1>5. Queued'
  BY <1>1 DEF IInv, Queued
<1>6. \A t \in Threads : (thread[t] \in Conns \/ thread'[t] \in Conns) => thread'[t] = thread[t]
  BY <1>2, <1>3
<1>7. Taken'
  BY <1>1, <1>6 DEF IInv, Taken, Before, Serving
<1>8. Listening' /\ Ending'
  BY <1>1, <1>2 DEF IInv, Listening, Ending
<1> QED
  BY <1>4, <1>5, <1>7, <1>8 DEF IInv

LEMMA JoinInv ==
  ASSUME IInv, Join
  PROVE  IInv'
<1>1. /\ apc = "join" /\ apc' = "returned" /\ UNCHANGED <<at, jobs, shutdown, thread>>
      /\ \A t \in Threads : thread[t] = "exited"
  BY DEF Join, connection
<1>2. Threads # {} /\ Conns \cap {"ready", "waiting", "exited"} = {}
  BY ServerAssumption
<1>3. PoolTypes' /\ Queued' /\ Taken' /\ Listening'
  BY <1>1 DEF IInv, PoolTypes, Queued, Taken, Listening, Before, Serving
<1>4. jobs = <<>> /\ Len(jobs) = 0
  <2>1. jobs = <<>>
    BY <1>1, <1>2 DEF IInv, Ending
  <2> QED
    BY <2>1
<1>5. ASSUME NEW c \in Conns PROVE at[c] \in {"none", "closed"}
  <2>1. at[c] # "queued"
    BY <1>4 DEF IInv, Queued
  <2>2. at[c] \notin Serving
    BY <1>1, <1>2 DEF IInv, Taken
  <2>3. at[c] # "backlog" /\ at[c] # "accepted"
    BY <1>1 DEF IInv, Listening
  <2> QED
    BY <2>1, <2>2, <2>3 DEF IInv, PoolTypes, Serving, Before
<1>6. Ending'
  BY <1>1, <1>5 DEF IInv, Ending
<1> QED
  BY <1>3, <1>6 DEF IInv

-----------------------------------------------------------------------------
(* The threads of the pool.                                                *)

LEMMA TakeJobInv ==
  ASSUME IInv, NEW t \in Threads, TakeJob(t)
  PROVE  IInv'
<1>1. PICK c : c = Head(jobs)
  OBVIOUS
<1>2. PICK n \in Nat : n = Len(jobs)
  BY LenProperties DEF IInv, PoolTypes
<1>3. /\ thread[t] = "ready" /\ jobs # <<>>
      /\ thread' = [thread EXCEPT ![t] = c] /\ jobs' = Tail(jobs)
      /\ at' = [at EXCEPT ![c] = "idle"] /\ UNCHANGED <<shutdown, apc>>
  BY <1>1 DEF TakeJob, Become, Goto
<1>4. /\ n >= 1 /\ c \in Conns /\ c = jobs[1]
      /\ jobs' \in Seq(Conns) /\ Len(jobs') = n - 1
      /\ \A i \in 1 .. n - 1 : jobs'[i] = jobs[i + 1]
  BY <1>1, <1>2, <1>3, HeadTailProperties, EmptySeq, LenProperties DEF IInv, PoolTypes
<1>5. \A i \in 1 .. n : jobs[i] \in Conns
  BY <1>2, ElementOfSeq DEF IInv, PoolTypes
<1>6. at[c] = "queued"
  BY <1>2, <1>4 DEF IInv, Queued
<1>7. /\ \A d \in Conns : at'[d] = IF d = c THEN "idle" ELSE at[d]
      /\ \A u \in Threads : thread'[u] = IF u = t THEN c ELSE thread[u]
  BY <1>3 DEF IInv, PoolTypes
<1>8. PoolTypes'
  BY <1>3, <1>4 DEF IInv, PoolTypes, Places
<1>9. Queued'
  <2>1. \A i \in 1 .. n - 1 : i + 1 \in 1 .. n /\ i + 1 # 1 /\ 1 \in 1 .. n
    BY <1>2, <1>4
  <2>2. \A i \in 1 .. n - 1 : jobs[i + 1] \in Conns /\ jobs[i + 1] # c /\ at[jobs[i + 1]] = "queued"
    BY <1>2, <1>4, <1>5, <2>1 DEF IInv, Queued
  <2>3. \A i \in 1 .. n - 1 : at'[jobs'[i]] = "queued"
    BY <1>4, <1>7, <2>2
  <2>4. ASSUME NEW d \in Conns, at'[d] = "queued" PROVE \E i \in 1 .. n - 1 : jobs'[i] = d
    <3>1. d # c /\ at[d] = "queued"
      BY <1>7, <2>4
    <3>2. PICK i \in 1 .. n : jobs[i] = d
      BY <1>2, <3>1 DEF IInv, Queued
    <3>3. i # 1
      BY <1>4, <3>1, <3>2
    <3>4. i - 1 \in 1 .. n - 1 /\ (i - 1) + 1 = i
      BY <1>2, <3>3
    <3> QED
      BY <1>4, <3>2, <3>4
  <2>5. \A i, j \in 1 .. n - 1 : jobs'[i] = jobs'[j] => i = j
    <3>1. \A i, j \in 1 .. n : jobs[i] = jobs[j] => i = j
      BY <1>2 DEF IInv, Queued
    <3>2. \A i, j \in 1 .. n - 1 : jobs[i + 1] = jobs[j + 1] => i + 1 = j + 1
      BY <2>1, <3>1
    <3> SUFFICES ASSUME NEW i \in 1 .. n - 1, NEW j \in 1 .. n - 1, jobs'[i] = jobs'[j]
                 PROVE  i = j
      OBVIOUS
    <3>3. jobs[i + 1] = jobs[j + 1]
      BY <1>4
    <3>4. i + 1 = j + 1
      BY <3>2, <3>3
    <3> QED
      BY <3>4
  <2> QED
    BY <1>4, <2>3, <2>4, <2>5 DEF Queued
<1>10. Conns \cap {"ready", "waiting", "exited"} = {}
  BY ServerAssumption
<1>11. \A u \in Threads : thread[u] # c
  BY <1>4, <1>6 DEF IInv, Taken, Before
<1>12. Taken'
  <2>1. \A u \in Threads : thread'[u] \in Conns => at'[thread'[u]] \notin Before
    BY <1>7, <1>11 DEF IInv, Taken, Before
  <2>2. \A u, v \in Threads : thread'[u] \in Conns /\ thread'[u] = thread'[v] => u = v
    BY <1>7, <1>11 DEF IInv, Taken
  <2>3. ASSUME NEW d \in Conns, at'[d] \in Serving PROVE \E u \in Threads : thread'[u] = d
    <3>1. CASE d = c
      BY <1>7, <3>1
    <3>2. CASE d # c
      <4>1. PICK u \in Threads : thread[u] = d
        BY <1>7, <2>3, <3>2 DEF IInv, Taken
      <4>2. u # t
        BY <1>3, <1>10, <4>1
      <4> QED
        BY <1>7, <4>1, <4>2
    <3> QED
      BY <3>1, <3>2
  <2> QED
    BY <2>1, <2>2, <2>3 DEF Taken
<1>13. apc \notin {"bind", "returned"}
  BY <1>4, <1>6 DEF IInv, Ending
<1>14. Listening'
  BY <1>3, <1>7 DEF IInv, Listening
<1>15. Ending'
  BY <1>3, <1>4, <1>7, <1>10, <1>13 DEF IInv, Ending
<1> QED
  BY <1>8, <1>9, <1>12, <1>14, <1>15 DEF IInv

LEMMA NoJobInv ==
  ASSUME IInv, NEW t \in Threads, NoJob(t)
  PROVE  IInv'
<1>1. PICK what \in {"exited", "waiting"} :
        /\ thread[t] = "ready" /\ jobs = <<>> /\ (what = "exited" => shutdown)
        /\ thread' = [thread EXCEPT ![t] = what] /\ UNCHANGED <<at, jobs, shutdown, apc>>
  BY DEF NoJob, Become, connection
<1>2. \A u \in Threads : thread'[u] = IF u = t THEN what ELSE thread[u]
  BY <1>1 DEF IInv, PoolTypes
<1>3. Conns \cap {"ready", "waiting", "exited"} = {}
  BY ServerAssumption
<1>4. PoolTypes' /\ Queued'
  BY <1>1 DEF IInv, PoolTypes, Queued
<1>5. \A u \in Threads : (thread[u] \in Conns \/ thread'[u] \in Conns) => thread'[u] = thread[u]
  BY <1>1, <1>2, <1>3
<1>6. Taken'
  BY <1>1, <1>5 DEF IInv, Taken, Before, Serving
<1>7. Listening' /\ Ending'
  BY <1>1, <1>2 DEF IInv, Listening, Ending
<1> QED
  BY <1>4, <1>6, <1>7 DEF IInv

LEMMA ServeInv ==
  ASSUME IInv, NEW t \in Threads, Serve(t)
  PROVE  IInv'
<1>1. PICK c \in Conns : c = thread[t]
  BY DEF Serve
<1>2. Exchange(c) /\ UNCHANGED <<jobs, shutdown, thread, apc>>
  BY <1>1 DEF Serve, pool
<1>3. Moves(c)
  BY <1>2, ExchangeMoves
<1>4. /\ at[c] \in Serving
      /\ \A d \in Conns : d # c => at'[d] = at[d]
      /\ at'[c] \in Serving \cup {"closed"}
      /\ at' \in [Conns -> Places]
  BY <1>3 DEF Moves, IInv, PoolTypes, Serving, Before, Places
<1>5. PoolTypes'
  BY <1>2, <1>4 DEF IInv, PoolTypes
<1>6. Queued'
  <2>1. \A i \in 1 .. Len(jobs) : jobs[i] \in Conns
    BY ElementOfSeq DEF IInv, PoolTypes
  <2> QED
    BY <1>2, <1>4, <2>1 DEF IInv, Queued, Serving, Before
<1>7. Taken'
  BY <1>1, <1>2, <1>4 DEF IInv, Taken, Before, Serving
<1>8. Listening'
  BY <1>2, <1>4 DEF IInv, Listening, Serving, Before
<1>9. Ending'
  BY <1>2, <1>4 DEF IInv, Ending, Serving, Before
<1> QED
  BY <1>5, <1>6, <1>7, <1>8, <1>9 DEF IInv

LEMMA JobDoneInv ==
  ASSUME IInv, NEW t \in Threads, JobDone(t)
  PROVE  IInv'
<1>1. PICK c \in Conns :
        /\ thread[t] = c /\ at[c] = "closed"
        /\ thread' = [thread EXCEPT ![t] = "ready"] /\ UNCHANGED <<at, jobs, shutdown, apc>>
  BY DEF JobDone, Become, connection
<1>2. \A u \in Threads : thread'[u] = IF u = t THEN "ready" ELSE thread[u]
  BY <1>1 DEF IInv, PoolTypes
<1>3. Conns \cap {"ready", "waiting", "exited"} = {}
  BY ServerAssumption
<1>4. PoolTypes' /\ Queued'
  BY <1>1 DEF IInv, PoolTypes, Queued
<1>5. Taken'
  <2>1. \A u \in Threads : thread'[u] \in Conns => u # t /\ thread'[u] = thread[u]
    BY <1>2, <1>3
  <2>2. \A d \in Conns : at[d] \in Serving => d # c
    BY <1>1 DEF Serving
  <2> QED
    BY <1>1, <1>2, <2>1, <2>2 DEF IInv, Taken
<1>6. Listening' /\ Ending'
  BY <1>1, <1>2 DEF IInv, Listening, Ending
<1> QED
  BY <1>4, <1>5, <1>6 DEF IInv

-----------------------------------------------------------------------------

LEMMA StutterInv ==
  ASSUME IInv, UNCHANGED <<at, jobs, shutdown, thread, apc>>
  PROVE  IInv'
BY DEF IInv, PoolTypes, Queued, Taken, Listening, Ending, Before, Serving

LEMMA InitInv == Init => IInv
<1> SUFFICES ASSUME Init PROVE IInv
  OBVIOUS
<1>1. /\ at = [c \in Conns |-> "none"] /\ jobs = <<>> /\ shutdown = FALSE
      /\ thread = [t \in Threads |-> "exited"] /\ apc = "bind"
  BY DEF Init, ConnectionInit
<1>2. Conns \cap {"ready", "waiting", "exited"} = {}
  BY ServerAssumption
<1>3. jobs \in Seq(Conns) /\ Len(jobs) = 0
  BY <1>1
<1>4. PoolTypes /\ Queued
  <2>1. at \in [Conns -> Places]
    BY <1>1 DEF Places
  <2>2. thread \in [Threads -> {"ready", "waiting", "exited"} \cup Conns]
    BY <1>1
  <2>3. Queued
    BY <1>1, <1>3 DEF Queued
  <2> QED
    BY <1>1, <1>3, <2>1, <2>2, <2>3 DEF PoolTypes
<1>5. Taken /\ Listening /\ Ending
  BY <1>1, <1>2 DEF Taken, Listening, Ending, Before, Serving
<1> QED
  BY <1>4, <1>5 DEF IInv

LEMMA NextInv == IInv /\ [Next]_vars => IInv'
<1> SUFFICES ASSUME IInv, [Next]_vars PROVE IInv'
  OBVIOUS
<1>1. ASSUME NEW c \in Conns, Connect(c) PROVE IInv'
  BY <1>1, ConnectInv
<1>2. ASSUME NEW c \in Conns, ClientStep(c), UNCHANGED pool PROVE IInv'
  BY <1>2, StutterInv DEF ClientStep, Send, Finish, pool
<1>3. CASE Listen
  <2>1. ASSUME NEW c \in Conns, Accept(c) \/ Enqueue(c) PROVE IInv'
    BY <2>1, AcceptInv, EnqueueInv
  <2>2. CASE TryAddress \/ BindFails
    BY <2>2, BindInv
  <2>3. CASE NotifyOne \/ Shutdown \/ Join
    BY <2>3, NotifyInv, ShutdownInv, JoinInv
  <2> QED
    BY <1>3, <2>1, <2>2, <2>3 DEF Listen
<1>4. CASE AcceptFails
  BY <1>4, AcceptFailsInv
<1>5. ASSUME NEW t \in Threads, Thread(t) PROVE IInv'
  BY <1>5, TakeJobInv, NoJobInv, ServeInv, JobDoneInv DEF Thread
<1>6. CASE UNCHANGED vars
  BY <1>6, StutterInv DEF vars, connection, pool
<1> QED
  BY <1>1, <1>2, <1>3, <1>4, <1>5, <1>6 DEF Next

LEMMA Invariance == Spec => []IInv
BY InitInv, NextInv, PTL DEF Spec

(* When listen() returns, every connection has been served and closed:     *)
(* the pool drains its queue before its threads end                        *)
(* (httplib.hpp 563-618, 5525-5605).                                       *)
THEOREM ShutdownDrainsHolds == Spec => []ShutdownDrains
<1>1. IInv => ShutdownDrains
  BY DEF IInv, Ending, ShutdownDrains
<1> QED
  BY <1>1, Invariance, PTL

(* A connection that is queued is queued once, a connection being served   *)
(* is in the hands of one thread, and no descriptor is with two owners     *)
(* (httplib.hpp 563-618, 4630-4660).                                       *)
THEOREM OneOwnerHolds == Spec => []OneOwner
<1>1. ASSUME IInv PROVE OneOwner
  <2>1. IsInjective(jobs)
    BY <1>1, LenProperties DEF IsInjective, IInv, Queued, PoolTypes
  <2>2. ASSUME NEW c \in Conns
        PROVE  LET threads == {t \in Threads : thread[t] = c} IN
                 /\ c \in ToSet(jobs) <=> at[c] = "queued"
                 /\ Cardinality(threads) <= 1
                 /\ at[c] \in {"none", "backlog", "accepted", "queued"} => threads = {}
                 /\ at[c] \notin {"none", "backlog", "accepted", "queued", "closed"} => threads # {}
    <3> DEFINE threads == {t \in Threads : thread[t] = c}
    <3>1. c \in ToSet(jobs) <=> at[c] = "queued"
      BY <1>1 DEF ToSet, IInv, Queued
    <3>2. Cardinality(threads) <= 1
      <4>1. CASE threads = {}
        BY <4>1, FS_EmptySet
      <4>2. CASE threads # {}
        <5>1. PICK t \in Threads : t \in threads
          BY <4>2
        <5>2. threads = {t}
          BY <1>1, <5>1 DEF IInv, Taken
        <5> QED
          BY <5>2, FS_Singleton
      <4> QED
        BY <4>1, <4>2
    <3>3. at[c] \in {"none", "backlog", "accepted", "queued"} => threads = {}
      BY <1>1 DEF IInv, Taken, Before
    <3>4. at[c] \notin {"none", "backlog", "accepted", "queued", "closed"} => threads # {}
      BY <1>1 DEF IInv, Taken, PoolTypes, Before, Serving
    <3> QED
      BY <3>1, <3>2, <3>3, <3>4
  <2> QED
    BY <2>1, <2>2 DEF OneOwner
<1> QED
  BY <1>1, Invariance, PTL

-----------------------------------------------------------------------------
(* The second invariant: connections and requests.                         *)

Kinds == {"line", "header", "blank", "content", "last"}
Parts == [req : Nat, what : Kinds]

(* The client of c sends All(c), has sent Sent(c) parts of it, and Gone(c) *)
(* of those have left the queue and the buffer.                            *)
All(c)  == AllParts(plan[c])
Sent(c) == Len(All(c)) - Len(unsent[c])
Gone(c) == Sent(c) - Len(queue[c]) - Len(buffer[c])

(* The parts of n requests: a line, at most one header line after it, and  *)
(* the rest, request after request.                                        *)
Shape(s, n) ==
  /\ s \in Seq([req : 1 .. n, what : Kinds])
  /\ Len(s) > 0 => s[1].what = "line" /\ s[1].req = 1
  /\ \A i, j \in 1 .. Len(s) : i < j => s[i].req <= s[j].req
  /\ \A i \in 1 .. Len(s) - 1 :
       \/ s[i + 1].what = "line" /\ s[i + 1].req = s[i].req + 1
       \/ /\ s[i + 1].what # "line" /\ s[i + 1].req = s[i].req
          /\ s[i + 1].what = "header" => s[i].what = "line"

(* Buffer, queue and what is still to be sent are consecutive pieces of it. *)
Streaming(c) ==
  /\ Gone(c) \in Nat
  /\ \A i \in 1 .. Len(buffer[c]) : buffer[c][i] = All(c)[Gone(c) + i]
  /\ \A i \in 1 .. Len(queue[c]) : queue[c][i] = All(c)[Gone(c) + Len(buffer[c]) + i]
  /\ \A i \in 1 .. Len(unsent[c]) : unsent[c][i] = All(c)[Sent(c) + i]

(* Where a connection is while a request of its is handled.                *)
Exchanging == {"headers", "drain", "route", "content", "handler", "reply"}

To(c, i) == replies[c][i].to

(* Replies go to requests in their order, and to none that is still to be  *)
(* read.  A reply to 0 is one to a line that is no request.                *)
Ordered(c) ==
  /\ \A i \in 1 .. Len(replies[c]) : To(c, i) \in Nat
  /\ at[c] \in {"line", "junk"} => handled[c] = 0
  /\ at[c] \in Exchanging \ {"reply"} => handled[c] # 0
  /\ handled[c] # 0 => Gone(c) >= 1 /\ handled[c] <= All(c)[Gone(c)].req
  /\ at[c] \in Exchanging /\ handled[c] # 0 =>
       \A i \in 1 .. Len(replies[c]) : To(c, i) < handled[c]
  /\ \A i \in 1 .. Len(replies[c]) :
       To(c, i) # 0 => Gone(c) >= 1 /\ To(c, i) <= All(c)[Gone(c)].req
  /\ \A i, j \in 1 .. Len(replies[c]) :
       i < j /\ To(c, i) # 0 /\ To(c, j) # 0 => To(c, i) < To(c, j)

(* No header of the request is still to come.                              *)
Passed(c) ==
  \A i \in Gone(c) + 1 .. Len(All(c)) :
    ~(All(c)[i].req = handled[c] /\ All(c)[i].what = "header")

(* A request that asks to close has been read so far that its reply says so; *)
(* a connection that was closed for it, or for its limit, has said so.     *)
Announced(c) ==
  /\ at[c] \notin {"closing", "closed"} => left[c] >= 1
  /\ at[c] = "headers" => Request(c).line = "good"
  /\ hangup[c] =>
       /\ at[c] \in {"route", "content", "handler", "reply", "closing", "closed"}
       /\ handled[c] # 0 /\ Request(c).line = "good" /\ AsksToClose(Request(c)) /\ Passed(c)
  /\ cause[c] \in {"asked", "limit"} =>
       /\ at[c] \in {"closing", "closed"}
       /\ ~fin[c] => replies[c] # <<>> /\
            LET last == Last(replies[c])
            IN last.close \/ (last.to # 0 /\ plan[c].requests[last.to].version = "1.0")

(* A reply with status 206 is what apply_ranges makes of its request.      *)
PartialReply(c, r) ==
  /\ r.to \in 1 .. Len(plan[c].requests)
  /\ ParseRangeHeader(plan[c].requests[r.to].ranges)
  /\ ApplyRanges(plan[c].requests[r.to].ranges, PageLength)
       = [status |-> 206, parts |-> r.length]

Ranged(c) ==
  /\ at[c] \in {"route", "content", "handler"} => ParseRangeHeader(Request(c).ranges)
  /\ at[c] = "reply" /\ status[c] = 206 =>
       handled[c] # 0 /\ ParseRangeHeader(Request(c).ranges)
  /\ \A i \in 1 .. Len(replies[c]) :
       replies[c][i].status = 206 => PartialReply(c, replies[c][i])

(* Nothing of the request is still to come, or nothing comes any more.     *)
AllRead(c) ==
  \/ \A i \in Gone(c) + 1 .. Len(All(c)) : All(c)[i].req # handled[c]
  \/ fin[c] /\ Gone(c) = Sent(c)

(* What comes next is the line of the request after those that are answered, *)
(* or nothing.                                                             *)
Fresh(c) ==
  \/ fin[c] /\ Gone(c) = Sent(c)
  \/ Gone(c) = Len(All(c))
  \/ /\ All(c)[Gone(c) + 1].what = "line"
     /\ All(c)[Gone(c) + 1].req = Len(replies[c]) + 1

(* The server handles the request that the client waits for.               *)
InStep(c) ==
  /\ at[c] # "junk"
  /\ at[c] \in {"none", "backlog", "accepted", "queued", "idle", "line"} =>
       buffer[c] = <<>> /\ Fresh(c)
  /\ at[c] \in Exchanging =>
       /\ handled[c] = Len(replies[c]) + 1
       /\ Gone(c) >= 1 /\ All(c)[Gone(c)].req = handled[c]
  /\ at[c] = "handler" => ~ExpectContent(Request(c))
  /\ at[c] = "reply" /\ ExpectContent(Request(c)) /\ status[c] \notin {400, 414, 415, 416}
       => AllRead(c)
  /\ \A i \in 1 .. Len(replies[c]) : To(c, i) = i

(* A client that waits for its replies has sent no request after the first *)
(* without one, and as long as no reply left content behind the server is  *)
(* in step with it.                                                        *)
InTurn(c) ==
  plan[c].polite =>
    /\ \A i \in Gone(c) + 1 .. Sent(c) : All(c)[i].req <= Len(replies[c]) + 1
    /\ ~astray[c] => InStep(c)

Statuses == {-1, 200, 206, 400, 404, 413, 414, 415, 416, 500}
Causes == {"none", "idle", "gone", "asked", "limit", "refused"}

(* The types of a connection.  What a reply is, Ordered and Ranged say.    *)
Typed ==
  /\ plan \in Workloads
  /\ unsent \in [Conns -> Seq(Parts)]
  /\ queue \in [Conns -> Seq(Parts)]
  /\ buffer \in [Conns -> Seq(Parts)]
  /\ fin \in [Conns -> BOOLEAN]
  /\ at \in [Conns -> Places]
  /\ left \in [Conns -> 0 .. KeepAliveMax]
  /\ handled \in [Conns -> Nat]
  /\ status \in [Conns -> Statuses]
  /\ hangup \in [Conns -> BOOLEAN]
  /\ \E S : replies \in [Conns -> Seq(S)]
  /\ astray \in [Conns -> BOOLEAN]
  /\ cause \in [Conns -> Causes]

ConnInv(c) == Streaming(c) /\ Ordered(c) /\ Announced(c) /\ Ranged(c) /\ InTurn(c)

EInv ==
  /\ addresses \in 0 .. MaxAddresses
  /\ Typed
  /\ \A c \in Conns : ConnInv(c)

-----------------------------------------------------------------------------
(* The stream of a client.                                                 *)

(* Induction, as a statement about sets of numbers.                        *)
LEMMA LeastNumber ==
  ASSUME NEW T, T \subseteq Nat, T # {}
  PROVE  \E n \in T : \A m \in T : n <= m
<1>1. IsWellFoundedOn(OpToRel(<,Nat), Nat)
  BY NatLessThanWellFounded
<1>2. PICK n \in T : \A m \in T : ~(<<m, n>> \in OpToRel(<,Nat))
  BY <1>1, WFMin
<1>3. \A m \in T : ~(m < n)
  BY <1>2 DEF OpToRel
<1> QED
  BY <1>3

LEMMA NatSet ==
  ASSUME NEW S, 0 \in S, \A n \in Nat : n \in S => n + 1 \in S
  PROVE  Nat \subseteq S
<1> SUFFICES ASSUME Nat \ S # {} PROVE FALSE
  OBVIOUS
<1>1. PICK n \in Nat \ S : \A m \in Nat \ S : n <= m
  BY LeastNumber
<1>2. n # 0 /\ n - 1 \in Nat /\ n - 1 < n /\ (n - 1) + 1 = n
  BY <1>1
<1> QED
  BY <1>1, <1>2

(* FlattenSeq(s) is the last value of a function that unfolds: there is one *)
(* for every length, by induction.                                         *)
LEMMA FlattenUnfolds ==
  ASSUME NEW s, NEW n \in Nat \ {0}, Len(s) = n
  PROVE  \E f : /\ f = [i \in 1 .. n |-> IF i = 1 THEN s[i] ELSE f[i - 1] \o s[i]]
                /\ FlattenSeq(s) = f[n]
<1> DEFINE Val(f, i) == IF i = 1 THEN s[i] ELSE f[i - 1] \o s[i]
           Good(k) == \E f : f = [i \in 1 .. k |-> Val(f, i)]
           S == {k \in Nat : Good(k)}
<1>1. Good(0)
  <2> HIDE DEF Val
  <2>1. 1 .. 0 = {}
    OBVIOUS
  <2>2. PICK f : f = [i \in {} |-> i]
    OBVIOUS
  <2>3. f = [i \in 1 .. 0 |-> Val(f, i)]
    BY <2>1, <2>2
  <2> QED
    BY <2>3
<1>2. ASSUME NEW k \in Nat, Good(k) PROVE Good(k + 1)
  <2>1. PICK f : f = [i \in 1 .. k |-> Val(f, i)]
    BY <1>2
  <2>2. PICK g : g = [i \in 1 .. k + 1 |-> Val(f, i)]
    OBVIOUS
  <2>3. ASSUME NEW i \in 1 .. k + 1 PROVE Val(f, i) = Val(g, i)
    <3>1. CASE i = 1
      BY <3>1
    <3>2. CASE i # 1
      <4>1. i - 1 \in 1 .. k /\ i - 1 \in 1 .. k + 1
        BY <3>2
      <4>2. f[i - 1] = Val(f, i - 1) /\ g[i - 1] = Val(f, i - 1)
        <5> HIDE DEF Val
        <5> QED
          BY <2>1, <2>2, <4>1
      <4> QED
        BY <3>2, <4>2
    <3> QED
      BY <3>1, <3>2
  <2>4. g = [i \in 1 .. k + 1 |-> Val(g, i)]
    <3> HIDE DEF Val
    <3> QED
      BY <2>2, <2>3
  <2> HIDE DEF Val
  <2> QED
    BY <2>4
<1>3. Nat \subseteq S
  <2> HIDE DEF Good
  <2>1. 0 \in S /\ \A k \in Nat : k \in S => k + 1 \in S
    BY <1>1, <1>2
  <2> HIDE DEF S
  <2> QED
    BY <2>1, NatSet
<1>4. Good(n)
  <2> HIDE DEF Good
  <2> QED
    BY <1>3
<1>5. PICK f : f = CHOOSE g : g = [i \in 1 .. n |-> IF i = 1 THEN s[i] ELSE g[i - 1] \o s[i]]
  OBVIOUS
<1>6. f = [i \in 1 .. n |-> IF i = 1 THEN s[i] ELSE f[i - 1] \o s[i]]
  BY <1>4, <1>5
<1>7. FlattenSeq(s) = f[n]
  BY <1>5 DEF FlattenSeq
<1> QED
  BY <1>6, <1>7

(* What a concatenation holds.                                             *)
LEMMA Joined ==
  ASSUME NEW S, NEW s \in Seq(S), NEW t \in Seq(S)
  PROVE  /\ s \o t \in Seq(S) /\ Len(s \o t) = Len(s) + Len(t)
         /\ \A i \in 1 .. Len(s) : (s \o t)[i] = s[i]
         /\ \A i \in 1 .. Len(t) : (s \o t)[Len(s) + i] = t[i]
         /\ \A i \in 1 .. Len(s) + Len(t) : i \in 1 .. Len(s) \/ i - Len(s) \in 1 .. Len(t)
<1>1. PICK m \in Nat, n \in Nat : m = Len(s) /\ n = Len(t)
  BY LenProperties
<1>2. PICK u : u = s \o t
  OBVIOUS
<1>3. /\ u \in Seq(S) /\ Len(u) = m + n
      /\ \A i \in 1 .. m + n : u[i] = IF i <= m THEN s[i] ELSE t[i - m]
  BY <1>1, <1>2, ConcatProperties
<1>4. /\ \A i \in 1 .. m : i \in 1 .. m + n /\ i <= m
      /\ \A i \in 1 .. n : m + i \in 1 .. m + n /\ ~(m + i <= m) /\ (m + i) - m = i
      /\ \A i \in 1 .. m + n : i \in 1 .. m \/ i - m \in 1 .. n
  BY <1>1
<1>5. /\ \A i \in 1 .. m : u[i] = s[i]
      /\ \A i \in 1 .. n : u[m + i] = t[i]
  BY <1>3, <1>4
<1> QED
  BY <1>1, <1>2, <1>3, <1>4, <1>5

(* A request, as far as it has been put together.                          *)
Begun(s, i) ==
  /\ s \in Seq(Parts) /\ Len(s) >= 1 /\ s[1].what = "line"
  /\ \A j \in 1 .. Len(s) :
       s[j].req = i /\ (j # 1 => s[j].what # "line") /\ (s[j].what = "header" => j = 2)

(* What may follow.                                                        *)
Follows(t, i, len) ==
  /\ t \in Seq(Parts)
  /\ \A j \in 1 .. Len(t) :
       t[j].req = i /\ t[j].what # "line" /\ (t[j].what = "header" => j = 1 /\ len = 1)

(* A request goes on.                                                      *)
LEMMA BegunOn ==
  ASSUME NEW i \in Nat, NEW s, NEW t, Begun(s, i), Follows(t, i, Len(s))
  PROVE  Begun(s \o t, i) /\ Len(s \o t) >= Len(s)
<1>0. s \in Seq(Parts) /\ t \in Seq(Parts)
  BY DEF Begun, Follows
<1>1. PICK m \in Nat, n \in Nat : m = Len(s) /\ n = Len(t)
  BY <1>0, LenProperties
<1>2. PICK u : u = s \o t
  OBVIOUS
<1>3. /\ u \in Seq(Parts) /\ Len(u) = m + n
      /\ \A j \in 1 .. m : u[j] = s[j]
      /\ \A j \in 1 .. n : u[m + j] = t[j]
      /\ \A j \in 1 .. m + n : j \in 1 .. m \/ j - m \in 1 .. n
  BY <1>0, <1>1, <1>2, Joined
<1>4. m >= 1 /\ 1 \in 1 .. m
  BY <1>1 DEF Begun
<1>5. u[1].what = "line"
  BY <1>1, <1>3, <1>4 DEF Begun
<1>6. ASSUME NEW j \in 1 .. m + n
      PROVE  u[j].req = i /\ (j # 1 => u[j].what # "line") /\ (u[j].what = "header" => j = 2)
  <2>1. CASE j \in 1 .. m
    BY <1>1, <1>3, <2>1 DEF Begun
  <2>2. CASE j - m \in 1 .. n
    <3>1. PICK k \in 1 .. n : k = j - m /\ j = m + k
      BY <2>2
    <3>2. u[j] = t[k]
      BY <1>3, <3>1
    <3>3. t[k].req = i /\ t[k].what # "line" /\ (t[k].what = "header" => k = 1 /\ m = 1)
      BY <1>1 DEF Follows
    <3>4. k = 1 /\ m = 1 => j = 2
      BY <3>1
    <3>5. j # 1
      BY <1>4, <3>1
    <3> QED
      BY <3>2, <3>3, <3>4, <3>5
  <2> QED
    BY <1>3, <2>1, <2>2
<1> QED
  BY <1>1, <1>2, <1>3, <1>4, <1>5, <1>6 DEF Begun

(* A sequence of the same, n times.                                        *)
LEMMA Repeated ==
  ASSUME NEW S, NEW x \in S, NEW n \in Nat, NEW e, e = [k \in 1 .. n |-> x]
  PROVE  e \in Seq(S) /\ \A j \in 1 .. Len(e) : e[j] = x
<1>1. e \in [1 .. n -> S]
  OBVIOUS
<1>2. e \in Seq(S)
  BY <1>1, SeqDef
<1>3. Len(e) = n
  OBVIOUS
<1> QED
  BY <1>2, <1>3

(* What a client makes of a request.                                       *)
LEMMA PartsOfShape ==
  ASSUME NEW r \in Requests, NEW i \in Nat
  PROVE  Begun(PartsOf(r, i), i) /\ Len(PartsOf(r, i)) >= 2
<1> DEFINE part(what) == [req |-> i, what |-> what]
<1>1. PICK fields : fields = (r.framing # "none" \/ r.ranges # <<>> \/ r.closes)
  OBVIOUS
<1>2. PICK a, b, d, e, f :
        /\ a = <<part("line")>> /\ b = (IF fields THEN <<part("header")>> ELSE <<>>)
        /\ d = <<part("blank")>> /\ e = [n \in 1 .. r.pieces |-> part("content")]
        /\ f = (IF r.framing = "chunked" THEN <<part("last")>> ELSE <<>>)
  OBVIOUS
<1>3. PartsOf(r, i) = (((a \o b) \o d) \o e) \o f
  BY <1>1, <1>2 DEF PartsOf
<1>4. \A what \in Kinds : part(what) \in Parts
  BY DEF Parts
<1>5. Begun(a, i) /\ Len(a) = 1
  BY <1>2, <1>4 DEF Kinds, Begun
<1>6. Follows(b, i, Len(a)) /\ Len(b) \in 0 .. 1
  BY <1>2, <1>4, <1>5 DEF Kinds, Follows
<1>7. PICK x : x = a \o b /\ Begun(x, i)
  BY <1>5, <1>6, BegunOn
<1>8. Follows(d, i, Len(x)) /\ Len(d) = 1
  BY <1>2, <1>4 DEF Kinds, Follows
<1>9. PICK y : y = x \o d /\ Begun(y, i) /\ Len(y) >= 2
  <2>1. x \in Seq(Parts) /\ d \in Seq(Parts) /\ Len(x) >= 1
    BY <1>7, <1>8 DEF Begun, Follows
  <2>2. Len(x \o d) = Len(x) + Len(d)
    BY <2>1, Joined
  <2>3. Len(x) \in Nat
    BY <2>1, LenProperties
  <2>4. Len(x \o d) >= 2
    BY <1>8, <2>1, <2>2, <2>3
  <2> QED
    BY <1>7, <1>8, <2>4, BegunOn
<1>10. Follows(e, i, Len(y))
  <2>1. r.pieces \in Nat /\ part("content") \in Parts
    BY <1>4 DEF Requests, Kinds
  <2> HIDE DEF part
  <2>2. e \in Seq(Parts) /\ \A j \in 1 .. Len(e) : e[j] = part("content")
    <3>1. e = [n \in 1 .. r.pieces |-> part("content")]
      BY <1>2
    <3> QED
      BY <2>1, <3>1, Repeated
  <2>3. \A j \in 1 .. Len(e) : e[j].req = i /\ e[j].what = "content"
    BY <2>2 DEF part
  <2> QED
    BY <2>2, <2>3 DEF Follows
<1>11. PICK z : z = y \o e /\ Begun(z, i) /\ Len(z) >= Len(y)
  BY <1>9, <1>10, BegunOn
<1>12. Follows(f, i, Len(z))
  BY <1>2, <1>4 DEF Kinds, Follows
<1>13. PICK w : w = z \o f /\ Begun(w, i) /\ Len(w) >= Len(z)
  BY <1>11, <1>12, BegunOn
<1>14. Len(y) \in Nat /\ Len(z) \in Nat /\ Len(w) \in Nat
  BY <1>9, <1>11, <1>13, LenProperties DEF Begun
<1>15. PartsOf(r, i) = w
  BY <1>3, <1>7, <1>9, <1>11, <1>13
<1> QED
  BY <1>9, <1>11, <1>13, <1>14, <1>15

(* The requests from the first to the k-th.                                *)
Whole(s, k) == Shape(s, k) /\ Len(s) >= 1 /\ s[Len(s)].req = k

(* The next request follows.                                               *)
LEMMA WholeOn ==
  ASSUME NEW k \in Nat \ {0}, NEW s, NEW t, Whole(s, k), Begun(t, k + 1)
  PROVE  Whole(s \o t, k + 1)
<1> DEFINE Upto(n) == [req : 1 .. n, what : Kinds]
<1>1. s \in Seq(Upto(k)) /\ t \in Seq(Parts)
  BY DEF Whole, Shape, Begun
<1>2. PICK m \in Nat, n \in Nat : m = Len(s) /\ n = Len(t)
  BY <1>1, LenProperties
<1>3. m >= 1 /\ n >= 1 /\ m \in 1 .. m /\ 1 \in 1 .. m /\ 1 \in 1 .. n
  BY <1>2 DEF Whole, Begun
<1>4. s \in Seq(Upto(k + 1)) /\ t \in Seq(Upto(k + 1))
  <2>1. Upto(k) \subseteq Upto(k + 1)
    OBVIOUS
  <2>2. \A i \in 1 .. n : t[i] \in Upto(k + 1)
    <3>1. \A i \in 1 .. n : t[i] \in Parts
      BY <1>1, <1>2, ElementOfSeq
    <3>2. \A i \in 1 .. n : t[i].req = k + 1
      BY <1>2 DEF Begun
    <3>3. k + 1 \in 1 .. k + 1
      OBVIOUS
    <3> QED
      BY <3>1, <3>2, <3>3 DEF Parts
  <2>3. t = [i \in 1 .. n |-> t[i]]
    BY <1>1, <1>2, LenProperties
  <2> HIDE DEF Upto
  <2>4. s \in Seq(Upto(k + 1))
    BY <1>1, <2>1, SeqMonotonic
  <2> QED
    BY <2>2, <2>3, <2>4
<1>5. PICK u : u = s \o t
  OBVIOUS
<1>6. /\ u \in Seq(Upto(k + 1)) /\ Len(u) = m + n
      /\ \A j \in 1 .. m : u[j] = s[j]
      /\ \A j \in 1 .. n : u[m + j] = t[j]
      /\ \A j \in 1 .. m + n : j \in 1 .. m \/ j - m \in 1 .. n
  <2> HIDE DEF Upto
  <2> QED
    BY <1>2, <1>4, <1>5, Joined
<1>7. /\ \A j \in 1 .. m : s[j].req \in 1 .. k
      /\ \A j \in 1 .. n : /\ t[j].req = k + 1 /\ (j # 1 => t[j].what # "line")
                           /\ t[j].what = "header" => j = 2
      /\ t[1].what = "line"
  <2>1. \A j \in 1 .. m : s[j] \in Upto(k)
    BY <1>1, <1>2, ElementOfSeq
  <2> QED
    BY <1>2, <2>1 DEF Begun
<1>8. /\ s[1].what = "line" /\ s[1].req = 1 /\ s[m].req = k
      /\ \A i, j \in 1 .. m : i < j => s[i].req <= s[j].req
      /\ \A i \in 1 .. m - 1 :
           \/ s[i + 1].what = "line" /\ s[i + 1].req = s[i].req + 1
           \/ /\ s[i + 1].what # "line" /\ s[i + 1].req = s[i].req
              /\ s[i + 1].what = "header" => s[i].what = "line"
  BY <1>2, <1>3 DEF Whole, Shape
<1>9. \A j \in 1 .. m + n : u[j].req = IF j <= m THEN s[j].req ELSE k + 1
  <2> SUFFICES ASSUME NEW j \in 1 .. m + n PROVE u[j].req = IF j <= m THEN s[j].req ELSE k + 1
    OBVIOUS
  <2>1. CASE j <= m
    BY <1>6, <2>1
  <2>2. CASE ~(j <= m)
    <3>1. j - m \in 1 .. n /\ m + (j - m) = j
      BY <2>2
    <3>2. u[j] = t[j - m]
      BY <1>6, <3>1
    <3> QED
      BY <1>7, <2>2, <3>1, <3>2
  <2> QED
    BY <2>1, <2>2
<1>10. ASSUME NEW i \in 1 .. m + n, NEW j \in 1 .. m + n, i < j PROVE u[i].req <= u[j].req
  <2>1. CASE j <= m
    BY <1>8, <1>9, <1>10, <2>1
  <2>2. CASE ~(j <= m)
    BY <1>7, <1>9, <2>2
  <2> QED
    BY <2>1, <2>2
<1>11. ASSUME NEW i \in 1 .. (m + n) - 1
       PROVE  \/ u[i + 1].what = "line" /\ u[i + 1].req = u[i].req + 1
              \/ /\ u[i + 1].what # "line" /\ u[i + 1].req = u[i].req
                 /\ u[i + 1].what = "header" => u[i].what = "line"
  <2>1. CASE i < m
    <3>1. i \in 1 .. m /\ i + 1 \in 1 .. m /\ i \in 1 .. m - 1
      BY <2>1
    <3> QED
      BY <1>6, <1>8, <3>1
  <2>2. CASE i = m
    BY <1>3, <1>6, <1>7, <1>8, <2>2
  <2>3. CASE i > m
    <3>1. PICK j \in 1 .. n : /\ j = i - m /\ i = m + j /\ j + 1 \in 1 .. n
                             /\ i + 1 = m + (j + 1) /\ j + 1 # 1
      BY <2>3
    <3>2. u[i] = t[j] /\ u[i + 1] = t[j + 1]
      BY <1>6, <3>1
    <3>3. t[j + 1].req = t[j].req /\ t[j + 1].what # "line"
      BY <1>7, <3>1
    <3>4. t[j + 1].what = "header" => j = 1
      <4>1. t[j + 1].what = "header" => j + 1 = 2
        BY <1>7, <3>1
      <4> QED
        BY <4>1
    <3> QED
      BY <1>7, <3>2, <3>3, <3>4
  <2> QED
    BY <2>1, <2>2, <2>3
<1>12. u[1] = s[1] /\ u[m + n].req = k + 1 /\ Len(u) >= 1
  <2>1. m + n \in 1 .. m + n /\ ~(m + n <= m) /\ m + n >= 1
    BY <1>3
  <2> QED
    BY <1>3, <1>6, <1>9, <2>1
<1>13. Shape(u, k + 1)
  <2> HIDE DEF Upto
  <2>1. u \in Seq([req : 1 .. k + 1, what : Kinds])
    BY <1>6 DEF Upto
  <2> QED
    BY <1>6, <1>8, <1>10, <1>11, <1>12, <2>1 DEF Shape
<1> QED
  BY <1>5, <1>6, <1>12, <1>13 DEF Whole

LEMMA BegunWhole == ASSUME NEW s, Begun(s, 1) PROVE Whole(s, 1)
<1>1. PICK n \in Nat : n = Len(s) /\ n >= 1 /\ s \in Seq(Parts)
  BY LenProperties DEF Begun
<1>2. \A j \in 1 .. n : s[j] \in Parts /\ s[j].req = 1
  BY <1>1, ElementOfSeq DEF Begun
<1>3. \A j \in 1 .. n : s[j] \in [req : 1 .. 1, what : Kinds]
  BY <1>2 DEF Parts
<1>4. s = [i \in 1 .. n |-> s[i]]
  BY <1>1, LenProperties
<1>5. s \in Seq([req : 1 .. 1, what : Kinds])
  <2>1. PICK U : U = [req : 1 .. 1, what : Kinds]
    OBVIOUS
  <2>2. \A j \in 1 .. n : s[j] \in U
    BY <1>3, <2>1
  <2>3. s \in [1 .. n -> U]
    BY <1>4, <2>2
  <2>4. n \in Nat
    BY <1>1
  <2> QED
    BY <2>1, <2>3, <2>4, SeqDef
<1>6. \A i \in 1 .. n - 1 : /\ i \in 1 .. n /\ i + 1 \in 1 .. n /\ i + 1 # 1
                            /\ (i + 1 = 2 => i = 1)
  BY <1>1
<1>7. \A i \in 1 .. n - 1 : /\ s[i + 1].what # "line"
                            /\ s[i + 1].what = "header" => s[i].what = "line"
  BY <1>1, <1>6 DEF Begun
<1> QED
  BY <1>1, <1>2, <1>5, <1>6, <1>7 DEF Whole, Shape, Begun

(* What a client sends, by induction over its requests.                    *)
LEMMA AllPartsShape ==
  ASSUME NEW p, p.requests \in Seq(Requests)
  PROVE  Shape(AllParts(p), Len(p.requests))
<1>1. PICK rs \in Seq(Requests) : rs = p.requests
  OBVIOUS
<1>2. PICK n \in Nat : n = Len(rs) /\ DOMAIN rs = 1 .. n
  BY LenProperties
<1>3. PICK parts : parts = [i \in 1 .. n |-> PartsOf(rs[i], i)]
  OBVIOUS
<1>4. AllParts(p) = FlattenSeq(parts)
  BY <1>1, <1>2, <1>3 DEF AllParts
<1>5. Len(parts) = n
  BY <1>3
<1>6. CASE n = 0
  <2>1. parts = <<>>
    <3>1. 1 .. n = {}
      BY <1>6
    <3> QED
      BY <1>3, <3>1
  <2>2. AllParts(p) = <<>>
    BY <1>4, <1>5, <1>6, <2>1 DEF FlattenSeq
  <2> QED
    BY <1>1, <1>2, <1>6, <2>2 DEF Shape
<1>7. CASE n # 0
  <2>1. PICK f : /\ f = [i \in 1 .. n |-> IF i = 1 THEN parts[i] ELSE f[i - 1] \o parts[i]]
                 /\ FlattenSeq(parts) = f[n]
    BY <1>5, <1>7, FlattenUnfolds
  <2>2. \A i \in 1 .. n : Begun(parts[i], i)
    BY <1>2, <1>3, ElementOfSeq, PartsOfShape
  <2> DEFINE S == {k \in Nat : k \in 1 .. n => Whole(f[k], k)}
  <2>3. 0 \in S
    OBVIOUS
  <2>4. ASSUME NEW k \in Nat, k \in S PROVE k + 1 \in S
    <3> SUFFICES ASSUME k + 1 \in 1 .. n PROVE Whole(f[k + 1], k + 1)
      OBVIOUS
    <3>1. CASE k = 0
      <4>1. f[1] = parts[1]
        BY <2>1, <1>7
      <4> QED
        BY <2>2, <3>1, <4>1, BegunWhole
    <3>2. CASE k # 0
      <4>1. k \in 1 .. n /\ Whole(f[k], k) /\ k + 1 # 1 /\ (k + 1) - 1 = k
        BY <2>4, <3>2
      <4>2. f[k + 1] = f[k] \o parts[k + 1]
        BY <2>1, <4>1
      <4> QED
        BY <2>2, <4>1, <4>2, WholeOn
    <3> QED
      BY <3>1, <3>2
  <2>5. Nat \subseteq S
    <3> HIDE DEF S
    <3> QED
      BY <2>3, <2>4, NatSet
  <2>6. Whole(f[n], n)
    BY <1>7, <2>5
  <2>7. AllParts(p) = f[n] /\ Len(p.requests) = n
    BY <1>1, <1>2, <1>4, <2>1
  <2>8. Shape(f[n], n)
    BY <2>6 DEF Whole
  <2> QED
    BY <2>7, <2>8
<1> QED
  BY <1>6, <1>7

-----------------------------------------------------------------------------
(* Byte ranges.                                                            *)

LEMMA Remainder == ASSUME NEW m \in Nat \ {0}, NEW x \in 0 .. m - 1 PROVE x % m = x
OBVIOUS

(* The least and the greatest element.                                     *)
LEMMA MinMax ==
  ASSUME NEW S, S \subseteq Int, NEW a \in S, NEW b \in S,
         \A x \in S : a <= x /\ x <= b
  PROVE  Min(S) = a /\ Max(S) = b
<1>1. Min(S) \in S /\ \A y \in S : Min(S) <= y
  <2>1. \E x \in S : \A y \in S : x <= y
    OBVIOUS
  <2> QED
    BY <2>1 DEF Min
<1>2. Max(S) \in S /\ \A y \in S : Max(S) >= y
  <2>1. \E x \in S : \A y \in S : x >= y
    OBVIOUS
  <2> QED
    BY <2>1 DEF Max
<1>3. a \in Int /\ b \in Int /\ Min(S) \in Int /\ Max(S) \in Int
  BY <1>1, <1>2
<1>4. Min(S) <= a /\ a <= Min(S) /\ Max(S) >= b /\ Max(S) <= b
  BY <1>1, <1>2
<1> QED
  BY <1>3, <1>4

LEMMA MinOfTwo ==
  ASSUME NEW a \in Nat, NEW b \in Nat
  PROVE  Min({a, b}) = IF a <= b THEN a ELSE b
<1>1. CASE a <= b
  <2>1. \A x \in {a, b} : a <= x /\ x <= b
    BY <1>1
  <2>2. Min({a, b}) = a
    BY <2>1, MinMax
  <2> QED
    BY <1>1, <2>2
<1>2. CASE ~(a <= b)
  <2>1. \A x \in {a, b} : b <= x /\ x <= a
    BY <1>2
  <2>2. Min({a, b}) = b
    BY <2>1, MinMax
  <2> QED
    BY <1>2, <2>2
<1> QED
  BY <1>1, <1>2

(* Half of the values of size_t are numbers of a range header.             *)
LEMMA HalfOfSize ==
  /\ SizeWidth \div 2 \in Nat /\ SizeWidth \in Nat \ {0}
  /\ 2 * (SizeWidth \div 2) <= SizeWidth
<1>1. ASSUME NEW w \in Nat PROVE w \div 2 \in Nat /\ 2 * (w \div 2) <= w
  OBVIOUS
<1> QED
  BY <1>1, SizeWidthAssumption

(* A range from f to l, neither of which wraps.                            *)
LEMMA Slice ==
  ASSUME NEW h \in Nat, h = SizeWidth \div 2, NEW f \in Nat, NEW l \in Nat, f <= l, l < h,
         NEW size \in Nat, NEW o, o = [offset |-> f, length |-> (ToSize(l - f) + 1) % SizeWidth]
  PROVE  /\ o.length = l - f + 1
         /\ Substring(o, size) = {i \in 0 .. size - 1 : f <= i /\ i <= l}
         /\ ContentRange(o) = <<f, l>>
<1>1. PICK w \in Nat \ {0} : w = SizeWidth /\ 2 * h <= w
  BY HalfOfSize
<1>2. ToSize(l - f) = l - f /\ (l - f) + 1 \in 0 .. w - 1 /\ l - f \in Int
  BY <1>1 DEF ToSize
<1>3. ((l - f) + 1) % w = (l - f) + 1
  BY <1>2, Remainder
<1>4. o.length = l - f + 1 /\ o.offset = f
  BY <1>1, <1>2, <1>3
<1>5. Substring(o, size) = {i \in 0 .. size - 1 : f <= i /\ i <= l}
  BY <1>4 DEF Substring
<1>6. o.offset + o.length - 1 = l /\ l \in 0 .. w - 1
  BY <1>1, <1>4
<1>7. ToSize(l) = l /\ l % w = l
  BY <1>6, Remainder DEF ToSize
<1>8. ContentRange(o) = <<f, l>>
  BY <1>1, <1>4, <1>6, <1>7 DEF ContentRange
<1> QED
  BY <1>4, <1>5, <1>8

(* A part of a reply holds what its range selects, and says so.            *)
LEMMA PartExact ==
  ASSUME NEW r \in Numbers \X Numbers, ValidRange(r),
         NEW size \in 1 .. (SizeWidth \div 2) - 1, RangePart(r, size).offset < size
  PROVE  /\ RangePart(r, size).bytes = Selected(r, size)
         /\ r[2] < size =>
              RangePart(r, size).range
                = <<Min(RangePart(r, size).bytes), Max(RangePart(r, size).bytes)>>
<1>1. PICK h \in Nat : h = SizeWidth \div 2
  BY HalfOfSize
<1>2. PICK a \in -1 .. h - 1, b \in -1 .. h - 1 : r = <<a, b>>
  BY <1>1 DEF Numbers
<1>3. size \in Nat /\ size >= 1 /\ size < h
  BY <1>1
<1>4. r[1] = a /\ r[2] = b /\ (a = -1 \/ b = -1 \/ a <= b)
  BY <1>2 DEF ValidRange
<1>5. PICK f : f = IF a # -1 THEN a ELSE IF b = -1 THEN 0 ELSE IF size > b THEN size - b ELSE 0
  OBVIOUS
<1>6. PICK l : l = IF a = -1 \/ b = -1 THEN size - 1 ELSE b
  OBVIOUS
<1>7. PICK o : o = OffsetAndLength(r, size)
  OBVIOUS
<1>8. f \in Nat /\ l \in Nat
  BY <1>3, <1>4, <1>5, <1>6
<1>9. o = [offset |-> f, length |-> (ToSize(l - f) + 1) % SizeWidth]
  <2>1. CASE a = -1 /\ b = -1
    <3>1. o = [offset |-> 0, length |-> size]
      BY <1>2, <1>7, <2>1 DEF OffsetAndLength
    <3>2. f = 0 /\ l = size - 1 /\ l - f = size - 1
      BY <1>3, <1>5, <1>6, <2>1
    <3>3. PICK w \in Nat \ {0} : w = SizeWidth /\ 2 * h <= w
      BY <1>1, HalfOfSize
    <3>4. ToSize(size - 1) = size - 1 /\ (size - 1) + 1 = size /\ size \in 0 .. w - 1
      BY <1>3, <3>3 DEF ToSize
    <3>5. size % w = size
      BY <3>4, Remainder
    <3> QED
      BY <3>1, <3>2, <3>3, <3>4, <3>5
  <2>2. CASE ~(a = -1 /\ b = -1)
    <3>1. r # <<-1, -1>>
      BY <1>2, <2>2
    <3> QED
      BY <1>4, <1>5, <1>6, <1>7, <2>2, <3>1 DEF OffsetAndLength
  <2> QED
    BY <2>1, <2>2
<1>10. RangePart(r, size) = [offset |-> f, range |-> ContentRange(o), bytes |-> Substring(o, size)]
  BY <1>7, <1>9 DEF RangePart
<1>11. f < size
  BY <1>10
<1>12. f <= l /\ l < h
  BY <1>2, <1>3, <1>4, <1>5, <1>6, <1>11
<1>13. Substring(o, size) = {i \in 0 .. size - 1 : f <= i /\ i <= l} /\ ContentRange(o) = <<f, l>>
  BY <1>1, <1>3, <1>8, <1>9, <1>12, Slice
<1>14. PICK B : B = {i \in 0 .. size - 1 : f <= i /\ i <= l}
  OBVIOUS
<1>15. Selected(r, size) = B
  BY <1>2, <1>3, <1>4, <1>5, <1>6, <1>14 DEF Selected
<1>16. ASSUME b < size PROVE Min(B) = f /\ Max(B) = l
  <2>1. l <= size - 1
    BY <1>2, <1>3, <1>6, <1>16
  <2>2. f \in B /\ l \in B /\ B \subseteq Int /\ \A x \in B : f <= x /\ x <= l
    BY <1>3, <1>8, <1>11, <1>12, <1>14, <2>1
  <2> QED
    BY <2>2, MinMax
<1> QED
  BY <1>4, <1>10, <1>13, <1>14, <1>15, <1>16

-----------------------------------------------------------------------------
(* Reading and sending.                                                    *)

(* What the client of a connection sends has the shape of requests.        *)
LEMMA PlanShape ==
  ASSUME plan \in Workloads, NEW c \in Conns
  PROVE  /\ plan[c].requests \in Seq(Requests) /\ plan[c].polite \in BOOLEAN
         /\ Shape(All(c), Len(plan[c].requests))
<1>1. plan[c] \in [comes : BOOLEAN, requests : Seq(Requests), polite : BOOLEAN]
  BY ConnectionAssumption
<1>2. plan[c].requests \in Seq(Requests) /\ plan[c].polite \in BOOLEAN
  BY <1>1
<1>3. PICK p : p = plan[c]
  OBVIOUS
<1>4. Shape(AllParts(p), Len(p.requests))
  BY <1>2, <1>3, AllPartsShape
<1> QED
  BY <1>2, <1>3, <1>4 DEF All

LEMMA AllSame == ASSUME NEW c, plan' = plan PROVE All(c)' = All(c)
BY DEF All

(* The lengths of the parts of a stream.                                   *)
LEMMA Lengths ==
  ASSUME Typed, NEW c \in Conns
  PROVE  /\ Len(All(c)) \in Nat /\ Len(unsent[c]) \in Nat /\ Len(queue[c]) \in Nat
         /\ Len(buffer[c]) \in Nat
         /\ Streaming(c) =>
              /\ Sent(c) \in Nat /\ Gone(c) \in Nat
              /\ Sent(c) = Gone(c) + Len(buffer[c]) + Len(queue[c])
              /\ Len(All(c)) = Sent(c) + Len(unsent[c])
<1>1. All(c) \in Seq([req : 1 .. Len(plan[c].requests), what : Kinds])
  BY PlanShape DEF Typed, Shape
<1>2. Len(All(c)) \in Nat
  BY <1>1, LenProperties
<1>3. unsent[c] \in Seq(Parts) /\ queue[c] \in Seq(Parts) /\ buffer[c] \in Seq(Parts)
  BY DEF Typed
<1>4. Len(unsent[c]) \in Nat /\ Len(queue[c]) \in Nat /\ Len(buffer[c]) \in Nat
  BY <1>3, LenProperties
<1>5. Sent(c) \in Int
  BY <1>2, <1>4 DEF Sent
<1>6. Streaming(c) => Gone(c) \in Nat
  BY DEF Streaming
<1>7. Gone(c) \in Nat => Sent(c) \in Nat /\ Sent(c) = Gone(c) + Len(buffer[c]) + Len(queue[c])
  BY <1>4, <1>5 DEF Gone
<1>8. Len(All(c)) = Sent(c) + Len(unsent[c])
  BY <1>2, <1>4 DEF Sent
<1> QED
  BY <1>2, <1>4, <1>6, <1>7, <1>8

(* A sequence cut in two.                                                  *)
LEMMA Cut ==
  ASSUME NEW S, NEW s \in Seq(S), NEW n \in 0 .. Len(s)
  PROVE  /\ SubSeq(s, 1, n) \in Seq(S) /\ Len(SubSeq(s, 1, n)) = n
         /\ \A i \in 1 .. n : SubSeq(s, 1, n)[i] = s[i]
         /\ SubSeq(s, n + 1, Len(s)) \in Seq(S) /\ Len(SubSeq(s, n + 1, Len(s))) = Len(s) - n
         /\ \A i \in 1 .. Len(s) - n : SubSeq(s, n + 1, Len(s))[i] = s[n + i]
<1>1. PICK m \in Nat : m = Len(s)
  BY LenProperties
<1>2. \A i \in 1 .. m : s[i] \in S
  BY <1>1, ElementOfSeq
<1>3. n \in Nat /\ n <= m
  BY <1>1
<1>4. PICK u : u = SubSeq(s, 1, n)
  OBVIOUS
<1>5. u \in Seq(S) /\ Len(u) = n /\ \A i \in 1 .. n : u[i] = s[i]
  <2>1. \A i \in 1 .. n : s[i] \in S
    BY <1>2, <1>3
  <2>2. /\ u \in Seq(S) /\ Len(u) = IF 1 <= n THEN n - 1 + 1 ELSE 0
        /\ \A i \in 1 .. n - 1 + 1 : u[i] = s[1 + i - 1]
    BY <1>3, <1>4, <2>1, SubSeqProperties
  <2> QED
    BY <1>3, <2>2
<1>6. PICK v : v = SubSeq(s, n + 1, m)
  OBVIOUS
<1>7. v \in Seq(S) /\ Len(v) = m - n /\ \A i \in 1 .. m - n : v[i] = s[n + i]
  <2>1. \A i \in n + 1 .. m : s[i] \in S
    BY <1>2, <1>3
  <2>2. n + 1 \in Int /\ m \in Int
    BY <1>3
  <2>3. /\ v \in Seq(S) /\ Len(v) = IF n + 1 <= m THEN m - (n + 1) + 1 ELSE 0
        /\ \A i \in 1 .. m - (n + 1) + 1 : v[i] = s[(n + 1) + i - 1]
    BY <1>6, <2>1, <2>2, SubSeqProperties
  <2>4. \A i \in 1 .. m - n : i \in 1 .. m - (n + 1) + 1 /\ (n + 1) + i - 1 = n + i
    BY <1>3
  <2>5. Len(v) = m - n
    BY <1>3, <2>3
  <2> QED
    BY <2>3, <2>4, <2>5
<1> QED
  BY <1>1, <1>4, <1>5, <1>6, <1>7

(* What read() can return is what comes next in the stream.                *)
LEMMA AvailableIs ==
  ASSUME Typed, NEW c \in Conns, Streaming(c)
  PROVE  /\ Available(c) \in Seq(Parts)
         /\ Len(Available(c)) \in Nat /\ Len(Available(c)) <= Sent(c) - Gone(c)
         /\ \A i \in 1 .. Len(Available(c)) : Available(c)[i] = All(c)[Gone(c) + i]
         /\ NoInput(c) <=> Gone(c) = Sent(c)
         /\ NoInput(c) <=> Len(Available(c)) = 0
         /\ buffer[c] = <<>> => Len(Available(c)) <= Len(queue[c])
         /\ buffer[c] # <<>> => Available(c) = buffer[c]
<1>1. PICK b \in Nat, q \in Nat : b = Len(buffer[c]) /\ q = Len(queue[c])
  BY Lengths
<1>2. Sent(c) = Gone(c) + b + q /\ Gone(c) \in Nat /\ Sent(c) \in Nat
  BY <1>1, Lengths
<1>3. queue[c] \in Seq(Parts) /\ buffer[c] \in Seq(Parts)
  BY DEF Typed
<1>4. (buffer[c] = <<>> <=> b = 0) /\ (queue[c] = <<>> <=> q = 0)
  BY <1>1, <1>3, EmptySeq
<1>5. CASE buffer[c] # <<>>
  <2>1. Available(c) = buffer[c] /\ b # 0
    BY <1>4, <1>5 DEF Available
  <2>2. \A i \in 1 .. b : buffer[c][i] = All(c)[Gone(c) + i]
    BY <1>1 DEF Streaming
  <2>3. ~NoInput(c)
    BY <1>5, <2>1 DEF NoInput
  <2> QED
    BY <1>1, <1>2, <1>3, <1>5, <2>1, <2>2, <2>3
<1>6. CASE buffer[c] = <<>>
  <2>1. RecvMax \in Nat /\ RecvMax # 0
    BY ConnectionAssumption
  <2>2. PICK n : n = Min({RecvMax, q})
    OBVIOUS
  <2>3. n = IF RecvMax <= q THEN RecvMax ELSE q
    BY <2>1, <2>2, MinOfTwo
  <2>4. n \in 0 .. q /\ (n = 0 <=> q = 0)
    BY <2>1, <2>3
  <2>5. Available(c) = SubSeq(queue[c], 1, n)
    BY <1>1, <1>6, <2>2 DEF Available, Recv
  <2>6. /\ Available(c) \in Seq(Parts) /\ Len(Available(c)) = n
        /\ \A i \in 1 .. n : Available(c)[i] = queue[c][i]
    BY <1>1, <1>3, <2>4, <2>5, Cut
  <2>7. \A i \in 1 .. q : queue[c][i] = All(c)[Gone(c) + i]
    <3>1. \A i \in 1 .. q : queue[c][i] = All(c)[Gone(c) + b + i]
      BY <1>1 DEF Streaming
    <3>2. b = 0
      BY <1>4, <1>6
    <3>3. Gone(c) + b = Gone(c)
      BY <1>2, <3>2
    <3> QED
      BY <3>1, <3>3
  <2>8. NoInput(c) <=> n = 0
    BY <2>6, EmptySeq DEF NoInput
  <2>9. \A i \in 1 .. n : i \in 1 .. q
    BY <2>4
  <2>10. n \in Nat /\ n <= Sent(c) - Gone(c) /\ (n = 0 <=> Gone(c) = Sent(c))
    BY <1>2, <1>4, <1>6, <2>4
  <2>11. \A i \in 1 .. n : Available(c)[i] = All(c)[Gone(c) + i]
    BY <2>6, <2>7, <2>9
  <2> QED
    BY <1>1, <1>6, <2>4, <2>6, <2>8, <2>10, <2>11
<1> QED
  BY <1>5, <1>6

(* The streams of the other connections.                                   *)
Others(c) ==
  \A d \in Conns : d # c =>
    /\ unsent'[d] = unsent[d] /\ queue'[d] = queue[d] /\ buffer'[d] = buffer[d]

(* read() takes parts from the stream, and leaves the rest as it is.       *)
LEMMA TakeMoves ==
  ASSUME Typed, NEW c \in Conns, Streaming(c), NEW n \in 1 .. Len(Available(c)), Take(c, n),
         UNCHANGED client
  PROVE  /\ queue' \in [Conns -> Seq(Parts)] /\ buffer' \in [Conns -> Seq(Parts)] /\ Others(c)
         /\ Streaming(c)' /\ Gone(c)' = Gone(c) + n /\ Sent(c)' = Sent(c)
<1>1. PICK b \in Nat, q \in Nat, a \in Nat :
        b = Len(buffer[c]) /\ q = Len(queue[c]) /\ a = Len(Available(c))
  BY Lengths, AvailableIs
<1>2. PICK g \in Nat, t \in Nat : g = Gone(c) /\ t = Sent(c)
  BY Lengths
<1> PICK h : h = g + n
  OBVIOUS
<1>3. h \in Nat /\ t = g + b + q /\ a <= t - g /\ n <= a /\ n >= 1
  <2>1. t = g + b + q
    BY <1>1, <1>2, Lengths
  <2>2. a <= t - g
    BY <1>1, <1>2, AvailableIs
  <2>3. n \in 1 .. a
    BY <1>1
  <2> QED
    BY <2>1, <2>2, <2>3
<1>4. queue[c] \in Seq(Parts) /\ buffer[c] \in Seq(Parts) /\ Available(c) \in Seq(Parts)
  BY AvailableIs DEF Typed
<1>5. PICK s : s = All(c)
  OBVIOUS
<1>6. All(c)' = s /\ plan' = plan /\ unsent' = unsent
  BY <1>5, AllSame DEF client
<1>7. PICK u : u = SubSeq(Available(c), n + 1, a)
  OBVIOUS
<1>8. /\ u \in Seq(Parts) /\ Len(u) = a - n
      /\ \A i \in 1 .. a - n : u[i] = s[h + i]
  <2>1. /\ u \in Seq(Parts) /\ Len(u) = a - n
        /\ \A i \in 1 .. a - n : u[i] = Available(c)[n + i]
    BY <1>1, <1>4, <1>7, Cut
  <2>2. \A i \in 1 .. a : Available(c)[i] = s[g + i]
    BY <1>1, <1>2, <1>5, AvailableIs
  <2>3. \A i \in 1 .. a - n : n + i \in 1 .. a /\ g + (n + i) = h + i
    BY <1>3
  <2> QED
    BY <2>1, <2>2, <2>3
<1>9. buffer' = [buffer EXCEPT ![c] = u]
  BY <1>1, <1>7 DEF Take
<1>10. /\ buffer' \in [Conns -> Seq(Parts)] /\ buffer'[c] = u
       /\ \A d \in Conns : d # c => buffer'[d] = buffer[d]
  BY <1>8, <1>9 DEF Typed
<1>11. \A i \in 1 .. Len(unsent[c]) : unsent[c][i] = s[t + i]
  BY <1>2, <1>5 DEF Streaming
<1>12. Sent(c)' = t
  BY <1>2, <1>5, <1>6 DEF Sent
<1>13. CASE buffer[c] # <<>>
  <2>1. queue' = queue /\ a = b
    BY <1>1, <1>13, AvailableIs DEF Take
  <2>2. Gone(c)' = t - q - (a - n)
    BY <1>1, <1>8, <1>10, <1>12, <2>1 DEF Gone
  <2>3. Gone(c)' = h
    BY <1>3, <2>1, <2>2
  <2>4. Len(buffer'[c]) = a - n /\ \A i \in 1 .. q : queue[c][i] = s[h + (a - n) + i]
    <3>1. \A i \in 1 .. q : queue[c][i] = s[g + b + i]
      BY <1>1, <1>2, <1>5 DEF Streaming
    <3>2. \A i \in 1 .. q : g + n + (a - n) + i = g + b + i
      BY <1>3, <2>1
    <3> QED
      BY <1>8, <1>10, <3>1, <3>2
  <2>5. Streaming(c)'
    BY <1>1, <1>3, <1>6, <1>8, <1>10, <1>11, <1>12, <2>1, <2>3, <2>4 DEF Streaming
  <2>6. queue' \in [Conns -> Seq(Parts)] /\ Others(c)
    BY <1>6, <1>10, <2>1 DEF Typed, Others
  <2> QED
    BY <1>2, <1>10, <1>12, <2>3, <2>5, <2>6
<1>14. CASE buffer[c] = <<>>
  <2>1. b = 0 /\ a <= q
    BY <1>1, <1>14, AvailableIs, EmptySeq
  <2>2. PICK v : v = SubSeq(queue[c], a + 1, q)
    OBVIOUS
  <2>3. v \in Seq(Parts) /\ Len(v) = q - a /\ \A i \in 1 .. q - a : v[i] = queue[c][a + i]
    <3>1. a \in 0 .. q
      BY <2>1
    <3> QED
      BY <1>1, <1>4, <2>2, <3>1, Cut
  <2>4. queue' = [queue EXCEPT ![c] = v]
    BY <1>1, <1>14, <2>2 DEF Take
  <2>5. /\ queue' \in [Conns -> Seq(Parts)] /\ queue'[c] = v
        /\ \A d \in Conns : d # c => queue'[d] = queue[d]
    BY <2>3, <2>4 DEF Typed
  <2>6. Gone(c)' = t - (q - a) - (a - n)
    BY <1>1, <1>8, <1>10, <1>12, <2>3, <2>5 DEF Gone
  <2>7. Gone(c)' = h
    BY <1>3, <2>1, <2>6
  <2>8. Len(buffer'[c]) = a - n /\ \A i \in 1 .. q - a : v[i] = s[h + (a - n) + i]
    <3>1. \A i \in 1 .. q : queue[c][i] = s[g + b + i]
      BY <1>1, <1>2, <1>5 DEF Streaming
    <3>2. \A i \in 1 .. q - a : a + i \in 1 .. q /\ g + b + (a + i) = h + (a - n) + i
      BY <1>3, <2>1
    <3>3. \A i \in 1 .. q - a : v[i] = s[h + (a - n) + i]
      <4> SUFFICES ASSUME NEW i \in 1 .. q - a PROVE v[i] = s[h + (a - n) + i]
        OBVIOUS
      <4>1. PICK j \in 1 .. q : j = a + i /\ g + b + j = h + (a - n) + i
        BY <3>2
      <4>2. v[i] = queue[c][j]
        BY <2>3, <4>1
      <4>3. queue[c][j] = s[g + b + j]
        BY <3>1
      <4> QED
        BY <4>1, <4>2, <4>3
    <3>4. Len(buffer'[c]) = a - n
      BY <1>8, <1>10
    <3> QED
      BY <3>3, <3>4
  <2>9. Streaming(c)'
    BY <1>3, <1>6, <1>8, <1>10, <1>11, <1>12, <2>3, <2>5, <2>7, <2>8 DEF Streaming
  <2>10. Others(c)
    BY <1>6, <1>10, <2>5 DEF Others
  <2> QED
    BY <1>2, <1>10, <1>12, <2>5, <2>7, <2>9, <2>10
<1> QED
  BY <1>13, <1>14

(* The client sends what comes next.                                       *)
LEMMA SendMoves ==
  ASSUME Typed, NEW c \in Conns, Streaming(c), NEW n \in 1 .. Len(unsent[c]), Send(c, n)
  PROVE  /\ queue' \in [Conns -> Seq(Parts)] /\ unsent' \in [Conns -> Seq(Parts)] /\ Others(c)
         /\ Streaming(c)' /\ Gone(c)' = Gone(c) /\ Sent(c)' = Sent(c) + n
         /\ n <= Len(All(c)) - Sent(c)
         /\ unsent[c][n] = All(c)[Sent(c) + n]
<1>1. PICK b \in Nat, q \in Nat, m \in Nat, k \in Nat :
        b = Len(buffer[c]) /\ q = Len(queue[c]) /\ m = Len(unsent[c]) /\ k = Len(All(c))
  BY Lengths
<1>2. PICK g \in Nat, t \in Nat : g = Gone(c) /\ t = Sent(c)
  BY Lengths
<1>3. t = g + b + q /\ k = t + m /\ n <= m /\ n >= 1
  BY <1>1, <1>2, Lengths
<1>4. queue[c] \in Seq(Parts) /\ unsent[c] \in Seq(Parts)
  BY DEF Typed
<1>5. PICK s : s = All(c)
  OBVIOUS
<1>6. All(c)' = s /\ plan' = plan /\ buffer' = buffer
  BY <1>5, AllSame DEF Send
<1>7. PICK x, y, z : /\ x = SubSeq(unsent[c], 1, n) /\ y = SubSeq(unsent[c], n + 1, m)
                     /\ z = queue[c] \o x
  OBVIOUS
<1>8. n \in 0 .. m
  BY <1>3
<1>9. /\ x \in Seq(Parts) /\ Len(x) = n /\ \A i \in 1 .. n : x[i] = unsent[c][i]
      /\ y \in Seq(Parts) /\ Len(y) = m - n /\ \A i \in 1 .. m - n : y[i] = unsent[c][n + i]
  BY <1>1, <1>4, <1>7, <1>8, Cut
<1>10. /\ z \in Seq(Parts) /\ Len(z) = q + n
       /\ \A i \in 1 .. q : z[i] = queue[c][i]
       /\ \A i \in 1 .. n : z[q + i] = x[i]
       /\ \A i \in 1 .. q + n : i \in 1 .. q \/ i - q \in 1 .. n
  BY <1>1, <1>4, <1>7, <1>9, Joined
<1>11. queue' = [queue EXCEPT ![c] = z] /\ unsent' = [unsent EXCEPT ![c] = y]
  BY <1>1, <1>7 DEF Send
<1>12. /\ queue' \in [Conns -> Seq(Parts)] /\ queue'[c] = z
       /\ \A d \in Conns : d # c => queue'[d] = queue[d]
       /\ unsent' \in [Conns -> Seq(Parts)] /\ unsent'[c] = y
       /\ \A d \in Conns : d # c => unsent'[d] = unsent[d]
  BY <1>9, <1>10, <1>11 DEF Typed
<1> PICK u : u = t + n
  OBVIOUS
<1>13. u \in Nat /\ Sent(c)' = u /\ Gone(c)' = g
  <2>1. Sent(c)' = k - (m - n)
    BY <1>1, <1>5, <1>6, <1>9, <1>12 DEF Sent
  <2>2. k - (m - n) = u /\ u \in Nat
    BY <1>3
  <2>3. Gone(c)' = u - (q + n) - b
    BY <1>1, <1>6, <1>10, <1>12, <2>1, <2>2 DEF Gone
  <2>4. u - (q + n) - b = g
    BY <1>3
  <2> QED
    BY <2>1, <2>2, <2>3, <2>4
<1>14. /\ \A i \in 1 .. b : buffer[c][i] = s[g + i]
       /\ \A i \in 1 .. q : queue[c][i] = s[g + b + i]
       /\ \A i \in 1 .. m : unsent[c][i] = s[t + i]
  BY <1>1, <1>2, <1>5 DEF Streaming
<1>15. \A i \in 1 .. q + n : z[i] = s[g + b + i]
  <2> SUFFICES ASSUME NEW i \in 1 .. q + n PROVE z[i] = s[g + b + i]
    OBVIOUS
  <2>1. CASE i \in 1 .. q
    BY <1>10, <1>14, <2>1
  <2>2. CASE i - q \in 1 .. n
    <3>1. PICK j \in 1 .. n : j = i - q /\ i = q + j /\ j \in 1 .. m /\ g + b + i = t + j
      BY <1>3, <2>2
    <3>2. z[i] = unsent[c][j]
      BY <1>9, <1>10, <3>1
    <3> QED
      BY <1>14, <3>1, <3>2
  <2> QED
    BY <1>10, <2>1, <2>2
<1>16. \A i \in 1 .. m - n : y[i] = s[u + i]
  <2>1. \A i \in 1 .. m - n : n + i \in 1 .. m /\ t + (n + i) = u + i
    BY <1>3
  <2> QED
    BY <1>9, <1>14, <2>1
<1>17. Streaming(c)'
  BY <1>1, <1>6, <1>9, <1>10, <1>12, <1>13, <1>14, <1>15, <1>16 DEF Streaming
<1>18. Others(c)
  BY <1>6, <1>12 DEF Others
<1>19. n <= k - t /\ unsent[c][n] = s[t + n]
  BY <1>3, <1>14
<1> QED
  BY <1>1, <1>2, <1>5, <1>12, <1>13, <1>17, <1>18, <1>19

(* The rest of a buffer is lost with its request.                          *)
LEMMA NewStreamMoves ==
  ASSUME Typed, NEW c \in Conns, Streaming(c), NewStream(c), UNCHANGED <<client, queue>>
  PROVE  /\ buffer' \in [Conns -> Seq(Parts)] /\ buffer'[c] = <<>> /\ Others(c)
         /\ Streaming(c)' /\ Gone(c)' = Gone(c) + Len(buffer[c]) /\ Sent(c)' = Sent(c)
<1>1. PICK b \in Nat, q \in Nat, g \in Nat, t \in Nat :
        b = Len(buffer[c]) /\ q = Len(queue[c]) /\ g = Gone(c) /\ t = Sent(c)
  BY Lengths
<1>2. t = g + b + q
  BY <1>1, Lengths
<1>3. PICK s : s = All(c)
  OBVIOUS
<1>4. All(c)' = s /\ UNCHANGED <<plan, unsent, queue>>
  BY <1>3, AllSame DEF client
<1>5. /\ buffer' \in [Conns -> Seq(Parts)] /\ buffer'[c] = <<>>
      /\ \A d \in Conns : d # c => buffer'[d] = buffer[d]
  BY DEF NewStream, Typed
<1>6. Len(buffer'[c]) = 0
  BY <1>5
<1> PICK h : h = g + b
  OBVIOUS
<1>7. h \in Nat /\ Sent(c)' = t /\ Gone(c)' = h
  <2>1. Sent(c)' = t
    BY <1>1, <1>3, <1>4 DEF Sent
  <2>2. Gone(c)' = t - q - 0
    BY <1>1, <1>4, <1>6, <2>1 DEF Gone
  <2> QED
    BY <1>2, <2>1, <2>2
<1>8. /\ \A i \in 1 .. q : queue[c][i] = s[g + b + i]
      /\ \A i \in 1 .. Len(unsent[c]) : unsent[c][i] = s[t + i]
  BY <1>1, <1>3 DEF Streaming
<1>9. \A i \in 1 .. q : queue[c][i] = s[h + 0 + i]
  BY <1>8
<1>10. Streaming(c)'
  BY <1>1, <1>4, <1>6, <1>7, <1>8, <1>9 DEF Streaming
<1> QED
  BY <1>1, <1>4, <1>5, <1>7, <1>10 DEF Others

LEMMA StreamSame ==
  ASSUME NEW c, UNCHANGED plan, unsent'[c] = unsent[c], queue'[c] = queue[c],
         buffer'[c] = buffer[c]
  PROVE  /\ All(c)' = All(c) /\ Gone(c)' = Gone(c) /\ Sent(c)' = Sent(c)
         /\ Streaming(c) => Streaming(c)'
<1>1. All(c)' = All(c)
  BY AllSame
<1>2. Sent(c)' = Sent(c)
  BY <1>1 DEF Sent
<1>3. Gone(c)' = Gone(c)
  BY <1>2 DEF Gone
<1> QED
  BY <1>1, <1>2, <1>3 DEF Streaming

(* Joined, with names for the lengths.                                     *)
LEMMA JoinedParts ==
  ASSUME NEW s \in Seq(Parts), NEW t \in Seq(Parts), NEW m \in Nat, NEW n \in Nat,
         m = Len(s), n = Len(t), NEW u, u = s \o t
  PROVE  /\ u \in Seq(Parts) /\ Len(u) = m + n
         /\ \A i \in 1 .. m : u[i] = s[i]
         /\ \A i \in 1 .. n : u[m + i] = t[i]
         /\ \A i \in 1 .. m + n : i \in 1 .. m \/ i - m \in 1 .. n
BY Joined

(* Buffer, queue and unsent parts together are the rest of the stream.     *)
LEMMA RestIs ==
  ASSUME Typed, NEW c \in Conns, Streaming(c)
  PROVE  /\ DOMAIN Rest(c) = 1 .. Len(All(c)) - Gone(c)
         /\ \A i \in 1 .. Len(All(c)) - Gone(c) : Rest(c)[i] = All(c)[Gone(c) + i]
<1>1. PICK b \in Nat, q \in Nat, m \in Nat, k \in Nat, g \in Nat, t \in Nat :
        /\ b = Len(buffer[c]) /\ q = Len(queue[c]) /\ m = Len(unsent[c]) /\ k = Len(All(c))
        /\ g = Gone(c) /\ t = Sent(c)
  BY Lengths
<1>2. t = g + b + q /\ k = t + m
  BY <1>1, Lengths
<1>3. PICK s : s = All(c)
  OBVIOUS
<1>4. buffer[c] \in Seq(Parts) /\ queue[c] \in Seq(Parts) /\ unsent[c] \in Seq(Parts)
  BY DEF Typed
<1>5. PICK x, y : x = buffer[c] \o queue[c] /\ y = x \o unsent[c]
  OBVIOUS
<1>6. /\ x \in Seq(Parts) /\ Len(x) = b + q
      /\ \A i \in 1 .. b : x[i] = buffer[c][i]
      /\ \A i \in 1 .. q : x[b + i] = queue[c][i]
      /\ \A i \in 1 .. b + q : i \in 1 .. b \/ i - b \in 1 .. q
  <2>1. PICK y1, z1 : y1 = buffer[c] /\ z1 = queue[c]
    OBVIOUS
  <2>2. b = Len(y1) /\ q = Len(z1) /\ x = y1 \o z1 /\ y1 \in Seq(Parts) /\ z1 \in Seq(Parts)
    BY <1>1, <1>4, <1>5, <2>1
  <2>3. /\ x \in Seq(Parts) /\ Len(x) = b + q
        /\ \A i \in 1 .. b : x[i] = y1[i]
        /\ \A i \in 1 .. q : x[b + i] = z1[i]
        /\ \A i \in 1 .. b + q : i \in 1 .. b \/ i - b \in 1 .. q
    BY <2>2, JoinedParts
  <2> QED
    BY <2>1, <2>3
<1>a. PICK w : w = b + q
  OBVIOUS
<1>7. w \in Nat /\ Len(x) = w
  BY <1>6, <1>a
<1>8. /\ y \in Seq(Parts) /\ Len(y) = w + m
      /\ \A i \in 1 .. w : y[i] = x[i]
      /\ \A i \in 1 .. m : y[w + i] = unsent[c][i]
      /\ \A i \in 1 .. w + m : i \in 1 .. w \/ i - w \in 1 .. m
  <2>1. PICK z : z = unsent[c]
    OBVIOUS
  <2>2. m = Len(z) /\ y = x \o z /\ x \in Seq(Parts) /\ z \in Seq(Parts)
    BY <1>1, <1>4, <1>5, <1>6, <2>1
  <2>3. /\ y \in Seq(Parts) /\ Len(y) = w + m
        /\ \A i \in 1 .. w : y[i] = x[i]
        /\ \A i \in 1 .. m : y[w + i] = z[i]
        /\ \A i \in 1 .. w + m : i \in 1 .. w \/ i - w \in 1 .. m
    <3>1. w \in Nat /\ w = Len(x)
      BY <1>7
    <3> QED
      BY <2>2, <3>1, JoinedParts
  <2> QED
    BY <2>1, <2>3
<1>9. /\ \A i \in 1 .. b : buffer[c][i] = s[g + i]
      /\ \A i \in 1 .. q : queue[c][i] = s[g + b + i]
      /\ \A i \in 1 .. m : unsent[c][i] = s[t + i]
  <2>1. \A i \in 1 .. b : buffer[c][i] = s[g + i]
    BY <1>1, <1>3 DEF Streaming
  <2>2. \A i \in 1 .. q : queue[c][i] = s[g + b + i]
    BY <1>1, <1>3 DEF Streaming
  <2>3. \A i \in 1 .. m : unsent[c][i] = s[t + i]
    BY <1>1, <1>3 DEF Streaming
  <2> QED
    BY <2>1, <2>2, <2>3
<1>10. \A i \in 1 .. w : x[i] = s[g + i]
  <2> SUFFICES ASSUME NEW i \in 1 .. w PROVE x[i] = s[g + i]
    OBVIOUS
  <2>1. CASE i \in 1 .. b
    BY <1>6, <1>9, <2>1
  <2>2. CASE i - b \in 1 .. q
    <3>1. i - b \in 1 .. q /\ b + (i - b) = i /\ g + b + (i - b) = g + i
      BY <1>1, <1>7, <1>a, <2>2
    <3>2. PICK j \in 1 .. q : b + j = i /\ g + b + j = g + i
      BY <3>1
    <3>3. x[i] = queue[c][j]
      BY <1>6, <3>2
    <3>4. queue[c][j] = s[g + i]
      BY <1>9, <3>2
    <3> QED
      BY <3>3, <3>4
  <2> QED
    BY <1>6, <1>a, <2>1, <2>2
<1>11. \A i \in 1 .. w + m : y[i] = s[g + i]
  <2> SUFFICES ASSUME NEW i \in 1 .. w + m PROVE y[i] = s[g + i]
    OBVIOUS
  <2>1. CASE i \in 1 .. w
    BY <1>8, <1>10, <2>1
  <2>2. CASE i - w \in 1 .. m
    <3>1. i - w \in 1 .. m /\ w + (i - w) = i /\ t + (i - w) = g + i
      BY <1>2, <1>7, <1>a, <2>2
    <3>2. PICK j \in 1 .. m : w + j = i /\ t + j = g + i
      BY <3>1
    <3>3. y[i] = unsent[c][j]
      BY <1>8, <3>2
    <3>4. unsent[c][j] = s[g + i]
      BY <1>9, <3>2
    <3> QED
      BY <3>3, <3>4
  <2> QED
    BY <1>8, <2>1, <2>2
<1>12. Rest(c) = y
  BY <1>5 DEF Rest
<1>13. DOMAIN y = 1 .. k - g /\ w + m = k - g
  <2>1. DOMAIN y = 1 .. w + m
    BY <1>8, LenProperties
  <2>2. w + m = k - g
    BY <1>2, <1>7, <1>a
  <2> QED
    BY <2>1, <2>2
<1> QED
  BY <1>1, <1>3, <1>11, <1>12, <1>13

(* So HeaderRead and Unread are about what is still to come of the stream. *)
LEMMA UnreadIs ==
  ASSUME Typed, NEW c \in Conns, Streaming(c)
  PROVE  /\ HeaderRead(c) <=> Passed(c)
         /\ Unread(c) = {} <=>
              \A i \in Gone(c) + 1 .. Len(All(c)) : All(c)[i].req # handled[c]
         /\ Cardinality(Unread(c)) \in Nat
         /\ Cardinality(Unread(c)) = 0 <=> Unread(c) = {}
<1>1. PICK k \in Nat, g \in Nat : k = Len(All(c)) /\ g = Gone(c) /\ g <= k
  <2>1. PICK b \in Nat, q \in Nat, m \in Nat, k \in Nat, g \in Nat, t \in Nat :
        /\ b = Len(buffer[c]) /\ q = Len(queue[c]) /\ m = Len(unsent[c]) /\ k = Len(All(c))
        /\ g = Gone(c) /\ t = Sent(c)
    BY Lengths
  <2>2. t = g + b + q /\ k = t + m
    BY <2>1, Lengths
  <2>3. g <= k
    BY <2>2
  <2> QED
    BY <2>1, <2>3
<1>2. PICK s, r : s = All(c) /\ r = Rest(c)
  OBVIOUS
<1>3. DOMAIN r = 1 .. k - g /\ \A i \in 1 .. k - g : r[i] = s[g + i]
  BY <1>1, <1>2, RestIs
<1>4. Unread(c) = {i \in 1 .. k - g : r[i].req = handled[c]}
  BY <1>2, <1>3 DEF Unread
<1>5. /\ \A i \in 1 .. k - g : g + i \in g + 1 .. k
      /\ \A i \in g + 1 .. k : i - g \in 1 .. k - g /\ g + (i - g) = i
  BY <1>1
<1>6. \A i \in g + 1 .. k : r[i - g] = s[i]
  BY <1>3, <1>5
<1>7. HeaderRead(c) <=> \A i \in 1 .. k - g : ~(r[i].req = handled[c] /\ r[i].what = "header")
  BY <1>2, <1>4 DEF HeaderRead
<1>8. HeaderRead(c) <=> Passed(c)
  <2>1. Passed(c) <=> \A i \in g + 1 .. k : ~(s[i].req = handled[c] /\ s[i].what = "header")
    BY <1>1, <1>2 DEF Passed
  <2> QED
    BY <1>3, <1>5, <1>6, <1>7, <2>1
<1>9. Unread(c) = {} <=> \A i \in g + 1 .. k : s[i].req # handled[c]
  BY <1>3, <1>4, <1>5, <1>6
<1>10. IsFiniteSet(Unread(c))
  <2>1. IsFiniteSet(1 .. k - g)
    BY <1>1, FS_Interval
  <2> QED
    BY <1>4, <2>1, FS_Subset
<1>11. Cardinality(Unread(c)) \in Nat /\ (Cardinality(Unread(c)) = 0 <=> Unread(c) = {})
  BY <1>10, FS_CardinalityType, FS_EmptySet
<1> QED
  BY <1>1, <1>2, <1>8, <1>9, <1>11

-----------------------------------------------------------------------------
(* What a step of one connection leaves alone, and how a request goes on.  *)

(* Nothing happens to a connection, or to none but c.                      *)
Same(d) ==
  /\ unsent'[d] = unsent[d] /\ queue'[d] = queue[d] /\ buffer'[d] = buffer[d]
  /\ fin'[d] = fin[d] /\ at'[d] = at[d] /\ left'[d] = left[d] /\ handled'[d] = handled[d]
  /\ status'[d] = status[d] /\ hangup'[d] = hangup[d] /\ replies'[d] = replies[d]
  /\ astray'[d] = astray[d] /\ cause'[d] = cause[d]

Elsewhere(c) == plan' = plan /\ \A d \in Conns : d # c => Same(d)

LEMMA RequestSame ==
  ASSUME NEW c, plan' = plan, handled'[c] = handled[c]
  PROVE  Request(c)' = Request(c)
BY DEF Request

(* Then it keeps its invariant.                                            *)
LEMMA SameInv ==
  ASSUME NEW c, plan' = plan, Same(c), ConnInv(c)
  PROVE  ConnInv(c)'
<1>1. All(c)' = All(c) /\ Gone(c)' = Gone(c) /\ Sent(c)' = Sent(c) /\ Streaming(c)'
  BY StreamSame DEF Same, ConnInv
<1>2. Request(c)' = Request(c)
  BY RequestSame DEF Same
<1>3. Ordered(c)'
  BY <1>1 DEF Ordered, To, Same, ConnInv
<1>4. Passed(c)' = Passed(c)
  BY <1>1 DEF Passed, Same
<1>5. Announced(c)'
  BY <1>2, <1>4 DEF Announced, AsksToClose, Same, ConnInv
<1>6. Ranged(c)'
  BY <1>2 DEF Ranged, PartialReply, Same, ConnInv
<1>7. AllRead(c)' = AllRead(c) /\ Fresh(c)' = Fresh(c)
  BY <1>1 DEF AllRead, Fresh, Same
<1>8. InStep(c)' = InStep(c)
  BY <1>1, <1>2, <1>7 DEF InStep, To, ExpectContent, Same
<1>9. InTurn(c)'
  BY <1>1, <1>8 DEF InTurn, Same, ConnInv
<1> QED
  BY <1>1, <1>3, <1>5, <1>6, <1>9 DEF ConnInv

(* The numbers of the requests along the stream.                           *)
LEMMA Along ==
  ASSUME Typed, NEW c \in Conns
  PROVE  /\ Len(All(c)) \in Nat /\ Len(plan[c].requests) \in Nat
         /\ \A i \in 1 .. Len(All(c)) :
              All(c)[i].req \in 1 .. Len(plan[c].requests) /\ All(c)[i].what \in Kinds
         /\ \A i, j \in 1 .. Len(All(c)) : i <= j => All(c)[i].req <= All(c)[j].req
         /\ Len(All(c)) > 0 => All(c)[1].what = "line" /\ All(c)[1].req = 1
         /\ \A i \in 1 .. Len(All(c)) - 1 :
              \/ All(c)[i + 1].what = "line" /\ All(c)[i + 1].req = All(c)[i].req + 1
              \/ /\ All(c)[i + 1].what # "line" /\ All(c)[i + 1].req = All(c)[i].req
                 /\ All(c)[i + 1].what = "header" => All(c)[i].what = "line"
<1>1. PICK n \in Nat : n = Len(plan[c].requests)
  BY PlanShape, LenProperties DEF Typed
<1>2. PICK s : s = All(c) /\ Shape(s, n)
  BY <1>1, PlanShape DEF Typed
<1>3. PICK k \in Nat : k = Len(s)
  BY <1>2, LenProperties DEF Shape
<1>4. \A i \in 1 .. k : s[i] \in [req : 1 .. n, what : Kinds]
  BY <1>2, <1>3, ElementOfSeq DEF Shape
<1>5. \A i \in 1 .. k : s[i].req \in 1 .. n /\ s[i].what \in Kinds
  BY <1>4
<1>6. \A i, j \in 1 .. k : i < j => s[i].req <= s[j].req
  BY <1>2, <1>3 DEF Shape
<1>7. ASSUME NEW i \in 1 .. k, NEW j \in 1 .. k, i <= j PROVE s[i].req <= s[j].req
  <2>1. s[i].req \in 1 .. n
    BY <1>5
  <2>2. CASE i = j
    BY <2>1, <2>2
  <2>3. CASE i # j
    BY <1>6, <1>7, <2>3
  <2> QED
    BY <2>2, <2>3
<1>8. k > 0 => s[1].what = "line" /\ s[1].req = 1
  BY <1>2, <1>3 DEF Shape
<1>9. \A i \in 1 .. k - 1 :
        \/ s[i + 1].what = "line" /\ s[i + 1].req = s[i].req + 1
        \/ /\ s[i + 1].what # "line" /\ s[i + 1].req = s[i].req
           /\ s[i + 1].what = "header" => s[i].what = "line"
  BY <1>2, <1>3 DEF Shape
<1> QED
  BY <1>1, <1>2, <1>3, <1>5, <1>7, <1>8, <1>9

(* Where the server is in what it is sent.                                 *)
LEMMA Positions ==
  ASSUME Typed, NEW c \in Conns, Streaming(c)
  PROVE  /\ Gone(c) \in Nat /\ Sent(c) \in Nat /\ Len(All(c)) \in Nat
         /\ Gone(c) <= Sent(c) /\ Sent(c) <= Len(All(c))
<1>1. PICK b \in Nat, q \in Nat, m \in Nat, k \in Nat, g \in Nat, t \in Nat :
      /\ b = Len(buffer[c]) /\ q = Len(queue[c]) /\ m = Len(unsent[c]) /\ k = Len(All(c))
      /\ g = Gone(c) /\ t = Sent(c)
  BY Lengths
<1>2. t = g + b + q /\ k = t + m
  BY <1>1, Lengths
<1>3. g <= t /\ t <= k
  BY <1>2
<1> QED
  BY <1>1, <1>3

(* The connection goes on with its request, having read n parts more.      *)
Forward(c) ==
  /\ plan' = plan /\ fin'[c] = fin[c] /\ left'[c] = left[c] /\ handled'[c] = handled[c]
  /\ replies'[c] = replies[c] /\ astray'[c] = astray[c] /\ cause'[c] = cause[c]
  /\ at[c] \in Exchanging \ {"reply"} /\ at'[c] \in Exchanging

(* What has been found out about its request where it goes.                *)
Decided(c) ==
  /\ at'[c] = "headers" => at[c] = "headers"
  /\ hangup'[c] =>
       /\ at'[c] \in {"route", "content", "handler", "reply"}
       /\ Request(c).line = "good" /\ AsksToClose(Request(c)) /\ Passed(c)'
  /\ at'[c] \in {"route", "content", "handler"} => ParseRangeHeader(Request(c).ranges)
  /\ at'[c] = "reply" /\ status'[c] = 206 => ParseRangeHeader(Request(c).ranges)
  /\ plan[c].polite /\ InStep(c) /\ at'[c] = "handler" => ~ExpectContent(Request(c))
  /\ /\ plan[c].polite /\ InStep(c) /\ at'[c] = "reply" /\ ExpectContent(Request(c))
     /\ status'[c] \notin {400, 414, 415, 416}
     => AllRead(c)'

(* Such a step keeps the invariant of its connection.                      *)
LEMMA ForwardInv ==
  ASSUME Typed, NEW c \in Conns, ConnInv(c), Forward(c), Decided(c), Streaming(c)',
         NEW n \in Nat, Gone(c)' = Gone(c) + n, Sent(c)' = Sent(c), Gone(c) + n <= Sent(c)
  PROVE  ConnInv(c)'
<1>1. PICK s : s = All(c)
  OBVIOUS
<1>2. plan' = plan /\ All(c)' = s
  BY <1>1, AllSame DEF Forward
<1>3. PICK g \in Nat, t \in Nat, k \in Nat : g = Gone(c) /\ t = Sent(c) /\ k = Len(s)
  BY <1>1, Positions DEF ConnInv
<1>4. PICK h \in Nat : h = g + n
  OBVIOUS
<1>5. Gone(c)' = h /\ Sent(c)' = t /\ g <= h /\ h <= t /\ t <= k
  <2>1. t <= k
    BY <1>1, <1>3, Positions DEF ConnInv
  <2> QED
    BY <1>3, <1>4, <2>1
<1>6. /\ \A i \in 1 .. k : s[i].req \in Nat
      /\ \A i, j \in 1 .. k : i <= j => s[i].req <= s[j].req
  <2>1. PICK m \in Nat : \A i \in 1 .. k : s[i].req \in 1 .. m
    BY <1>1, <1>3, Along
  <2>2. \A i, j \in 1 .. k : i <= j => s[i].req <= s[j].req
    BY <1>1, <1>3, Along
  <2> QED
    BY <2>1, <2>2
<1>7. PICK r : r = Request(c)
  OBVIOUS
<1>8. Request(c)' = r
  BY <1>7, RequestSame DEF Forward
<1>9. handled[c] # 0 /\ handled[c] \in Nat /\ g >= 1 /\ handled[c] <= s[g].req
  BY <1>1, <1>3 DEF Typed, ConnInv, Ordered, Forward
<1>10. /\ h >= 1 /\ h \in 1 .. k /\ g \in 1 .. k /\ s[g].req <= s[h].req
       /\ s[g].req \in Nat /\ s[h].req \in Nat
  <2>1. h >= 1 /\ h \in 1 .. k /\ g \in 1 .. k
    BY <1>3, <1>4, <1>5, <1>9
  <2> QED
    BY <1>5, <1>6, <2>1
<1>11. Ordered(c)'
  <2>1. \A i \in 1 .. Len(replies[c]) : To(c, i) \in Nat /\ To(c, i)' = To(c, i)
    BY DEF ConnInv, Ordered, To, Forward
  <2>2. \A i \in 1 .. Len(replies[c]) : To(c, i) # 0 => To(c, i) <= s[h].req
    <3>1. \A i \in 1 .. Len(replies[c]) : To(c, i) # 0 => To(c, i) <= s[g].req
      BY <1>1, <1>3 DEF ConnInv, Ordered
    <3> QED
      BY <1>10, <2>1, <3>1
  <2>3. handled[c] <= s[h].req
    BY <1>9, <1>10
  <2>4. \A i \in 1 .. Len(replies[c]) : To(c, i) < handled[c]
    BY <1>9 DEF ConnInv, Ordered, Forward
  <2>5. \A i, j \in 1 .. Len(replies[c]) :
          i < j /\ To(c, i) # 0 /\ To(c, j) # 0 => To(c, i) < To(c, j)
    BY DEF ConnInv, Ordered
  <2>6. at'[c] \notin {"line", "junk"} /\ replies'[c] = replies[c] /\ handled'[c] = handled[c]
    BY DEF Forward, Exchanging
  <2> QED
    BY <1>2, <1>5, <1>9, <1>10, <2>1, <2>2, <2>3, <2>4, <2>5, <2>6 DEF Ordered, To
<1>12. Announced(c)'
  <2>1. left'[c] >= 1
    BY DEF Forward, ConnInv, Announced, Exchanging
  <2>2. at'[c] = "headers" => r.line = "good"
    BY <1>7 DEF ConnInv, Announced, Decided
  <2>3. hangup'[c] =>
          /\ at'[c] \in {"route", "content", "handler", "reply"}
          /\ handled'[c] # 0 /\ r.line = "good" /\ AsksToClose(r) /\ Passed(c)'
    BY <1>7, <1>9 DEF Forward, Decided
  <2>4. cause'[c] \notin {"asked", "limit"}
    BY DEF Forward, ConnInv, Announced, Exchanging
  <2> QED
    BY <1>8, <2>1, <2>2, <2>3, <2>4 DEF Announced, AsksToClose
<1>13. Ranged(c)'
  <2>1. at'[c] \in {"route", "content", "handler"} => ParseRangeHeader(r.ranges)
    BY <1>7 DEF Decided
  <2>2. at'[c] = "reply" /\ status'[c] = 206 => handled'[c] # 0 /\ ParseRangeHeader(r.ranges)
    BY <1>7, <1>9 DEF Decided, Forward
  <2>3. \A i \in 1 .. Len(replies[c]) :
          replies[c][i].status = 206 => PartialReply(c, replies[c][i])
    BY DEF ConnInv, Ranged
  <2>4. plan' = plan /\ replies'[c] = replies[c]
    BY DEF Forward
  <2>5. (\A i \in 1 .. Len(replies[c]) :
           replies[c][i].status = 206 => PartialReply(c, replies[c][i]))'
    BY <2>3, <2>4 DEF PartialReply
  <2> QED
    BY <1>8, <2>1, <2>2, <2>5 DEF Ranged
<1>14. InTurn(c)'
  <2> SUFFICES ASSUME plan[c].polite
               PROVE  /\ \A i \in h + 1 .. t : s[i].req <= Len(replies[c]) + 1
                      /\ ~astray[c] => InStep(c)'
    BY <1>2, <1>5 DEF InTurn, Forward
  <2>1. \A i \in g + 1 .. t : s[i].req <= Len(replies[c]) + 1
    BY <1>1, <1>3 DEF ConnInv, InTurn
  <2>2. \A i \in h + 1 .. t : i \in g + 1 .. t
    BY <1>5
  <2> SUFFICES ASSUME ~astray[c] PROVE InStep(c)'
    BY <2>1, <2>2
  <2>3. InStep(c)
    BY DEF ConnInv, InTurn
  <2>4. handled[c] = Len(replies[c]) + 1 /\ s[g].req = handled[c]
    BY <1>1, <1>3, <2>3 DEF InStep, Forward
  <2>5. s[h].req = handled[c]
    <3>1. CASE h = g
      BY <2>4, <3>1
    <3>2. CASE h # g
      <4>1. h \in g + 1 .. t
        BY <1>5, <3>2
      <4>2. s[h].req <= handled[c]
        BY <2>1, <2>4, <4>1
      <4> QED
        BY <1>9, <1>10, <2>4, <4>2
    <3> QED
      BY <3>1, <3>2
  <2>6. at'[c] = "handler" => ~ExpectContent(r)
    BY <1>7, <2>3 DEF Decided
  <2>7. /\ at'[c] = "reply" /\ ExpectContent(r) /\ status'[c] \notin {400, 414, 415, 416}
        => AllRead(c)'
    BY <1>7, <2>3 DEF Decided
  <2>8. \A i \in 1 .. Len(replies[c]) : To(c, i) = i
    BY <2>3 DEF InStep
  <2> QED
    BY <1>2, <1>5, <1>8, <1>10, <2>4, <2>5, <2>6, <2>7, <2>8
       DEF InStep, To, ExpectContent, Forward, Exchanging
<1> QED
  BY <1>11, <1>12, <1>13, <1>14 DEF ConnInv

-----------------------------------------------------------------------------
(* Steps that do not read.                                                 *)

LEMMA TypedStill ==
  ASSUME Typed, UNCHANGED client, UNCHANGED <<fin, left, handled, replies, astray, cause>>,
         at' \in [Conns -> Places], status' \in [Conns -> Statuses],
         hangup' \in [Conns -> BOOLEAN],
         queue' \in [Conns -> Seq(Parts)], buffer' \in [Conns -> Seq(Parts)]
  PROVE  Typed'
<1>1. \E S : replies' \in [Conns -> Seq(S)]
  BY DEF Typed
<1> QED
  BY <1>1 DEF Typed, client

(* The connection goes somewhere, or its request gets an answer.           *)
LEMMA Went ==
  ASSUME Typed, NEW c \in Conns, NEW p \in Places, Goto(c, p)
  PROVE  at' \in [Conns -> Places] /\ at'[c] = p /\ \A d \in Conns : d # c => at'[d] = at[d]
BY DEF Typed, Goto

LEMMA Answered ==
  ASSUME Typed, NEW c \in Conns, NEW s \in Statuses, Answer(c, s)
  PROVE  /\ at' \in [Conns -> Places] /\ at'[c] = "reply"
         /\ \A d \in Conns : d # c => at'[d] = at[d] /\ status'[d] = status[d]
         /\ status' \in [Conns -> Statuses] /\ status'[c] = s
<1>1. Goto(c, "reply") /\ status' = [status EXCEPT ![c] = s]
  BY DEF Answer
<1>2. "reply" \in Places
  BY DEF Places
<1>3. /\ status' \in [Conns -> Statuses] /\ status'[c] = s
      /\ \A d \in Conns : d # c => status'[d] = status[d]
  BY <1>1 DEF Typed
<1> QED
  BY <1>1, <1>2, <1>3, Went

(* What a step of a request does to its connection's place and status.     *)
Proceeds(c, p) ==
  /\ at' \in [Conns -> Places] /\ at'[c] = p
  /\ status' \in [Conns -> Statuses]
  /\ \A d \in Conns : d # c => at'[d] = at[d] /\ status'[d] = status[d]

LEMMA Dispatched ==
  ASSUME Typed, NEW c \in Conns, Dispatch(c)
  PROVE  \/ Proceeds(c, "handler") /\ ~ExpectContent(Request(c))
         \/ Proceeds(c, "reply") /\ status'[c] \in {400, 404}
<1>1. CASE HasHandler(Request(c))
  <2>1. Goto(c, "handler") /\ status' = status /\ "handler" \in Places
    BY <1>1 DEF Dispatch, Places
  <2>2. ~ExpectContent(Request(c))
    BY <1>1 DEF HasHandler, ExpectContent
  <2> QED
    BY <2>1, <2>2, Went DEF Proceeds, Typed
<1>2. CASE ~HasHandler(Request(c))
  <2>1. PICK s \in {400, 404} : Answer(c, s)
    BY <1>2 DEF Dispatch
  <2> QED
    BY <2>1, Answered DEF Proceeds, Statuses
<1> QED
  BY <1>1, <1>2

(* A step of a request that does not read.                                 *)
LEMMA Stays ==
  ASSUME Typed, NEW c \in Conns, ConnInv(c), NEW p \in Exchanging, Proceeds(c, p),
         at[c] \in Exchanging \ {"reply"},
         UNCHANGED <<client, fin, stream, left, handled, hangup, replies, history>>,
         Decided(c)
  PROVE  Typed' /\ ConnInv(c)' /\ Elsewhere(c)
<1>1. UNCHANGED <<plan, unsent, queue, buffer, fin, left, handled, hangup, replies, astray, cause>>
  BY DEF client, stream, history
<1>2. Typed'
  BY <1>1, TypedStill DEF Proceeds, Typed, client
<1>3. Streaming(c)' /\ Gone(c)' = Gone(c) /\ Sent(c)' = Sent(c)
  BY <1>1, StreamSame DEF ConnInv
<1>4. Gone(c) \in Nat /\ Gone(c) <= Sent(c)
  BY Positions DEF ConnInv
<1>5. Forward(c)
  BY <1>1 DEF Forward, Proceeds
<1>6. Gone(c)' = Gone(c) + 0 /\ Gone(c) + 0 <= Sent(c) /\ 0 \in Nat
  BY <1>3, <1>4
<1>7. ConnInv(c)'
  BY <1>3, <1>5, <1>6, ForwardInv
<1>8. Elsewhere(c)
  BY <1>1 DEF Elsewhere, Same, Proceeds
<1> QED
  BY <1>2, <1>7, <1>8

(* The server reads on.                                                    *)
LEMMA PassedStill ==
  ASSUME NEW c, plan' = plan, handled' = handled, Passed(c), Gone(c) \in Nat,
         NEW n \in Nat, Gone(c)' = Gone(c) + n
  PROVE  Passed(c)'
<1>1. All(c)' = All(c)
  BY AllSame
<1>2. \A i : i \in Gone(c) + n + 1 .. Len(All(c)) => i \in Gone(c) + 1 .. Len(All(c))
  OBVIOUS
<1> QED
  BY <1>1, <1>2 DEF Passed

(* A request that has asked to close has had its headers read.             *)
LEMMA HangupStays ==
  ASSUME Typed, NEW c \in Conns, ConnInv(c), NEW n \in Nat, Gone(c)' = Gone(c) + n,
         plan' = plan, handled' = handled, hangup' = hangup
  PROVE  hangup'[c] =>
           /\ at[c] \in {"route", "content", "handler", "reply", "closing", "closed"}
           /\ Request(c).line = "good" /\ AsksToClose(Request(c)) /\ Passed(c)'
<1>1. hangup[c] =>
        /\ at[c] \in {"route", "content", "handler", "reply", "closing", "closed"}
        /\ Request(c).line = "good" /\ AsksToClose(Request(c)) /\ Passed(c)
  BY DEF ConnInv, Announced
<1>2. Gone(c) \in Nat
  BY Positions DEF ConnInv
<1> QED
  BY <1>1, <1>2, PassedStill

(* The steps of a request that do not read.                                *)
LEMMA HeadersMissingInv ==
  ASSUME Typed, NEW c \in Conns, ConnInv(c), HeadersMissing(c)
  PROVE  Typed' /\ ConnInv(c)' /\ Elsewhere(c)
<1>1. PICK s \in {400, 414} : at[c] \in {"headers", "drain"} /\ Answer(c, s)
  BY DEF HeadersMissing
<1>2. UNCHANGED <<client, fin, stream, left, handled, hangup, replies, history>>
  BY DEF HeadersMissing
<1>3. Proceeds(c, "reply") /\ status'[c] = s /\ at'[c] = "reply"
  BY <1>1, Answered DEF Proceeds, Statuses
<1>4. ~hangup'[c]
  BY <1>1, <1>2 DEF ConnInv, Announced
<1>5. Decided(c)
  BY <1>1, <1>3, <1>4 DEF Decided
<1>6. at[c] \in Exchanging \ {"reply"} /\ "reply" \in Exchanging
  BY <1>1 DEF Exchanging
<1> QED
  BY <1>2, <1>3, <1>5, <1>6, Stays

LEMMA RouteInv ==
  ASSUME Typed, NEW c \in Conns, ConnInv(c), Route(c)
  PROVE  Typed' /\ ConnInv(c)' /\ Elsewhere(c)
<1>1. at[c] = "route" /\ UNCHANGED <<client, fin, stream, left, handled, hangup, replies, history>>
  BY DEF Route
<1>2. UNCHANGED <<plan, handled, hangup>> /\ Gone(c)' = Gone(c) /\ Gone(c) \in Nat
  BY <1>1, StreamSame, Positions DEF client, stream, ConnInv
<1>3. Gone(c)' = Gone(c) + 0
  BY <1>2
<1>4. hangup'[c] => Request(c).line = "good" /\ AsksToClose(Request(c)) /\ Passed(c)'
  BY <1>2, <1>3, HangupStays
<1>5. ParseRangeHeader(Request(c).ranges)
  BY <1>1 DEF ConnInv, Ranged
<1>6. \/ Proceeds(c, "handler") /\ ~ExpectContent(Request(c))
      \/ /\ Proceeds(c, "reply")
         /\ status'[c] = 415 \/ (~ExpectContent(Request(c)) /\ status'[c] # 206)
      \/ Proceeds(c, "content")
  <2>1. CASE ~ExpectContent(Request(c))
    <3>1. Dispatch(c)
      BY <2>1 DEF Route
    <3> QED
      BY <2>1, <3>1, Dispatched
  <2>2. CASE Answer(c, 415)
    BY <2>2, Answered DEF Proceeds, Statuses
  <2>3. CASE Goto(c, "content") /\ UNCHANGED status
    <3>1. "content" \in Places
      BY DEF Places
    <3> QED
      BY <2>3, <3>1, Went DEF Proceeds, Typed
  <2> QED
    BY <2>1, <2>2, <2>3 DEF Route
<1>7. PICK p \in {"handler", "reply", "content"} : Proceeds(c, p)
  BY <1>6
<1>8. at'[c] = p
  BY <1>7 DEF Proceeds
<1>9. Decided(c)
  BY <1>1, <1>4, <1>5, <1>6, <1>7, <1>8 DEF Decided, Proceeds
<1>10. at[c] \in Exchanging \ {"reply"} /\ p \in Exchanging
  BY <1>1 DEF Exchanging
<1> QED
  BY <1>1, <1>7, <1>9, <1>10, Stays

LEMMA HandlerInv ==
  ASSUME Typed, NEW c \in Conns, ConnInv(c), Handler(c)
  PROVE  Typed' /\ ConnInv(c)' /\ Elsewhere(c)
<1>1. /\ at[c] = "handler"
      /\ UNCHANGED <<client, fin, stream, left, handled, hangup, replies, history>>
  BY DEF Handler
<1>2. UNCHANGED <<plan, handled, hangup>> /\ Gone(c)' = Gone(c) /\ Gone(c) \in Nat
  BY <1>1, StreamSame, Positions DEF client, stream, ConnInv
<1>3. Gone(c)' = Gone(c) + 0
  BY <1>2
<1>4. hangup'[c] => Request(c).line = "good" /\ AsksToClose(Request(c)) /\ Passed(c)'
  BY <1>2, <1>3, HangupStays
<1>5. ParseRangeHeader(Request(c).ranges)
  BY <1>1 DEF ConnInv, Ranged
<1>6. PICK s \in {200, 206, 500} : Answer(c, s)
  BY DEF Handler
<1>7. Proceeds(c, "reply") /\ at'[c] = "reply"
  BY <1>6, Answered DEF Proceeds, Statuses
<1>8. InStep(c) => ~ExpectContent(Request(c))
  BY <1>1 DEF InStep
<1>9. Decided(c)
  BY <1>4, <1>5, <1>7, <1>8 DEF Decided
<1>10. at[c] \in Exchanging \ {"reply"} /\ "reply" \in Exchanging
  BY <1>1 DEF Exchanging
<1> QED
  BY <1>1, <1>7, <1>9, <1>10, Stays

LEMMA ContentEndsInv ==
  ASSUME Typed, NEW c \in Conns, ConnInv(c), ContentEnds(c)
  PROVE  Typed' /\ ConnInv(c)' /\ Elsewhere(c)
<1>1. /\ at[c] = "content"
      /\ UNCHANGED <<client, fin, stream, left, handled, hangup, replies, history>>
  BY DEF ContentEnds
<1>2. /\ UNCHANGED <<plan, handled, hangup, fin>> /\ Gone(c)' = Gone(c) /\ Sent(c)' = Sent(c)
      /\ All(c)' = All(c) /\ Gone(c) \in Nat
  BY <1>1, StreamSame, Positions, AllSame DEF client, stream, ConnInv
<1>3. Gone(c)' = Gone(c) + 0
  BY <1>2
<1>4. hangup'[c] => Request(c).line = "good" /\ AsksToClose(Request(c)) /\ Passed(c)'
  BY <1>2, <1>3, HangupStays
<1>5. ParseRangeHeader(Request(c).ranges)
  BY <1>1 DEF ConnInv, Ranged
<1>6. CASE Answer(c, 400)
  <2>1. Proceeds(c, "reply") /\ at'[c] = "reply" /\ status'[c] = 400
    BY <1>6, Answered DEF Proceeds, Statuses
  <2>2. Decided(c)
    BY <1>4, <1>5, <2>1 DEF Decided
  <2>3. at[c] \in Exchanging \ {"reply"} /\ "reply" \in Exchanging
    BY <1>1 DEF Exchanging
  <2> QED
    BY <1>1, <2>1, <2>2, <2>3, Stays
<1>7. CASE ContentRead(c) /\ (Pending(c) = 0 \/ (fin[c] /\ NoInput(c)))
  <2>1. AllRead(c)
    <3>1. CASE Pending(c) = 0
      <4>1. Len(Available(c)) \in Nat
        BY AvailableIs DEF ConnInv
      <4>2. Cardinality(Unread(c)) = 0
        BY <3>1, <4>1 DEF Pending
      <4>3. Unread(c) = {}
        BY <4>2, UnreadIs DEF ConnInv
      <4> QED
        BY <4>3, UnreadIs DEF AllRead, ConnInv
    <3>2. CASE fin[c] /\ NoInput(c)
      <4>1. Gone(c) = Sent(c)
        BY <3>2, AvailableIs DEF ConnInv
      <4> QED
        BY <3>2, <4>1 DEF AllRead
    <3> QED
      BY <1>7, <3>1, <3>2
  <2>2. AllRead(c)'
    BY <1>2, <2>1 DEF AllRead
  <2>3. \/ Proceeds(c, "handler") /\ ~ExpectContent(Request(c))
        \/ Proceeds(c, "reply") /\ status'[c] \in {400, 404, 413}
    <3>1. CASE Answer(c, 413)
      BY <3>1, Answered DEF Proceeds, Statuses
    <3>2. CASE Dispatch(c)
      BY <3>2, Dispatched
    <3> QED
      BY <1>7, <3>1, <3>2 DEF ContentRead
  <2>4. PICK p \in {"handler", "reply"} : Proceeds(c, p)
    BY <2>3
  <2>5. at'[c] = p
    BY <2>4 DEF Proceeds
  <2>6. Decided(c)
    BY <1>1, <1>4, <1>5, <2>2, <2>3, <2>4, <2>5 DEF Decided, Proceeds
  <2>7. at[c] \in Exchanging \ {"reply"} /\ p \in Exchanging
    BY <1>1 DEF Exchanging
  <2> QED
    BY <1>1, <2>4, <2>6, <2>7, Stays
<1> QED
  BY <1>6, <1>7 DEF ContentEnds

-----------------------------------------------------------------------------
(* Steps that read.                                                        *)

(* A step of a request that has read n parts.                              *)
LEMMA Reads ==
  ASSUME Typed, NEW c \in Conns, ConnInv(c), NEW p \in Exchanging, Proceeds(c, p),
         at[c] \in Exchanging \ {"reply"}, NEW n \in 1 .. Len(Available(c)), Take(c, n),
         UNCHANGED <<client, fin, left, handled, replies, history>>,
         hangup' \in [Conns -> BOOLEAN], \A d \in Conns : d # c => hangup'[d] = hangup[d],
         Decided(c)
  PROVE  Typed' /\ ConnInv(c)' /\ Elsewhere(c)
<1>1. UNCHANGED <<plan, unsent, fin, left, handled, replies, astray, cause>>
  BY DEF client, history
<1>2. Streaming(c)
  BY DEF ConnInv
<1>3. /\ queue' \in [Conns -> Seq(Parts)] /\ buffer' \in [Conns -> Seq(Parts)] /\ Others(c)
      /\ Streaming(c)' /\ Gone(c)' = Gone(c) + n /\ Sent(c)' = Sent(c)
  BY <1>2, TakeMoves
<1>4. Typed'
  BY <1>1, <1>3, TypedStill DEF Proceeds
<1>5. n \in Nat /\ Gone(c) + n <= Sent(c)
  <2>1. PICK a \in Nat : a = Len(Available(c)) /\ a <= Sent(c) - Gone(c)
    BY <1>2, AvailableIs
  <2>2. PICK g \in Nat, t \in Nat : g = Gone(c) /\ t = Sent(c)
    BY <1>2, Positions
  <2> QED
    BY <2>1, <2>2
<1>6. Forward(c)
  BY <1>1 DEF Forward, Proceeds
<1>7. ConnInv(c)'
  BY <1>3, <1>5, <1>6, ForwardInv
<1>8. Elsewhere(c)
  BY <1>1, <1>3 DEF Elsewhere, Same, Proceeds, Others
<1> QED
  BY <1>4, <1>7, <1>8

(* The steps of a request that read.                                       *)
LEMMA ReadContentInv ==
  ASSUME Typed, NEW c \in Conns, ConnInv(c), ReadContent(c)
  PROVE  Typed' /\ ConnInv(c)' /\ Elsewhere(c)
<1>1. /\ at[c] = "content" /\ Pending(c) > 0 /\ ~NoInput(c)
      /\ UNCHANGED <<client, fin, left, handled, hangup, replies, history>>
  BY DEF ReadContent
<1>2. PICK a \in Nat : a = Len(Available(c)) /\ a # 0
  BY <1>1, AvailableIs DEF ConnInv
<1>3. PICK n \in 1 .. a : Take(c, n)
  <2>1. PICK m : m = Pending(c)
    OBVIOUS
  <2>2. m \in Nat /\ m # 0
    <3>1. Cardinality(Unread(c)) \in Nat
      BY UnreadIs DEF ConnInv
    <3>2. m \in Nat
      BY <1>2, <2>1, <3>1 DEF Pending
    <3> QED
      BY <1>1, <2>1, <3>2
  <2>3. Min({m, a}) \in 1 .. a
    BY <1>2, <2>2, MinOfTwo
  <2>4. CASE Take(c, 1)
    BY <1>2, <2>4
  <2>5. CASE Take(c, Min({m, a}))
    BY <2>3, <2>5
  <2> QED
    BY <1>2, <2>1, <2>4, <2>5 DEF ReadContent
<1>4. Gone(c)' = Gone(c) + n /\ n \in Nat /\ UNCHANGED <<plan, handled, hangup>>
  BY <1>1, <1>2, <1>3, TakeMoves DEF ConnInv, client
<1>5. hangup'[c] => Request(c).line = "good" /\ AsksToClose(Request(c)) /\ Passed(c)'
  BY <1>4, HangupStays
<1>6. ParseRangeHeader(Request(c).ranges)
  BY <1>1 DEF ConnInv, Ranged
<1>7. \/ Proceeds(c, "reply") /\ status'[c] = 400
      \/ Proceeds(c, "content")
  <2>1. CASE Answer(c, 400)
    BY <2>1, Answered DEF Proceeds, Statuses
  <2>2. CASE UNCHANGED <<at, status>>
    BY <1>1, <2>2 DEF Proceeds, Typed
  <2> QED
    BY <2>1, <2>2 DEF ReadContent
<1>8. PICK p \in {"reply", "content"} : Proceeds(c, p)
  BY <1>7
<1>9. at'[c] = p
  BY <1>8 DEF Proceeds
<1>10. Decided(c)
  BY <1>1, <1>5, <1>6, <1>7, <1>8, <1>9 DEF Decided, Proceeds
<1>11. at[c] \in Exchanging \ {"reply"} /\ p \in Exchanging
  BY <1>1 DEF Exchanging
<1>12. hangup' \in [Conns -> BOOLEAN] /\ \A d \in Conns : d # c => hangup'[d] = hangup[d]
  BY <1>1 DEF Typed
<1> QED
  BY <1>1, <1>2, <1>3, <1>8, <1>10, <1>11, <1>12, Reads

(* The part that a connection reads next.                                  *)
LEMMA NextPart ==
  ASSUME Typed, NEW c \in Conns, ConnInv(c), ~NoInput(c)
  PROVE  /\ 1 \in 1 .. Len(Available(c))
         /\ Head(Available(c)) = All(c)[Gone(c) + 1]
         /\ Gone(c) + 1 <= Sent(c)
<1>1. PICK a \in Nat : a = Len(Available(c)) /\ a # 0 /\ a <= Sent(c) - Gone(c)
  BY AvailableIs DEF ConnInv
<1>2. PICK g \in Nat, t \in Nat : g = Gone(c) /\ t = Sent(c)
  BY Positions DEF ConnInv
<1>3. Available(c)[1] = All(c)[g + 1]
  BY <1>1, <1>2, AvailableIs DEF ConnInv
<1>4. Head(Available(c)) = Available(c)[1]
  OBVIOUS
<1> QED
  BY <1>1, <1>2, <1>3, <1>4

(* After the blank line no header of its request is to come.               *)
LEMMA BlankPasses ==
  ASSUME Typed, NEW c \in Conns, ConnInv(c), plan' = plan, handled' = handled,
         handled[c] # 0, Gone(c) + 1 <= Len(All(c)), Gone(c)' = Gone(c) + 1,
         All(c)[Gone(c) + 1].what = "blank"
  PROVE  Passed(c)'
<1>1. PICK s : s = All(c)
  OBVIOUS
<1>2. PICK g \in Nat, k \in Nat : g = Gone(c) /\ k = Len(s) /\ g + 1 <= k
  BY <1>1, Positions DEF ConnInv
<1>3. PICK h \in Nat : h = handled[c]
  BY DEF Typed
<1>4. g >= 1 /\ h <= s[g].req
  BY <1>1, <1>2, <1>3 DEF ConnInv, Ordered
<1>5. \A i \in 1 .. k : s[i].req \in Nat
  BY <1>1, <1>2, Along
<1>6. \A i, j \in 1 .. k : i <= j => s[i].req <= s[j].req
  BY <1>1, <1>2, Along
<1>7. \A i \in 1 .. k - 1 :
        \/ s[i + 1].what = "line" /\ s[i + 1].req = s[i].req + 1
        \/ /\ s[i + 1].what # "line" /\ s[i + 1].req = s[i].req
           /\ s[i + 1].what = "header" => s[i].what = "line"
  BY <1>1, <1>2, Along
<1>8. ASSUME NEW i \in g + 2 .. k, s[i].req = h, s[i].what = "header" PROVE FALSE
  <2>1. PICK j \in 1 .. k - 1 : j = i - 1 /\ i = j + 1
    BY <1>2, <1>4
  <2>2. s[j].what = "line" /\ s[j].req = h
    BY <1>7, <1>8, <2>1
  <2>3. j # g + 1
    BY <1>1, <1>2, <2>2
  <2>4. j >= g + 2
    BY <1>2, <2>1, <2>3
  <2>5. PICK l \in 1 .. k - 1 : l = j - 1 /\ j = l + 1 /\ g <= l /\ l \in 1 .. k /\ g \in 1 .. k
    BY <1>2, <1>4, <2>1, <2>4
  <2>6. s[j].req = s[l].req + 1
    BY <1>7, <2>2, <2>5
  <2>7. s[g].req <= s[l].req /\ s[g].req \in Nat /\ s[l].req \in Nat
    BY <1>5, <1>6, <2>5
  <2> QED
    BY <1>3, <1>4, <2>2, <2>6, <2>7
<1>9. All(c)' = s
  BY <1>1, AllSame
<1>10. \A i : i \in (g + 1) + 1 .. k => i \in g + 2 .. k
  BY <1>2
<1> QED
  BY <1>2, <1>3, <1>8, <1>9, <1>10 DEF Passed

LEMMA HeaderLineInv ==
  ASSUME Typed, NEW c \in Conns, ConnInv(c), HeaderLine(c)
  PROVE  Typed' /\ ConnInv(c)' /\ Elsewhere(c)
<1>1. /\ at[c] \in {"headers", "drain"} /\ ~NoInput(c) /\ Take(c, 1)
      /\ UNCHANGED <<client, fin, left, handled, replies, history>>
  BY DEF HeaderLine
<1>2. /\ 1 \in 1 .. Len(Available(c)) /\ Head(Available(c)) = All(c)[Gone(c) + 1]
      /\ Gone(c) + 1 <= Sent(c)
  BY <1>1, NextPart
<1>3. Gone(c)' = Gone(c) + 1 /\ UNCHANGED <<plan, handled>>
  BY <1>1, <1>2, TakeMoves DEF ConnInv, client
<1>4. ~hangup[c]
  BY <1>1 DEF ConnInv, Announced
<1>5. at[c] \in Exchanging \ {"reply"} /\ at[c] \in Exchanging
  BY <1>1 DEF Exchanging
<1>6. CASE UNCHANGED <<at, status, hangup>>
  <2>1. Proceeds(c, at[c]) /\ at'[c] = at[c]
    BY <1>6 DEF Proceeds, Typed
  <2>2. Decided(c)
    BY <1>1, <1>4, <1>6 DEF Decided
  <2>3. hangup' \in [Conns -> BOOLEAN] /\ \A d \in Conns : d # c => hangup'[d] = hangup[d]
    BY <1>6 DEF Typed
  <2> QED
    BY <1>1, <1>2, <1>5, <2>1, <2>2, <2>3, Reads
<1>7. CASE Answer(c, 414) /\ UNCHANGED hangup
  <2>1. Proceeds(c, "reply") /\ at'[c] = "reply" /\ status'[c] = 414
    BY <1>7, Answered DEF Proceeds, Statuses
  <2>2. Decided(c)
    BY <1>4, <1>7, <2>1 DEF Decided
  <2>3. hangup' \in [Conns -> BOOLEAN] /\ \A d \in Conns : d # c => hangup'[d] = hangup[d]
    BY <1>7 DEF Typed
  <2>4. "reply" \in Exchanging
    BY DEF Exchanging
  <2> QED
    BY <1>1, <1>2, <1>5, <2>1, <2>2, <2>3, <2>4, Reads
<1>8. CASE /\ at[c] = "headers" /\ Head(Available(c)).what = "blank"
           /\ hangup' = [hangup EXCEPT ![c] = AsksToClose(Request(c))]
           /\ IF ParseRangeHeader(Request(c).ranges)
                THEN Goto(c, "route") /\ UNCHANGED status ELSE Answer(c, 416)
  <2>1. Request(c).line = "good" /\ handled[c] # 0
    BY <1>5, <1>8 DEF ConnInv, Announced, Ordered
  <2>2. Gone(c) + 1 <= Len(All(c))
    <3>1. PICK g \in Nat, t \in Nat, k \in Nat :
            /\ g = Gone(c) /\ t = Sent(c) /\ k = Len(All(c))
            /\ t <= k
      BY Positions DEF ConnInv
    <3> QED
      BY <1>2, <3>1
  <2>3. Passed(c)'
    BY <1>2, <1>3, <1>8, <2>1, <2>2, BlankPasses
  <2>4. AsksToClose(Request(c)) \in BOOLEAN
    <3>1. PICK n \in Nat : n = handled[c] /\ n # 0
      BY <2>1 DEF Typed
    <3>2. PICK m \in Nat, g \in Nat : m = Len(plan[c].requests) /\ g = Gone(c)
      BY Along, Positions DEF ConnInv
    <3>3. n \in 1 .. m
      <4>1. g >= 1 /\ n <= All(c)[g].req
        BY <3>1, <3>2 DEF ConnInv, Ordered
      <4>2. g \in 1 .. Len(All(c))
        BY <2>2, <3>2, <4>1, Along
      <4>3. All(c)[g].req \in 1 .. m
        BY <3>2, <4>2, Along
      <4> QED
        BY <3>1, <4>1, <4>3
    <3>4. plan[c].requests \in Seq(Requests)
      BY PlanShape DEF Typed
    <3>5. Request(c) \in Requests
      BY <3>1, <3>2, <3>3, <3>4, ElementOfSeq DEF Request
    <3> QED
      BY <3>5 DEF AsksToClose, Requests
  <2>5. /\ hangup' \in [Conns -> BOOLEAN] /\ hangup'[c] = AsksToClose(Request(c))
        /\ \A d \in Conns : d # c => hangup'[d] = hangup[d]
    BY <1>8, <2>4 DEF Typed
  <2>6. \/ Proceeds(c, "route") /\ ParseRangeHeader(Request(c).ranges)
        \/ Proceeds(c, "reply") /\ status'[c] = 416
    <3>1. CASE Answer(c, 416)
      BY <3>1, Answered DEF Proceeds, Statuses
    <3>2. CASE Goto(c, "route") /\ UNCHANGED status /\ ParseRangeHeader(Request(c).ranges)
      <4>1. "route" \in Places
        BY DEF Places
      <4> QED
        BY <3>2, <4>1, Went DEF Proceeds, Typed
    <3> QED
      BY <1>8, <3>1, <3>2
  <2>7. PICK p \in {"route", "reply"} : Proceeds(c, p)
    BY <2>6
  <2>8. at'[c] = p
    BY <2>7 DEF Proceeds
  <2>9. Decided(c)
    BY <2>1, <2>3, <2>5, <2>6, <2>7, <2>8 DEF Decided, Proceeds
  <2>10. p \in Exchanging
    BY DEF Exchanging
  <2> QED
    BY <1>1, <1>2, <1>5, <2>5, <2>7, <2>9, <2>10, Reads
<1> QED
  BY <1>1, <1>6, <1>7, <1>8 DEF HeaderLine

-----------------------------------------------------------------------------
(* The beginning and the end of a connection.                              *)

(* A connection is moved, and nothing comes or goes.                       *)
Placed(c) ==
  /\ plan' = plan /\ unsent'[c] = unsent[c] /\ queue'[c] = queue[c] /\ buffer'[c] = buffer[c]
  /\ fin'[c] = fin[c] /\ left'[c] = left[c] /\ handled'[c] = handled[c]
  /\ hangup'[c] = hangup[c] /\ replies'[c] = replies[c] /\ astray'[c] = astray[c]
  /\ \/ /\ at[c] \in Before /\ at'[c] \in {"backlog", "accepted", "queued", "idle"}
        /\ cause'[c] = cause[c]
     \/ /\ at'[c] \in {"closing", "closed"}
        /\ \/ cause'[c] \in {"idle", "gone", "refused"}
           \/ at[c] = "closing" /\ cause'[c] = cause[c]
     \/ /\ at[c] = "junk" /\ at'[c] = "reply" /\ status'[c] = 400
        /\ cause'[c] = cause[c]

(* Such a step keeps the invariant of its connection.                      *)
LEMMA PlacedInv ==
  ASSUME Typed, NEW c \in Conns, ConnInv(c), Placed(c)
  PROVE  ConnInv(c)'
<1>1. All(c)' = All(c) /\ Gone(c)' = Gone(c) /\ Sent(c)' = Sent(c) /\ Streaming(c)'
  BY StreamSame DEF Placed, ConnInv
<1>2. Request(c)' = Request(c)
  BY RequestSame DEF Placed
<1>3. Ordered(c)'
  <2>1. at'[c] \notin {"line", "junk"}
    BY DEF Placed
  <2>2. at'[c] \in Exchanging => at[c] = "junk" /\ at'[c] = "reply" /\ handled[c] = 0
    BY DEF Placed, ConnInv, Ordered, Exchanging
  <2> QED
    BY <1>1, <2>1, <2>2 DEF Ordered, To, Placed, ConnInv
<1>4. Passed(c)' = Passed(c)
  BY <1>1 DEF Passed, Placed
<1>5. Announced(c)'
  <2>1. at'[c] \notin {"closing", "closed"} =>
          left'[c] >= 1 /\ cause'[c] \notin {"asked", "limit"} /\ ~hangup'[c]
    BY DEF Placed, ConnInv, Announced, Before
  <2>2. at'[c] # "headers"
    BY DEF Placed
  <2>3. hangup'[c] =>
          handled[c] # 0 /\ Request(c).line = "good" /\ AsksToClose(Request(c)) /\ Passed(c)
    BY DEF Placed, ConnInv, Announced
  <2>4. cause'[c] \in {"asked", "limit"} => at[c] = "closing" /\ cause'[c] = cause[c]
    BY <2>1 DEF Placed
  <2>5. cause'[c] \in {"asked", "limit"} =>
          /\ at'[c] \in {"closing", "closed"}
          /\ ~fin'[c] => replies'[c] # <<>> /\
               LET last == Last(replies'[c])
               IN last.close \/ (last.to # 0 /\ plan'[c].requests[last.to].version = "1.0")
    BY <2>1, <2>4 DEF Announced, Placed, ConnInv
  <2>6. hangup'[c] =>
          /\ at'[c] \in {"route", "content", "handler", "reply", "closing", "closed"}
          /\ handled'[c] # 0 /\ Request(c)'.line = "good" /\ AsksToClose(Request(c)') /\ Passed(c)'
    BY <1>2, <1>4, <2>1, <2>3 DEF Placed
  <2> QED
    BY <2>1, <2>2, <2>5, <2>6 DEF Announced, AsksToClose
<1>6. Ranged(c)'
  <2>1. at'[c] \notin {"route", "content", "handler"} /\ ~(at'[c] = "reply" /\ status'[c] = 206)
    BY DEF Placed
  <2>2. plan' = plan /\ replies'[c] = replies[c]
    BY DEF Placed
  <2>3. \A i \in 1 .. Len(replies'[c]) :
          replies'[c][i].status = 206 => PartialReply(c, replies'[c][i])
    BY <2>2 DEF Ranged, ConnInv
  <2> QED
    BY <2>1, <2>2, <2>3 DEF Ranged, PartialReply
<1>7. Fresh(c)' = Fresh(c)
  BY <1>1 DEF Fresh, Placed
<1>8. plan[c].polite /\ ~astray[c] => InStep(c)'
  <2> SUFFICES ASSUME plan[c].polite, ~astray[c] PROVE InStep(c)'
    OBVIOUS
  <2>1. InStep(c)
    BY DEF ConnInv, InTurn
  <2>2. at'[c] \in {"backlog", "accepted", "queued", "idle"} => buffer'[c] = <<>> /\ Fresh(c)'
    BY <1>7, <2>1 DEF InStep, Placed, Before
  <2>3. at'[c] \in {"backlog", "accepted", "queued", "idle", "closing", "closed"}
    BY <2>1 DEF InStep, Placed
  <2>4. \A i \in 1 .. Len(replies[c]) : To(c, i) = i
    BY <2>1 DEF InStep
  <2> QED
    BY <2>2, <2>3, <2>4 DEF InStep, To, Exchanging, Placed
<1>9. InTurn(c)'
  BY <1>1, <1>8 DEF InTurn, Placed, ConnInv
<1> QED
  BY <1>1, <1>3, <1>5, <1>6, <1>9 DEF ConnInv

(* The connection is to be closed.                                         *)
LEMMA Closing ==
  ASSUME Typed, NEW c \in Conns, NEW why \in Causes, Close(c, why)
  PROVE  /\ at' \in [Conns -> Places] /\ at'[c] = "closing"
         /\ cause' \in [Conns -> Causes] /\ cause'[c] = why
         /\ \A d \in Conns : d # c => at'[d] = at[d] /\ cause'[d] = cause[d]
<1>1. Goto(c, "closing") /\ cause' = [cause EXCEPT ![c] = why] /\ "closing" \in Places
  BY DEF Close, Places
<1>2. /\ cause' \in [Conns -> Causes] /\ cause'[c] = why
      /\ \A d \in Conns : d # c => cause'[d] = cause[d]
  BY <1>1 DEF Typed, Causes
<1> QED
  BY <1>1, <1>2, Went

LEMMA TypedMoved ==
  ASSUME Typed, UNCHANGED <<client, stream, exchange, replies, astray>>,
         at' \in [Conns -> Places], fin' \in [Conns -> BOOLEAN], cause' \in [Conns -> Causes]
  PROVE  Typed'
<1>1. \E S : replies' \in [Conns -> Seq(S)]
  BY DEF Typed
<1> QED
  BY <1>1 DEF Typed, Causes, client, stream, exchange

LEMMA KeepAliveTimeoutInv ==
  ASSUME Typed, NEW c \in Conns, ConnInv(c), KeepAliveTimeout(c)
  PROVE  Typed' /\ ConnInv(c)' /\ Elsewhere(c)
<1>1. Close(c, "idle") /\ UNCHANGED <<client, fin, stream, exchange, replies, astray>>
  BY DEF KeepAliveTimeout
<1>2. /\ at' \in [Conns -> Places] /\ at'[c] = "closing"
      /\ cause' \in [Conns -> Causes] /\ cause'[c] = "idle"
      /\ \A d \in Conns : d # c => at'[d] = at[d] /\ cause'[d] = cause[d]
  BY <1>1, Closing DEF Causes
<1>3. Typed'
  BY <1>1, <1>2, TypedMoved DEF Typed
<1>4. Placed(c)
  BY <1>1, <1>2 DEF Placed, client, stream, exchange
<1>5. Elsewhere(c)
  BY <1>1, <1>2 DEF Elsewhere, Same, client, stream, exchange
<1> QED
  BY <1>3, <1>4, <1>5, PlacedInv

LEMMA CloseSocketInv ==
  ASSUME Typed, NEW c \in Conns, ConnInv(c), CloseSocket(c)
  PROVE  Typed' /\ ConnInv(c)' /\ Elsewhere(c)
<1>1. /\ at[c] = "closing" /\ Goto(c, "closed") /\ "closed" \in Places
      /\ UNCHANGED <<client, fin, stream, exchange, replies, astray, cause>>
  BY DEF CloseSocket, history, Places
<1>2. at' \in [Conns -> Places] /\ at'[c] = "closed" /\ \A d \in Conns : d # c => at'[d] = at[d]
  BY <1>1, Went
<1>3. Typed'
  BY <1>1, <1>2, TypedMoved DEF Typed, Causes
<1>4. Placed(c)
  BY <1>1, <1>2 DEF Placed, client, stream, exchange
<1>5. Elsewhere(c)
  BY <1>1, <1>2 DEF Elsewhere, Same, client, stream, exchange
<1> QED
  BY <1>3, <1>4, <1>5, PlacedInv

LEMMA RequestLineMissingInv ==
  ASSUME Typed, NEW c \in Conns, ConnInv(c), RequestLineMissing(c)
  PROVE  Typed' /\ ConnInv(c)' /\ Elsewhere(c)
<1>1. UNCHANGED <<client, fin, stream, left, handled, hangup, replies, astray>>
  BY DEF RequestLineMissing
<1>2. CASE at[c] = "junk" /\ Answer(c, 400) /\ UNCHANGED cause
  <2>1. /\ at' \in [Conns -> Places] /\ at'[c] = "reply"
        /\ status' \in [Conns -> Statuses] /\ status'[c] = 400
        /\ \A d \in Conns : d # c => at'[d] = at[d] /\ status'[d] = status[d]
    BY <1>2, Answered DEF Statuses
  <2>2. Typed'
    BY <1>1, <1>2, <2>1, TypedStill DEF Typed, stream
  <2>3. Placed(c)
    BY <1>1, <1>2, <2>1 DEF Placed, client, stream
  <2>4. Elsewhere(c)
    BY <1>1, <1>2, <2>1 DEF Elsewhere, Same, client, stream
  <2> QED
    BY <2>2, <2>3, <2>4, PlacedInv
<1>3. CASE (Close(c, "gone") \/ Close(c, "idle")) /\ UNCHANGED status
  <2>1. PICK why \in {"gone", "idle"} : Close(c, why)
    BY <1>3
  <2>2. /\ at' \in [Conns -> Places] /\ at'[c] = "closing"
        /\ cause' \in [Conns -> Causes] /\ cause'[c] = why
        /\ \A d \in Conns : d # c => at'[d] = at[d] /\ cause'[d] = cause[d]
    BY <2>1, Closing DEF Causes
  <2>3. Typed'
    BY <1>1, <1>3, <2>2, TypedMoved DEF Typed, exchange
  <2>4. Placed(c)
    BY <1>1, <1>3, <2>2 DEF Placed, client, stream
  <2>5. Elsewhere(c)
    BY <1>1, <1>3, <2>2 DEF Elsewhere, Same, client, stream
  <2> QED
    BY <2>3, <2>4, <2>5, PlacedInv
<1> QED
  BY <1>2, <1>3 DEF RequestLineMissing

(* The client ends its side of the connection.                             *)
LEMMA FinishInv ==
  ASSUME Typed, NEW c \in Conns, ConnInv(c), Finish(c)
  PROVE  Typed' /\ ConnInv(c)' /\ Elsewhere(c)
<1>1. /\ ~fin[c] /\ fin' = [fin EXCEPT ![c] = TRUE]
      /\ UNCHANGED <<plan, unsent, queue, buffer, at, left, handled, status, hangup, replies,
                     astray, cause>>
  BY DEF Finish, client, stream, exchange, history
<1>2. fin' \in [Conns -> BOOLEAN] /\ fin'[c] /\ \A d \in Conns : d # c => fin'[d] = fin[d]
  BY <1>1 DEF Typed
<1>3. Typed'
  <2>1. UNCHANGED <<client, stream, exchange, replies, astray>>
    BY <1>1 DEF client, stream, exchange
  <2> QED
    BY <1>1, <1>2, <2>1, TypedMoved DEF Typed, Causes
<1>4. Elsewhere(c)
  BY <1>1, <1>2 DEF Elsewhere, Same
<1>5. All(c)' = All(c) /\ Gone(c)' = Gone(c) /\ Sent(c)' = Sent(c) /\ Streaming(c)'
  BY <1>1, StreamSame DEF ConnInv
<1>6. Request(c)' = Request(c)
  BY <1>1, RequestSame
<1>7. Ordered(c)'
  BY <1>1, <1>5 DEF Ordered, To, ConnInv
<1>8. Passed(c)' = Passed(c)
  BY <1>1, <1>5 DEF Passed
<1>9. Announced(c)'
  BY <1>1, <1>2, <1>6, <1>8 DEF Announced, AsksToClose, ConnInv
<1>10. Ranged(c)'
  BY <1>1, <1>6 DEF Ranged, PartialReply, ConnInv
<1>11. (AllRead(c) => AllRead(c)') /\ (Fresh(c) => Fresh(c)')
  BY <1>1, <1>2, <1>5 DEF AllRead, Fresh
<1>12. InStep(c) => InStep(c)'
  BY <1>1, <1>5, <1>6, <1>11 DEF InStep, To, ExpectContent
<1>13. InTurn(c)'
  BY <1>1, <1>5, <1>12 DEF InTurn, ConnInv
<1> QED
  BY <1>3, <1>4, <1>5, <1>7, <1>9, <1>10, <1>13 DEF ConnInv

(* The client sends some parts.                                            *)
LEMMA SendInv ==
  ASSUME Typed, NEW c \in Conns, ConnInv(c), NEW n \in DOMAIN unsent[c], Send(c, n)
  PROVE  Typed' /\ ConnInv(c)' /\ Elsewhere(c)
<1>1. /\ ~fin[c] /\ (plan[c].polite => unsent[c][n].req <= Len(replies[c]) + 1)
      /\ UNCHANGED <<plan, fin, buffer, at, left, handled, status, hangup, replies, astray, cause>>
  BY DEF Send, exchange, history
<1>2. n \in 1 .. Len(unsent[c])
  BY LenProperties DEF Typed
<1>3. /\ queue' \in [Conns -> Seq(Parts)] /\ unsent' \in [Conns -> Seq(Parts)] /\ Others(c)
      /\ Streaming(c)' /\ Gone(c)' = Gone(c) /\ Sent(c)' = Sent(c) + n
      /\ n <= Len(All(c)) - Sent(c)
      /\ unsent[c][n] = All(c)[Sent(c) + n]
  BY <1>2, SendMoves DEF ConnInv
<1>4. Typed'
  <2>1. \E S : replies' \in [Conns -> Seq(S)]
    BY <1>1 DEF Typed
  <2> QED
    BY <1>1, <1>3, <2>1 DEF Typed
<1>5. Elsewhere(c)
  BY <1>1, <1>3 DEF Elsewhere, Same, Others
<1>6. All(c)' = All(c) /\ Request(c)' = Request(c)
  BY <1>1, AllSame, RequestSame
<1>7. Ordered(c)'
  BY <1>1, <1>3, <1>6 DEF Ordered, To, ConnInv
<1>8. Passed(c)' = Passed(c)
  BY <1>1, <1>3, <1>6 DEF Passed
<1>9. Announced(c)'
  BY <1>1, <1>6, <1>8 DEF Announced, AsksToClose, ConnInv
<1>10. Ranged(c)'
  BY <1>1, <1>6 DEF Ranged, PartialReply, ConnInv
<1>11. (AllRead(c) => AllRead(c)') /\ (Fresh(c) => Fresh(c)')
  BY <1>1, <1>3, <1>6 DEF AllRead, Fresh
<1>12. InStep(c) => InStep(c)'
  BY <1>1, <1>3, <1>6, <1>11 DEF InStep, To, ExpectContent
<1>13. ASSUME plan[c].polite
       PROVE  \A i \in Gone(c) + 1 .. Sent(c) + n : All(c)[i].req <= Len(replies[c]) + 1
  <2>1. PICK s : s = All(c)
    OBVIOUS
  <2>2. PICK g \in Nat, t \in Nat, k \in Nat, l \in Nat :
          g = Gone(c) /\ t = Sent(c) /\ k = Len(s) /\ l = Len(replies[c]) + 1
    <3>1. Len(replies[c]) \in Nat
      BY LenProperties DEF Typed
    <3> QED
      BY <2>1, <3>1, Positions DEF ConnInv
  <2>3. t + n \in 1 .. k /\ s[t + n].req <= l
    BY <1>1, <1>2, <1>3, <1>13, <2>1, <2>2
  <2>4. /\ \A i \in 1 .. k : s[i].req \in Nat
        /\ \A i, j \in 1 .. k : i <= j => s[i].req <= s[j].req
    <3>1. PICK m \in Nat : \A i \in 1 .. k : s[i].req \in 1 .. m
      BY <2>1, <2>2, Along
    <3>2. \A i, j \in 1 .. k : i <= j => s[i].req <= s[j].req
      BY <2>1, <2>2, Along
    <3> QED
      BY <3>1, <3>2
  <2>5. ASSUME NEW i \in g + 1 .. t + n PROVE s[i].req <= l
    <3>1. i \in 1 .. k /\ i <= t + n
      BY <2>3
    <3>2. s[i].req <= s[t + n].req /\ s[i].req \in Nat /\ s[t + n].req \in Nat
      BY <2>3, <2>4, <3>1
    <3> QED
      BY <2>2, <2>3, <3>2
  <2> QED
    BY <2>1, <2>2, <2>5
<1>14. InTurn(c)'
  BY <1>1, <1>3, <1>6, <1>12, <1>13 DEF InTurn, ConnInv
<1> QED
  BY <1>3, <1>4, <1>5, <1>7, <1>9, <1>10, <1>14 DEF ConnInv

-----------------------------------------------------------------------------
(* The line of a request.                                                  *)

(* A request is awaited: the rest of the buffer is gone.                   *)
LEMMA KeepAliveInv ==
  ASSUME Typed, NEW c \in Conns, ConnInv(c), KeepAlive(c)
  PROVE  Typed' /\ ConnInv(c)' /\ Elsewhere(c)
<1>1. /\ at[c] = "idle" /\ Goto(c, "line") /\ NewStream(c)
      /\ handled' = [handled EXCEPT ![c] = 0] /\ status' = [status EXCEPT ![c] = -1]
      /\ hangup' = [hangup EXCEPT ![c] = FALSE]
      /\ UNCHANGED <<client, plan, unsent, fin, queue, left, replies, astray, cause>>
  BY DEF KeepAlive, client, history
<1>2. /\ buffer' \in [Conns -> Seq(Parts)] /\ buffer'[c] = <<>> /\ Others(c)
      /\ Streaming(c)' /\ Gone(c)' = Gone(c) + Len(buffer[c]) /\ Sent(c)' = Sent(c)
  BY <1>1, NewStreamMoves DEF ConnInv
<1>3. at' \in [Conns -> Places] /\ at'[c] = "line" /\ \A d \in Conns : d # c => at'[d] = at[d]
  BY <1>1, Went DEF Places
<1>4. /\ handled' \in [Conns -> Nat] /\ handled'[c] = 0
      /\ status' \in [Conns -> Statuses] /\ status'[c] = -1
      /\ hangup' \in [Conns -> BOOLEAN] /\ ~hangup'[c]
      /\ \A d \in Conns : d # c => handled'[d] = handled[d] /\ status'[d] = status[d]
                                   /\ hangup'[d] = hangup[d]
  BY <1>1 DEF Typed, Statuses
<1>5. Typed'
  <2>1. \E S : replies' \in [Conns -> Seq(S)]
    BY <1>1 DEF Typed
  <2> QED
    BY <1>1, <1>2, <1>3, <1>4, <2>1 DEF Typed
<1>6. Elsewhere(c)
  BY <1>1, <1>2, <1>3, <1>4 DEF Elsewhere, Same, Others
<1>7. PICK s : s = All(c) /\ All(c)' = s
  BY <1>1, AllSame
<1>8. PICK g \in Nat, t \in Nat, k \in Nat, b \in Nat :
        g = Gone(c) /\ t = Sent(c) /\ k = Len(s) /\ b = Len(buffer[c])
  BY <1>7, Positions, Lengths DEF ConnInv
<1>9. PICK h \in Nat : h = g + b
  OBVIOUS
<1>10. Gone(c)' = h /\ Sent(c)' = t /\ g <= h /\ h <= t /\ t <= k
  <2>1. PICK q \in Nat : q = Len(queue[c])
    BY Lengths
  <2>2. t = g + b + q
    BY <1>8, <2>1, Lengths DEF ConnInv
  <2>3. t <= k
    BY <1>7, <1>8, Positions DEF ConnInv
  <2> QED
    BY <1>2, <1>8, <1>9, <2>2, <2>3
<1>11. Ordered(c)'
  <2>1. ASSUME NEW i \in 1 .. Len(replies[c]), To(c, i) # 0
        PROVE  h >= 1 /\ To(c, i) <= s[h].req
    <3>1. g >= 1 /\ To(c, i) <= s[g].req /\ To(c, i) \in Nat
      BY <1>7, <1>8, <2>1 DEF ConnInv, Ordered
    <3>2. g \in 1 .. k /\ h \in 1 .. k
      BY <1>8, <1>10, <3>1
    <3>3. s[g].req <= s[h].req
      BY <1>7, <1>8, <1>10, <3>2, Along
    <3>4. PICK m \in Nat : \A j \in 1 .. k : s[j].req \in 1 .. m
      BY <1>7, <1>8, Along
    <3>5. s[g].req \in Nat /\ s[h].req \in Nat
      BY <3>2, <3>4
    <3> QED
      BY <1>10, <3>1, <3>3, <3>5
  <2>2. /\ \A i \in 1 .. Len(replies[c]) : To(c, i) \in Nat
        /\ \A i, j \in 1 .. Len(replies[c]) :
             i < j /\ To(c, i) # 0 /\ To(c, j) # 0 => To(c, i) < To(c, j)
    BY DEF ConnInv, Ordered
  <2>3. at'[c] \notin Exchanging
    BY <1>3 DEF Exchanging
  <2> QED
    BY <1>1, <1>3, <1>4, <1>7, <1>10, <2>1, <2>2, <2>3 DEF Ordered, To
<1>12. Announced(c)'
  <2>1. left[c] >= 1 /\ cause[c] \notin {"asked", "limit"}
    BY <1>1 DEF ConnInv, Announced
  <2> QED
    BY <1>1, <1>3, <1>4, <2>1 DEF Announced
<1>13. Ranged(c)'
  BY <1>1, <1>3 DEF ConnInv, Ranged, PartialReply
<1>14. InTurn(c)'
  <2> SUFFICES ASSUME plan[c].polite
               PROVE  /\ \A i \in h + 1 .. t : s[i].req <= Len(replies[c]) + 1
                      /\ ~astray[c] => InStep(c)'
    BY <1>1, <1>7, <1>10 DEF InTurn
  <2>1. \A i \in g + 1 .. t : s[i].req <= Len(replies[c]) + 1
    BY <1>7, <1>8 DEF ConnInv, InTurn
  <2>2. \A i \in h + 1 .. t : i \in g + 1 .. t
    BY <1>10
  <2> SUFFICES ASSUME ~astray[c] PROVE InStep(c)'
    BY <2>1, <2>2
  <2>3. InStep(c)
    BY DEF ConnInv, InTurn
  <2>4. buffer[c] = <<>> /\ Fresh(c)
    BY <1>1, <2>3 DEF InStep
  <2>5. h = g
    BY <1>8, <1>9, <2>4
  <2>6. Fresh(c)'
    BY <1>1, <1>7, <1>8, <1>10, <2>4, <2>5 DEF Fresh
  <2>7. \A i \in 1 .. Len(replies[c]) : To(c, i) = i
    BY <2>3 DEF InStep
  <2> QED
    BY <1>1, <1>2, <1>3, <2>6, <2>7 DEF InStep, To, Exchanging
<1> QED
  BY <1>2, <1>5, <1>6, <1>11, <1>12, <1>13, <1>14 DEF ConnInv

(* What a connection finds when it expects the line of a request.          *)
LEMMA FreshPart ==
  ASSUME Typed, NEW c \in Conns, ConnInv(c), at[c] \in {"line", "junk"}, ~NoInput(c),
         plan[c].polite, ~astray[c]
  PROVE  /\ at[c] = "line" /\ All(c)[Gone(c) + 1].what = "line"
         /\ All(c)[Gone(c) + 1].req = Len(replies[c]) + 1
         /\ \A i \in 1 .. Len(replies[c]) : To(c, i) = i
<1>1. InStep(c)
  BY DEF ConnInv, InTurn
<1>2. at[c] = "line" /\ Fresh(c) /\ \A i \in 1 .. Len(replies[c]) : To(c, i) = i
  BY <1>1 DEF InStep
<1>3. Gone(c) # Sent(c)
  BY AvailableIs DEF ConnInv
<1>4. Gone(c) # Len(All(c))
  <2>1. PICK g \in Nat, t \in Nat, k \in Nat :
          g = Gone(c) /\ t = Sent(c) /\ k = Len(All(c)) /\ g <= t /\ t <= k
    BY Positions DEF ConnInv
  <2> QED
    BY <1>3, <2>1
<1> QED
  BY <1>2, <1>3, <1>4 DEF Fresh

(* The steps that read the line of a request, or what is taken for one.    *)
LineRead(c) ==
  /\ UNCHANGED <<client, fin, left, hangup, replies, history>>
  /\ at' \in [Conns -> Places] /\ status' \in [Conns -> Statuses]
  /\ handled' \in [Conns -> Nat]
  /\ \A d \in Conns : d # c =>
       at'[d] = at[d] /\ status'[d] = status[d] /\ handled'[d] = handled[d]
  /\ \/ /\ handled'[c] = All(c)[Gone(c) + 1].req /\ All(c)[Gone(c) + 1].what = "line"
        /\ at[c] = "line"
        /\ \/ plan[c].requests[handled'[c]].line = "good" /\ at'[c] = "headers"
           \/ at'[c] = "drain"
           \/ at'[c] = "reply" /\ status'[c] = 400
     \/ /\ handled'[c] = handled[c]
        /\ at[c] = "junk" \/ All(c)[Gone(c) + 1].what # "line"
        /\ at'[c] = "junk" \/ (at'[c] = "reply" /\ status'[c] = 400)

(* Such a step keeps the invariant.                                        *)
LEMMA LineReadInv ==
  ASSUME Typed, NEW c \in Conns, ConnInv(c), at[c] \in {"line", "junk"}, ~NoInput(c), Take(c, 1),
         LineRead(c)
  PROVE  Typed' /\ ConnInv(c)' /\ Elsewhere(c)
<1>1. UNCHANGED <<client, plan, unsent, fin, left, hangup, replies, astray, cause>>
  BY DEF LineRead, client, history
<1>2. 1 \in 1 .. Len(Available(c)) /\ Gone(c) + 1 <= Sent(c)
  BY NextPart
<1>3. /\ queue' \in [Conns -> Seq(Parts)] /\ buffer' \in [Conns -> Seq(Parts)] /\ Others(c)
      /\ Streaming(c)' /\ Gone(c)' = Gone(c) + 1 /\ Sent(c)' = Sent(c)
  BY <1>1, <1>2, TakeMoves DEF ConnInv
<1>4. Typed'
  <2>1. \E S : replies' \in [Conns -> Seq(S)]
    BY <1>1 DEF Typed
  <2> QED
    BY <1>1, <1>3, <2>1 DEF Typed, LineRead
<1>5. Elsewhere(c)
  BY <1>1, <1>3 DEF Elsewhere, Same, Others, LineRead
<1>6. PICK s : s = All(c) /\ All(c)' = s
  BY <1>1, AllSame
<1>7. PICK g \in Nat, t \in Nat, k \in Nat, h \in Nat :
        g = Gone(c) /\ t = Sent(c) /\ k = Len(s) /\ h = g + 1
  BY <1>6, Positions DEF ConnInv
<1>8. /\ Gone(c)' = h /\ Sent(c)' = t /\ h <= t /\ t <= k /\ h >= 1 /\ h \in 1 .. k
      /\ g >= 1 => g \in 1 .. k - 1 /\ g \in 1 .. k
  <2>1. t <= k
    BY <1>6, <1>7, Positions DEF ConnInv
  <2> QED
    BY <1>2, <1>3, <1>7, <2>1
<1>9. PICK m \in Nat : \A i \in 1 .. k : s[i].req \in 1 .. m
  BY <1>6, <1>7, Along
<1>10. s[h].req \in 1 .. m /\ s[h].req \in Nat /\ (g >= 1 => s[g].req \in Nat)
  BY <1>8, <1>9
<1>11. g >= 1 => s[g].req <= s[h].req
  BY <1>6, <1>7, <1>8, Along
<1>12. g >= 1 /\ s[h].what = "line" => s[h].req = s[g].req + 1
  BY <1>6, <1>7, <1>8, Along
<1>13. handled[c] = 0 /\ ~hangup[c] /\ left[c] >= 1 /\ cause[c] \notin {"asked", "limit"}
  BY DEF ConnInv, Ordered, Announced
<1>14. PICK n \in Nat : n = handled'[c]
  BY DEF LineRead
<1>15. n # 0 => n = s[h].req /\ s[h].what = "line"
  BY <1>6, <1>7, <1>13, <1>14 DEF LineRead
<1>16. Ordered(c)'
  <2>1. /\ \A i \in 1 .. Len(replies[c]) : To(c, i) \in Nat
        /\ \A i \in 1 .. Len(replies[c]) : To(c, i) # 0 => g >= 1 /\ To(c, i) <= s[g].req
        /\ \A i, j \in 1 .. Len(replies[c]) :
             i < j /\ To(c, i) # 0 /\ To(c, j) # 0 => To(c, i) < To(c, j)
    BY <1>6, <1>7 DEF ConnInv, Ordered
  <2>2. \A i \in 1 .. Len(replies[c]) : To(c, i) # 0 => To(c, i) <= s[h].req
    BY <1>10, <1>11, <2>1
  <2>3. n # 0 => \A i \in 1 .. Len(replies[c]) : To(c, i) < n
    <3> SUFFICES ASSUME n # 0, NEW i \in 1 .. Len(replies[c]) PROVE To(c, i) < n
      OBVIOUS
    <3>1. PICK u \in Nat : u = To(c, i)
      BY <2>1
    <3>2. u # 0 => g >= 1 /\ u <= s[g].req
      BY <2>1, <3>1
    <3>3. CASE u = 0
      BY <3>1, <3>3
    <3>4. CASE u # 0
      BY <1>10, <1>12, <1>15, <3>1, <3>2, <3>4
    <3> QED
      BY <3>3, <3>4
  <2>4. n # 0 => n <= s[h].req
    BY <1>10, <1>15
  <2>5. at'[c] \in {"line", "junk"} => n = 0
    BY <1>13, <1>14 DEF LineRead
  <2>6. at'[c] \in Exchanging \ {"reply"} => n # 0
    BY <1>6, <1>7, <1>10, <1>14 DEF LineRead, Exchanging
  <2> QED
    BY <1>1, <1>6, <1>8, <1>14, <2>1, <2>2, <2>3, <2>4, <2>5, <2>6 DEF Ordered, To
<1>17. Announced(c)'
  <2>1. at'[c] = "headers" => plan[c].requests[n].line = "good"
    BY <1>14 DEF LineRead
  <2>2. Request(c)' = plan[c].requests[n]
    BY <1>1, <1>14 DEF Request
  <2> QED
    BY <1>1, <1>13, <2>1, <2>2 DEF Announced
<1>18. Ranged(c)'
  <2>1. at'[c] \notin {"route", "content", "handler"} /\ ~(at'[c] = "reply" /\ status'[c] = 206)
    BY DEF LineRead
  <2> QED
    BY <1>1, <2>1 DEF ConnInv, Ranged, PartialReply
<1>19. InTurn(c)'
  <2> SUFFICES ASSUME plan[c].polite
               PROVE  /\ \A i \in h + 1 .. t : s[i].req <= Len(replies[c]) + 1
                      /\ ~astray[c] => InStep(c)'
    BY <1>1, <1>6, <1>8 DEF InTurn
  <2>1. \A i \in g + 1 .. t : s[i].req <= Len(replies[c]) + 1
    BY <1>6, <1>7 DEF ConnInv, InTurn
  <2>2. \A i \in h + 1 .. t : i \in g + 1 .. t
    BY <1>7
  <2> SUFFICES ASSUME ~astray[c] PROVE InStep(c)'
    BY <2>1, <2>2
  <2>3. /\ at[c] = "line" /\ s[h].what = "line" /\ s[h].req = Len(replies[c]) + 1
        /\ \A i \in 1 .. Len(replies[c]) : To(c, i) = i
    BY <1>6, <1>7, FreshPart
  <2>4. n = s[h].req /\ at'[c] \in {"headers", "drain", "reply"}
        /\ (at'[c] = "reply" => status'[c] = 400)
    BY <1>6, <1>7, <1>14, <2>3 DEF LineRead
  <2> QED
    BY <1>1, <1>6, <1>8, <1>14, <2>3, <2>4 DEF InStep, To, Exchanging
<1> QED
  BY <1>3, <1>4, <1>5, <1>16, <1>17, <1>18, <1>19 DEF ConnInv

LEMMA RequestLineInv ==
  ASSUME Typed, NEW c \in Conns, ConnInv(c), RequestLine(c)
  PROVE  Typed' /\ ConnInv(c)' /\ Elsewhere(c)
<1>1. /\ at[c] \in {"line", "junk"} /\ ~NoInput(c) /\ Take(c, 1)
      /\ UNCHANGED <<client, fin, left, hangup, replies, history>>
  BY DEF RequestLine
<1>2. PICK part : part = All(c)[Gone(c) + 1] /\ part = Head(Available(c))
  BY <1>1, NextPart
<1>3. part.req \in Nat
  <2>1. PICK g \in Nat, t \in Nat, k \in Nat :
          g = Gone(c) /\ t = Sent(c) /\ k = Len(All(c)) /\ g <= t /\ t <= k
    BY Positions DEF ConnInv
  <2>2. g + 1 \in 1 .. k
    BY <1>1, <2>1, NextPart
  <2>3. PICK m \in Nat : \A i \in 1 .. k : All(c)[i].req \in 1 .. m
    BY <2>1, Along
  <2>4. All(c)[g + 1].req \in 1 .. m
    BY <2>2, <2>3
  <2>5. part = All(c)[g + 1]
    BY <1>2, <2>1
  <2> QED
    BY <2>4, <2>5
<1>4. /\ \A d \in Conns : d # c => handled[d] = handled[d]
      /\ handled \in [Conns -> Nat] /\ status \in [Conns -> Statuses]
  BY DEF Typed
<1>5. CASE part.what = "content" /\ Goto(c, "junk") /\ UNCHANGED <<handled, status>>
  <2>1. at' \in [Conns -> Places] /\ at'[c] = "junk" /\ \A d \in Conns : d # c => at'[d] = at[d]
    BY <1>5, Went DEF Places
  <2>2. LineRead(c)
    BY <1>1, <1>2, <1>4, <1>5, <2>1 DEF LineRead
  <2> QED
    BY <1>1, <2>2, LineReadInv
<1>6. CASE /\ (at[c] = "junk" \/ part.what # "line")
           /\ Answer(c, 400) /\ UNCHANGED handled
  <2>1. /\ at' \in [Conns -> Places] /\ at'[c] = "reply"
        /\ \A d \in Conns : d # c => at'[d] = at[d] /\ status'[d] = status[d]
        /\ status' \in [Conns -> Statuses] /\ status'[c] = 400
    BY <1>6, Answered DEF Statuses
  <2>2. LineRead(c)
    BY <1>1, <1>2, <1>4, <1>6, <2>1 DEF LineRead
  <2> QED
    BY <1>1, <2>2, LineReadInv
<1>7. CASE /\ at[c] = "line" /\ part.what = "line"
           /\ handled' = [handled EXCEPT ![c] = part.req]
           /\ LET line == plan[c].requests[part.req].line
              IN \/ line = "good" /\ Goto(c, "headers") /\ UNCHANGED status
                 \/ line = "long" /\ Goto(c, "drain") /\ UNCHANGED status
                 \/ line = "bad"  /\ Answer(c, 400)
  <2>1. /\ handled' \in [Conns -> Nat] /\ handled'[c] = part.req
        /\ \A d \in Conns : d # c => handled'[d] = handled[d]
    BY <1>3, <1>4, <1>7
  <2>2. CASE plan[c].requests[part.req].line = "good" /\ Goto(c, "headers") /\ UNCHANGED status
    <3>1. /\ at' \in [Conns -> Places] /\ at'[c] = "headers"
          /\ \A d \in Conns : d # c => at'[d] = at[d]
      BY <2>2, Went DEF Places
    <3>2. LineRead(c)
      BY <1>1, <1>2, <1>4, <1>7, <2>1, <2>2, <3>1 DEF LineRead
    <3> QED
      BY <1>1, <3>2, LineReadInv
  <2>3. CASE Goto(c, "drain") /\ UNCHANGED status
    <3>1. at' \in [Conns -> Places] /\ at'[c] = "drain" /\ \A d \in Conns : d # c => at'[d] = at[d]
      BY <2>3, Went DEF Places
    <3>2. LineRead(c)
      BY <1>1, <1>2, <1>4, <1>7, <2>1, <2>3, <3>1 DEF LineRead
    <3> QED
      BY <1>1, <3>2, LineReadInv
  <2>4. CASE Answer(c, 400)
    <3>1. /\ at' \in [Conns -> Places] /\ at'[c] = "reply"
          /\ \A d \in Conns : d # c => at'[d] = at[d] /\ status'[d] = status[d]
          /\ status' \in [Conns -> Statuses] /\ status'[c] = 400
      BY <2>4, Answered DEF Statuses
    <3>2. LineRead(c)
      BY <1>1, <1>2, <1>4, <1>7, <2>1, <3>1 DEF LineRead
    <3> QED
      BY <1>1, <3>2, LineReadInv
  <2> QED
    BY <1>7, <2>2, <2>3, <2>4
<1>8. \/ part.what = "content" /\ Goto(c, "junk") /\ UNCHANGED <<handled, status>>
      \/ (at[c] = "junk" \/ part.what # "line") /\ Answer(c, 400) /\ UNCHANGED handled
      \/ /\ at[c] = "line" /\ part.what = "line"
         /\ handled' = [handled EXCEPT ![c] = part.req]
         /\ LET line == plan[c].requests[part.req].line
            IN \/ line = "good" /\ Goto(c, "headers") /\ UNCHANGED status
               \/ line = "long" /\ Goto(c, "drain") /\ UNCHANGED status
               \/ line = "bad"  /\ Answer(c, 400)
  <2> USE <1>1, <1>2 DEF RequestLine
  <2>1. CASE part.what = "content"
    BY <2>1
  <2>2. CASE part.what # "content" /\ at[c] = "line" /\ part.what = "line"
    BY <2>2
  <2>3. CASE part.what # "content" /\ ~(at[c] = "line" /\ part.what = "line")
    BY <2>3
  <2> QED
    BY <2>1, <2>2, <2>3
<1> QED
  BY <1>5, <1>6, <1>7, <1>8

-----------------------------------------------------------------------------
(* Replies.                                                                *)

(* A reply is what the request asked for, if it is a partial one.          *)
LEMMA PartialContent ==
  ASSUME NEW c, Content(c).status = 206
  PROVE  status[c] = 206 /\ ApplyRanges(Request(c).ranges, PageLength)
                              = [status |-> 206, parts |-> Content(c).parts]
<1>1. CASE status[c] = 206
  <2>1. PICK x : x = ApplyRanges(Request(c).ranges, PageLength) /\ x = Content(c)
    BY <1>1 DEF Content
  <2>2. PICK parts :
          parts = [i \in DOMAIN Request(c).ranges |-> RangePart(Request(c).ranges[i], PageLength)]
    OBVIOUS
  <2>3. x = IF \A i \in DOMAIN parts : parts[i].offset < PageLength
              THEN [status |-> 206, parts |-> parts] ELSE [status |-> 416, parts |-> <<>>]
    BY <2>1, <2>2 DEF ApplyRanges
  <2>4. x.status = 206
    BY <2>1
  <2>5. x = [status |-> 206, parts |-> parts]
    BY <2>3, <2>4
  <2> QED
    BY <1>1, <2>1, <2>5
<1>2. CASE status[c] # 206
  <2>1. Content(c).status = status[c]
    BY <1>2 DEF Content
  <2> QED
    BY <1>2, <2>1
<1> QED
  BY <1>1, <1>2

(* The replies after one more, or none.                                    *)
LEMMA OneMore ==
  ASSUME Typed, NEW c \in Conns, NEW r, NEW new,
         new = Append(replies[c], r)
  PROVE  /\ Len(replies[c]) \in Nat /\ Len(new) = Len(replies[c]) + 1
         /\ \A i \in 1 .. Len(replies[c]) : new[i] = replies[c][i]
         /\ new[Len(replies[c]) + 1] = r /\ Last(new) = r /\ new # <<>>
<1>1. PICK S : replies \in [Conns -> Seq(S)]
  BY DEF Typed
<1>2. PICK T : T = S \cup {r}
  OBVIOUS
<1>3. PICK s : s = replies[c]
  OBVIOUS
<1>4. s \in Seq(T) /\ r \in T
  BY <1>1, <1>2, <1>3, SeqMonotonic
<1>5. Len(s) \in Nat
  BY <1>4, LenProperties
<1>6. /\ new \in Seq(T) /\ Len(new) = Len(s) + 1 /\ (\A i \in 1 .. Len(s) : new[i] = s[i])
      /\ new[Len(s) + 1] = r
  BY <1>3, <1>4, <1>5, AppendProperties
<1>7. Last(new) = r
  BY <1>6 DEF Last
<1>8. new # <<>>
  BY <1>5, <1>6, EmptySeq
<1> QED
  BY <1>3, <1>5, <1>6, <1>7, <1>8

(* Replies of any kind.                                                    *)
LEMMA TypedReply ==
  ASSUME Typed, NEW c \in Conns, NEW r,
         replies' = replies \/ replies' = [replies EXCEPT ![c] = Append(@, r)]
  PROVE  /\ \E S : replies' \in [Conns -> Seq(S)]
         /\ replies'[c] = replies[c] \/ replies'[c] = Append(replies[c], r)
         /\ \A d \in Conns : d # c => replies'[d] = replies[d]
<1>1. PICK S : replies \in [Conns -> Seq(S)]
  BY DEF Typed
<1>2. CASE replies' = replies
  BY <1>1, <1>2
<1>3. CASE replies' = [replies EXCEPT ![c] = Append(@, r)]
  <2>1. PICK T : T = S \cup {r}
    OBVIOUS
  <2>2. \A d \in Conns : replies[d] \in Seq(T)
    BY <1>1, <2>1, SeqMonotonic
  <2>3. r \in T
    BY <2>1
  <2>4. Append(replies[c], r) \in Seq(T)
    BY <2>2, <2>3, AppendProperties
  <2>5. /\ \A d \in Conns : replies'[d] = IF d = c THEN Append(replies[c], r) ELSE replies[d]
        /\ replies' = [d \in Conns |-> replies'[d]]
    BY <1>1, <1>3
  <2>6. replies' \in [Conns -> Seq(T)]
    BY <2>2, <2>4, <2>5
  <2> QED
    BY <2>5, <2>6
<1> QED
  BY <1>2, <1>3

(* What a reply does.                                                      *)
Delivered(c, r) ==
  /\ UNCHANGED <<client, fin, stream, handled, status, hangup>>
  /\ at[c] = "reply" /\ at' \in [Conns -> Places] /\ cause' \in [Conns -> Causes]
  /\ \A d \in Conns : d # c => at'[d] = at[d] /\ cause'[d] = cause[d]
  /\ left' = [left EXCEPT ![c] = @ - 1]
  /\ astray' = [astray EXCEPT ![c] = @ \/ LeavesContent(c)]
  /\ IF Writable(c) THEN replies' = [replies EXCEPT ![c] = Append(@, r)] ELSE UNCHANGED replies
  /\ \/ at'[c] = "closing" /\ cause'[c] = "gone" /\ ~Writable(c)
     \/ at'[c] = "closing" /\ cause'[c] = "asked" /\ hangup[c]
     \/ at'[c] = "closing" /\ cause'[c] = "limit" /\ left[c] = 1
     \/ at'[c] = "idle" /\ cause'[c] = cause[c] /\ ~hangup[c] /\ left[c] # 1

LEMMA ReplyDelivers ==
  ASSUME Typed, NEW c \in Conns, Reply(c)
  PROVE  \E r : /\ Delivered(c, r)
                /\ r.to = handled[c] /\ r.status = Content(c).status
                /\ r.length = Content(c).parts /\ r.close = SaysClose(c)
<1>1. PICK body :
        body = IF handled[c] # 0 /\ Request(c).method = "HEAD" THEN <<>> ELSE Content(c).parts
  OBVIOUS
<1>2. PICK r : r = [to |-> handled[c], status |-> Content(c).status,
                    length |-> Content(c).parts, body |-> body, close |-> SaysClose(c)]
  OBVIOUS
<1>3. /\ at[c] = "reply" /\ Deliver(c, r) /\ AfterReply(c, Written(c, body))
      /\ left' = [left EXCEPT ![c] = @ - 1]
      /\ astray' = [astray EXCEPT ![c] = @ \/ LeavesContent(c)]
      /\ UNCHANGED <<client, fin, stream, handled, status, hangup>>
  BY <1>1, <1>2 DEF Reply
<1>4. ASSUME NEW why \in Causes, Close(c, why)
      PROVE  /\ at' \in [Conns -> Places] /\ at'[c] = "closing"
             /\ cause' \in [Conns -> Causes] /\ cause'[c] = why
             /\ \A d \in Conns : d # c => at'[d] = at[d] /\ cause'[d] = cause[d]
  BY <1>4, Closing
<1>5. \/ Close(c, "gone") /\ ~Writable(c)
      \/ Close(c, "asked") /\ hangup[c]
      \/ Close(c, "limit") /\ left[c] = 1
      \/ Goto(c, "idle") /\ UNCHANGED cause /\ ~hangup[c] /\ left[c] # 1
  BY <1>3 DEF AfterReply, Written
<1>6. /\ at' \in [Conns -> Places] /\ cause' \in [Conns -> Causes]
      /\ \A d \in Conns : d # c => at'[d] = at[d] /\ cause'[d] = cause[d]
      /\ \/ at'[c] = "closing" /\ cause'[c] = "gone" /\ ~Writable(c)
         \/ at'[c] = "closing" /\ cause'[c] = "asked" /\ hangup[c]
         \/ at'[c] = "closing" /\ cause'[c] = "limit" /\ left[c] = 1
         \/ at'[c] = "idle" /\ cause'[c] = cause[c] /\ ~hangup[c] /\ left[c] # 1
  <2>1. {"gone", "asked", "limit"} \subseteq Causes
    BY DEF Causes
  <2>2. CASE Goto(c, "idle") /\ UNCHANGED cause /\ ~hangup[c] /\ left[c] # 1
    <3>1. at' \in [Conns -> Places] /\ at'[c] = "idle" /\ \A d \in Conns : d # c => at'[d] = at[d]
      BY <2>2, Went DEF Places
    <3> QED
      BY <2>2, <3>1 DEF Typed, Causes
  <2> QED
    BY <1>4, <1>5, <2>1, <2>2
<1>7. Delivered(c, r)
  BY <1>3, <1>6 DEF Delivered, Deliver
<1> QED
  BY <1>2, <1>7

(* What a connection looks like after a reply.                             *)
LEMMA ReplyTyped ==
  ASSUME Typed, NEW c \in Conns, ConnInv(c), NEW r, Delivered(c, r)
  PROVE  Typed' /\ Elsewhere(c)
<1>1. /\ UNCHANGED <<client, plan, unsent, queue, buffer, fin, handled, status, hangup>>
      /\ at' \in [Conns -> Places] /\ cause' \in [Conns -> Causes]
      /\ \A d \in Conns : d # c => at'[d] = at[d] /\ cause'[d] = cause[d]
  BY DEF Delivered, client, stream
<1>2. /\ \E S : replies' \in [Conns -> Seq(S)]
      /\ \A d \in Conns : d # c => replies'[d] = replies[d]
  BY TypedReply DEF Delivered
<1>3. left' \in [Conns -> 0 .. KeepAliveMax] /\ \A d \in Conns : d # c => left'[d] = left[d]
  <2>1. left[c] >= 1 /\ left[c] \in 0 .. KeepAliveMax
    BY DEF Delivered, ConnInv, Announced, Typed
  <2>2. left[c] - 1 \in 0 .. KeepAliveMax
    BY <2>1, ConnectionAssumption
  <2> QED
    BY <2>2 DEF Delivered, Typed
<1>4. astray' \in [Conns -> BOOLEAN] /\ \A d \in Conns : d # c => astray'[d] = astray[d]
  <2>1. LeavesContent(c) \in BOOLEAN /\ astray[c] \in BOOLEAN
    BY DEF LeavesContent, Typed
  <2>2. (astray[c] \/ LeavesContent(c)) \in BOOLEAN
    BY <2>1
  <2> QED
    BY <2>2 DEF Delivered, Typed
<1> QED
  BY <1>1, <1>2, <1>3, <1>4 DEF Typed, Causes, Elsewhere, Same

LEMMA ReplyOrdered ==
  ASSUME Typed, NEW c \in Conns, ConnInv(c), NEW r, Delivered(c, r), r.to = handled[c]
  PROVE  Ordered(c)'
<1>1. /\ UNCHANGED <<plan, unsent, queue, buffer, fin, handled, status, hangup>>
      /\ at[c] = "reply" /\ at'[c] \in {"closing", "idle"}
  BY DEF Delivered, client, stream
<1>2. All(c)' = All(c) /\ Gone(c)' = Gone(c) /\ Gone(c) \in Nat
  BY <1>1, StreamSame, Positions DEF ConnInv
<1>3. PICK n \in Nat, h \in Nat : n = Len(replies[c]) /\ h = handled[c]
  BY LenProperties DEF Typed
<1>4. PICK g, s : g = Gone(c) /\ s = All(c)
  OBVIOUS
<1>5. h # 0 => g >= 1 /\ h <= s[g].req
  BY <1>3, <1>4 DEF ConnInv, Ordered
<1>6. /\ \A i \in 1 .. n : To(c, i) \in Nat
      /\ \A i \in 1 .. n : To(c, i) # 0 => g >= 1 /\ To(c, i) <= s[g].req
      /\ \A i, j \in 1 .. n : i < j /\ To(c, i) # 0 /\ To(c, j) # 0 => To(c, i) < To(c, j)
      /\ h # 0 => \A i \in 1 .. n : To(c, i) < h
  BY <1>1, <1>3, <1>4 DEF ConnInv, Ordered, Exchanging
<1>7. CASE replies'[c] = replies[c]
  BY <1>1, <1>2, <1>3, <1>4, <1>5, <1>6, <1>7 DEF Ordered, To, Exchanging
<1>8. CASE replies'[c] = Append(replies[c], r)
  <2>1. PICK new : new = replies'[c]
    OBVIOUS
  <2>2. /\ Len(new) = n + 1 /\ \A i \in 1 .. n : new[i] = replies[c][i]
        /\ new[n + 1] = r
    BY <1>3, <1>8, <2>1, OneMore
  <2>3. /\ \A i \in 1 .. n : new[i].to = To(c, i)
        /\ new[n + 1].to = h
    BY <1>3, <2>2 DEF To
  <2>4. \A i \in 1 .. n + 1 : i \in 1 .. n \/ i = n + 1
    OBVIOUS
  <2>5. \A i \in 1 .. n + 1 : new[i].to \in Nat
    BY <1>6, <2>3, <2>4
  <2>6. \A i \in 1 .. n + 1 : new[i].to # 0 => g >= 1 /\ new[i].to <= s[g].req
    BY <1>5, <1>6, <2>3, <2>4
  <2>7. \A i, j \in 1 .. n + 1 : i < j /\ new[i].to # 0 /\ new[j].to # 0 => new[i].to < new[j].to
    <3> SUFFICES ASSUME NEW i \in 1 .. n + 1, NEW j \in 1 .. n + 1, i < j,
                        new[i].to # 0, new[j].to # 0
                 PROVE  new[i].to < new[j].to
      OBVIOUS
    <3>1. i \in 1 .. n
      OBVIOUS
    <3>2. CASE j \in 1 .. n
      BY <1>6, <2>3, <3>1, <3>2
    <3>3. CASE j = n + 1
      BY <1>6, <2>3, <3>1, <3>3
    <3> QED
      BY <2>4, <3>2, <3>3
  <2>8. Len(new) = n + 1 /\ h = handled'[c] /\ Gone(c)' = g /\ All(c)' = s
    BY <1>1, <1>2, <1>3, <1>4, <2>2
  <2> QED
    BY <1>1, <1>5, <2>1, <2>5, <2>6, <2>7, <2>8 DEF Ordered, To, Exchanging
<1> QED
  BY <1>7, <1>8, TypedReply DEF Delivered

LEMMA ReplyAnnounced ==
  ASSUME Typed, NEW c \in Conns, ConnInv(c), NEW r, Delivered(c, r), r.to = handled[c],
         r.close = SaysClose(c)
  PROVE  Announced(c)'
<1>1. /\ UNCHANGED <<plan, unsent, queue, buffer, fin, handled, status, hangup>>
      /\ at[c] = "reply" /\ at'[c] \in {"closing", "idle"}
      /\ at'[c] = "idle" => ~hangup[c] /\ left[c] # 1 /\ cause'[c] = cause[c]
      /\ at'[c] = "closing" => \/ cause'[c] = "gone" /\ ~Writable(c)
                               \/ cause'[c] = "asked" /\ hangup[c]
                               \/ cause'[c] = "limit" /\ left[c] = 1
  BY DEF Delivered, client, stream
<1>2. All(c)' = All(c) /\ Gone(c)' = Gone(c)
  BY <1>1, StreamSame
<1>3. Request(c)' = Request(c) /\ Passed(c)' = Passed(c)
  BY <1>1, <1>2, RequestSame DEF Passed
<1>4. /\ left[c] \in Nat /\ left[c] >= 1 /\ cause[c] \notin {"asked", "limit"}
      /\ hangup[c] => /\ handled[c] # 0 /\ Request(c).line = "good"
                      /\ AsksToClose(Request(c)) /\ Passed(c)
  BY <1>1, ConnectionAssumption DEF ConnInv, Announced, Typed
<1>5. at'[c] # "closing" => left'[c] >= 1
  <2>1. left'[c] = left[c] - 1
    BY DEF Delivered, Typed
  <2> QED
    BY <1>1, <1>4, <2>1
<1>6. hangup'[c] =>
        /\ at'[c] = "closing" /\ handled'[c] # 0 /\ Request(c).line = "good"
        /\ AsksToClose(Request(c)) /\ Passed(c)'
  BY <1>1, <1>3, <1>4
<1>7. ASSUME cause'[c] \in {"asked", "limit"}
      PROVE  /\ at'[c] = "closing"
             /\ ~fin'[c] => replies'[c] # <<>> /\
                  (Last(replies'[c]).close
                   \/ (Last(replies'[c]).to # 0
                       /\ plan[c].requests[Last(replies'[c]).to].version = "1.0"))
  <2>1. /\ at'[c] = "closing"
        /\ ((cause'[c] = "asked" /\ hangup[c]) \/ (cause'[c] = "limit" /\ left[c] = 1))
    BY <1>1, <1>4, <1>7
  <2> SUFFICES ASSUME ~fin'[c]
               PROVE  replies'[c] # <<>> /\
                        (Last(replies'[c]).close
                         \/ (Last(replies'[c]).to # 0
                             /\ plan[c].requests[Last(replies'[c]).to].version = "1.0"))
    BY <2>1
  <2>2. Writable(c)
    BY <1>1 DEF Writable, Deaf
  <2>3. replies'[c] = Append(replies[c], r)
    <3>1. PICK S : replies \in [Conns -> Seq(S)]
      BY DEF Typed
    <3> QED
      BY <2>2, <3>1 DEF Delivered
  <2>4. replies'[c] # <<>> /\ Last(replies'[c]) = r
    <3>1. PICK new : new = Append(replies[c], r)
      OBVIOUS
    <3>2. PICK n \in Nat : n = Len(replies[c])
      BY LenProperties DEF Typed
    <3>3. Len(new) = n + 1 /\ new[n + 1] = r
      BY <3>1, <3>2, OneMore
    <3>4. Last(new) = r
      BY <3>3 DEF Last
    <3>5. new # <<>>
      BY <3>2, <3>3
    <3> QED
      BY <2>3, <3>1, <3>4, <3>5
  <2>5. r.close \/ (r.to # 0 /\ plan[c].requests[r.to].version = "1.0")
    <3>1. CASE left[c] = 1
      BY <3>1 DEF SaysClose
    <3>2. CASE hangup[c]
      <4>1. HeaderRead(c)
        BY <1>4, <3>2, UnreadIs DEF ConnInv
      <4>2. CASE Request(c).closes
        BY <1>4, <3>2, <4>1, <4>2 DEF SaysClose
      <4>3. CASE Request(c).version = "1.0"
        BY <1>4, <3>2, <4>3 DEF Request
      <4> QED
        BY <1>4, <3>2, <4>2, <4>3 DEF AsksToClose
    <3> QED
      BY <2>1, <3>1, <3>2
  <2> QED
    BY <2>4, <2>5
<1>8. at'[c] # "headers"
  BY <1>1
<1> QED
  BY <1>1, <1>3, <1>5, <1>6, <1>7, <1>8 DEF Announced, AsksToClose

LEMMA ReplyRanged ==
  ASSUME Typed, NEW c \in Conns, ConnInv(c), NEW r, Delivered(c, r), r.to = handled[c],
         r.status = Content(c).status, r.length = Content(c).parts
  PROVE  Ranged(c)'
<1>1. plan' = plan /\ at[c] = "reply" /\ at'[c] \in {"closing", "idle"}
  BY DEF Delivered, client
<1>2. ASSUME r.status = 206 PROVE PartialReply(c, r)
  <2>1. /\ status[c] = 206
        /\ ApplyRanges(Request(c).ranges, PageLength) = [status |-> 206, parts |-> r.length]
    <3>1. Content(c).status = 206
      BY <1>2
    <3>2. /\ status[c] = 206
          /\ ApplyRanges(Request(c).ranges, PageLength)
               = [status |-> 206, parts |-> Content(c).parts]
      BY <3>1, PartialContent
    <3>3. r.length = Content(c).parts
      OBVIOUS
    <3> QED
      BY <3>2, <3>3
  <2>2. handled[c] # 0 /\ ParseRangeHeader(Request(c).ranges)
    BY <1>1, <2>1 DEF ConnInv, Ranged
  <2>3. Request(c) = plan[c].requests[r.to]
    BY DEF Request
  <2>4. r.to \in 1 .. Len(plan[c].requests)
    <3>1. PICK n \in Nat, m \in Nat : n = r.to /\ m = Len(plan[c].requests)
      BY Along DEF Typed
    <3>2. PICK g \in Nat, t \in Nat, k \in Nat :
            g = Gone(c) /\ t = Sent(c) /\ k = Len(All(c)) /\ g <= t /\ t <= k
      BY Positions DEF ConnInv
    <3>3. g >= 1 /\ n <= All(c)[g].req /\ n # 0
      BY <2>2, <3>1, <3>2 DEF ConnInv, Ordered
    <3>4. g \in 1 .. k
      BY <3>2, <3>3
    <3>5. All(c)[g].req \in 1 .. m
      BY <3>1, <3>2, <3>4, Along
    <3> QED
      BY <3>1, <3>3, <3>5
  <2> QED
    BY <2>1, <2>2, <2>3, <2>4 DEF PartialReply
<1>3. \A i \in 1 .. Len(replies[c]) : replies[c][i].status = 206 => PartialReply(c, replies[c][i])
  BY DEF ConnInv, Ranged
<1>4. \A i \in 1 .. Len(replies'[c]) :
        replies'[c][i].status = 206 => PartialReply(c, replies'[c][i])
  <2>1. CASE replies'[c] = replies[c]
    BY <1>3, <2>1
  <2>2. CASE replies'[c] = Append(replies[c], r)
    <3>1. PICK n \in Nat, new \in {replies'[c]} : n = Len(replies[c]) /\ new = replies'[c]
      BY <2>2, OneMore
    <3>2. /\ Len(new) = n + 1 /\ \A i \in 1 .. n : new[i] = replies[c][i]
          /\ new[n + 1] = r
      BY <2>2, <3>1, OneMore
    <3>3. \A i \in 1 .. n + 1 : i \in 1 .. n \/ i = n + 1
      BY <3>1
    <3>4. \A i \in 1 .. n + 1 : new[i].status = 206 => PartialReply(c, new[i])
      BY <1>2, <1>3, <3>1, <3>2, <3>3
    <3> QED
      BY <3>1, <3>2, <3>4
  <2> QED
    BY <2>1, <2>2, TypedReply DEF Delivered
<1> QED
  BY <1>1, <1>4 DEF Ranged, PartialReply

(* When a reply leaves nothing of its request in the socket, the next part *)
(* is the line of the next request.                                        *)
LEMMA NothingLeft ==
  ASSUME Typed, NEW c \in Conns, ConnInv(c), at[c] = "reply", plan[c].polite, ~astray[c],
         ~LeavesContent(c)
  PROVE  /\ buffer[c] = <<>>
         /\ \/ fin[c] /\ Gone(c) = Sent(c)
            \/ Gone(c) = Len(All(c))
            \/ /\ All(c)[Gone(c) + 1].what = "line"
               /\ All(c)[Gone(c) + 1].req = Len(replies[c]) + 2
         /\ Gone(c) = Sent(c)
<1>1. InStep(c)
  BY DEF ConnInv, InTurn
<1>2. PICK n \in Nat : n = Len(replies[c]) + 1
  BY LenProperties DEF Typed
<1>3. PICK s : s = All(c)
  OBVIOUS
<1>4. PICK g \in Nat, t \in Nat, k \in Nat, b \in Nat, q \in Nat :
        g = Gone(c) /\ t = Sent(c) /\ k = Len(s) /\ b = Len(buffer[c]) /\ q = Len(queue[c])
  BY <1>3, Positions, Lengths DEF ConnInv
<1>5. g <= t /\ t <= k /\ t = g + b + q
  BY <1>3, <1>4, Positions, Lengths DEF ConnInv
<1>6. handled[c] = n /\ g >= 1 /\ s[g].req = n /\ n # 0
  <2>1. handled[c] = n /\ g >= 1 /\ s[g].req = n
    BY <1>1, <1>2, <1>3, <1>4 DEF InStep, Exchanging
  <2>2. Len(replies[c]) \in Nat
    BY LenProperties DEF Typed
  <2> QED
    BY <1>2, <2>1, <2>2
<1>7. AllRead(c)
  <2>1. CASE Unread(c) = {}
    BY <2>1, UnreadIs DEF AllRead, ConnInv
  <2>2. CASE Unread(c) # {}
    <3>1. status[c] \notin {400, 414, 415, 416} /\ ExpectContent(Request(c))
      BY <1>6, <2>2 DEF LeavesContent
    <3> QED
      BY <1>1, <3>1 DEF InStep
  <2> QED
    BY <2>1, <2>2
<1>8. g = t => buffer[c] = <<>>
  <2>1. g = t => b = 0
    BY <1>4, <1>5
  <2> QED
    BY <1>4, <2>1, EmptySeq DEF Typed
<1>9. CASE fin[c] /\ g = t
  BY <1>4, <1>8, <1>9
<1>10. CASE \A i \in g + 1 .. k : s[i].req # n
  <2>1. CASE g = k
    <3>1. g = t
      BY <1>5, <2>1
    <3> QED
      BY <1>3, <1>4, <1>8, <2>1, <3>1
  <2>2. CASE g # k
    <3>1. g \in 1 .. k - 1 /\ g + 1 \in g + 1 .. k /\ g + 1 \in 1 .. k
      BY <1>4, <1>5, <1>6, <2>2
    <3>2. s[g + 1].req # n
      BY <1>10, <3>1
    <3>3. s[g + 1].what = "line" /\ s[g + 1].req = n + 1
      BY <1>3, <1>4, <1>6, <3>1, <3>2, Along
    <3>4. g = t
      <4>1. ASSUME g # t PROVE FALSE
        <5>1. g + 1 \in g + 1 .. t
          BY <1>4, <1>5, <4>1
        <5>2. s[g + 1].req <= n
          BY <1>2, <1>3, <1>4, <5>1 DEF ConnInv, InTurn
        <5> QED
          BY <3>3, <5>2
      <4> QED
        BY <4>1
    <3>5. n + 1 = Len(replies[c]) + 2
      <4>1. Len(replies[c]) \in Nat
        BY LenProperties DEF Typed
      <4> QED
        BY <1>2, <4>1
    <3> QED
      BY <1>3, <1>4, <1>8, <3>3, <3>4, <3>5
  <2> QED
    BY <2>1, <2>2
<1> QED
  BY <1>3, <1>4, <1>6, <1>7, <1>9, <1>10 DEF AllRead

LEMMA ReplyWaiting ==
  ASSUME Typed, NEW c \in Conns, ConnInv(c), NEW r, Delivered(c, r), r.to = handled[c]
  PROVE  InTurn(c)'
<1>1. /\ UNCHANGED <<plan, unsent, queue, buffer, fin, handled, status, hangup>>
      /\ at[c] = "reply" /\ at'[c] \in {"closing", "idle"}
      /\ astray'[c] = (astray[c] \/ LeavesContent(c))
  BY DEF Delivered, client, stream, Typed
<1>2. All(c)' = All(c) /\ Gone(c)' = Gone(c) /\ Sent(c)' = Sent(c)
  BY <1>1, StreamSame
<1>3. PICK n \in Nat : n = Len(replies[c])
  BY LenProperties DEF Typed
<1>4. PICK g \in Nat, t \in Nat, k \in Nat, s \in {All(c)} :
        g = Gone(c) /\ t = Sent(c) /\ s = All(c) /\ k = Len(s) /\ t <= k
  <2>1. PICK g \in Nat, t \in Nat, k \in Nat :
          g = Gone(c) /\ t = Sent(c) /\ k = Len(All(c)) /\ t <= k
    BY Positions DEF ConnInv
  <2> QED
    BY <2>1
<1>5. PICK new : new = replies'[c]
  OBVIOUS
<1>6. \/ new = replies[c] /\ ~Writable(c)
      \/ /\ Len(new) = n + 1 /\ \A i \in 1 .. n : new[i] = replies[c][i]
         /\ new[n + 1] = r
  <2>1. PICK S : replies \in [Conns -> Seq(S)]
    BY DEF Typed
  <2>2. CASE ~Writable(c)
    BY <1>5, <2>2 DEF Delivered
  <2>3. CASE Writable(c)
    <3>1. new = Append(replies[c], r)
      BY <1>5, <2>1, <2>3 DEF Delivered
    <3> QED
      BY <1>3, <3>1, OneMore
  <2> QED
    BY <2>2, <2>3
<1>7. Len(new) = n \/ Len(new) = n + 1
  BY <1>3, <1>6
<1> SUFFICES ASSUME plan[c].polite
             PROVE  /\ \A i \in g + 1 .. t : s[i].req <= Len(new) + 1
                    /\ ~astray'[c] => InStep(c)'
  BY <1>1, <1>2, <1>4, <1>5 DEF InTurn
<1>8. \A i \in g + 1 .. t : s[i].req <= Len(new) + 1
  <2> SUFFICES ASSUME NEW i \in g + 1 .. t PROVE s[i].req <= Len(new) + 1
    OBVIOUS
  <2>1. s[i].req <= n + 1
    BY <1>3, <1>4 DEF ConnInv, InTurn
  <2>2. i \in 1 .. k
    BY <1>4
  <2>3. PICK m \in Nat : s[i].req \in 1 .. m
    BY <1>4, <2>2, Along
  <2> QED
    BY <1>3, <1>7, <2>1, <2>3
<1>9. ASSUME ~astray'[c] PROVE InStep(c)'
  <2>1. ~astray[c] /\ ~LeavesContent(c)
    BY <1>1, <1>9
  <2>2. InStep(c)
    BY <2>1 DEF ConnInv, InTurn
  <2>3. handled[c] = n + 1 /\ \A i \in 1 .. n : To(c, i) = i
    BY <1>1, <1>3, <2>2 DEF InStep, Exchanging
  <2>4. \A i \in 1 .. Len(new) : new[i].to = i
    <3>1. CASE new = replies[c]
      BY <1>3, <2>3, <3>1 DEF To
    <3>2. CASE /\ Len(new) = n + 1 /\ \A i \in 1 .. n : new[i] = replies[c][i]
               /\ new[n + 1] = r
      <4>1. \A i \in 1 .. n : new[i].to = i
        BY <2>3, <3>2 DEF To
      <4>2. new[n + 1].to = n + 1
        BY <2>3, <3>2
      <4>3. \A i \in 1 .. n + 1 : i \in 1 .. n \/ i = n + 1
        BY <1>3
      <4> QED
        BY <3>2, <4>1, <4>2, <4>3
    <3> QED
      BY <1>6, <3>1, <3>2
  <2>5. /\ buffer[c] = <<>> /\ g = t
        /\ \/ fin[c]
           \/ g = k
           \/ s[g + 1].what = "line" /\ s[g + 1].req = n + 2
    BY <1>1, <1>3, <1>4, <2>1, NothingLeft
  <2>6. Fresh(c)'
    <3>1. CASE fin[c]
      BY <1>1, <1>2, <1>4, <2>5, <3>1 DEF Fresh
    <3>2. CASE g = k
      BY <1>2, <1>4, <3>2 DEF Fresh
    <3>3. CASE ~fin[c] /\ s[g + 1].what = "line" /\ s[g + 1].req = n + 2
      <4>1. Writable(c)
        BY <3>3 DEF Writable, Deaf
      <4>2. Len(new) + 1 = n + 2
        BY <1>3, <1>6, <4>1
      <4> QED
        BY <1>2, <1>4, <1>5, <3>3, <4>2 DEF Fresh
    <3> QED
      BY <2>5, <3>1, <3>2, <3>3
  <2> QED
    BY <1>1, <1>5, <2>4, <2>5, <2>6 DEF InStep, To, Exchanging
<1> QED
  BY <1>8, <1>9

(* A reply keeps the invariant of its connection.                          *)
LEMMA ReplyInv ==
  ASSUME Typed, NEW c \in Conns, ConnInv(c), Reply(c)
  PROVE  Typed' /\ ConnInv(c)' /\ Elsewhere(c)
<1>1. PICK r : /\ Delivered(c, r)
               /\ r.to = handled[c] /\ r.status = Content(c).status
               /\ r.length = Content(c).parts /\ r.close = SaysClose(c)
  BY ReplyDelivers
<1>2. Streaming(c)'
  BY <1>1, StreamSame DEF Delivered, client, stream, ConnInv
<1> QED
  BY <1>1, <1>2, ReplyTyped, ReplyOrdered, ReplyAnnounced, ReplyRanged, ReplyWaiting DEF ConnInv

-----------------------------------------------------------------------------
(* The invariant of all connections.                                       *)

(* A step of one connection.                                               *)
LEMMA ElsewhereInv ==
  ASSUME EInv, NEW c \in Conns, Typed', ConnInv(c)', Elsewhere(c), UNCHANGED addresses
  PROVE  EInv'
<1>1. ASSUME NEW d \in Conns PROVE ConnInv(d)'
  <2>1. CASE d = c
    BY <2>1
  <2>2. CASE d # c
    <3>1. plan' = plan /\ Same(d) /\ ConnInv(d)
      BY <2>2 DEF Elsewhere, EInv
    <3> QED
      BY <3>1, SameInv
  <2> QED
    BY <2>1, <2>2
<1> QED
  BY <1>1 DEF EInv

LEMMA ExchangeInv ==
  ASSUME EInv, NEW c \in Conns, Exchange(c), UNCHANGED pool
  PROVE  EInv'
<1>1. Typed /\ ConnInv(c) /\ UNCHANGED addresses
  BY DEF EInv, pool
<1>2. Typed' /\ ConnInv(c)' /\ Elsewhere(c)
  <2>1. CASE KeepAlive(c) \/ KeepAliveTimeout(c) \/ CloseSocket(c)
    BY <1>1, <2>1, KeepAliveInv, KeepAliveTimeoutInv, CloseSocketInv
  <2>2. CASE RequestLine(c) \/ RequestLineMissing(c)
    BY <1>1, <2>2, RequestLineInv, RequestLineMissingInv
  <2>3. CASE HeaderLine(c) \/ HeadersMissing(c)
    BY <1>1, <2>3, HeaderLineInv, HeadersMissingInv
  <2>4. CASE Route(c) \/ ReadContent(c) \/ ContentEnds(c)
    BY <1>1, <2>4, RouteInv, ReadContentInv, ContentEndsInv
  <2>5. CASE Handler(c) \/ Reply(c)
    BY <1>1, <2>5, HandlerInv, ReplyInv
  <2> QED
    BY <2>1, <2>2, <2>3, <2>4, <2>5 DEF Exchange
<1> QED
  BY <1>1, <1>2, ElsewhereInv

LEMMA ClientStepInv ==
  ASSUME EInv, NEW c \in Conns, ClientStep(c), UNCHANGED pool
  PROVE  EInv'
<1>1. Typed /\ ConnInv(c) /\ UNCHANGED addresses
  BY DEF EInv, pool
<1>2. Typed' /\ ConnInv(c)' /\ Elsewhere(c)
  BY <1>1, FinishInv, SendInv DEF ClientStep
<1> QED
  BY <1>1, <1>2, ElsewhereInv

(* A connection is moved towards its thread.                               *)
LEMMA TowardsThread ==
  ASSUME EInv, NEW c \in Conns, at[c] \in Before,
         NEW p \in {"backlog", "accepted", "queued", "idle"}, Goto(c, p),
         UNCHANGED <<client, fin, stream, exchange, replies, history, addresses>>
  PROVE  EInv'
<1>1. Typed /\ ConnInv(c) /\ p \in Places
  BY DEF EInv, Places
<1>2. at' \in [Conns -> Places] /\ at'[c] = p /\ \A d \in Conns : d # c => at'[d] = at[d]
  BY <1>1, Went
<1>3. Typed'
  BY <1>1, <1>2, TypedMoved DEF Typed, Causes, history
<1>4. Placed(c)
  BY <1>2 DEF Placed, client, stream, exchange, history
<1>5. Elsewhere(c)
  BY <1>2 DEF Elsewhere, Same, client, stream, exchange, history
<1> QED
  BY <1>1, <1>3, <1>4, <1>5, PlacedInv, ElsewhereInv

LEMMA RefusedInv ==
  ASSUME EInv, AcceptFails
  PROVE  EInv'
<1>1. /\ at' = [c \in Conns |-> IF at[c] = "backlog" THEN "closed" ELSE at[c]]
      /\ cause' = [c \in Conns |-> IF at[c] = "backlog" THEN "refused" ELSE cause[c]]
      /\ UNCHANGED <<client, fin, stream, exchange, replies, astray, addresses>>
  BY DEF AcceptFails
<1>2. at' \in [Conns -> Places] /\ cause' \in [Conns -> Causes] /\ Typed
  BY <1>1 DEF EInv, Typed, Places, Causes
<1>3. Typed'
  BY <1>1, <1>2, TypedMoved DEF Typed
<1>4. ASSUME NEW c \in Conns PROVE ConnInv(c)'
  <2>1. ConnInv(c)
    BY DEF EInv
  <2>2. CASE at[c] = "backlog"
    <3>1. Placed(c)
      BY <1>1, <2>2 DEF Placed, client, stream, exchange
    <3> QED
      BY <1>2, <2>1, <3>1, PlacedInv
  <2>3. CASE at[c] # "backlog"
    <3>1. plan' = plan /\ Same(c)
      BY <1>1, <2>3 DEF Same, client, stream, exchange
    <3> QED
      BY <2>1, <3>1, SameInv
  <2> QED
    BY <2>2, <2>3
<1> QED
  BY <1>1, <1>3, <1>4 DEF EInv

(* Nothing has happened to a connection.                                   *)
LEMMA ConnectionStill ==
  ASSUME EInv, UNCHANGED connection, addresses' \in 0 .. MaxAddresses
  PROVE  EInv'
<1>1. Typed'
  <2>1. UNCHANGED <<client, stream, exchange, replies, astray>> /\ UNCHANGED <<fin, at, cause>>
    BY DEF connection, history
  <2>2. Typed
    BY DEF EInv
  <2> QED
    BY <2>1, <2>2, TypedMoved DEF Typed, Causes
<1>2. ASSUME NEW c \in Conns PROVE ConnInv(c)'
  <2>1. plan' = plan /\ Same(c)
    BY DEF Same, connection, client, stream, exchange, history
  <2>2. ConnInv(c)
    BY DEF EInv
  <2> QED
    BY <2>1, <2>2, SameInv
<1> QED
  BY <1>1, <1>2 DEF EInv

(* It holds at first.                                                      *)
LEMMA EInit == Init => EInv
<1> SUFFICES ASSUME Init PROVE EInv
  OBVIOUS
<1> USE DEF Init, ConnectionInit
<1>1. addresses \in 0 .. MaxAddresses /\ plan \in Workloads
  OBVIOUS
<1>2. ASSUME NEW c \in Conns
      PROVE  /\ unsent[c] = All(c) /\ queue[c] = <<>> /\ buffer[c] = <<>> /\ replies[c] = <<>>
             /\ at[c] = "none" /\ left[c] = KeepAliveMax /\ handled[c] = 0 /\ ~hangup[c]
             /\ cause[c] = "none"
  BY DEF All
<1>3. ASSUME NEW c \in Conns PROVE unsent[c] \in Seq(Parts)
  <2>1. PICK n \in Nat : n = Len(plan[c].requests)
    BY <1>1, PlanShape, LenProperties
  <2>2. All(c) \in Seq([req : 1 .. n, what : Kinds])
    BY <1>1, <2>1, PlanShape DEF Shape
  <2>3. [req : 1 .. n, what : Kinds] \subseteq Parts
    BY DEF Parts
  <2> QED
    BY <1>2, <2>2, <2>3, SeqMonotonic
<1>4. Typed
  <2>1. unsent \in [Conns -> Seq(Parts)]
    BY <1>3
  <2>2. queue \in [Conns -> Seq(Parts)] /\ buffer \in [Conns -> Seq(Parts)]
    OBVIOUS
  <2>3. left \in [Conns -> 0 .. KeepAliveMax]
    BY ConnectionAssumption
  <2>4. \E S : replies \in [Conns -> Seq(S)]
    <3>1. replies \in [Conns -> Seq({})]
      OBVIOUS
    <3> QED
      BY <3>1
  <2> QED
    BY <1>1, <2>1, <2>2, <2>3, <2>4 DEF Typed, Places, Statuses, Causes
<1>5. ASSUME NEW c \in Conns PROVE ConnInv(c)
  <2>1. PICK k \in Nat : k = Len(All(c))
    BY <1>4, Along
  <2>2. Len(unsent[c]) = k /\ Len(queue[c]) = 0 /\ Len(buffer[c]) = 0 /\ Len(replies[c]) = 0
    BY <1>2, <2>1
  <2>3. Sent(c) = 0
    BY <2>1, <2>2 DEF Sent
  <2>4. Gone(c) = 0
    <3>1. PICK t, q, b : t = Sent(c) /\ q = Len(queue[c]) /\ b = Len(buffer[c])
      OBVIOUS
    <3>2. Gone(c) = t - q - b
      BY <3>1 DEF Gone
    <3>3. t = 0 /\ q = 0 /\ b = 0
      BY <2>2, <2>3, <3>1
    <3> QED
      BY <3>2, <3>3
  <2>5. Streaming(c)
    BY <1>2, <2>1, <2>2, <2>3, <2>4 DEF Streaming
  <2>6. Ordered(c)
    BY <1>2, <2>2 DEF Ordered, Exchanging
  <2>7. Announced(c)
    BY <1>2, ConnectionAssumption DEF Announced
  <2>8. Ranged(c)
    BY <1>2, <2>2 DEF Ranged
  <2>9. Fresh(c)
    <3>1. k > 0 => All(c)[1].what = "line" /\ All(c)[1].req = 1
      BY <1>4, <2>1, Along
    <3> QED
      BY <2>1, <2>2, <2>4, <3>1 DEF Fresh
  <2>10. InTurn(c)
    BY <1>2, <2>2, <2>3, <2>4, <2>9 DEF InTurn, InStep, Exchanging
  <2> QED
    BY <2>5, <2>6, <2>7, <2>8, <2>10 DEF ConnInv
<1> QED
  BY <1>1, <1>4, <1>5 DEF EInv

(* Every step keeps it, where TakeJob takes what IInv says is queued.      *)
LEMMA ENext == IInv /\ EInv /\ [Next]_vars => EInv'
<1> SUFFICES ASSUME IInv, EInv, [Next]_vars PROVE EInv'
  OBVIOUS
<1>0. addresses \in 0 .. MaxAddresses
  BY DEF EInv
<1>1. ASSUME NEW c \in Conns, Connect(c) PROVE EInv'
  BY <1>1, TowardsThread DEF Connect, Before, pool
<1>2. ASSUME NEW c \in Conns, ClientStep(c), UNCHANGED pool PROVE EInv'
  BY <1>2, ClientStepInv
<1>3. ASSUME NEW c \in Conns, Accept(c) PROVE EInv'
  BY <1>3, TowardsThread DEF Accept, Before
<1>4. ASSUME NEW c \in Conns, Enqueue(c) PROVE EInv'
  BY <1>4, TowardsThread DEF Enqueue, Before
<1>5. CASE TryAddress \/ BindFails
  <2>1. UNCHANGED connection
    BY <1>5 DEF TryAddress, BindFails
  <2>2. /\ addresses' \in {0, addresses, addresses - 1}
        /\ addresses' = addresses - 1 => addresses > 0
    BY <1>0, <1>5 DEF TryAddress, BindFails
  <2>3. addresses' \in 0 .. MaxAddresses
    BY <1>0, <2>2, ServerAssumption
  <2> QED
    BY <2>1, <2>3, ConnectionStill
<1>6. CASE NotifyOne \/ Shutdown \/ Join
  BY <1>0, <1>6, ConnectionStill DEF NotifyOne, Shutdown, Join
<1>7. CASE AcceptFails
  BY <1>7, RefusedInv
<1>8. ASSUME NEW t \in Threads, TakeJob(t) PROVE EInv'
  <2>1. PICK c : c = Head(jobs)
    OBVIOUS
  <2>2. /\ jobs # <<>> /\ Goto(c, "idle")
        /\ UNCHANGED <<client, fin, stream, exchange, replies, history, addresses>>
    BY <1>8, <2>1 DEF TakeJob
  <2>3. c \in Conns /\ c = jobs[1] /\ 1 \in 1 .. Len(jobs)
    BY <2>1, <2>2, HeadTailProperties, EmptySeq, LenProperties DEF IInv, PoolTypes
  <2>4. at[c] \in Before
    BY <2>3 DEF IInv, Queued, Before
  <2> QED
    BY <2>2, <2>3, <2>4, TowardsThread
<1>9. ASSUME NEW t \in Threads, NoJob(t) \/ JobDone(t) PROVE EInv'
  BY <1>0, <1>9, ConnectionStill DEF NoJob, JobDone
<1>10. ASSUME NEW t \in Threads, Serve(t) PROVE EInv'
  BY <1>10, ExchangeInv DEF Serve
<1>11. CASE UNCHANGED vars
  BY <1>0, <1>11, ConnectionStill DEF vars, pool
<1> QED
  BY <1>1, <1>2, <1>3, <1>4, <1>5, <1>6, <1>7, <1>8, <1>9, <1>10, <1>11
     DEF Next, Listen, Thread

LEMMA EInvariance == Spec => []EInv
<1>1. Init => EInv /\ IInv
  BY EInit, InitInv
<1>2. EInv /\ IInv /\ [Next]_vars => EInv' /\ IInv'
  BY ENext, NextInv
<1> QED
  BY <1>1, <1>2, PTL DEF Spec

(* The rest of a sequence is a suffix of it.                               *)
LEMMA RestIsSuffix ==
  ASSUME NEW S, NEW s \in Seq(S), NEW t \in Seq(S), NEW k \in Nat,
         Len(s) = k + Len(t), \A i \in 1 .. Len(t) : t[i] = s[k + i]
  PROVE  IsSuffix(t, s)
<1>1. PICK n \in Nat, m \in Nat : n = Len(s) /\ m = Len(t) /\ n = k + m
  BY LenProperties
<1>2. \A i \in 1 .. m : t[i] = s[k + i]
  BY <1>1
<1>3. PICK r, q : r = Reverse(t) /\ q = Reverse(s)
  OBVIOUS
<1>4. /\ r = [i \in 1 .. m |-> t[m - i + 1]]
      /\ q = [i \in 1 .. n |-> s[n - i + 1]]
  BY <1>1, <1>3 DEF Reverse
<1>5. \A i \in 1 .. n : s[n - i + 1] \in S
  BY <1>1, ElementOfSeq
<1>6. \A i \in 1 .. m : t[m - i + 1] = s[n - i + 1] /\ i \in 1 .. n
  <2> SUFFICES ASSUME NEW i \in 1 .. m PROVE t[m - i + 1] = s[n - i + 1] /\ i \in 1 .. n
    OBVIOUS
  <2>1. PICK j \in 1 .. m : j = m - i + 1
    OBVIOUS
  <2>2. k + j = n - i + 1 /\ i \in 1 .. n
    BY <1>1, <2>1
  <2>3. t[j] = s[k + j]
    BY <1>2
  <2> QED
    BY <2>1, <2>2, <2>3
<1>7. q \in [1 .. n -> S] /\ r \in [1 .. m -> S]
  BY <1>4, <1>5, <1>6
<1>8. q \in Seq(S) /\ r \in Seq(S) /\ Len(q) = n /\ Len(r) = m
  <2>1. q \in Seq(S) /\ r \in Seq(S)
    <3>1. q \in Seq(S)
      BY <1>7, SeqDef
    <3>2. r \in Seq(S)
      BY <1>7, SeqDef
    <3> QED
      BY <3>1, <3>2
  <2>2. DOMAIN q = 1 .. n /\ DOMAIN r = 1 .. m
    BY <1>7
  <2> QED
    BY <1>1, <2>1, <2>2, LenProperties
<1>9. SubSeq(r, 1, m) = r
  BY <1>8, SubSeqFull
<1>10. SubSeq(q, 1, m) = r
  <2>1. \A i \in 1 .. m : q[i] = r[i] /\ q[i] \in S
    BY <1>4, <1>5, <1>6
  <2>2. PICK u : u = SubSeq(q, 1, m)
    OBVIOUS
  <2>3. /\ u \in Seq(S) /\ Len(u) = m
        /\ \A i \in 1 .. m : u[i] = q[i]
    BY <1>1, <2>1, <2>2, SubSeqProperties
  <2>4. u = r
    BY <1>8, <2>1, <2>3, SeqEqual
  <2> QED
    BY <2>2, <2>4
<1> QED
  BY <1>1, <1>3, <1>8, <1>9, <1>10 DEF IsSuffix, IsPrefix

-----------------------------------------------------------------------------
(* What follows.                                                           *)

LEMMA Sound == Spec => [](IInv /\ EInv)
BY Invariance, EInvariance, PTL

(* The connections are of their types.                                     *)
LEMMA ConnectionTypes == EInv => ConnectionTypeOK
<1> SUFFICES ASSUME EInv PROVE ConnectionTypeOK
  OBVIOUS
<1>1. ASSUME NEW c \in Conns
      PROVE  /\ IsSuffix(unsent[c], AllParts(plan[c]))
             /\ left[c] \in 0 .. KeepAliveMax
             /\ handled[c] \in 0 .. Len(plan[c].requests)
  <2>1. Typed /\ ConnInv(c)
    BY DEF EInv
  <2>2. PICK n \in Nat : n = Len(plan[c].requests)
    BY <2>1, Along
  <2>3. PICK s, u : s = All(c) /\ u = unsent[c]
    OBVIOUS
  <2>4. s \in Seq(Parts) /\ u \in Seq(Parts)
    <3>1. s \in Seq([req : 1 .. n, what : Kinds])
      BY <2>1, <2>2, <2>3, PlanShape DEF Typed, Shape
    <3>2. [req : 1 .. n, what : Kinds] \subseteq Parts
      BY DEF Parts
    <3>3. s \in Seq(Parts)
      BY <3>1, <3>2, SeqMonotonic
    <3> QED
      BY <2>1, <2>3, <3>3 DEF Typed
  <2>5. PICK t \in Nat : t = Sent(c) /\ Len(s) = t + Len(u)
    BY <2>1, <2>3, Lengths DEF ConnInv
  <2>6. \A i \in 1 .. Len(u) : u[i] = s[t + i]
    BY <2>1, <2>3, <2>5 DEF ConnInv, Streaming
  <2>7. IsSuffix(u, s)
    BY <2>4, <2>5, <2>6, RestIsSuffix
  <2>8. handled[c] \in 0 .. n
    <3>1. CASE handled[c] = 0
      BY <2>2, <3>1
    <3>2. CASE handled[c] # 0
      <4>1. PICK g \in Nat, k \in Nat : g = Gone(c) /\ k = Len(s) /\ g <= k
        <5>1. PICK g \in Nat, v \in Nat, k \in Nat :
                g = Gone(c) /\ v = Sent(c) /\ k = Len(All(c)) /\ g <= v /\ v <= k
          BY <2>1, Positions DEF ConnInv
        <5> QED
          BY <2>3, <5>1
      <4>2. g >= 1 /\ handled[c] <= s[g].req
        BY <2>1, <2>3, <3>2, <4>1 DEF ConnInv, Ordered
      <4>3. s[g].req \in 1 .. n
        BY <2>1, <2>2, <2>3, <4>1, <4>2, Along
      <4>4. handled[c] \in Nat
        BY <2>1 DEF Typed
      <4> QED
        BY <2>2, <4>2, <4>3, <4>4
    <3> QED
      BY <3>1, <3>2
  <2> QED
    BY <2>1, <2>2, <2>3, <2>7, <2>8 DEF All, Typed
<1>2. Typed
  BY DEF EInv
<1> QED
  BY <1>1, <1>2 DEF ConnectionTypeOK, Typed, Statuses, Causes

(* The types of the pool and of the connections: what is unsent is the end *)
(* of what a client sends, and a connection carries no more requests than  *)
(* keep_alive_max_count_ (httplib.hpp 2525-2577, 4604-4628, 5823-5977).    *)
THEOREM TypeCorrectness == Spec => []TypeOK
<1>1. IInv /\ EInv => TypeOK
  BY ConnectionTypes DEF IInv, PoolTypes, EInv, TypeOK
<1> QED
  BY <1>1, Sound, PTL

(* Types, one owner for each connection, and a connection that the server  *)
(* ends for a limit or a request has been told so in its last reply        *)
(* (httplib.hpp 5525-5605, 5840-5870, 5905-5970).                          *)
THEOREM ConsistentHolds == Spec => []Consistent
<1>1. EInv => CloseAnnounced
  BY DEF EInv, ConnInv, Announced, CloseAnnounced
<1>2. EInv /\ TypeOK /\ OneOwner => Consistent
  BY <1>1 DEF Consistent
<1> QED
  BY <1>2, EInvariance, TypeCorrectness, OneOwnerHolds, PTL

(* What a partial reply has to be.                                         *)
Honoured(c, r) ==
  LET ranges == plan[c].requests[r.to].ranges
      parts  == r.length
  IN /\ Len(parts) = Len(ranges)
     /\ \A n \in DOMAIN parts :
          /\ parts[n].bytes = Selected(ranges[n], PageLength)
          /\ ranges[n][2] < PageLength =>
               parts[n].range = <<Min(parts[n].bytes), Max(parts[n].bytes)>>

(* A partial reply holds what was asked for.                               *)
LEMMA PartialReplyHonoured ==
  ASSUME Typed, NEW c \in Conns, NEW r, PartialReply(c, r)
  PROVE  Honoured(c, r)
<1>1. PICK ranges, parts : ranges = plan[c].requests[r.to].ranges /\ parts = r.length
  OBVIOUS
<1>2. /\ r.to \in 1 .. Len(plan[c].requests)
      /\ ParseRangeHeader(ranges)
      /\ ApplyRanges(ranges, PageLength) = [status |-> 206, parts |-> parts]
  BY <1>1 DEF PartialReply
<1>3. PICK m \in Nat : /\ ranges \in Seq(Numbers \X Numbers) /\ m = Len(ranges)
                       /\ DOMAIN ranges = 1 .. m
  <2>1. PICK q : q = plan[c].requests[r.to]
    OBVIOUS
  <2>2. q \in Requests
    BY <1>2, <2>1, PlanShape, ElementOfSeq DEF Typed
  <2>3. ranges \in Seq(Numbers \X Numbers)
    BY <1>1, <2>1, <2>2 DEF Requests
  <2> QED
    BY <2>3, LenProperties
<1>4. PICK all : all = [n \in 1 .. m |-> RangePart(ranges[n], PageLength)]
  OBVIOUS
<1>5. parts = all /\ \A n \in 1 .. m : all[n].offset < PageLength
  <2>1. ApplyRanges(ranges, PageLength) =
          IF \A n \in 1 .. m : all[n].offset < PageLength
            THEN [status |-> 206, parts |-> all] ELSE [status |-> 416, parts |-> <<>>]
    BY <1>3, <1>4 DEF ApplyRanges
  <2>2. CASE \A n \in 1 .. m : all[n].offset < PageLength
    <3>1. [status |-> 206, parts |-> all] = [status |-> 206, parts |-> parts]
      BY <1>2, <2>1, <2>2
    <3> QED
      BY <2>2, <3>1
  <2>3. CASE ~ \A n \in 1 .. m : all[n].offset < PageLength
    <3>1. [status |-> 416, parts |-> <<>>] = [status |-> 206, parts |-> parts]
      BY <1>2, <2>1, <2>3
    <3>2. 416 = 206
      BY <3>1
    <3> QED
      BY <3>2
  <2> QED
    BY <2>2, <2>3
<1>6. Len(parts) = Len(ranges) /\ DOMAIN parts = 1 .. m
  <2>1. DOMAIN all = 1 .. m /\ Len(all) = m
    BY <1>4
  <2> QED
    BY <1>3, <1>5, <2>1
<1>7. ASSUME NEW n \in 1 .. m
       PROVE  /\ parts[n].bytes = Selected(ranges[n], PageLength)
              /\ ranges[n][2] < PageLength =>
                   parts[n].range = <<Min(parts[n].bytes), Max(parts[n].bytes)>>
  <2>1. PICK x \in Numbers \X Numbers : x = ranges[n]
    BY <1>3, ElementOfSeq
  <2>2. ValidRange(x)
    BY <1>2, <1>3, <2>1 DEF ParseRangeHeader
  <2>3. parts[n] = RangePart(x, PageLength) /\ RangePart(x, PageLength).offset < PageLength
    BY <1>4, <1>5, <2>1
  <2>4. PageLength \in 1 .. (SizeWidth \div 2) - 1
    BY ConnectionAssumption
  <2> QED
    BY <2>1, <2>2, <2>3, <2>4, PartExact
<1> QED
  BY <1>1, <1>6, <1>7 DEF Honoured

(* A partial reply has the bytes its request asked for and no others, and  *)
(* its Content-Range says so, whatever the numbers of the Range header     *)
(* (httplib.hpp 3860-3900, 4201-4282, 5698-5806).                          *)
THEOREM RangesHonouredHolds == Spec => []RangesHonoured
<1>1. ASSUME EInv, NEW c \in Conns, NEW i \in DOMAIN replies[c], replies[c][i].status = 206
      PROVE  Honoured(c, replies[c][i])
  <2>1. Typed /\ ConnInv(c)
    BY <1>1 DEF EInv
  <2>2. PICK S : replies[c] \in Seq(S)
    BY <2>1 DEF Typed
  <2>3. i \in 1 .. Len(replies[c])
    BY <2>2, LenProperties
  <2>4. PartialReply(c, replies[c][i])
    BY <1>1, <2>1, <2>3 DEF ConnInv, Ranged
  <2> QED
    BY <2>1, <2>4, PartialReplyHonoured
<1>2. EInv => RangesHonoured
  BY <1>1 DEF RangesHonoured, Honoured
<1> QED
  BY <1>2, EInvariance, PTL

(* Replies come in the order of the requests.  A client that waits for each *)
(* gets the i-th for its i-th request, unless content of a request was left *)
(* in the socket and taken for one (httplib.hpp 5823-5977).                *)
THEOREM RepliesMatchHolds == Spec => []RepliesMatch
<1>1. ASSUME EInv, NEW c \in Conns, NEW to, to = [i \in DOMAIN replies[c] |-> replies[c][i].to]
      PROVE  /\ \A i, j \in DOMAIN to : i < j /\ to[i] # 0 /\ to[j] # 0 => to[i] < to[j]
             /\ plan[c].polite /\ ~astray[c] => \A i \in DOMAIN to : to[i] = i
  <2>1. Typed /\ ConnInv(c)
    BY <1>1 DEF EInv
  <2>2. PICK S : replies[c] \in Seq(S)
    BY <2>1 DEF Typed
  <2>3. /\ DOMAIN to = 1 .. Len(replies[c])
        /\ \A i \in 1 .. Len(replies[c]) : to[i] = To(c, i)
    BY <1>1, <2>2, LenProperties DEF To
  <2>4. \A i, j \in 1 .. Len(replies[c]) :
          i < j /\ To(c, i) # 0 /\ To(c, j) # 0 => To(c, i) < To(c, j)
    BY <2>1 DEF ConnInv, Ordered
  <2>5. plan[c].polite /\ ~astray[c] => \A i \in 1 .. Len(replies[c]) : To(c, i) = i
    BY <2>1 DEF ConnInv, InTurn, InStep
  <2> QED
    BY <2>3, <2>4, <2>5
<1>2. EInv => RepliesMatch
  <2> SUFFICES ASSUME EInv, NEW c \in Conns
               PROVE  LET to == [i \in DOMAIN replies[c] |-> replies[c][i].to] IN
                        /\ \A i, j \in DOMAIN to : i < j /\ to[i] # 0 /\ to[j] # 0 => to[i] < to[j]
                        /\ plan[c].polite /\ ~astray[c] => \A i \in DOMAIN to : to[i] = i
    BY DEF RepliesMatch
  <2>1. PICK to : to = [i \in DOMAIN replies[c] |-> replies[c][i].to]
    OBVIOUS
  <2> QED
    BY <1>1, <2>1
<1> QED
  BY <1>2, EInvariance, PTL
=============================================================================
