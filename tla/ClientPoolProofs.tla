-------------------------- MODULE ClientPoolProofs --------------------------
(***************************************************************************)
(* Proofs about ClientPool, for any number of workers, slots, descriptors  *)
(* and chunks.                                                             *)
(***************************************************************************)
EXTENDS ClientPool, FiniteSetTheorems, TLAPS

-----------------------------------------------------------------------------
(* The inductive invariant.                                                *)

(* TypeOK without the counter, which is a natural number because it counts *)
(* slots.                                                                  *)
Typed ==
  /\ sfd   \in [Slots -> Fds \cup {NoFd}]
  /\ free  \subseteq Slots
  /\ sock  \in [Fds -> SocketStates]
  /\ reg   \in [Fds -> Slots \cup {NoSlot}]
  /\ armed \subseteq Fds
  /\ wpc   \in [Workers -> WorkerPlaces]
  /\ cur   \in [Workers -> Slots \cup {NoSlot}]
  /\ batch \in [Workers -> SUBSET EventSet]
  /\ apc   \in ServerPlaces
  /\ afd   \in Fds \cup {NoFd}
  /\ aslot \in Slots \cup {NoSlot}
  /\ phase \in {"running", "stopping", "sweeping", "stopped"}

Events(w) == batch[w] \ {Control}

Busy(w) == wpc[w] \notin {"loop", "dec", "exited"}

(* A client some worker has in its hands: connected and registered, but    *)
(* the registration is disabled.                                           *)
Reported(s) ==
  s \in Slots /\ sfd[s] # NoFd /\ reg[sfd[s]] = s /\ sfd[s] \notin armed

Registered ==
  /\ \A f \in Fds : reg[f] # NoSlot => sock[f].open /\ sfd[reg[f]] = f
  /\ \A f \in armed : reg[f] # NoSlot
  /\ \A s \in free : sfd[s] = NoFd

(* What the server thread has in its hands in each of its places. *)
Accepting ==
  /\ phase # "running" => apc = "off"
  /\ apc \in {"accept", "off"} => afd = NoFd
  /\ apc \notin {"accept", "off"} => afd \in Fds /\ sock[afd].open /\ reg[afd] = NoSlot
  /\ apc \in {"accept", "off", "unblock", "pop"} => aslot = NoSlot
  /\ apc \in {"construct", "add"} => aslot # NoSlot
  /\ aslot # NoSlot => aslot \notin free /\ \A f \in Fds : reg[f] # aslot
  /\ apc = "construct" => sfd[aslot] = NoFd
  /\ apc = "add" => sfd[aslot] = afd

(* What a worker has in its hands: the events of its batch, each about a   *)
(* client of its own, and the client it is at work on.                     *)
Working(w) ==
  /\ \A e \in Events(w) : Reported(e.cl)
  /\ \A d, e \in Events(w) : d.cl = e.cl => d = e
  /\ Busy(w) => \A e \in Events(w) : e.cl # cur[w]
  /\ wpc[w] \in {"read", "rearm", "unuse"} => Reported(cur[w])
  /\ wpc[w] = "clear" =>
       cur[w] \in Slots /\ sfd[cur[w]] # NoFd /\ \A f \in Fds : reg[f] # cur[w]
  /\ wpc[w] = "push" => cur[w] \in Slots /\ sfd[cur[w]] = NoFd
  /\ wpc[w] \in {"clear", "push"} => cur[w] \notin free /\ cur[w] # aslot

(* Where a worker is while the pool stops. *)
Leaving(w) ==
  /\ wpc[w] = "exited" => batch[w] = {}
  /\ Control \in batch[w] => phase = "stopping"
  /\ phase \in {"sweeping", "stopped"} => wpc[w] = "exited"

(* Two workers never have a client in common. *)
Apart(v, w) ==
  /\ \A d \in Events(v), e \in Events(w) : d.cl # e.cl
  /\ Busy(v) => \A e \in Events(w) : e.cl # cur[v]
  /\ Busy(w) => \A d \in Events(v) : d.cl # cur[w]
  /\ Busy(v) /\ Busy(w) => cur[v] # cur[w]

(* A slot that is taken has a descriptor or somebody who is at it, and an  *)
(* open descriptor is registered or the server thread's.                   *)
Accounted ==
  /\ \A s \in Slots \ free :
       \/ sfd[s] # NoFd
       \/ \E w \in Workers : wpc[w] = "push" /\ cur[w] = s
       \/ apc = "construct" /\ aslot = s
  /\ \A f \in Fds : sock[f].open => reg[f] # NoSlot \/ afd = f
  /\ phase = "stopped" => \A s \in Slots : sfd[s] = NoFd

IInv ==
  /\ Typed
  /\ Registered
  /\ Accepting
  /\ \A w \in Workers : Working(w) /\ Leaving(w)
  /\ \A v, w \in Workers : v # w => Apart(v, w)
  /\ Accounted

-----------------------------------------------------------------------------
(* Types.                                                                  *)

LEMMA Numbers == NoFd \notin Fds /\ NoSlot \notin Slots
  BY PoolAssumption DEF NoFd, NoSlot, Slots

LEMMA ControlIsEvent == Control \in EventSet
  BY DEF Control, EventSet

LEMMA FlagsType == \A f : Flags(f) \in SUBSET {"IN", "RDHUP", "HUP", "ERR"}
  BY DEF Flags

LEMMA OpenedSocket ==
  ASSUME NEW r \in SocketStates, NEW left \in 0 .. MaxSends
  PROVE  LET n == [r EXCEPT !.open = TRUE, !.left = left] IN
           n \in SocketStates /\ n.open
<1>1. [r EXCEPT !.open = TRUE, !.left = left] \in SocketStates
  BY DEF SocketStates
<1>2. [r EXCEPT !.open = TRUE, !.left = left].open
  BY DEF SocketStates
<1> QED
  BY <1>1, <1>2

LEMMA SocketTypes ==
  /\ ClosedSocket \in SocketStates /\ NewSocket \in SocketStates
  /\ ~ClosedSocket.open /\ NewSocket.open
<1>1. ClosedSocket \in SocketStates /\ ~ClosedSocket.open
  BY PoolAssumption DEF ClosedSocket, SocketStates
<1>2. MaxSends \in 0 .. MaxSends
  BY PoolAssumption
<1> QED
  BY <1>1, <1>2, OpenedSocket DEF NewSocket

(* The peer of one connection changes nothing but the socket of this one. *)
LEMMA PeerStep ==
  ASSUME NEW f \in Fds, sock \in [Fds -> SocketStates],
         PeerSend(f) \/ PeerClose(f) \/ PeerReset(f)
  PROVE  /\ sock' \in [Fds -> SocketStates]
         /\ \A g \in Fds : sock'[g].open = sock[g].open
         /\ \A g \in Fds : sock'[g].shut = sock[g].shut /\ (sock[g].fin => sock'[g].fin)
         /\ UNCHANGED <<pool, reg, armed, workers, server, phase>>
<1>1. CASE PeerSend(f)
  <2> DEFINE data == sock[f].data + 1
             left == IF EndlessPeers THEN sock[f].left ELSE sock[f].left - 1
  <2>1. data \in 0 .. MaxSends /\ left \in 0 .. MaxSends
    BY <1>1, PoolAssumption DEF PeerSend, SocketStates
  <2>2. sock' = [sock EXCEPT ![f].data = data, ![f].left = left]
    BY <1>1 DEF PeerSend
  <2> HIDE DEF data, left
  <2>3. sock' \in [Fds -> SocketStates]
    BY <2>1, <2>2 DEF SocketStates
  <2>4. /\ \A g \in Fds : sock'[g].open = sock[g].open
        /\ \A g \in Fds : sock'[g].shut = sock[g].shut /\ sock'[g].fin = sock[g].fin
    BY <2>1, <2>2 DEF SocketStates
  <2> QED
    BY <1>1, <2>3, <2>4 DEF PeerSend
<1>2. CASE PeerClose(f)
  <2>1. sock[f] \in SocketStates /\ 0 \in 0 .. MaxSends
    BY PoolAssumption
  <2>2. sock' = [sock EXCEPT ![f] = [sock[f] EXCEPT !.fin = TRUE, !.left = 0]]
    BY <1>2 DEF PeerClose
  <2>3. [sock[f] EXCEPT !.fin = TRUE, !.left = 0] \in SocketStates
    BY <2>1 DEF SocketStates
  <2>4. sock' \in [Fds -> SocketStates]
    BY <2>2, <2>3
  <2> QED
    BY <1>2, <2>4 DEF PeerClose, SocketStates
<1>3. CASE PeerReset(f)
  <2>1. sock[f] \in SocketStates /\ 0 \in 0 .. MaxSends
    BY PoolAssumption
  <2>2. sock' = [sock EXCEPT ![f] = [sock[f] EXCEPT !.err = TRUE, !.left = 0]]
    BY <1>3 DEF PeerReset
  <2>3. [sock[f] EXCEPT !.err = TRUE, !.left = 0] \in SocketStates
    BY <2>1 DEF SocketStates
  <2>4. sock' \in [Fds -> SocketStates]
    BY <2>2, <2>3
  <2> QED
    BY <1>3, <2>4 DEF PeerReset, SocketStates
<1> QED
  BY <1>1, <1>2, <1>3

LEMMA DispositionType == \A flags : Disposition(flags) \in {"unuse", "read", "loop"}
  BY DEF Disposition

(* A recv() changes nothing but the socket it reads from. *)
LEMMA ReadStep ==
  ASSUME NEW w \in Workers, Typed, Working(w), ReadData(w)
  PROVE  /\ sock' \in [Fds -> SocketStates]
         /\ \A g \in Fds : sock'[g].open = sock[g].open
         /\ \A g \in Fds : (sock[g].shut => sock'[g].shut) /\ sock'[g].fin = sock[g].fin
         /\ UNCHANGED <<pool, reg, armed, workers, server, phase>>
<1> DEFINE f == sfd[cur[w]]
           data == sock[f].data - 1
<1>1. f \in Fds
  BY Numbers DEF Typed, Working, Reported, ReadData
<1>2. PICK shut \in {sock[f].shut, sock[f].shut \/ AppMayShutdown} :
        sock' = [sock EXCEPT ![f].data = data, ![f].shut = shut]
  BY DEF ReadData
<1>3. data \in 0 .. MaxSends /\ shut \in BOOLEAN
  BY <1>1, PoolAssumption DEF ReadData, Typed, SocketStates
<1>4. UNCHANGED <<pool, reg, armed, workers, server, phase>>
  BY DEF ReadData
<1> HIDE DEF f, data
<1>5. sock \in [Fds -> SocketStates]
  BY DEF Typed
<1>6. sock' \in [Fds -> SocketStates]
  BY <1>1, <1>2, <1>3, <1>5 DEF SocketStates
<1>7. ASSUME NEW g \in Fds
      PROVE  /\ sock'[g].open = sock[g].open
             /\ sock'[g].fin = sock[g].fin
             /\ (sock'[g].shut = sock[g].shut \/ (g = f /\ sock'[g].shut = shut))
  <2>1. CASE g = f
    BY <1>1, <1>2, <1>3, <1>5, <2>1 DEF SocketStates
  <2>2. CASE g # f
    BY <1>1, <1>2, <1>3, <1>5, <2>2 DEF SocketStates
  <2> QED
    BY <2>1, <2>2
<1>8. sock[f].shut => shut
  BY <1>2
<1> QED
  BY <1>4, <1>6, <1>7, <1>8

LEMMA TypedStep == IInv /\ [Next]_vars => Typed'
<1> SUFFICES ASSUME IInv, [Next]_vars PROVE Typed'
  OBVIOUS
<1>0. Typed
  BY DEF IInv
<1> USE <1>0 DEF Typed
<1>1. CASE Peer
  <2>1. PICK f \in Fds : PeerSend(f) \/ PeerClose(f) \/ PeerReset(f)
    BY <1>1 DEF Peer
  <2> QED
    BY <2>1, PeerStep DEF pool, workers, server
<1>2. CASE \E f \in Fds : Accept(f)
  BY <1>2, SocketTypes DEF Accept, pool, workers, ServerPlaces
<1>3. CASE AddClient
  <2>1. CASE Unblock \/ UsePop \/ UseConstruct \/ AddFail
    BY <1>3, <2>1 DEF Unblock, UsePop, UseConstruct, AddFail, pool, kernel, workers, ServerPlaces
  <2>2. CASE AddOk
    BY <2>2 DEF AddOk, NextAccept, pool, workers, ServerPlaces, IInv, Accepting
  <2>3. CASE Reject
    BY <2>3, SocketTypes DEF Reject, NextAccept, Close, pool, workers, ServerPlaces
  <2> QED
    BY <1>3, <2>1, <2>2, <2>3 DEF AddClient
<1>4. CASE \E w \in Workers : Worker(w)
  <2>1. PICK w \in Workers : Worker(w)
    BY <1>4
  <2>2. CASE EpollWait(w)
    <3>1. {[cl |-> reg[f], flags |-> Flags(f)] : f \in Deliverable} \subseteq EventSet
      BY FlagsType DEF Deliverable, EventSet
    <3> QED
      BY <2>2, <3>1, ControlIsEvent DEF EpollWait, pool, server
  <2>3. CASE Process(w)
    <3>1. PICK e \in Events(w) :
            LET next == Disposition(e.flags) IN
              /\ batch' = [batch EXCEPT ![w] = @ \ {e}]
              /\ wpc'   = [wpc EXCEPT ![w] = next]
              /\ cur'   = [cur EXCEPT ![w] = IF next = "loop" THEN NoSlot ELSE e.cl]
      BY <2>3 DEF Process, Events
    <3>2. e.cl \in Slots \cup {NoSlot}
      <4>1. e \in EventSet
        BY <3>1 DEF Events
      <4> QED
        BY <4>1 DEF EventSet
    <3>3. Disposition(e.flags) \in WorkerPlaces
      BY DispositionType DEF WorkerPlaces
    <3> QED
      BY <2>3, <3>1, <3>2, <3>3 DEF Process, pool, kernel, server
  <2>4. CASE ReadData(w)
    BY <2>4, ReadStep DEF IInv, pool, workers, server
  <2>5. CASE ReadEnd(w) \/ ReadAgain(w) \/ WorkerExit(w)
    BY <2>5 DEF ReadEnd, ReadAgain, WorkerExit, pool, kernel, server, WorkerPlaces
  <2>6. CASE Rearm(w)
    <3>1. sfd[cur[w]] \in Fds
      BY <2>6, Numbers DEF Rearm, IInv, Working, Reported
    <3> QED
      BY <2>6, <3>1 DEF Rearm, NextEvent, pool, server, WorkerPlaces
  <2>7. CASE UnuseClose(w)
    BY <2>7, SocketTypes DEF UnuseClose, Close, pool, server, WorkerPlaces
  <2>8. CASE UnuseClear(w) \/ UnuseCount(w)
    BY <2>8 DEF UnuseClear, UnuseCount, NextEvent, kernel, server, WorkerPlaces
  <2>9. CASE UnusePush(w)
    <3>1. cur[w] \in Slots
      BY <2>9 DEF IInv, Working, UnusePush
    <3> QED
      BY <2>9, <3>1 DEF UnusePush, kernel, server, WorkerPlaces
  <2> QED
    BY <2>1, <2>2, <2>3, <2>4, <2>5, <2>6, <2>7, <2>8, <2>9 DEF Worker
<1>5. CASE StopServer \/ Stop \/ Run
  BY <1>5, SocketTypes
  DEF StopServer, Stop, StopPool, JoinWorkers, Sweep, StopDone, Run, Close,
      pool, kernel, workers, server, WorkerPlaces, ServerPlaces
<1>6. CASE UNCHANGED vars
  BY <1>6 DEF vars, pool, kernel, workers, server
<1> QED
  BY <1>1, <1>2, <1>3, <1>4, <1>5, <1>6 DEF Next

-----------------------------------------------------------------------------
(* The invariant, one lemma per action.                                    *)

(* The sockets count only by whether they are open. *)
LEMMA SocketOnly ==
  ASSUME IInv, Typed',
         \A g \in Fds : sock'[g].open = sock[g].open,
         UNCHANGED <<pool, reg, armed, workers, server, phase>>
  PROVE  IInv'
<1> USE DEF IInv, pool, workers, server
<1>1. Registered'
  BY DEF Registered, Typed
<1>2. Accepting'
  BY DEF Accepting
<1>3. \A w \in Workers : Working(w)' /\ Leaving(w)'
  BY DEF Working, Leaving, Reported, Busy, Events
<1>4. \A v, w \in Workers : v # w => Apart(v, w)'
  BY DEF Apart, Busy, Events
<1>5. Accounted'
  BY DEF Accounted
<1> QED
  BY <1>1, <1>2, <1>3, <1>4, <1>5

LEMMA AcceptStep ==
  ASSUME IInv, Typed', NEW f \in Fds, Accept(f)
  PROVE  IInv'
<1> USE SocketTypes, Numbers DEF IInv, Typed, Accept, pool, workers
<1>1. Registered'
  BY DEF Registered
<1>2. Accepting'
  BY DEF Accepting, Registered
<1>3. \A w \in Workers : Working(w)' /\ Leaving(w)'
  BY DEF Working, Leaving, Reported, Busy, Events
<1>4. \A v, w \in Workers : v # w => Apart(v, w)'
  BY DEF Apart, Busy, Events
<1>5. Accounted'
  BY DEF Accounted, Accepting
<1> QED
  BY <1>1, <1>2, <1>3, <1>4, <1>5

LEMMA UnblockStep ==
  ASSUME IInv, Typed', Unblock \/ AddFail
  PROVE  IInv'
<1> USE DEF IInv, Unblock, AddFail, pool, kernel, workers
<1>1. Registered'
  BY DEF Registered
<1>2. Accepting'
  BY DEF Accepting
<1>3. \A w \in Workers : Working(w)' /\ Leaving(w)'
  BY DEF Working, Leaving, Reported, Busy, Events
<1>4. \A v, w \in Workers : v # w => Apart(v, w)'
  BY DEF Apart, Busy, Events
<1>5. Accounted'
  BY DEF Accounted
<1> QED
  BY <1>1, <1>2, <1>3, <1>4, <1>5

LEMMA UsePopStep ==
  ASSUME IInv, Typed', UsePop
  PROVE  IInv'
<1> USE Numbers DEF IInv, Typed, UsePop, kernel, workers
<1>1. Registered'
  BY DEF Registered
<1>2. Accepting'
  BY DEF Accepting, Registered
<1>3. \A w \in Workers : Working(w)' /\ Leaving(w)'
  BY DEF Working, Leaving, Reported, Busy, Events
<1>4. \A v, w \in Workers : v # w => Apart(v, w)'
  BY DEF Apart, Busy, Events
<1>5. Accounted'
  BY DEF Accounted
<1> QED
  BY <1>1, <1>2, <1>3, <1>4, <1>5

LEMMA UseConstructStep ==
  ASSUME IInv, Typed', UseConstruct
  PROVE  IInv'
<1> USE Numbers DEF IInv, Typed, UseConstruct, kernel, workers
<1>1. Registered'
  BY DEF Registered, Accepting
<1>2. Accepting'
  BY DEF Accepting
<1>3. \A w \in Workers : Working(w)' /\ Leaving(w)'
  BY DEF Working, Leaving, Reported, Busy, Events, Accepting
<1>4. \A v, w \in Workers : v # w => Apart(v, w)'
  BY DEF Apart, Busy, Events
<1>5. Accounted'
  BY DEF Accounted, Accepting
<1> QED
  BY <1>1, <1>2, <1>3, <1>4, <1>5

LEMMA AddOkStep ==
  ASSUME IInv, Typed', AddOk
  PROVE  IInv'
<1> USE Numbers DEF IInv, Typed, AddOk, NextAccept, pool, workers
<1>1. Registered'
  BY DEF Registered, Accepting
<1>2. Accepting'
  BY DEF Accepting
<1>3. \A w \in Workers : Working(w)' /\ Leaving(w)'
  BY DEF Working, Leaving, Reported, Busy, Events, Accepting
<1>4. \A v, w \in Workers : v # w => Apart(v, w)'
  BY DEF Apart, Busy, Events
<1>5. Accounted'
  BY DEF Accounted, Accepting
<1> QED
  BY <1>1, <1>2, <1>3, <1>4, <1>5

LEMMA RejectStep ==
  ASSUME IInv, Typed', Reject
  PROVE  IInv'
<1> USE SocketTypes, Numbers DEF IInv, Typed, Reject, Close, NextAccept, pool, workers
<1>1. Registered'
  BY DEF Registered, Accepting
<1>2. Accepting'
  BY DEF Accepting
<1>3. \A w \in Workers : Working(w)' /\ Leaving(w)'
  BY DEF Working, Leaving, Reported, Busy, Events, Accepting
<1>4. \A v, w \in Workers : v # w => Apart(v, w)'
  BY DEF Apart, Busy, Events
<1>5. Accounted'
  BY DEF Accounted, Accepting
<1> QED
  BY <1>1, <1>2, <1>3, <1>4, <1>5

LEMMA EpollWaitStep ==
  ASSUME IInv, Typed', NEW w \in Workers, EpollWait(w)
  PROVE  IInv'
<1> USE Numbers DEF IInv, Typed, EpollWait, pool, server
<1>1. Registered'
  BY DEF Registered
<1>2. Accepting'
  BY DEF Accepting
<1>3. /\ \A v \in Workers \ {w} : Events(v)' = Events(v)
      /\ \A v \in Workers : wpc[v] = wpc'[v] /\ cur[v] = cur'[v] /\ (Busy(v)' <=> Busy(v))
      /\ \A s \in Slots : Reported(s) => Reported(s)'
  BY DEF Events, Busy, Reported
<1>4. ASSUME NEW e \in Events(w)'
      PROVE  \E f \in armed : f \notin armed' /\ e = [cl |-> reg[f], flags |-> Flags(f)]
  BY DEF Events, Deliverable
<1>5. \A e \in Events(w)' :
        e.cl \in Slots /\ sfd[e.cl] \in armed /\ reg[sfd[e.cl]] = e.cl /\ Reported(e.cl)'
  BY <1>4 DEF Registered, Reported
<1>6. \A d, e \in Events(w)' : d.cl = e.cl => d = e
  <2> TAKE d, e \in Events(w)'
  <2>1. PICK f \in armed : d = [cl |-> reg[f], flags |-> Flags(f)]
    BY <1>4
  <2>2. PICK g \in armed : e = [cl |-> reg[g], flags |-> Flags(g)]
    BY <1>4
  <2>3. reg[f] = reg[g] => f = g
    BY DEF Registered
  <2> QED
    BY <2>1, <2>2, <2>3
<1>7. ASSUME NEW v \in Workers, NEW e \in Events(w)'
      PROVE  /\ \A d \in Events(v) : d.cl # e.cl
             /\ Busy(v) => e.cl # cur[v]
  <2>1. Working(v) /\ wpc[v] \in WorkerPlaces
    OBVIOUS
  <2> QED
    BY <1>5, <2>1 DEF Working, Reported, Busy, Registered, WorkerPlaces
<1>8. \A v \in Workers : Working(v)'
  <2> TAKE v \in Workers
  <2>1. CASE v = w
    BY <1>3, <1>5, <1>6, <2>1 DEF Working, Busy
  <2>2. CASE v # w
    BY <2>2 DEF Working, Reported, Busy, Events
  <2> QED
    BY <2>1, <2>2
<1>9. \A v \in Workers : Leaving(v)'
  BY DEF Leaving, Control, Deliverable, Registered
<1>10. \A u, v \in Workers : u # v => Apart(u, v)'
  BY <1>3, <1>7 DEF Apart
<1>11. Accounted'
  BY DEF Accounted
<1> QED
  BY <1>1, <1>2, <1>8, <1>9, <1>10, <1>11

LEMMA ProcessStep ==
  ASSUME IInv, Typed', NEW w \in Workers, Process(w)
  PROVE  IInv'
<1> USE Numbers DEF IInv, Typed, pool, kernel, server
<1>0. PICK e \in Events(w) :
        LET next == Disposition(e.flags) IN
          /\ batch' = [batch EXCEPT ![w] = @ \ {e}]
          /\ wpc'   = [wpc EXCEPT ![w] = next]
          /\ cur'   = [cur EXCEPT ![w] = IF next = "loop" THEN NoSlot ELSE e.cl]
  BY DEF Process, Events
<1>1. UNCHANGED <<pool, kernel, server, phase>> /\ wpc[w] = "loop"
  BY DEF Process
<1>2. /\ Events(w)' = Events(w) \ {e}
      /\ Busy(w)' => wpc'[w] \in {"read", "unuse"} /\ cur'[w] = e.cl
      /\ \A v \in Workers \ {w} :
           Events(v)' = Events(v) /\ wpc'[v] = wpc[v] /\ cur'[v] = cur[v] /\ batch'[v] = batch[v]
  BY <1>0, <1>1, DispositionType DEF Events, Busy
<1>3. Registered' /\ Accepting' /\ Accounted'
  BY <1>0, <1>1, <1>2 DEF Registered, Accepting, Accounted
<1>4. ASSUME NEW v \in Workers PROVE Working(v)' /\ Leaving(v)'
  <2>1. CASE v = w
    <3>1. Reported(e.cl)' /\ \A d \in Events(w)' : Reported(d.cl)' /\ d.cl # e.cl
      BY <1>1, <1>2 DEF Working, Reported
    <3>2. wpc'[w] \in {"loop", "read", "unuse"}
      BY <1>0, DispositionType
    <3>3. Working(w)'
      BY <1>1, <1>2, <3>1, <3>2 DEF Working, Busy
    <3>4. Leaving(w)'
      BY <1>0, <1>1, <3>2 DEF Leaving
    <3> QED
      BY <2>1, <3>3, <3>4
  <2>2. CASE v # w
    BY <1>1, <1>2, <2>2 DEF Working, Leaving, Reported, Busy
  <2> QED
    BY <2>1, <2>2
<1>5. \A u, v \in Workers : u # v => Apart(u, v)'
  BY <1>1, <1>2 DEF Apart, Busy
<1> QED
  BY <1>3, <1>4, <1>5

LEMMA ReadEndStep ==
  ASSUME IInv, Typed', NEW w \in Workers, ReadEnd(w) \/ ReadAgain(w)
  PROVE  IInv'
<1> USE Numbers DEF IInv, Typed, ReadEnd, ReadAgain, pool, kernel, server
<1>1. Registered'
  BY DEF Registered
<1>2. Accepting'
  BY DEF Accepting
<1>3. \A v \in Workers : Working(v)' /\ Leaving(v)'
  BY DEF Working, Leaving, Reported, Busy, Events
<1>4. \A u, v \in Workers : u # v => Apart(u, v)'
  BY DEF Apart, Busy, Events
<1>5. Accounted'
  BY DEF Accounted
<1> QED
  BY <1>1, <1>2, <1>3, <1>4, <1>5

LEMMA RearmStep ==
  ASSUME IInv, Typed', NEW w \in Workers, Rearm(w)
  PROVE  IInv'
<1> USE Numbers DEF IInv, Typed, Rearm, NextEvent, pool, server
<1>1. Registered'
  BY DEF Registered, Working, Reported
<1>2. Accepting'
  BY DEF Accepting
<1>3. \A v \in Workers : Working(v)' /\ Leaving(v)'
  BY DEF Working, Leaving, Reported, Busy, Events, Apart
<1>4. \A u, v \in Workers : u # v => Apart(u, v)'
  BY DEF Apart, Busy, Events
<1>5. Accounted'
  BY DEF Accounted
<1> QED
  BY <1>1, <1>2, <1>3, <1>4, <1>5

LEMMA UnuseCloseStep ==
  ASSUME IInv, Typed', NEW w \in Workers, UnuseClose(w)
  PROVE  IInv'
<1> USE SocketTypes, Numbers DEF IInv, Typed, UnuseClose, Close, pool, server
<1>1. Registered'
  BY DEF Registered
<1>2. Accepting'
  BY DEF Accepting, Working, Reported
<1>3. \A v \in Workers : Working(v)' /\ Leaving(v)'
  BY DEF Working, Leaving, Reported, Busy, Events, Apart, Registered, Accepting
<1>4. \A u, v \in Workers : u # v => Apart(u, v)'
  BY DEF Apart, Busy, Events
<1>5. Accounted'
  BY DEF Accounted, Working, Reported
<1> QED
  BY <1>1, <1>2, <1>3, <1>4, <1>5

LEMMA UnuseClearStep ==
  ASSUME IInv, Typed', NEW w \in Workers, UnuseClear(w)
  PROVE  IInv'
<1> USE Numbers DEF IInv, Typed, UnuseClear, kernel, server
<1>1. Registered'
  BY DEF Registered, Working
<1>2. Accepting'
  BY DEF Accepting, Working
<1>3. \A v \in Workers : Working(v)' /\ Leaving(v)'
  BY DEF Working, Leaving, Reported, Busy, Events, Apart
<1>4. \A u, v \in Workers : u # v => Apart(u, v)'
  BY DEF Apart, Busy, Events
<1>5. Accounted'
  BY DEF Accounted, Working
<1> QED
  BY <1>1, <1>2, <1>3, <1>4, <1>5

LEMMA UnusePushStep ==
  ASSUME IInv, Typed', NEW w \in Workers, UnusePush(w)
  PROVE  IInv'
<1> USE Numbers DEF IInv, Typed, UnusePush, kernel, server
<1>1. Registered'
  BY DEF Registered, Working
<1>2. Accepting'
  BY DEF Accepting, Working
<1>3. \A v \in Workers : Working(v)' /\ Leaving(v)'
  BY DEF Working, Leaving, Reported, Busy, Events, Apart
<1>4. \A u, v \in Workers : u # v => Apart(u, v)'
  BY DEF Apart, Busy, Events
<1>5. Accounted'
  BY DEF Accounted, Working
<1> QED
  BY <1>1, <1>2, <1>3, <1>4, <1>5

LEMMA UnuseCountStep ==
  ASSUME IInv, Typed', NEW w \in Workers, UnuseCount(w)
  PROVE  IInv'
<1> USE Numbers DEF IInv, Typed, UnuseCount, NextEvent, kernel, server
<1>1. Registered'
  BY DEF Registered
<1>2. Accepting'
  BY DEF Accepting
<1>3. \A v \in Workers : Working(v)' /\ Leaving(v)'
  BY DEF Working, Leaving, Reported, Busy, Events
<1>4. \A u, v \in Workers : u # v => Apart(u, v)'
  BY DEF Apart, Busy, Events
<1>5. Accounted'
  BY DEF Accounted
<1> QED
  BY <1>1, <1>2, <1>3, <1>4, <1>5

LEMMA WorkerExitStep ==
  ASSUME IInv, Typed', NEW w \in Workers, WorkerExit(w)
  PROVE  IInv'
<1> USE Numbers DEF IInv, Typed, WorkerExit, pool, kernel, server
<1>1. Registered'
  BY DEF Registered
<1>2. Accepting'
  BY DEF Accepting
<1>3. \A v \in Workers : Working(v)' /\ Leaving(v)'
  BY DEF Working, Leaving, Reported, Busy, Events
<1>4. \A u, v \in Workers : u # v => Apart(u, v)'
  BY DEF Apart, Busy, Events
<1>5. Accounted'
  BY DEF Accounted
<1> QED
  BY <1>1, <1>2, <1>3, <1>4, <1>5

LEMMA ServerStopStep ==
  ASSUME IInv, Typed', StopServer \/ StopPool \/ JoinWorkers \/ StopDone
  PROVE  IInv'
<1> USE DEF IInv, StopServer, StopPool, JoinWorkers, StopDone, pool, kernel, workers, server
<1>1. Registered'
  BY DEF Registered
<1>2. Accepting'
  BY DEF Accepting
<1>3. \A v \in Workers : Working(v)' /\ Leaving(v)'
  BY DEF Working, Leaving, Reported, Busy, Events
<1>4. \A u, v \in Workers : u # v => Apart(u, v)'
  BY DEF Apart, Busy, Events
<1>5. Accounted'
  BY DEF Accounted
<1> QED
  BY <1>1, <1>2, <1>3, <1>4, <1>5

LEMMA SweepStep ==
  ASSUME IInv, Typed', NEW s \in Slots, Sweep(s)
  PROVE  IInv'
<1> USE SocketTypes, Numbers DEF IInv, Typed, Sweep, Close, workers, server
<1>1. Registered'
  BY DEF Registered
<1>2. Accepting'
  BY DEF Accepting
<1>3. \A v \in Workers : Working(v)' /\ Leaving(v)'
  BY DEF Working, Leaving, Reported, Busy, Events
<1>4. \A u, v \in Workers : u # v => Apart(u, v)'
  BY DEF Apart, Busy, Events
<1>5. Accounted'
  BY DEF Accounted
<1> QED
  BY <1>1, <1>2, <1>3, <1>4, <1>5

LEMMA RunStep ==
  ASSUME IInv, Typed', Run
  PROVE  IInv'
<1> USE DEF IInv, Typed, Run, pool, kernel
<1>1. Registered'
  BY DEF Registered
<1>2. Accepting'
  BY DEF Accepting
<1>3. \A v \in Workers : Working(v)' /\ Leaving(v)'
  BY DEF Working, Leaving, Reported, Busy, Events
<1>4. \A u, v \in Workers : u # v => Apart(u, v)'
  <2>1. \A v \in Workers : Events(v)' = {} /\ ~Busy(v)'
    BY DEF Events, Busy, Leaving
  <2> QED
    BY <2>1 DEF Apart
<1>5. Accounted'
  BY DEF Accounted, Leaving, Accepting
<1> QED
  BY <1>1, <1>2, <1>3, <1>4, <1>5

LEMMA InitIInv == Init => IInv
<1> SUFFICES ASSUME Init PROVE IInv
  OBVIOUS
<1> USE SocketTypes, Numbers DEF Init
<1>1. Typed
  BY DEF Typed, WorkerPlaces, ServerPlaces
<1>2. Registered /\ Accepting /\ Accounted
  BY DEF Registered, Accepting, Accounted
<1>3. \A w \in Workers : Working(w) /\ Leaving(w)
  BY DEF Working, Leaving, Busy, Events
<1>4. \A v, w \in Workers : v # w => Apart(v, w)
  BY DEF Apart, Busy, Events
<1> QED
  BY <1>1, <1>2, <1>3, <1>4 DEF IInv

LEMMA NextIInv == IInv /\ [Next]_vars => IInv'
<1> SUFFICES ASSUME IInv, [Next]_vars PROVE IInv'
  OBVIOUS
<1>0. Typed'
  BY TypedStep
<1>1. CASE Peer
  <2>1. PICK f \in Fds : PeerSend(f) \/ PeerClose(f) \/ PeerReset(f)
    BY <1>1 DEF Peer
  <2>2. sock \in [Fds -> SocketStates]
    BY DEF IInv, Typed
  <2> QED
    BY <1>0, <2>1, <2>2, PeerStep, SocketOnly
<1>2. CASE \E f \in Fds : Accept(f)
  BY <1>0, <1>2, AcceptStep
<1>3. CASE AddClient
  BY <1>0, <1>3, UnblockStep, UsePopStep, UseConstructStep, AddOkStep, RejectStep
  DEF AddClient
<1>4. ASSUME NEW w \in Workers, Worker(w) PROVE IInv'
  <2>1. CASE ReadData(w)
    <3>1. Typed /\ Working(w)
      BY DEF IInv
    <3> QED
      BY <1>0, <2>1, <3>1, ReadStep, SocketOnly
  <2>2. CASE ~ReadData(w)
    BY <1>0, <1>4, <2>2, EpollWaitStep, ProcessStep, ReadEndStep, RearmStep,
       UnuseCloseStep, UnuseClearStep, UnusePushStep, UnuseCountStep, WorkerExitStep
    DEF Worker
  <2> QED
    BY <2>1, <2>2
<1>5. CASE StopServer \/ Stop \/ Run
  BY <1>0, <1>5, ServerStopStep, SweepStep, RunStep DEF Stop
<1>6. CASE UNCHANGED vars
  BY <1>0, <1>6, SocketOnly DEF vars, kernel
<1> QED
  BY <1>1, <1>2, <1>3, <1>4, <1>5, <1>6 DEF Next

LEMMA Invariance == Spec => []IInv
  BY InitIInv, NextIInv, PTL DEF Spec

-----------------------------------------------------------------------------
(* Who may touch a client.                                                 *)

LEMMA AtMostOneElement ==
  ASSUME NEW S, NEW x, S \subseteq {x}
  PROVE  Cardinality(S) = IF S = {} THEN 0 ELSE 1
<1>1. S = {} \/ S = {x}
  OBVIOUS
<1> QED
  BY <1>1, FS_EmptySet, FS_Singleton

(* A client some worker answers for is registered for itself only, if at   *)
(* all, and neither free nor being set up.                                 *)
LEMMA HandledAlone ==
  ASSUME IInv, NEW w \in Workers, NEW s \in Slots, s \in Handling(w)
  PROVE  /\ \A f \in armed : reg[f] # s
         /\ s \notin free
         /\ s # aslot
         /\ \A v \in Workers : s \in Handling(v) => v = w
<1> USE Numbers DEF IInv
<1>1. Handling(w) = {e.cl : e \in Events(w)} \cup (IF Busy(w) THEN {cur[w]} ELSE {})
  BY DEF Handling, Events, Busy
<1>2. \/ Reported(s)
      \/ wpc[w] \in {"clear", "push"} /\ cur[w] = s
  <2>1. CASE s \in {e.cl : e \in Events(w)}
    BY <2>1 DEF Working
  <2>2. CASE Busy(w) /\ s = cur[w]
    BY <2>2 DEF Busy, Working, Typed, WorkerPlaces
  <2> QED
    BY <1>1, <2>1, <2>2
<1>3. (\A f \in armed : reg[f] # s) /\ s \notin free /\ s # aslot
  BY <1>2 DEF Reported, Working, Registered, Accepting, Typed
<1>4. ASSUME NEW v \in Workers, s \in Handling(v), v # w PROVE FALSE
  <2>1. Handling(v) = {e.cl : e \in Events(v)} \cup (IF Busy(v) THEN {cur[v]} ELSE {})
    BY DEF Handling, Events, Busy
  <2> QED
    BY <1>1, <1>4, <2>1 DEF Apart
<1> QED
  BY <1>3, <1>4

Handlers(s) == {w \in Workers : s \in Handling(w)}

Registrations(s) == {f \in armed : reg[f] = s}

LEMMA KeepersTerms ==
  ASSUME IInv, NEW s \in Slots
  PROVE  Keepers(s) =   (IF Handlers(s) = {} THEN 0 ELSE 1)
                      + (IF Registrations(s) = {} THEN 0 ELSE 1)
                      + (IF s \in free THEN 1 ELSE 0)
                      + (IF s = aslot THEN 1 ELSE 0)
<1>1. \E x : Handlers(s) \subseteq {x}
  BY HandledAlone DEF Handlers
<1>2. \E x : Registrations(s) \subseteq {x}
  BY Numbers DEF Registrations, IInv, Registered, Typed
<1>3. /\ Cardinality(Handlers(s)) = IF Handlers(s) = {} THEN 0 ELSE 1
      /\ Cardinality(Registrations(s)) = IF Registrations(s) = {} THEN 0 ELSE 1
      /\ Cardinality({s} \cap free) = IF {s} \cap free = {} THEN 0 ELSE 1
      /\ Cardinality({s} \cap {aslot}) = IF {s} \cap {aslot} = {} THEN 0 ELSE 1
  BY <1>1, <1>2, AtMostOneElement
<1>4. /\ {s} \cap free = {} <=> s \notin free
      /\ {s} \cap {aslot} = {} <=> s # aslot
  OBVIOUS
<1>5. Keepers(s) = Cardinality(Handlers(s)) + Cardinality(Registrations(s))
                   + Cardinality({s} \cap free) + Cardinality({s} \cap {aslot})
  BY DEF Keepers, Handlers, Registrations
<1> QED
  BY <1>3, <1>4, <1>5

LEMMA AtMostOneKeeperInv == IInv => AtMostOneKeeper
<1> SUFFICES ASSUME IInv, NEW s \in Slots PROVE Keepers(s) <= 1
  BY DEF AtMostOneKeeper
<1>1. Handlers(s) # {} => Registrations(s) = {} /\ s \notin free /\ s # aslot
  BY HandledAlone DEF Handlers, Registrations
<1>2. Registrations(s) # {} => s \notin free /\ s # aslot
  BY Numbers DEF Registrations, IInv, Registered, Accepting, Typed
<1>3. s \in free => s # aslot
  BY Numbers DEF IInv, Accepting
<1> QED
  BY <1>1, <1>2, <1>3, KeepersTerms

(* A pool with any number of workers, slots and descriptors: no two        *)
(* threads work on one client, and none on a client whose slot is free,    *)
(* being set up, or about to be reported (client_pool with EPOLLONESHOT).  *)
THEOREM AtMostOneKeeperHolds == Spec => []AtMostOneKeeper
  BY Invariance, AtMostOneKeeperInv, PTL

(* A handler's descriptor is open and registered for the client it works   *)
(* on, whatever numbers were closed and reused (client_pool::process).     *)
THEOREM HandlerOwnsSocketHolds == Spec => []HandlerOwnsSocket
<1>1. IInv => HandlerOwnsSocket
  BY Numbers DEF IInv, Typed, Working, Reported, Registered, HandlerOwnsSocket
<1> QED
  BY <1>1, Invariance, PTL

-----------------------------------------------------------------------------
(* The counter.                                                            *)

Taken == Slots \ free

Building == {s \in Slots : apc = "construct" /\ s = aslot}

Counting == {w \in Workers : wpc[w] = "dec"}

CountInv == count \in Nat /\ CountTracksSlots

LEMMA FiniteSets ==
  /\ IsFiniteSet(Taken) /\ Cardinality(Taken) \in Nat
  /\ IsFiniteSet(Building) /\ Cardinality(Building) \in Nat
  /\ IsFiniteSet(Counting) /\ Cardinality(Counting) \in Nat
<1>1. IsFiniteSet(Slots)
  BY PoolAssumption, FS_Interval DEF Slots
<1>2. Taken \subseteq Slots /\ Building \subseteq Slots /\ Counting \subseteq Workers
  BY DEF Taken, Building, Counting
<1> QED
  BY <1>1, <1>2, PoolAssumption, FS_Subset, FS_CardinalityType

(* A step that takes, counts or frees no client. *)
LEMMA CountUnmoved ==
  ASSUME CountInv, UNCHANGED count,
         Taken' = Taken, Building' = Building, Counting' = Counting
  PROVE  CountInv'
  BY DEF CountInv, CountTracksSlots, Taken, Building, Counting

LEMMA CountTypes ==
  CountInv =>
    count + Cardinality(Building) = Cardinality(Taken) + Cardinality(Counting)
  BY DEF CountInv, CountTracksSlots, Taken, Building, Counting

LEMMA CountEstablished ==
  ASSUME count' \in Nat,
         count' + Cardinality(Building)' = Cardinality(Taken)' + Cardinality(Counting)'
  PROVE  CountInv'
  BY DEF CountInv, CountTracksSlots, Taken, Building, Counting

LEMMA CountPop ==
  ASSUME IInv, CountInv, UsePop PROVE CountInv'
<1> USE FiniteSets, Numbers DEF UsePop, kernel, workers
<1>1. CASE free = {}
  <2>1. Taken' = Taken /\ Building' = Building /\ Counting' = Counting
    BY <1>1 DEF Taken, Building, Counting
  <2> QED
    BY <2>1, CountUnmoved
<1>2. CASE free # {}
  <2>1. PICK s \in free : free' = free \ {s} /\ aslot' = s /\ apc' = "construct"
    BY <1>2
  <2>2. s \in Slots
    BY DEF IInv, Typed
  <2>3. Taken' = Taken \cup {s} /\ s \notin Taken
    BY <2>1, <2>2 DEF Taken
  <2>4. Building = {} /\ Building' = {s}
    BY <2>1, <2>2 DEF Building
  <2>5. Counting' = Counting
    BY DEF Counting
  <2>6. /\ Cardinality(Taken') = Cardinality(Taken) + 1
        /\ Cardinality(Building) = 0 /\ Cardinality(Building') = 1
    BY <2>3, <2>4, FS_AddElement, FS_EmptySet, FS_Singleton
  <2>7. count' = count
    OBVIOUS
  <2> QED
    BY <2>5, <2>6, <2>7, CountTypes, CountEstablished DEF CountInv
<1> QED
  BY <1>1, <1>2

LEMMA CountConstruct ==
  ASSUME IInv, CountInv, UseConstruct PROVE CountInv'
<1> USE FiniteSets, Numbers DEF UseConstruct, kernel, workers
<1>1. Building = {aslot} /\ Building' = {}
  BY DEF IInv, Typed, Accepting, Building
<1>2. Taken' = Taken /\ Counting' = Counting
  BY DEF Taken, Counting
<1>3. Cardinality(Building) = 1 /\ Cardinality(Building') = 0
  BY <1>1, FS_EmptySet, FS_Singleton
<1>4. count' = count + 1
  OBVIOUS
<1> QED
  BY <1>2, <1>3, <1>4, CountTypes, CountEstablished DEF CountInv

LEMMA CountPush ==
  ASSUME IInv, CountInv, NEW w \in Workers, UnusePush(w) PROVE CountInv'
<1> USE FiniteSets, Numbers DEF UnusePush, kernel, server
<1>1. cur[w] \in Taken
  BY DEF IInv, Working, Taken
<1>2. Taken' = Taken \ {cur[w]}
  BY DEF Taken
<1>3. Counting' = Counting \cup {w} /\ w \notin Counting
  BY DEF IInv, Typed, Counting
<1>4. Building' = Building
  BY DEF Building
<1>5. /\ Cardinality(Taken') = Cardinality(Taken) - 1
      /\ Cardinality(Counting') = Cardinality(Counting) + 1
  BY <1>1, <1>2, <1>3, FS_AddElement, FS_RemoveElement
<1>6. count' = count
  OBVIOUS
<1> QED
  BY <1>4, <1>5, <1>6, CountTypes, CountEstablished DEF CountInv

LEMMA CountDown ==
  ASSUME IInv, CountInv, NEW w \in Workers, UnuseCount(w) PROVE CountInv'
<1> USE FiniteSets, Numbers DEF UnuseCount, NextEvent, kernel, server
<1>1. Counting' = Counting \ {w} /\ w \in Counting
  BY DEF IInv, Typed, Counting
<1>2. Taken' = Taken /\ Building' = Building
  BY DEF Taken, Building
<1>3. Building \subseteq Taken
  BY DEF IInv, Accepting, Building, Taken
<1>4. Cardinality(Building) <= Cardinality(Taken)
  BY <1>3, FS_Subset
<1>5. Cardinality(Counting') = Cardinality(Counting) - 1
  BY <1>1, FS_RemoveElement
<1>6. Cardinality(Counting') \in Nat
  BY <1>1, FS_RemoveElement, FS_CardinalityType
<1> QED
  BY <1>2, <1>4, <1>5, <1>6, CountTypes, CountEstablished DEF CountInv

LEMMA CountSweep ==
  ASSUME IInv, CountInv, NEW s \in Slots, Sweep(s) PROVE CountInv'
<1> USE FiniteSets, Numbers DEF Sweep, workers, server
<1>1. Taken' = Taken \ {s} /\ s \in Taken
  BY DEF IInv, Registered, Taken
<1>2. Building = {} /\ Building' = {} /\ Counting' = Counting
  BY DEF IInv, Accepting, Building, Counting
<1>3. Cardinality(Taken') = Cardinality(Taken) - 1
  BY <1>1, FS_RemoveElement
<1>4. Cardinality(Taken') \in Nat
  BY <1>1, FS_RemoveElement, FS_CardinalityType
<1> QED
  BY <1>2, <1>3, <1>4, CountTypes, CountEstablished, FS_EmptySet DEF CountInv

LEMMA NextCountInv == IInv /\ CountInv /\ [Next]_vars => CountInv'
<1> SUFFICES ASSUME IInv, CountInv, [Next]_vars PROVE CountInv'
  OBVIOUS
<1>0. ASSUME UNCHANGED <<free, count, aslot, wpc>>,
             apc = "construct" <=> apc' = "construct"
      PROVE  CountInv'
  <2>1. Taken' = Taken /\ Building' = Building /\ Counting' = Counting
    BY <1>0 DEF Taken, Building, Counting
  <2> QED
    BY <1>0, <2>1, CountUnmoved
<1>1. CASE Peer
  BY <1>0, <1>1 DEF Peer, PeerSend, PeerClose, PeerReset, pool, workers, server
<1>2. CASE \E f \in Fds : Accept(f)
  BY <1>0, <1>2 DEF Accept, pool, workers
<1>3. CASE AddClient
  <2>1. CASE Unblock \/ AddFail
    BY <1>0, <2>1 DEF Unblock, AddFail, pool, workers
  <2>2. CASE AddOk \/ Reject
    <3>1. Taken' = Taken /\ Counting' = Counting /\ count' = count
      BY <2>2 DEF AddOk, Reject, Taken, Counting, pool, workers
    <3>2. Building = {} /\ Building' = {}
      BY <2>2 DEF AddOk, Reject, NextAccept, Building
    <3> QED
      BY <3>1, <3>2, CountUnmoved
  <2> QED
    BY <1>3, <2>1, <2>2, CountPop, CountConstruct DEF AddClient
<1>4. ASSUME NEW w \in Workers, Worker(w) PROVE CountInv'
  <2>1. CASE EpollWait(w) \/ ReadData(w)
    BY <1>0, <2>1 DEF EpollWait, ReadData, pool, workers, server
  <2>2. CASE \/ Process(w) \/ ReadEnd(w) \/ ReadAgain(w) \/ Rearm(w)
             \/ UnuseClose(w) \/ UnuseClear(w) \/ WorkerExit(w)
    <3>1. Taken' = Taken /\ Building' = Building /\ count' = count
      BY <2>2 DEF Process, ReadEnd, ReadAgain, Rearm, UnuseClose, UnuseClear,
                  WorkerExit, NextEvent, Taken, Building, pool, server
    <3>2. \A v \in Workers : (wpc'[v] = "dec") <=> (wpc[v] = "dec")
      BY <2>2, DispositionType
      DEF IInv, Typed, Process, ReadEnd, ReadAgain, Rearm, UnuseClose, UnuseClear,
          WorkerExit, NextEvent
    <3>3. Counting' = Counting
      BY <3>2 DEF Counting
    <3> QED
      BY <3>1, <3>3, CountUnmoved
  <2> QED
    BY <1>4, <2>1, <2>2, CountPush, CountDown DEF Worker
<1>5. CASE StopServer \/ Stop \/ Run
  <2>1. CASE StopServer \/ StopPool \/ JoinWorkers \/ StopDone
    BY <1>0, <2>1 DEF StopServer, StopPool, JoinWorkers, StopDone, pool, workers, server
  <2>2. CASE Run
    <3>1. Taken' = Taken /\ count' = count
      BY <2>2 DEF Run, Taken, pool
    <3>2. Building' = {} /\ Building = {} /\ Counting = {} /\ Counting' = {}
      BY <2>2 DEF Run, Building, Counting, IInv, Accepting, Leaving
    <3> QED
      BY <3>1, <3>2, CountUnmoved
  <2> QED
    BY <1>5, <2>1, <2>2, CountSweep DEF Stop
<1>6. CASE UNCHANGED vars
  BY <1>0, <1>6 DEF vars, pool, workers, server
<1> QED
  BY <1>1, <1>2, <1>3, <1>4, <1>5, <1>6 DEF Next

LEMMA CountInvariance == Spec => [](IInv /\ CountInv)
<1>1. Init => CountInv
  <2> SUFFICES ASSUME Init PROVE CountInv
    OBVIOUS
  <2>1. Taken = {} /\ Building = {} /\ Counting = {} /\ count = 0
    BY DEF Init, Taken, Building, Counting
  <2> QED
    BY <2>1, FS_EmptySet DEF CountInv, CountTracksSlots, Taken, Building, Counting
<1> QED
  BY <1>1, InitIInv, NextIInv, NextCountInv, PTL DEF Spec

(* Types hold; in particular clientCount_, an unsigned number in the code, *)
(* never goes below zero.                                                  *)
THEOREM TypeCorrect == Spec => []TypeOK
<1>1. IInv /\ CountInv => TypeOK
  BY DEF IInv, Typed, CountInv, TypeOK
<1> QED
  BY <1>1, CountInvariance, PTL

(* client_pool::stop leaves every slot free, no client counted, and no     *)
(* connection open.                                                        *)
THEOREM CleanStopHolds == Spec => []CleanStop
<1>1. ASSUME IInv, CountInv, phase = "stopped"
      PROVE  /\ free = Slots /\ count = 0 /\ armed = {}
             /\ \A f \in Fds : ~sock[f].open /\ reg[f] = NoSlot
  <2> USE Numbers DEF IInv
  <2>1. apc = "off" /\ afd = NoFd /\ \A w \in Workers : wpc[w] = "exited"
    BY <1>1 DEF Accepting, Leaving
  <2>2. \A s \in Slots : sfd[s] = NoFd
    BY <1>1 DEF Accounted
  <2>3. free = Slots
    BY <2>1, <2>2, <1>1 DEF Accounted, Typed
  <2>4. Taken = {} /\ Building = {} /\ Counting = {}
    BY <2>1, <2>3 DEF Taken, Building, Counting
  <2>5. count = 0
    BY <1>1, <2>4, CountTypes, FS_EmptySet DEF CountInv
  <2>6. \A f \in Fds : reg[f] = NoSlot
    BY <1>1, <2>2 DEF Registered, Typed
  <2>7. armed = {} /\ \A f \in Fds : ~sock[f].open
    BY <1>1, <2>1, <2>6 DEF Registered, Accounted, Typed
  <2> QED
    BY <2>3, <2>5, <2>6, <2>7
<1> QED
  BY <1>1, CountInvariance, PTL DEF CleanStop

-----------------------------------------------------------------------------
(* The records of the pool and of the kernel.                              *)

(* A number in a slot is that of the connection registered for it, or the  *)
(* slot is being taken or given back, unless epoll_ctl has refused the     *)
(* connection.                                                             *)
Used ==
  /\ apc = "reject" /\ aslot # NoSlot => AddMayFail /\ sfd[aslot] = afd
  /\ \A s \in Slots : sfd[s] # NoFd =>
       \/ reg[sfd[s]] = s
       \/ \E w \in Workers : wpc[w] = "clear" /\ cur[w] = s
       \/ apc = "add" /\ aslot = s
       \/ AddMayFail

LEMMA NextUsed ==
  ASSUME IInv, Used, [Next]_vars
  PROVE  Used'
<1> USE Numbers DEF IInv, Typed
<1>0. ASSUME UNCHANGED <<sfd, reg, apc, afd, aslot, wpc, cur>> PROVE Used'
  BY <1>0 DEF Used
<1>1. CASE Peer
  BY <1>0, <1>1 DEF Peer, PeerSend, PeerClose, PeerReset, pool, workers, server
<1>2. CASE \E f \in Fds : Accept(f)
  BY <1>2 DEF Accept, pool, workers, Used
<1>3. CASE AddClient
  <2>1. CASE Unblock \/ UsePop \/ UseConstruct
    BY <2>1 DEF Unblock, UsePop, UseConstruct, pool, kernel, workers, Accepting, Used
  <2>2. CASE AddOk
    BY <2>2 DEF AddOk, NextAccept, pool, workers, Accepting, Used
  <2>3. CASE Reject
    BY <2>3 DEF Reject, NextAccept, Close, pool, workers, Accepting, Used
  <2>4. CASE AddFail
    BY <2>4 DEF AddFail, pool, kernel, workers, Accepting, Used
  <2> QED
    BY <1>3, <2>1, <2>2, <2>3, <2>4 DEF AddClient
<1>4. ASSUME NEW w \in Workers, Worker(w) PROVE Used'
  <2>1. CASE EpollWait(w) \/ ReadData(w)
    BY <1>0, <2>1 DEF EpollWait, ReadData, pool, workers, server
  <2>2. CASE \/ Process(w) \/ ReadEnd(w) \/ ReadAgain(w) \/ Rearm(w)
             \/ UnusePush(w) \/ UnuseCount(w) \/ WorkerExit(w)
    <3>1. UNCHANGED <<sfd, reg, apc, afd, aslot>>
      BY <2>2 DEF Process, ReadEnd, ReadAgain, Rearm, UnusePush, UnuseCount,
                  WorkerExit, pool, kernel, server
    <3>2. \A v \in Workers : wpc[v] = "clear" => wpc'[v] = "clear" /\ cur'[v] = cur[v]
      BY <2>2 DEF Process, ReadEnd, ReadAgain, Rearm, UnusePush, UnuseCount,
                  WorkerExit, NextEvent
    <3> QED
      BY <3>1, <3>2 DEF Used
  <2>3. CASE UnuseClose(w)
    BY <2>3 DEF UnuseClose, Close, pool, server, Working, Reported, Used
  <2>4. CASE UnuseClear(w)
    BY <2>4 DEF UnuseClear, kernel, server, Working, Used
  <2> QED
    BY <1>4, <2>1, <2>2, <2>3, <2>4 DEF Worker
<1>5. CASE StopServer \/ Stop \/ Run
  <2>1. CASE StopServer \/ StopPool \/ JoinWorkers \/ StopDone
    BY <2>1 DEF StopServer, StopPool, JoinWorkers, StopDone, pool, kernel, workers, server, Used
  <2>2. ASSUME NEW s \in Slots, Sweep(s) PROVE Used'
    <3>1. apc = "off" /\ \A w \in Workers : wpc[w] = "exited"
      BY <2>2 DEF Sweep, Accepting, Leaving
    <3>2. \A r \in Slots : sfd[r] # NoFd => reg[sfd[r]] = r \/ AddMayFail
      BY <3>1 DEF Used
    <3> QED
      BY <2>2, <3>1, <3>2 DEF Sweep, Close, workers, server, Used
  <2>3. CASE Run
    BY <2>3 DEF Run, pool, kernel, Accounted, Used
  <2> QED
    BY <1>5, <2>1, <2>2, <2>3 DEF Stop
<1>6. CASE UNCHANGED vars
  BY <1>0, <1>6 DEF vars, pool, kernel, workers, server
<1> QED
  BY <1>1, <1>2, <1>3, <1>4, <1>5, <1>6 DEF Next

LEMMA UsedInvariance == Spec => [](IInv /\ CountInv /\ Used)
<1>1. Init => Used
  BY DEF Init, Used
<1>2. IInv /\ Used /\ [Next]_vars => Used'
  BY NextUsed
<1> QED
  BY <1>1, <1>2, CountInvariance, PTL DEF Spec

(* A slot that holds the number of a connection registered for another     *)
(* slot or for none is stale, unless it is being taken or given back.      *)
LEMMA LeftIsStale ==
  ASSUME IInv, Used, NEW s \in Slots, sfd[s] # NoFd, reg[sfd[s]] # s, s # aslot,
         \A w \in Workers : wpc[w] = "clear" => cur[w] # s
  PROVE  Stale(s)
<1> USE Numbers DEF IInv, Typed
<1>1. AddMayFail
  BY DEF Used
<1>2. s \notin free
  BY DEF Registered
<1>3. Registrations(s) = {}
  BY DEF Registrations, Registered
<1>4. ASSUME NEW w \in Workers, s \in Handling(w) PROVE FALSE
  <2>1. ~Reported(s)
    BY DEF Reported
  <2>2. CASE s \in {e.cl : e \in Events(w)}
    BY <2>1, <2>2 DEF Working
  <2>3. CASE Busy(w) /\ s = cur[w]
    BY <2>1, <2>3 DEF Busy, Working, WorkerPlaces
  <2> QED
    BY <1>4, <2>2, <2>3 DEF Handling, Events, Busy
<1>5. Handlers(s) = {}
  BY <1>4 DEF Handlers
<1>6. Keepers(s) = 0
  BY <1>2, <1>3, <1>5, KeepersTerms
<1> QED
  BY <1>1, <1>6 DEF Stale

(* Slots with the same number: at most one of them is registered.          *)
LEMMA SameNumber ==
  ASSUME IInv, Used, NEW r \in Slots, NEW s \in Slots, r # s, sfd[r] = sfd[s], sfd[s] # NoFd,
         \A w \in Workers : wpc[w] = "clear" => cur[w] \notin {r, s}
  PROVE  Stale(r) \/ Stale(s)
<1> USE Numbers DEF IInv, Typed
<1>1. aslot \in {r, s} => reg[sfd[s]] = NoSlot
  BY DEF Accepting, Used, ServerPlaces
<1>2. CASE reg[sfd[s]] # s /\ s # aslot
  BY <1>2, LeftIsStale
<1>3. CASE reg[sfd[r]] # r /\ r # aslot
  BY <1>3, LeftIsStale
<1> QED
  BY <1>1, <1>2, <1>3

(* With no client on its way in or out, the slots that are not free and    *)
(* not stale and the descriptors that are open correspond one to one.      *)
LEMMA TakenIsOpen ==
  ASSUME IInv, Used, apc \in {"accept", "off"},
         \A w \in Workers : wpc[w] \in {"loop", "exited"}
  PROVE  Cardinality(Taken) =
           Cardinality({f \in Fds : sock[f].open}) + Cardinality({s \in Slots : Stale(s)})
<1> USE Numbers DEF IInv, Typed
<1> DEFINE Open == {f \in Fds : sock[f].open}
           Left == {s \in Slots : Stale(s)}
           Connected == Taken \ Left
           toFd == [s \in Connected |-> sfd[s]]
<1>1. \A s \in Taken : sfd[s] # NoFd /\ s # aslot
  BY DEF Taken, Accounted, Accepting
<1>2. \A s \in Connected : sfd[s] \in Open /\ reg[sfd[s]] = s
  BY <1>1, LeftIsStale DEF Taken, Registered
<1>3. \A f \in Open : reg[f] \in Connected /\ sfd[reg[f]] = f
  BY DEF Taken, Accounted, Accepting, Registered, Stale
<1>4. Left \subseteq Taken
  BY DEF Taken, Registered, Stale
<1>5. toFd \in [Connected -> Open]
  BY <1>2
<1>6. \A r, s \in Connected : toFd[r] = toFd[s] => r = s
  BY <1>2
<1>7. toFd \in Injection(Connected, Open)
  BY <1>5, <1>6 DEF Injection, IsInjective
<1>8. toFd \in Surjection(Connected, Open)
  BY <1>3, <1>5 DEF Surjection
<1>9. IsFiniteSet(Open) /\ IsFiniteSet(Left) /\ IsFiniteSet(Connected)
  BY <1>4, PoolAssumption, FiniteSets, FS_Subset
<1>10. Taken = Connected \cup Left /\ Connected \cap Left = {}
  BY <1>4
<1> HIDE DEF toFd, Open, Left, Connected
<1>11. Cardinality(Connected) = Cardinality(Open)
  BY <1>7, <1>8, <1>9, FS_Injection
<1>12. Cardinality(Taken) = Cardinality(Connected) + Cardinality(Left) - Cardinality({})
  BY <1>9, <1>10, FS_Union
<1>13. /\ Cardinality(Connected) \in Nat /\ Cardinality(Left) \in Nat
       /\ Cardinality({}) = 0
  BY <1>9, FS_CardinalityType, FS_EmptySet
<1> QED
  BY <1>11, <1>12, <1>13 DEF Open, Left

(* Slots, descriptors, registrations and the number of active clients      *)
(* agree at any time, but for the slots of connections that epoll_ctl has  *)
(* refused (client_pool::use and unuse, add_client, get_active_count).     *)
THEOREM ConsistentHolds == Spec => []Consistent
<1>1. IInv /\ Used => DescriptorsConsistent
  BY SameNumber DEF IInv, Registered, DescriptorsConsistent
<1>2. IInv /\ CountInv /\ Used => CountAtRest
  <2> SUFFICES ASSUME IInv, CountInv, Used, apc \in {"accept", "off"},
                      \A w \in Workers : wpc[w] \in {"loop", "exited"}
               PROVE  count = Cardinality({f \in Fds : sock[f].open})
                              + Cardinality({s \in Slots : Stale(s)})
    BY DEF CountAtRest
  <2>1. Building = {} /\ Counting = {}
    BY DEF Building, Counting
  <2>2. count = Cardinality(Taken)
    BY <2>1, CountTypes, FiniteSets, FS_EmptySet DEF CountInv
  <2> QED
    BY <2>2, TakenIsOpen
<1>3. CountInv => CountTracksSlots
  BY DEF CountInv
<1> QED
  BY <1>1, <1>2, <1>3, UsedInvariance, TypeCorrect, PTL DEF Consistent

-----------------------------------------------------------------------------
(* No client is forgotten but those the code loses: a slot whose           *)
(* connection epoll_ctl refused, and a client whose connection both sides  *)
(* have ended, for whose events process() has no case.                     *)

Kept(s) ==
  \/ s \in free
  \/ s = aslot
  \/ \E w \in Workers : s \in Handling(w)
  \/ \E f \in armed : reg[f] = s

Refused(s) == AddMayFail /\ sfd[s] # NoFd /\ reg[sfd[s]] # s

Heard ==
  /\ \A w \in Workers : \A e \in Events(w) :
       Disposition(e.flags) = "loop" => HalfClosed(e.cl)
  /\ phase = "running" => \A s \in Slots : Kept(s) \/ Refused(s) \/ HalfClosed(s)

LEMMA FlagsHaveCase ==
  ASSUME NEW f \in Fds, sock[f] \in SocketStates, Flags(f) # {},
         Disposition(Flags(f)) = "loop"
  PROVE  sock[f].fin /\ sock[f].shut
<1>1. \/ sock[f].fin /\ sock[f].shut
      \/ Flags(f) \in {{"IN"}, {"IN", "RDHUP"}, {"IN", "RDHUP", "HUP", "ERR"}}
  BY DEF Flags, SocketStates
<1> QED
  BY <1>1 DEF Disposition, InputFlags, HangupFlags

(* What a step has to leave alone. *)
LEMMA HeardFrame ==
  ASSUME Heard,
         \A w \in Workers : Events(w)' \subseteq Events(w),
         \A w \in Workers : \A e \in Events(w)' : HalfClosed(e.cl) => HalfClosed(e.cl)',
         phase' = "running" => phase = "running",
         phase' = "running" =>
           \A s \in Slots : Kept(s) \/ Refused(s) \/ HalfClosed(s)
                              => Kept(s)' \/ Refused(s)' \/ HalfClosed(s)'
  PROVE  Heard'
<1>1. ASSUME NEW w \in Workers, NEW e \in Events(w)', Disposition(e.flags) = "loop"
      PROVE  HalfClosed(e.cl)'
  <2>1. e \in Events(w)
    OBVIOUS
  <2> QED
    BY <1>1, <2>1 DEF Heard
<1> QED
  BY <1>1 DEF Heard

(* A slot stays with whoever keeps it. *)
LEMMA KeptFrame ==
  ASSUME UNCHANGED <<free, reg, batch>>,
         \A f \in armed : f \in armed',
         aslot' = aslot \/ aslot = NoSlot,
         \A w \in Workers : Busy(w) => Busy(w)' /\ cur'[w] = cur[w]
  PROVE  \A s \in Slots : Kept(s) => Kept(s)'
<1>1. \A w \in Workers : Handling(w) \subseteq Handling(w)'
  BY DEF Handling, Busy
<1> QED
  BY <1>1, Numbers DEF Kept

(* A connection that both sides have ended stays so until it is closed. *)
LEMMA HalfClosedFrame ==
  ASSUME IInv, UNCHANGED <<sfd, reg>>,
         \A f \in Fds : sock[f].open =>
           (sock[f].fin => sock'[f].fin) /\ (sock[f].shut => sock'[f].shut)
  PROVE  /\ \A s \in Slots : HalfClosed(s) => HalfClosed(s)'
         /\ \A s \in Slots : Refused(s) => Refused(s)'
  BY Numbers DEF IInv, Typed, Registered, HalfClosed, Refused

(* The events of a batch are about clients. *)
LEMMA EventsAreClients ==
  ASSUME IInv, NEW w \in Workers, NEW e \in Events(w)
  PROVE  e.cl \in Slots
  BY DEF IInv, Working, Reported

(* A step that keeps what is kept and touches no connection. *)
LEMMA QuietStep ==
  ASSUME IInv, Heard, UNCHANGED <<sfd, free, reg, batch>>,
         \A f \in Fds : sock[f].open =>
           (sock[f].fin => sock'[f].fin) /\ (sock[f].shut => sock'[f].shut),
         \A f \in armed : f \in armed',
         aslot' = aslot \/ aslot = NoSlot,
         phase' = "running" => phase = "running",
         \A w \in Workers : Busy(w) => Busy(w)' /\ cur'[w] = cur[w]
  PROVE  Heard'
<1>1. \A s \in Slots : Kept(s) => Kept(s)'
  BY KeptFrame
<1>2. /\ \A s \in Slots : HalfClosed(s) => HalfClosed(s)'
      /\ \A s \in Slots : Refused(s) => Refused(s)'
  BY HalfClosedFrame
<1>3. \A w \in Workers : Events(w)' = Events(w)
  BY DEF Events
<1> QED
  BY <1>1, <1>2, <1>3, EventsAreClients, HeardFrame

(* A step of a worker that leaves the connections alone. *)
LEMMA StillStep ==
  ASSUME IInv, Heard, UNCHANGED <<sfd, sock, reg, phase>>,
         \A w \in Workers : Events(w)' \subseteq Events(w),
         \A s \in Slots : Kept(s) => Kept(s)'
  PROVE  Heard'
<1>1. /\ \A s \in Slots : HalfClosed(s) => HalfClosed(s)'
      /\ \A s \in Slots : Refused(s) => Refused(s)'
  BY HalfClosedFrame
<1> QED
  BY <1>1, EventsAreClients, HeardFrame

(* The server thread. *)
LEMMA AddClientHeard ==
  ASSUME IInv, Used, Heard, AddClient
  PROVE  Heard'
<1> USE Numbers DEF IInv, Typed
<1>1. CASE Unblock \/ AddFail
  BY <1>1, QuietStep DEF Unblock, AddFail, pool, kernel, workers, Busy
<1>2. CASE UsePop
  <2>1. \A s \in Slots : Kept(s) => Kept(s)'
    BY <1>2 DEF UsePop, kernel, workers, Accepting, Kept, Handling
  <2> QED
    BY <1>2, <2>1, StillStep DEF UsePop, kernel, workers, Events
<1>3. CASE UseConstruct
  <2>1. \A s \in Slots : Kept(s) => Kept(s)'
    BY <1>3 DEF UseConstruct, kernel, workers, Kept, Handling
  <2>2. \A s \in Slots : s # aslot => sfd'[s] = sfd[s]
    BY <1>3 DEF UseConstruct
  <2>3. sfd[aslot] = NoFd /\ UNCHANGED <<sock, reg, batch, phase>>
    BY <1>3 DEF UseConstruct, kernel, workers, Accepting
  <2>4. \A s \in Slots : HalfClosed(s) => HalfClosed(s)'
    BY <2>2, <2>3 DEF HalfClosed
  <2>5. \A s \in Slots : Refused(s) => Refused(s)'
    BY <2>2, <2>3 DEF Refused
  <2> QED
    BY <2>1, <2>3, <2>4, <2>5, EventsAreClients, HeardFrame DEF Events
<1>4. CASE AddOk
  <2>1. \A s \in Slots : Kept(s) => Kept(s)'
    BY <1>4 DEF AddOk, NextAccept, pool, workers, Accepting, Registered, Kept, Handling
  <2>2. UNCHANGED <<sfd, sock, batch, phase>> /\ reg' = [reg EXCEPT ![afd] = aslot]
    BY <1>4 DEF AddOk, pool, workers
  <2>3. afd \in Fds /\ reg[afd] = NoSlot /\ apc = "add"
    BY <1>4 DEF AddOk, Accepting
  <2>4. \A s \in Slots : HalfClosed(s) => HalfClosed(s)'
    BY <2>2, <2>3 DEF HalfClosed
  <2>5. \A s \in Slots : s # aslot /\ Refused(s) => Refused(s)'
    BY <2>2, <2>3 DEF Refused
  <2>6. Kept(aslot)
    BY DEF Kept
  <2> QED
    BY <2>1, <2>2, <2>4, <2>5, <2>6, EventsAreClients, HeardFrame DEF Events
<1>5. CASE Reject
  <2>1. \A s \in Slots : s # aslot /\ Kept(s) => Kept(s)'
    BY <1>5 DEF Reject, NextAccept, Close, pool, workers, Accepting, Registered,
                Kept, Handling
  <2>2. /\ UNCHANGED <<sfd, batch, phase>> /\ afd \in Fds /\ reg[afd] = NoSlot
        /\ reg' = [reg EXCEPT ![afd] = NoSlot]
        /\ sock' = [sock EXCEPT ![afd] = ClosedSocket]
    BY <1>5 DEF Reject, Close, pool, workers, Accepting
  <2>3. \A s \in Slots : HalfClosed(s) => HalfClosed(s)'
    BY <2>2 DEF HalfClosed
  <2>4. \A s \in Slots : Refused(s) => Refused(s)'
    BY <2>2 DEF Refused
  <2>5. \A s \in Slots : s = aslot => Refused(s)'
    BY <1>5, <2>2 DEF Reject, Used, Refused
  <2> QED
    BY <2>1, <2>2, <2>3, <2>4, <2>5, EventsAreClients, HeardFrame DEF Events
<1> QED
  BY <1>1, <1>2, <1>3, <1>4, <1>5 DEF AddClient

(* epoll_wait(): a registration becomes an event. *)
LEMMA EpollWaitHeard ==
  ASSUME IInv, Heard, NEW w \in Workers, EpollWait(w)
  PROVE  Heard'
<1> USE Numbers DEF IInv, Typed
<1>1. UNCHANGED <<sfd, free, sock, reg, aslot, phase>>
  BY DEF EpollWait, pool, server
<1>2. ASSUME NEW s \in Slots, Kept(s) PROVE Kept(s)'
  <2>1. CASE \E f \in Deliverable : reg[f] = s
    <3>1. PICK f \in Deliverable : reg[f] = s
      BY <2>1
    <3> DEFINE e == [cl |-> reg[f], flags |-> Flags(f)]
    <3>2. e \in batch'[w]
      BY DEF EpollWait
    <3>3. e # Control /\ e.cl = s
      BY <3>1 DEF Control
    <3> HIDE DEF e
    <3> QED
      BY <3>2, <3>3 DEF Kept, Handling
  <2>2. CASE ~\E f \in Deliverable : reg[f] = s
    <3>1. \A v \in Workers : Handling(v) \subseteq Handling(v)'
      BY DEF EpollWait, Handling
    <3>2. \A f \in armed : reg[f] = s => f \in armed'
      BY <2>2 DEF EpollWait
    <3> QED
      BY <1>1, <1>2, <3>1, <3>2 DEF Kept
  <2> QED
    BY <2>1, <2>2
<1>3. /\ \A s \in Slots : HalfClosed(s) => HalfClosed(s)'
      /\ \A s \in Slots : Refused(s) => Refused(s)'
  BY <1>1, HalfClosedFrame
<1>4. ASSUME NEW v \in Workers, NEW e \in Events(v)', Disposition(e.flags) = "loop"
      PROVE  HalfClosed(e.cl)'
  <2>1. CASE e \in Events(v)
    BY <1>3, <1>4, <2>1, EventsAreClients DEF Heard
  <2>2. CASE e \notin Events(v)
    <3>1. PICK f \in Deliverable : e = [cl |-> reg[f], flags |-> Flags(f)]
      BY <2>2 DEF EpollWait, Events
    <3>2. f \in armed /\ Flags(f) # {} /\ e.cl = reg[f] /\ e.flags = Flags(f)
      BY <3>1 DEF Deliverable
    <3>3. f \in Fds /\ sock[f] \in SocketStates
      BY <3>2
    <3>4. sock[f].fin /\ sock[f].shut
      BY <1>4, <3>2, <3>3, FlagsHaveCase
    <3>5. sfd[e.cl] = f /\ reg[f] # NoSlot
      BY <3>2, <3>3 DEF Registered
    <3> QED
      BY <1>1, <3>2, <3>3, <3>4, <3>5 DEF HalfClosed
  <2> QED
    BY <2>1, <2>2
<1> QED
  BY <1>1, <1>2, <1>3, <1>4 DEF Heard

(* process(): an event without a case loses its client. *)
LEMMA ProcessHeard ==
  ASSUME IInv, Heard, NEW w \in Workers, Process(w)
  PROVE  Heard'
<1> USE Numbers DEF IInv, Typed
<1>1. PICK e \in Events(w) :
        /\ batch' = [batch EXCEPT ![w] = @ \ {e}]
        /\ wpc'   = [wpc EXCEPT ![w] = Disposition(e.flags)]
        /\ cur'   = [cur EXCEPT ![w] = IF Disposition(e.flags) = "loop" THEN NoSlot ELSE e.cl]
  BY DEF Process, Events
<1>2. UNCHANGED <<sfd, free, sock, reg, armed, aslot, phase>> /\ wpc[w] = "loop"
  BY DEF Process, pool, kernel, server
<1>3. \A v \in Workers \ {w} : Handling(v)' = Handling(v)
  BY <1>1 DEF Handling
<1>4. Handling(w) \subseteq Handling(w)' \cup {e.cl}
  BY <1>1, <1>2 DEF Handling, Events
<1>5. Disposition(e.flags) # "loop" => e.cl \in Handling(w)'
  BY <1>1, DispositionType DEF Handling
<1>6. \A s \in Slots : Kept(s) => Kept(s)' \/ (s = e.cl /\ Disposition(e.flags) = "loop")
  BY <1>2, <1>3, <1>4, <1>5 DEF Kept
<1>7. Disposition(e.flags) = "loop" => HalfClosed(e.cl)
  BY DEF Heard
<1>8. \A v \in Workers : Events(v)' \subseteq Events(v)
  BY <1>1 DEF Events
<1>9. /\ \A s \in Slots : HalfClosed(s) => HalfClosed(s)'
      /\ \A s \in Slots : Refused(s) => Refused(s)'
  BY <1>2, HalfClosedFrame
<1> QED
  BY <1>2, <1>6, <1>7, <1>8, <1>9, EventsAreClients, HeardFrame

(* unuse(): the client is in the worker's hands until its slot is free. *)
LEMMA UnuseHeard ==
  ASSUME IInv, Heard, NEW w \in Workers,
         UnuseClose(w) \/ UnuseClear(w) \/ UnusePush(w) \/ UnuseCount(w)
  PROVE  Heard'
<1> USE Numbers DEF IInv, Typed
<1>1. CASE UnuseClose(w)
  <2>1. \A f \in armed : f # sfd[cur[w]]
    BY <1>1 DEF UnuseClose, Working, Reported
  <2>2. \A v \in Workers : Handling(v)' = Handling(v) /\ Events(v)' = Events(v)
    BY <1>1 DEF UnuseClose, Handling, Events
  <2>3. \A s \in Slots : Kept(s) => Kept(s)'
    BY <1>1, <2>1, <2>2 DEF UnuseClose, Close, pool, server, Kept
  <2>4. cur[w] \in Slots /\ sfd[cur[w]] \in Fds /\ reg[sfd[cur[w]]] = cur[w] /\ Busy(w)
    BY <1>1 DEF UnuseClose, Working, Reported, Busy
  <2>5. /\ UNCHANGED <<sfd, phase>>
        /\ reg' = [reg EXCEPT ![sfd[cur[w]]] = NoSlot]
        /\ sock' = [sock EXCEPT ![sfd[cur[w]]] = ClosedSocket]
    BY <1>1 DEF UnuseClose, Close, pool
  <2>6. \A s \in Slots : s # cur[w] /\ HalfClosed(s) => HalfClosed(s)'
    BY <2>4, <2>5 DEF HalfClosed
  <2>7. \A s \in Slots : Refused(s) => Refused(s)'
    BY <2>4, <2>5 DEF Refused
  <2>8. \A v \in Workers : \A e \in Events(v) : e.cl # cur[w]
    BY <2>4 DEF Working, Apart
  <2>9. Kept(cur[w])
    BY <1>1 DEF UnuseClose, Kept, Handling
  <2> QED
    BY <2>2, <2>3, <2>4, <2>5, <2>6, <2>7, <2>8, <2>9, EventsAreClients, HeardFrame
<1>2. CASE UnuseClear(w)
  <2>1. \A s \in Slots : Kept(s) => Kept(s)'
    BY <1>2, KeptFrame DEF UnuseClear, kernel, server, Busy
  <2>2. \A v \in Workers : Events(v)' = Events(v)
    BY <1>2 DEF UnuseClear, Events
  <2>3. UNCHANGED <<sock, reg, phase>> /\ \A s \in Slots : s # cur[w] => sfd'[s] = sfd[s]
    BY <1>2 DEF UnuseClear, kernel
  <2>4. Kept(cur[w]) /\ ~HalfClosed(cur[w])
    BY <1>2 DEF UnuseClear, Kept, Handling, Working, HalfClosed
  <2>5. \A s \in Slots : HalfClosed(s) => HalfClosed(s)'
    BY <2>3, <2>4 DEF HalfClosed
  <2>6. \A s \in Slots : s # cur[w] /\ Refused(s) => Refused(s)'
    BY <2>3 DEF Refused
  <2> QED
    BY <2>1, <2>2, <2>3, <2>4, <2>5, <2>6, EventsAreClients, HeardFrame
<1>3. CASE UnusePush(w)
  <2>1. \A v \in Workers \ {w} : Handling(v)' = Handling(v)
    BY <1>3 DEF UnusePush, Handling
  <2>2. Handling(w) \subseteq Handling(w)' \cup {cur[w]}
    BY <1>3 DEF UnusePush, Handling
  <2>3. \A s \in Slots : Kept(s) => Kept(s)'
    BY <1>3, <2>1, <2>2 DEF UnusePush, kernel, server, Kept
  <2> QED
    BY <1>3, <2>3, StillStep DEF UnusePush, kernel, server, Events
<1>4. CASE UnuseCount(w)
  BY <1>4, QuietStep DEF UnuseCount, NextEvent, kernel, server, Busy
<1> QED
  BY <1>1, <1>2, <1>3, <1>4

LEMMA WorkerHeard ==
  ASSUME IInv, Heard, NEW w \in Workers, Worker(w)
  PROVE  Heard'
<1> USE Numbers DEF IInv, Typed
<1>1. CASE ReadData(w)
  <2>1. /\ \A g \in Fds : (sock[g].shut => sock'[g].shut) /\ sock'[g].fin = sock[g].fin
        /\ UNCHANGED <<pool, reg, armed, workers, server, phase>>
    BY <1>1, ReadStep
  <2> QED
    BY <2>1, QuietStep DEF pool, workers, server, Busy
<1>2. CASE ReadEnd(w) \/ ReadAgain(w)
  BY <1>2, QuietStep DEF ReadEnd, ReadAgain, pool, kernel, server, Busy
<1>3. CASE Rearm(w)
  <2>1. reg[sfd[cur[w]]] = cur[w]
    BY <1>3 DEF Rearm, Working, Reported
  <2>2. \A v \in Workers \ {w} : Handling(v)' = Handling(v)
    BY <1>3 DEF Rearm, NextEvent, Handling
  <2>3. Handling(w) \subseteq Handling(w)' \cup {cur[w]}
    BY <1>3 DEF Rearm, NextEvent, Handling
  <2>4. \A s \in Slots : Kept(s) => Kept(s)'
    BY <1>3, <2>1, <2>2, <2>3 DEF Rearm, pool, server, Kept
  <2> QED
    BY <1>3, <2>4, StillStep DEF Rearm, pool, server, Events
<1>4. CASE WorkerExit(w)
  <2>1. phase # "running" /\ phase' = phase
    BY <1>4 DEF WorkerExit, Leaving
  <2>2. \A v \in Workers : Events(v)' \subseteq Events(v)
    BY <1>4 DEF WorkerExit, Events
  <2>3. \A s \in Slots : HalfClosed(s) => HalfClosed(s)'
    BY <1>4, HalfClosedFrame DEF WorkerExit, pool, kernel
  <2> QED
    BY <2>1, <2>2, <2>3, EventsAreClients, HeardFrame
<1> QED
  BY <1>1, <1>2, <1>3, <1>4, EpollWaitHeard, ProcessHeard, UnuseHeard DEF Worker

LEMMA NextHeard ==
  ASSUME IInv, Used, Heard, [Next]_vars
  PROVE  Heard'
<1> USE Numbers, SocketTypes DEF IInv, Typed
<1>1. CASE Peer
  <2>1. PICK f \in Fds : PeerSend(f) \/ PeerClose(f) \/ PeerReset(f)
    BY <1>1 DEF Peer
  <2>2. /\ \A g \in Fds : sock'[g].shut = sock[g].shut /\ (sock[g].fin => sock'[g].fin)
        /\ UNCHANGED <<pool, reg, armed, workers, server, phase>>
    BY <2>1, PeerStep
  <2> QED
    BY <2>2, QuietStep DEF pool, workers, server, Busy
<1>2. CASE \E f \in Fds : Accept(f)
  BY <1>2, QuietStep DEF Accept, pool, workers, Busy
<1>3. CASE AddClient
  BY <1>3, AddClientHeard
<1>4. CASE \E w \in Workers : Worker(w)
  BY <1>4, WorkerHeard
<1>5. CASE StopServer \/ StopPool \/ JoinWorkers \/ StopDone
  BY <1>5, QuietStep
  DEF StopServer, StopPool, JoinWorkers, StopDone, pool, kernel, workers, server, Busy
<1>6. ASSUME NEW s \in Slots, Sweep(s) PROVE Heard'
  <2>1. phase' # "running" /\ \A w \in Workers : Events(w)' = {}
    BY <1>6 DEF Sweep, workers, Leaving, Events
  <2> QED
    BY <2>1 DEF Heard
<1>7. CASE Run
  <2>1. free = Slots
    BY <1>7 DEF Run, Accounted, Accepting, Leaving
  <2>2. \A w \in Workers : Events(w)' = {}
    BY <1>7 DEF Run, Leaving, Events
  <2> QED
    BY <1>7, <2>1, <2>2 DEF Run, pool, Heard, Kept
<1>8. CASE UNCHANGED vars
  BY <1>8, QuietStep DEF vars, pool, kernel, workers, server, Busy
<1> QED
  BY <1>1, <1>2, <1>3, <1>4, <1>5, <1>6, <1>7, <1>8 DEF Next, Stop

(* Who may touch a client of a running pool: exactly one thread or         *)
(* registration, and none where epoll_ctl refused the connection or both   *)
(* sides have ended it (add_client, client_pool::process, unuse).          *)
THEOREM OneKeeperHolds == Spec => []OneKeeper
<1>1. Init => Heard
  BY DEF Init, Heard, Kept, Events
<1>2. IInv /\ Used /\ Heard /\ [Next]_vars => Heard'
  BY NextHeard
<1>3. ASSUME IInv, Heard, phase = "running", NEW s \in Slots
      PROVE  Keepers(s) >= 1 \/ Stale(s) \/ HalfClosed(s)
  <2>1. CASE Kept(s)
    <3>1. Handlers(s) # {} \/ Registrations(s) # {} \/ s \in free \/ s = aslot
      BY <2>1 DEF Kept, Handlers, Registrations
    <3> QED
      BY <1>3, <3>1, KeepersTerms
  <2>2. CASE Refused(s)
    <3>1. Keepers(s) >= 1 \/ Keepers(s) = 0
      BY <1>3, KeepersTerms
    <3> QED
      BY <2>2, <3>1 DEF Refused, Stale
  <2> QED
    BY <1>3, <2>1, <2>2 DEF Heard
<1>4. IInv /\ Heard => OneKeeper
  BY <1>3, AtMostOneKeeperInv DEF OneKeeper, NoOrphan
<1>5. Spec => []Used
  BY UsedInvariance, PTL
<1> QED
  BY <1>1, <1>2, <1>4, <1>5, InitIInv, NextIInv, PTL DEF Spec
=============================================================================
