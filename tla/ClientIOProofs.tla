--------------------------- MODULE ClientIOProofs ---------------------------
(***************************************************************************)
(* Proofs about ClientIO: what the callbacks get of a stream of any        *)
(* length, read with a buffer of any size, wherever urgent bytes are and   *)
(* whenever they arrive.                                                   *)
(***************************************************************************)
EXTENDS ClientIO, SequenceTheorems, TLAPS

(* The urgent mark is about an urgent byte that is still in the queue or   *)
(* on its way.                                                             *)
Marked ==
  /\ urg # "none" => mark > copied /\ kind[mark] = "urgent"
  /\ urg \in {"valid", "read"} => mark <= arrived
  /\ urg = "notyet" => mark > arrived

(* What the callbacks have had is off the queue, except an urgent byte the *)
(* handler has just taken, and whose place recv() will skip.               *)
Heard ==
  ~moved =>
    /\ pc = "oob" => AtMark
    /\ urg = "read" => pc = "urgent" /\ mark = copied + 1
    /\ \A i \in 1 .. Len(calls) :
         calls[i].byte <= copied \/ (urg = "read" /\ calls[i].byte = mark)

OobCalled(p) == \E i \in 1 .. Len(calls) : calls[i].name = "client_pool::on_oob" /\ calls[i].byte = p

(* An urgent byte that was announced has been taken, or the handler is on  *)
(* its way to it, or the client is being released.                         *)
Announced ==
  reported # 0 =>
    /\ reported = mark
    /\ \/ OobCalled(mark)
       \/ /\ urg = "valid"
          /\ \/ pc = "process" /\ "PRI" \in flags
             \/ pc \in {"mark", "oob", "unuse", "done"}
             \/ pc = "urgent" /\ mark # copied + 1

(* The events process() can meet. *)
Events ==
  {{"IN"}, {"PRI"}, {"IN", "PRI"}, {"IN", "RDHUP"}, {"IN", "PRI", "RDHUP"},
   {"IN", "RDHUP", "HUP", "ERR"}, {"IN", "PRI", "RDHUP", "HUP", "ERR"}}

Handled ==
  /\ "OUT" \notin flags
  /\ "ERR" \in flags => err
  /\ pc = "process" => flags \in Events

IInv ==
  /\ TypeOK /\ Marked /\ Handled /\ Heard /\ Announced
  /\ CallsInOrder /\ NoDataLost /\ WriteReadyInTime

Calls == [name : Callbacks, byte : 1 .. Len(kind)]

-----------------------------------------------------------------------------
(* Numbers and sequences.                                                  *)

LEMMA Shape ==
  ASSUME TypeOK
  PROVE  /\ Len(kind) \in Nat /\ copied \in Nat /\ arrived \in Nat /\ mark \in Nat
         /\ copied <= arrived /\ arrived <= Len(kind) /\ mark <= Len(kind)
         /\ calls \in Seq(Calls) /\ Len(calls) \in Nat
         /\ BufSize \in Nat \ {0}
<1>1. kind \in Seq({"data", "urgent"}) /\ calls \in Seq(Calls)
  BY DEF TypeOK, Calls
<1>2. PICK l \in Nat : l = Len(kind)
  BY <1>1, LenProperties
<1>3. PICK m \in Nat : m = Len(calls)
  BY <1>1, LenProperties
<1> QED
  BY <1>1, <1>2, <1>3, IOAssumption DEF TypeOK

LEMMA LeastOfThree ==
  ASSUME NEW a \in Nat, NEW b \in Nat, NEW c \in Nat
  PROVE  \E x \in {a, b, c} : \A y \in {a, b, c} : x <= y
<1>1. \/ a <= a /\ a <= b /\ a <= c
      \/ b <= a /\ b <= b /\ b <= c
      \/ c <= a /\ c <= b /\ c <= c
  OBVIOUS
<1> QED
  BY <1>1

(* What recv() returns ends where the data does, where the buffer does or  *)
(* in front of the mark; what it skips is the mark.                        *)
LEMMA Received ==
  ASSUME TypeOK, Marked
  PROVE  /\ RecvFrom \in Nat /\ RecvTo \in Nat /\ RecvTo <= arrived
         /\ urg # "none" /\ RecvFrom <= mark => RecvTo < mark
         /\ RecvFrom > RecvTo => RecvTo = arrived \/ (urg # "none" /\ mark = RecvFrom)
         /\ IF AtMark /\ mark <= arrived THEN RecvFrom = copied + 2 ELSE RecvFrom = copied + 1
<1>1. /\ copied \in Nat /\ arrived \in Nat /\ mark \in Nat /\ BufSize \in Nat \ {0}
      /\ RecvFrom \in Nat \ {0}
      /\ IF AtMark /\ mark <= arrived THEN RecvFrom = copied + 2 ELSE RecvFrom = copied + 1
  BY Shape DEF RecvFrom
<1>2. PICK b \in Nat : b = RecvFrom + BufSize - 1 /\ b >= RecvFrom
  BY <1>1
<1>3. CASE urg # "none" /\ mark >= RecvFrom
  <2>1. PICK c \in Nat : c = mark - 1
    BY <1>1, <1>3
  <2>2. PICK s : s = {arrived, b} \cup (IF urg # "none" /\ mark >= RecvFrom THEN {mark - 1} ELSE {})
    OBVIOUS
  <2>3. s = {arrived, b, c}
    BY <1>3, <2>1, <2>2
  <2>4. PICK n : n = CHOOSE x \in s : \A y \in s : x <= y
    OBVIOUS
  <2>5. n = RecvTo
    BY <1>2, <2>2, <2>4 DEF RecvTo
  <2>6. n \in s /\ n <= arrived /\ n <= b /\ n <= c
    <3>1. \E x \in s : \A y \in s : x <= y
      BY <1>1, <2>3, LeastOfThree
    <3>2. n \in s /\ \A y \in s : n <= y
      BY <2>4, <3>1
    <3> QED
      BY <2>3, <3>2
  <2> QED
    BY <1>1, <1>2, <1>3, <2>1, <2>3, <2>5, <2>6
<1>4. CASE ~(urg # "none" /\ mark >= RecvFrom)
  <2>2. PICK s : s = {arrived, b} \cup (IF urg # "none" /\ mark >= RecvFrom THEN {mark - 1} ELSE {})
    OBVIOUS
  <2>3. s = {arrived, b, b}
    BY <1>4, <2>2
  <2>4. PICK n : n = CHOOSE x \in s : \A y \in s : x <= y
    OBVIOUS
  <2>5. n = RecvTo
    BY <1>2, <2>2, <2>4 DEF RecvTo
  <2>6. n \in s /\ n <= arrived /\ n <= b
    <3>1. \E x \in s : \A y \in s : x <= y
      BY <1>1, <2>3, LeastOfThree
    <3>2. n \in s /\ \A y \in s : n <= y
      BY <2>4, <3>1
    <3> QED
      BY <2>3, <3>2
  <2> QED
    BY <1>1, <1>2, <1>4, <2>3, <2>5, <2>6
<1> QED
  BY <1>3, <1>4

(* What on_input() adds to m calls: one per byte, in order. *)
Extended(u, from, to, m) ==
  /\ u \in Seq(Calls) /\ Len(u) = m + (to + 1 - from)
  /\ \A i \in 1 .. m : u[i] = calls[i]
  /\ \A i \in m + 1 .. m + (to + 1 - from) :
       u[i].name = "on_input" /\ u[i].byte = from - 1 + (i - m)

LEMMA InputCalls ==
  ASSUME TypeOK, NEW from \in Nat \ {0}, NEW to \in Nat, from <= to, to <= Len(kind),
         NEW u, u = calls \o Input(from, to), NEW m \in Nat, m = Len(calls)
  PROVE  Extended(u, from, to, m)
<1>1. PICK l \in Nat \ {0} : l = to + 1 - from
  OBVIOUS
<1>2. PICK v : v = Input(from, to)
  OBVIOUS
<1>3. \A i \in 1 .. l : [name |-> "on_input", byte |-> from - 1 + i] \in Calls
  BY <1>1, Shape DEF Calls, Callbacks
<1>4. v = [i \in 1 .. l |-> [name |-> "on_input", byte |-> from - 1 + i]]
  BY <1>1, <1>2 DEF Input
<1>5. v \in [1 .. l -> Calls]
  BY <1>3, <1>4
<1>6. v \in Seq(Calls) /\ Len(v) = l
  <2>1. v \in Seq(Calls)
    BY <1>1, <1>5, SeqDef
  <2>2. PICK k \in Nat : k = Len(v)
    BY <2>1, LenProperties
  <2>3. 1 .. l = 1 .. k
    BY <1>4, <2>1, <2>2, LenProperties
  <2>4. l \in 1 .. k
    BY <1>1, <2>3
  <2>5. k \in 1 .. l
    BY <2>3, <2>4
  <2> QED
    BY <2>1, <2>2, <2>4, <2>5
<1>7. calls \in Seq(Calls)
  BY Shape
<1>8. /\ u \in Seq(Calls) /\ Len(u) = m + l
      /\ \A i \in 1 .. m + l : u[i] = IF i <= m THEN calls[i] ELSE v[i - m]
  <2>1. u = calls \o v
    BY <1>2
  <2>2. /\ calls \o v \in Seq(Calls) /\ Len(calls \o v) = Len(calls) + Len(v)
        /\ \A i \in 1 .. Len(calls) + Len(v) :
             (calls \o v)[i] = IF i <= Len(calls) THEN calls[i] ELSE v[i - Len(calls)]
    BY <1>6, <1>7, ConcatProperties, Zenon
  <2>3. Len(calls) = m /\ Len(v) = l
    BY <1>6
  <2> QED
    BY <2>1, <2>2, <2>3, Zenon
<1>9. \A i \in m + 1 .. m + l : u[i].name = "on_input" /\ u[i].byte = from - 1 + (i - m)
  <2> SUFFICES ASSUME NEW i \in m + 1 .. m + l
               PROVE  u[i].name = "on_input" /\ u[i].byte = from - 1 + (i - m)
    OBVIOUS
  <2>a. i - m \in 1 .. l
    BY <1>1
  <2>1. PICK j \in 1 .. l : j = i - m
    BY <2>a
  <2>2. u[i] = v[j]
    <3>1. i \in 1 .. m + l /\ ~(i <= m)
      BY <1>1
    <3> QED
      BY <1>8, <2>1, <3>1
  <2>3. v[j] = [name |-> "on_input", byte |-> from - 1 + j]
    BY <1>4
  <2> QED
    BY <2>1, <2>2, <2>3
<1> QED
  BY <1>1, <1>8, <1>9 DEF Extended

-----------------------------------------------------------------------------
(* The peer and the network.                                               *)

(* Steps that read nothing and leave the mark alone. *)
LEMMA Keeps ==
  ASSUME IInv, UNCHANGED <<kind, arrived, mark, copied, urg, calls, moved>>
  PROVE  Marked' /\ CallsInOrder' /\ NoDataLost'
BY DEF IInv, Marked, CallsInOrder, NoDataLost

LEMMA PeerSendInv ==
  ASSUME IInv, NEW k \in {"data", "urgent"}, PeerSend(k)
  PROVE  IInv'
<1>1. /\ kind' = Append(kind, k) /\ Len(kind) < MaxBytes
      /\ UNCHANGED <<arrived, mark, fin, err, copied, urg, pc, flags, calls, reported, moved, stale>>
  BY DEF PeerSend, history
<1>2. PICK l \in Nat : l = Len(kind)
  BY Shape DEF IInv
<1>3. /\ copied \in Nat /\ arrived \in Nat /\ mark \in Nat /\ copied <= arrived /\ arrived <= l
      /\ mark <= l /\ calls \in Seq(Calls)
  BY <1>2, Shape DEF IInv
<1>4. /\ kind' \in Seq({"data", "urgent"}) /\ Len(kind') = l + 1
      /\ \A i \in 1 .. l : kind'[i] = kind[i]
  BY <1>1, <1>2, AppendProperties DEF IInv, TypeOK
<1>5. calls \in Seq(Calls')
  <2>1. Calls \subseteq Calls'
    BY <1>2, <1>4 DEF Calls
  <2> QED
    BY <1>3, <2>1, SeqMonotonic
<1>6. TypeOK'
  BY <1>1, <1>2, <1>4, <1>5, IOAssumption DEF IInv, TypeOK, Calls
<1>7. Marked'
  BY <1>1, <1>3, <1>4 DEF IInv, Marked
<1>8. NoDataLost'
  BY <1>1, <1>3, <1>4 DEF IInv, NoDataLost
<1>9. Handled' /\ Heard' /\ Announced' /\ CallsInOrder' /\ WriteReadyInTime'
  BY <1>1 DEF IInv, Handled, Heard, AtMark, Announced, OobCalled, CallsInOrder, WriteReadyInTime
<1> QED
  BY <1>6, <1>7, <1>8, <1>9 DEF IInv

LEMMA MoveMarkInv ==
  ASSUME IInv, NEW p \in Nat, NEW state \in {"valid", "notyet"}, MoveMark(p, state),
         kind[p] = "urgent", p > arrived, p <= Len(kind), arrived' \in {arrived, arrived + 1},
         arrived' <= Len(kind), IF state = "valid" THEN p = arrived' ELSE p > arrived',
         UNCHANGED <<kind, fin, err, pc, flags, calls, stale>>
  PROVE  IInv'
<1>1. /\ urg' = state /\ mark' = p /\ reported' = 0 /\ moved' = (moved \/ pc = "oob")
      /\ copied' = IF urg # "none" /\ mark = copied + 1 /\ mark <= arrived
                     THEN copied + 1 ELSE copied
  BY DEF MoveMark
<1>2. PICK l \in Nat : l = Len(kind)
  BY Shape DEF IInv
<1>3. /\ copied \in Nat /\ arrived \in Nat /\ mark \in Nat /\ copied <= arrived /\ arrived <= l
      /\ mark <= l /\ calls \in Seq(Calls) /\ Len(calls) \in Nat
  BY <1>2, Shape DEF IInv
<1>4. /\ copied' \in Nat /\ copied <= copied' /\ copied' <= arrived /\ arrived' \in Nat
      /\ copied' # copied => urg # "none" /\ mark = copied' /\ copied' = copied + 1
  BY <1>1, <1>3
<1>5. TypeOK'
  BY <1>1, <1>2, <1>3, <1>4 DEF IInv, TypeOK
<1>6. Marked'
  BY <1>1, <1>3, <1>4 DEF Marked
<1>7. Handled' /\ Announced' /\ CallsInOrder' /\ WriteReadyInTime'
  BY <1>1 DEF IInv, Handled, Announced, CallsInOrder, WriteReadyInTime
<1>8. NoDataLost'
  <2>1. \A n \in 1 .. copied' : n \in 1 .. copied \/ (n = mark /\ urg # "none")
    BY <1>3, <1>4
  <2>2. urg # "none" => kind[mark] = "urgent"
    BY DEF IInv, Marked
  <2> QED
    BY <2>1, <2>2 DEF IInv, NoDataLost
<1>9. Heard'
  <2> SUFFICES ASSUME ~moved' PROVE Heard'
    BY DEF Heard
  <2>1. ~moved /\ pc # "oob" /\ urg' # "read"
    BY <1>1
  <2>2. urg = "read" => mark = copied + 1 /\ mark <= arrived
    BY <2>1 DEF IInv, Heard, Marked
  <2>3. urg = "read" => copied' = mark
    BY <1>1, <1>3, <2>2
  <2>4. \A i \in 1 .. Len(calls) : calls[i].byte \in Nat
    <3>1. \A i \in 1 .. Len(calls) : calls[i] \in Calls
      BY <1>3, ElementOfSeq
    <3> QED
      BY <1>2, <3>1 DEF Calls
  <2>5. \A i \in 1 .. Len(calls) : calls[i].byte <= copied'
    BY <1>3, <1>4, <2>1, <2>3, <2>4 DEF IInv, Heard
  <2> QED
    BY <2>1, <2>5 DEF Heard
<1> QED
  BY <1>5, <1>6, <1>7, <1>8, <1>9 DEF IInv

LEMMA AnnounceInv ==
  ASSUME IInv, NEW p \in 1 .. Len(kind), Announce(p)
  PROVE  IInv'
<1>1. /\ MoveMark(p, "notyet") /\ p > arrived /\ kind[p] = "urgent"
      /\ UNCHANGED <<kind, arrived, fin, err, pc, flags, calls, stale>>
  BY DEF Announce, NewMark
<1>2. p \in Nat /\ p <= Len(kind) /\ arrived \in Nat /\ arrived <= Len(kind)
  BY Shape DEF IInv
<1> QED
  BY <1>1, <1>2, MoveMarkInv

LEMMA ArriveInv ==
  ASSUME IInv, Arrive
  PROVE  IInv'
<1>1. /\ arrived' = arrived + 1 /\ arrived < Len(kind)
      /\ UNCHANGED <<kind, fin, err, pc, flags, calls, stale>>
  BY DEF Arrive
<1>2. PICK l \in Nat : l = Len(kind)
  BY Shape DEF IInv
<1>3. /\ copied \in Nat /\ arrived \in Nat /\ mark \in Nat /\ copied <= arrived /\ arrived <= l
      /\ mark <= l
  BY <1>2, Shape DEF IInv
<1>4. CASE NewMark(arrived + 1)
  <2>1. PICK p \in Nat : p = arrived + 1
    BY <1>3
  <2>2. MoveMark(p, "valid") /\ kind[p] = "urgent"
    BY <1>4, <2>1 DEF Arrive, NewMark
  <2>3. p > arrived /\ p <= Len(kind) /\ arrived' = p
    BY <1>1, <1>2, <1>3, <2>1
  <2> QED
    BY <1>1, <1>3, <2>1, <2>2, <2>3, MoveMarkInv
<1>5. CASE ~NewMark(arrived + 1)
  <2>1. /\ urg' = IF urg = "notyet" /\ mark = arrived + 1 THEN "valid" ELSE urg
        /\ UNCHANGED <<mark, copied, reported, moved>>
    BY <1>5 DEF Arrive
  <2>2. TypeOK'
    BY <1>1, <1>2, <1>3, <2>1 DEF IInv, TypeOK
  <2>3. Marked'
    BY <1>1, <1>3, <2>1 DEF IInv, Marked
  <2>4. Handled' /\ CallsInOrder' /\ NoDataLost' /\ WriteReadyInTime'
    BY <1>1, <2>1 DEF IInv, Handled, CallsInOrder, NoDataLost, WriteReadyInTime
  <2>5. Heard'
    BY <1>1, <2>1 DEF IInv, Heard, AtMark
  <2>6. Announced'
    BY <1>1, <2>1 DEF IInv, Announced, OobCalled
  <2> QED
    BY <2>2, <2>3, <2>4, <2>5, <2>6 DEF IInv
<1> QED
  BY <1>4, <1>5

LEMMA PeerEndsInv ==
  ASSUME IInv, PeerClose \/ PeerReset
  PROVE  IInv'
<1>1. /\ UNCHANGED <<kind, arrived, mark, copied, urg, pc, flags, calls, reported, moved, stale>>
      /\ fin' \in BOOLEAN /\ err' \in BOOLEAN /\ (err => err')
  <2>1. fin \in BOOLEAN /\ err \in BOOLEAN
    BY DEF IInv, TypeOK
  <2>2. CASE PeerClose
    BY <2>1, <2>2 DEF PeerClose, history
  <2>3. CASE PeerReset
    BY <2>1, <2>3 DEF PeerReset, history
  <2> QED
    BY <2>2, <2>3
<1>2. TypeOK'
  BY <1>1 DEF IInv, TypeOK
<1>3. Handled'
  BY <1>1 DEF IInv, Handled
<1>4. Heard' /\ Announced' /\ WriteReadyInTime'
  BY <1>1 DEF IInv, Heard, AtMark, Announced, OobCalled, WriteReadyInTime
<1> QED
  BY <1>1, <1>2, <1>3, <1>4, Keeps DEF IInv

-----------------------------------------------------------------------------
(* The worker.                                                             *)

(* epoll_wait() reports nothing that process() has no case for.            *)
LEMMA EventKnown ==
  ASSUME TypeOK, Ready \cap Requested # {}
  PROVE  /\ Ready \cap Requested \in Events
         /\ "PRI" \in Ready \cap Requested => urg = "valid"
         /\ "ERR" \in Ready \cap Requested => err
<1>1. PICK f : f = Ready \cap Requested
  OBVIOUS
<1>2. PICK more \in BOOLEAN : more <=> arrived > copied + (IF AtMark THEN 1 ELSE 0)
  OBVIOUS
<1>3. \A x : x \in f <=> \/ x = "IN" /\ (fin \/ err \/ more)
                         \/ x = "PRI" /\ urg = "valid"
                         \/ x = "RDHUP" /\ (fin \/ err)
                         \/ x \in {"HUP", "ERR"} /\ err
  BY <1>1, <1>2 DEF Ready, Requested
<1>4. CASE err
  <2>1. urg = "valid" => f = {"IN", "PRI", "RDHUP", "HUP", "ERR"}
    BY <1>3, <1>4
  <2>2. urg # "valid" => f = {"IN", "RDHUP", "HUP", "ERR"}
    BY <1>3, <1>4
  <2> QED
    BY <1>1, <1>3, <1>4, <2>1, <2>2 DEF Events
<1>5. CASE ~err /\ fin
  <2>1. urg = "valid" => f = {"IN", "PRI", "RDHUP"}
    BY <1>3, <1>5
  <2>2. urg # "valid" => f = {"IN", "RDHUP"}
    BY <1>3, <1>5
  <2> QED
    BY <1>1, <1>3, <1>5, <2>1, <2>2 DEF Events
<1>6. CASE ~err /\ ~fin
  <2>1. urg = "valid" /\ more => f = {"IN", "PRI"}
    BY <1>3, <1>6
  <2>2. urg = "valid" /\ ~more => f = {"PRI"}
    BY <1>3, <1>6
  <2>3. urg # "valid" => more /\ f = {"IN"}
    BY <1>1, <1>3, <1>6
  <2> QED
    BY <1>1, <1>3, <1>6, <2>1, <2>2, <2>3 DEF Events
<1> QED
  BY <1>4, <1>5, <1>6

(* The switch: an event with urgent data goes to handle_epollpri(), unless *)
(* it tells of an error, and only an error leads straight to unuse().      *)
LEMMA HandlerKnown ==
  ASSUME flags \in Events
  PROVE  /\ Handler \in {"input", "mark", "unuse"}
         /\ "PRI" \in flags => Handler \in {"mark", "unuse"}
         /\ Handler = "unuse" => "ERR" \in flags
<1>1. PICK f : f = flags \ {"OUT"}
  OBVIOUS
<1>2. f = flags
  BY <1>1 DEF Events
<1>3. f \notin {{"HUP"}, {"RDHUP"}}
  <2>1. "IN" \in f \/ "PRI" \in f
    BY <1>2 DEF Events
  <2> QED
    BY <2>1
<1>4. \A g \in InputCases : "PRI" \notin g /\ "ERR" \notin g
  BY DEF InputCases, Hangups
<1>5. \A g \in UrgentCases : "PRI" \in g /\ "ERR" \notin g
  BY DEF UrgentCases, Hangups
<1>6. CASE "ERR" \in flags
  BY <1>1, <1>2, <1>3, <1>4, <1>5, <1>6 DEF Handler
<1>7. CASE "ERR" \notin flags /\ "PRI" \in flags
  <2>1. flags \in {{"PRI"}, {"IN", "PRI"}, {"IN", "PRI", "RDHUP"}}
    BY <1>7 DEF Events
  <2>2. f \in UrgentCases
    <3>1. {"PRI"} = {"PRI"} \cup {} /\ {"IN", "PRI"} = {"IN", "PRI"} \cup {}
          /\ {"IN", "PRI", "RDHUP"} = {"IN", "PRI"} \cup {"RDHUP"}
      OBVIOUS
    <3> QED
      BY <1>2, <2>1, <3>1 DEF UrgentCases, Hangups
  <2> QED
    BY <1>1, <1>3, <1>4, <1>5, <2>2 DEF Handler
<1>8. CASE "ERR" \notin flags /\ "PRI" \notin flags
  <2>1. flags \in {{"IN"}, {"IN", "RDHUP"}}
    BY <1>8 DEF Events
  <2>2. f \in InputCases
    <3>1. {"IN"} = {"IN"} \cup {} /\ {"IN", "RDHUP"} = {"IN"} \cup {"RDHUP"}
      OBVIOUS
    <3> QED
      BY <1>2, <2>1, <3>1 DEF InputCases, Hangups
  <2> QED
    BY <1>1, <1>3, <1>4, <1>5, <1>8, <2>2 DEF Handler
<1> QED
  BY <1>6, <1>7, <1>8

LEMMA EpollWaitInv ==
  ASSUME IInv, EpollWait
  PROVE  IInv'
<1>1. /\ pc = "wait" /\ pc' = "process" /\ flags' = Ready \cap Requested
      /\ reported' = IF "PRI" \in flags' THEN mark ELSE reported
      /\ UNCHANGED <<kind, arrived, mark, fin, err, copied, urg, calls, moved, stale>>
  BY DEF EpollWait, network
<1>2. flags' \in Events /\ ("PRI" \in flags' => urg = "valid") /\ ("ERR" \in flags' => err)
  BY <1>1, EventKnown DEF IInv, EpollWait
<1>3. Handled'
  <2>1. "OUT" \notin flags'
    BY <1>1 DEF Requested
  <2> QED
    BY <1>1, <1>2, <2>1 DEF Handled
<1>4. TypeOK'
  <2>1. flags' \subseteq {"IN", "PRI", "RDHUP", "HUP", "ERR", "OUT"}
    BY <1>1 DEF Requested
  <2>2. reported' \in 0 .. Len(kind)
    BY <1>1 DEF IInv, TypeOK
  <2> QED
    BY <1>1, <2>1, <2>2 DEF IInv, TypeOK
<1>5. Heard'
  BY <1>1 DEF IInv, Heard
<1>6. Announced'
  BY <1>1, <1>2 DEF IInv, Announced, OobCalled
<1> QED
  BY <1>1, <1>3, <1>4, <1>5, <1>6, Keeps DEF IInv, WriteReadyInTime

(* Steps of the worker that only go on. *)
LEMMA GoesOn ==
  ASSUME IInv, pc' \in {"wait", "input", "mark", "oob", "urgent", "unuse", "done"},
         flags' \in {flags, {}}, stale' = stale,
         UNCHANGED <<network, copied, urg, calls, reported, moved>>,
         pc \notin {"urgent", "done"},
         pc' = "oob" => AtMark, pc' = "urgent" => ~AtMark,
         pc \in {"process", "oob"} => pc' # "oob",
         urg = "valid" =>
           /\ pc = "process" /\ "PRI" \in flags => pc' \in {"mark", "unuse"}
           /\ pc = "oob" => pc' = "unuse"
           /\ pc = "mark" => pc' \in {"oob", "urgent"}
           /\ pc = "unuse" => pc' = "done"
  PROVE  IInv'
<1>1. UNCHANGED <<kind, arrived, mark, fin, err, copied, urg, calls, reported, moved, stale>>
  BY DEF network
<1>2. TypeOK'
  BY <1>1 DEF IInv, TypeOK
<1>3. Handled'
  BY <1>1 DEF IInv, Handled
<1>4. Heard'
  BY <1>1 DEF IInv, Heard, AtMark
<1>5. Announced'
  BY <1>1 DEF IInv, Announced, OobCalled, AtMark
<1> QED
  BY <1>1, <1>2, <1>3, <1>4, <1>5, Keeps DEF IInv, WriteReadyInTime

LEMMA ControlInv ==
  ASSUME IInv, Process \/ Look \/ ReadOobFails \/ Rearm \/ Unuse
  PROVE  IInv'
<1>1. CASE Process
  <2>1. Handler \in {"input", "mark", "unuse"} /\ ("PRI" \in flags => Handler \in {"mark", "unuse"})
    BY <1>1, HandlerKnown DEF IInv, Handled, Process
  <2> QED
    BY <1>1, <2>1, GoesOn DEF Process, history
<1>2. CASE Look
  BY <1>2, GoesOn DEF Look, history
<1>3. CASE ReadOobFails
  BY <1>3, GoesOn DEF ReadOobFails, history
<1>4. CASE Rearm \/ Unuse
  <2>1. flags \notin WriteCases
    BY DEF IInv, Handled, WriteCases
  <2>2. stale' = stale
    BY <1>4, <2>1 DEF Rearm, Unuse, Return, IInv, TypeOK
  <2> QED
    BY <1>4, <2>2, GoesOn DEF Rearm, Unuse, Return
<1> QED
  BY <1>1, <1>2, <1>3, <1>4

(* What leaves the queue was heard, or is the mark. *)
LEMMA ConsumeMarked ==
  ASSUME IInv, NEW n \in Nat, Consume(n), n <= arrived,
         UNCHANGED <<kind, arrived, mark>>
  PROVE  Marked'
<1>1. /\ copied \in Nat /\ arrived \in Nat /\ mark \in Nat
      /\ copied' = n /\ urg' = IF urg # "none" /\ mark <= n THEN "none" ELSE urg
  BY Shape DEF IInv, Consume
<1> QED
  BY <1>1 DEF IInv, Marked

LEMMA ReadInv ==
  ASSUME IInv, NEW loop \in {"input", "urgent"}, Read(loop)
  PROVE  IInv'
<1>1. PICK from, to : from = RecvFrom /\ to = RecvTo
  OBVIOUS
<1>2. PICK l, m : l \in Nat /\ m \in Nat /\ l = Len(kind) /\ m = Len(calls)
  BY Shape DEF IInv
<1>3. /\ copied \in Nat /\ arrived \in Nat /\ mark \in Nat /\ copied <= arrived /\ arrived <= l
      /\ mark <= l /\ calls \in Seq(Calls)
  BY <1>2, Shape DEF IInv
<1>4. /\ from \in Nat \ {0} /\ to \in Nat /\ from <= to /\ to <= arrived
      /\ urg # "none" /\ from <= mark => to < mark
      /\ IF AtMark /\ mark <= arrived THEN from = copied + 2 ELSE from = copied + 1
  BY <1>1, <1>3, Received DEF IInv, Read
<1>5. /\ pc = loop /\ pc' = IF loop = "input" THEN "input" ELSE "mark"
      /\ copied' = to /\ urg' = IF urg # "none" /\ mark <= to THEN "none" ELSE urg
      /\ calls' = calls \o Input(from, to)
      /\ UNCHANGED <<kind, arrived, mark, fin, err, flags, reported, moved, stale>>
  BY <1>1 DEF Read, Consume, network, history
<1>6. PICK k \in Nat \ {0} : k = to + 1 - from
  BY <1>4
<1>7. /\ calls' \in Seq(Calls) /\ Len(calls') = m + k
      /\ \A i \in 1 .. m : calls'[i] = calls[i]
      /\ \A i \in m + 1 .. m + k :
           calls'[i].name = "on_input" /\ calls'[i].byte = from - 1 + (i - m)
  <2>1. to <= Len(kind) /\ TypeOK
    BY <1>2, <1>3, <1>4 DEF IInv
  <2>2. /\ calls' \in Seq(Calls) /\ Len(calls') = m + (to + 1 - from)
        /\ \A i \in 1 .. m : calls'[i] = calls[i]
        /\ \A i \in m + 1 .. m + (to + 1 - from) :
             calls'[i].name = "on_input" /\ calls'[i].byte = from - 1 + (i - m)
    <3>1. PICK u : u = calls'
      OBVIOUS
    <3>2. u = calls \o Input(from, to)
      BY <1>5, <3>1
    <3>3. Extended(u, from, to, m)
      <4>1. TypeOK /\ from \in Nat \ {0} /\ to \in Nat /\ from <= to /\ to <= Len(kind)
        BY <1>4, <2>1
      <4>2. m \in Nat /\ m = Len(calls)
        BY <1>2
      <4> QED
        BY <3>2, <4>1, <4>2, InputCalls, ZenonT(60)
    <3> QED
      BY <3>1, <3>3 DEF Extended
  <2> QED
    BY <1>6, <2>2
<1>8. \A i \in 1 .. m : calls[i].byte \in Nat /\ calls'[i].byte \in Nat
  <2>1. \A i \in 1 .. m : calls[i] \in Calls
    BY <1>2, <1>3, ElementOfSeq
  <2> QED
    BY <1>2, <1>7, <2>1 DEF Calls
<1>9. TypeOK'
  <2>1. Calls' = Calls
    BY <1>5 DEF Calls
  <2>2. calls' \in Seq([name : Callbacks, byte : 1 .. Len(kind')])
    BY <1>7, <2>1 DEF Calls
  <2>3. copied' \in 0 .. arrived'
    BY <1>3, <1>4, <1>5
  <2> QED
    BY <1>5, <2>2, <2>3 DEF IInv, TypeOK
<1>10. Marked'
  <2>1. Consume(to)
    BY <1>1 DEF Read
  <2> QED
    BY <1>4, <1>5, <2>1, ConsumeMarked
<1>11. Handled' /\ WriteReadyInTime'
  BY <1>5 DEF IInv, Handled, WriteReadyInTime
<1>12. NoDataLost'
  <2> SUFFICES ASSUME NEW p \in 1 .. to, kind[p] = "data"
               PROVE  \E i \in 1 .. m + k : calls'[i].name = "on_input" /\ calls'[i].byte = p
    <3>1. DOMAIN calls' = 1 .. m + k
      BY <1>7, LenProperties
    <3> QED
      BY <1>5, <3>1 DEF NoDataLost
  <2>1. CASE p <= copied
    <3>1. PICK i \in 1 .. m : calls[i].name = "on_input" /\ calls[i].byte = p
      <4>1. DOMAIN calls = 1 .. m
        BY <1>2, <1>3, LenProperties
      <4>2. p \in 1 .. copied
        BY <1>3, <2>1
      <4> QED
        BY <4>1, <4>2 DEF IInv, NoDataLost
    <3>2. i \in 1 .. m + k /\ calls'[i] = calls[i]
      BY <1>2, <1>6, <1>7
    <3> QED
      BY <3>1, <3>2
  <2>2. CASE p >= from
    <3>1. PICK i \in m + 1 .. m + k : from - 1 + (i - m) = p
      <4>1. m + (p - from + 1) \in m + 1 .. m + k
        BY <1>2, <1>4, <1>6, <2>2
      <4>2. from - 1 + ((m + (p - from + 1)) - m) = p
        BY <1>2, <1>4
      <4> QED
        BY <4>1, <4>2
    <3>2. i \in 1 .. m + k
      BY <1>2, <1>6
    <3> QED
      BY <1>7, <3>1, <3>2
  <2>3. CASE copied < p /\ p < from
    <3>1. p = mark /\ urg # "none"
      BY <1>3, <1>4, <2>3 DEF AtMark
    <3> QED
      BY <3>1 DEF IInv, Marked
  <2> QED
    BY <1>3, <1>4, <2>1, <2>2, <2>3
<1>13. ~moved => /\ \A i \in 1 .. m : calls[i].byte < from
                 /\ \A i \in 1 .. m + k : calls'[i].byte <= to
                 /\ urg' # "read"
  <2> HAVE ~moved
  <2>1. urg = "read" => mark = copied + 1 /\ mark <= arrived
    BY DEF IInv, Heard, Marked
  <2>2. urg = "read" => from = copied + 2
    BY <1>4, <2>1 DEF AtMark
  <2>3. ASSUME NEW i \in 1 .. m PROVE calls[i].byte < from
    <3>1. calls[i].byte <= copied \/ (urg = "read" /\ calls[i].byte = mark)
      BY <1>2 DEF IInv, Heard
    <3>2. calls[i].byte \in Nat
      BY <1>8
    <3>3. CASE urg = "read"
      BY <1>3, <2>1, <2>2, <3>1, <3>2, <3>3
    <3>4. CASE urg # "read"
      BY <1>3, <1>4, <3>1, <3>2, <3>4
    <3> QED
      BY <3>3, <3>4
  <2>4. ASSUME NEW i \in 1 .. m + k PROVE calls'[i].byte <= to
    <3>1. CASE i \in 1 .. m
      BY <1>4, <1>7, <1>8, <2>3, <3>1
    <3>2. CASE i \in m + 1 .. m + k
      BY <1>2, <1>4, <1>6, <1>7, <3>2
    <3> QED
      BY <1>2, <1>6, <3>1, <3>2
  <2>5. urg' # "read"
    BY <1>3, <1>4, <1>5, <2>1, <2>2
  <2> QED
    BY <2>3, <2>4, <2>5
<1>14. Heard'
  <2>1. pc' # "oob" /\ Len(calls') = m + k
    BY <1>5, <1>7
  <2> QED
    BY <1>5, <1>13, <2>1 DEF Heard
<1>15. CallsInOrder'
  <2> SUFFICES ASSUME ~moved, NEW i \in 1 .. m + k - 1
               PROVE  calls'[i].byte < calls'[i + 1].byte
    <3>1. Len(calls') - 1 = m + k - 1 /\ moved' = moved
      BY <1>2, <1>5, <1>6, <1>7
    <3> QED
      BY <3>1 DEF CallsInOrder
  <2>1. CASE i < m
    <3>1. i \in 1 .. Len(calls) - 1 /\ i \in 1 .. m /\ i + 1 \in 1 .. m
      BY <1>2, <2>1
    <3> QED
      BY <1>7, <3>1 DEF IInv, CallsInOrder
  <2>2. CASE i = m
    <3>1. calls'[i].byte < from /\ i + 1 \in m + 1 .. m + k
      BY <1>2, <1>6, <1>7, <1>13, <2>2
    <3>2. calls'[i + 1].byte = from - 1 + ((i + 1) - m)
      BY <1>7, <3>1
    <3>3. from - 1 + ((i + 1) - m) = from
      BY <1>2, <1>4, <2>2
    <3> QED
      BY <3>1, <3>2, <3>3
  <2>3. CASE i > m
    <3>1. i \in m + 1 .. m + k /\ i + 1 \in m + 1 .. m + k
      BY <1>2, <1>6, <2>3
    <3>2. calls'[i].byte = from - 1 + (i - m) /\ calls'[i + 1].byte = from - 1 + ((i + 1) - m)
      BY <1>7, <3>1
    <3>3. from - 1 + (i - m) < from - 1 + ((i + 1) - m)
      BY <1>2, <1>4
    <3> QED
      BY <3>2, <3>3
  <2> QED
    BY <1>2, <1>6, <2>1, <2>2, <2>3
<1>16. Announced'
  <2> SUFFICES ASSUME reported # 0 PROVE Announced'
    BY <1>5 DEF Announced
  <2>1. reported = mark
    BY DEF IInv, Announced
  <2>2. CASE OobCalled(mark)
    <3>1. PICK i \in 1 .. m : calls[i].name = "client_pool::on_oob" /\ calls[i].byte = mark
      BY <1>2, <2>2 DEF OobCalled
    <3>2. i \in 1 .. Len(calls') /\ calls'[i] = calls[i]
      BY <1>2, <1>6, <1>7
    <3> QED
      BY <1>5, <2>1, <3>1, <3>2 DEF Announced, OobCalled
  <2>3. CASE ~OobCalled(mark)
    <3>1. urg = "valid" /\ pc = "urgent" /\ mark # copied + 1
      BY <1>5, <2>3 DEF IInv, Announced
    <3>2. from = copied + 1 /\ mark > copied
      BY <1>4, <3>1 DEF AtMark, IInv, Marked
    <3>3. to < mark
      BY <1>3, <1>4, <3>1, <3>2
    <3>4. urg' = "valid" /\ pc' = "mark"
      BY <1>3, <1>4, <1>5, <3>1, <3>3
    <3> QED
      BY <1>5, <2>1, <3>4 DEF Announced
  <2> QED
    BY <2>2, <2>3
<1> QED
  BY <1>9, <1>10, <1>11, <1>12, <1>14, <1>15, <1>16 DEF IInv

LEMMA ReadNothingInv ==
  ASSUME IInv, NEW loop \in {"input", "urgent"}, ReadNothing(loop)
  PROVE  IInv'
<1>1. PICK n : n = RecvFrom - 1
  OBVIOUS
<1>2. /\ copied \in Nat /\ arrived \in Nat /\ mark \in Nat /\ copied <= arrived
      /\ calls \in Seq(Calls) /\ Len(calls) \in Nat
      /\ RecvFrom \in Nat /\ RecvTo \in Nat /\ RecvTo <= arrived
      /\ RecvTo = arrived \/ (urg # "none" /\ mark = RecvFrom)
      /\ IF AtMark /\ mark <= arrived THEN RecvFrom = copied + 2 ELSE RecvFrom = copied + 1
  BY Shape, Received DEF IInv, ReadNothing
<1>3. /\ n \in Nat /\ copied <= n /\ n <= arrived
      /\ IF AtMark /\ mark <= arrived THEN n = copied + 1 ELSE n = copied
  BY <1>1, <1>2 DEF AtMark
<1>4. /\ pc = loop /\ pc' \in {"unuse", "rearm"}
      /\ copied' = n /\ urg' = IF urg # "none" /\ mark <= n THEN "none" ELSE urg
      /\ UNCHANGED <<kind, arrived, mark, fin, err, flags, calls, reported, moved, stale>>
  BY <1>1 DEF ReadNothing, Consume, network, history
<1>5. TypeOK'
  BY <1>3, <1>4 DEF IInv, TypeOK
<1>6. Marked'
  <2>1. Consume(n)
    BY <1>1 DEF ReadNothing
  <2> QED
    BY <1>3, <1>4, <2>1, ConsumeMarked
<1>7. Handled' /\ CallsInOrder' /\ WriteReadyInTime'
  BY <1>4 DEF IInv, Handled, CallsInOrder, WriteReadyInTime
<1>8. NoDataLost'
  <2>1. \A p \in 1 .. n : p \in 1 .. copied \/ (p = mark /\ urg # "none")
    BY <1>2, <1>3 DEF AtMark
  <2>2. urg # "none" => kind[mark] = "urgent"
    BY DEF IInv, Marked
  <2> QED
    BY <1>4, <2>1, <2>2 DEF IInv, NoDataLost
<1>9. Heard'
  <2> SUFFICES ASSUME ~moved PROVE Heard'
    BY <1>4 DEF Heard
  <2>1. urg = "read" => mark = copied + 1 /\ mark <= arrived
    BY DEF IInv, Heard, Marked
  <2>2. urg = "read" => n = mark
    BY <1>3, <2>1 DEF AtMark
  <2>3. urg' # "read"
    BY <1>2, <1>3, <1>4, <2>2
  <2>4. \A i \in 1 .. Len(calls) : calls[i].byte \in Nat
    <3>1. \A i \in 1 .. Len(calls) : calls[i] \in Calls
      BY <1>2, ElementOfSeq
    <3>2. Len(kind) \in Nat
      BY Shape DEF IInv
    <3> QED
      BY <3>1, <3>2 DEF Calls
  <2>5. \A i \in 1 .. Len(calls) : calls[i].byte <= n
    BY <1>2, <1>3, <2>2, <2>4 DEF IInv, Heard
  <2> QED
    BY <1>4, <2>3, <2>5 DEF Heard
<1>10. Announced'
  <2> SUFFICES ASSUME reported # 0 PROVE OobCalled(mark)
    BY <1>4 DEF IInv, Announced, OobCalled
  <2> SUFFICES ASSUME ~OobCalled(mark) PROVE FALSE
    OBVIOUS
  <2>1. urg = "valid" /\ mark # copied + 1 /\ copied < mark /\ mark <= arrived
    BY <1>4 DEF IInv, Announced, Marked
  <2>2. RecvFrom = copied + 1
    BY <1>2, <2>1 DEF AtMark
  <2>3. RecvFrom > RecvTo
    BY DEF ReadNothing
  <2> QED
    BY <1>2, <2>1, <2>2, <2>3
<1> QED
  BY <1>5, <1>6, <1>7, <1>8, <1>9, <1>10 DEF IInv

LEMMA ReadOobInv ==
  ASSUME IInv, ReadOob
  PROVE  IInv'
<1>1. PICK l, m : l \in Nat /\ m \in Nat /\ l = Len(kind) /\ m = Len(calls)
  BY Shape DEF IInv
<1>2. /\ copied \in Nat /\ arrived \in Nat /\ mark \in Nat /\ copied <= arrived /\ arrived <= l
      /\ mark <= l /\ calls \in Seq(Calls)
  BY <1>1, Shape DEF IInv
<1>3. /\ pc = "oob" /\ pc' = "urgent" /\ urg = "valid" /\ urg' = "read"
      /\ UNCHANGED <<kind, arrived, mark, fin, err, copied, flags, reported, moved, stale>>
  BY DEF ReadOob, network, history
<1>4. PICK call : call = [name |-> "client_pool::on_oob", byte |-> mark] /\ calls' = Append(calls, call)
  BY DEF ReadOob
<1>5. mark > copied /\ mark <= arrived
  BY <1>3 DEF IInv, Marked
<1>6. call \in Calls /\ call.name = "client_pool::on_oob" /\ call.byte = mark
  BY <1>1, <1>2, <1>4, <1>5 DEF Calls, Callbacks
<1>7. /\ calls' \in Seq(Calls) /\ Len(calls') = m + 1
      /\ \A i \in 1 .. m : calls'[i] = calls[i]
      /\ calls'[m + 1] = call
  BY <1>1, <1>2, <1>4, <1>6, AppendProperties
<1>8. TypeOK'
  <2>1. Calls' = Calls
    BY <1>3 DEF Calls
  <2>2. calls' \in Seq([name : Callbacks, byte : 1 .. Len(kind')])
    BY <1>7, <2>1 DEF Calls
  <2> QED
    BY <1>3, <2>2 DEF IInv, TypeOK
<1>9. Marked'
  BY <1>3, <1>5 DEF IInv, Marked
<1>10. Handled' /\ WriteReadyInTime'
  BY <1>3 DEF IInv, Handled, WriteReadyInTime
<1>11. NoDataLost'
  <2> SUFFICES ASSUME NEW p \in 1 .. copied, kind[p] = "data"
               PROVE  \E i \in DOMAIN calls' : calls'[i].name = "on_input" /\ calls'[i].byte = p
    BY <1>3 DEF NoDataLost
  <2>1. DOMAIN calls = 1 .. m /\ DOMAIN calls' = 1 .. m + 1
    BY <1>1, <1>2, <1>7, LenProperties
  <2>2. PICK i \in 1 .. m : calls[i].name = "on_input" /\ calls[i].byte = p
    BY <2>1 DEF IInv, NoDataLost
  <2>3. i \in 1 .. m + 1 /\ calls'[i] = calls[i]
    BY <1>1, <1>7
  <2> QED
    BY <2>1, <2>2, <2>3
<1>12. ~moved => mark = copied + 1 /\ \A i \in 1 .. m : calls[i].byte <= copied
  BY <1>1, <1>3 DEF IInv, Heard, AtMark
<1>13. \A i \in 1 .. m + 1 : i \in 1 .. m \/ i = m + 1
  BY <1>1
<1>14. Heard'
  <2>1. ~moved => \A i \in 1 .. m + 1 : calls'[i].byte <= copied \/ calls'[i].byte = mark
    BY <1>6, <1>7, <1>12, <1>13
  <2> QED
    BY <1>3, <1>7, <1>12, <2>1 DEF Heard
<1>15. CallsInOrder'
  <2> SUFFICES ASSUME ~moved, NEW i \in 1 .. m PROVE calls'[i].byte < calls'[i + 1].byte
    <3>1. Len(calls') - 1 = m /\ moved' = moved
      BY <1>1, <1>3, <1>7
    <3> QED
      BY <3>1 DEF CallsInOrder
  <2>1. CASE i < m
    <3>1. i \in 1 .. Len(calls) - 1 /\ i + 1 \in 1 .. m
      BY <1>1, <2>1
    <3> QED
      BY <1>7, <3>1 DEF IInv, CallsInOrder
  <2>2. CASE i = m
    <3>1. calls[m].byte \in Nat
      <4>1. calls[m] \in Calls
        BY <1>1, <1>2, <2>2, ElementOfSeq
      <4> QED
        BY <1>1, <4>1 DEF Calls
    <3>2. calls[m].byte <= copied
      BY <1>12, <2>2
    <3> QED
      BY <1>2, <1>5, <1>6, <1>7, <2>2, <3>1, <3>2
  <2> QED
    BY <1>1, <2>1, <2>2
<1>16. Announced'
  <2>1. m + 1 \in 1 .. Len(calls')
    BY <1>1, <1>7
  <2>2. OobCalled(mark)'
    BY <1>3, <1>6, <1>7, <2>1 DEF OobCalled
  <2> QED
    BY <1>3, <2>2 DEF IInv, Announced
<1> QED
  BY <1>8, <1>9, <1>10, <1>11, <1>14, <1>15, <1>16 DEF IInv

-----------------------------------------------------------------------------

LEMMA InitInv == Init => IInv
<1> SUFFICES ASSUME Init PROVE IInv
  OBVIOUS
<1>1. /\ kind = <<>> /\ arrived = 0 /\ copied = 0 /\ urg = "none" /\ mark = 0
      /\ fin = FALSE /\ err = FALSE /\ pc = "wait" /\ flags = {}
      /\ calls = <<>> /\ reported = 0 /\ moved = FALSE /\ stale = FALSE
  BY DEF Init
<1>2. /\ kind \in Seq({"data", "urgent"}) /\ Len(kind) = 0
      /\ calls \in Seq([name : Callbacks, byte : 1 .. Len(kind)]) /\ Len(calls) = 0
  BY <1>1, EmptySeq
<1>3. TypeOK
  <2>1. /\ arrived \in 0 .. Len(kind) /\ copied \in 0 .. arrived /\ Len(kind) <= MaxBytes
        /\ mark \in 0 .. Len(kind) /\ reported \in 0 .. Len(kind)
    BY <1>1, <1>2, IOAssumption
  <2>2. {fin, err, moved, stale} \subseteq BOOLEAN
    BY <1>1
  <2> QED
    BY <1>1, <1>2, <2>1, <2>2 DEF TypeOK
<1>4. Marked /\ Handled /\ Heard /\ Announced /\ WriteReadyInTime
  BY <1>1, <1>2 DEF Marked, Handled, Heard, Announced, WriteReadyInTime
<1>5. CallsInOrder /\ NoDataLost
  BY <1>1, <1>2 DEF CallsInOrder, NoDataLost
<1> QED
  BY <1>3, <1>4, <1>5 DEF IInv

LEMMA NextInv == IInv /\ [Next]_vars => IInv'
<1> SUFFICES ASSUME IInv, [Next]_vars PROVE IInv'
  OBVIOUS
<1>1. CASE Peer
  BY <1>1, PeerSendInv, PeerEndsInv DEF Peer
<1>2. CASE Arrive
  BY <1>2, ArriveInv
<1>3. CASE Worker
  BY <1>3, EpollWaitInv, ReadInv, ReadNothingInv, ReadOobInv, ControlInv DEF Worker
<1>4. CASE \E p \in 1 .. Len(kind) : Announce(p)
  BY <1>4, AnnounceInv
<1>5. CASE UNCHANGED vars
  BY <1>5, Keeps DEF vars, network, history, IInv, TypeOK, Handled, Heard, AtMark,
                     Announced, OobCalled, WriteReadyInTime
<1> QED
  BY <1>1, <1>2, <1>3, <1>4, <1>5 DEF Next

LEMMA Invariance == Spec => []IInv
BY InitInv, NextInv, PTL DEF Spec

(* The callbacks get every ordinary byte, in the order of the stream and   *)
(* none twice, unless a mark moved at the wrong moment: whatever the peer  *)
(* sends, in whatever pieces it arrives, for any buffer (pool.hpp          *)
(* 269-392).                                                               *)
THEOREM InputFaithfulHolds == Spec => []InputFaithful
<1>1. IInv => InputFaithful
  BY DEF IInv, InputFaithful
<1> QED
  BY <1>1, Invariance, PTL

(* Types; process() has a case for every event there is, uses no client it *)
(* released, and takes every urgent byte an event announced (pool.hpp      *)
(* 203-392).                                                               *)
THEOREM ConsistentHolds == Spec => []Consistent
<1>1. IInv => Consistent
  <2>1. IInv => ReportedUrgentTaken
    <3> SUFFICES ASSUME IInv, 0 < reported, reported <= copied
                 PROVE  \E i \in DOMAIN calls : calls[i].name = "client_pool::on_oob" /\ calls[i].byte = reported
      BY DEF ReportedUrgentTaken
    <3>1. reported = mark /\ copied \in Nat /\ mark \in Nat /\ calls \in Seq(Calls)
      BY Shape DEF IInv, Announced
    <3>2. urg # "valid"
      BY <3>1 DEF IInv, Marked
    <3>3. OobCalled(mark)
      BY <3>1, <3>2 DEF IInv, Announced
    <3> QED
      BY <3>1, <3>3, LenProperties DEF OobCalled
  <2> QED
    BY <2>1 DEF IInv, Consistent
<1> QED
  BY <1>1, Invariance, PTL

(* unuse() is called when the peer closed or reset the connection or has   *)
(* not sent the urgent byte it announced, or after a mark moved at the     *)
(* wrong moment (pool.hpp 203-392).                                        *)
THEOREM ReleasedForCauseHolds == Spec => ReleasedForCause
<1>1. ASSUME IInv, [Next]_vars, pc # "unuse", pc' = "unuse"
      PROVE  fin \/ err \/ urg = "notyet" \/ moved
  <2>1. CASE Process
    BY <1>1, <2>1, HandlerKnown DEF Process, IInv, Handled
  <2>2. ASSUME NEW loop \in {"input", "urgent"}, ReadNothing(loop) PROVE fin \/ err
    BY <1>1, <2>2 DEF ReadNothing
  <2>3. CASE ReadOobFails
    BY <1>1, <2>3 DEF ReadOobFails, IInv, Heard, AtMark, TypeOK
  <2>4. pc' # pc
    BY <1>1
  <2> QED
    BY <1>1, <2>1, <2>2, <2>3, <2>4
       DEF Next, Peer, PeerSend, PeerClose, PeerReset, Arrive, Announce, Worker, EpollWait,
           Read, Look, ReadOob, Rearm, Unuse, Return, vars
<1> QED
  BY <1>1, Invariance, PTL DEF Spec, ReleasedForCause
=============================================================================
