-------------------------- MODULE TestClientProofs --------------------------
(***************************************************************************)
(* Proofs about TestClient and the conversations of EchoSession, for any   *)
(* number of workers, any length of a message and any send buffer that     *)
(* takes one.                                                              *)
(***************************************************************************)
EXTENDS TestClient, SequenceTheorems, TLAPS

Byte == 1 .. MsgLen

-----------------------------------------------------------------------------
(* Sequences of bytes.                                                     *)

LEMMA Concat ==
  /\ \A s, t \in Seq(Byte) : s \o t \in Seq(Byte) /\ Len(s \o t) = Len(s) + Len(t)
  /\ \A s \in Seq(Byte) : s \o <<>> = s /\ <<>> \o s = s
  /\ <<>> \in Seq(Byte) /\ Len(<<>>) = 0
  /\ \A s \in Seq(Byte) : Len(s) \in Nat /\ (Len(s) = 0 => s = <<>>)
<1>1. \A s, t \in Seq(Byte) : s \o t \in Seq(Byte) /\ Len(s \o t) = Len(s) + Len(t)
  BY ConcatProperties
<1>2. \A s \in Seq(Byte) : s \o <<>> = s /\ <<>> \o s = s
  BY ConcatEmptySeq
<1>3. \A s \in Seq(Byte) : Len(s) \in Nat /\ (Len(s) = 0 => s = <<>>)
  BY EmptySeq, LenProperties
<1> QED
  BY <1>1, <1>2, <1>3, EmptySeq

LEMMA Regroup ==
  ASSUME NEW s \in Seq(Byte), NEW t \in Seq(Byte), NEW u \in Seq(Byte)
  PROVE  (s \o t) \o u = s \o (t \o u)
  BY ConcatAssociative

LEMMA MessageType ==
  /\ Message \in Seq(Byte) /\ Len(Message) = MsgLen
  /\ Taken(Message, 0) = <<>> /\ Taken(Message, MsgLen) = Message
<1>1. Message \in Seq(Byte) /\ Len(Message) = MsgLen
  BY SessionAssumption DEF Message, Byte
<1>2. Taken(Message, 0) = <<>>
  BY SubSeqEmpty DEF Taken
<1>3. Taken(Message, MsgLen) = Message
  BY <1>1, SubSeqFull DEF Taken
<1> QED
  BY <1>1, <1>2, <1>3

LEMMA MessagePiece ==
  ASSUME NEW p \in 0 .. MsgLen, NEW n \in 1 .. MsgLen - p
  PROVE  /\ SubSeq(Message, p + 1, p + n) \in Seq(Byte)
         /\ Taken(Message, p) \in Seq(Byte)
         /\ Taken(Message, p) \o SubSeq(Message, p + 1, p + n) = Taken(Message, p + n)
<1>1. /\ 1 \in 1 .. Len(Message) + 1 /\ p \in 1 - 1 .. Len(Message)
      /\ p + n \in p .. Len(Message)
  BY MessageType, SessionAssumption
<1>2. SubSeq(Message, 1, p) \o SubSeq(Message, p + 1, p + n) = SubSeq(Message, 1, p + n)
  BY <1>1, MessageType, ConcatAdjacentSubSeq
<1>3. \A i \in Byte : Message[i] \in Byte
  BY DEF Message, Byte
<1>4. /\ \A i \in 1 .. p : Message[i] \in Byte
      /\ \A i \in p + 1 .. p + n : Message[i] \in Byte
  BY <1>3, SessionAssumption DEF Byte
<1>5. SubSeq(Message, 1, p) \in Seq(Byte) /\ SubSeq(Message, p + 1, p + n) \in Seq(Byte)
  BY <1>4, SubSeqProperties
<1> QED
  BY <1>2, <1>5 DEF Taken

LEMMA Split ==
  ASSUME NEW s \in Seq(Byte), NEW n \in 1 .. Len(s)
  PROVE  /\ Taken(s, n) \in Seq(Byte) /\ Len(Taken(s, n)) = n
         /\ Left(s, n) \in Seq(Byte) /\ Len(Left(s, n)) = Len(s) - n
         /\ Taken(s, n) \o Left(s, n) = s
<1>1. Len(s) \in Nat /\ \A i \in 1 .. Len(s) : s[i] \in Byte
  BY LenProperties, ElementOfSeq
<1>2. \A i \in 1 .. n : s[i] \in Byte
  BY <1>1
<1>3. \A i \in n + 1 .. Len(s) : s[i] \in Byte
  BY <1>1
<1>4. SubSeq(s, 1, n) \in Seq(Byte) /\ Len(SubSeq(s, 1, n)) = n
  BY <1>1, <1>2, SubSeqProperties
<1>5. SubSeq(s, n + 1, Len(s)) \in Seq(Byte) /\ Len(SubSeq(s, n + 1, Len(s))) = Len(s) - n
  BY <1>1, <1>3, SubSeqProperties
<1>6. 1 \in 1 .. Len(s) + 1 /\ n \in 1 - 1 .. Len(s) /\ Len(s) \in n .. Len(s)
  BY <1>1
<1>7. SubSeq(s, 1, n) \o SubSeq(s, n + 1, Len(s)) = SubSeq(s, 1, Len(s))
  BY <1>6, ConcatAdjacentSubSeq
<1>8. SubSeq(s, 1, Len(s)) = s
  BY SubSeqFull
<1> QED
  BY <1>4, <1>5, <1>7, <1>8 DEF Taken, Left

(* The stream of a connection, from the worker's buffer back to its socket. *)
Chain(g, c, h, t) == g \o (c \o (h \o t))

LEMMA ChainType ==
  ASSUME NEW g \in Seq(Byte), NEW c \in Seq(Byte), NEW h \in Seq(Byte), NEW t \in Seq(Byte)
  PROVE  /\ Chain(g, c, h, t) \in Seq(Byte)
         /\ Len(Chain(g, c, h, t)) = Len(g) + Len(c) + Len(h) + Len(t)
<1>1. h \o t \in Seq(Byte) /\ Len(h \o t) = Len(h) + Len(t)
  BY Concat
<1>2. c \o (h \o t) \in Seq(Byte) /\ Len(c \o (h \o t)) = Len(c) + (Len(h) + Len(t))
  BY <1>1, Concat
<1>3. Chain(g, c, h, t) \in Seq(Byte) /\ Len(Chain(g, c, h, t)) = Len(g) + (Len(c) + (Len(h) + Len(t)))
  BY <1>2, Concat DEF Chain
<1> QED
  BY <1>3, Concat

LEMMA ChainFlat ==
  ASSUME NEW g \in Seq(Byte), NEW c \in Seq(Byte), NEW h \in Seq(Byte), NEW t \in Seq(Byte)
  PROVE  g \o c \o h \o t = Chain(g, c, h, t)
<1>1. h \o t \in Seq(Byte) /\ g \o c \in Seq(Byte)
  BY Concat
<1>2. g \o (c \o (h \o t)) = (g \o c) \o (h \o t)
  BY <1>1, Regroup
<1>3. (g \o c) \o (h \o t) = ((g \o c) \o h) \o t
  BY <1>1, Regroup
<1> QED
  BY <1>2, <1>3 DEF Chain

(* The server reads all of what it has in its hand. *)
LEMMA ChainRead ==
  ASSUME NEW g, NEW c, NEW t \in Seq(Byte), NEW n \in 1 .. Len(t)
  PROVE  Chain(g, c, Taken(t, n), Left(t, n)) = Chain(g, c, <<>>, t)
<1>1. Taken(t, n) \o Left(t, n) = <<>> \o t
  BY Split, Concat
<1> QED
  BY <1>1 DEF Chain

LEMMA ChainWrite ==
  ASSUME NEW g, NEW c \in Seq(Byte), NEW h \in Seq(Byte), NEW t \in Seq(Byte)
  PROVE  Chain(g, c \o h, <<>>, t) = Chain(g, c, h, t)
<1>1. (c \o h) \o (<<>> \o t) = c \o (h \o t)
  BY Concat, Regroup
<1> QED
  BY <1>1 DEF Chain

LEMMA ChainSend ==
  ASSUME NEW c \in Seq(Byte), NEW h \in Seq(Byte), NEW t \in Seq(Byte), NEW m \in Seq(Byte)
  PROVE  Chain(<<>>, c, h, t \o m) = Chain(<<>>, c, h, t) \o m
<1>1. h \o (t \o m) = (h \o t) \o m
  BY Regroup
<1>2. h \o t \in Seq(Byte)
  BY Concat
<1>3. c \o ((h \o t) \o m) = (c \o (h \o t)) \o m
  BY <1>2, Regroup
<1>4. c \o (h \o t) \in Seq(Byte) /\ (c \o (h \o t)) \o m \in Seq(Byte)
  BY <1>2, Concat
<1> QED
  BY <1>1, <1>3, <1>4, Concat DEF Chain

LEMMA ChainMove ==
  ASSUME NEW g \in Seq(Byte), NEW a \in Seq(Byte), NEW b \in Seq(Byte),
         NEW h \in Seq(Byte), NEW t \in Seq(Byte)
  PROVE  Chain(g \o a, b, h, t) = Chain(g, a \o b, h, t)
<1>1. PICK x \in Seq(Byte) : x = h \o t
  BY Concat
<1>2. PICK y \in Seq(Byte) : y = b \o x
  BY Concat
<1>3. (g \o a) \o y = g \o (a \o y)
  BY Regroup, SMTT(30)
<1>4. a \o y = (a \o b) \o x
  BY <1>2, Regroup, SMTT(30)
<1> QED
  BY <1>1, <1>2, <1>3, <1>4 DEF Chain

LEMMA ChainRecv ==
  ASSUME NEW g \in Seq(Byte), NEW c \in Seq(Byte), NEW h \in Seq(Byte), NEW t \in Seq(Byte),
         NEW n \in 1 .. Len(c)
  PROVE  Chain(g \o Taken(c, n), Left(c, n), h, t) = Chain(g, c, h, t)
<1>1. Taken(c, n) \in Seq(Byte) /\ Left(c, n) \in Seq(Byte) /\ Taken(c, n) \o Left(c, n) = c
  BY Split
<1>2. PICK a \in Seq(Byte), b \in Seq(Byte) : a = Taken(c, n) /\ b = Left(c, n)
  BY <1>1
<1>3. Chain(g \o a, b, h, t) = Chain(g, a \o b, h, t)
  BY ChainMove
<1> QED
  BY <1>1, <1>2, <1>3

(* A buffer as long as the stream is the stream. *)
LEMMA ChainDone ==
  ASSUME NEW g \in Seq(Byte), NEW c \in Seq(Byte), NEW h \in Seq(Byte), NEW t \in Seq(Byte)
  PROVE  Len(g) = Len(Chain(g, c, h, t)) =>
           c = <<>> /\ h = <<>> /\ t = <<>> /\ g = Chain(g, c, h, t)
<1>1. Len(Chain(g, c, h, t)) = Len(g) + Len(c) + Len(h) + Len(t)
  BY ChainType
<1>2. Len(g) = Len(g) + Len(c) + Len(h) + Len(t) => Len(c) = 0 /\ Len(h) = 0 /\ Len(t) = 0
  BY Concat, SMTT(30)
<1> HAVE Len(g) = Len(Chain(g, c, h, t))
<1>3. c = <<>> /\ h = <<>> /\ t = <<>>
  BY <1>1, <1>2, Concat
<1> QED
  BY <1>3, Concat DEF Chain

-----------------------------------------------------------------------------
(* Counts of bytes, which wrap as int does.                                *)

LEMMA DivMod ==
  ASSUME NEW a \in Int, NEW m \in Nat \ {0}
  PROVE  /\ a % m \in 0 .. m - 1
         /\ a \div m \in Int
         /\ a = m * (a \div m) + (a % m)
  OBVIOUS

LEMMA ModUnique ==
  ASSUME NEW a \in Int, NEW m \in Nat \ {0}, NEW q \in Int, NEW r \in 0 .. m - 1, a = m * q + r
  PROVE  a % m = r
<1>1. PICK p \in Int, t \in 0 .. m - 1 : a = m * p + t /\ a % m = t
  BY DivMod
<1>2. m * (p - q) = r - t
  BY <1>1
<1>3. CASE p - q >= 1
  BY <1>1, <1>2, <1>3
<1>4. CASE p - q <= -1
  BY <1>1, <1>2, <1>4
<1>5. CASE p = q
  BY <1>1, <1>2, <1>5
<1> QED
  BY <1>3, <1>4, <1>5

LEMMA BytesType ==
  ASSUME NEW p \in Nat
  PROVE  Bytes(p) \in -IntLimit .. IntLimit - 1
<1>1. PICK x \in Int : x = (p * MsgLen) + IntLimit
  BY SessionAssumption
<1>2. x % (2 * IntLimit) \in 0 .. 2 * IntLimit - 1
  BY SessionAssumption, DivMod
<1> QED
  BY <1>1, <1>2, SessionAssumption DEF Bytes

LEMMA BytesZero == Bytes(0) = 0
<1>1. IntLimit % (2 * IntLimit) = IntLimit
  BY ModUnique, SessionAssumption
<1>2. 0 * MsgLen + IntLimit = IntLimit
  BY SessionAssumption
<1> QED
  BY <1>1, <1>2, SessionAssumption DEF Bytes

LEMMA BytesExact ==
  ASSUME NEW p \in Nat
  PROVE  \E q \in Int : Bytes(p) = p * MsgLen - 2 * IntLimit * q
<1>1. PICK x \in Int : x = (p * MsgLen) + IntLimit
  BY SessionAssumption
<1>2. PICK q \in Int : x = (2 * IntLimit) * q + (x % (2 * IntLimit))
  <2>1. PICK m \in Nat \ {0} : m = 2 * IntLimit
    BY SessionAssumption
  <2>2. x \div m \in Int /\ x = m * (x \div m) + (x % m)
    BY DivMod
  <2> QED
    BY <2>1, <2>2
<1>3. Bytes(p) = x - (2 * IntLimit) * q - IntLimit
  BY <1>1, <1>2, SessionAssumption DEF Bytes
<1> QED
  BY <1>1, <1>3, SessionAssumption

(* Two counts of bytes that have wrapped differ by what lies between, modulo *)
(* the width of int.                                                       *)
LEMMA BytesAgree ==
  ASSUME NEW p \in Nat, NEW k \in Nat
  PROVE  (Bytes(p + k) - Bytes(p) - 0 - (k * MsgLen)) % (2 * IntLimit) = 0
<1>1. PICK q \in Int : Bytes(p) = p * MsgLen - 2 * IntLimit * q
  BY BytesExact
<1>2. PICK r \in Int : Bytes(p + k) = (p + k) * MsgLen - 2 * IntLimit * r
  BY BytesExact
<1>3. (p + k) * MsgLen = p * MsgLen + k * MsgLen
  BY SessionAssumption
<1>4. Bytes(p + k) - Bytes(p) - 0 - (k * MsgLen) = (2 * IntLimit) * (q - r) + 0
  BY <1>1, <1>2, <1>3, SessionAssumption
<1>5. PICK m \in Nat \ {0} : m = 2 * IntLimit
  BY SessionAssumption
<1>6. PICK a \in Int : a = Bytes(p + k) - Bytes(p) - 0 - (k * MsgLen)
  BY <1>1, <1>2, SessionAssumption
<1>7. a = m * (q - r) + 0
  BY <1>4, <1>5, <1>6
<1>8. a % m = 0
  BY <1>7, ModUnique
<1> QED
  BY <1>5, <1>6, <1>8
-----------------------------------------------------------------------------
(* The inductive invariant.                                                *)

LogType == [sent : Nat, sentBytes : Int, good : Nat, goodBytes : Int, bad : Nat, badBytes : Int]

Typed ==
  /\ run  \in [Workers -> BOOLEAN]
  /\ wpc  \in [Workers -> {"none", "new", "top", "send", "recv", "exited"}]
  /\ pos  \in [Workers -> 0 .. MsgLen]
  /\ conn \in [Workers -> {"none", "connecting", "open", "fin", "reset"}]
  /\ got \in [Workers -> Seq(Byte)] /\ toServer \in [Workers -> Seq(Byte)]
  /\ hand \in [Workers -> Seq(Byte)] /\ toClient \in [Workers -> Seq(Byte)]
  /\ log \in [Workers -> LogType]

(* A thread that converses has a connection, and what is under way on it   *)
(* is as old as the connection.                                            *)
Plumbed(w) ==
  /\ wpc[w] \in {"none", "new", "exited"} <=> conn[w] = "none"
  /\ conn[w] # "open" => hand[w] = <<>> /\ toServer[w] = <<>>
  /\ conn[w] \notin {"open", "fin"} => toClient[w] = <<>>
  /\ Len(got[w]) <= MsgLen /\ Len(toClient[w]) <= MsgLen

Stream(w) == Chain(got[w], toClient[w], hand[w], toServer[w])

(* What StreamIntact says, and of a connection the server has closed: the  *)
(* reply that was complete by then still arrives.                          *)
Flowing(w) ==
  /\ wpc[w] = "send" /\ conn[w] \in {"connecting", "open"} =>
       got[w] = <<>> /\ Stream(w) = Taken(Message, pos[w])
  /\ wpc[w] = "recv" /\ conn[w] \in {"connecting", "open", "fin"} => Stream(w) = Message
  /\ wpc[w] = "top" /\ conn[w] \in {"connecting", "open", "fin"} =>
       toClient[w] = <<>> /\ hand[w] = <<>> /\ toServer[w] = <<>>

(* The log counts whole messages, and no bad ones. *)
Logged(w) ==
  LET l == log[w]
      waiting == IF wpc[w] = "recv" THEN 1 ELSE 0
  IN  /\ wpc[w] = "new" => l = NoLog
      /\ l.bad = 0 /\ l.badBytes = 0
      /\ l.sentBytes = Bytes(l.sent) /\ l.goodBytes = Bytes(l.good)
      /\ l.good <= l.sent /\ l.sent <= MaxRounds
      /\ wpc[w] = "send" => l.sent < MaxRounds
      /\ conn[w] \in {"connecting", "open", "fin"} => l.sent = l.good + waiting

(* run is FALSE before start() and after /set/stop only. *)
Wanted(w) ==
  wpc[w] \in {"top", "send", "recv"} /\ ~run[w] =>
    panel = "stop" \/ (wpc[w] = "top" /\ log[w].sent = 0)

Owned ==
  /\ panel \in {"idle", "load", "status", "stop"}
  /\ cur \in Workers \cup {NoWorker}
  /\ toShow \subseteq workers /\ workers \subseteq Workers
  /\ cur # NoWorker => panel = "load" /\ cur \notin workers
  /\ panel # "status" => toShow = {}
  /\ WorkHasOwner

IInv ==
  /\ Typed /\ Owned
  /\ \A w \in Workers : Plumbed(w) /\ Flowing(w) /\ Logged(w) /\ Wanted(w)
-----------------------------------------------------------------------------
(* The records of the log.                                                 *)

LEMMA BadRecord ==
  ASSUME NEW l \in LogType, NEW n \in Nat, NEW b \in Int
  PROVE  [l EXCEPT !.bad = n, !.badBytes = b] \in LogType
  BY DEF LogType

LEMMA LogFields ==
  ASSUME Typed, NEW w \in Workers
  PROVE  /\ log[w] \in LogType
         /\ log[w].sent \in Nat /\ log[w].good \in Nat /\ log[w].bad \in Nat
  BY DEF Typed, LogType

LEMMA LogSentStep ==
  ASSUME Typed, NEW w \in Workers, LogSent(w)
  PROVE  /\ log' \in [Workers -> LogType]
         /\ \A v \in Workers \ {w} : log'[v] = log[v]
         /\ log'[w].sent = log[w].sent + 1 /\ log'[w].sentBytes = Bytes(log[w].sent + 1)
         /\ log'[w].good = log[w].good /\ log'[w].goodBytes = log[w].goodBytes
         /\ log'[w].bad = log[w].bad /\ log'[w].badBytes = log[w].badBytes
<1>1. PICK l \in LogType, n \in Nat : l = log[w] /\ n = log[w].sent + 1
  BY LogFields
<1>2. PICK b \in Int : b = Bytes(n)
  BY BytesType, SessionAssumption
<1>3. PICK r : r = [l EXCEPT !.sent = n, !.sentBytes = b]
  OBVIOUS
<1>4. log' = [log EXCEPT ![w] = r]
  BY <1>1, <1>2, <1>3 DEF LogSent, Typed
<1>5. /\ r \in LogType /\ r.sent = n /\ r.sentBytes = b
      /\ r.good = l.good /\ r.goodBytes = l.goodBytes
      /\ r.bad = l.bad /\ r.badBytes = l.badBytes
  BY <1>3 DEF LogType
<1>6. /\ log' \in [Workers -> LogType] /\ log'[w] = r
      /\ \A v \in Workers \ {w} : log'[v] = log[v]
  BY <1>4, <1>5 DEF Typed
<1> QED
  BY <1>1, <1>2, <1>5, <1>6

LEMMA ReceivedStep ==
  ASSUME Typed, NEW w \in Workers, Received(w)
  PROVE  /\ log' \in [Workers -> LogType]
         /\ \A v \in Workers \ {w} : log'[v] = log[v]
         /\ got'[w] = Message =>
              /\ log'[w].good = log[w].good + 1 /\ log'[w].goodBytes = Bytes(log[w].good + 1)
              /\ log'[w].sent = log[w].sent /\ log'[w].sentBytes = log[w].sentBytes
              /\ log'[w].bad = log[w].bad /\ log'[w].badBytes = log[w].badBytes
<1>1. PICK l \in LogType, n \in Nat, m \in Nat :
        l = log[w] /\ n = log[w].good + 1 /\ m = log[w].bad + 1
  BY LogFields
<1>2. PICK b \in Int, c \in Int : b = Bytes(n) /\ c = Bytes(m)
  BY BytesType, SessionAssumption
<1>3. PICK r, q : r = [l EXCEPT !.good = n, !.goodBytes = b] /\ q = [l EXCEPT !.bad = m, !.badBytes = c]
  OBVIOUS
<1>4. log' = [log EXCEPT ![w] = IF got'[w] = Message THEN r ELSE q]
  BY <1>1, <1>2, <1>3 DEF Received, Typed
<1>5. /\ r \in LogType /\ r.good = n /\ r.goodBytes = b
      /\ r.sent = l.sent /\ r.sentBytes = l.sentBytes
      /\ r.bad = l.bad /\ r.badBytes = l.badBytes
  BY <1>3 DEF LogType
<1>6. q \in LogType
  BY <1>3, BadRecord
<1>7. /\ log' \in [Workers -> LogType] /\ log'[w] = (IF got'[w] = Message THEN r ELSE q)
      /\ \A v \in Workers \ {w} : log'[v] = log[v]
  BY <1>4, <1>5, <1>6 DEF Typed
<1> QED
  BY <1>1, <1>2, <1>5, <1>7

-----------------------------------------------------------------------------
(* What a step of a conversation leaves alone.                             *)

Others(w) ==
  \A v \in Workers \ {w} :
    /\ wpc'[v] = wpc[v] /\ pos'[v] = pos[v] /\ conn'[v] = conn[v] /\ log'[v] = log[v]
    /\ got'[v] = got[v] /\ toServer'[v] = toServer[v]
    /\ hand'[v] = hand[v] /\ toClient'[v] = toClient[v]

LEMMA SentFrame ==
  ASSUME Typed, NEW w \in Workers, NEW n \in 1 .. MsgLen - pos[w], Sent(w, n)
  PROVE  /\ wpc' \in [Workers -> {"none", "new", "top", "send", "recv", "exited"}]
         /\ pos' \in [Workers -> 0 .. MsgLen] /\ log' \in [Workers -> LogType]
         /\ pos'[w] = pos[w] + n
         /\ \A v \in Workers \ {w} : wpc'[v] = wpc[v] /\ pos'[v] = pos[v] /\ log'[v] = log[v]
<1>1. pos[w] + n \in 0 .. MsgLen
  BY SessionAssumption DEF Typed
<1>2. pos' = [pos EXCEPT ![w] = pos[w] + n]
  BY DEF Sent
<1>3. /\ pos' \in [Workers -> 0 .. MsgLen] /\ pos'[w] = pos[w] + n
      /\ \A v \in Workers \ {w} : pos'[v] = pos[v]
  BY <1>1, <1>2 DEF Typed
<1>4. CASE pos[w] + n = MsgLen
  <2>1. LogSent(w) /\ wpc' = [wpc EXCEPT ![w] = "recv"]
    BY <1>4 DEF Sent, Goto
  <2> QED
    BY <1>3, <2>1, LogSentStep DEF Typed
<1>5. CASE pos[w] + n # MsgLen
  BY <1>3, <1>5 DEF Sent, Typed
<1> QED
  BY <1>4, <1>5

LEMMA SessionFrame ==
  ASSUME Typed, NEW w \in Workers, Session(w)
  PROVE  Typed' /\ Others(w) /\ run' = run
<1>1. CASE Connected(w) \/ Refused(w)
  BY <1>1 DEF Connected, Refused, rounds, Typed, Others
<1>2. CASE ServerCloses(w)
  BY <1>2, Concat DEF ServerCloses, rounds, Typed, Others
<1>3. CASE EchoRead(w)
  <2>1. PICK n \in 1 .. Len(toServer[w]) :
          /\ hand' = [hand EXCEPT ![w] = Taken(toServer[w], n)]
          /\ toServer' = [toServer EXCEPT ![w] = Left(toServer[w], n)]
    BY <1>3 DEF EchoRead
  <2>2. Taken(toServer[w], n) \in Seq(Byte) /\ Left(toServer[w], n) \in Seq(Byte)
    BY Split DEF Typed
  <2> QED
    BY <1>3, <2>1, <2>2 DEF EchoRead, rounds, Typed, Others
<1>4. CASE EchoWrite(w)
  <2>1. PICK n : /\ n = IF Len(hand[w]) <= SndBuf - Len(toClient[w])
                         THEN Len(hand[w]) ELSE SndBuf - Len(toClient[w])
                 /\ toClient' = [toClient EXCEPT ![w] = toClient[w] \o Taken(hand[w], n)]
    BY <1>4 DEF EchoWrite
  <2>2. hand[w] \in Seq(Byte) /\ toClient[w] \in Seq(Byte)
    BY DEF Typed
  <2>a. PICK h \in Nat, c \in Nat : h = Len(hand[w]) /\ c = Len(toClient[w])
    BY <2>2, Concat
  <2>b. n = IF h <= SndBuf - c THEN h ELSE SndBuf - c
    BY <2>1, <2>a
  <2>3. n \in Int /\ n <= Len(hand[w]) /\ Len(hand[w]) \in Nat
    <3>1. n \in Int /\ n <= h
      BY <2>b, SessionAssumption
    <3> QED
      BY <2>a, <3>1
  <2>4. \A i \in 1 .. Len(hand[w]) : hand[w][i] \in Byte
    BY <2>2, ElementOfSeq
  <2>5. \A i \in 1 .. n : hand[w][i] \in Byte
    BY <2>3, <2>4
  <2>6. Taken(hand[w], n) \in Seq(Byte)
    BY <2>3, <2>5, SubSeqProperties DEF Taken
  <2>7. toClient[w] \o Taken(hand[w], n) \in Seq(Byte)
    BY <2>2, <2>6, Concat
  <2> QED
    BY <1>4, <2>1, <2>7, Concat DEF EchoWrite, rounds, Typed, Others
<1>5. CASE Connect(w) \/ ConnectFails(w) \/ SendFails(w) \/ RecvFails(w)
  BY <1>5 DEF Connect, ConnectFails, SendFails, RecvFails, Goto, rounds, sockets, Typed, Others
<1>6. CASE NextRound(w)
  BY <1>6, Concat, SessionAssumption DEF NextRound, Goto, sockets, Typed, Others
<1>7. CASE Send(w)
  <2>1. PICK n \in 1 .. MsgLen - pos[w] :
          /\ Sent(w, n)
          /\ toServer' = [toServer EXCEPT ![w] = @ \o SubSeq(Message, pos[w] + 1, pos[w] + n)]
    BY <1>7 DEF Send
  <2>2. SubSeq(Message, pos[w] + 1, pos[w] + n) \in Seq(Byte)
    BY MessagePiece DEF Typed
  <2>3. toServer[w] \o SubSeq(Message, pos[w] + 1, pos[w] + n) \in Seq(Byte)
    BY <2>2, Concat DEF Typed
  <2>4. /\ toServer' \in [Workers -> Seq(Byte)]
        /\ \A v \in Workers \ {w} : toServer'[v] = toServer[v]
    BY <2>1, <2>3 DEF Typed
  <2>5. UNCHANGED <<run, got, conn, hand, toClient>>
    BY <1>7, <2>1 DEF Send, Sent
  <2> QED
    BY <2>1, <2>4, <2>5, SentFrame DEF Typed, Others
<1>8. CASE SendInVain(w)
  <2>1. PICK n \in 1 .. MsgLen - pos[w] : Sent(w, n)
    BY <1>8 DEF SendInVain
  <2>2. UNCHANGED <<run, got, toServer, hand>>
    BY <1>8, <2>1 DEF SendInVain, Sent
  <2>3. /\ conn' \in [Workers -> {"none", "connecting", "open", "fin", "reset"}]
        /\ toClient' \in [Workers -> Seq(Byte)]
        /\ \A v \in Workers \ {w} : conn'[v] = conn[v] /\ toClient'[v] = toClient[v]
    BY <1>8, Concat DEF SendInVain, Typed
  <2> QED
    BY <2>1, <2>2, <2>3, SentFrame DEF Typed, Others
<1>9. CASE Recv(w)
  <2>1. PICK n \in 1 .. Len(toClient[w]) :
          /\ got' = [got EXCEPT ![w] = @ \o Taken(toClient[w], n)]
          /\ toClient' = [toClient EXCEPT ![w] = Left(toClient[w], n)]
          /\ IF Len(got[w]) + n = MsgLen THEN Received(w) ELSE UNCHANGED <<log, wpc>>
    BY <1>9 DEF Recv
  <2>2. Taken(toClient[w], n) \in Seq(Byte) /\ Left(toClient[w], n) \in Seq(Byte)
    BY Split DEF Typed
  <2>3. got[w] \o Taken(toClient[w], n) \in Seq(Byte)
    BY <2>2, Concat DEF Typed
  <2>4. /\ got' \in [Workers -> Seq(Byte)] /\ toClient' \in [Workers -> Seq(Byte)]
        /\ \A v \in Workers \ {w} : got'[v] = got[v] /\ toClient'[v] = toClient[v]
    BY <2>1, <2>2, <2>3 DEF Typed
  <2>5. /\ wpc' \in [Workers -> {"none", "new", "top", "send", "recv", "exited"}]
        /\ log' \in [Workers -> LogType]
        /\ \A v \in Workers \ {w} : wpc'[v] = wpc[v] /\ log'[v] = log[v]
    <3>1. CASE Received(w)
      <4>1. wpc' = [wpc EXCEPT ![w] = "top"]
        BY <3>1 DEF Received, Goto
      <4> QED
        BY <3>1, <4>1, ReceivedStep DEF Typed
    <3>2. CASE UNCHANGED <<log, wpc>>
      BY <3>2 DEF Typed
    <3> QED
      BY <2>1, <3>1, <3>2
  <2> QED
    BY <1>9, <2>4, <2>5 DEF Recv, Typed, Others
<1>10. CASE Quit(w)
  BY <1>10, Concat DEF Quit, Goto, rounds, Typed, Others
<1> QED
  BY <1>1, <1>2, <1>3, <1>4, <1>5, <1>6, <1>7, <1>8, <1>9, <1>10
  DEF Session, Network, Echo, Worker

-----------------------------------------------------------------------------
(* What a step of a conversation keeps of its own worker.                  *)

Sound(w) == Plumbed(w) /\ Flowing(w) /\ Logged(w)

LEMMA NetworkSound ==
  ASSUME Typed, Typed', NEW w \in Workers, Sound(w), Network(w)
  PROVE  Sound(w)'
<1>1. CASE Connected(w)
  BY <1>1 DEF Connected, rounds, Typed, Sound, Plumbed, Flowing, Logged, Stream
<1>2. CASE Refused(w)
  BY <1>2 DEF Refused, rounds, Typed, Sound, Plumbed, Flowing, Logged, Stream
<1>3. CASE ServerCloses(w)
  <2>1. /\ UNCHANGED <<run, wpc, pos, got, log, hand>> /\ conn[w] = "open" /\ hand[w] = <<>>
        /\ toServer'[w] = <<>>
        /\ \/ toServer[w] = <<>> /\ conn'[w] = "fin" /\ UNCHANGED toClient
           \/ conn'[w] = "reset" /\ toClient'[w] = <<>>
    BY <1>3 DEF ServerCloses, rounds, Typed
  <2>2. Plumbed(w)'
    BY <2>1, Concat, SessionAssumption DEF Typed, Sound, Plumbed
  <2>3. Flowing(w)'
    BY <2>1 DEF Sound, Flowing, Stream
  <2>4. Logged(w)'
    BY <2>1 DEF Sound, Logged
  <2> QED
    BY <2>2, <2>3, <2>4 DEF Sound
<1> QED
  BY <1>1, <1>2, <1>3 DEF Network

(* While a message is under way, no more of it is on its way back than the *)
(* worker's buffer and the send buffer of the server take.                 *)
LEMMA Bounded ==
  ASSUME Typed, NEW w \in Workers, Sound(w)
  PROVE  /\ Len(got[w]) <= MsgLen /\ Len(toServer[w]) <= MsgLen
         /\ Len(hand[w]) <= MsgLen /\ Len(toClient[w]) <= MsgLen
         /\ Len(hand[w]) + Len(toClient[w]) <= MsgLen
         /\ hand[w] # <<>> => wpc[w] \in {"send", "recv"} /\ conn[w] = "open"
<1>1. /\ got[w] \in Seq(Byte) /\ toServer[w] \in Seq(Byte)
      /\ hand[w] \in Seq(Byte) /\ toClient[w] \in Seq(Byte) /\ pos[w] \in 0 .. MsgLen
      /\ wpc[w] \in {"none", "new", "top", "send", "recv", "exited"}
  BY DEF Typed
<1>2. Len(Stream(w)) = Len(got[w]) + Len(toClient[w]) + Len(hand[w]) + Len(toServer[w])
  <2>1. PICK g \in Seq(Byte), c \in Seq(Byte), h \in Seq(Byte), t \in Seq(Byte) :
          g = got[w] /\ c = toClient[w] /\ h = hand[w] /\ t = toServer[w]
    BY <1>1
  <2>2. Len(Chain(g, c, h, t)) = Len(g) + Len(c) + Len(h) + Len(t)
    BY ChainType
  <2> QED
    BY <2>1, <2>2 DEF Stream
<1>3. hand[w] # <<>> \/ toServer[w] # <<>> => wpc[w] \in {"send", "recv"} /\ conn[w] = "open"
  BY <1>1 DEF Sound, Plumbed, Flowing
<1>4. wpc[w] \in {"send", "recv"} /\ conn[w] = "open" => Len(Stream(w)) <= MsgLen
  <2>1. Len(Taken(Message, pos[w])) <= MsgLen
    BY <1>1, MessageType, SubSeqProperties, SessionAssumption DEF Taken, Message, Byte
  <2> QED
    BY <2>1, MessageType, SessionAssumption DEF Sound, Flowing
<1>5. /\ Len(got[w]) \in Nat /\ Len(toServer[w]) \in Nat
      /\ Len(hand[w]) \in Nat /\ Len(toClient[w]) \in Nat
  BY <1>1, Concat
<1>6. CASE hand[w] # <<>> \/ toServer[w] # <<>>
  <2>1. PICK g \in Nat, c \in Nat, h \in Nat, t \in Nat :
          g = Len(got[w]) /\ c = Len(toClient[w]) /\ h = Len(hand[w]) /\ t = Len(toServer[w])
    BY <1>5
  <2>2. g + c + h + t <= MsgLen
    BY <1>2, <1>3, <1>4, <1>6, <2>1
  <2>3. g <= MsgLen /\ c <= MsgLen /\ h <= MsgLen /\ t <= MsgLen /\ h + c <= MsgLen
    BY <2>2, SessionAssumption
  <2> QED
    BY <1>3, <2>1, <2>3
<1>7. CASE hand[w] = <<>> /\ toServer[w] = <<>>
  BY <1>5, <1>7, Concat, SessionAssumption DEF Sound, Plumbed
<1> QED
  BY <1>3, <1>6, <1>7

LEMMA EchoSound ==
  ASSUME Typed, Typed', NEW w \in Workers, Sound(w), Echo(w)
  PROVE  Sound(w)'
<1>1. /\ got[w] \in Seq(Byte) /\ toServer[w] \in Seq(Byte)
      /\ hand[w] \in Seq(Byte) /\ toClient[w] \in Seq(Byte)
  BY DEF Typed
<1>2. UNCHANGED <<wpc, pos, got, log, conn>>
  BY DEF Echo, EchoRead, EchoWrite, rounds
<1>3. conn[w] = "open" /\ wpc[w] \in {"send", "recv"}
  <2>1. CASE EchoRead(w)
    <3>1. conn[w] = "open" /\ 1 .. Len(toServer[w]) # {}
      BY <2>1 DEF EchoRead
    <3>2. toServer[w] # <<>>
      BY <3>1, Concat
    <3> QED
      BY <3>1, <3>2 DEF Typed, Sound, Plumbed, Flowing
  <2>2. CASE EchoWrite(w)
    BY <2>2, Bounded DEF EchoWrite
  <2> QED
    BY <2>1, <2>2 DEF Echo
<1>4. Stream(w)' = Stream(w) /\ Len(toClient'[w]) <= MsgLen
  <2>1. CASE EchoRead(w)
    <3>1. PICK n \in 1 .. Len(toServer[w]) :
            /\ hand'[w] = Taken(toServer[w], n) /\ toServer'[w] = Left(toServer[w], n)
            /\ hand[w] = <<>> /\ UNCHANGED toClient
      BY <2>1 DEF EchoRead, Typed
    <3>2. Chain(got[w], toClient[w], Taken(toServer[w], n), Left(toServer[w], n))
            = Chain(got[w], toClient[w], <<>>, toServer[w])
      BY <1>1, ChainRead
    <3> QED
      BY <1>2, <3>1, <3>2, Bounded DEF Stream
  <2>2. CASE EchoWrite(w)
    <3>a. PICK h \in Nat, c \in Nat : h = Len(hand[w]) /\ c = Len(toClient[w])
      BY <1>1, Concat
    <3>b. h + c <= MsgLen
      BY <3>a, Bounded
    <3>1. Len(hand[w]) <= SndBuf - Len(toClient[w])
      <4>1. h <= SndBuf - c
        BY <3>b, SessionAssumption
      <4> QED
        BY <3>a, <4>1
    <3>2. Taken(hand[w], Len(hand[w])) = hand[w]
      BY <1>1, SubSeqFull DEF Taken
    <3>3. toClient'[w] = toClient[w] \o hand[w] /\ hand'[w] = <<>> /\ UNCHANGED toServer
      BY <2>2, <3>1, <3>2 DEF EchoWrite, Typed
    <3>4. Chain(got[w], toClient[w] \o hand[w], <<>>, toServer[w])
            = Chain(got[w], toClient[w], hand[w], toServer[w])
      BY <1>1, ChainWrite
    <3>5. Len(toClient[w] \o hand[w]) <= MsgLen
      <4>1. Len(toClient[w] \o hand[w]) = c + h
        BY <1>1, <3>a, Concat
      <4> QED
        BY <3>b, <4>1, SessionAssumption
    <3> QED
      BY <1>2, <3>3, <3>4, <3>5 DEF Stream
  <2> QED
    BY <2>1, <2>2 DEF Echo
<1>5. Plumbed(w)'
  BY <1>2, <1>3, <1>4 DEF Sound, Plumbed
<1>6. Flowing(w)'
  BY <1>2, <1>3, <1>4 DEF Sound, Flowing
<1>7. Logged(w)'
  BY <1>2 DEF Sound, Logged
<1> QED
  BY <1>5, <1>6, <1>7 DEF Sound

LEMMA ConnectSound ==
  ASSUME Typed, Typed', NEW w \in Workers, Sound(w), Connect(w) \/ ConnectFails(w)
  PROVE  Sound(w)'
<1>1. UNCHANGED <<pos, got, log, toServer, hand, toClient>> /\ wpc[w] = "new"
  BY DEF Connect, ConnectFails, rounds, sockets
<1>2. conn[w] = "none" /\ hand[w] = <<>> /\ toServer[w] = <<>> /\ toClient[w] = <<>>
  BY <1>1 DEF Sound, Plumbed
<1>3. \/ wpc'[w] = "top" /\ conn'[w] = "connecting"
      \/ wpc'[w] = "exited" /\ conn'[w] = "none"
  BY <1>2 DEF Connect, ConnectFails, Goto, sockets, Typed
<1>4. Plumbed(w)'
  BY <1>1, <1>2, <1>3 DEF Sound, Plumbed
<1>5. Flowing(w)'
  BY <1>1, <1>2, <1>3 DEF Sound, Flowing
<1>6. Logged(w)'
  BY <1>1, <1>3 DEF Sound, Logged, NoLog
<1> QED
  BY <1>4, <1>5, <1>6 DEF Sound

LEMMA NextRoundSound ==
  ASSUME Typed, Typed', NEW w \in Workers, Sound(w), NextRound(w)
  PROVE  Sound(w)'
<1>1. /\ UNCHANGED <<log, conn, toServer, hand, toClient>> /\ wpc[w] = "top"
      /\ wpc'[w] = "send" /\ pos'[w] = 0 /\ got'[w] = <<>> /\ log[w].sent < MaxRounds
  BY DEF NextRound, Goto, sockets, Typed
<1>2. conn[w] \in {"connecting", "open", "fin"} => Stream(w)' = Taken(Message, pos'[w])
  <2>1. Chain(<<>>, <<>>, <<>>, <<>>) = <<>>
    BY Concat DEF Chain
  <2> QED
    BY <1>1, <2>1, MessageType DEF Sound, Flowing, Stream
<1>3. Plumbed(w)'
  BY <1>1, Concat, SessionAssumption DEF Sound, Plumbed
<1>4. Flowing(w)'
  BY <1>1, <1>2 DEF Flowing
<1>5. Logged(w)'
  BY <1>1 DEF Sound, Logged
<1> QED
  BY <1>3, <1>4, <1>5 DEF Sound

(* A message that is complete is counted, once. *)
LEMMA SentSound ==
  ASSUME Typed, NEW w \in Workers, Sound(w), wpc[w] = "send",
         conn'[w] = conn[w] \/ conn'[w] = "reset",
         NEW n \in 1 .. MsgLen - pos[w], Sent(w, n)
  PROVE  /\ Logged(w)' /\ pos'[w] = pos[w] + n /\ UNCHANGED got
         /\ \/ wpc'[w] = "send"
            \/ wpc'[w] = "recv" /\ pos'[w] = MsgLen
<1>1. pos'[w] = pos[w] + n /\ UNCHANGED got
  BY DEF Sent, Typed
<1>2. CASE pos[w] + n = MsgLen
  <2>1. LogSent(w) /\ wpc'[w] = "recv"
    BY <1>2 DEF Sent, Goto, Typed
  <2>2. Logged(w)'
    BY <2>1, LogSentStep, LogFields, SessionAssumption DEF Sound, Logged
  <2> QED
    BY <1>1, <1>2, <2>1, <2>2
<1>3. CASE pos[w] + n # MsgLen
  <2>1. UNCHANGED <<log, wpc>>
    BY <1>3 DEF Sent
  <2>2. Logged(w)'
    BY <2>1 DEF Sound, Logged
  <2> QED
    BY <1>1, <2>1, <2>2
<1> QED
  BY <1>2, <1>3

LEMMA SendSound ==
  ASSUME Typed, Typed', NEW w \in Workers, Sound(w), Send(w)
  PROVE  Sound(w)'
<1>1. /\ got[w] \in Seq(Byte) /\ toServer[w] \in Seq(Byte)
      /\ hand[w] \in Seq(Byte) /\ toClient[w] \in Seq(Byte) /\ pos[w] \in 0 .. MsgLen
  BY DEF Typed
<1>2. wpc[w] = "send" /\ conn[w] = "open" /\ UNCHANGED <<conn, hand, toClient>>
  BY DEF Send
<1>3. PICK n \in 1 .. MsgLen - pos[w] :
        /\ Sent(w, n)
        /\ toServer'[w] = toServer[w] \o SubSeq(Message, pos[w] + 1, pos[w] + n)
  BY DEF Send, Typed
<1>4. /\ Logged(w)' /\ pos'[w] = pos[w] + n /\ UNCHANGED got
      /\ wpc'[w] = "send" \/ (wpc'[w] = "recv" /\ pos'[w] = MsgLen)
  BY <1>2, <1>3, SentSound
<1>5. got[w] = <<>> /\ Stream(w) = Taken(Message, pos[w])
  BY <1>2 DEF Sound, Flowing
<1>6. PICK m \in Seq(Byte) :
        /\ m = SubSeq(Message, pos[w] + 1, pos[w] + n)
        /\ Taken(Message, pos[w]) \o m = Taken(Message, pos[w] + n)
  BY <1>1, MessagePiece
<1>7. Chain(<<>>, toClient[w], hand[w], toServer[w] \o m)
        = Chain(<<>>, toClient[w], hand[w], toServer[w]) \o m
  <2>1. PICK c \in Seq(Byte), h \in Seq(Byte), t \in Seq(Byte) :
          c = toClient[w] /\ h = hand[w] /\ t = toServer[w]
    BY <1>1
  <2>2. Chain(<<>>, c, h, t \o m) = Chain(<<>>, c, h, t) \o m
    BY ChainSend, ZenonT(60)
  <2> QED
    BY <2>1, <2>2
<1>8. Stream(w)' = Taken(Message, pos'[w])
  BY <1>2, <1>3, <1>4, <1>5, <1>6, <1>7 DEF Stream
<1>9. Flowing(w)'
  BY <1>2, <1>4, <1>5, <1>8, MessageType DEF Flowing
<1>10. Plumbed(w)'
  BY <1>2, <1>4 DEF Sound, Plumbed
<1> QED
  BY <1>4, <1>9, <1>10 DEF Sound

LEMMA SendBreaksSound ==
  ASSUME Typed, Typed', NEW w \in Workers, Sound(w),
         SendInVain(w) \/ SendFails(w) \/ RecvFails(w)
  PROVE  Sound(w)'
<1>1. CASE SendInVain(w)
  <2>1. /\ wpc[w] = "send" /\ conn[w] = "fin" /\ conn'[w] = "reset" /\ toClient'[w] = <<>>
        /\ UNCHANGED <<toServer, hand>>
    BY <1>1 DEF SendInVain, Typed
  <2>2. PICK n \in 1 .. MsgLen - pos[w] : Sent(w, n)
    BY <1>1 DEF SendInVain
  <2>3. Logged(w)' /\ UNCHANGED got /\ wpc'[w] \in {"send", "recv"}
    BY <2>1, <2>2, SentSound
  <2>4. Plumbed(w)' /\ Flowing(w)'
    BY <2>1, <2>3, Concat, SessionAssumption DEF Sound, Plumbed, Flowing
  <2> QED
    BY <2>3, <2>4 DEF Sound
<1>2. CASE SendFails(w) \/ RecvFails(w)
  <2>1. /\ wpc[w] \in {"send", "recv"} /\ wpc'[w] \in {"recv", "top"} /\ conn[w] = "reset"
        /\ UNCHANGED <<pos, got, log, conn, toServer, hand, toClient>>
    BY <1>2 DEF SendFails, RecvFails, Goto, rounds, sockets, Typed
  <2> QED
    BY <2>1 DEF Sound, Plumbed, Flowing, Logged
<1> QED
  BY <1>1, <1>2

LEMMA RecvSound ==
  ASSUME Typed, Typed', NEW w \in Workers, Sound(w), Recv(w)
  PROVE  Sound(w)'
<1>1. /\ got[w] \in Seq(Byte) /\ toServer[w] \in Seq(Byte)
      /\ hand[w] \in Seq(Byte) /\ toClient[w] \in Seq(Byte)
  BY DEF Typed
<1>2. wpc[w] = "recv" /\ UNCHANGED <<pos, conn, toServer, hand>>
  BY DEF Recv
<1>3. PICK n \in 1 .. Len(toClient[w]) :
        /\ Len(got[w]) + n <= MsgLen
        /\ got'[w] = got[w] \o Taken(toClient[w], n)
        /\ toClient'[w] = Left(toClient[w], n)
        /\ IF Len(got[w]) + n = MsgLen THEN Received(w) ELSE UNCHANGED <<log, wpc>>
  BY DEF Recv, Typed
<1>4. conn[w] \in {"open", "fin"}
  <2>1. toClient[w] # <<>>
    BY <1>3, Concat
  <2> QED
    BY <2>1 DEF Sound, Plumbed
<1>5. Stream(w) = Message
  BY <1>2, <1>4 DEF Sound, Flowing
<1>6. Stream(w)' = Stream(w)
  <2>1. Chain(got[w] \o Taken(toClient[w], n), Left(toClient[w], n), hand[w], toServer[w])
          = Chain(got[w], toClient[w], hand[w], toServer[w])
    BY <1>1, ChainRecv
  <2> QED
    BY <1>2, <1>3, <2>1 DEF Stream
<1>7. Len(got'[w]) = Len(got[w]) + n /\ Len(toClient'[w]) <= MsgLen
  <2>1. /\ Taken(toClient[w], n) \in Seq(Byte) /\ Len(Taken(toClient[w], n)) = n
        /\ Len(Left(toClient[w], n)) = Len(toClient[w]) - n
    BY <1>1, Split
  <2>2. Len(got[w] \o Taken(toClient[w], n)) = Len(got[w]) + n
    <3>1. PICK g \in Seq(Byte), a \in Seq(Byte) : g = got[w] /\ a = Taken(toClient[w], n)
      BY <1>1, <2>1
    <3>2. Len(g \o a) = Len(g) + Len(a)
      BY Concat
    <3> QED
      BY <2>1, <3>1, <3>2
  <2>3. Len(toClient[w]) <= MsgLen /\ Len(toClient[w]) \in Nat
    BY <1>1, Bounded, Concat
  <2> QED
    BY <1>3, <2>1, <2>2, <2>3, SessionAssumption
<1>8. CASE Len(got[w]) + n = MsgLen
  <2>1. Received(w) /\ wpc'[w] = "top"
    BY <1>3, <1>8 DEF Received, Goto, Typed
  <2>2. /\ got'[w] \in Seq(Byte) /\ toServer'[w] \in Seq(Byte)
        /\ hand'[w] \in Seq(Byte) /\ toClient'[w] \in Seq(Byte)
    BY DEF Typed
  <2>3. Len(got'[w]) = Len(Chain(got'[w], toClient'[w], hand'[w], toServer'[w]))
    BY <1>5, <1>6, <1>7, <1>8, MessageType DEF Stream
  <2>4. /\ toClient'[w] = <<>> /\ hand'[w] = <<>> /\ toServer'[w] = <<>>
        /\ got'[w] = Chain(got'[w], toClient'[w], hand'[w], toServer'[w])
    BY <2>2, <2>3, ChainDone
  <2>5. got'[w] = Message
    BY <1>5, <1>6, <2>4 DEF Stream
  <2>6. Logged(w)'
    BY <1>2, <1>4, <2>1, <2>5, ReceivedStep, LogFields, SessionAssumption DEF Sound, Logged
  <2>7. Plumbed(w)'
    BY <1>2, <1>3, <1>4, <1>7, <2>1 DEF Sound, Plumbed
  <2>8. Flowing(w)'
    BY <2>1, <2>4 DEF Flowing
  <2> QED
    BY <2>6, <2>7, <2>8 DEF Sound
<1>9. CASE Len(got[w]) + n # MsgLen
  <2>1. UNCHANGED <<log, wpc>>
    BY <1>3, <1>9
  <2>2. Plumbed(w)'
    BY <1>2, <1>3, <1>4, <1>7, <2>1 DEF Sound, Plumbed
  <2>3. Flowing(w)' /\ Logged(w)'
    BY <1>2, <1>5, <1>6, <2>1 DEF Sound, Flowing, Logged
  <2> QED
    BY <2>2, <2>3 DEF Sound
<1> QED
  BY <1>8, <1>9

LEMMA QuitSound ==
  ASSUME Typed, Typed', NEW w \in Workers, Sound(w), Quit(w)
  PROVE  Sound(w)'
<1>1. /\ wpc'[w] = "exited" /\ conn'[w] = "none" /\ toServer'[w] = <<>> /\ hand'[w] = <<>>
      /\ toClient'[w] = <<>> /\ UNCHANGED <<pos, got, log>> /\ wpc[w] # "none"
  BY DEF Quit, Goto, rounds, Typed
<1>2. Plumbed(w)'
  BY <1>1, Concat, SessionAssumption DEF Sound, Plumbed
<1>3. Flowing(w)' /\ Logged(w)'
  BY <1>1 DEF Sound, Flowing, Logged
<1> QED
  BY <1>2, <1>3 DEF Sound

LEMMA SessionSound ==
  ASSUME Typed, NEW w \in Workers, Session(w), \A v \in Workers : Sound(v)
  PROVE  \A v \in Workers : Sound(v)'
<1>1. Typed' /\ Others(w)
  BY SessionFrame
<1>2. Sound(w)'
  BY <1>1, NetworkSound, EchoSound, ConnectSound, NextRoundSound, SendSound, SendBreaksSound,
     RecvSound, QuitSound
  DEF Session, Worker
<1>3. ASSUME NEW v \in Workers \ {w} PROVE Sound(v)'
  BY <1>1, <1>3 DEF Others, Sound, Plumbed, Flowing, Logged, Stream
<1> QED
  BY <1>2, <1>3

LEMMA SessionOwned ==
  ASSUME IInv, NEW w \in Workers, Session(w), UNCHANGED <<panel, cur, workers, toShow>>
  PROVE  Owned' /\ \A v \in Workers : Wanted(v)'
<1>1. Typed' /\ Others(w) /\ run' = run
  BY SessionFrame DEF IInv
<1>2. wpc'[w] = wpc[w] \/ wpc[w] \in {"new", "top", "send", "recv"}
  BY DEF Session, Network, Connected, Refused, ServerCloses, Echo, EchoRead, EchoWrite,
         Worker, Connect, ConnectFails, NextRound, Send, SendInVain, SendFails, Recv,
         RecvFails, Quit
<1>3. Owned'
  BY <1>1, <1>2 DEF IInv, Owned, WorkHasOwner, Others
<1>4. Wanted(w)'
  <2>1. CASE Network(w) \/ Echo(w)
    <3>1. UNCHANGED <<wpc, log>>
      BY <2>1 DEF Network, Connected, Refused, ServerCloses, Echo, EchoRead, EchoWrite, rounds
    <3> QED
      BY <1>1, <3>1 DEF IInv, Wanted
  <2>2. CASE Connect(w) \/ ConnectFails(w)
    <3>1. log[w].sent = 0 /\ UNCHANGED log /\ wpc'[w] \in {"top", "exited"}
      BY <2>2 DEF Connect, ConnectFails, Goto, rounds, IInv, Typed, Logged, NoLog
    <3> QED
      BY <3>1 DEF Wanted
  <2>3. CASE NextRound(w) \/ Send(w) \/ SendInVain(w) \/ SendFails(w) \/ Recv(w) \/ RecvFails(w)
    <3>1. run[w]
      BY <2>3
      DEF NextRound, Send, SendInVain, SendFails, Recv, RecvFails, IsRunning
    <3> QED
      BY <1>1, <3>1 DEF Wanted
  <2>4. CASE Quit(w)
    <3>1. wpc'[w] = "exited"
      BY <2>4 DEF Quit, Goto, IInv, Typed
    <3> QED
      BY <3>1 DEF Wanted
  <2> QED
    BY <2>1, <2>2, <2>3, <2>4 DEF Session, Worker
<1>5. ASSUME NEW v \in Workers \ {w} PROVE Wanted(v)'
  BY <1>1, <1>5 DEF IInv, Wanted, Others
<1> QED
  BY <1>3, <1>4, <1>5

-----------------------------------------------------------------------------
(* The steps of the control panel.                                         *)

LEMMA CreateInv ==
  ASSUME IInv, NEW w \in Workers, Create(w)
  PROVE  IInv'
<1>1. PICK b \in BOOLEAN : run' = [run EXCEPT ![w] = b]
  BY DEF Create, SetRunning
<1>2. /\ wpc' = [wpc EXCEPT ![w] = "new"] /\ log' = [log EXCEPT ![w] = NoLog]
      /\ cur' = w /\ cur = NoWorker /\ panel = "load" /\ w \notin workers
      /\ UNCHANGED <<pos, got, conn, toServer, hand, toClient, panel, workers, toShow>>
  BY DEF Create, Goto, sockets
<1>3. NoLog \in LogType
  BY DEF NoLog, LogType
<1>4. Typed'
  BY <1>1, <1>2, <1>3 DEF IInv, Typed
<1>5. Owned'
  BY <1>2, NoWorkerAssumption DEF IInv, Typed, Owned, WorkHasOwner
<1>6. Sound(w)' /\ Wanted(w)'
  <2>1. wpc[w] = "none"
    BY <1>2, NoWorkerAssumption DEF IInv, Owned, WorkHasOwner
  <2>2. wpc'[w] = "new" /\ log'[w] = NoLog
    BY <1>2 DEF IInv, Typed
  <2>3. Plumbed(w)' /\ Flowing(w)' /\ conn'[w] = "none"
    BY <1>2, <2>1, <2>2 DEF IInv, Plumbed, Flowing
  <2>4. NoLog.sent = 0 /\ NoLog.good = 0 /\ NoLog.bad = 0 /\ NoLog.badBytes = 0
        /\ NoLog.sentBytes = 0 /\ NoLog.goodBytes = 0
    BY DEF NoLog
  <2>5. Logged(w)'
    BY <2>2, <2>3, <2>4, BytesZero, SessionAssumption DEF Logged
  <2> QED
    BY <2>2, <2>3, <2>5 DEF Sound, Wanted
<1>7. ASSUME NEW v \in Workers \ {w} PROVE Sound(v)' /\ Wanted(v)'
  <2>1. run'[v] = run[v] /\ wpc'[v] = wpc[v] /\ log'[v] = log[v]
    BY <1>1, <1>2, <1>7 DEF IInv, Typed
  <2> QED
    BY <1>2, <1>7, <2>1 DEF IInv, Sound, Plumbed, Flowing, Logged, Stream, Wanted
<1> QED
  BY <1>4, <1>5, <1>6, <1>7 DEF IInv, Sound

LEMMA JoinInv ==
  ASSUME IInv, JoinWorkers
  PROVE  IInv'
<1>1. /\ wpc' = [w \in Workers |-> "none"] /\ workers' = {} /\ panel' = "idle" /\ panel = "stop"
      /\ UNCHANGED <<run, pos, got, log, conn, toServer, hand, toClient, cur, toShow>>
      /\ \A w \in workers : wpc[w] = "exited"
  BY DEF JoinWorkers, rounds, sockets
<1>2. \A w \in Workers : wpc[w] \in {"none", "exited"}
  BY <1>1, NoWorkerAssumption DEF IInv, Owned, WorkHasOwner
<1>3. Typed'
  BY <1>1 DEF IInv, Typed
<1>4. Owned'
  BY <1>1 DEF IInv, Owned, WorkHasOwner
<1>5. ASSUME NEW w \in Workers PROVE Sound(w)' /\ Wanted(w)'
  <2>1. wpc'[w] = "none" /\ conn[w] = "none"
    BY <1>1, <1>2 DEF IInv, Plumbed
  <2> QED
    BY <1>1, <2>1 DEF IInv, Sound, Plumbed, Flowing, Logged, Wanted
<1> QED
  BY <1>3, <1>4, <1>5 DEF IInv, Sound

(* The other steps of the panel leave the conversations alone, run apart.  *)
LEMMA PanelInv ==
  ASSUME IInv,
         \/ HandleStart \/ Loaded \/ HandleStatus \/ Shown \/ HandleStop
         \/ \E w \in Workers : Start(w) \/ ShowWorker(w) \/ StopWorker(w)
  PROVE  IInv'
<1>1. UNCHANGED <<wpc, pos, got, log, conn, toServer, hand, toClient>>
  BY DEF HandleStart, Loaded, HandleStatus, Shown, HandleStop, Start, ShowWorker, StopWorker,
         sessionVars, rounds, sockets
<1>2. \/ UNCHANGED run /\ (panel' = panel \/ panel # "stop")
      \/ \E w \in Workers : run' = [run EXCEPT ![w] = TRUE] /\ panel' = panel
      \/ \E w \in Workers : run' = [run EXCEPT ![w] = FALSE] /\ panel' = "stop"
  BY DEF HandleStart, Loaded, HandleStatus, Shown, HandleStop, Start, ShowWorker, StopWorker,
         sessionVars, SetRunning
<1>3. Typed'
  BY <1>1, <1>2 DEF IInv, Typed
<1>4. Owned'
  <2>1. CASE HandleStart \/ Loaded \/ HandleStatus \/ Shown \/ HandleStop
    BY <1>1, <2>1
    DEF HandleStart, Loaded, HandleStatus, Shown, HandleStop, IInv, Owned, WorkHasOwner
  <2>2. ASSUME NEW w \in Workers, Start(w) \/ ShowWorker(w) \/ StopWorker(w) PROVE Owned'
    BY <1>1, <2>2 DEF Start, ShowWorker, StopWorker, IInv, Owned, WorkHasOwner
  <2> QED
    BY <2>1, <2>2
<1>5. ASSUME NEW w \in Workers PROVE Sound(w)' /\ Wanted(w)'
  <2>1. Sound(w)'
    BY <1>1 DEF IInv, Sound, Plumbed, Flowing, Logged, Stream
  <2>2. Wanted(w)'
    BY <1>1, <1>2 DEF IInv, Typed, Wanted
  <2> QED
    BY <2>1, <2>2
<1> QED
  BY <1>3, <1>4, <1>5 DEF IInv, Sound

LEMMA NextInv == IInv /\ [Next]_vars => IInv'
<1> SUFFICES ASSUME IInv, [Next]_vars PROVE IInv'
  OBVIOUS
<1>1. ASSUME NEW w \in Workers, Session(w), UNCHANGED <<panel, cur, workers, toShow>> PROVE IInv'
  <2>1. Typed'
    BY <1>1, SessionFrame DEF IInv
  <2>2. \A v \in Workers : Sound(v)'
    BY <1>1, SessionSound DEF IInv, Sound
  <2>3. Owned' /\ \A v \in Workers : Wanted(v)'
    BY <1>1, SessionOwned
  <2> QED
    BY <2>1, <2>2, <2>3 DEF IInv, Sound
<1>2. CASE UNCHANGED vars
  BY <1>2 DEF vars, sessionVars, rounds, sockets, IInv, Typed, Owned, WorkHasOwner, Plumbed,
              Flowing, Logged, Stream, Wanted
<1> QED
  BY <1>1, <1>2, CreateInv, JoinInv, PanelInv DEF Next, Load, Show, Stop

LEMMA InitInv == Init => IInv
<1> SUFFICES ASSUME Init PROVE IInv
  OBVIOUS
<1>1. Typed
  BY Concat, SessionAssumption DEF Init, SessionInit, Typed, NoLog, LogType
<1>2. Owned
  BY DEF Init, SessionInit, Owned, WorkHasOwner
<1>3. ASSUME NEW w \in Workers PROVE Plumbed(w) /\ Flowing(w) /\ Logged(w) /\ Wanted(w)
  <2>1. Plumbed(w) /\ Flowing(w) /\ Wanted(w)
    BY Concat, SessionAssumption DEF Init, SessionInit, Plumbed, Flowing, Wanted
  <2>2. log[w] = NoLog /\ wpc[w] = "none" /\ conn[w] = "none"
    BY DEF Init, SessionInit
  <2>3. NoLog.sent = 0 /\ NoLog.good = 0 /\ NoLog.bad = 0 /\ NoLog.badBytes = 0
        /\ NoLog.sentBytes = 0 /\ NoLog.goodBytes = 0
    BY DEF NoLog
  <2>4. Logged(w)
    BY <2>2, <2>3, BytesZero, SessionAssumption DEF Logged
  <2> QED
    BY <2>1, <2>4
<1> QED
  BY <1>1, <1>2, <1>3 DEF IInv

LEMMA Invariance == Spec => []IInv
  BY InitInv, NextInv, PTL DEF Spec

-----------------------------------------------------------------------------
(* What the invariant gives.                                               *)

(* No byte of a message is lost, doubled or moved on an open connection,   *)
(* whatever the pieces send(), the server and recv() take it in.           *)
THEOREM StreamIntactHolds == Spec => []StreamIntact
<1>1. IInv => StreamIntact
  <2> SUFFICES ASSUME IInv, NEW w \in Workers, conn[w] \in {"connecting", "open"}
               PROVE  LET echoed == got[w] \o toClient[w] \o hand[w] \o toServer[w] IN
                        /\ wpc[w] = "send" => got[w] = <<>> /\ echoed = Taken(Message, pos[w])
                        /\ wpc[w] = "recv" => echoed = Message
                        /\ wpc[w] = "top"  => echoed = got[w]
    BY DEF StreamIntact
  <2>1. /\ got[w] \in Seq(Byte) /\ toServer[w] \in Seq(Byte)
        /\ hand[w] \in Seq(Byte) /\ toClient[w] \in Seq(Byte)
    BY DEF IInv, Typed
  <2>2. Stream(w) = got[w] \o toClient[w] \o hand[w] \o toServer[w]
    <3>1. PICK g \in Seq(Byte), c \in Seq(Byte), h \in Seq(Byte), t \in Seq(Byte) :
            g = got[w] /\ c = toClient[w] /\ h = hand[w] /\ t = toServer[w]
      BY <2>1
    <3>2. Chain(g, c, h, t) = g \o c \o h \o t
      BY ChainFlat
    <3> QED
      BY <3>1, <3>2 DEF Stream
  <2>3. wpc[w] = "top" => Stream(w) = got[w]
    BY <2>1, Concat DEF IInv, Flowing, Stream, Chain
  <2> QED
    BY <2>2, <2>3 DEF IInv, Flowing
<1> QED
  BY <1>1, Invariance, PTL

(* The echo may ignore how much of a chunk was sent: it always fits. *)
LEMMA EchoFitsHolds == IInv => EchoFits
  BY Bounded, SessionAssumption DEF IInv, Sound, EchoFits, Typed

(* The counters agree but for the message under way, wrapped or not. *)
LEMMA CountersAgreeHolds == IInv => CountersAgree
<1> SUFFICES ASSUME IInv, NEW w \in Workers, conn[w] \in {"connecting", "open"},
                    NEW k, k = IF wpc[w] = "recv" THEN 1 ELSE 0
             PROVE  /\ log[w].sent = log[w].good + log[w].bad + k
                    /\ (log[w].sentBytes - log[w].goodBytes - log[w].badBytes - (k * MsgLen))
                          % (2 * IntLimit) = 0
  BY DEF CountersAgree
<1>1. /\ log[w].bad = 0 /\ log[w].badBytes = 0 /\ log[w].sent = log[w].good + k
      /\ log[w].sentBytes = Bytes(log[w].sent) /\ log[w].goodBytes = Bytes(log[w].good)
      /\ k \in Nat
  BY DEF IInv, Logged
<1>2. PICK p \in Nat : p = log[w].good
  BY LogFields DEF IInv
<1>3. (Bytes(p + k) - Bytes(p) - 0 - (k * MsgLen)) % (2 * IntLimit) = 0
  BY <1>1, BytesAgree
<1> QED
  BY <1>1, <1>2, <1>3

LEMMA TypesHold == IInv => TypeOK
<1> SUFFICES ASSUME IInv PROVE TypeOK
  OBVIOUS
<1>1. ASSUME NEW w \in Workers
      PROVE  /\ {log[w].sent, log[w].good, log[w].bad} \subseteq 0 .. MaxRounds
             /\ {log[w].sentBytes, log[w].goodBytes, log[w].badBytes}
                  \subseteq -IntLimit .. IntLimit - 1
  <2>1. PICK p \in Nat, q \in Nat : p = log[w].sent /\ q = log[w].good
    BY LogFields DEF IInv
  <2>2. Bytes(p) \in -IntLimit .. IntLimit - 1 /\ Bytes(q) \in -IntLimit .. IntLimit - 1
    BY BytesType
  <2> QED
    BY <2>1, <2>2, SessionAssumption DEF IInv, Logged
<1>2. ASSUME NEW w \in Workers, NEW s \in {got[w], toServer[w], hand[w], toClient[w]}
      PROVE  s \in Seq(1 .. MsgLen) /\ Len(s) <= MsgLen
  BY <1>2, Bounded DEF IInv, Sound, Typed, Byte
<1> QED
  BY <1>1, <1>2 DEF TypeOK, SessionTypeOK, IInv, Owned, Typed

(* The objects of the workers have their owner, the echo fits its send     *)
(* buffer, no reply is bad, and the counters of the status page agree, for *)
(* any number of workers and wherever their connections break.             *)
THEOREM ConsistentHolds == Spec => []Consistent
<1>1. IInv => WorkHasOwner /\ NoBadReply
  BY DEF IInv, Owned, Logged, NoBadReply
<1>2. IInv => Consistent
  BY <1>1, EchoFitsHolds, CountersAgreeHolds, TypesHold DEF Consistent
<1> QED
  BY <1>2, Invariance, PTL

(* Only /set/stop, or a thread that runs before start() has set run, ends  *)
(* a conversation: a connection that breaks never does.                    *)
THEOREM ConversationLastsHolds == Spec => ConversationLasts
<1>1. ASSUME IInv, [Next]_vars, NEW w \in Workers,
             wpc[w] \in {"top", "send", "recv"}, wpc'[w] = "exited"
      PROVE  panel = "stop" \/ (wpc[w] = "top" /\ log[w].sent = 0)
  <2>1. Quit(w)
    <3>1. \E v \in Workers : Session(v)
      BY <1>1 DEF Next, Load, Stop, Show, HandleStart, Create, Start, Loaded, HandleStatus,
                  ShowWorker, Shown, HandleStop, StopWorker, JoinWorkers, Goto, vars,
                  sessionVars, rounds, sockets, IInv, Typed
    <3>2. Session(w)
      BY <1>1, <3>1, SessionFrame DEF IInv, Others
    <3> QED
      BY <1>1, <3>2
      DEF Session, Network, Connected, Refused, ServerCloses, Echo, EchoRead, EchoWrite,
          Worker, Connect, ConnectFails, NextRound, Send, SendInVain, Sent, SendFails, Recv,
          Received, RecvFails, Goto, rounds, sockets, IInv, Typed
  <2> QED
    BY <1>1, <2>1 DEF Quit, IsRunning, IInv, Wanted
<1>2. IInv /\ [Next]_vars =>
        [\A w \in Workers :
           wpc[w] \in {"top", "send", "recv"} /\ wpc'[w] = "exited" =>
             panel = "stop" \/ (wpc[w] = "top" /\ log[w].sent = 0)]_vars
  BY <1>1
<1> QED
  BY <1>2, Invariance, PTL DEF Spec, ConversationLasts
=============================================================================
