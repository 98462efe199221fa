-------------------------- MODULE EchoServerProofs --------------------------
(***************************************************************************)
(* Proofs about the echo server: its life from the command line to the     *)
(* exit (Server), and the panel that starts and stops it (EchoWorker),     *)
(* for any number of handlers and whatever the memory of threadCount_      *)
(* holds when the server is constructed.                                   *)
(***************************************************************************)
EXTENDS Server, EchoWorker, SequenceTheorems, TLAPS

-----------------------------------------------------------------------------
(***************************************************************************)
(* The command line.                                                       *)

LEMMA MaxIs ==
  ASSUME NEW S, S \subseteq Int, NEW m \in S, \A x \in S : x <= m
  PROVE  Max(S) = m
<1>1. \E x \in S : \A y \in S : x >= y
  OBVIOUS
<1>2. Max(S) \in S /\ \A y \in S : Max(S) >= y
  BY <1>1 DEF Max
<1>3. Max(S) <= m /\ Max(S) >= m /\ Max(S) \in Int /\ m \in Int
  BY <1>2
<1> QED
  BY <1>3

(* The elements behind the first k, one by one.                            *)
LEMMA AfterFirst ==
  ASSUME NEW S, NEW s, NEW n \in Nat, NEW k \in 0 .. n, \A i \in 1 .. n : s[i] \in S
  PROVE  /\ SubSeq(s, k + 1, n) \in Seq(S) /\ Len(SubSeq(s, k + 1, n)) = n - k
         /\ \A i \in 1 .. n - k : SubSeq(s, k + 1, n)[i] = s[k + i]
<1>1. k + 1 \in Int /\ n \in Int /\ \A i \in k + 1 .. n : s[i] \in S
  OBVIOUS
<1>2. /\ SubSeq(s, k + 1, n) \in Seq(S)
      /\ Len(SubSeq(s, k + 1, n)) = IF k + 1 <= n THEN n - (k + 1) + 1 ELSE 0
      /\ \A i \in 1 .. n - (k + 1) + 1 : SubSeq(s, k + 1, n)[i] = s[(k + 1) + i - 1]
  BY <1>1, SubSeqProperties
<1>3. /\ n - (k + 1) + 1 = n - k /\ (~(k + 1 <= n) => n - k = 0)
      /\ \A i \in Int : (k + 1) + i - 1 = k + i
  OBVIOUS
<1>4. \A i \in 1 .. n - k : SubSeq(s, k + 1, n)[i] = s[k + i]
  BY <1>2, <1>3
<1> QED
  BY <1>2, <1>3, <1>4

(* What is left of a sequence after its first k elements is a suffix. *)
LEMMA RestIsSuffix ==
  ASSUME NEW S, NEW s \in Seq(S), NEW k \in 0 .. Len(s)
  PROVE  IsSuffix(SubSeq(s, k + 1, Len(s)), s)
<1>1. PICK n \in Nat : n = Len(s)
  BY LenProperties
<1>2. PICK t : t = SubSeq(s, k + 1, n)
  OBVIOUS
<1>3. k \in 0 .. n /\ k \in Nat /\ n - k \in Nat
  BY <1>1
<1>4. /\ t \in Seq(S) /\ Len(t) = n - k
      /\ \A i \in 1 .. n - k : t[i] = s[k + i]
  <2>1. \A i \in 1 .. n : s[i] \in S
    BY <1>1, ElementOfSeq
  <2>2. /\ SubSeq(s, k + 1, n) \in Seq(S) /\ Len(SubSeq(s, k + 1, n)) = n - k
        /\ \A i \in 1 .. n - k : SubSeq(s, k + 1, n)[i] = s[k + i]
    BY <1>1, <1>3, <2>1, AfterFirst
  <2> QED
    BY <1>2, <2>2
<1>5. PICK r, q : r = Reverse(t) /\ q = Reverse(s)
  OBVIOUS
<1>6. /\ r = [i \in 1 .. n - k |-> t[(n - k) - i + 1]]
      /\ q = [i \in 1 .. n |-> s[n - i + 1]]
  BY <1>1, <1>4, <1>5 DEF Reverse
<1>7. \A i \in 1 .. n : s[n - i + 1] \in S
  BY <1>1, ElementOfSeq
<1>8. \A i \in 1 .. n - k : t[(n - k) - i + 1] = s[n - i + 1] /\ i \in 1 .. n
  <2> SUFFICES ASSUME NEW i \in 1 .. n - k
               PROVE  t[(n - k) - i + 1] = s[n - i + 1] /\ i \in 1 .. n
    OBVIOUS
  <2>1. PICK j : j = (n - k) - i + 1
    OBVIOUS
  <2>2. j \in 1 .. n - k /\ k + j = n - i + 1 /\ i \in 1 .. n
    BY <1>1, <1>3, <2>1
  <2>3. t[j] = s[k + j]
    BY <1>4, <2>2
  <2> QED
    BY <2>1, <2>2, <2>3
<1>9. q \in [1 .. n -> S] /\ r \in [1 .. n - k -> S]
  BY <1>6, <1>7, <1>8
<1>10. q \in Seq(S) /\ r \in Seq(S) /\ Len(q) = n /\ Len(r) = n - k
  <2>1. q \in Seq(S) /\ r \in Seq(S)
    BY <1>3, <1>9, SeqDef
  <2>2. DOMAIN q = 1 .. n /\ DOMAIN r = 1 .. n - k
    BY <1>9
  <2> QED
    BY <1>3, <2>1, <2>2, LenProperties
<1>11. SubSeq(r, 1, n - k) = r
  BY <1>10, SubSeqFull
<1>12. SubSeq(q, 1, n - k) = r
  <2>1. \A i \in 1 .. n - k : q[i] = r[i] /\ q[i] \in S
    BY <1>3, <1>6, <1>7, <1>8
  <2>2. PICK u : u = SubSeq(q, 1, n - k)
    OBVIOUS
  <2>3. /\ u \in Seq(S) /\ Len(u) = n - k
        /\ \A i \in 1 .. n - k : u[i] = q[i]
    BY <1>3, <2>1, <2>2, SubSeqProperties
  <2>4. u = r
    BY <1>10, <2>1, <2>3, SeqEqual
  <2> QED
    BY <2>2, <2>4
<1> QED
  BY <1>1, <1>2, <1>3, <1>5, <1>10, <1>11, <1>12 DEF IsSuffix, IsPrefix

Addresses == [1 .. AddrSize -> Letters \cup {Nul, DefaultAddr.fill}]
Settings  == [workers : Int, port : Int, ctrl : Int, addr : Addresses]

(* The options among the first k with a letter, and the argument of the    *)
(* last of them.                                                           *)
Upto(letter, k) == {i \in 1 .. k : given[i].letter = letter}
ArgUpto(letter, k) == given[Max(Upto(letter, k))].arg

(* The loop has read k options.                                            *)
Reading(k) ==
  /\ args = SubSeq(given, k + 1, Len(given))
  /\ \A i \in 1 .. k : Known(given[i]) /\ given[i].letter # "h"
  /\ set.workers > 0 /\ (Upto("n", k) # {} => set.workers = Atoi(ArgUpto("n", k)))
  /\ IF Upto("p", k) = {} THEN set.port = 0
     ELSE set.port > 0 /\ set.port = Atoi(ArgUpto("p", k))
  /\ (\A i, j \in Upto("i", k) : i = j) =>
       set.addr = IF Upto("i", k) = {} THEN Unset(program).addr
                  ELSE Copied(Unset(program).addr, ArgUpto("i", k))
  /\ \A b \in 1 .. AddrSize :
       set.addr[b] = Nul <=> \A i \in Upto("i", k) : given[i].arg.len < b

CommandLineInv ==
  /\ program \in {"server", "client"}
  /\ given \in CommandLines \cup {<<>>} /\ IsSuffix(args, given)
  /\ set \in Settings
  /\ result \in {"options", "run", "usage", "error", "used"}
  /\ result = "options" => \E k \in 0 .. Len(given) : Reading(k)
  /\ result \in {"run", "used"} => args = <<>>
  /\ RunsAsAsked /\ AddressTerminated

(* A command line is a sequence, whose options have arguments of their kind. *)
LEMMA LineType ==
  ASSUME CommandLineInv
  PROVE  /\ given \in Seq(ToSet(given))
         /\ \A i \in 1 .. Len(given) :
              /\ given[i].letter \in {"n", "p", "P"} => given[i].arg \in Int
              /\ given[i].letter = "i" => given[i].arg \in [len : Nat, fill : Letters]
<1>1. CASE given = <<>>
  BY <1>1
<1>2. CASE given \in CommandLines
  <2>1. /\ given \in Seq(ToSet(given))
        /\ \A o \in ToSet(given) :
             /\ o.letter \in {"n", "p", "P"} => o.arg \in Nat \cup {NotDigits}
             /\ o.letter = "i" => o.arg \in [len : Nat, fill : Letters]
    BY <1>2, CommandLineAssumption
  <2>2. \A i \in 1 .. Len(given) : given[i] \in ToSet(given)
    BY <2>1, ElementOfSeq
  <2> QED
    BY <2>1, <2>2 DEF NotDigits
<1> QED
  BY <1>1, <1>2 DEF CommandLineInv

LEMMA AtoiType == ASSUME NEW v \in Int PROVE Atoi(v) \in Int
<1>1. v % IntWidth \in Int
  BY CommandLineAssumption
<1> QED
  BY <1>1, CommandLineAssumption DEF Atoi

LEMMA CopiedType ==
  ASSUME NEW addr \in Addresses, NEW arg, arg.fill \in Letters \cup {DefaultAddr.fill}
  PROVE  Copied(addr, arg) \in Addresses
BY DEF Copied, Addresses

LEMMA UnsetType == ASSUME NEW p PROVE Unset(p) \in Settings
BY DEF Unset, Settings, Addresses

LEMMA UptoNext ==
  ASSUME NEW k \in Nat, NEW letter
  PROVE  /\ given[k + 1].letter = letter =>
              /\ Upto(letter, k + 1) # {} /\ k + 1 \in Upto(letter, k + 1)
              /\ ArgUpto(letter, k + 1) = given[k + 1].arg
         /\ given[k + 1].letter # letter =>
              /\ Upto(letter, k + 1) = Upto(letter, k)
              /\ ArgUpto(letter, k + 1) = ArgUpto(letter, k)
<1>1. CASE given[k + 1].letter = letter
  <2>1. /\ k + 1 \in Upto(letter, k + 1) /\ Upto(letter, k + 1) \subseteq Int
        /\ \A x \in Upto(letter, k + 1) : x <= k + 1
    BY <1>1 DEF Upto
  <2>2. Max(Upto(letter, k + 1)) = k + 1
    BY <2>1, MaxIs
  <2> QED
    BY <1>1, <2>1, <2>2 DEF ArgUpto
<1>2. CASE given[k + 1].letter # letter
  <2>1. Upto(letter, k + 1) = Upto(letter, k)
    BY <1>2 DEF Upto
  <2> QED
    BY <1>2, <2>1 DEF ArgUpto
<1> QED
  BY <1>1, <1>2

LEMMA CommandLineStarts == CommandLineInit => CommandLineInv
<1> SUFFICES ASSUME CommandLineInit PROVE CommandLineInv
  OBVIOUS
<1>1. /\ program \in {"server", "client"} /\ given \in CommandLines /\ args = given
      /\ set = Unset(program) /\ result = "options"
  BY DEF CommandLineInit
<1>2. given \in Seq(ToSet(given))
  BY <1>1, CommandLineAssumption
<1>3. args = SubSeq(given, 0 + 1, Len(given)) /\ 0 \in 0 .. Len(given)
  BY <1>1, <1>2, SubSeqFull, LenProperties
<1>4. IsSuffix(args, given)
  BY <1>2, <1>3, RestIsSuffix
<1>5. Reading(0)
  <2>1. \A letter : Upto(letter, 0) = {}
    BY DEF Upto
  <2> QED
    BY <1>1, <1>3, <2>1 DEF Reading, Unset
<1> QED
  BY <1>1, <1>3, <1>4, <1>5, UnsetType DEF CommandLineInv, RunsAsAsked, AddressTerminated

(* An option that is stored has a number, or an address, where it needs    *)
(* one; the last of its letter counts.                                     *)
LEMMA StoredReading ==
  ASSUME CommandLineInv, NEW k \in 0 .. Len(given), k < Len(given), Reading(k),
         NEW o, o = given[k + 1], Known(o), o.letter # "h", Accepted(o),
         set' = Stored(o), args' = SubSeq(given, k + 2, Len(given)),
         UNCHANGED <<program, given>>
  PROVE  set' \in Settings /\ Reading(k + 1)'
<1>1. k \in Nat /\ k + 1 \in 1 .. Len(given)
  BY LineType, LenProperties
<1>2. /\ o.letter \in {"n", "p", "P"} => o.arg \in Int /\ Atoi(o.arg) \in Int
      /\ o.letter = "i" => o.arg \in [len : Nat, fill : Letters]
  BY <1>1, LineType, AtoiType
<1>3. set \in Settings
  BY DEF CommandLineInv
<1>4. /\ set' \in Settings
      /\ set'.workers = IF o.letter = "n" THEN Atoi(o.arg) ELSE set.workers
      /\ set'.port = IF o.letter = "p" THEN Atoi(o.arg) ELSE set.port
      /\ set'.addr = IF o.letter = "i" THEN Copied(set.addr, o.arg) ELSE set.addr
  <2>1. CASE o.letter = "i"
    <3>1. set' = [set EXCEPT !.addr = Copied(@, o.arg)]
      BY <2>1 DEF Stored
    <3>2. Copied(set.addr, o.arg) \in Addresses
      BY <1>2, <1>3, <2>1, CopiedType DEF Settings
    <3> QED
      BY <1>3, <2>1, <3>1, <3>2 DEF Settings
  <2>2. CASE o.letter \in {"n", "p", "P"}
    BY <1>2, <1>3, <2>2 DEF Stored, Settings
  <2>3. CASE o.letter \notin {"n", "p", "P", "i"}
    BY <1>3, <2>3 DEF Stored, Settings
  <2> QED
    BY <2>1, <2>2, <2>3
<1>5. /\ o.letter = "n" => Atoi(o.arg) > 0
      /\ o.letter = "p" => Atoi(o.arg) > 0
  BY DEF Accepted, Number
<1>6. /\ \A letter : Upto(letter, k + 1)' = Upto(letter, k + 1)
      /\ \A letter : ArgUpto(letter, k + 1)' = ArgUpto(letter, k + 1)
      /\ Unset(program') = Unset(program)
  BY DEF Upto, ArgUpto
<1>7. \A i \in 1 .. k + 1 : Known(given[i])' /\ given'[i].letter # "h"
  <2>1. \A i \in 1 .. k + 1 : i \in 1 .. k \/ i = k + 1
    BY <1>1
  <2> QED
    BY <2>1 DEF Reading, Known
<1>8. /\ set'.workers > 0
      /\ Upto("n", k + 1) # {} => set'.workers = Atoi(ArgUpto("n", k + 1))
  BY <1>1, <1>4, <1>5, UptoNext DEF Reading
<1>9. IF Upto("p", k + 1) = {} THEN set'.port = 0
      ELSE set'.port > 0 /\ set'.port = Atoi(ArgUpto("p", k + 1))
  BY <1>1, <1>4, <1>5, UptoNext DEF Reading
<1>10. ASSUME \A i, j \in Upto("i", k + 1) : i = j
       PROVE  set'.addr = IF Upto("i", k + 1) = {} THEN Unset(program).addr
                          ELSE Copied(Unset(program).addr, ArgUpto("i", k + 1))
  <2>1. CASE o.letter = "i"
    <3>1. k + 1 \in Upto("i", k + 1) /\ ArgUpto("i", k + 1) = o.arg
      BY <1>1, <2>1, UptoNext
    <3>2. Upto("i", k) = {}
      BY <1>1, <1>10, <3>1 DEF Upto
    <3>3. set.addr = Unset(program).addr
      BY <3>2 DEF Reading
    <3> QED
      BY <1>4, <2>1, <3>1, <3>3
  <2>2. CASE o.letter # "i"
    BY <1>1, <1>4, <1>10, <2>2, UptoNext DEF Reading
  <2> QED
    BY <2>1, <2>2
<1>11. args' = SubSeq(given', (k + 1) + 1, Len(given'))
  BY <1>1
<1>12. ASSUME NEW b \in 1 .. AddrSize
       PROVE  set'.addr[b] = Nul <=> \A i \in Upto("i", k + 1) : given[i].arg.len < b
  <2>1. set.addr[b] = Nul <=> \A i \in Upto("i", k) : given[i].arg.len < b
    BY DEF Reading
  <2>2. CASE o.letter = "i"
    <3>1. set'.addr[b] = IF b <= o.arg.len THEN o.arg.fill ELSE set.addr[b]
      BY <1>4, <2>2 DEF Copied
    <3>2. o.arg.fill # Nul /\ o.arg.len \in Nat
      BY <1>2, <2>2 DEF Letters, Nul
    <3>3. Upto("i", k + 1) = Upto("i", k) \cup {k + 1}
      BY <1>1, <2>2 DEF Upto
    <3>4. b <= o.arg.len <=> ~(o.arg.len < b)
      BY <3>2
    <3> QED
      BY <2>1, <3>1, <3>2, <3>3, <3>4
  <2>3. CASE o.letter # "i"
    <3>1. set'.addr[b] = set.addr[b] /\ Upto("i", k + 1) = Upto("i", k)
      BY <1>1, <1>4, <2>3, UptoNext
    <3> QED
      BY <2>1, <3>1
  <2> QED
    BY <2>2, <2>3
<1> QED
  BY <1>4, <1>6, <1>7, <1>8, <1>9, <1>10, <1>11, <1>12 DEF Reading

LEMMA OptionInv == ASSUME CommandLineInv, Option PROVE CommandLineInv'
<1>0. PICK n \in Nat : n = Len(given)
  BY LineType, LenProperties
<1>1. PICK k \in 0 .. n : n = Len(given) /\ Reading(k)
  BY <1>0 DEF Option, CommandLineInv
<1>2. given \in Seq(ToSet(given))
  BY LineType
<1>3. k < n
  <2>1. args = SubSeq(given, k + 1, n) /\ args # <<>>
    BY <1>1 DEF Option, Reading
  <2> QED
    BY <1>1, <2>1, SubSeqEmpty
<1>4. PICK o : o = given[k + 1]
  OBVIOUS
<1>5. Head(args) = o /\ Tail(args) = SubSeq(given, k + 2, n)
  <2>1. k + 1 \in 1 .. Len(given) /\ n \in k + 1 .. Len(given) /\ (k + 1) + 1 = k + 2
    BY <1>1, <1>3
  <2>2. args = SubSeq(given, k + 1, n)
    BY <1>1 DEF Reading
  <2> QED
    BY <1>2, <1>4, <2>1, <2>2, HeadTailOfSubSeq
<1>6. args' = SubSeq(given, k + 2, n) /\ UNCHANGED <<program, given>> /\ result = "options"
  BY <1>5 DEF Option
<1>7. IsSuffix(args', given')
  <2>1. k + 1 \in 0 .. Len(given) /\ (k + 1) + 1 = k + 2
    BY <1>1, <1>3
  <2> QED
    BY <1>1, <1>2, <1>6, <2>1, RestIsSuffix
<1>8. CASE result' \in {"usage", "error"} /\ UNCHANGED set
  BY <1>6, <1>7, <1>8 DEF CommandLineInv, RunsAsAsked, AddressTerminated
<1>9. CASE Known(o) /\ o.letter # "h" /\ Accepted(o) /\ set' = Stored(o) /\ UNCHANGED result
  <2>1. set' \in Settings /\ Reading(k + 1)'
    BY <1>1, <1>3, <1>4, <1>6, <1>9, StoredReading
  <2>2. k + 1 \in 0 .. Len(given')
    BY <1>1, <1>3, <1>6
  <2> QED
    BY <1>6, <1>7, <1>9, <2>1, <2>2 DEF CommandLineInv, RunsAsAsked, AddressTerminated
<1> QED
  BY <1>5, <1>8, <1>9 DEF Option

LEMMA DefaultsInv == ASSUME CommandLineInv, Defaults PROVE CommandLineInv'
<1>1. PICK n \in Nat : n = Len(given)
  BY LineType, LenProperties
<1>2. PICK k \in 0 .. n : Reading(k)
  BY <1>1 DEF Defaults, CommandLineInv
<1>3. given \in Seq(ToSet(given)) /\ DOMAIN given = 1 .. n
  BY <1>1, LineType, LenProperties
<1>4. k = n
  <2>1. SubSeq(given, k + 1, n) = <<>>
    BY <1>1, <1>2 DEF Defaults, Reading
  <2>2. Len(SubSeq(given, k + 1, n)) = IF k + 1 <= n THEN n - (k + 1) + 1 ELSE 0
    <3>1. \A i \in k + 1 .. n : given[i] \in ToSet(given)
      BY <1>1, <1>2, <1>3, ElementOfSeq
    <3> QED
      BY <1>1, <1>2, <3>1, SubSeqProperties
  <2>3. 0 = IF k + 1 <= n THEN n - (k + 1) + 1 ELSE 0
    BY <2>1, <2>2
  <2> QED
    BY <1>2, <2>3
<1>5. \A letter : Positions(letter) = Upto(letter, n) /\ LastArg(letter) = ArgUpto(letter, n)
  BY <1>3 DEF Positions, LastArg, Upto, ArgUpto
<1>6. /\ result' = "run" /\ UNCHANGED <<program, given, args>> /\ args = <<>>
      /\ set' = [set EXCEPT
           !.port = IF @ = 0 THEN DefaultPort ELSE @,
           !.ctrl = IF program = "server" /\ @ = 0 THEN DefaultCtrl(program) ELSE @,
           !.addr = IF @[1] = Nul THEN Copied(@, DefaultAddr) ELSE @]
  BY DEF Defaults
<1>7. set \in Settings /\ set.addr \in Addresses /\ DefaultPort > 0
      /\ DefaultPort \in Int /\ DefaultCtrl(program) \in Int
  BY DEF CommandLineInv, Settings, DefaultPort, DefaultCtrl
<1>8. Copied(set.addr, DefaultAddr) \in Addresses
  BY <1>7, CopiedType
<1>9. /\ set' \in Settings /\ set'.workers = set.workers
      /\ set'.port = IF set.port = 0 THEN DefaultPort ELSE set.port
      /\ set'.addr = IF set.addr[1] = Nul THEN Copied(set.addr, DefaultAddr) ELSE set.addr
  BY <1>6, <1>7, <1>8 DEF Settings
<1>10. /\ Positions("n")' = Positions("n") /\ Positions("p")' = Positions("p")
       /\ Positions("i")' = Positions("i") /\ LastArg("i")' = LastArg("i")
       /\ Unset(program)' = Unset(program)
       /\ Atoi(LastArg("n"))' = Atoi(LastArg("n")) /\ Atoi(LastArg("p"))' = Atoi(LastArg("p"))
  BY <1>6 DEF Positions, LastArg, Unset, Atoi
<1>11. RunsAsAsked'
  <2>1. \A i \in 1 .. n : Known(given[i])' /\ given'[i].letter # "h"
    BY <1>2, <1>4, <1>6 DEF Reading, Known
  <2>3. set.workers > 0 /\ (Positions("n") # {} => set.workers = Atoi(LastArg("n")))
    BY <1>2, <1>4, <1>5 DEF Reading
  <2>4. IF Positions("p") = {} THEN set.port = 0
        ELSE set.port > 0 /\ set.port = Atoi(LastArg("p"))
    BY <1>2, <1>4, <1>5 DEF Reading
  <2>5. set'.workers > 0 /\ (Positions("n") # {} => set'.workers = Atoi(LastArg("n")))
    BY <1>9, <2>3
  <2>6. set'.port > 0 /\ set'.port = IF Positions("p") = {} THEN DefaultPort
                                     ELSE Atoi(LastArg("p"))
    BY <1>7, <1>9, <2>4
  <2> QED
    BY <1>3, <1>6, <1>10, <2>1, <2>5, <2>6 DEF RunsAsAsked
<1>12. (\E b \in 1 .. AddrSize : set'.addr[b] = Nul)
         <=> (\A i \in Positions("i") : given[i].arg.len < AddrSize)
  <2>1. \A b \in 1 .. AddrSize :
          set.addr[b] = Nul <=> \A i \in Positions("i") : given[i].arg.len < b
    BY <1>2, <1>4, <1>5 DEF Reading
  <2>2. \A i \in Positions("i") : given[i].arg.len \in Nat
    BY <1>1, <1>3, LineType DEF Positions
  <2>3. AddrSize \in Nat /\ 1 \in 1 .. AddrSize /\ AddrSize \in 1 .. AddrSize /\ AddrSize > 1
    BY CommandLineAssumption
  <2>4. CASE set.addr[1] = Nul
    <3>1. \A i \in Positions("i") : given[i].arg.len < 1
      BY <2>1, <2>3, <2>4
    <3>2. \A i \in Positions("i") : given[i].arg.len < AddrSize
      BY <2>2, <2>3, <3>1
    <3>3. set.addr[AddrSize] = Nul
      BY <2>1, <2>3, <3>2
    <3>4. set'.addr[AddrSize] = Nul
      BY <1>9, <2>3, <2>4, <3>3 DEF Copied, DefaultAddr
    <3> QED
      BY <2>3, <3>2, <3>4
  <2>5. CASE set.addr[1] # Nul
    <3>1. set'.addr = set.addr
      BY <1>9, <2>5
    <3>2. ASSUME NEW b \in 1 .. AddrSize, \A i \in Positions("i") : given[i].arg.len < b
          PROVE  \A i \in Positions("i") : given[i].arg.len < AddrSize
      BY <2>2, <2>3, <3>2
    <3> QED
      BY <2>1, <2>3, <3>1, <3>2
  <2> QED
    BY <2>4, <2>5
<1>13. ASSUME \A i, j \in Positions("i") : i = j
       PROVE  LET want == IF Positions("i") = {} \/ LastArg("i").len = 0
                            THEN DefaultAddr ELSE LastArg("i")
              IN \A b \in 1 .. AddrSize :
                   set'.addr[b] = IF b <= want.len THEN want.fill ELSE Nul
  <2> DEFINE blank == Unset(program).addr
  <2>1. blank = [i \in 1 .. AddrSize |-> Nul] /\ 1 \in 1 .. AddrSize
    BY CommandLineAssumption DEF Unset
  <2>2. set.addr = IF Positions("i") = {} THEN blank ELSE Copied(blank, LastArg("i"))
    BY <1>2, <1>4, <1>5, <1>13 DEF Reading
  <2>3. CASE Positions("i") = {}
    <3>1. set'.addr = Copied(blank, DefaultAddr)
      BY <1>9, <2>1, <2>2, <2>3
    <3> QED
      BY <2>1, <2>3, <3>1 DEF Copied
  <2>4. CASE Positions("i") # {}
    <3>1. PICK i \in 1 .. n : Positions("i") = {i} /\ given[i].letter = "i"
      BY <1>3, <1>13, <2>4 DEF Positions
    <3>2. PICK want : want = given[i].arg
      OBVIOUS
    <3>3. LastArg("i") = want /\ want \in [len : Nat, fill : Letters]
      <4>1. Max({i}) = i
        BY <3>1, MaxIs
      <4> QED
        BY <1>1, <3>1, <3>2, <4>1, LineType DEF LastArg
    <3>4. want.fill # Nul
      BY <3>3 DEF Letters, Nul
    <3>5. \A j \in 1 .. AddrSize : set.addr[j] = IF j <= want.len THEN want.fill ELSE Nul
      BY <2>1, <2>2, <2>4, <3>3 DEF Copied
    <3>6. CASE want.len = 0
      <4>1. set.addr[1] = Nul
        BY <2>1, <3>5, <3>6
      <4>2. set'.addr = Copied(set.addr, DefaultAddr)
        BY <1>9, <4>1
      <4> QED
        BY <2>4, <3>3, <3>5, <3>6, <4>2 DEF Copied
    <3>7. CASE want.len # 0
      <4>1. want.len \in Nat /\ 1 <= want.len
        BY <3>3, <3>7
      <4>2. set.addr[1] # Nul
        BY <2>1, <3>4, <3>5, <4>1
      <4> QED
        BY <1>9, <2>4, <3>3, <3>5, <3>7, <4>2
    <3> QED
      BY <3>6, <3>7
  <2> QED
    BY <2>3, <2>4
<1>14. AddressTerminated'
  <2>1. \A i \in Positions("i") : given'[i] = given[i]
    BY <1>6
  <2> QED
    BY <1>10, <1>12, <1>13, <2>1 DEF AddressTerminated
<1> QED
  BY <1>6, <1>9, <1>11, <1>14 DEF CommandLineInv

(* The settings are forgotten once they have been used. *)
LEMMA ForgetInv == ASSUME CommandLineInv, Forget, result = "run" PROVE CommandLineInv'
<1>1. /\ given' = <<>> /\ args' = <<>> /\ set' = Unset(program)
      /\ result' = "used" /\ program' = program
  BY DEF Forget, CommandLineInv
<1>2. IsSuffix(<<>>, <<>>)
  BY DEF IsSuffix, IsPrefix
<1> QED
  BY <1>1, <1>2, UnsetType DEF CommandLineInv, RunsAsAsked, AddressTerminated

LEMMA CommandLineUsed == ASSUME CommandLineInv, UNCHANGED commandLine PROVE CommandLineInv'
<1>1. UNCHANGED <<program, given, args, set, result>>
  BY DEF commandLine
<1>2. RunsAsAsked' /\ AddressTerminated'
  BY <1>1
  DEF CommandLineInv, RunsAsAsked, AddressTerminated, Positions, LastArg, Known, Unset, Atoi
<1>3. \A k : Reading(k) => Reading(k)'
  BY <1>1 DEF Reading, Upto, ArgUpto, Known, Unset, Atoi, Copied
<1> QED
  BY <1>1, <1>2, <1>3 DEF CommandLineInv

-----------------------------------------------------------------------------
(* The slots.                                                              *)

LEMMA ModRange ==
  ASSUME NEW x \in Nat, NEW m \in Nat \ {0}
  PROVE  x % m \in 0 .. m - 1
OBVIOUS

LEMMA ModBelow ==
  ASSUME NEW m \in Nat \ {0}, NEW x \in 0 .. m - 1
  PROVE  x % m = x /\ (x + m) % m = x
OBVIOUS

LEMMA Times ==
  ASSUME NEW a \in Nat, NEW b \in Nat, a <= b, NEW n \in Nat \ {0}
  PROVE  a * n \in Nat /\ a <= a * n /\ a * n <= b * n
OBVIOUS

LEMMA Division ==
  ASSUME NEW x \in Nat, NEW p \in Nat \ {0}
  PROVE  x \div p \in Nat /\ x % p \in 0 .. p - 1 /\ x = p * (x \div p) + (x % p)
OBVIOUS

LEMMA MultipleMod ==
  ASSUME NEW q \in Nat, NEW p \in Nat \ {0}
  PROVE  (p * q) % p = 0
<1>1. PICK x \in Nat : x = p * q
  OBVIOUS
<1>2. PICK d \in Nat : d = x \div p
  BY Division
<1>3. PICK r \in 0 .. p - 1 : r = x % p /\ p * q = p * d + r
  BY <1>1, <1>2, Division
<1>4. CASE q > d
  <2>1. q - d >= 1 /\ p * (q - d) = r
    BY <1>3, <1>4
  <2>2. p * (q - d) >= p
    BY <2>1
  <2> QED
    BY <2>1, <2>2
<1>5. CASE q < d
  <2>1. d - q >= 1 /\ p * (d - q) = 0 - r
    BY <1>3, <1>5
  <2>2. p * (d - q) >= p
    BY <2>1
  <2> QED
    BY <2>1, <2>2
<1>6. CASE q = d
  BY <1>1, <1>3, <1>6
<1> QED
  BY <1>4, <1>5, <1>6

(* Rounding gives a multiple of the page size, less than one page more, if *)
(* the sum does not wrap.                                                  *)
LEMMA RoundedUp ==
  ASSUME NEW n \in Nat, n + PageSize < SizeRange
  PROVE  /\ Rounded(n) \in n .. n + PageSize - 1
         /\ Rounded(n) % PageSize = 0
<1> USE SlotMemoryAssumption
<1>1. PICK r \in 0 .. PageSize - 1, q \in Nat :
        r = n % PageSize /\ q = n \div PageSize /\ n = PageSize * q + r
  OBVIOUS
<1>2. CASE r = 0
  BY <1>1, <1>2 DEF Rounded
<1>3. CASE r # 0
  <2>1. n + PageSize - r \in 0 .. SizeRange - 1
    BY <1>1
  <2>2. Rounded(n) = n + PageSize - r
    BY <1>1, <1>3, <2>1, ModBelow DEF Rounded
  <2>3. n + PageSize - r = PageSize * (q + 1) /\ q + 1 \in Nat
    BY <1>1
  <2>4. (PageSize * (q + 1)) % PageSize = 0
    BY <2>3, MultipleMod
  <2> QED
    BY <1>1, <1>3, <2>2, <2>3, <2>4
<1> QED
  BY <1>2, <1>3

LEMMA RoundedType ==
  ASSUME NEW n \in 0 .. SizeRange - 1
  PROVE  Rounded(n) \in 0 .. SizeRange - 1
<1>1. n + PageSize - (n % PageSize) \in Nat
  <2>1. n % PageSize \in 0 .. PageSize - 1
    BY SlotMemoryAssumption, ModRange
  <2> QED
    BY SlotMemoryAssumption, <2>1
<1>2. (n + PageSize - (n % PageSize)) % SizeRange \in 0 .. SizeRange - 1
  BY <1>1, SlotMemoryAssumption, ModRange
<1> QED
  BY <1>2 DEF Rounded

LEMMA BytesType == ASSUME NEW n \in Nat PROVE Bytes(n) \in 0 .. SizeRange - 1
<1>1. n * NodeSize \in Nat
  BY SlotMemoryAssumption
<1> QED
  BY <1>1, SlotMemoryAssumption, ModRange DEF Bytes

MemoryInv ==
  /\ MemoryTypeOK
  /\ buffer = "mapped" \/ unmapped > 0 => mapped = Bytes(capacity)
  /\ unmapped > 0 => unmapped = Unmapped(capacity)
  /\ SlotsFit

LEMMA MemoryStarts == MemoryInit => MemoryInv
<1> SUFFICES ASSUME MemoryInit PROVE MemoryInv
  OBVIOUS
<1>1. SizeRange * NodeSize \in Nat
  BY SlotMemoryAssumption
<1> QED
  BY <1>1, SlotMemoryAssumption DEF MemoryInit, MemoryInv, MemoryTypeOK, SlotsFit

LEMMA CreateInv == ASSUME MemoryInv, CreateSlots, unmapped = 0 PROVE MemoryInv'
<1> USE SlotMemoryAssumption
<1>1. hint \in 0 .. SizeRange - 1 /\ hint \in Hints /\ UNCHANGED <<hint, unmapped>>
  BY DEF MemoryInv, MemoryTypeOK, CreateSlots
<1>2. PICK cap \in 0 .. SizeRange - 1, bytes \in 0 .. SizeRange - 1 :
        /\ cap = Rounded(hint) /\ bytes = Bytes(cap) /\ capacity' = cap
        /\ buffer' \in Mapping(bytes)
        /\ mapped' = IF buffer' = "mapped" THEN bytes ELSE 0
  BY <1>1, RoundedType, BytesType DEF CreateSlots
<1>3. PICK count \in 1 .. SizeRange :
        /\ count = ((cap + SizeRange - 1) % SizeRange) + 1
        /\ written' = IF buffer' = "null" THEN 0 ELSE count * NodeSize
        /\ cap > 0 => count = cap
  <2>1. (cap + SizeRange - 1) % SizeRange \in 0 .. SizeRange - 1
    BY ModRange
  <2>2. cap > 0 => (cap + SizeRange - 1) % SizeRange = cap - 1
    <3> SUFFICES ASSUME cap > 0 PROVE (cap + SizeRange - 1) % SizeRange = cap - 1
      OBVIOUS
    <3>1. cap - 1 \in 0 .. SizeRange - 1 /\ cap + SizeRange - 1 = (cap - 1) + SizeRange
      OBVIOUS
    <3> QED
      BY <3>1, ModBelow
  <2> QED
    BY <1>2, <2>1, <2>2 DEF CreateSlots
<1>4. MemoryTypeOK'
  <2>1. count * NodeSize \in 0 .. SizeRange * NodeSize
    BY <1>3, Times
  <2>2. written' \in 0 .. SizeRange * NodeSize
    BY <1>3, <2>1
  <2>3. buffer' \in {"null", "mapped", "wild", "guarded"}
    BY <1>2 DEF Mapping
  <2>4. capacity' \in 0 .. SizeRange - 1 /\ mapped' \in 0 .. SizeRange - 1
        /\ unmapped' \in 0 .. SizeRange - 1
    BY <1>1, <1>2 DEF MemoryInv, MemoryTypeOK
  <2> QED
    BY <1>1, <2>2, <2>3, <2>4 DEF MemoryTypeOK
<1>5. SlotsFit'
  <2> SUFFICES ASSUME buffer' = "mapped", (hint + PageSize) * NodeSize < SizeRange
               PROVE  /\ cap >= hint /\ cap < hint + PageSize
                      /\ cap % PageSize = 0
                      /\ written' = mapped'
    BY <1>1, <1>2 DEF SlotsFit, Wraps
  <2>1. hint + PageSize < SizeRange
    BY <1>1, Times
  <2>2. cap \in hint .. hint + PageSize - 1 /\ cap % PageSize = 0
    BY <1>1, <1>2, <2>1, RoundedUp
  <2>3. cap * NodeSize \in 0 .. SizeRange - 1
    <3>1. cap <= hint + PageSize /\ cap \in Nat /\ hint + PageSize \in Nat
      BY <1>1, <2>2
    <3>2. cap * NodeSize \in Nat /\ cap * NodeSize <= (hint + PageSize) * NodeSize
      BY <3>1, Times
    <3>3. (hint + PageSize) * NodeSize \in Nat
      BY <3>1
    <3> QED
      BY <3>2, <3>3
  <2>4. bytes = cap * NodeSize
    BY <1>2, <2>3, ModBelow DEF Bytes
  <2>5. cap > 0
    BY <1>2, <2>4 DEF Mapping
  <2> QED
    BY <1>1, <1>2, <1>3, <2>2, <2>4, <2>5
<1>6. unmapped' = 0 /\ (buffer' = "mapped" => mapped' = Bytes(capacity'))
  BY <1>1, <1>2
<1> QED
  BY <1>4, <1>5, <1>6 DEF MemoryInv

LEMMA DestroyInv == ASSUME MemoryInv, DestroySlots PROVE MemoryInv'
<1>1. /\ buffer = "mapped" /\ buffer' = "null" /\ unmapped' = Unmapped(capacity)
      /\ UNCHANGED <<hint, capacity, mapped, written>>
  BY DEF DestroySlots
<1>2. capacity \in Nat /\ Unmapped(capacity) \in 0 .. SizeRange - 1
  <2>1. capacity \in Nat /\ 2 * capacity \in Nat
    BY SlotMemoryAssumption DEF MemoryInv, MemoryTypeOK
  <2> QED
    BY <2>1, BytesType DEF Unmapped
<1>3. MemoryTypeOK' /\ SlotsFit'
  BY <1>1, <1>2 DEF MemoryInv, MemoryTypeOK, SlotsFit
<1>4. Bytes(capacity)' = Bytes(capacity) /\ Unmapped(capacity)' = Unmapped(capacity)
  BY <1>1 DEF Bytes, Unmapped
<1> QED
  BY <1>1, <1>3, <1>4 DEF MemoryInv

LEMMA MemoryUsed == ASSUME MemoryInv, UNCHANGED memory PROVE MemoryInv'
<1>1. UNCHANGED <<hint, buffer, capacity, mapped, written, unmapped>>
  BY DEF memory
<1> QED
  BY <1>1 DEF MemoryInv, MemoryTypeOK, SlotsFit, Wraps, Bytes, Unmapped

(* What delmap() unmaps covers the mapping, unless its length wraps.       *)
LEMMA UnmapsAll == MemoryInv => NothingLeftMapped
<1> SUFFICES ASSUME MemoryInv, unmapped > 0, 2 * capacity * NodeSize < SizeRange
             PROVE  unmapped >= mapped
  BY DEF NothingLeftMapped
<1> USE SlotMemoryAssumption
<1>1. capacity \in Nat /\ mapped = Bytes(capacity) /\ unmapped = Bytes(2 * capacity)
  BY DEF MemoryInv, MemoryTypeOK, Unmapped
<1>2. PICK one \in Nat, two \in Nat :
           one = capacity * NodeSize /\ two = 2 * capacity * NodeSize
  BY <1>1
<1>3. one <= two
  BY <1>1, <1>2, Times
<1>4. one \in 0 .. SizeRange - 1 /\ two \in 0 .. SizeRange - 1
  BY <1>2, <1>3
<1>5. mapped = one /\ unmapped = two
  BY <1>1, <1>2, <1>4, ModBelow DEF Bytes
<1> QED
  BY <1>3, <1>5

-----------------------------------------------------------------------------
(* The listener.  Its event is owed from the moment it is registered: the  *)
(* kernel has it, or the server thread has it in a batch.                  *)

ListenerInv ==
  /\ ListenerTypeOK /\ QueueAnnounced
  /\ registered /\ queue > 0 /\ spc = "batch" => announced \/ stranded \/ "listener" \in batch
  /\ spc = "add" => clients < MaxFds
  /\ phase = "stopped" => spc = "off" /\ clients = 0

LEMMA ListenerStarts == ListenerInit => ListenerInv
<1> SUFFICES ASSUME ListenerInit PROVE ListenerInv
  OBVIOUS
<1>1. ListenerTypeOK
  <2>1. arrived \in 0 .. MaxConns /\ queue \in 0 .. arrived /\ clients \in 0 .. MaxFds
    BY ListenerAssumption DEF ListenerInit
  <2> QED
    BY <2>1 DEF ListenerInit, ListenerTypeOK
<1> QED
  BY <1>1 DEF ListenerInit, ListenerInv, QueueAnnounced

LEMMA PeerInv ==
  ASSUME ListenerInv, Connect \/ Release
  PROVE  ListenerInv' /\ phase' = phase /\ clients' <= clients
<1> USE ListenerAssumption DEF ListenerInv, ListenerTypeOK, QueueAnnounced, socket
<1>1. CASE Connect
  <2>1. arrived' \in 0 .. MaxConns /\ queue' \in 0 .. arrived'
    BY <1>1 DEF Connect
  <2>2. {blocking, registered, announced, exitByte, stranded}' \subseteq BOOLEAN
    BY <1>1 DEF Connect
  <2>3. ListenerTypeOK'
    BY <1>1, <2>1, <2>2 DEF Connect
  <2> QED
    BY <1>1, <2>3 DEF Connect
<1>2. CASE Release
  BY <1>2 DEF Release
<1> QED
  BY <1>1, <1>2

(* A client is added only where there is a slot for it. *)
LEMMA ServerThreadInv ==
  ASSUME ListenerInv, NEW cap \in Nat, clients <= cap, ServerThread(cap)
  PROVE  ListenerInv' /\ phase' = phase /\ clients' <= cap /\ phase # "stopped"
<1> USE ListenerAssumption DEF ListenerInv, ListenerTypeOK, QueueAnnounced, socket
<1>1. CASE Wait
  BY <1>1 DEF Wait
<1>2. CASE ListenerEvent
  BY <1>2 DEF ListenerEvent
<1>3. CASE ListenerError
  <2>1. {blocking, registered, announced, exitByte, stranded}' \subseteq BOOLEAN
    BY <1>3 DEF ListenerError
  <2>2. ListenerTypeOK'
    BY <1>3, <2>1 DEF ListenerError
  <2> QED
    BY <1>3, <2>2 DEF ListenerError
<1>4. CASE ExitEvent
  BY <1>4 DEF ExitEvent
<1>5. CASE BatchDone
  BY <1>5 DEF BatchDone
<1>6. CASE Accept
  BY <1>6 DEF Accept
<1>7. CASE AcceptFails
  BY <1>7 DEF AcceptFails
<1>8. CASE AcceptNone
  BY <1>8 DEF AcceptNone
<1>9. CASE AddClient(cap)
  BY <1>9 DEF AddClient
<1> QED
  BY <1>1, <1>2, <1>3, <1>4, <1>5, <1>6, <1>7, <1>8, <1>9 DEF ServerThread

LEMMA PanelCallInv ==
  ASSUME ListenerInv, RunBegin \/ StopBegin \/ StopEnd
  PROVE  ListenerInv' /\ clients' <= clients
<1> USE ListenerAssumption DEF ListenerInv, ListenerTypeOK, QueueAnnounced, socket
<1>1. CASE RunBegin
  BY <1>1 DEF RunBegin
<1>2. CASE StopBegin
  BY <1>2 DEF StopBegin
<1>3. CASE StopEnd
  BY <1>3 DEF StopEnd
<1> QED
  BY <1>1, <1>2, <1>3

LEMMA ListenerUsed == ASSUME ListenerInv, UNCHANGED listener PROVE ListenerInv'
BY DEF listener, socket, ListenerInv, ListenerTypeOK, QueueAnnounced

-----------------------------------------------------------------------------
(* The program.  Its threads run from the panel's first start to the stop  *)
(* that joins them, and the memory is mapped from before to after that.    *)

Stages == {"options", "listen", "unblock", "pool", "add", "panel", "client panel",
           "destroy", "failed", "terminated", "crashed", "exit"}

ProgramInv ==
  /\ stage \in Stages /\ clients <= capacity
  /\ stage = "listen" => result = "run"
  /\ stage \in {"add", "panel", "destroy"} => buffer = "mapped"
  /\ phase # "stopped" => buffer = "mapped" /\ stage \in {"panel", "destroy", "terminated"}
  /\ stage = "destroy" => phase # "stopping"
  /\ unmapped > 0 => stage = "exit"

LifeInv == CommandLineInv /\ MemoryInv /\ ListenerInv /\ ProgramInv

LEMMA LifeStarts == Init => LifeInv
<1> SUFFICES ASSUME Init PROVE LifeInv
  OBVIOUS
<1>1. CommandLineInv /\ MemoryInv /\ ListenerInv
  BY CommandLineStarts, MemoryStarts, ListenerStarts DEF Init
<1>2. ProgramInv
  BY DEF Init, MemoryInit, ListenerInit, ProgramInv, Stages
<1> QED
  BY <1>1, <1>2 DEF LifeInv

LEMMA MainInv == ASSUME LifeInv, ParseOptions \/ Main PROVE LifeInv'
<1>1. CASE ParseOptions
  <2>1. CommandLineInv'
    BY <1>1, OptionInv, DefaultsInv DEF LifeInv, ParseOptions, ReadCommandLine
  <2>2. MemoryInv' /\ ListenerInv'
    BY <1>1, MemoryUsed, ListenerUsed DEF LifeInv, ParseOptions
  <2>3. ProgramInv'
    BY <1>1 DEF LifeInv, ParseOptions, ProgramInv, memory, listener
  <2> QED
    BY <2>1, <2>2, <2>3 DEF LifeInv
<1>2. CASE Main
  <2>1. CommandLineInv' /\ MemoryInv' /\ ListenerInv'
    BY <1>2, CommandLineUsed, MemoryUsed, ListenerUsed DEF LifeInv, Main
  <2>3. ProgramInv'
    BY <1>2 DEF LifeInv, Main, ProgramInv, memory, listener, commandLine, Stages
  <2> QED
    BY <2>1, <2>3 DEF LifeInv
<1> QED
  BY <1>1, <1>2

LEMMA StartInv == ASSUME LifeInv, Create PROVE LifeInv'
<1>0. CommandLineInv /\ MemoryInv /\ ListenerInv /\ ProgramInv
  BY DEF LifeInv
<1>1. CASE Listen \/ ListenFails
  <2>1. CommandLineInv'
    BY <1>0, <1>1, ForgetInv, CommandLineUsed DEF Listen, ListenFails, ProgramInv
  <2>2. MemoryInv' /\ UNCHANGED memory
    BY <1>0, <1>1, MemoryUsed DEF Listen, ListenFails
  <2>3. ListenerInv'
    <3>1. lfd' \in {"none", "bound", "listening", "closed"}
      BY <1>1 DEF Listen, ListenFails
    <3>2. UNCHANGED <<blocking, registered, arrived, queue, announced, exitByte, spc, batch,
                      clients, phase, stranded>>
      BY <1>1 DEF Listen, ListenFails
    <3> QED
      BY <1>0, <3>1, <3>2 DEF ListenerInv, ListenerTypeOK, QueueAnnounced
  <2>4. ProgramInv'
    BY <1>0, <1>1, <2>2 DEF Listen, ListenFails, ProgramInv, Stages, memory
  <2> QED
    BY <2>1, <2>2, <2>3, <2>4 DEF LifeInv
<1>2. CASE Unblock
  <2>1. CommandLineInv' /\ MemoryInv' /\ UNCHANGED memory
    BY <1>0, <1>2, CommandLineUsed, MemoryUsed DEF Unblock
  <2>2. ListenerInv'
    <3>1. blocking' \in BOOLEAN
      BY <1>0, <1>2 DEF Unblock, ListenerInv, ListenerTypeOK
    <3> QED
      BY <1>0, <1>2, <3>1 DEF Unblock, ListenerInv, ListenerTypeOK, QueueAnnounced
  <2>3. ProgramInv'
    BY <1>0, <1>2, <2>1 DEF Unblock, ProgramInv, Stages, memory, commandLine
  <2> QED
    BY <2>1, <2>2, <2>3 DEF LifeInv
<1>3. CASE Add
  <2>1. CommandLineInv' /\ MemoryInv' /\ UNCHANGED memory
    BY <1>0, <1>3, CommandLineUsed, MemoryUsed DEF Add
  <2>2. ListenerInv'
    <3>1. phase = "stopped" /\ spc = "off" /\ batch' = batch
      BY <1>0, <1>3 DEF Add, ProgramInv, ListenerInv
    <3>2. {blocking, registered, announced, exitByte, stranded}' \subseteq BOOLEAN
      BY <1>0, <1>3 DEF Add, ListenerInv, ListenerTypeOK
    <3>3. ListenerTypeOK'
      BY <1>0, <1>3, <3>2 DEF Add, ListenerInv, ListenerTypeOK
    <3> QED
      BY <1>0, <1>3, <3>1, <3>3 DEF Add, ListenerInv, QueueAnnounced
  <2>3. ProgramInv'
    BY <1>0, <1>3, <2>1 DEF Add, ProgramInv, Stages, memory, commandLine
  <2> QED
    BY <2>1, <2>2, <2>3 DEF LifeInv
<1>4. CASE AddFails \/ EpollFails
  <2>1. CommandLineInv' /\ MemoryInv' /\ ListenerInv'
    BY <1>0, <1>4, CommandLineUsed, MemoryUsed, ListenerUsed DEF AddFails, EpollFails
  <2>2. ProgramInv'
    BY <1>0, <1>4 DEF AddFails, EpollFails, ProgramInv, Stages, memory, commandLine, listener
  <2> QED
    BY <2>1, <2>2 DEF LifeInv
<1>5. CASE MakePool
  <2>1. unmapped = 0 /\ phase = "stopped" /\ clients = 0
    BY <1>0, <1>5, SlotMemoryAssumption
    DEF MakePool, ProgramInv, ListenerInv, MemoryInv, MemoryTypeOK
  <2>2. CommandLineInv' /\ MemoryInv' /\ ListenerInv'
    BY <1>0, <1>5, <2>1, CommandLineUsed, CreateInv, ListenerUsed DEF MakePool
  <2>3. stage' \in {"terminated", "crashed", "add"} /\ (stage' = "add" => buffer' = "mapped")
    BY <1>5 DEF MakePool
  <2>4. clients' <= capacity' /\ unmapped' = 0 /\ phase' = "stopped"
    BY <1>5, <2>1, <2>2, SlotMemoryAssumption
    DEF MakePool, CreateSlots, MemoryInv, MemoryTypeOK, listener
  <2>5. ProgramInv'
    <3>1. stage' \in Stages /\ stage' \notin {"listen", "panel", "destroy"}
      BY <2>3 DEF Stages
    <3>2. ~(unmapped' > 0)
      BY <2>4
    <3> QED
      BY <2>3, <2>4, <3>1, <3>2 DEF ProgramInv
  <2> QED
    BY <2>2, <2>5 DEF LifeInv
<1> QED
  BY <1>1, <1>2, <1>3, <1>4, <1>5 DEF Create, Bind

LEMMA ServeInv == ASSUME LifeInv, Serve PROVE LifeInv'
<1>0. CommandLineInv /\ MemoryInv /\ ListenerInv /\ ProgramInv
  BY DEF LifeInv
<1>1. CommandLineInv' /\ MemoryInv' /\ UNCHANGED <<commandLine, memory, stage>>
  BY <1>0, CommandLineUsed, MemoryUsed DEF Serve
<1>2. clients \in Nat /\ capacity \in Nat /\ clients <= capacity /\ unmapped = unmapped'
      /\ buffer = buffer' /\ result' = result /\ capacity' = capacity /\ stage' = stage
  BY <1>0, <1>1, ListenerAssumption, SlotMemoryAssumption
  DEF ProgramInv, ListenerInv, ListenerTypeOK, MemoryInv, MemoryTypeOK, memory, commandLine
<1>3. CASE Connect \/ Release
  <2>1. ListenerInv' /\ phase' = phase /\ clients' <= clients
    BY <1>0, <1>3, PeerInv
  <2>2. clients' \in Nat
    BY <2>1, ListenerAssumption DEF ListenerInv, ListenerTypeOK
  <2>3. ProgramInv'
    BY <1>0, <1>2, <2>1, <2>2 DEF ProgramInv
  <2> QED
    BY <1>1, <2>1, <2>3 DEF LifeInv
<1>4. CASE ServerThread(capacity)
  <2>1. ListenerInv' /\ phase' = phase /\ clients' <= capacity
    BY <1>0, <1>2, <1>4, ServerThreadInv
  <2>2. ProgramInv'
    BY <1>0, <1>2, <2>1 DEF ProgramInv
  <2> QED
    BY <1>1, <2>1, <2>2 DEF LifeInv
<1>5. CASE stage = "panel" /\ (RunBegin \/ StopBegin \/ StopEnd)
  <2>1. ListenerInv' /\ clients' <= clients
    BY <1>0, <1>5, PanelCallInv
  <2>2. clients' \in Nat
    BY <2>1, ListenerAssumption DEF ListenerInv, ListenerTypeOK
  <2>3. ProgramInv'
    BY <1>0, <1>2, <1>5, <2>1, <2>2 DEF ProgramInv
  <2> QED
    BY <1>1, <2>1, <2>3 DEF LifeInv
<1> QED
  BY <1>3, <1>4, <1>5 DEF Serve

(* The destructor takes the slots away when no thread was left running.    *)
LEMMA EndInv == ASSUME LifeInv, PanelEnds \/ Destroy PROVE LifeInv'
<1>0. CommandLineInv /\ MemoryInv /\ ListenerInv /\ ProgramInv
  BY DEF LifeInv
<1>1. CASE PanelEnds
  <2>1. CommandLineInv' /\ MemoryInv' /\ ListenerInv'
    BY <1>0, <1>1, CommandLineUsed, MemoryUsed, ListenerUsed DEF PanelEnds
  <2>2. ProgramInv'
    BY <1>0, <1>1 DEF PanelEnds, ProgramInv, Stages, memory, commandLine, listener
  <2> QED
    BY <2>1, <2>2 DEF LifeInv
<1>2. CASE Destroy
  <2>1. CommandLineInv' /\ MemoryInv'
    BY <1>0, <1>2, CommandLineUsed, MemoryUsed, DestroyInv DEF Destroy
  <2>2. ListenerInv'
    <3>1. lfd' \in {"none", "bound", "listening", "closed"}
      BY <1>0, <1>2 DEF Destroy, ListenerInv, ListenerTypeOK
    <3> QED
      BY <1>0, <1>2, <3>1 DEF Destroy, ListenerInv, ListenerTypeOK, QueueAnnounced
  <2>3. phase \in {"stopped", "running"} /\ clients' = clients /\ phase' = phase
        /\ capacity' = capacity /\ result' = result
    BY <1>0, <1>2
    DEF Destroy, ProgramInv, ListenerInv, ListenerTypeOK, DestroySlots, memory, commandLine
  <2>4. ProgramInv'
    BY <1>0, <1>2, <2>3 DEF Destroy, ProgramInv, Stages, memory
  <2> QED
    BY <2>1, <2>2, <2>4 DEF LifeInv
<1> QED
  BY <1>1, <1>2

LEMMA LifeGoesOn == LifeInv /\ [Next]_vars => LifeInv'
<1> SUFFICES ASSUME LifeInv, [Next]_vars PROVE LifeInv'
  OBVIOUS
<1>1. CASE Next
  BY <1>1, MainInv, StartInv, ServeInv, EndInv DEF Next
<1>2. CASE UNCHANGED vars
  BY <1>2, CommandLineUsed, MemoryUsed, ListenerUsed
  DEF vars, LifeInv, ProgramInv, commandLine, memory, listener
<1> QED
  BY <1>1, <1>2

LEMMA LifeInvariance == Spec => []LifeInv
BY LifeStarts, LifeGoesOn, PTL DEF Spec

(* The program runs with what the last options of its command line say,    *)
(* maps what it unmaps, and its listener owes an event for every queued    *)
(* connection unless the history says how it was lost                      *)
(* (test/main.cpp 40-110, mem.hpp 20-90, pool.hpp 488-510).                *)
THEOREM ServerConsistentHolds == Spec => []Consistent
<1>1. LifeInv => Consistent
  BY UnmapsAll
  DEF LifeInv, CommandLineInv, MemoryInv, ListenerInv, ProgramInv, Consistent, TypeOK,
      CommandLineTypeOK, Settings, Addresses, Stages
<1> QED
  BY <1>1, LifeInvariance, PTL

(* Nodes are written inside the mapping, unless the size of the hint wraps *)
(* (atomic_stack.hpp 60-80, mem.hpp 20-60).                                *)
THEOREM SlotsFitHolds == Spec => []SlotsFit
<1>1. LifeInv => SlotsFit
  BY DEF LifeInv, MemoryInv
<1> QED
  BY <1>1, LifeInvariance, PTL

(* The slots are mapped as long as a thread may use them                   *)
(* (test/echo.cpp 46-104, pool.hpp 72-140).                                *)
THEOREM MemoryOutlivesThreadsHolds == Spec => []MemoryOutlivesThreads
<1>1. LifeInv => MemoryOutlivesThreads
  BY DEF LifeInv, ListenerInv, ListenerTypeOK, ProgramInv, MemoryOutlivesThreads
<1> QED
  BY <1>1, LifeInvariance, PTL

-----------------------------------------------------------------------------
(* The panel.                                                              *)

(* The inductive invariant.  At most one handler is inside                 *)
(* echo_worker::stop, the owner of workLock.  If threadCount_ started at   *)
(* zero, what that handler has done so far limits where the server thread  *)
(* can be.  If not, the server thread never gets past the first test of    *)
(* run(): the counter keeps its value and the pool never runs.             *)

(* Where the stop() in progress is. *)
Stopper == IF workLock = NoThread THEN "none" ELSE pc[workLock]

OneStopper ==
  /\ \A h \in Handlers : h # workLock => pc[h] = "idle"
  /\ Stopper \in {"none", "stop", "close", "stopLock", "stopPool", "idle"}
  /\ workLock # NoThread => work

ServerPlace ==
  /\ pc[Server] \in {"idle", "run", "runPool", "runCount", "wait", "dec", "unlock"}
  /\ pc[Server] # "idle" => work
  /\ work /\ pc[Server] = "idle" => Stopper \in {"stopLock", "stopPool", "idle"}
  /\ pc[Server] \in {"dec", "unlock"} => Stopper = "stopLock"
  /\ Stopper = "close" => pc[Server] = "wait"
  /\ Stopper = "stopLock" => pc[Server] \in {"wait", "dec", "unlock", "idle"}
  /\ Stopper = "stopPool" => pc[Server] = "idle"

CountExact == threadCount = IF pc[Server] \in {"wait", "dec"} THEN 1 ELSE 0

LockOwner ==
  lock = IF pc[Server] \in {"runPool", "runCount", "wait", "dec", "unlock"} THEN Server
         ELSE IF Stopper = "stopPool" THEN workLock ELSE NoThread

PoolServed ==
  pool <=> \/ pc[Server] \in {"runCount", "wait", "dec", "unlock"}
           \/ Stopper \in {"stopLock", "stopPool"}

PipeExact == pipe = IF pc[Server] = "wait" /\ Stopper = "stopLock" THEN 1 ELSE 0

(* The counter started at zero. *)
Listening == ServerPlace /\ CountExact /\ LockOwner /\ PoolServed /\ PipeExact

(* It started at another number.  Only at one does stop() send a message.  *)
Deaf ==
  /\ NeverListens
  /\ pc[Server] = "run" => work
  /\ ~pool
  /\ lock = IF Stopper = "stopPool" THEN workLock ELSE NoThread
  /\ threadCount # 1 => pipe = 0 /\ Stopper \in {"none", "stop", "idle"}

PanelInv ==
  /\ PanelTypeOK
  /\ OneStopper
  /\ Listening \/ Deaf

LEMMA PanelStarts == PanelInit => PanelInv
<1> SUFFICES ASSUME PanelInit PROVE PanelInv
  OBVIOUS
<1> USE ServerAssumption, EchoAssumption
<1>1. PanelTypeOK /\ OneStopper /\ Stopper = "none"
  BY DEF PanelInit, ServerInit, PanelTypeOK, ServerTypeOK, Handlers, OneStopper, Stopper
<1>2. CASE threadCount = 0
  BY <1>1, <1>2
  DEF PanelInit, ServerInit, PanelInv, Listening, ServerPlace, CountExact, LockOwner,
      PoolServed, PipeExact
<1>3. CASE threadCount # 0
  BY <1>1, <1>3 DEF PanelInit, ServerInit, PanelInv, Deaf, NeverListens
<1> QED
  BY <1>2, <1>3

(* What the handlers and the server thread have to do with each other. *)
LEMMA PanelThreads ==
  /\ Server \in Threads /\ Server \notin Handlers
  /\ Handlers \subseteq Threads /\ NoThread \notin Threads
  BY ServerAssumption, EchoAssumption DEF Handlers

(* A step of the server thread leaves the handlers where they are. *)
LEMMA ServerRunsInv == PanelInv /\ ServerRuns => PanelInv'
<1> SUFFICES ASSUME PanelInv, ServerRuns PROVE PanelInv'
  OBVIOUS
<1> USE PanelThreads
<1> USE DEF PanelInv, PanelTypeOK, ServerTypeOK, OneStopper, Listening, ServerPlace,
            CountExact, LockOwner, PoolServed, PipeExact, Deaf, NeverListens, Goto
<1>1. /\ workLock' = workLock /\ work' = work
      /\ \A h \in Handlers : pc'[h] = pc[h]
      /\ Stopper' = Stopper
  BY DEF ServerRuns, Run, RunLock, RunPool, RunCount, ControlEvent, CountOut,
         RunUnlock, Stopper
<1>2. CASE RunLock(Server)
  BY <1>1, <1>2 DEF RunLock
<1>3. CASE RunPool(Server)
  BY <1>1, <1>3 DEF RunPool
<1>4. CASE RunCount(Server)
  BY <1>1, <1>4 DEF RunCount
<1>5. CASE ControlEvent(Server)
  BY <1>1, <1>5 DEF ControlEvent
<1>6. CASE CountOut(Server)
  BY <1>1, <1>6 DEF CountOut
<1>7. CASE RunUnlock(Server)
  BY <1>1, <1>7 DEF RunUnlock
<1> QED
  BY <1>2, <1>3, <1>4, <1>5, <1>6, <1>7 DEF ServerRuns, Run

(* A handler that is inside server_pool::stop is the one that holds        *)
(* workLock.                                                               *)
LEMMA StoppingInv ==
  ASSUME PanelInv, NEW h \in Handlers, Stop(h), UNCHANGED <<workLock, work>>
  PROVE  PanelInv'
<1> USE PanelThreads
<1> USE DEF PanelInv, PanelTypeOK, ServerTypeOK, OneStopper, Listening, ServerPlace,
            CountExact, LockOwner, PoolServed, PipeExact, Deaf, NeverListens, Goto
<1>1. /\ workLock = h /\ h # Server /\ h # NoThread
      /\ Stopper = pc[h] /\ Stopper' = pc'[h]
      /\ pc'[Server] = pc[Server]
      /\ \A g \in Handlers : g # h => pc'[g] = pc[g]
  BY DEF Stop, StopLoad, StopClose, StopLock, StopPool, Stopper
<1>2. CASE StopLoad(h)
  BY <1>1, <1>2 DEF StopLoad
<1>3. CASE StopClose(h)
  BY <1>1, <1>3 DEF StopClose
<1>4. CASE StopLock(h)
  BY <1>1, <1>4 DEF StopLock
<1>5. CASE StopPool(h)
  BY <1>1, <1>5 DEF StopPool
<1> QED
  BY <1>2, <1>3, <1>4, <1>5 DEF Stop

(* The inductive step: one case per action. *)
LEMMA PanelGoesOn == PanelInv /\ [PanelNext]_panelVars => PanelInv'
<1> SUFFICES ASSUME PanelInv, [PanelNext]_panelVars PROVE PanelInv'
  OBVIOUS
<1> USE PanelThreads
<1>1. CASE ServerRuns
  BY <1>1, ServerRunsInv
<1>2. CASE HandleStart
  BY <1>2
  DEF HandleStart, PanelInv, PanelTypeOK, ServerTypeOK, OneStopper, Listening, ServerPlace,
      CountExact, LockOwner, PoolServed, PipeExact, Deaf, NeverListens, Goto, Stopper
<1>3. ASSUME NEW h \in Handlers, HandleStop(h) PROVE PanelInv'
  BY <1>3
  DEF HandleStop, PanelInv, PanelTypeOK, ServerTypeOK, OneStopper, Listening, ServerPlace,
      CountExact, LockOwner, PoolServed, PipeExact, Deaf, NeverListens, Goto, Stopper
<1>4. ASSUME NEW h \in Handlers, Stopping(h) PROVE PanelInv'
  <2>1. CASE Stop(h) /\ UNCHANGED <<workLock, work>>
    BY <2>1, StoppingInv
  <2>2. CASE JoinServer(h)
    BY <2>2
    DEF JoinServer, serverVars, PanelInv, PanelTypeOK, ServerTypeOK, OneStopper, Listening,
        ServerPlace, CountExact, LockOwner, PoolServed, PipeExact, Deaf, NeverListens, Stopper
  <2> QED
    BY <1>4, <2>1, <2>2 DEF Stopping
<1>5. CASE UNCHANGED panelVars
  BY <1>5
  DEF panelVars, serverVars, PanelInv, PanelTypeOK, ServerTypeOK, OneStopper, Listening,
      ServerPlace, CountExact, LockOwner, PoolServed, PipeExact, Deaf, NeverListens, Stopper
<1> QED
  BY <1>1, <1>2, <1>3, <1>4, <1>5 DEF PanelNext

LEMMA PanelInvariance == PanelSpec => []PanelInv
  BY PanelStarts, PanelGoesOn, PTL DEF PanelSpec

-----------------------------------------------------------------------------

(* Every variable keeps its type; the unsigned counter never passes zero. *)
THEOREM PanelTypes == PanelSpec => []PanelTypeOK
<1>1. PanelSpec => []PanelInv
  BY PanelInvariance
<1>2. PanelInv => PanelTypeOK
  BY DEF PanelInv
<1> QED
  BY <1>1, <1>2, PTL

(* The workers of the pool run while the server listens and, after that,   *)
(* only until the stop() in progress has stopped them.                     *)
THEOREM PoolFollowsServer == PanelSpec => []PoolWithServer
<1>1. PanelSpec => []PanelInv
  BY PanelInvariance
<1>2. PanelInv => PoolWithServer
  <2> SUFFICES ASSUME PanelInv PROVE PoolWithServer
    OBVIOUS
  <2>1. Stopper \in {"stopLock", "stopPool"}
          <=> \E h \in Handlers : pc[h] \in {"stopLock", "stopPool"}
    BY PanelThreads DEF PanelInv, PanelTypeOK, OneStopper, Stopper
  <2>2. CASE Listening
    BY <2>1, <2>2 DEF Listening, ServerPlace, CountExact, PoolServed, PoolWithServer
  <2>3. CASE Deaf
    BY <2>3 DEF Deaf, NeverListens, PoolWithServer
  <2> QED
    BY <2>2, <2>3 DEF PanelInv
<1> QED
  BY <1>1, <1>2, PTL

(* The pool of the echo server runs when the state of its panel says so. *)
THEOREM PanelConsistentHolds == PanelSpec => []PanelConsistent
BY PanelTypes, PoolFollowsServer, PTL DEF PanelConsistent

(* Every exit message finds the server thread listening, and none is left  *)
(* for the next one, but for those to a server that never listens.         *)
THEOREM MessagesRead == PanelSpec => []MessageHasReader
<1>1. PanelSpec => []PanelInv
  BY PanelInvariance
<1>2. PanelInv => MessageHasReader
  <2> SUFFICES ASSUME PanelInv PROVE MessageHasReader
    OBVIOUS
  <2>1. Stopper = "stopLock" <=> \E h \in Handlers : pc[h] = "stopLock"
    BY PanelThreads DEF PanelInv, PanelTypeOK, OneStopper, Stopper
  <2>2. CASE Listening
    BY <2>1, <2>2 DEF Listening, PipeExact, MessageHasReader
  <2>3. CASE Deaf
    BY <2>3 DEF Deaf, NeverListens, MessageHasReader
  <2> QED
    BY <2>2, <2>3 DEF PanelInv
<1> QED
  BY <1>1, <1>2, PTL

-----------------------------------------------------------------------------
(* The refinement. *)

GroupAlive == IF pc[Server] = "idle" THEN {} ELSE {Server}

GroupState == IF ~work THEN "stopped"
              ELSE IF workLock = NoThread THEN "running" ELSE "stopping"

(* The server thread leaves only while a stop waits for it, or breaks off  *)
(* where its counter did not start at zero.                                *)
LEMMA ServerGroupStep ==
  PanelInv /\ ServerRuns => TG!Next \/ UNCHANGED TG!tgVars
<1> SUFFICES ASSUME PanelInv, ServerRuns PROVE TG!Next \/ UNCHANGED TG!tgVars
  OBVIOUS
<1>1. GroupState' = GroupState
  BY DEF ServerRuns, GroupState
<1>2. CASE RunUnlock(Server)
  <2>1. GroupState = "stopping" /\ GroupAlive = {Server} /\ GroupAlive' = {}
    BY <1>2, PanelThreads
    DEF RunUnlock, PanelInv, PanelTypeOK, ServerTypeOK, Listening, ServerPlace, Deaf,
        NeverListens, OneStopper, Stopper, Goto, GroupState, GroupAlive
  <2>2. turnedAway' = turnedAway
    BY <1>2 DEF RunUnlock
  <2>3. TG!Exit(Server)
    BY <1>1, <2>1, <2>2 DEF TG!Exit, GroupAlive, GroupState
  <2> QED
    BY <2>3 DEF TG!Next
<1>3. CASE RunLock(Server)
  <2>1. CASE threadCount = 0
    <3>1. GroupAlive' = GroupAlive /\ turnedAway' = turnedAway
      BY <1>3, <2>1, PanelThreads
      DEF RunLock, PanelInv, PanelTypeOK, ServerTypeOK, Goto, GroupAlive
    <3> QED
      BY <1>1, <3>1 DEF TG!tgVars, GroupAlive, GroupState
  <2>2. CASE threadCount # 0
    <3>1. GroupAlive = {Server} /\ GroupAlive' = {} /\ turnedAway'
      BY <1>3, <2>2, PanelThreads
      DEF RunLock, PanelInv, PanelTypeOK, ServerTypeOK, Goto, GroupAlive
    <3>2. turnedAway' = TRUE
      BY <1>3, <2>2 DEF RunLock
    <3>3. TG!BreakOff(Server)
      BY <1>1, <3>1, <3>2 DEF TG!BreakOff, GroupAlive, GroupState
    <3> QED
      BY <3>3 DEF TG!Next
  <2> QED
    BY <2>1, <2>2
<1>4. CASE ~RunUnlock(Server) /\ ~RunLock(Server)
  <2>1. GroupAlive' = GroupAlive /\ turnedAway' = turnedAway
    BY <1>4, PanelThreads
    DEF ServerRuns, Run, RunPool, RunCount, ControlEvent, CountOut, PanelInv, PanelTypeOK,
        ServerTypeOK, Goto, GroupAlive
  <2> QED
    BY <1>1, <2>1 DEF TG!tgVars, GroupAlive, GroupState
<1> QED
  BY <1>2, <1>3, <1>4

(* Every step maps to a step of the thread group or to a stutter. *)
LEMMA GroupStep == PanelInv /\ [PanelNext]_panelVars => [TG!Next]_(TG!tgVars)
<1> SUFFICES ASSUME PanelInv, [PanelNext]_panelVars PROVE TG!Next \/ UNCHANGED TG!tgVars
  OBVIOUS
<1> USE PanelThreads
<1>1. CASE ServerRuns
  BY <1>1, ServerGroupStep
<1>2. CASE HandleStart
  <2>1. /\ GroupState = "stopped" /\ GroupState' = "running" /\ GroupAlive' = {Server}
        /\ turnedAway' = turnedAway
    BY <1>2 DEF HandleStart, PanelInv, PanelTypeOK, ServerTypeOK, Goto, GroupState, GroupAlive
  <2>2. TG!Start
    BY <2>1 DEF TG!Start, GroupState, GroupAlive
  <2> QED
    BY <2>2 DEF TG!Next
<1>3. ASSUME NEW h \in Handlers, HandleStop(h) PROVE TG!Next
  <2>1. /\ GroupState = "running" /\ GroupState' = "stopping"
        /\ GroupAlive' = GroupAlive /\ turnedAway' = turnedAway
    BY <1>3 DEF HandleStop, PanelInv, PanelTypeOK, ServerTypeOK, Goto, GroupState, GroupAlive
  <2>2. TG!RequestStop
    BY <2>1 DEF TG!RequestStop, GroupState, GroupAlive
  <2> QED
    BY <2>2 DEF TG!Next
<1>4. ASSUME NEW h \in Handlers, Stop(h), UNCHANGED <<workLock, work>>
      PROVE  UNCHANGED TG!tgVars
  <2>1. pc'[Server] = pc[Server] /\ turnedAway' = turnedAway
    BY <1>4
    DEF Stop, StopLoad, StopClose, StopLock, StopPool, PanelInv, PanelTypeOK, ServerTypeOK, Goto
  <2> QED
    BY <1>4, <2>1 DEF TG!tgVars
<1>5. ASSUME NEW h \in Handlers, JoinServer(h) PROVE TG!Next
  <2>1. /\ GroupState = "stopping" /\ GroupAlive = {}
        /\ GroupState' = "stopped" /\ GroupAlive' = GroupAlive /\ turnedAway' = turnedAway
    BY <1>5 DEF JoinServer, serverVars, PanelInv, OneStopper, GroupState, GroupAlive
  <2>2. TG!Stopped
    BY <2>1 DEF TG!Stopped, GroupState, GroupAlive
  <2> QED
    BY <2>2 DEF TG!Next
<1>6. CASE UNCHANGED panelVars
  BY <1>6 DEF panelVars, serverVars, TG!tgVars
<1> QED
  BY <1>1, <1>2, <1>3, <1>4, <1>5, <1>6 DEF PanelNext, Stopping

(* The control panel sees a group of one thread: the server never leaves   *)
(* on its own, and a stop that is answered has seen it leave.              *)
THEOREM PanelImplementsThreadGroup == PanelSpec => ImplementsThreadGroup
<1>1. PanelInit => TG!Init
  BY EchoAssumption DEF PanelInit, ServerInit, TG!Init
<1>2. PanelSpec => []PanelInv
  BY PanelInvariance
<1> QED
  BY <1>1, <1>2, GroupStep, PTL DEF PanelSpec, ImplementsThreadGroup, TG!Spec
=============================================================================
