--------------------------- MODULE HttpFormProofs ---------------------------
(***************************************************************************)
(* Proofs about HttpForm: what the readers of header lines and of forms    *)
(* keep true, for any form, cut into any reads, and what comes of it.      *)
(*                                                                         *)
(* What is behind a reader and what is ahead of it always make the text of *)
(* the form: the invariants say so, line by line for the headers and file  *)
(* by file for the content, and each step is shown to move a piece of the  *)
(* text from one side to the other.                                        *)
(***************************************************************************)
EXTENDS HttpForm, SequenceTheorems, WellFoundedInduction, TLAPS

-----------------------------------------------------------------------------
(***************************************************************************)
(* Texts.                                                                  *)

(* What is left of a text without its first n elements.                    *)
Drop(s, n) == SubSeq(s, n + 1, Len(s))

LEMMA DropIs ==
  ASSUME NEW S, NEW s \in Seq(S), NEW n \in 0 .. Len(s)
  PROVE  /\ Drop(s, n) \in Seq(S) /\ Len(Drop(s, n)) = Len(s) - n
         /\ \A i \in 1 .. Len(s) - n : Drop(s, n)[i] = s[n + i]
BY DEF Drop

LEMMA ConcatIs ==
  ASSUME NEW S, NEW s \in Seq(S), NEW t \in Seq(S)
  PROVE  /\ s \o t \in Seq(S) /\ Len(s \o t) = Len(s) + Len(t)
         /\ \A i \in 1 .. Len(s) : (s \o t)[i] = s[i]
         /\ \A i \in 1 .. Len(t) : (s \o t)[Len(s) + i] = t[i]
<1>1. Len(s) \in Nat /\ Len(t) \in Nat
  OBVIOUS
<1>2. s \o t \in Seq(S) /\ Len(s \o t) = Len(s) + Len(t)
  OBVIOUS
<1>3. \A i \in 1 .. Len(s) : (s \o t)[i] = s[i]
  OBVIOUS
<1>4. ASSUME NEW i \in 1 .. Len(t) PROVE (s \o t)[Len(s) + i] = t[i]
  <2>1. Len(s) + i \in 1 .. Len(s) + Len(t) /\ ~(Len(s) + i <= Len(s)) /\ (Len(s) + i) - Len(s) = i
    BY <1>1
  <2> QED
    BY <2>1, ConcatProperties
<1> QED
  BY <1>2, <1>3, <1>4

LEMMA DropConcat ==
  ASSUME NEW S, NEW s \in Seq(S), NEW t \in Seq(S), NEW n \in 0 .. Len(s)
  PROVE  Drop(s \o t, n) = Drop(s, n) \o t
<1>1. PICK k \in Nat, l \in Nat : k = Len(s) /\ l = Len(t)
  OBVIOUS
<1>2. /\ s \o t \in Seq(S) /\ Len(s \o t) = k + l
      /\ \A i \in 1 .. k : (s \o t)[i] = s[i]
      /\ \A i \in 1 .. l : (s \o t)[k + i] = t[i]
  BY <1>1, ConcatIs
<1>3. PICK st : st = s \o t
  OBVIOUS
<1>4. n \in 0 .. k /\ n \in 0 .. Len(st) /\ n \in Nat /\ k - n \in Nat
  BY <1>1, <1>2, <1>3
<1>5. PICK d : d = Drop(st, n)
  OBVIOUS
<1>6. d \in Seq(S) /\ Len(d) = (k + l) - n /\ \A i \in 1 .. (k + l) - n : d[i] = st[n + i]
  <2>1. st \in Seq(S) /\ Len(st) = k + l
    BY <1>2, <1>3
  <2>2. d \in Seq(S) /\ Len(d) = Len(st) - n /\ \A i \in 1 .. Len(st) - n : d[i] = st[n + i]
    BY <1>4, <1>5, <2>1, DropIs
  <2> QED
    BY <2>1, <2>2
<1>7. PICK e : e = Drop(s, n)
  OBVIOUS
<1>8. e \in Seq(S) /\ Len(e) = k - n /\ \A i \in 1 .. k - n : e[i] = s[n + i]
  BY <1>1, <1>4, <1>7, DropIs
<1>9. PICK et : et = e \o t
  OBVIOUS
<1>10. /\ et \in Seq(S) /\ Len(et) = (k - n) + l
       /\ \A i \in 1 .. k - n : et[i] = e[i]
       /\ \A i \in 1 .. l : et[(k - n) + i] = t[i]
  <2>0. e \in Seq(S)
    BY <1>8
  <2>1. /\ e \o t \in Seq(S) /\ Len(e \o t) = Len(e) + Len(t)
        /\ \A i \in 1 .. Len(e) : (e \o t)[i] = e[i]
        /\ \A i \in 1 .. Len(t) : (e \o t)[Len(e) + i] = t[i]
    BY <2>0, ConcatIs
  <2>2. Len(e) = k - n /\ Len(t) = l
    BY <1>1, <1>8
  <2> QED
    BY <1>9, <2>1, <2>2
<1>11. ASSUME NEW i \in 1 .. (k + l) - n PROVE d[i] = et[i]
  <2>1. CASE i <= k - n
    <3>1. i \in 1 .. k - n /\ n + i \in 1 .. k
      BY <1>4, <2>1
    <3> QED
      BY <3>1, <1>2, <1>3, <1>6, <1>8, <1>10
  <2>2. CASE i > k - n
    <3>1. PICK j : j = i - (k - n)
      OBVIOUS
    <3>2. j \in 1 .. l /\ n + i = k + j /\ i = (k - n) + j
      BY <1>4, <2>2, <3>1
    <3> QED
      BY <3>2, <1>2, <1>3, <1>6, <1>10
  <2> QED
    BY <1>4, <2>1, <2>2
<1>12. d = et
  <2>1. Len(d) = (k + l) - n /\ Len(et) = (k + l) - n
    BY <1>4, <1>6, <1>10
  <2>2. \A i \in 1 .. Len(d) : d[i] = et[i]
    BY <1>11, <2>1
  <2> QED
    BY <1>6, <1>10, <2>1, <2>2, SeqEqual
<1> QED
  BY <1>3, <1>5, <1>7, <1>9, <1>12

LEMMA DropFirst ==
  ASSUME NEW S, NEW s \in Seq(S), NEW t \in Seq(S)
  PROVE  Drop(s \o t, Len(s)) = t
<1>1. Drop(s \o t, Len(s)) = Drop(s, Len(s)) \o t
  BY DropConcat
<1>2. Drop(s, Len(s)) = <<>>
  BY DEF Drop
<1> QED
  BY <1>1, <1>2

LEMMA DropNone == ASSUME NEW S, NEW s \in Seq(S) PROVE Drop(s, 0) = s
BY DEF Drop

(* A text occurs in another behind its first i elements.                   *)
At(t, s, i) == i + Len(t) <= Len(s) /\ \A k \in 1 .. Len(t) : s[i + k] = t[k]

FirstAt(t, s, p) == At(t, s, p) /\ \A i \in 0 .. p - 1 : ~At(t, s, i)

LEMMA PrefixIs ==
  ASSUME NEW S, NEW s \in Seq(S), NEW t \in Seq(S), NEW i \in 0 .. Len(s)
  PROVE  IsPrefix(t, Drop(s, i)) <=> At(t, s, i)
<1>1. PICK m \in Nat, n \in Nat : m = Len(t) /\ n = Len(s)
  OBVIOUS
<1>2. PICK d : d = Drop(s, i)
  OBVIOUS
<1>3. d \in Seq(S) /\ Len(d) = n - i /\ \A k \in 1 .. n - i : d[k] = s[i + k]
  BY <1>1, <1>2, DropIs
<1>4. SubSeq(t, 1, m) = t
  BY <1>1, SubSeqFull
<1>5. CASE m <= n - i
  <2>1. PICK e : e = SubSeq(d, 1, m)
    OBVIOUS
  <2>2. e \in Seq(S) /\ Len(e) = m /\ \A k \in 1 .. m : e[k] = d[k]
    <3>1. \A k \in 1 .. m : d[k] \in S
      BY <1>3, <1>5, ElementOfSeq
    <3> QED
      BY <1>5, <2>1, <3>1, SubSeqProperties
  <2>3. t = e <=> \A k \in 1 .. m : e[k] = t[k]
    BY <1>1, <2>2, SeqEqual
  <2>4. \A k \in 1 .. m : e[k] = s[i + k]
    <3>1. \A k \in 1 .. m : k \in 1 .. n - i
      BY <1>1, <1>5
    <3> QED
      BY <1>3, <2>2, <3>1
  <2>5. At(t, s, i) <=> t = e
    BY <1>1, <1>5, <2>3, <2>4 DEF At
  <2>6. IsPrefix(t, d) <=> m <= n - i /\ SubSeq(t, 1, m) = SubSeq(d, 1, m)
    BY <1>1, <1>3 DEF IsPrefix
  <2> QED
    BY <1>2, <1>4, <1>5, <2>1, <2>5, <2>6
<1>6. CASE ~(m <= n - i)
  BY <1>1, <1>2, <1>3, <1>6 DEF IsPrefix, At
<1> QED
  BY <1>5, <1>6

(* What the parser finds is the first place of a text, if it has come that *)
(* far.                                                                    *)
LEMMA FindIs ==
  ASSUME NEW S, buf \in Seq(S), unread \in Seq(S), NEW t \in Seq(S), Len(t) > 0, NEW p \in Nat,
         FirstAt(t, buf \o unread, p)
  PROVE  Find(t) = IF p + Len(t) <= Len(buf) THEN p ELSE Len(buf)
<1>1. PICK m \in Nat, n \in Nat, l \in Nat : m = Len(buf) /\ n = Len(unread) /\ l = Len(t)
  OBVIOUS
<1>2. PICK a : a = buf \o unread
  OBVIOUS
<1>3. Len(a) = m + n /\ \A i \in 1 .. m : a[i] = buf[i]
  BY <1>1, <1>2, ConcatIs
<1>4. ASSUME NEW i \in Nat, i + l <= m PROVE At(t, buf, i) <=> At(t, a, i)
  <2>1. \A k \in 1 .. l : i + k \in 1 .. m
    BY <1>4
  <2> QED
    BY <1>1, <1>3, <1>4, <2>1 DEF At
<1>5. PICK at : at = {i \in 0 .. Len(buf) - Len(t) : IsPrefix(t, Erased(i))}
  OBVIOUS
<1>6. at = {i \in 0 .. m - l : At(t, a, i)}
  <2>1. ASSUME NEW i \in 0 .. m - l PROVE IsPrefix(t, Erased(i)) <=> At(t, a, i)
    <3>1. i \in Nat /\ i + l <= m /\ i \in 0 .. Len(buf)
      BY <1>1
    <3>2. IsPrefix(t, Erased(i)) <=> At(t, buf, i)
      BY <3>1, PrefixIs DEF Erased, Drop
    <3> QED
      BY <3>1, <3>2, <1>4
  <2> QED
    BY <1>1, <1>5, <2>1
<1>7. At(t, a, p) /\ \A i \in 0 .. p - 1 : ~At(t, a, i)
  BY <1>2 DEF FirstAt
<1>8. CASE p + l <= m
  <2>1. p \in at
    BY <1>6, <1>7, <1>8
  <2>2. \A i \in at : i \in Int /\ p <= i
    BY <1>6, <1>7
  <2>3. Min(at) = p
    <3>1. \E x \in at : \A y \in at : x <= y
      BY <2>1, <2>2
    <3>2. Min(at) \in at /\ \A y \in at : Min(at) <= y
      BY <3>1 DEF Min
    <3>3. PICK q : q = Min(at)
      OBVIOUS
    <3>4. q \in Int /\ p <= q /\ q <= p
      BY <2>1, <2>2, <3>2, <3>3
    <3> QED
      BY <3>3, <3>4
  <2>4. Find(t) = p
    BY <1>5, <2>1, <2>3 DEF Find
  <2> QED
    BY <1>1, <1>8, <2>4
<1>9. CASE ~(p + l <= m)
  <2>1. at = {}
    <3> SUFFICES ASSUME NEW i \in at PROVE FALSE
      OBVIOUS
    <3>1. i \in 0 .. m - l /\ At(t, a, i)
      BY <1>6
    <3>2. i \in 0 .. p - 1
      BY <1>9, <3>1
    <3> QED
      BY <1>7, <3>1, <3>2
  <2>2. Find(t) = Len(buf)
    BY <1>5, <2>1 DEF Find
  <2> QED
    BY <1>1, <1>9, <2>2
<1> QED
  BY <1>8, <1>9

-----------------------------------------------------------------------------
(***************************************************************************)
(* The marks in a text of files, and where they occur.                     *)

LEMMA Marks ==
  /\ Crlf \in Seq(Chars) /\ Len(Crlf) = 2 /\ Crlf[1] = "cr" /\ Crlf[2] = "lf"
  /\ DashCrlf \in Seq(Chars) /\ Len(DashCrlf) = 4
  /\ DashCrlf[1] = "-" /\ DashCrlf[2] = "-" /\ DashCrlf[3] = "cr" /\ DashCrlf[4] = "lf"
  /\ CrlfDashBoundary \in Seq(Chars) /\ Len(CrlfDashBoundary) = 5
  /\ CrlfDashBoundary[1] = "cr" /\ CrlfDashBoundary[2] = "lf" /\ CrlfDashBoundary[3] = "-"
  /\ CrlfDashBoundary[4] = "-" /\ CrlfDashBoundary[5] = "B"
  /\ DashBoundaryCrlf \in Seq(Chars) /\ Len(DashBoundaryCrlf) = 5
  /\ DashBoundaryCrlf[1] = "-" /\ DashBoundaryCrlf[2] = "-" /\ DashBoundaryCrlf[3] = "B"
  /\ DashBoundaryCrlf[4] = "cr" /\ DashBoundaryCrlf[5] = "lf"
BY DEF Crlf, DashCrlf, CrlfDashBoundary, DashBoundaryCrlf, Chars

LEMMA OccursAt ==
  ASSUME NEW S, NEW s \in Seq(S), NEW t \in Seq(S)
  PROVE  Occurs(t, s) <=> \E i \in 0 .. Len(s) : At(t, s, i)
BY PrefixIs DEF Occurs, Drop

(* A text that occurs in no end of another does not occur in it.           *)
LEMMA OccursLater ==
  ASSUME NEW S, NEW s \in Seq(S), NEW t \in Seq(S), NEW n \in 0 .. Len(s), ~Occurs(t, s)
  PROVE  ~Occurs(t, Drop(s, n))
<1>1. PICK d : d = Drop(s, n)
  OBVIOUS
<1>2. d \in Seq(S) /\ Len(d) = Len(s) - n /\ \A i \in 1 .. Len(s) - n : d[i] = s[n + i]
  BY <1>1, DropIs
<1>3. SUFFICES ASSUME NEW i \in 0 .. Len(d), At(t, d, i) PROVE FALSE
  BY <1>1, <1>2, OccursAt
<1>4. At(t, s, n + i)
  <2>1. i + Len(t) <= Len(s) - n /\ \A k \in 1 .. Len(t) : d[i + k] = t[k]
    BY <1>2, <1>3 DEF At
  <2>2. \A k \in 1 .. Len(t) : i + k \in 1 .. Len(s) - n /\ n + (i + k) = (n + i) + k
    BY <1>2, <2>1
  <2>3. \A k \in 1 .. Len(t) : s[(n + i) + k] = t[k]
    BY <1>2, <2>1, <2>2
  <2> QED
    BY <1>2, <2>1, <2>3 DEF At
<1>5. n + i \in 0 .. Len(s)
  BY <1>2
<1> QED
  BY <1>4, <1>5, OccursAt

(* Where two texts are put together, and whether a third occurs there.     *)
LEMMA AtConcat ==
  ASSUME NEW S, NEW s \in Seq(S), NEW u \in Seq(S), NEW t \in Seq(S), NEW i \in Nat,
         At(t, s \o u, i)
  PROVE  /\ i + Len(t) <= Len(s) => At(t, s, i)
         /\ \A k \in 1 .. Len(t) : i + k <= Len(s) => s[i + k] = t[k]
         /\ \A k \in 1 .. Len(t) : i + k > Len(s) => u[(i + k) - Len(s)] = t[k]
<1>1. PICK m \in Nat, n \in Nat, l \in Nat : m = Len(s) /\ n = Len(u) /\ l = Len(t)
  OBVIOUS
<1>2. PICK a : a = s \o u
  OBVIOUS
<1>3. /\ Len(a) = m + n
      /\ \A j \in 1 .. m : a[j] = s[j]
      /\ \A j \in 1 .. n : a[m + j] = u[j]
  BY <1>1, <1>2, ConcatIs
<1>4. i + l <= m + n /\ \A k \in 1 .. l : a[i + k] = t[k]
  BY <1>1, <1>2, <1>3 DEF At
<1>5. ASSUME NEW k \in 1 .. l, i + k <= m PROVE s[i + k] = t[k]
  <2>1. i + k \in 1 .. m
    BY <1>5
  <2> QED
    BY <1>3, <1>4, <2>1
<1>6. ASSUME NEW k \in 1 .. l, i + k > m PROVE u[(i + k) - m] = t[k]
  <2>1. PICK j : j = (i + k) - m
    OBVIOUS
  <2>2. j \in 1 .. n /\ m + j = i + k
    BY <1>4, <1>6, <2>1
  <2> QED
    BY <1>3, <1>4, <2>1, <2>2
<1>7. i + l <= m => At(t, s, i)
  <2> SUFFICES ASSUME i + l <= m PROVE At(t, s, i)
    OBVIOUS
  <2>1. \A k \in 1 .. l : i + k <= m
    OBVIOUS
  <2> QED
    BY <1>1, <1>5, <2>1 DEF At
<1> QED
  BY <1>1, <1>5, <1>6, <1>7

LEMMA AtSecond ==
  ASSUME NEW S, NEW s \in Seq(S), NEW t \in Seq(S), NEW x \in Seq(S)
  PROVE  At(t, s \o (t \o x), Len(s)) /\ \A k \in 1 .. Len(t) : (t \o x)[k] = t[k]
<1>1. PICK m \in Nat, l \in Nat, n \in Nat : m = Len(s) /\ l = Len(t) /\ n = Len(x)
  OBVIOUS
<1>2. PICK u : u = t \o x
  OBVIOUS
<1>3. u \in Seq(S) /\ Len(u) = l + n /\ \A k \in 1 .. l : u[k] = t[k]
  BY <1>1, <1>2, ConcatIs
<1>4. /\ Len(s \o u) = m + (l + n)
      /\ \A k \in 1 .. l + n : (s \o u)[m + k] = u[k]
  <2>1. /\ Len(s \o u) = Len(s) + Len(u)
        /\ \A k \in 1 .. Len(u) : (s \o u)[Len(s) + k] = u[k]
    <3>1. u \in Seq(S)
      BY <1>3
    <3> QED
      BY <3>1, ConcatIs
  <2> QED
    BY <1>1, <1>3, <2>1
<1>5. At(t, s \o u, m)
  <2>1. \A k \in 1 .. l : k \in 1 .. l + n
    OBVIOUS
  <2> QED
    BY <1>1, <1>3, <1>4, <2>1 DEF At
<1> QED
  BY <1>1, <1>2, <1>3, <1>5

(* A line ends with the first CRLF.                                        *)
LEMMA LineFirst ==
  ASSUME NEW line \in Seq(Chars), \A i \in 1 .. Len(line) : line[i] # "cr", NEW x \in Seq(Chars)
  PROVE  FirstAt(Crlf, line \o (Crlf \o x), Len(line))
<1>1. At(Crlf, line \o (Crlf \o x), Len(line))
  BY AtSecond, Marks
<1>2. PICK u : u = Crlf \o x
  OBVIOUS
<1>3. u \in Seq(Chars)
  BY <1>2, Marks
<1>4. ASSUME NEW i \in 0 .. Len(line) - 1, At(Crlf, line \o u, i) PROVE FALSE
  <2>1. i + 1 <= Len(line) => line[i + 1] = "cr"
    BY <1>3, <1>4, AtConcat, Marks
  <2> QED
    BY <2>1
<1> QED
  BY <1>1, <1>2, <1>4 DEF FirstAt

(* A text without a boundary has none before the one that follows it.      *)
LEMMA BoundaryFirst ==
  ASSUME NEW c \in Seq(Chars), NEW x \in Seq(Chars), NEW t \in Seq(Chars),
         t = CrlfDashBoundary \/ t = DashBoundaryCrlf, ~Occurs(t, c)
  PROVE  FirstAt(t, c \o (t \o x), Len(c))
<1>1. Len(t) = 5
  BY Marks
<1>2. At(t, c \o (t \o x), Len(c)) /\ \A k \in 1 .. 5 : (t \o x)[k] = t[k]
  <2>1. At(t, c \o (t \o x), Len(c)) /\ \A k \in 1 .. Len(t) : (t \o x)[k] = t[k]
    BY AtSecond
  <2> QED
    BY <1>1, <2>1
<1>3. PICK u : u = t \o x
  OBVIOUS
<1>4. /\ u \in Seq(Chars)
      /\ \A k \in 1 .. 5 : u[k] = t[k]
  <2>1. t \o x \in Seq(Chars)
    OBVIOUS
  <2> QED
    BY <1>2, <1>3, <2>1
<1>5. PICK m \in Nat : m = Len(c)
  OBVIOUS
<1>6. ASSUME NEW i \in 0 .. m - 1, At(t, c \o u, i) PROVE FALSE
  <2>1. /\ i + 5 <= m => At(t, c, i)
        /\ \A k \in 1 .. 5 : i + k > m => u[(i + k) - m] = t[k]
    <3>1. u \in Seq(Chars) /\ i \in Nat /\ At(t, c \o u, i)
      BY <1>4, <1>6
    <3>2. /\ i + Len(t) <= Len(c) => At(t, c, i)
          /\ \A k \in 1 .. Len(t) : i + k > Len(c) => u[(i + k) - Len(c)] = t[k]
      BY <3>1, AtConcat
    <3> QED
      BY <1>1, <1>5, <3>2
  <2>2. i + 5 > m
    BY <1>1, <1>5, <2>1, OccursAt
  <2>3. PICK d \in 1 .. 4 : m = i + d
    <3>1. m - i \in 1 .. 4 /\ m = i + (m - i)
      BY <2>2
    <3> QED
      BY <3>1
  <2>4. \A k \in 1 .. 5 : k > d => u[k - d] = t[k]
    BY <2>1, <2>3
  <2>5. \A k \in 1 .. 5 : k > d => t[k - d] = t[k]
    <3>1. \A k \in 1 .. 5 : k > d => k - d \in 1 .. 5
      OBVIOUS
    <3> QED
      BY <1>4, <2>4, <3>1
  <2>6. d = 1 \/ d = 2 \/ d = 3 \/ d = 4
    BY <2>3
  <2>7. /\ d = 1 => t[1] = t[2] /\ t[2] = t[3]
        /\ d = 2 => t[1] = t[3]
        /\ d = 3 => t[1] = t[4]
        /\ d = 4 => t[1] = t[5]
    <3>1. CASE d = 1
      BY <3>1, <2>5
    <3>2. CASE d = 2
      BY <3>2, <2>5
    <3>3. CASE d = 3
      BY <3>3, <2>5
    <3>4. CASE d = 4
      BY <3>4, <2>5
    <3> QED
      BY <2>6, <3>1, <3>2, <3>3, <3>4
  <2> QED
    BY <2>6, <2>7, Marks
<1> QED
  BY <1>2, <1>3, <1>5, <1>6 DEF FirstAt

(* Induction, as a statement about sets of numbers.                        *)
LEMMA LeastNumber ==
  ASSUME NEW T, T \subseteq Nat, T # {}
  PROVE  \E n \in T : \A m \in T : n <= m
<1>1. IsWellFoundedOn(OpToRel(<,Nat), Nat)
  BY NatLessThanWellFounded
<1>2. PICK n \in T : \A m \in T : ~(<<m, n>> \in OpToRel(<,Nat))
  BY <1>1, WFMin
<1>3. \A m \in T : ~(m < n)
  BY <1>2 DEF OpToRel
<1> QED
  BY <1>3

LEMMA NatSet ==
  ASSUME NEW S, 0 \in S, \A n \in Nat : n \in S => n + 1 \in S
  PROVE  Nat \subseteq S
<1> SUFFICES ASSUME Nat \ S # {} PROVE FALSE
  OBVIOUS
<1>1. PICK n \in Nat \ S : \A m \in Nat \ S : n <= m
  BY LeastNumber
<1>2. n # 0 /\ n - 1 \in Nat /\ n - 1 < n /\ (n - 1) + 1 = n
  BY <1>1
<1> QED
  BY <1>1, <1>2

(* FlattenSeq(s) is the last value of a function that unfolds: there is one *)
(* for every length, by induction.                                         *)
LEMMA FlattenUnfolds ==
  ASSUME NEW s, NEW n \in Nat \ {0}, Len(s) = n
  PROVE  \E f : /\ f = [i \in 1 .. n |-> IF i = 1 THEN s[i] ELSE f[i - 1] \o s[i]]
                /\ FlattenSeq(s) = f[n]
<1> DEFINE Val(f, i) == IF i = 1 THEN s[i] ELSE f[i - 1] \o s[i]
           Good(k) == \E f : f = [i \in 1 .. k |-> Val(f, i)]
           S == {k \in Nat : Good(k)}
<1>1. Good(0)
  <2> HIDE DEF Val
  <2>1. 1 .. 0 = {}
    OBVIOUS
  <2>2. PICK f : f = [i \in {} |-> i]
    OBVIOUS
  <2>3. f = [i \in 1 .. 0 |-> Val(f, i)]
    BY <2>1, <2>2
  <2> QED
    BY <2>3
<1>2. ASSUME NEW k \in Nat, Good(k) PROVE Good(k + 1)
  <2>1. PICK f : f = [i \in 1 .. k |-> Val(f, i)]
    BY <1>2
  <2>2. PICK g : g = [i \in 1 .. k + 1 |-> Val(f, i)]
    OBVIOUS
  <2>3. ASSUME NEW i \in 1 .. k + 1 PROVE Val(f, i) = Val(g, i)
    <3>1. CASE i = 1
      BY <3>1
    <3>2. CASE i # 1
      <4>1. i - 1 \in 1 .. k /\ i - 1 \in 1 .. k + 1
        BY <3>2
      <4>2. f[i - 1] = Val(f, i - 1) /\ g[i - 1] = Val(f, i - 1)
        <5> HIDE DEF Val
        <5> QED
          BY <2>1, <2>2, <4>1
      <4> QED
        BY <3>2, <4>2
    <3> QED
      BY <3>1, <3>2
  <2>4. g = [i \in 1 .. k + 1 |-> Val(g, i)]
    <3> HIDE DEF Val
    <3> QED
      BY <2>2, <2>3
  <2> HIDE DEF Val
  <2> QED
    BY <2>4
<1>3. Nat \subseteq S
  <2> HIDE DEF Good
  <2>1. 0 \in S /\ \A k \in Nat : k \in S => k + 1 \in S
    BY <1>1, <1>2
  <2> HIDE DEF S
  <2> QED
    BY <2>1, NatSet
<1>4. Good(n)
  <2> HIDE DEF Good
  <2> QED
    BY <1>3
<1>5. PICK f : f = CHOOSE g : g = [i \in 1 .. n |-> IF i = 1 THEN s[i] ELSE g[i - 1] \o s[i]]
  OBVIOUS
<1>6. f = [i \in 1 .. n |-> IF i = 1 THEN s[i] ELSE f[i - 1] \o s[i]]
  BY <1>4, <1>5
<1>7. FlattenSeq(s) = f[n]
  BY <1>5 DEF FlattenSeq
<1> QED
  BY <1>6, <1>7


(* What is left of a concatenation, piece by piece, in front of a text z.  *)
(* One text in front of another. *)
Then(s, x) == s \o x

(* What follows each of the n parts of s, with z behind them.              *)
RestsOf(S, s, n, z, r) ==
  /\ r \in [0 .. n -> Seq(S)]
  /\ r[0] = Then(FlattenSeq(s), z)
  /\ r[n] = z
  /\ \A j \in 0 .. n - 1 : r[j] = Then(s[j + 1], r[j + 1])

LEMMA FlattenRests ==
  ASSUME NEW S, NEW n \in Nat, NEW s \in [1 .. n -> Seq(S)], NEW z \in Seq(S)
  PROVE  FlattenSeq(s) \in Seq(S) /\ \E r : RestsOf(S, s, n, z, r)
<1>1. s \in Seq(Seq(S)) /\ Len(s) = n
  OBVIOUS
<1>2. CASE n = 0
  <2>1. s = <<>> /\ FlattenSeq(s) = s
    BY <1>1, <1>2 DEF FlattenSeq
  <2>2. FlattenSeq(s) \o z = z
    BY <2>1
  <2>3. FlattenSeq(s) \in Seq(S)
    <3>1. FlattenSeq(s) = s /\ Len(s) = 0
      BY <1>1, <1>2, <2>1
    <3>2. s \in Seq(S)
      BY <1>2
    <3> QED
      BY <3>1, <3>2
  <2>5. PICK r : r = [j \in 0 .. 0 |-> z]
    OBVIOUS
  <2>4. r \in [0 .. n -> Seq(S)] /\ r[0] = z /\ r[n] = z /\ 0 .. n - 1 = {}
    BY <1>2, <2>5
  <2> QED
    BY <2>2, <2>3, <2>4 DEF Then, RestsOf
<1>3. CASE n # 0
  <2>0. n \in Nat \ {0}
    BY <1>3
  <2>1. PICK f : /\ f = [i \in 1 .. n |-> IF i = 1 THEN s[i] ELSE f[i - 1] \o s[i]]
                 /\ FlattenSeq(s) = f[n]
    BY <1>1, <2>0, FlattenUnfolds
  <2>2. \A i \in 1 .. n : f[i] = IF i = 1 THEN s[i] ELSE f[i - 1] \o s[i]
    BY <2>1
  <2>3. ASSUME NEW i \in 1 .. n PROVE f[i] \in Seq(S)
    <3> DEFINE U == {k \in Nat : k + 1 \in 1 .. n => f[k + 1] \in Seq(S)}
    <3>1. 0 \in U
      BY <2>2
    <3>2. ASSUME NEW k \in Nat, k \in U PROVE k + 1 \in U
      <4>1. SUFFICES ASSUME k + 2 \in 1 .. n PROVE f[k + 2] \in Seq(S)
        OBVIOUS
      <4>2. k + 1 \in 1 .. n /\ (k + 2) - 1 = k + 1 /\ k + 2 # 1
        BY <4>1
      <4>3. f[k + 2] = f[k + 1] \o s[k + 2]
        BY <2>2, <4>1, <4>2
      <4>4. f[k + 1] \in Seq(S) /\ s[k + 2] \in Seq(S)
        BY <3>2, <4>1, <4>2
      <4> QED
        BY <4>3, <4>4
    <3> HIDE DEF U
    <3>3. Nat \subseteq U
      BY <3>1, <3>2, NatSet
    <3>4. i - 1 \in U /\ (i - 1) + 1 = i
      BY <3>3
    <3> QED
      BY <3>4 DEF U
  <2> DEFINE Rests(d, r) ==
               /\ r \in [n - d .. n -> Seq(S)]
               /\ r[n] = z
               /\ \A j \in n - d .. n - 1 : r[j] = s[j + 1] \o r[j + 1]
               /\ f[n] \o z = f[n - d] \o r[n - d]
             U == {d \in Nat : d <= n - 1 => \E r : Rests(d, r)}
  <2>4. 0 \in U
    <3>1. PICK r : r = [j \in n .. n |-> z]
      OBVIOUS
    <3>2. Rests(0, r)
      <4>1. n - 0 = n /\ n - 0 .. n - 1 = {} /\ n - 0 .. n = n .. n /\ n \in n .. n
        OBVIOUS
      <4>2. r \in [n - 0 .. n -> Seq(S)] /\ r[n] = z
        BY <3>1, <4>1
      <4> QED
        BY <4>1, <4>2
    <3> HIDE DEF Rests
    <3> QED
      BY <3>2
  <2>5. ASSUME NEW d \in Nat, d \in U PROVE d + 1 \in U
    <3> HIDE DEF Rests
    <3> SUFFICES ASSUME d + 1 <= n - 1 PROVE \E r : Rests(d + 1, r)
      OBVIOUS
    <3>0. d <= n - 1
      OBVIOUS
    <3>1. PICK r : Rests(d, r)
      BY <2>5, <3>0
    <3>2. PICK k \in 1 .. n - 1 : k = n - (d + 1)
      OBVIOUS
    <3>3. k + 1 = n - d /\ k + 1 \in 1 .. n /\ k \in 1 .. n /\ (k + 1) - 1 = k /\ k + 1 # 1
      BY <3>2
    <3>4. /\ r \in [k + 1 .. n -> Seq(S)]
          /\ r[n] = z
          /\ \A j \in k + 1 .. n - 1 : r[j] = s[j + 1] \o r[j + 1]
          /\ f[n] \o z = f[k + 1] \o r[k + 1]
      BY <3>1, <3>3 DEF Rests
    <3>5. s[k + 1] \in Seq(S) /\ r[k + 1] \in Seq(S) /\ f[k] \in Seq(S)
      BY <2>3, <3>3, <3>4
    <3>6. PICK q : q = [j \in k .. n |-> IF j = k THEN s[k + 1] \o r[k + 1] ELSE r[j]]
      OBVIOUS
    <3>7. q \in [k .. n -> Seq(S)]
      <4>1. s[k + 1] \o r[k + 1] \in Seq(S)
        BY <3>5
      <4>2. \A j \in k .. n : j # k => j \in k + 1 .. n
        BY <3>3
      <4> QED
        BY <3>4, <3>6, <4>1, <4>2
    <3>8. q[n] = z /\ q[k] = s[k + 1] \o r[k + 1] /\ q[k + 1] = r[k + 1]
      <4>1. n \in k .. n /\ n # k /\ k \in k .. n /\ k + 1 \in k .. n /\ k + 1 # k
        BY <3>2, <3>3
      <4> QED
        BY <3>4, <3>6, <4>1
    <3>9. ASSUME NEW j \in k .. n - 1 PROVE q[j] = s[j + 1] \o q[j + 1]
      <4>1. CASE j = k
        BY <3>8, <4>1
      <4>2. CASE j # k
        <5>1. j \in k + 1 .. n - 1 /\ j \in k .. n /\ j + 1 \in k .. n /\ j + 1 # k
          BY <4>2
        <5> QED
          BY <3>4, <3>6, <4>2, <5>1
      <4> QED
        BY <4>1, <4>2
    <3>10. f[n] \o z = f[k] \o q[k]
      <4>1. f[k + 1] = f[k] \o s[k + 1]
        BY <2>2, <3>3
      <4>2. (f[k] \o s[k + 1]) \o r[k + 1] = f[k] \o (s[k + 1] \o r[k + 1])
        <5>1. PICK a \in Seq(S), b \in Seq(S), c \in Seq(S) :
                a = f[k] /\ b = s[k + 1] /\ c = r[k + 1]
          BY <3>5
        <5>2. (a \o b) \o c = a \o (b \o c)
          OBVIOUS
        <5> QED
          BY <5>1, <5>2
      <4> QED
        BY <3>4, <3>8, <4>1, <4>2
    <3>11. Rests(d + 1, q)
      BY <3>2, <3>7, <3>8, <3>9, <3>10 DEF Rests
    <3> QED
      BY <3>11
  <2>6. Nat \subseteq U
    <3> HIDE DEF U
    <3> QED
      BY <2>4, <2>5, NatSet
  <2>7. PICK r : Rests(n - 1, r)
    <3> HIDE DEF Rests
    <3>1. n - 1 \in Nat /\ n - 1 <= n - 1
      BY <2>0
    <3> QED
      BY <2>6, <3>1
  <2>8. /\ r \in [1 .. n -> Seq(S)]
        /\ r[n] = z
        /\ \A j \in 1 .. n - 1 : r[j] = s[j + 1] \o r[j + 1]
        /\ f[n] \o z = f[1] \o r[1]
    <3>1. n - (n - 1) = 1
      OBVIOUS
    <3> QED
      BY <2>7, <3>1
  <2> HIDE DEF Rests, U
  <2>9. PICK q : q = [j \in 0 .. n |-> IF j = 0 THEN FlattenSeq(s) \o z ELSE r[j]]
    OBVIOUS
  <2>10. FlattenSeq(s) \in Seq(S) /\ FlattenSeq(s) \o z \in Seq(S)
    <3>1. f[n] \in Seq(S)
      BY <2>0, <2>3
    <3> QED
      BY <2>1, <3>1
  <2>11. q \in [0 .. n -> Seq(S)] /\ q[0] = FlattenSeq(s) \o z /\ q[n] = z
    <3>1. \A j \in 0 .. n : j # 0 => j \in 1 .. n
      OBVIOUS
    <3> QED
      BY <1>3, <2>8, <2>9, <2>10, <3>1
  <2>12. ASSUME NEW j \in 0 .. n - 1 PROVE q[j] = s[j + 1] \o q[j + 1]
    <3>1. j + 1 \in 0 .. n /\ j + 1 # 0 /\ j \in 0 .. n
      OBVIOUS
    <3>2. q[j + 1] = r[j + 1]
      BY <2>9, <3>1
    <3>3. CASE j = 0
      <4>1. f[1] = s[1]
        BY <2>0, <2>2
      <4>2. q[1] = r[1] /\ 0 + 1 = 1
        BY <3>2, <3>3
      <4>3. q[0] = s[1] \o q[1]
        BY <2>1, <2>8, <2>11, <4>1, <4>2
      <4> QED
        BY <3>3, <4>2, <4>3
    <3>4. CASE j # 0
      <4>1. j \in 1 .. n - 1
        BY <3>4
      <4>2. r[j] = s[j + 1] \o r[j + 1]
        BY <2>8, <4>1
      <4>3. q[j] = r[j]
        BY <2>9, <3>1, <3>4
      <4> QED
        BY <3>2, <4>2, <4>3
    <3> QED
      BY <3>3, <3>4
  <2> QED
    BY <2>10, <2>11, <2>12 DEF Then, RestsOf
<1> QED
  BY <1>2, <1>3

-----------------------------------------------------------------------------
(***************************************************************************)
(* The text of a form with files.                                          *)

(* Texts, and one in front of another.                                     *)
Text == Seq(Chars)

LEMMA ThenIs ==
  /\ \A a, b \in Text : Then(a, b) \in Text
  /\ \A a, b, c \in Text : Then(Then(a, b), c) = Then(a, Then(b, c))
BY DEF Then, Text

LEMMA OneIs == ASSUME NEW c \in Chars PROVE <<c>> \in Text
BY DEF Text

LEMMA NoneIs == <<>> \in Text /\ \A a \in Text : Then(<<>>, a) = a /\ Then(a, <<>>) = a
BY DEF Then, Text

LEMMA MarksAreTexts ==
  Crlf \in Text /\ DashCrlf \in Text /\ CrlfDashBoundary \in Text /\ DashBoundaryCrlf \in Text
BY Marks DEF Text

(* The text of a file in front of x, from its name, its type, its other    *)
(* header line and the end of its headers on.                              *)
HeadEnd(f, x)   == Then(Crlf, Then(f.content, x))
HeadExtra(f, x) == IF f.extra = <<>> THEN HeadEnd(f, x) ELSE Then(f.extra, Then(Crlf, HeadEnd(f, x)))
HeadType(f, x)  == IF f.type = "" THEN HeadExtra(f, x) ELSE Then(<<f.type>>, Then(Crlf, HeadExtra(f, x)))
HeadName(f, x)  == Then(<<f.name>>, Then(Crlf, HeadType(f, x)))

LEMMA FileIs ==
  ASSUME NEW f \in Files
  PROVE  /\ f.name \in Names /\ f.name \in Chars /\ f.name \notin {"", "cr", "lf"}
         /\ f.type \in Types \cup {""}
         /\ f.type # "" => f.type \in Chars /\ f.type \in Types /\ f.type \notin {"cr", "lf"} \cup Names
         /\ f.extra \in Text /\ \A i \in 1 .. Len(f.extra) : f.extra[i] # "cr"
         /\ f.extra # <<>> => f.extra[1] \notin Names \cup Types
         /\ f.content \in Text /\ ~Occurs(CrlfDashBoundary, f.content)
<1>1. /\ f.name \in Names /\ f.type \in Types \cup {""}
      /\ f.extra \in Seq(Chars \ {"cr", "lf"}) /\ f.content \in Seq(Chars)
      /\ f.extra # <<>> => f.extra[1] \notin Names \cup Types
      /\ ~Occurs(CrlfDashBoundary, f.content)
  BY DEF Files
<1>2. f.extra \in Seq(Chars) /\ \A i \in 1 .. Len(f.extra) : f.extra[i] # "cr"
  <2>1. f.extra \in Seq(Chars \ {"cr", "lf"})
    BY <1>1
  <2>2. f.extra \in Seq(Chars)
    BY <2>1, SeqMonotonic
  <2>3. \A i \in 1 .. Len(f.extra) : f.extra[i] \in Chars \ {"cr", "lf"}
    BY <2>1
  <2> QED
    BY <2>2, <2>3
<1>3. f.name \in Chars /\ f.name \notin {"", "cr", "lf"}
  BY <1>1, MultipartAssumption DEF Chars
<1>4. f.type # "" => f.type \in Chars /\ f.type \in Types /\ f.type \notin {"cr", "lf"} \cup Names
  BY <1>1, MultipartAssumption DEF Chars
<1> QED
  BY <1>1, <1>2, <1>3, <1>4 DEF Text

(* The lines of a file as texts.                                           *)
LEMMA FileTexts ==
  ASSUME NEW f \in Files
  PROVE  /\ <<f.name>> \in Text
         /\ f.type # "" => <<f.type>> \in Text
         /\ f.extra \in Text
         /\ f.content \in Text
<1>1. f.name \in Chars
  BY FileIs
<1>2. f.type # "" => f.type \in Chars
  BY FileIs
<1>3. <<f.name>> \in Text
  BY <1>1, OneIs
<1>4. f.type # "" => <<f.type>> \in Text
  BY <1>2, OneIs
<1> QED
  BY <1>3, <1>4, FileIs

LEMMA HeadTypes ==
  ASSUME NEW f \in Files, NEW x \in Text
  PROVE  /\ HeadEnd(f, x) \in Text /\ HeadExtra(f, x) \in Text
         /\ HeadType(f, x) \in Text /\ HeadName(f, x) \in Text
<1>1. HeadEnd(f, x) \in Text
  BY FileTexts, MarksAreTexts, ThenIs DEF HeadEnd
<1>2. HeadExtra(f, x) \in Text
  BY <1>1, FileTexts, MarksAreTexts, ThenIs DEF HeadExtra
<1>3. HeadType(f, x) \in Text
  BY <1>2, FileTexts, MarksAreTexts, ThenIs DEF HeadType
<1>4. HeadName(f, x) \in Text
  BY <1>3, FileTexts, MarksAreTexts, ThenIs DEF HeadName
<1> QED
  BY <1>1, <1>2, <1>3, <1>4

LEMMA Regrouped ==
  ASSUME NEW a \in Text, NEW b \in Text, NEW t \in Text, NEW e \in Text, NEW u \in Text,
         NEW d \in Text, NEW x \in Text
  PROVE  /\ Then(Then(Then(Then(Then(Then(a, b), t), e), u), b), d) \in Text
         /\ Then(Then(Then(Then(Then(Then(Then(a, b), t), e), u), b), d), x)
              = Then(a, Then(b, Then(t, Then(e, Then(u, Then(b, Then(d, x)))))))
<1>1. /\ Then(a, b) \in Text /\ Then(Then(a, b), t) \in Text /\ Then(Then(Then(a, b), t), e) \in Text
      /\ Then(Then(Then(Then(a, b), t), e), u) \in Text
      /\ Then(Then(Then(Then(Then(a, b), t), e), u), b) \in Text
      /\ Then(Then(Then(Then(Then(Then(a, b), t), e), u), b), d) \in Text
  BY ThenIs, Zenon
<1>2. /\ Then(d, x) \in Text /\ Then(b, Then(d, x)) \in Text /\ Then(u, Then(b, Then(d, x))) \in Text
      /\ Then(e, Then(u, Then(b, Then(d, x)))) \in Text
      /\ Then(t, Then(e, Then(u, Then(b, Then(d, x))))) \in Text
      /\ Then(b, Then(t, Then(e, Then(u, Then(b, Then(d, x)))))) \in Text
  BY ThenIs, Zenon
<1> QED
  BY <1>1, <1>2, ThenIs, SMT

LEMMA FileTextIs ==
  ASSUME NEW f \in Files, NEW x \in Text
  PROVE  FileText(f) \in Text /\ Then(FileText(f), x) = HeadName(f, x)
<1>1. PICK a : a = <<f.name>>
  OBVIOUS
<1>2. PICK t : t = IF f.type = "" THEN <<>> ELSE <<f.type>> \o Crlf
  OBVIOUS
<1>3. PICK u : u = IF f.extra = <<>> THEN <<>> ELSE Crlf
  OBVIOUS
<1>4. PICK e, d : e = f.extra /\ d = f.content
  OBVIOUS
<1>5. a \in Text /\ e \in Text /\ d \in Text /\ Crlf \in Text
  BY <1>1, <1>4, FileTexts, MarksAreTexts
<1>6. t \in Text
  <2>1. CASE f.type = ""
    BY <1>2, <2>1, NoneIs
  <2>2. CASE f.type # ""
    <3>1. t = Then(<<f.type>>, Crlf)
      BY <1>2, <2>2 DEF Then
    <3> QED
      BY <2>2, <3>1, FileTexts, MarksAreTexts, ThenIs
  <2> QED
    BY <2>1, <2>2
<1>7. u \in Text
  BY <1>3, NoneIs, MarksAreTexts
<1>8. FileText(f) = Then(Then(Then(Then(Then(Then(a, Crlf), t), e), u), Crlf), d)
  BY <1>1, <1>2, <1>3, <1>4 DEF FileText, Then
<1>9. /\ FileText(f) \in Text
      /\ Then(FileText(f), x) = Then(a, Then(Crlf, Then(t, Then(e, Then(u, Then(Crlf, Then(d, x)))))))
  BY <1>5, <1>6, <1>7, <1>8, Regrouped
<1>10. Then(Crlf, Then(d, x)) = HeadEnd(f, x)
  BY <1>4 DEF HeadEnd
<1>11. Then(e, Then(u, HeadEnd(f, x))) = HeadExtra(f, x)
  <2>1. HeadEnd(f, x) \in Text
    BY HeadTypes
  <2>2. CASE f.extra = <<>>
    <3>1. e = <<>> /\ u = <<>>
      BY <1>3, <1>4, <2>2
    <3>2. HeadExtra(f, x) = HeadEnd(f, x)
      BY <2>2 DEF HeadExtra
    <3> QED
      BY <2>1, <3>1, <3>2, NoneIs
  <2>3. CASE f.extra # <<>>
    BY <1>3, <1>4, <2>3 DEF HeadExtra
  <2> QED
    BY <2>2, <2>3
<1>12. Then(t, HeadExtra(f, x)) = HeadType(f, x)
  <2>1. HeadExtra(f, x) \in Text
    BY HeadTypes
  <2>2. CASE f.type = ""
    BY <1>2, <2>1, <2>2, NoneIs DEF HeadType
  <2>3. CASE f.type # ""
    <3>1. t = Then(<<f.type>>, Crlf)
      BY <1>2, <2>3 DEF Then
    <3>2. <<f.type>> \in Text /\ Crlf \in Text
      BY <2>3, FileTexts, MarksAreTexts
    <3>3. HeadType(f, x) = Then(<<f.type>>, Then(Crlf, HeadExtra(f, x)))
      BY <2>3 DEF HeadType
    <3> QED
      BY <2>1, <3>1, <3>2, <3>3, ThenIs
  <2> QED
    BY <2>2, <2>3
<1>13. Then(a, Then(Crlf, HeadType(f, x))) = HeadName(f, x)
  BY <1>1 DEF HeadName
<1> QED
  BY <1>9, <1>10, <1>11, <1>12, <1>13

(* What follows each file of a form.                                       *)
Follows(f, after) ==
  /\ after \in [1 .. Len(f.files) -> Text]
  /\ MultipartText(f) = Then(f.preamble, Then(DashBoundaryCrlf, HeadName(f.files[1], after[1])))
  /\ \A i \in 1 .. Len(f.files) - 1 :
       after[i] = Then(CrlfDashBoundary, Then(Crlf, HeadName(f.files[i + 1], after[i + 1])))
  /\ after[Len(f.files)] = Then(CrlfDashBoundary, Then(DashCrlf, f.epilogue))

After(f) == CHOOSE after : Follows(f, after)

LEMMA FormIs ==
  ASSUME NEW f \in MultipartForms
  PROVE  /\ f.kind = "multipart" /\ f.lines \in Seq(HeaderLines)
         /\ f.preamble \in Text /\ ~Occurs(DashBoundaryCrlf, f.preamble)
         /\ f.files \in Seq(Files) /\ Len(f.files) \in Nat \ {0}
         /\ \A i \in 1 .. Len(f.files) : f.files[i] \in Files
         /\ f.epilogue \in Text
BY DEF MultipartForms, Text

LEMMA TextRests ==
  ASSUME NEW n \in Nat, NEW s \in [1 .. n -> Text], NEW z \in Text
  PROVE  FlattenSeq(s) \in Text /\ \E r : RestsOf(Chars, s, n, z, r)
BY FlattenRests DEF Text

LEMMA AfterIs ==
  ASSUME NEW f \in MultipartForms
  PROVE  Follows(f, After(f))
<1> SUFFICES \E after : Follows(f, after)
  BY DEF After
<1>1. PICK n \in Nat \ {0} : n = Len(f.files)
  BY FormIs
<1>2. PICK part : part = [i \in 1 .. n |-> (IF i = 1 THEN <<>> ELSE CrlfDashBoundary \o Crlf)
                                              \o FileText(f.files[i])]
  OBVIOUS
<1>3. ASSUME NEW i \in 1 .. n PROVE f.files[i] \in Files /\ FileText(f.files[i]) \in Text
  <2>1. f.files[i] \in Files
    BY <1>1, FormIs
  <2> QED
    BY <2>1, NoneIs, FileTextIs
<1>4. ASSUME NEW i \in 1 .. n
      PROVE  /\ part[i] \in Text
             /\ i = 1 => part[i] = FileText(f.files[i])
             /\ i # 1 => part[i] = Then(Then(CrlfDashBoundary, Crlf), FileText(f.files[i]))
  <2>1. FileText(f.files[i]) \in Text
    BY <1>3
  <2>2. CASE i = 1
    <3>1. part[i] = Then(<<>>, FileText(f.files[i]))
      BY <1>2, <2>2 DEF Then
    <3> QED
      BY <2>1, <2>2, <3>1, NoneIs
  <2>3. CASE i # 1
    <3>1. part[i] = Then(Then(CrlfDashBoundary, Crlf), FileText(f.files[i]))
      BY <1>2, <2>3 DEF Then
    <3> QED
      BY <2>1, <2>3, <3>1, ThenIs, MarksAreTexts
  <2> QED
    BY <2>2, <2>3
<1>5. part \in [1 .. n -> Text]
  BY <1>2, <1>4
<1>6. PICK z : z = Then(CrlfDashBoundary, Then(DashCrlf, f.epilogue))
  OBVIOUS
<1>7. z \in Text /\ f.epilogue \in Text /\ Then(DashCrlf, f.epilogue) \in Text
  BY <1>6, FormIs, MarksAreTexts, ThenIs
<1>14. n \in Nat
  OBVIOUS
<1>15. FlattenSeq(part) \in Text /\ \E r : RestsOf(Chars, part, n, z, r)
  BY <1>5, <1>7, <1>14, TextRests
<1>16. PICK r : RestsOf(Chars, part, n, z, r)
  BY <1>15
<1>8. /\ r \in [0 .. n -> Text]
      /\ r[0] = Then(FlattenSeq(part), z)
      /\ r[n] = z
      /\ \A j \in 0 .. n - 1 : r[j] = Then(part[j + 1], r[j + 1])
  BY <1>16 DEF RestsOf, Text
<1>9. PICK after : after = [i \in 1 .. n |-> r[i]]
  OBVIOUS
<1>10. /\ after \in [1 .. n -> Text]
       /\ \A i \in 1 .. n : after[i] = r[i]
  BY <1>8, <1>9
<1>11. ASSUME NEW i \in 1 .. n - 1
       PROVE  after[i] = Then(CrlfDashBoundary, Then(Crlf, HeadName(f.files[i + 1], after[i + 1])))
  <2>1. i + 1 \in 1 .. n /\ i \in 0 .. n - 1 /\ i \in 1 .. n /\ i + 1 # 1
    OBVIOUS
  <2>2. PICK t, x : t = FileText(f.files[i + 1]) /\ x = r[i + 1]
    OBVIOUS
  <2>3. f.files[i + 1] \in Files /\ t \in Text
    BY <1>3, <2>1, <2>2
  <2>4. x \in Text
    BY <1>8, <2>1, <2>2
  <2>5. r[i] = Then(Then(Then(CrlfDashBoundary, Crlf), t), x)
    BY <1>4, <1>8, <2>1, <2>2
  <2>6. Then(t, x) = HeadName(f.files[i + 1], x) /\ Then(t, x) \in Text
    BY <2>2, <2>3, <2>4, FileTextIs, HeadTypes
  <2>7. Then(Then(Then(CrlfDashBoundary, Crlf), t), x) = Then(CrlfDashBoundary, Then(Crlf, Then(t, x)))
    BY <2>3, <2>4, <2>6, MarksAreTexts, ThenIs
  <2> QED
    BY <1>10, <2>1, <2>2, <2>5, <2>6, <2>7
<1>12. after[n] = z
  BY <1>8, <1>10
<1>13. MultipartText(f) = Then(f.preamble, Then(DashBoundaryCrlf, HeadName(f.files[1], after[1])))
  <2>1. PICK p, t : p = f.preamble /\ t = FlattenSeq(part)
    OBVIOUS
  <2>2. p \in Text
    BY <2>1, FormIs
  <2>3. t \in Text
    BY <1>15, <2>1
  <2>4. DOMAIN f.files = 1 .. n
    BY <1>1, FormIs
  <2>5. MultipartText(f) = Then(Then(Then(Then(Then(p, DashBoundaryCrlf), t), CrlfDashBoundary), DashCrlf), f.epilogue)
    BY <1>2, <2>1, <2>4 DEF MultipartText, Then
  <2>6. PICK c, d, e, q : c = CrlfDashBoundary /\ d = DashCrlf /\ e = f.epilogue /\ q = DashBoundaryCrlf
    OBVIOUS
  <2>7. c \in Text /\ d \in Text /\ e \in Text /\ q \in Text
    BY <1>7, <2>6, MarksAreTexts
  <2>8. Then(Then(Then(Then(Then(p, q), t), c), d), e) = Then(p, Then(q, Then(t, Then(c, Then(d, e)))))
    <3>1. Then(p, q) \in Text /\ Then(Then(p, q), t) \in Text /\ Then(Then(Then(p, q), t), c) \in Text
      BY <2>2, <2>3, <2>7, ThenIs
    <3>2. Then(d, e) \in Text /\ Then(c, Then(d, e)) \in Text /\ Then(t, Then(c, Then(d, e))) \in Text
      BY <2>2, <2>3, <2>7, ThenIs
    <3> QED
      BY <2>2, <2>3, <2>7, <3>1, <3>2, ThenIs
  <2>9. Then(t, z) = HeadName(f.files[1], after[1])
    <3>1. 0 \in 0 .. n - 1 /\ 1 \in 1 .. n /\ 0 + 1 = 1
      OBVIOUS
    <3>2. r[0] = Then(part[1], r[1]) /\ r[1] = after[1]
      BY <1>8, <1>10, <3>1
    <3>3. r[1] \in Text
      BY <1>8, <3>1
    <3>4. part[1] = FileText(f.files[1]) /\ f.files[1] \in Files
      BY <1>3, <1>4, <3>1
    <3> QED
      BY <1>8, <2>1, <3>2, <3>3, <3>4, FileTextIs
  <2> QED
    BY <1>6, <2>1, <2>5, <2>6, <2>8, <2>9
<1> QED
  BY <1>1, <1>6, <1>10, <1>11, <1>12, <1>13 DEF Follows

-----------------------------------------------------------------------------
(***************************************************************************)
(* Extremes, and texts that are trimmed.                                   *)

LEMMA MinIs ==
  ASSUME NEW S, S \subseteq Int, NEW p \in S, \A y \in S : p <= y
  PROVE  Min(S) = p
<1>1. \E x \in S : \A y \in S : x <= y
  OBVIOUS
<1>2. Min(S) \in S /\ \A y \in S : Min(S) <= y
  BY <1>1 DEF Min
<1>3. PICK q : q = Min(S)
  OBVIOUS
<1>4. q \in Int /\ p \in Int /\ p <= q /\ q <= p
  BY <1>2, <1>3
<1> QED
  BY <1>3, <1>4

LEMMA MaxIs ==
  ASSUME NEW S, S \subseteq Int, NEW p \in S, \A y \in S : y <= p
  PROVE  Max(S) = p
<1>1. \E x \in S : \A y \in S : x >= y
  OBVIOUS
<1>2. Max(S) \in S /\ \A y \in S : Max(S) >= y
  BY <1>1 DEF Max
<1>3. PICK q : q = Max(S)
  OBVIOUS
<1>4. q \in Int /\ p \in Int /\ q <= p /\ p <= q
  BY <1>2, <1>3
<1> QED
  BY <1>3, <1>4

Byte == 0 .. 255

(* Blanks around a text are taken off, and nothing else.                   *)
LEMMA TrimIs ==
  ASSUME NEW w \in Seq(Byte), w # <<>> => w[1] \notin Blanks /\ w[Len(w)] \notin Blanks,
         NEW v \in Seq(Byte), Len(v) = Len(w) + 1, v[1] = Space,
         \A i \in 1 .. Len(w) : v[i + 1] = w[i]
  PROVE  Trim(v) = w
<1>1. PICK n \in Nat : n = Len(w)
  OBVIOUS
<1>2. PICK kept : kept = {i \in DOMAIN v : v[i] \notin Blanks}
  OBVIOUS
<1>3. DOMAIN v = 1 .. n + 1
  BY <1>1
<1>4. Space \in Blanks
  BY DEF Blanks
<1>5. CASE n = 0
  <2>1. \A i \in DOMAIN v : i = 1
    BY <1>3, <1>5
  <2>2. kept = {}
    BY <1>2, <1>4, <2>1
  <2>3. Trim(v) = <<>>
    BY <1>2, <2>2 DEF Trim
  <2>4. w = <<>>
    BY <1>1, <1>5, EmptySeq
  <2> QED
    BY <2>3, <2>4
<1>6. CASE n # 0
  <2>1. w # <<>> /\ n \in 1 .. n /\ 1 \in 1 .. n
    BY <1>1, <1>6
  <2>2. v[2] = w[1] /\ v[n + 1] = w[n]
    BY <1>1, <2>1
  <2>3. v[2] \notin Blanks /\ v[n + 1] \notin Blanks
    BY <1>1, <2>1, <2>2
  <2>4. 2 \in kept /\ n + 1 \in kept
    BY <1>2, <1>3, <2>1, <2>3
  <2>5. kept \subseteq Int /\ \A i \in kept : 2 <= i /\ i <= n + 1
    <3>1. \A i \in kept : i \in 1 .. n + 1 /\ i # 1
      BY <1>2, <1>3, <1>4
    <3> QED
      BY <3>1
  <2>6. Min(kept) = 2 /\ Max(kept) = n + 1
    BY <2>4, <2>5, MinIs, MaxIs
  <2>7. Trim(v) = SubSeq(v, 2, n + 1)
    BY <1>2, <2>4, <2>6 DEF Trim
  <2>8. PICK u : u = SubSeq(v, 2, n + 1)
    OBVIOUS
  <2>9. u \in Seq(Byte) /\ Len(u) = n /\ \A i \in 1 .. n : u[i] = v[i + 1]
    <3>1. u = Drop(v, 1) /\ 1 \in 0 .. Len(v)
      BY <1>1, <2>8 DEF Drop
    <3>2. u \in Seq(Byte) /\ Len(u) = Len(v) - 1 /\ \A i \in 1 .. Len(v) - 1 : u[i] = v[1 + i]
      BY <3>1, DropIs
    <3> QED
      BY <1>1, <3>2
  <2>10. u = w
    <3>1. \A i \in 1 .. Len(u) : u[i] = w[i]
      BY <1>1, <2>9
    <3> QED
      BY <1>1, <2>9, <3>1, SeqEqual
  <2> QED
    BY <2>7, <2>8, <2>10
<1> QED
  BY <1>5, <1>6

-----------------------------------------------------------------------------
(***************************************************************************)
(* Loops over a text.                                                      *)

(* There is a function that goes on as Joined says: one for every number   *)
(* of last places, by induction.                                           *)
Goes(u, n, f, i) == IF i > n THEN <<>> ELSE u[i].text \o f[i + u[i].taken]

Advances(u, n) == Len(u) = n /\ \A i \in 1 .. n : u[i].taken \in Nat \ {0}

Unfolds(u, n, f) == Joined(u) = f[1] /\ \A i \in Nat \ {0} : f[i] = Goes(u, n, f, i)

LEMMA JoinedUnfolds ==
  ASSUME NEW n \in Nat, NEW u, Advances(u, n)
  PROVE  \E f : Unfolds(u, n, f)
<1>0. Len(u) = n /\ \A i \in 1 .. n : u[i].taken \in Nat \ {0}
  BY DEF Advances
<1> DEFINE Good(d) == \E f : \A i \in Nat \ {0} : i > n - d => f[i] = Goes(u, n, f, i)
           U == {d \in Nat : Good(d)}
<1>1. Good(0)
  <2>1. PICK f : f = [i \in Nat \ {0} |-> <<>>]
    OBVIOUS
  <2>2. \A i \in Nat \ {0} : i > n - 0 => i > n
    OBVIOUS
  <2>3. \A i \in Nat \ {0} : i > n - 0 => f[i] = Goes(u, n, f, i)
    BY <2>1, <2>2 DEF Goes
  <2> QED
    BY <2>3
<1>2. ASSUME NEW d \in Nat, Good(d) PROVE Good(d + 1)
  <2>1. PICK f : \A i \in Nat \ {0} : i > n - d => f[i] = Goes(u, n, f, i)
    BY <1>2
  <2>2. PICK k \in Int : k = n - d
    OBVIOUS
  <2>3. PICK v : v = Goes(u, n, f, k)
    OBVIOUS
  <2>4. PICK g : g = [i \in Nat \ {0} |-> IF i = k THEN v ELSE f[i]]
    OBVIOUS
  <2>5. \A i \in Nat \ {0} : i # k => g[i] = f[i]
    BY <2>4
  <2>6. ASSUME NEW i \in Nat \ {0}, i > n - (d + 1) PROVE Goes(u, n, g, i) = Goes(u, n, f, i)
    <3>1. CASE i > n
      BY <3>1 DEF Goes
    <3>2. CASE ~(i > n)
      <4>1. PICK t : t = u[i].taken
        OBVIOUS
      <4>2. t \in Nat \ {0}
        <5>1. i \in 1 .. n
          BY <3>2
        <5> QED
          BY <1>0, <4>1, <5>1
      <4>3. i >= k /\ i + t \in Nat \ {0} /\ i + t # k
        BY <2>2, <2>6, <4>2
      <4>4. g[i + t] = f[i + t]
        BY <2>5, <4>3
      <4> QED
        BY <3>2, <4>1, <4>4 DEF Goes
    <3> QED
      BY <3>1, <3>2
  <2>7. ASSUME NEW i \in Nat \ {0}, i > n - (d + 1) PROVE g[i] = Goes(u, n, g, i)
    <3>1. CASE i = k
      <4>1. g[i] = v
        BY <2>4, <3>1
      <4> QED
        BY <2>3, <2>6, <2>7, <3>1, <4>1
    <3>2. CASE i # k
      <4>1. i > n - d
        BY <2>2, <2>7, <3>2
      <4> QED
        BY <2>1, <2>5, <2>6, <2>7, <3>2, <4>1
    <3> QED
      BY <3>1, <3>2
  <2> QED
    BY <2>7
<1>3. Good(n)
  <2> HIDE DEF Good
  <2>1. 0 \in U /\ \A k \in Nat : k \in U => k + 1 \in U
    BY <1>1, <1>2
  <2>2. Nat \subseteq U
    <3> HIDE DEF U
    <3> QED
      BY <2>1, NatSet
  <2> QED
    BY <2>2
<1>4. PICK f : \A i \in Nat \ {0} : i > n - n => f[i] = Goes(u, n, f, i)
  BY <1>3
<1>5. \A i \in Nat \ {0} : f[i] = Goes(u, n, f, i)
  <2>1. \A i \in Nat \ {0} : i > n - n
    OBVIOUS
  <2> QED
    BY <1>4, <2>1
<1>6. PICK g : g = [i \in Nat \ {0} |-> f[i]]
  OBVIOUS
<1>7. \A i \in Nat \ {0} : g[i] = f[i]
  BY <1>6
<1>8. ASSUME NEW i \in Nat \ {0} PROVE Goes(u, n, g, i) = Goes(u, n, f, i)
  <2>1. CASE i > n
    BY <2>1 DEF Goes
  <2>2. CASE ~(i > n)
    <3>1. PICK t : t = u[i].taken
      OBVIOUS
    <3>2. t \in Nat \ {0}
      <4>1. i \in 1 .. n
        BY <2>2
      <4> QED
        BY <1>0, <3>1, <4>1
    <3>3. i + t \in Nat \ {0}
      BY <3>2
    <3>4. g[i + t] = f[i + t]
      BY <1>7, <3>3
    <3> QED
      BY <2>2, <3>1, <3>4 DEF Goes
  <2> QED
    BY <2>1, <2>2
<1>9. g = [i \in Nat \ {0} |-> Goes(u, n, g, i)]
  <2>1. \A i \in Nat \ {0} : f[i] = Goes(u, n, g, i)
    BY <1>5, <1>8
  <2> QED
    BY <1>6, <2>1
<1>10. PICK h : h = CHOOSE x : x = [i \in Nat \ {0} |-> Goes(u, n, x, i)]
  OBVIOUS
<1>11. h = [i \in Nat \ {0} |-> Goes(u, n, h, i)]
  BY <1>9, <1>10
<1>12. Joined(u) = h[1]
  BY <1>0, <1>10 DEF Joined, Goes
<1>13. \A i \in Nat \ {0} : h[i] = Goes(u, n, h, i)
  BY <1>11
<1> QED
  BY <1>12, <1>13 DEF Unfolds

LEMMA DropDrop ==
  ASSUME NEW S, NEW s \in Seq(S), NEW i \in 0 .. Len(s), NEW r, r = Drop(s, i), NEW n \in 1 .. Len(r)
  PROVE  i + n \in 0 .. Len(s) /\ Drop(r, n) = Drop(s, i + n)
<1>1. PICK m \in Nat : m = Len(s)
  OBVIOUS
<1>2. r \in Seq(S) /\ Len(r) = m - i /\ \A k \in 1 .. m - i : r[k] = s[i + k]
  BY <1>1, DropIs
<1>3. n \in 0 .. Len(r) /\ i + n \in 0 .. m
  BY <1>1, <1>2
<1>4. PICK p, q : p = Drop(r, n) /\ q = Drop(s, i + n)
  OBVIOUS
<1>5. p \in Seq(S) /\ Len(p) = (m - i) - n /\ \A k \in 1 .. (m - i) - n : p[k] = r[n + k]
  <2>1. r \in Seq(S) /\ n \in 0 .. Len(r)
    BY <1>2, <1>3
  <2>2. /\ Drop(r, n) \in Seq(S) /\ Len(Drop(r, n)) = Len(r) - n
        /\ \A k \in 1 .. Len(r) - n : Drop(r, n)[k] = r[n + k]
    BY <2>1, DropIs
  <2> QED
    BY <1>2, <1>4, <2>2
<1>6. q \in Seq(S) /\ Len(q) = m - (i + n) /\ \A k \in 1 .. m - (i + n) : q[k] = s[(i + n) + k]
  <2>1. i + n \in 0 .. Len(s)
    BY <1>1, <1>3
  <2> QED
    BY <1>1, <1>4, <2>1, DropIs
<1>7. (m - i) - n = m - (i + n)
  BY <1>1, <1>3
<1>8. ASSUME NEW k \in 1 .. m - (i + n) PROVE p[k] = q[k]
  <2>1. n + k \in 1 .. m - i /\ i + (n + k) = (i + n) + k
    BY <1>1, <1>2, <1>3
  <2>2. p[k] = r[n + k]
    BY <1>5, <1>7
  <2>3. r[n + k] = s[i + (n + k)]
    BY <1>2, <2>1
  <2>4. q[k] = s[(i + n) + k]
    BY <1>6
  <2> QED
    BY <2>1, <2>2, <2>3, <2>4
<1>9. p = q
  BY <1>5, <1>6, <1>7, <1>8, SeqEqual
<1> QED
  BY <1>1, <1>3, <1>4, <1>9

(* What is left of a text. *)
LeftOf(s, x) == Len(x) \in 0 .. Len(s) /\ Drop(s, Len(s) - Len(x)) = x

LEMMA RestsLeft ==
  ASSUME NEW A, NEW m \in Nat, NEW p \in [1 .. m -> Seq(A)], NEW z \in Seq(A), NEW r, RestsOf(A, p, m, z, r)
  PROVE  \A j \in 0 .. m : LeftOf(r[0], r[j])
<1>1. r \in [0 .. m -> Seq(A)] /\ \A j \in 0 .. m - 1 : r[j] = Then(p[j + 1], r[j + 1])
  BY DEF RestsOf
<1>2. PICK s : s = r[0]
  OBVIOUS
<1>3. s \in Seq(A)
  <2>1. 0 \in 0 .. m
    OBVIOUS
  <2> QED
    BY <1>1, <1>2, <2>1
<1>4. PICK n \in Nat : n = Len(s)
  BY <1>3
<1> DEFINE U == {j \in Nat : j <= m => LeftOf(s, r[j])}
<1>5. 0 \in U
  <2>1. n - n = 0 /\ n \in 0 .. n
    OBVIOUS
  <2>2. LeftOf(s, s)
    BY <1>3, <1>4, <2>1, DropNone DEF LeftOf
  <2> QED
    BY <1>2, <2>2
<1>6. ASSUME NEW j \in Nat, j \in U PROVE j + 1 \in U
  <2> SUFFICES ASSUME j + 1 <= m PROVE LeftOf(s, r[j + 1])
    OBVIOUS
  <2>1. j \in 0 .. m /\ j + 1 \in 0 .. m /\ j \in 0 .. m - 1 /\ j + 1 \in 1 .. m /\ j <= m
    OBVIOUS
  <2>2. PICK a, x, y : a = p[j + 1] /\ x = r[j] /\ y = r[j + 1]
    OBVIOUS
  <2>3. a \in Seq(A) /\ x \in Seq(A) /\ y \in Seq(A)
    BY <1>1, <2>1, <2>2
  <2>4. x = Then(a, y)
    BY <1>1, <2>1, <2>2
  <2>5. PICK l, k \in Nat : l = Len(a) /\ k = Len(y)
    BY <2>3
  <2>6. Len(x) = l + k /\ Drop(x, l) = y
    <3>1. Len(a \o y) = Len(a) + Len(y)
      BY <2>3, ConcatIs
    <3>2. Drop(a \o y, Len(a)) = y
      BY <2>3, DropFirst
    <3> QED
      BY <2>4, <2>5, <3>1, <3>2 DEF Then
  <2>7. l + k <= n /\ Drop(s, n - (l + k)) = x
    <3>1. LeftOf(s, x)
      BY <1>6, <2>1, <2>2
    <3> QED
      BY <1>4, <2>5, <2>6, <3>1 DEF LeftOf
  <2>8. Drop(s, n - k) = y
    <3>1. CASE l = 0
      <4>1. l + k = k /\ Drop(x, 0) = x
        BY <2>3, <2>5, <3>1, DropNone
      <4> QED
        BY <2>6, <2>7, <3>1, <4>1
    <3>2. CASE l # 0
      <4>1. PICK i : i = n - (l + k)
        OBVIOUS
      <4>2. i \in 0 .. n /\ i + l = n - k /\ l \in 1 .. l + k
        BY <2>5, <2>7, <3>2, <4>1
      <4>3. Drop(x, l) = Drop(s, i + l)
        <5>1. i \in 0 .. Len(s) /\ x = Drop(s, i) /\ l \in 1 .. Len(x)
          BY <1>4, <2>6, <2>7, <4>1, <4>2
        <5> QED
          BY <1>3, <5>1, DropDrop
      <4> QED
        BY <2>6, <4>2, <4>3
    <3> QED
      BY <3>1, <3>2
  <2>9. k \in 0 .. n
    BY <2>5, <2>7
  <2> QED
    BY <1>4, <2>2, <2>5, <2>8, <2>9 DEF LeftOf
<1>7. Nat \subseteq U
  <2> HIDE DEF U
  <2> QED
    BY <1>5, <1>6, NatSet
<1>8. \A j \in 0 .. m : j \in U /\ j <= m
  <2> HIDE DEF U
  <2> QED
    BY <1>7
<1> QED
  BY <1>2, <1>8

(* Wherever the part a is in front of y, the loop reads it as b; the last  *)
(* part may take it beyond the end.                                        *)
PartRead(u, s, a, b, y, last) ==
  IF a = <<>> THEN b = <<>>
  ELSE \A i \in 1 .. Len(s) : Drop(s, i - 1) = Then(a, y) =>
         u[i].text = b /\ (u[i].taken = Len(a) \/ (last /\ u[i].taken > Len(a)))

(* The loop u over s, made of the parts of p, reads each as that of q,     *)
(* whatever follows it.                                                    *)
ReadAs(A, S, u, s, m, p, q) ==
  /\ m \in Nat /\ p \in [1 .. m -> Seq(A)] /\ q \in [1 .. m -> Seq(S)]
  /\ s = FlattenSeq(p) /\ Advances(u, Len(s))
  /\ \A j \in 1 .. m : \A y \in Seq(A) :
       (j = m => y = <<>>) => PartRead(u, s, p[j], q[j], y, j = m)

LEMMA JoinedIs ==
  ASSUME NEW A, NEW S, NEW u, NEW s, NEW m, NEW p, NEW q, ReadAs(A, S, u, s, m, p, q)
  PROVE  Joined(u) = FlattenSeq(q)
<1> SUFFICES ASSUME m \in Nat, p \in [1 .. m -> Seq(A)], q \in [1 .. m -> Seq(S)],
                    s = FlattenSeq(p), Advances(u, Len(s)),
                    \A j \in 1 .. m : \A y \in Seq(A) :
                      (j = m => y = <<>>) => PartRead(u, s, p[j], q[j], y, j = m)
             PROVE  Joined(u) = FlattenSeq(q)
  BY DEF ReadAs
<1>0. PICK r : RestsOf(A, p, m, <<>>, r)
  <2>1. <<>> \in Seq(A)
    OBVIOUS
  <2> QED
    BY <2>1, FlattenRests
<1>1. /\ r \in [0 .. m -> Seq(A)] /\ r[m] = <<>> /\ \A j \in 0 .. m - 1 : r[j] = Then(p[j + 1], r[j + 1])
  BY <1>0 DEF RestsOf
<1>2. s \in Seq(A) /\ r[0] = s
  <2>1. <<>> \in Seq(A)
    OBVIOUS
  <2>2. FlattenSeq(p) \in Seq(A)
    BY <2>1, FlattenRests
  <2>3. r[0] = Then(s, <<>>)
    BY <1>0 DEF RestsOf
  <2> QED
    BY <2>2, <2>3 DEF Then
<1>3. PICK n \in Nat : n = Len(s)
  BY <1>2
<1>4. PICK f : Joined(u) = f[1] /\ \A i \in Nat \ {0} : f[i] = Goes(u, n, f, i)
  <2>1. Advances(u, n)
    BY <1>3
  <2>2. PICK f : Unfolds(u, n, f)
    BY <2>1, JoinedUnfolds
  <2> QED
    BY <2>2 DEF Unfolds
<1>5. \A j \in 0 .. m : LeftOf(s, r[j])
  <2>1. <<>> \in Seq(A)
    OBVIOUS
  <2>2. \A j \in 0 .. m : LeftOf(r[0], r[j])
    BY <1>0, <2>1, RestsLeft
  <2> QED
    BY <1>2, <2>2
<1>6. PICK t : RestsOf(S, q, m, <<>>, t)
  <2>1. <<>> \in Seq(S)
    OBVIOUS
  <2> QED
    BY <2>1, FlattenRests
<1>7. /\ t \in [0 .. m -> Seq(S)] /\ t[m] = <<>> /\ \A j \in 0 .. m - 1 : t[j] = Then(q[j + 1], t[j + 1])
      /\ t[0] = Then(FlattenSeq(q), <<>>)
  BY <1>6 DEF RestsOf
<1> DEFINE U == {d \in Nat : d <= m => f[(n - Len(r[m - d])) + 1] = t[m - d]}
<1>8. \A i \in Nat \ {0} : i > n => f[i] = <<>>
  BY <1>4 DEF Goes
<1>9. 0 \in U
  <2>1. m - 0 = m /\ Len(r[m]) = 0
    BY <1>1
  <2>2. (n - 0) + 1 \in Nat \ {0} /\ (n - 0) + 1 > n
    OBVIOUS
  <2> QED
    BY <1>7, <1>8, <2>1, <2>2
<1>10. ASSUME NEW d \in Nat, d \in U PROVE d + 1 \in U
  <2> SUFFICES ASSUME d + 1 <= m PROVE f[(n - Len(r[m - (d + 1)])) + 1] = t[m - (d + 1)]
    OBVIOUS
  <2>1. PICK j \in 0 .. m - 1 : j = m - (d + 1)
    OBVIOUS
  <2>2. j + 1 = m - d /\ d <= m /\ j \in 0 .. m /\ j + 1 \in 0 .. m /\ j + 1 \in 1 .. m
    BY <2>1
  <2>3. PICK a, b, x, y : a = p[j + 1] /\ b = q[j + 1] /\ x = r[j] /\ y = r[j + 1]
    OBVIOUS
  <2>4. a \in Seq(A) /\ b \in Seq(S) /\ x \in Seq(A) /\ y \in Seq(A) /\ x = Then(a, y)
    BY <1>1, <2>2, <2>3
  <2>5. PICK l, k \in Nat : l = Len(a) /\ k = Len(y)
    BY <2>4
  <2>6. Len(x) = l + k
    <3>1. Len(a \o y) = Len(a) + Len(y)
      BY <2>4, ConcatIs
    <3> QED
      BY <2>4, <2>5, <3>1 DEF Then
  <2>7. f[(n - k) + 1] = t[j + 1]
    BY <1>10, <2>2, <2>3, <2>5
  <2>8. t[j] = Then(b, t[j + 1]) /\ t[j + 1] \in Seq(S)
    BY <1>7, <2>2, <2>3
  <2>9. l + k \in 0 .. n /\ Drop(s, n - (l + k)) = x
    BY <1>3, <1>5, <2>2, <2>3, <2>6 DEF LeftOf
  <2>11. PartRead(u, s, a, b, y, j + 1 = m)
    <3>1. j + 1 = m => y = <<>>
      BY <1>1, <2>3
    <3> QED
      BY <2>2, <2>3, <2>4, <3>1
  <2>10. f[(n - (l + k)) + 1] = t[j]
    <3>1. CASE a = <<>> /\ b = <<>>
      <4>1. l = 0 /\ l + k = k
        BY <2>5, <3>1
      <4>2. t[j] = t[j + 1]
        BY <2>8, <3>1 DEF Then
      <4> QED
        BY <2>7, <4>1, <4>2
    <3>2. CASE a # <<>>
      <4>1. l > 0
        BY <2>4, <2>5, <3>2, EmptySeq
      <4>2. PICK i : i = (n - (l + k)) + 1
        OBVIOUS
      <4>3. i \in 1 .. n /\ i \in Nat \ {0} /\ i - 1 = n - (l + k) /\ i + l = (n - k) + 1 /\ ~(i > n)
        BY <2>5, <2>9, <4>1, <4>2
      <4>4. PICK w : w = u[i].taken
        OBVIOUS
      <4>5. u[i].text = b /\ (w = l \/ (j + 1 = m /\ w > l))
        <5>1. i \in 1 .. Len(s) /\ Drop(s, i - 1) = x
          BY <1>3, <2>9, <4>3
        <5> QED
          BY <2>4, <2>5, <2>11, <3>2, <4>4, <5>1 DEF PartRead
      <4>6. f[i] = b \o f[i + w]
        BY <1>4, <4>3, <4>4, <4>5 DEF Goes
      <4>7. w \in Nat \ {0}
        BY <1>3, <4>3, <4>4 DEF Advances
      <4>8. f[i + w] = t[j + 1]
        <5>1. CASE w = l
          BY <2>7, <4>3, <5>1
        <5>2. CASE j + 1 = m /\ w > l
          <6>1. k = 0
            <7>1. y = <<>>
              BY <1>1, <2>3, <5>2
            <7>2. Len(<<>>) = 0
              OBVIOUS
            <7> QED
              BY <2>5, <7>1, <7>2
          <6>2. i + w > n /\ i + w \in Nat \ {0}
            BY <2>5, <4>3, <4>7, <5>2, <6>1
          <6>3. f[i + w] = <<>>
            BY <1>8, <6>2
          <6> QED
            BY <1>7, <5>2, <6>3
        <5> QED
          BY <4>5, <5>1, <5>2
      <4> QED
        BY <2>8, <4>2, <4>6, <4>8 DEF Then
    <3> QED
      BY <2>11, <3>1, <3>2 DEF PartRead
  <2> QED
    BY <2>1, <2>3, <2>6, <2>10
<1>11. m \in U
  <2> HIDE DEF U
  <2> QED
    BY <1>9, <1>10, NatSet
<1>12. f[(n - Len(r[0])) + 1] = t[0]
  <2>1. m - m = 0 /\ m <= m
    OBVIOUS
  <2> QED
    BY <1>11, <2>1
<1>13. f[1] = t[0]
  <2>1. (n - n) + 1 = 1
    OBVIOUS
  <2> QED
    BY <1>2, <1>3, <1>12, <2>1
<1>14. FlattenSeq(q) \in Seq(S)
  <2>1. <<>> \in Seq(S)
    OBVIOUS
  <2> QED
    BY <2>1, FlattenRests
<1>15. t[0] = FlattenSeq(q)
  BY <1>7, <1>14 DEF Then
<1> QED
  BY <1>4, <1>13, <1>15

LEMMA DropOne ==
  ASSUME NEW S, NEW s \in Seq(S), NEW i \in 1 .. Len(s)
  PROVE  Drop(s, i - 1) = <<s[i]>> \o Drop(s, i)
<1>0. PICK n \in Nat : n = Len(s)
  OBVIOUS
<1>1. i - 1 \in 0 .. n /\ i \in 0 .. n /\ s[i] \in S
  BY <1>0
<1>2. PICK d : d = Drop(s, i - 1)
  OBVIOUS
<1>3. PICK e : e = Drop(s, i)
  OBVIOUS
<1>4. d \in Seq(S) /\ Len(d) = n - (i - 1) /\ \A k \in 1 .. n - (i - 1) : d[k] = s[(i - 1) + k]
  BY <1>0, <1>1, <1>2, DropIs
<1>5. e \in Seq(S) /\ Len(e) = n - i /\ \A k \in 1 .. n - i : e[k] = s[i + k]
  BY <1>0, <1>1, <1>3, DropIs
<1>6. PICK h : h = <<s[i]>> \o e
  OBVIOUS
<1>7. /\ h \in Seq(S) /\ Len(h) = 1 + (n - i) /\ h[1] = s[i]
      /\ \A k \in 1 .. n - i : h[1 + k] = e[k]
  <2>1. PICK a : a = <<s[i]>>
    OBVIOUS
  <2>2. a \in Seq(S) /\ Len(a) = 1 /\ a[1] = s[i]
    BY <1>1, <2>1
  <2>3. e \in Seq(S) /\ Len(e) = n - i
    BY <1>5
  <2>4. /\ a \o e \in Seq(S) /\ Len(a \o e) = Len(a) + Len(e)
        /\ \A k \in 1 .. Len(a) : (a \o e)[k] = a[k]
        /\ \A k \in 1 .. Len(e) : (a \o e)[Len(a) + k] = e[k]
    <3>1. a \in Seq(S)
      BY <2>2
    <3>2. e \in Seq(S)
      BY <2>3
    <3> QED
      BY <3>1, <3>2, ConcatIs
  <2> QED
    BY <1>6, <2>1, <2>2, <2>3, <2>4
<1>8. ASSUME NEW k \in 1 .. n - (i - 1) PROVE d[k] = h[k]
  <2>1. CASE k = 1
    BY <1>4, <1>7, <2>1
  <2>2. CASE k # 1
    <3>1. PICK l : l = k - 1
      OBVIOUS
    <3>2. l \in 1 .. n - i /\ k = 1 + l /\ (i - 1) + k = i + l
      BY <2>2, <3>1
    <3> QED
      BY <1>4, <1>5, <1>7, <3>2
  <2> QED
    BY <2>1, <2>2
<1>9. d = h
  <2>0. n - (i - 1) = 1 + (n - i)
    OBVIOUS
  <2>1. Len(d) = Len(h) /\ \A k \in 1 .. Len(d) : d[k] = h[k]
    BY <1>4, <1>7, <1>8, <2>0
  <2> QED
    BY <1>4, <1>7, <2>1, SeqEqual
<1> QED
  BY <1>2, <1>3, <1>6, <1>9

(* Elements one by one make the text.                                      *)
LEMMA FlattenOnes ==
  ASSUME NEW S, NEW w \in Seq(S)
  PROVE  FlattenSeq([i \in 1 .. Len(w) |-> <<w[i]>>]) = w
<1>1. PICK m \in Nat : m = Len(w)
  OBVIOUS
<1>2. PICK q : q = [i \in 1 .. m |-> <<w[i]>>]
  OBVIOUS
<1>3. ASSUME NEW i \in 1 .. m PROVE q[i] \in Seq(S)
  <2>1. w[i] \in S
    BY <1>1
  <2>2. <<w[i]>> \in Seq(S)
    BY <2>1
  <2> QED
    BY <1>2, <2>2
<1>4. q \in [1 .. m -> Seq(S)]
  BY <1>2, <1>3
<1>5. <<>> \in Seq(S)
  OBVIOUS
<1>6. FlattenSeq(q) \in Seq(S) /\ \E t : RestsOf(S, q, m, <<>>, t)
  BY <1>4, <1>5, FlattenRests
<1>7. PICK t : RestsOf(S, q, m, <<>>, t)
  BY <1>6
<1>8. /\ t[m] = <<>> /\ \A j \in 0 .. m - 1 : t[j] = Then(q[j + 1], t[j + 1])
      /\ t[0] = Then(FlattenSeq(q), <<>>)
  BY <1>7 DEF RestsOf
<1> DEFINE U == {d \in Nat : d <= m => t[m - d] = Drop(w, m - d)}
<1>9. 0 \in U
  <2>1. m - 0 = m /\ Drop(w, m) = <<>>
    BY <1>1 DEF Drop
  <2> QED
    BY <1>8, <2>1
<1>10. ASSUME NEW d \in Nat, d \in U PROVE d + 1 \in U
  <2> SUFFICES ASSUME d + 1 <= m PROVE t[m - (d + 1)] = Drop(w, m - (d + 1))
    OBVIOUS
  <2>1. PICK j \in 0 .. m - 1 : j = m - (d + 1)
    OBVIOUS
  <2>2. j + 1 = m - d /\ d <= m /\ j + 1 \in 1 .. m /\ (j + 1) - 1 = j
    BY <2>1
  <2>3. t[j + 1] = Drop(w, j + 1)
    BY <1>10, <2>2
  <2>4. Drop(w, (j + 1) - 1) = <<w[j + 1]>> \o Drop(w, j + 1)
    <3>1. j + 1 \in 1 .. Len(w)
      BY <1>1, <2>2
    <3> QED
      BY <3>1, DropOne
  <2>5. t[j] = <<w[j + 1]>> \o t[j + 1]
    BY <1>2, <1>8, <2>2 DEF Then
  <2> QED
    BY <2>1, <2>2, <2>3, <2>4, <2>5
<1>11. m \in U
  <2> HIDE DEF U
  <2> QED
    BY <1>9, <1>10, NatSet
<1>12. t[0] = Drop(w, 0)
  <2>1. m - m = 0 /\ m <= m
    OBVIOUS
  <2> QED
    BY <1>11, <2>1
<1>13. Drop(w, 0) = w
  BY DropNone
<1>14. t[0] = FlattenSeq(q)
  BY <1>6, <1>8 DEF Then
<1> QED
  BY <1>1, <1>2, <1>12, <1>13, <1>14

LEMMA FromIs ==
  ASSUME NEW S, NEW s \in Seq(S), NEW i \in 1 .. Len(s)
  PROVE  /\ From(s, i) = Drop(s, i - 1) /\ From(s, i) \in Seq(S)
         /\ Len(From(s, i)) \in Nat \ {0} /\ From(s, i)[1] = s[i]
<1>1. PICK n \in Nat : n = Len(s)
  OBVIOUS
<1>2. i \in 1 .. n /\ i - 1 \in 0 .. n /\ (i - 1) + 1 = i
  BY <1>1
<1>3. PICK x : x = Drop(s, i - 1)
  OBVIOUS
<1>4. x = From(s, i)
  BY <1>2, <1>3 DEF Drop, From
<1>5. x \in Seq(S) /\ Len(x) = n - (i - 1) /\ \A k \in 1 .. n - (i - 1) : x[k] = s[(i - 1) + k]
  BY <1>1, <1>2, <1>3, DropIs
<1>6. 1 \in 1 .. n - (i - 1) /\ n - (i - 1) \in Nat \ {0}
  BY <1>2
<1> QED
  BY <1>2, <1>3, <1>4, <1>5, <1>6

(* What is left begins with the part that comes next.                      *)
LEMMA ThenFront ==
  ASSUME NEW S, NEW a \in Seq(S), NEW y \in Seq(S)
  PROVE  /\ Then(a, y) \in Seq(S) /\ Len(Then(a, y)) = Len(a) + Len(y)
         /\ \A i \in 1 .. Len(a) : Then(a, y)[i] = a[i]
BY ConcatIs DEF Then

(* A text without escapes stands for itself.                               *)
LEMMA DecodeIs ==
  ASSUME NEW s \in Seq(Byte), \A i \in 1 .. Len(s) : s[i] # Percent
  PROVE  DecodeUrl(s, FALSE) = s
<1>1. PICK n \in Nat : n = Len(s)
  OBVIOUS
<1>2. PICK u : u = [i \in DOMAIN s |-> Unescape(From(s, i), FALSE)]
  OBVIOUS
<1>3. DOMAIN s = 1 .. n /\ Len(u) = n
  BY <1>1, <1>2
<1>4. ASSUME NEW i \in 1 .. n PROVE u[i].text = <<s[i]>> /\ u[i].taken = 1
  <2>1. PICK x : x = From(s, i)
    OBVIOUS
  <2>2. x[1] = s[i] /\ s[i] # Percent
    BY <1>1, <2>1, FromIs
  <2>3. Unescape(x, FALSE) = [text |-> <<x[1]>>, taken |-> 1]
    BY <2>2 DEF Unescape
  <2>4. u[i] = [text |-> <<x[1]>>, taken |-> 1]
    BY <1>2, <1>3, <2>1, <2>3
  <2> QED
    BY <2>2, <2>4
<1>5. PICK p : p = [i \in 1 .. n |-> <<s[i]>>]
  OBVIOUS
<1>6. s = FlattenSeq(p)
  BY <1>1, <1>5, FlattenOnes
<1>7. p \in [1 .. n -> Seq(Byte)]
  <2>1. \A i \in 1 .. n : s[i] \in Byte
    BY <1>1
  <2>2. \A i \in 1 .. n : <<s[i]>> \in Seq(Byte)
    BY <2>1
  <2> QED
    BY <1>5, <2>2
<1>8. ASSUME NEW j \in 1 .. n, NEW y \in Seq(Byte) PROVE PartRead(u, s, p[j], p[j], y, j = n)
  <2>1. PICK c : c = s[j]
    OBVIOUS
  <2>2. PICK a : a = <<c>>
    OBVIOUS
  <2>3. c \in Byte
    BY <1>1, <2>1
  <2>4. p[j] = a /\ a \in Seq(Byte) /\ Len(a) = 1 /\ a[1] = c
    BY <1>5, <2>1, <2>2, <2>3
  <2>5. PICK x : x = Then(a, y)
    OBVIOUS
  <2>6. x[1] = c
    <3>0. a \in Seq(Byte)
      BY <2>4
    <3>1. \A i \in 1 .. Len(a) : x[i] = a[i]
      BY <2>5, <3>0, ThenFront
    <3> QED
      BY <2>4, <3>1
  <2>7. ASSUME NEW i \in 1 .. n, Drop(s, i - 1) = x PROVE u[i].text = a /\ u[i].taken = Len(a)
    <3>1. From(s, i) = x /\ From(s, i)[1] = s[i]
      BY <1>1, <2>7, FromIs
    <3>2. s[i] = c
      BY <2>6, <3>1
    <3> QED
      BY <1>4, <2>2, <2>4, <3>2
  <2>8. a # <<>>
    BY <2>4
  <2> QED
    BY <1>1, <2>4, <2>5, <2>7, <2>8 DEF PartRead
<1>9. Advances(u, n)
  BY <1>3, <1>4 DEF Advances
<1>10. Advances(u, Len(s))
  BY <1>1, <1>9
<1>11. ReadAs(Byte, Byte, u, s, n, p, p)
  BY <1>6, <1>7, <1>8, <1>10 DEF ReadAs
<1>12. Joined(u) = FlattenSeq(p)
  BY <1>11, JoinedIs
<1> QED
  BY <1>2, <1>6, <1>12 DEF DecodeUrl

-----------------------------------------------------------------------------
(***************************************************************************)
(* The text of a header line, and what parse_header() makes of it.         *)

(* A text of four pieces, a the length of the first, two that of the       *)
(* second and b that of the third.                                         *)
Pieces(S, p, q, v, e, t, a, b) ==
  /\ t \in Seq(S) /\ Len(t) = a + 2 + b + Len(e)
  /\ \A i \in 1 .. a : t[i] = p[i]
  /\ \A i \in 1 .. 2 : t[a + i] = q[i]
  /\ \A i \in 1 .. b : t[a + 2 + i] = v[i]
  /\ \A i \in 1 .. Len(e) : t[a + 2 + b + i] = e[i]

LEMMA PiecesIs ==
  ASSUME NEW S, NEW p \in Seq(S), NEW q \in Seq(S), NEW v \in Seq(S), NEW e \in Seq(S)
  PROVE  \A a, b \in Nat : a = Len(p) /\ Len(q) = 2 /\ b = Len(v) => Pieces(S, p, q, v, e, p \o q \o v \o e, a, b)
<1>0. PICK t : t = p \o q \o v \o e
  OBVIOUS
<1>10. SUFFICES ASSUME NEW a \in Nat, NEW b \in Nat, a = Len(p), Len(q) = 2, b = Len(v)
       PROVE  Pieces(S, p, q, v, e, t, a, b)
  BY <1>0, Zenon
<1>1. PICK c : c = p \o q
  OBVIOUS
<1>2. /\ c \in Seq(S) /\ Len(c) = a + 2
      /\ \A i \in 1 .. a : c[i] = p[i]
      /\ \A i \in 1 .. 2 : c[a + i] = q[i]
  <2>1. /\ p \o q \in Seq(S) /\ Len(p \o q) = Len(p) + Len(q)
        /\ \A i \in 1 .. Len(p) : (p \o q)[i] = p[i]
        /\ \A i \in 1 .. Len(q) : (p \o q)[Len(p) + i] = q[i]
    BY ConcatIs
  <2> QED
    BY <1>1, <1>10, <2>1
<1>3. PICK d : d = c \o v
  OBVIOUS
<1>4. /\ d \in Seq(S) /\ Len(d) = a + 2 + b
      /\ \A i \in 1 .. a + 2 : d[i] = c[i]
      /\ \A i \in 1 .. b : d[a + 2 + i] = v[i]
  <2>1. c \in Seq(S)
    BY <1>2
  <2>2. /\ c \o v \in Seq(S) /\ Len(c \o v) = Len(c) + Len(v)
        /\ \A i \in 1 .. Len(c) : (c \o v)[i] = c[i]
        /\ \A i \in 1 .. Len(v) : (c \o v)[Len(c) + i] = v[i]
    BY <2>1, ConcatIs
  <2>3. Len(c) = a + 2
    BY <1>2
  <2> QED
    BY <1>3, <1>10, <2>2, <2>3
<1>5. /\ t \in Seq(S) /\ Len(t) = a + 2 + b + Len(e)
      /\ \A i \in 1 .. a + 2 + b : t[i] = d[i]
      /\ \A i \in 1 .. Len(e) : t[a + 2 + b + i] = e[i]
  <2>1. d \in Seq(S)
    BY <1>4
  <2>2. /\ d \o e \in Seq(S) /\ Len(d \o e) = Len(d) + Len(e)
        /\ \A i \in 1 .. Len(d) : (d \o e)[i] = d[i]
        /\ \A i \in 1 .. Len(e) : (d \o e)[Len(d) + i] = e[i]
    BY <2>1, ConcatIs
  <2>3. Len(d) = a + 2 + b
    BY <1>4
  <2>4. t = d \o e
    BY <1>0, <1>1, <1>3
  <2> QED
    BY <2>2, <2>3, <2>4
<1>6. ASSUME NEW i \in 1 .. a PROVE t[i] = p[i]
  <2>1. i \in 1 .. a + 2 /\ i \in 1 .. a + 2 + b
    OBVIOUS
  <2> QED
    BY <1>2, <1>4, <1>5, <2>1
<1>7. ASSUME NEW i \in 1 .. 2 PROVE t[a + i] = q[i]
  <2>1. a + i \in 1 .. a + 2 /\ a + i \in 1 .. a + 2 + b
    OBVIOUS
  <2> QED
    BY <1>2, <1>4, <1>5, <2>1
<1>8. ASSUME NEW i \in 1 .. b PROVE t[a + 2 + i] = v[i]
  <2>1. a + 2 + i \in 1 .. a + 2 + b
    OBVIOUS
  <2> QED
    BY <1>4, <1>5, <2>1
<1> QED
  BY <1>5, <1>6, <1>7, <1>8 DEF Pieces

(* What the bytes of a header line are.                                    *)
LEMMA LineIs ==
  ASSUME NEW l \in HeaderLines
  PROVE  /\ l.name \in Seq(Byte) /\ \A i \in 1 .. Len(l.name) : l.name[i] \notin {CR, LF, Colon}
         /\ l.value \in Seq(Byte) /\ \A i \in 1 .. Len(l.value) : l.value[i] \notin {CR, LF, Percent}
         /\ l.end = <<CR, LF>> \/ l.end = <<LF>>
         /\ l.value # <<>> => l.value[1] \notin Blanks /\ l.value[Len(l.value)] \notin Blanks
<1>1. /\ l.name \in Seq((0 .. 255) \ {CR, LF, Colon})
      /\ l.value \in Seq((0 .. 255) \ {CR, LF, Percent})
      /\ l.end = <<CR, LF>> \/ l.end = <<LF>>
      /\ l.value # <<>> => l.value[1] \notin Blanks /\ Last(l.value) \notin Blanks
  BY DEF HeaderLines
<1>2. l.name \in Seq(Byte) /\ \A i \in 1 .. Len(l.name) : l.name[i] \notin {CR, LF, Colon}
  <2>1. PICK T : T = (0 .. 255) \ {CR, LF, Colon}
    OBVIOUS
  <2>2. T \subseteq Byte /\ l.name \in Seq(T)
    BY <1>1, <2>1 DEF Byte
  <2>3. l.name \in Seq(Byte)
    BY <2>2, SeqMonotonic
  <2>4. \A i \in 1 .. Len(l.name) : l.name[i] \in T
    BY <2>2
  <2> QED
    BY <2>1, <2>3, <2>4
<1>3. l.value \in Seq(Byte) /\ \A i \in 1 .. Len(l.value) : l.value[i] \notin {CR, LF, Percent}
  <2>1. PICK T : T = (0 .. 255) \ {CR, LF, Percent}
    OBVIOUS
  <2>2. T \subseteq Byte /\ l.value \in Seq(T)
    BY <1>1, <2>1 DEF Byte
  <2>3. l.value \in Seq(Byte)
    BY <2>2, SeqMonotonic
  <2>4. \A i \in 1 .. Len(l.value) : l.value[i] \in T
    BY <2>2
  <2> QED
    BY <2>1, <2>3, <2>4
<1> QED
  BY <1>1, <1>2, <1>3 DEF Last

(* The bytes of the text t of a line, whose name has a of them and whose   *)
(* value b.                                                                *)
Shape(l, t, a, b) ==
  /\ a = Len(l.name) /\ b = Len(l.value)
  /\ t \in Seq(Byte)
  /\ \A i \in 1 .. a : t[i] = l.name[i]
  /\ t[a + 1] = Colon /\ t[a + 2] = Space
  /\ \A i \in 1 .. b : t[a + 2 + i] = l.value[i]
  /\ l.end = <<CR, LF>> => Len(t) = a + b + 4 /\ t[a + b + 3] = CR /\ t[a + b + 4] = LF
  /\ l.end = <<LF>> => Len(t) = a + b + 3 /\ t[a + b + 3] = LF

LEMMA LineShape ==
  ASSUME NEW l \in HeaderLines, NEW t, t = LineText(l)
  PROVE  \E a, b \in Nat : Shape(l, t, a, b)
<1>1. PICK q, e : q = <<Colon, Space>> /\ e = l.end
  OBVIOUS
<1>2. q \in Seq(Byte)
  BY <1>1 DEF Byte, Colon, Space
<1>3. Len(q) = 2 /\ q[1] = Colon /\ q[2] = Space
  BY <1>1
<1>4. e \in Seq(Byte)
  <2>1. e = <<CR, LF>> \/ e = <<LF>>
    BY <1>1, LineIs
  <2>2. <<CR, LF>> \in Seq(Byte) /\ <<LF>> \in Seq(Byte)
    BY DEF Byte, CR, LF
  <2> QED
    BY <2>1, <2>2
<1>5. /\ e = <<CR, LF>> => Len(e) = 2 /\ e[1] = CR /\ e[2] = LF
      /\ e = <<LF>> => Len(e) = 1 /\ e[1] = LF
  OBVIOUS
<1>6. l.name \in Seq(Byte)
  BY LineIs
<1>7. l.value \in Seq(Byte)
  BY LineIs
<1>12. PICK a \in Nat, b \in Nat : a = Len(l.name) /\ b = Len(l.value)
  BY <1>6, <1>7
<1>8. t = l.name \o q \o l.value \o e
  BY <1>1 DEF LineText
<1>9. /\ t \in Seq(Byte) /\ Len(t) = a + 2 + b + Len(e)
      /\ \A i \in 1 .. a : t[i] = l.name[i]
      /\ \A i \in 1 .. 2 : t[a + i] = q[i]
      /\ \A i \in 1 .. b : t[a + 2 + i] = l.value[i]
      /\ \A i \in 1 .. Len(e) : t[a + 2 + b + i] = e[i]
  <2>1. a = Len(l.name) /\ b = Len(l.value) /\ Len(q) = 2
    BY <1>3, <1>12
  <2>2. Pieces(Byte, l.name, q, l.value, e, l.name \o q \o l.value \o e, a, b)
    BY <1>2, <1>4, <1>6, <1>7, <2>1, PiecesIs
  <2> QED
    BY <1>8, <2>2 DEF Pieces
<1>13. t[a + 1] = Colon /\ t[a + 2] = Space
  BY <1>3, <1>9
<1>10. CASE e = <<CR, LF>>
  <2>1. Len(e) = 2 /\ e[1] = CR /\ e[2] = LF
    BY <1>5, <1>10
  <2>2. a + 2 + b + 2 = a + b + 4 /\ a + 2 + b + 1 = a + b + 3
    OBVIOUS
  <2>3. Len(t) = a + b + 4 /\ t[a + b + 3] = CR /\ t[a + b + 4] = LF
    BY <1>9, <2>1, <2>2
  <2>4. l.end # <<LF>>
    <3>1. e # <<LF>>
      BY <1>5, <2>1
    <3> QED
      BY <1>1, <3>1
  <2> QED
    BY <1>1, <1>9, <1>10, <1>12, <1>13, <2>3, <2>4 DEF Shape
<1>11. CASE e = <<LF>>
  <2>1. Len(e) = 1 /\ e[1] = LF
    BY <1>5, <1>11
  <2>2. a + 2 + b + 1 = a + b + 3
    OBVIOUS
  <2>3. Len(t) = a + b + 3 /\ t[a + b + 3] = LF
    BY <1>9, <2>1, <2>2
  <2>4. l.end # <<CR, LF>>
    <3>1. e # <<CR, LF>>
      BY <1>5, <2>1
    <3> QED
      BY <1>1, <3>1
  <2> QED
    BY <1>1, <1>9, <1>11, <1>12, <1>13, <2>3, <2>4 DEF Shape
<1> QED
  BY <1>1, <1>10, <1>11, LineIs

(* A line has one LF, at its end, and a CR before it if it is a line of    *)
(* headers.                                                                *)
LEMMA LineEnd ==
  ASSUME NEW l \in HeaderLines, NEW t, t = LineText(l)
  PROVE  /\ t \in Seq(Byte) /\ Len(t) > 2 /\ t[Len(t)] = LF
         /\ \A i \in 1 .. Len(t) - 1 : t[i] # LF
         /\ t[Len(t) - 1] = CR <=> l.end = <<CR, LF>>
<1>0. PICK a \in Nat, b \in Nat : Shape(l, t, a, b)
  BY LineShape
<1>1. a = Len(l.name) /\ b = Len(l.value)
  BY <1>0 DEF Shape
<1>2. /\ t \in Seq(Byte)
      /\ \A i \in 1 .. a : t[i] = l.name[i]
      /\ t[a + 1] = Colon /\ t[a + 2] = Space
      /\ \A i \in 1 .. b : t[a + 2 + i] = l.value[i]
      /\ l.end = <<CR, LF>> => Len(t) = a + b + 4 /\ t[a + b + 3] = CR /\ t[a + b + 4] = LF
      /\ l.end = <<LF>> => Len(t) = a + b + 3 /\ t[a + b + 3] = LF
  BY <1>0 DEF Shape
<1>3. ASSUME NEW i \in 1 .. a + b + 2 PROVE t[i] # LF /\ t[i] # CR
  <2>1. CASE i <= a
    <3>1. i \in 1 .. a /\ l.name[i] \notin {CR, LF, Colon}
      BY <1>1, <2>1, LineIs
    <3> QED
      BY <1>2, <3>1
  <2>2. CASE i = a + 1 \/ i = a + 2
    BY <1>2, <2>2 DEF CR, LF, Colon, Space
  <2>3. CASE i > a + 2
    <3>1. PICK k : k = i - (a + 2)
      OBVIOUS
    <3>2. k \in 1 .. b /\ i = a + 2 + k
      BY <2>3, <3>1
    <3>3. l.value[k] \notin {CR, LF, Percent}
      BY <1>1, <3>2, LineIs
    <3> QED
      BY <1>2, <3>2, <3>3
  <2> QED
    BY <2>1, <2>2, <2>3
<1>4. CASE l.end = <<CR, LF>>
  <2>1. Len(t) = a + b + 4 /\ t[a + b + 3] = CR /\ t[a + b + 4] = LF
    BY <1>2, <1>4
  <2>2. ASSUME NEW i \in 1 .. a + b + 3 PROVE t[i] # LF
    <3>1. CASE i = a + b + 3
      BY <2>1, <3>1 DEF CR, LF
    <3>2. CASE i # a + b + 3
      <4>1. i \in 1 .. a + b + 2
        BY <3>2
      <4> QED
        BY <1>3, <4>1
    <3> QED
      BY <3>1, <3>2
  <2>3. Len(t) - 1 = a + b + 3 /\ Len(t) > 2
    BY <2>1
  <2> QED
    BY <1>2, <1>4, <2>1, <2>2, <2>3
<1>5. CASE l.end = <<LF>>
  <2>1. Len(t) = a + b + 3 /\ t[a + b + 3] = LF
    BY <1>2, <1>5
  <2>2. Len(t) - 1 = a + b + 2 /\ Len(t) > 2 /\ a + b + 2 \in 1 .. a + b + 2
    BY <2>1
  <2>3. l.end # <<CR, LF>>
    BY <1>5
  <2> QED
    BY <1>2, <1>3, <1>5, <2>1, <2>2, <2>3
<1> QED
  BY <1>4, <1>5, LineIs

(* What parse_header() makes of a line without its end.                    *)
LEMMA ParseHeaderIs ==
  ASSUME NEW l \in HeaderLines, l.end = <<CR, LF>>, NEW t, t = LineText(l)
  PROVE  ParseHeader(SubSeq(t, 1, Len(t) - 2)) = HeaderOf(l)
<1>0. PICK a \in Nat, b \in Nat : Shape(l, t, a, b)
  BY LineShape
<1>1. a = Len(l.name) /\ b = Len(l.value)
  BY <1>0 DEF Shape
<1>2. /\ t \in Seq(Byte)
      /\ \A i \in 1 .. a : t[i] = l.name[i]
      /\ t[a + 1] = Colon /\ t[a + 2] = Space
      /\ \A i \in 1 .. b : t[a + 2 + i] = l.value[i]
      /\ Len(t) = a + b + 4
  BY <1>0 DEF Shape
<1>3. PICK h : h = SubSeq(t, 1, Len(t) - 2)
  OBVIOUS
<1>4. h \in Seq(Byte) /\ Len(h) = a + b + 2 /\ \A i \in 1 .. a + b + 2 : h[i] = t[i]
  <2>1. h = SubSeq(t, 1, a + b + 2)
    BY <1>2, <1>3
  <2>2. \A i \in 1 .. a + b + 2 : t[i] \in Byte
    <3>1. \A i \in 1 .. a + b + 2 : i \in 1 .. Len(t)
      BY <1>2
    <3> QED
      BY <1>2, <3>1, ElementOfSeq
  <2> QED
    BY <2>1, <2>2, SubSeqProperties
<1>5. PICK colons : colons = {i \in DOMAIN h : h[i] = Colon}
  OBVIOUS
<1>6. a + 1 \in colons /\ colons \subseteq Int /\ \A i \in colons : a + 1 <= i
  <2>1. a + 1 \in 1 .. a + b + 2 /\ DOMAIN h = 1 .. a + b + 2
    BY <1>4
  <2>2. h[a + 1] = Colon
    BY <1>2, <1>4, <2>1
  <2>3. ASSUME NEW i \in colons, i < a + 1 PROVE FALSE
    <3>1. i \in 1 .. a /\ i \in 1 .. a + b + 2 /\ h[i] = Colon
      BY <1>5, <2>1, <2>3
    <3>2. l.name[i] = Colon
      BY <1>2, <1>4, <3>1
    <3> QED
      BY <1>1, <3>1, <3>2, LineIs
  <2>4. colons \subseteq Int
    BY <1>5, <2>1
  <2> QED
    BY <1>5, <2>1, <2>2, <2>3, <2>4
<1>7. Min(colons) = a + 1
  BY <1>6, MinIs
<1>8. PICK v : v = SubSeq(h, a + 2, Len(h))
  OBVIOUS
<1>9. v \in Seq(Byte) /\ Len(v) = b + 1 /\ v[1] = Space /\ \A i \in 1 .. b : v[i + 1] = l.value[i]
  <2>1. v = Drop(h, a + 1) /\ a + 1 \in 0 .. Len(h)
    <3>1. (a + 1) + 1 = a + 2 /\ a + 1 \in 0 .. a + b + 2
      OBVIOUS
    <3> QED
      BY <1>4, <1>8, <3>1 DEF Drop
  <2>2. h \in Seq(Byte)
    BY <1>4
  <2>3. /\ v \in Seq(Byte) /\ Len(v) = Len(h) - (a + 1)
        /\ \A i \in 1 .. Len(h) - (a + 1) : v[i] = h[(a + 1) + i]
    BY <2>1, <2>2, DropIs
  <2>4. Len(h) - (a + 1) = b + 1
    BY <1>4
  <2>5. v[1] = Space
    <3>1. 1 \in 1 .. b + 1 /\ (a + 1) + 1 = a + 2 /\ a + 2 \in 1 .. a + b + 2
      OBVIOUS
    <3> QED
      BY <1>2, <1>4, <2>3, <2>4, <3>1
  <2>6. ASSUME NEW i \in 1 .. b PROVE v[i + 1] = l.value[i]
    <3>1. i + 1 \in 1 .. b + 1 /\ (a + 1) + (i + 1) = a + 2 + i /\ a + 2 + i \in 1 .. a + b + 2
      OBVIOUS
    <3> QED
      BY <1>2, <1>4, <2>3, <2>4, <3>1
  <2> QED
    BY <2>3, <2>4, <2>5, <2>6
<1>10. Trim(v) = l.value
  <2>1. l.value \in Seq(Byte)
    BY LineIs
  <2>2. l.value # <<>> => l.value[1] \notin Blanks /\ l.value[Len(l.value)] \notin Blanks
    BY LineIs
  <2>3. v \in Seq(Byte)
    BY <1>9
  <2>4. Len(v) = Len(l.value) + 1 /\ v[1] = Space /\ \A i \in 1 .. Len(l.value) : v[i + 1] = l.value[i]
    BY <1>1, <1>9
  <2> QED
    BY <2>1, <2>2, <2>3, <2>4, TrimIs
<1>11. DecodeUrl(l.value, FALSE) = l.value
  <2>1. l.value \in Seq(Byte)
    BY LineIs
  <2>2. \A i \in 1 .. Len(l.value) : l.value[i] # Percent
    BY LineIs
  <2> QED
    BY <2>1, <2>2, DecodeIs
<1>12. SubSeq(h, 1, a) = l.name
  <2>1. PICK u : u = SubSeq(h, 1, a)
    OBVIOUS
  <2>2. u \in Seq(Byte) /\ Len(u) = a /\ \A i \in 1 .. a : u[i] = h[i]
    <3>1. \A i \in 1 .. a : h[i] \in Byte
      <4>1. \A i \in 1 .. a : i \in 1 .. Len(h)
        BY <1>4
      <4> QED
        BY <1>4, <4>1, ElementOfSeq
    <3> QED
      BY <2>1, <3>1, SubSeqProperties
  <2>3. \A i \in 1 .. a : u[i] = l.name[i]
    <3>1. \A i \in 1 .. a : i \in 1 .. a + b + 2
      OBVIOUS
    <3> QED
      BY <1>2, <1>4, <2>2, <3>1
  <2>4. l.name \in Seq(Byte)
    BY LineIs
  <2> QED
    BY <1>1, <2>1, <2>2, <2>3, <2>4, SeqEqual
<1>13. (a + 1) + 1 = a + 2 /\ (a + 1) - 1 = a
  OBVIOUS
<1>14. ParseHeader(h) = IF l.value = <<>> THEN <<>> ELSE <<<<l.name, l.value>>>>
  <2>1. Trim(SubSeq(h, Min(colons) + 1, Len(h))) = l.value
    BY <1>7, <1>8, <1>10, <1>13
  <2>2. SubSeq(h, 1, Min(colons) - 1) = l.name
    BY <1>7, <1>12, <1>13
  <2>3. colons # {}
    BY <1>6
  <2> QED
    BY <1>5, <1>11, <2>1, <2>2, <2>3 DEF ParseHeader
<1> QED
  BY <1>3, <1>14 DEF HeaderOf

-----------------------------------------------------------------------------
(***************************************************************************)
(* The reader of header lines.                                             *)

Pair == Seq(Byte) \X Seq(Byte)

LineTexts(f)   == [i \in 1 .. Len(f.lines) |-> LineText(f.lines[i])]
HeaderParts(f) == [i \in 1 .. Len(f.lines) |-> HeaderOf(f.lines[i])]
AllHeaders(f)  == FlattenSeq(HeaderParts(f))

(* What is left of the text, and of the headers, behind each line.         *)
TextLeft(f)    == CHOOSE r : RestsOf(Byte, LineTexts(f), Len(f.lines), <<CR, LF>>, r)
HeadersLeft(f) == CHOOSE r : RestsOf(Pair, HeaderParts(f), Len(f.lines), <<>>, r)

LEMMA FormLines ==
  ASSUME NEW f \in Forms
  PROVE  /\ f.lines \in Seq(HeaderLines) /\ Len(f.lines) \in Nat
         /\ \A i \in 1 .. Len(f.lines) : f.lines[i] \in HeaderLines
<1>1. f \in MultipartForms \cup QueryForms
  BY FormsAssumption
<1>2. f.lines \in Seq(HeaderLines)
  <2>1. CASE f \in MultipartForms
    BY <2>1, FormIs
  <2>2. CASE f \in QueryForms
    <3>1. f \in FieldForms
      BY <2>2 DEF QueryForms
    <3> QED
      BY <3>1 DEF FieldForms
  <2> QED
    BY <1>1, <2>1, <2>2
<1> QED
  BY <1>2

LEMMA LastLine == <<CR, LF>> \in Seq(Byte) /\ Len(<<CR, LF>>) = 2 /\ <<CR, LF>>[1] = CR /\ <<CR, LF>>[2] = LF
BY DEF Byte, CR, LF

LEMMA HeaderOfIs ==
  ASSUME NEW l \in HeaderLines
  PROVE  HeaderOf(l) \in Seq(Pair)
<1>1. l.name \in Seq(Byte) /\ l.value \in Seq(Byte)
  BY LineIs
<1>2. <<l.name, l.value>> \in Pair
  BY <1>1 DEF Pair
<1>3. PICK p \in Pair : p = <<l.name, l.value>>
  BY <1>2
<1>4. <<p>> \in Seq(Pair) /\ <<>> \in Seq(Pair)
  OBVIOUS
<1> QED
  BY <1>3, <1>4 DEF HeaderOf

LEMMA LeftIs ==
  ASSUME NEW f \in Forms, NEW m \in Nat, m = Len(f.lines)
  PROVE  /\ TextLeft(f) \in [0 .. m -> Seq(Byte)]
         /\ TextLeft(f)[0] = HeadText(f) /\ TextLeft(f)[m] = <<CR, LF>>
         /\ \A j \in 0 .. m - 1 : TextLeft(f)[j] = Then(LineText(f.lines[j + 1]), TextLeft(f)[j + 1])
         /\ HeadersLeft(f) \in [0 .. m -> Seq(Pair)]
         /\ HeadersLeft(f)[0] = AllHeaders(f) /\ HeadersLeft(f)[m] = <<>>
         /\ \A j \in 0 .. m - 1 : HeadersLeft(f)[j] = Then(HeaderOf(f.lines[j + 1]), HeadersLeft(f)[j + 1])
<1>1. \A i \in 1 .. m : f.lines[i] \in HeaderLines
  BY FormLines
<1>2. DOMAIN f.lines = 1 .. m
  BY FormLines
<1>3. LineTexts(f) \in [1 .. m -> Seq(Byte)] /\ \A i \in 1 .. m : LineTexts(f)[i] = LineText(f.lines[i])
  BY <1>1, LineEnd DEF LineTexts
<1>4. HeaderParts(f) \in [1 .. m -> Seq(Pair)] /\ \A i \in 1 .. m : HeaderParts(f)[i] = HeaderOf(f.lines[i])
  BY <1>1, HeaderOfIs DEF HeaderParts
<1>5. PICK s, h : s = LineTexts(f) /\ h = HeaderParts(f)
  OBVIOUS
<1>6. s \in [1 .. m -> Seq(Byte)]
  BY <1>3, <1>5
<1>7. h \in [1 .. m -> Seq(Pair)]
  BY <1>4, <1>5
<1>8. <<CR, LF>> \in Seq(Byte) /\ <<>> \in Seq(Pair)
  BY LastLine
<1>9. FlattenSeq(s) \in Seq(Byte) /\ \E r : RestsOf(Byte, s, m, <<CR, LF>>, r)
  BY <1>6, <1>8, FlattenRests
<1>10. FlattenSeq(h) \in Seq(Pair) /\ \E r : RestsOf(Pair, h, m, <<>>, r)
  BY <1>7, <1>8, FlattenRests
<1>11. RestsOf(Byte, s, m, <<CR, LF>>, TextLeft(f))
  BY <1>5, <1>9 DEF TextLeft
<1>12. RestsOf(Pair, h, m, <<>>, HeadersLeft(f))
  BY <1>5, <1>10 DEF HeadersLeft
<1>13. HeadText(f) = Then(FlattenSeq(s), <<CR, LF>>)
  BY <1>2, <1>5 DEF HeadText, LineTexts, Then
<1>14. Then(FlattenSeq(h), <<>>) = AllHeaders(f)
  <2>1. PICK x : x = FlattenSeq(h)
    OBVIOUS
  <2>2. x \in Seq(Pair)
    BY <1>10, <2>1
  <2>3. x \o <<>> = x
    BY <2>2
  <2> QED
    BY <1>5, <2>1, <2>3 DEF Then, AllHeaders
<1>15. /\ TextLeft(f) \in [0 .. m -> Seq(Byte)]
       /\ TextLeft(f)[0] = HeadText(f) /\ TextLeft(f)[m] = <<CR, LF>>
       /\ \A j \in 0 .. m - 1 : TextLeft(f)[j] = Then(s[j + 1], TextLeft(f)[j + 1])
  BY <1>11, <1>13 DEF RestsOf
<1>16. /\ HeadersLeft(f) \in [0 .. m -> Seq(Pair)]
       /\ HeadersLeft(f)[0] = AllHeaders(f) /\ HeadersLeft(f)[m] = <<>>
       /\ \A j \in 0 .. m - 1 : HeadersLeft(f)[j] = Then(h[j + 1], HeadersLeft(f)[j + 1])
  BY <1>12, <1>14 DEF RestsOf
<1>17. ASSUME NEW j \in 0 .. m - 1
       PROVE  s[j + 1] = LineText(f.lines[j + 1]) /\ h[j + 1] = HeaderOf(f.lines[j + 1])
  <2>1. j + 1 \in 1 .. m
    OBVIOUS
  <2> QED
    BY <1>3, <1>4, <1>5, <2>1
<1> QED
  BY <1>15, <1>16, <1>17

(* A line of the text, found by its LF.                                    *)
LEMMA LineSplit ==
  ASSUME NEW a \in Seq(Byte), NEW s \in Seq(Byte), NEW t \in Seq(Byte), NEW r \in Seq(Byte),
         Then(a, s) = Then(t, r), a # <<>>, t # <<>>,
         a[Len(a)] = LF, \A i \in 1 .. Len(a) - 1 : a[i] # LF,
         t[Len(t)] = LF, \A i \in 1 .. Len(t) - 1 : t[i] # LF
  PROVE  a = t /\ s = r
<1>1. PICK m \in Nat, n \in Nat : m = Len(a) /\ n = Len(t)
  OBVIOUS
<1>2. m > 0 /\ n > 0
  BY <1>1, EmptySeq
<1>3. PICK w : w = a \o s
  OBVIOUS
<1>4. w = t \o r
  BY <1>3 DEF Then
<1>5. \A i \in 1 .. m : w[i] = a[i]
  BY <1>1, <1>3, ConcatIs
<1>6. \A i \in 1 .. n : w[i] = t[i]
  BY <1>1, <1>4, ConcatIs
<1>7. a[m] = LF /\ t[n] = LF /\ (\A i \in 1 .. m - 1 : a[i] # LF) /\ \A i \in 1 .. n - 1 : t[i] # LF
  BY <1>1
<1>8. m = n
  <2>1. CASE m < n
    <3>1. m \in 1 .. n - 1 /\ m \in 1 .. n /\ m \in 1 .. m
      BY <1>2, <2>1
    <3> QED
      BY <1>5, <1>6, <1>7, <3>1
  <2>2. CASE n < m
    <3>1. n \in 1 .. m - 1 /\ n \in 1 .. n /\ n \in 1 .. m
      BY <1>2, <2>2
    <3> QED
      BY <1>5, <1>6, <1>7, <3>1
  <2> QED
    BY <2>1, <2>2
<1>9. a = t
  <2>1. Len(a) = Len(t) /\ \A i \in 1 .. Len(a) : a[i] = t[i]
    BY <1>1, <1>5, <1>6, <1>8
  <2> QED
    BY <2>1, SeqEqual
<1>10. s = r
  <2>1. Drop(a \o s, Len(a)) = s
    BY DropFirst
  <2>2. Drop(t \o r, Len(t)) = r
    BY DropFirst
  <2> QED
    BY <1>3, <1>4, <1>9, <2>1, <2>2
<1> QED
  BY <1>9, <1>10

LEMMA EndsIs ==
  ASSUME NEW t \in Seq(Byte), Len(t) > 1
  PROVE  IsSuffix(<<CR, LF>>, t) <=> t[Len(t) - 1] = CR /\ t[Len(t)] = LF
<1>1. PICK n \in Nat : n = Len(t) /\ n > 1
  OBVIOUS
<1>2. PICK q : q = Reverse(t)
  OBVIOUS
<1>3. q = [i \in 1 .. n |-> t[(n - i) + 1]]
  BY <1>1, <1>2 DEF Reverse
<1>4. PICK e : e = Reverse(<<CR, LF>>)
  OBVIOUS
<1>5. e \in Seq(Byte) /\ Len(e) = 2 /\ e[1] = LF /\ e[2] = CR
  <2>0. PICK c : c = <<CR, LF>>
    OBVIOUS
  <2>1. c \in Seq(Byte) /\ Len(c) = 2 /\ c[1] = CR /\ c[2] = LF
    BY <2>0, LastLine
  <2>2. e = [i \in 1 .. 2 |-> c[(2 - i) + 1]]
    BY <1>4, <2>0, <2>1 DEF Reverse
  <2>3. e[1] = LF /\ e[2] = CR
    BY <2>1, <2>2
  <2>4. PICK k \in Nat : k = 2
    OBVIOUS
  <2>5. e \in [1 .. k -> Byte]
    <3>1. CR \in Byte /\ LF \in Byte
      BY DEF Byte, CR, LF
    <3>2. \A i \in 1 .. k : i = 1 \/ i = 2
      BY <2>4
    <3>3. \A i \in 1 .. k : e[i] \in Byte
      BY <2>3, <3>1, <3>2
    <3> QED
      BY <2>2, <2>4, <3>3
  <2>6. e \in Seq(Byte) /\ Len(e) = k
    BY <2>5
  <2> QED
    BY <2>3, <2>4, <2>6
<1>6. q \in Seq(Byte) /\ Len(q) = n /\ q[1] = t[n] /\ q[2] = t[n - 1]
  <2>1. ASSUME NEW i \in 1 .. n PROVE t[(n - i) + 1] \in Byte
    <3>1. (n - i) + 1 \in 1 .. n
      OBVIOUS
    <3> QED
      BY <1>1, <3>1, ElementOfSeq
  <2>2. q \in [1 .. n -> Byte]
    BY <1>3, <2>1
  <2>3. 1 \in 1 .. n /\ 2 \in 1 .. n /\ (n - 1) + 1 = n /\ (n - 2) + 1 = n - 1
    BY <1>1
  <2> QED
    BY <1>3, <2>2, <2>3
<1>7. IsPrefix(e, q) <=> At(e, q, 0)
  <2>1. q \in Seq(Byte)
    BY <1>6
  <2>2. e \in Seq(Byte)
    BY <1>5
  <2>3. 0 \in 0 .. Len(q)
    BY <2>1
  <2> QED
    BY <2>1, <2>2, <2>3, PrefixIs, DropNone
<1>8. At(e, q, 0) <=> q[1] = e[1] /\ q[2] = e[2]
  <2>1. At(e, q, 0) <=> 0 + 2 <= n /\ \A k \in 1 .. 2 : q[0 + k] = e[k]
    BY <1>5, <1>6 DEF At
  <2> QED
    BY <1>1, <2>1
<1>9. IsSuffix(<<CR, LF>>, t) <=> IsPrefix(e, q)
  BY <1>2, <1>4 DEF IsSuffix
<1> QED
  BY <1>1, <1>5, <1>6, <1>7, <1>8, <1>9

(* The header was made of a line that ends as it should. *)
SentBy(l, h) == l.end = <<CR, LF>> /\ h = <<l.name, l.value>>

(* The line that is read and the rest of the text are what is left behind  *)
(* the first j lines, and the headers those of these lines.                *)
Behind(f, j) ==
  /\ Then(Line, stream) = TextLeft(f)[j]
  /\ Then(headers, HeadersLeft(f)[j]) = AllHeaders(f)

ReaderTyped ==
  /\ stream \in Seq(Byte) /\ fixed \in Seq(Byte) /\ glowable \in Seq(Byte)
  /\ Len(fixed) <= FixedSize - 1
  /\ glowable # <<>> => Len(fixed) = FixedSize - 1 /\ Len(glowable) >= FixedSize
  /\ headers \in Seq(Pair)
  /\ reading \in {"line", "true", "false"}

OneLine == \A i \in 1 .. Len(Line) - 1 : Line[i] # LF

HeadersSent ==
  \A i \in 1 .. Len(headers) : \E k \in 1 .. Len(form.lines) : SentBy(form.lines[k], headers[i])

WhereItReads == \E j \in 0 .. Len(form.lines) : Behind(form, j)

ReaderInv ==
  /\ ReaderTyped /\ OneLine /\ HeadersSent
  /\ reading = "line" => WhereItReads
  /\ reading = "true" => headers = AllHeaders(form)

LEMMA LineTyped == ReaderTyped => Line \in Seq(Byte)
BY DEF ReaderTyped, Line

LEMMA ByteMoved ==
  ASSUME NEW S, NEW a \in Seq(S), NEW s \in Seq(S), s # <<>>
  PROVE  /\ Append(a, Head(s)) \in Seq(S) /\ Tail(s) \in Seq(S)
         /\ Len(Append(a, Head(s))) = Len(a) + 1
         /\ \A i \in 1 .. Len(a) : Append(a, Head(s))[i] = a[i]
         /\ Append(a, Head(s)) \o Tail(s) = a \o s
<1>1. PICK c \in S, r \in Seq(S) : c = Head(s) /\ r = Tail(s)
  BY HeadTailProperties
<1>2. s = <<c>> \o r
  BY <1>1, HeadTailProperties
<1>3. Append(a, c) = a \o <<c>>
  BY AppendIsConcat
<1>4. (a \o <<c>>) \o r = a \o (<<c>> \o r)
  <2>0. PICK b : b = <<c>>
    OBVIOUS
  <2>1. b \in Seq(S) /\ b = <<c>>
    BY <2>0
  <2>2. (a \o b) \o r = a \o (b \o r)
    BY ConcatAssociative
  <2> QED
    BY <2>1, <2>2
<1>5. /\ Append(a, c) \in Seq(S) /\ Len(Append(a, c)) = Len(a) + 1
      /\ \A i \in 1 .. Len(a) : Append(a, c)[i] = a[i]
  BY AppendProperties
<1> QED
  BY <1>1, <1>2, <1>3, <1>4, <1>5

(* A byte that is read moves from the text into the line.                  *)
LEMMA LineGrows ==
  ASSUME ReaderTyped, stream # <<>>, Grow(Head(stream)), stream' = Tail(stream),
         UNCHANGED <<headers, reading>>
  PROVE  ReaderTyped' /\ Line' = Append(Line, Head(stream)) /\ Then(Line', stream') = Then(Line, stream)
<1>1. PICK c \in Byte : c = Head(stream)
  BY HeadTailProperties DEF ReaderTyped
<1>2. Line \in Seq(Byte) /\ fixed \in Seq(Byte) /\ glowable \in Seq(Byte) /\ stream \in Seq(Byte)
  BY LineTyped DEF ReaderTyped
<1>3. Append(Line, c) \in Seq(Byte) /\ Append(fixed, c) \in Seq(Byte)
      /\ Len(Append(fixed, c)) = Len(fixed) + 1 /\ Len(Append(Line, c)) = Len(Line) + 1
      /\ Append(Line, c) # <<>>
  BY <1>2, AppendProperties
<1>4. PICK n \in Nat : n = Len(fixed)
  BY <1>2
<1>5. FixedSize \in Nat \ {0}
  BY HeadersAssumption
<1>6. stream' \in Seq(Byte)
  BY <1>2, HeadTailProperties
<1>7. /\ Line' = Append(Line, c) /\ fixed' \in Seq(Byte) /\ glowable' \in Seq(Byte)
      /\ Len(fixed') <= FixedSize - 1
      /\ glowable' # <<>> => Len(fixed') = FixedSize - 1 /\ Len(glowable') >= FixedSize
  <2>1. CASE n < FixedSize - 1
    <3>1. fixed' = Append(fixed, c) /\ glowable' = glowable
      BY <1>1, <1>4, <2>1 DEF Grow
    <3>2. glowable = <<>>
      BY <1>4, <1>5, <2>1 DEF ReaderTyped
    <3>3. Line = fixed /\ Line' = fixed'
      BY <3>1, <3>2 DEF Line
    <3> QED
      BY <1>2, <1>3, <1>4, <1>5, <2>1, <3>1, <3>2, <3>3
  <2>2. CASE ~(n < FixedSize - 1)
    <3>1. glowable' = Append(Line, c) /\ fixed' = fixed
      BY <1>1, <1>4, <2>2 DEF Grow
    <3>2. Line' = glowable'
      BY <1>3, <3>1 DEF Line
    <3>3. n <= FixedSize - 1
      BY <1>4 DEF ReaderTyped
    <3>4. Len(Line) >= FixedSize - 1
      <4>1. CASE glowable = <<>>
        BY <1>4, <1>5, <2>2, <4>1 DEF Line
      <4>2. CASE glowable # <<>>
        <5>1. Line = glowable /\ Len(glowable) >= FixedSize
          BY <4>2 DEF ReaderTyped, Line
        <5> QED
          BY <1>2, <1>5, <5>1
      <4> QED
        BY <4>1, <4>2
    <3>5. Len(Line) \in Nat
      BY <1>2
    <3> QED
      BY <1>2, <1>3, <1>4, <1>5, <2>2, <3>1, <3>2, <3>3, <3>4, <3>5
  <2> QED
    BY <2>1, <2>2
<1>8. ReaderTyped'
  BY <1>6, <1>7 DEF ReaderTyped
<1>9. Then(Line', stream') = Then(Line, stream)
  <2>1. PICK a, s : a = Line /\ s = stream
    OBVIOUS
  <2>2. a \in Seq(Byte) /\ s \in Seq(Byte) /\ s # <<>>
    BY <1>2, <2>1
  <2>3. Append(a, Head(s)) \o Tail(s) = a \o s
    BY <2>2, ByteMoved
  <2> QED
    BY <1>1, <1>7, <2>1, <2>3 DEF Then
<1> QED
  BY <1>1, <1>7, <1>8, <1>9

LEMMA ByteRead ==
  ASSUME form \in Forms, form' = form, ReaderInv, ReadByte
  PROVE  ReaderInv'
<1>1. /\ reading = "line" /\ ~LineRead /\ stream # <<>> /\ Grow(Head(stream))
      /\ stream' = Tail(stream) /\ UNCHANGED <<headers, reading>>
  BY DEF ReadByte
<1>2. ReaderTyped' /\ Line' = Append(Line, Head(stream)) /\ Then(Line', stream') = Then(Line, stream)
  BY <1>1, LineGrows DEF ReaderInv
<1>3. OneLine'
  <2>1. PICK n \in Nat : n = Len(Line)
    BY LineTyped DEF ReaderInv
  <2>2. \A i \in 1 .. n : Line[i] # LF
    <3>1. n # 0 => Line[n] # LF
      <4>1. n # 0 => Line # <<>> /\ Last(Line) = Line[n]
        BY <2>1 DEF Last
      <4> QED
        BY <1>1, <4>1 DEF LineRead
    <3>2. \A i \in 1 .. n : i = n \/ i \in 1 .. n - 1
      OBVIOUS
    <3> QED
      BY <2>1, <3>1, <3>2 DEF ReaderInv, OneLine
  <2>3. Len(Line') = n + 1 /\ \A i \in 1 .. n : Line'[i] = Line[i]
    <3>1. Line \in Seq(Byte) /\ stream \in Seq(Byte)
      BY LineTyped DEF ReaderInv, ReaderTyped
    <3> QED
      BY <1>1, <1>2, <2>1, <3>1, ByteMoved
  <2> QED
    BY <2>2, <2>3 DEF OneLine
<1>4. HeadersSent'
  BY <1>1 DEF ReaderInv, HeadersSent
<1>5. WhereItReads'
  <2>1. PICK j \in 0 .. Len(form.lines) : Behind(form, j)
    BY <1>1 DEF ReaderInv, WhereItReads
  <2>2. Behind(form, j)'
    BY <1>1, <1>2, <2>1 DEF Behind
  <2> QED
    BY <2>1, <2>2 DEF WhereItReads
<1>6. reading' = "line"
  BY <1>1
<1> QED
  BY <1>2, <1>3, <1>4, <1>5, <1>6 DEF ReaderInv

LEMMA ByteMissing ==
  ASSUME form' = form, ReaderInv, NoByte
  PROVE  ReaderInv'
<1>1. reading' = "false" /\ UNCHANGED <<stream, fixed, glowable, headers>>
  BY DEF NoByte
<1>2. Line' = Line
  BY <1>1 DEF Line
<1>3. ReaderTyped'
  BY <1>1 DEF ReaderInv, ReaderTyped
<1>4. OneLine' /\ HeadersSent'
  BY <1>1, <1>2 DEF ReaderInv, OneLine, HeadersSent
<1> QED
  BY <1>1, <1>3, <1>4 DEF ReaderInv

LEMMA HeadersMoved ==
  ASSUME NEW f \in Forms, NEW g \in Seq(Pair), NEW j \in 0 .. Len(f.lines) - 1
  PROVE  Then(g, HeadersLeft(f)[j]) = Then(g \o HeaderOf(f.lines[j + 1]), HeadersLeft(f)[j + 1])
<1>1. PICK h, r : h = HeaderOf(f.lines[j + 1]) /\ r = HeadersLeft(f)[j + 1]
  OBVIOUS
<1>2. h \in Seq(Pair)
  <2>1. j + 1 \in 1 .. Len(f.lines)
    BY FormLines
  <2>2. f.lines[j + 1] \in HeaderLines
    BY <2>1, FormLines
  <2> QED
    BY <1>1, <2>2, HeaderOfIs
<1>3. r \in Seq(Pair) /\ HeadersLeft(f)[j] = Then(h, r)
  BY <1>1, LeftIs
<1>4. r \in Seq(Pair)
  BY <1>3
<1>5. (g \o h) \o r = g \o (h \o r)
  BY <1>2, <1>4, ConcatAssociative
<1>6. Then(g, Then(h, r)) = Then(g \o h, r)
  BY <1>5 DEF Then
<1> QED
  BY <1>1, <1>3, <1>6

(* The headers of a line go where they belong.                             *)
LEMMA HeadersGrow ==
  ASSUME NEW j \in Nat, NEW m \in Nat, m = Len(form.lines), j < m, form \in Forms, form' = form,
         headers \in Seq(Pair), HeadersSent, Then(headers, HeadersLeft(form)[j]) = AllHeaders(form),
         headers' = headers \o HeaderOf(form.lines[j + 1])
  PROVE  /\ headers' \in Seq(Pair) /\ HeadersSent'
         /\ Then(headers', HeadersLeft(form)[j + 1]) = AllHeaders(form)
<1>1. j + 1 \in 1 .. m /\ j \in 0 .. m - 1 /\ j + 1 \in 0 .. m
  OBVIOUS
<1>2. PICK l : l = form.lines[j + 1]
  OBVIOUS
<1>3. l \in HeaderLines
  BY <1>1, <1>2, FormLines
<1>4. PICK h : h = HeaderOf(l)
  OBVIOUS
<1>5. h \in Seq(Pair)
  BY <1>3, <1>4, HeaderOfIs
<1>6. PICK r : r = HeadersLeft(form)[j + 1]
  OBVIOUS
<1>7. r \in Seq(Pair) /\ HeadersLeft(form)[j] = Then(h, r)
  BY <1>1, <1>2, <1>4, <1>6, LeftIs
<1>8. headers' = headers \o h
  BY <1>2, <1>4
<1>9. headers' \in Seq(Pair)
  BY <1>5, <1>8
<1>10. j \in 0 .. Len(form.lines) - 1
  BY <1>1
<1>11. Then(headers', r) = AllHeaders(form)
  <2>1. Then(headers, HeadersLeft(form)[j]) = Then(headers \o HeaderOf(form.lines[j + 1]), HeadersLeft(form)[j + 1])
    BY <1>10, HeadersMoved
  <2> QED
    BY <1>6, <2>1
<1>12. HeadersSent'
  <2>1. SUFFICES ASSUME NEW i \in 1 .. Len(headers')
        PROVE  \E k \in 1 .. m : SentBy(form.lines[k], headers'[i])
    BY DEF HeadersSent
  <2>2. PICK a \in Nat : a = Len(headers)
    OBVIOUS
  <2>3. /\ Len(headers') = a + Len(h)
        /\ \A k \in 1 .. a : headers'[k] = headers[k]
        /\ \A k \in 1 .. Len(h) : headers'[a + k] = h[k]
    BY <1>5, <1>8, <2>2, ConcatIs
  <2>4. CASE i <= a
    <3>1. i \in 1 .. a
      BY <2>4
    <3> QED
      BY <2>2, <2>3, <3>1 DEF HeadersSent
  <2>5. CASE i > a
    <3>1. l.end = <<CR, LF>> /\ l.value # <<>>
      <4>1. h # <<>>
        BY <2>3, <2>5
      <4> QED
        BY <1>4, <4>1 DEF HeaderOf
    <3>2. PICK p : p = <<l.name, l.value>>
      OBVIOUS
    <3>3. h = <<p>>
      BY <1>4, <3>1, <3>2 DEF HeaderOf
    <3>4. Len(h) = 1 /\ h[1] = p
      BY <3>3
    <3>5. i = a + 1
      BY <2>3, <2>5, <3>4
    <3>6. headers'[i] = p
      BY <2>3, <3>4, <3>5
    <3>7. SentBy(form.lines[j + 1], headers'[i])
      BY <1>2, <3>1, <3>2, <3>6 DEF SentBy
    <3> QED
      BY <1>1, <3>7
  <2> QED
    BY <2>4, <2>5
<1> QED
  BY <1>6, <1>9, <1>11, <1>12

(* A whole line, and where the reader is behind it.                        *)
LEMMA WholeLine ==
  ASSUME form \in Forms, ReaderInv, reading = "line", LineRead
  PROVE  \/ /\ Line = <<CR, LF>> /\ headers = AllHeaders(form)
         \/ \E j \in 0 .. Len(form.lines) - 1 :
              /\ Line = LineText(form.lines[j + 1])
              /\ stream = TextLeft(form)[j + 1]
              /\ Then(headers, HeadersLeft(form)[j]) = AllHeaders(form)
<1>1. PICK a, s : a = Line /\ s = stream
  OBVIOUS
<1>2. a \in Seq(Byte) /\ s \in Seq(Byte)
  BY <1>1, LineTyped DEF ReaderInv, ReaderTyped
<1>3. a # <<>> /\ a[Len(a)] = LF /\ \A i \in 1 .. Len(a) - 1 : a[i] # LF
  BY <1>1 DEF LineRead, Last, ReaderInv, OneLine
<1>4. PICK m \in Nat : m = Len(form.lines)
  BY FormLines
<1>5. PICK j \in 0 .. m : Behind(form, j)
  BY <1>4 DEF ReaderInv, WhereItReads
<1>6. Then(a, s) = TextLeft(form)[j] /\ Then(headers, HeadersLeft(form)[j]) = AllHeaders(form)
  BY <1>1, <1>5 DEF Behind
<1>7. CASE j = m
  <2>1. TextLeft(form)[m] = <<CR, LF>> /\ HeadersLeft(form)[m] = <<>>
    BY <1>4, LeftIs
  <2>2. PICK t, r : t = <<CR, LF>> /\ r = <<>>
    OBVIOUS
  <2>3. t \in Seq(Byte) /\ Len(t) = 2 /\ t[1] = CR /\ t[2] = LF /\ r \in Seq(Byte)
    BY <2>2, LastLine
  <2>4. t # <<>> /\ t[Len(t)] = LF /\ \A i \in 1 .. Len(t) - 1 : t[i] # LF
    <3>1. CR # LF
      BY DEF CR, LF
    <3>2. t # <<>>
      <4>1. Len(t) # 0
        BY <2>3
      <4> QED
        BY <4>1
    <3>3. t[Len(t)] = LF
      BY <2>3
    <3>4. ASSUME NEW i \in 1 .. Len(t) - 1 PROVE t[i] # LF
      <4>1. i = 1
        BY <2>3
      <4> QED
        BY <2>3, <3>1, <4>1
    <3> QED
      BY <3>2, <3>3, <3>4
  <2>5. Then(a, s) = Then(t, r)
    <3>1. t \o <<>> = t
      BY <2>3
    <3> QED
      BY <1>6, <1>7, <2>1, <2>2, <3>1 DEF Then
  <2>6. a = t
    BY <1>2, <1>3, <2>3, <2>4, <2>5, LineSplit
  <2>7. headers = AllHeaders(form)
    <3>1. headers \in Seq(Pair)
      BY DEF ReaderInv, ReaderTyped
    <3>2. headers \o <<>> = headers
      BY <3>1
    <3> QED
      BY <1>6, <1>7, <2>1, <3>2 DEF Then
  <2> QED
    BY <1>1, <2>2, <2>6, <2>7
<1>8. CASE j # m
  <2>1. j \in 0 .. m - 1 /\ j + 1 \in 1 .. m /\ j + 1 \in 0 .. m
    BY <1>8
  <2>2. PICK t, r : t = LineText(form.lines[j + 1]) /\ r = TextLeft(form)[j + 1]
    OBVIOUS
  <2>3. r \in Seq(Byte) /\ TextLeft(form)[j] = Then(t, r)
    BY <1>4, <2>1, <2>2, LeftIs
  <2>4. form.lines[j + 1] \in HeaderLines
    BY <1>4, <2>1, FormLines
  <2>5. t \in Seq(Byte) /\ Len(t) > 2 /\ t[Len(t)] = LF /\ \A i \in 1 .. Len(t) - 1 : t[i] # LF
    BY <2>2, <2>4, LineEnd
  <2>6. t # <<>>
    BY <2>5
  <2>7. Then(a, s) = Then(t, r)
    BY <1>6, <2>3
  <2>8. a = t /\ s = r
    BY <1>2, <1>3, <2>3, <2>5, <2>6, <2>7, LineSplit
  <2> QED
    BY <1>1, <1>4, <1>6, <2>1, <2>2, <2>8
<1> QED
  BY <1>7, <1>8

(* The buffers are emptied for the next line.                              *)
LEMMA LineEmptied ==
  ASSUME ReaderTyped, fixed' = <<>>, glowable' = <<>>, stream' = stream,
         headers' \in Seq(Pair), reading' \in {"line", "true", "false"}
  PROVE  ReaderTyped' /\ OneLine' /\ Line' = <<>> /\ Then(Line', stream') = stream
<1>1. Line' = <<>>
  BY DEF Line
<1>2. FixedSize \in Nat \ {0}
  BY HeadersAssumption
<1>3. stream \in Seq(Byte)
  BY DEF ReaderTyped
<1>4. <<>> \in Seq(Byte) /\ Len(<<>>) = 0
  OBVIOUS
<1>5. ReaderTyped'
  BY <1>2, <1>3, <1>4 DEF ReaderTyped
<1>6. OneLine'
  BY <1>1, <1>4 DEF OneLine
<1>7. <<>> \o stream = stream
  BY <1>3
<1> QED
  BY <1>1, <1>5, <1>6, <1>7 DEF Then

LEMMA LineTaken ==
  ASSUME form \in Forms, form' = form, ReaderInv, HeaderRead
  PROVE  ReaderInv'
<1>1. /\ reading = "line" /\ LineRead /\ fixed' = <<>> /\ glowable' = <<>> /\ stream' = stream
      /\ CASE ~EndsWithCrlf -> UNCHANGED <<headers, reading>>
           [] EndsWithCrlf /\ Len(Line) = 2 -> reading' = "true" /\ UNCHANGED headers
           [] EndsWithCrlf /\ Len(Line) # 2 /\ Len(Line) > LineMax -> reading' = "false" /\ UNCHANGED headers
           [] OTHER -> /\ headers' = headers \o ParseHeader(SubSeq(Line, 1, Len(Line) - 2))
                       /\ UNCHANGED reading
  BY DEF HeaderRead
<1>2. ReaderTyped /\ HeadersSent /\ headers \in Seq(Pair)
  BY DEF ReaderInv, ReaderTyped
<1>3. CASE Line = <<CR, LF>> /\ headers = AllHeaders(form)
  <2>1. PICK t : t = <<CR, LF>>
    OBVIOUS
  <2>2. t \in Seq(Byte) /\ Len(t) = 2 /\ t[1] = CR /\ t[2] = LF
    BY <2>1, LastLine
  <2>3. EndsWithCrlf /\ Len(Line) = 2
    <3>1. Len(t) > 1 /\ t[Len(t) - 1] = CR /\ t[Len(t)] = LF
      BY <2>2
    <3>2. IsSuffix(<<CR, LF>>, t)
      BY <2>2, <3>1, EndsIs
    <3> QED
      BY <1>3, <2>1, <2>2, <3>2 DEF EndsWithCrlf
  <2>4. reading' = "true" \/ reading' = "false"
    BY <1>1, <2>3
  <2>5. headers' = headers
    BY <1>1, <2>3
  <2>6. ReaderTyped' /\ OneLine'
    BY <1>1, <1>2, <2>4, <2>5, LineEmptied
  <2>7. HeadersSent'
    BY <1>2, <2>5 DEF HeadersSent
  <2>8. reading' # "line" /\ headers' = AllHeaders(form')
    BY <1>3, <2>4, <2>5
  <2> QED
    BY <2>6, <2>7, <2>8 DEF ReaderInv
<1>4. ASSUME NEW j \in 0 .. Len(form.lines) - 1,
             Line = LineText(form.lines[j + 1]), stream = TextLeft(form)[j + 1],
             Then(headers, HeadersLeft(form)[j]) = AllHeaders(form)
      PROVE  ReaderInv'
  <2>1. PICK m \in Nat : m = Len(form.lines)
    BY FormLines
  <2>2. j \in Nat /\ j < m /\ j + 1 \in 1 .. m /\ j + 1 \in 0 .. m /\ j \in 0 .. m - 1
    BY <2>1
  <2>3. PICK l : l = form.lines[j + 1]
    OBVIOUS
  <2>4. l \in HeaderLines
    BY <2>1, <2>2, <2>3, FormLines
  <2>5. /\ Line \in Seq(Byte) /\ Len(Line) > 2 /\ Line[Len(Line)] = LF
        /\ Line[Len(Line) - 1] = CR <=> l.end = <<CR, LF>>
    BY <1>4, <2>3, <2>4, LineEnd
  <2>6. EndsWithCrlf <=> l.end = <<CR, LF>>
    <3>1. PICK t : t = Line
      OBVIOUS
    <3>2. t \in Seq(Byte) /\ Len(t) > 1 /\ t[Len(t)] = LF /\ (t[Len(t) - 1] = CR <=> l.end = <<CR, LF>>)
      BY <2>5, <3>1
    <3>3. IsSuffix(<<CR, LF>>, t) <=> t[Len(t) - 1] = CR /\ t[Len(t)] = LF
      BY <3>2, EndsIs
    <3> QED
      BY <3>1, <3>2, <3>3 DEF EndsWithCrlf
  <2>7. \/ reading' = "false" /\ headers' = headers
        \/ reading' = "line" /\ headers' = headers \o HeaderOf(l)
    <3>1. CASE ~EndsWithCrlf
      <4>1. headers' = headers /\ reading' = "line"
        BY <1>1, <3>1
      <4>2. HeaderOf(l) = <<>>
        BY <2>6, <3>1 DEF HeaderOf
      <4>3. headers \o <<>> = headers
        BY <1>2
      <4> QED
        BY <4>1, <4>2, <4>3
    <3>2. CASE EndsWithCrlf /\ Len(Line) > LineMax
      <4>1. Len(Line) # 2
        BY <2>5
      <4> QED
        BY <1>1, <3>2, <4>1
    <3>3. CASE EndsWithCrlf /\ ~(Len(Line) > LineMax)
      <4>1. Len(Line) # 2
        BY <2>5
      <4>2. headers' = headers \o ParseHeader(SubSeq(Line, 1, Len(Line) - 2)) /\ reading' = reading
        BY <1>1, <3>3, <4>1
      <4>3. ParseHeader(SubSeq(Line, 1, Len(Line) - 2)) = HeaderOf(l)
        BY <1>4, <2>3, <2>4, <2>6, <3>3, ParseHeaderIs
      <4> QED
        BY <1>1, <4>2, <4>3
    <3> QED
      BY <3>1, <3>2, <3>3
  <2>8. CASE reading' = "false" /\ headers' = headers
    <3>1. ReaderTyped' /\ OneLine'
      BY <1>1, <1>2, <2>8, LineEmptied
    <3>2. HeadersSent'
      BY <1>2, <2>8 DEF HeadersSent
    <3> QED
      BY <2>8, <3>1, <3>2 DEF ReaderInv
  <2>9. CASE reading' = "line" /\ headers' = headers \o HeaderOf(l)
    <3>1. /\ headers' \in Seq(Pair) /\ HeadersSent'
          /\ Then(headers', HeadersLeft(form)[j + 1]) = AllHeaders(form)
      BY <1>2, <1>4, <2>1, <2>2, <2>3, <2>9, HeadersGrow
    <3>2. ReaderTyped' /\ OneLine' /\ Then(Line', stream') = stream
      BY <1>1, <1>2, <2>9, <3>1, LineEmptied
    <3>3. Behind(form, j + 1)'
      BY <1>4, <3>1, <3>2 DEF Behind
    <3>4. WhereItReads'
      BY <2>1, <2>2, <3>3 DEF WhereItReads
    <3> QED
      BY <2>9, <3>1, <3>2, <3>4 DEF ReaderInv
  <2> QED
    BY <2>7, <2>8, <2>9
<1> QED
  BY <1>1, <1>3, <1>4, WholeLine

LEMMA ReaderStarts ==
  ASSUME form \in Forms, ReaderInit(HeadText(form))
  PROVE  ReaderInv
<1>1. stream = HeadText(form) /\ fixed = <<>> /\ glowable = <<>> /\ headers = <<>> /\ reading = "line"
  BY DEF ReaderInit
<1>2. PICK m \in Nat : m = Len(form.lines)
  BY FormLines
<1>3. 0 \in 0 .. m
  OBVIOUS
<1>4. /\ TextLeft(form) \in [0 .. m -> Seq(Byte)] /\ TextLeft(form)[0] = HeadText(form)
      /\ HeadersLeft(form) \in [0 .. m -> Seq(Pair)] /\ HeadersLeft(form)[0] = AllHeaders(form)
  BY <1>2, LeftIs
<1>5. HeadText(form) \in Seq(Byte) /\ AllHeaders(form) \in Seq(Pair)
  BY <1>3, <1>4
<1>6. <<>> \o HeadText(form) = HeadText(form) /\ <<>> \o AllHeaders(form) = AllHeaders(form)
  BY <1>5
<1>7. Line = <<>>
  BY <1>1 DEF Line
<1>8. Behind(form, 0)
  BY <1>1, <1>4, <1>6, <1>7 DEF Behind, Then
<1>9. WhereItReads
  BY <1>2, <1>3, <1>8 DEF WhereItReads
<1>10. ReaderTyped
  <2>1. FixedSize \in Nat \ {0}
    BY HeadersAssumption
  <2>2. <<>> \in Seq(Byte) /\ Len(<<>>) = 0 /\ <<>> \in Seq(Pair)
    OBVIOUS
  <2> QED
    BY <1>1, <1>5, <2>1, <2>2 DEF ReaderTyped
<1>11. OneLine /\ HeadersSent
  BY <1>1, <1>7 DEF OneLine, HeadersSent
<1> QED
  BY <1>1, <1>9, <1>10, <1>11 DEF ReaderInv

(* A form of fields is not read as one of files.                           *)
LEMMA FieldsNotParsed ==
  ASSUME form \in Forms, ReaderInv, IsMultipart, HasBoundary
  PROVE  form \in MultipartForms
<1>1. SUFFICES ASSUME form \in QueryForms PROVE FALSE
  BY FormsAssumption
<1>2. PICK named : named = {i \in DOMAIN headers : headers[i][1] = ContentType}
  OBVIOUS
<1>3. headers \in Seq(Pair) /\ HeadersSent
  BY DEF ReaderInv, ReaderTyped
<1>4. PICK v : v = HeaderValue(ContentType)
  OBVIOUS
<1>5. IsPrefix(<<77>>, v) /\ Len(v) > 1
  BY <1>4 DEF IsMultipart, HasBoundary
<1>6. named # {}
  <2>1. SUFFICES ASSUME named = {} PROVE FALSE
    OBVIOUS
  <2>2. v = <<>>
    BY <1>2, <1>4, <2>1 DEF HeaderValue
  <2> QED
    BY <1>5, <2>2
<1>7. named \subseteq Nat
  BY <1>2, <1>3
<1>8. PICK i \in named : \A k \in named : i <= k
  BY <1>6, <1>7, LeastNumber
<1>9. Min(named) = i
  <2>1. named \subseteq Int
    BY <1>7
  <2> QED
    BY <1>8, <2>1, MinIs
<1>10. v = headers[i][2] /\ i \in 1 .. Len(headers) /\ headers[i][1] = ContentType
  BY <1>2, <1>3, <1>4, <1>6, <1>8, <1>9 DEF HeaderValue
<1>11. PICK k \in 1 .. Len(form.lines) : SentBy(form.lines[k], headers[i])
  BY <1>3, <1>10 DEF HeadersSent
<1>12. PICK l : l = form.lines[k]
  OBVIOUS
<1>13. l.end = <<CR, LF>> /\ headers[i] = <<l.name, l.value>>
  BY <1>11, <1>12 DEF SentBy
<1>14. l.name = ContentType /\ l.value = v
  BY <1>10, <1>13
<1>15. ~SaysFiles(l)
  <2>1. DOMAIN form.lines = 1 .. Len(form.lines)
    BY FormLines
  <2>2. \A n \in DOMAIN form.lines : ~SaysFiles(form.lines[n])
    BY <1>1 DEF QueryForms
  <2> QED
    BY <1>11, <1>12, <2>1, <2>2
<1>16. v = <<77>>
  BY <1>5, <1>13, <1>14, <1>15 DEF SaysFiles
<1> QED
  BY <1>5, <1>16

-----------------------------------------------------------------------------
(***************************************************************************)
(* The parser of files.                                                    *)

(* The text the parser has yet to take apart. *)
Ahead == Then(buf, unread)

(* The parser takes its next m characters.                                 *)
LEMMA Taken ==
  ASSUME NEW b \in Text, NEW u \in Text, NEW c \in Text, NEW x \in Text, Then(b, u) = Then(c, x),
         NEW m \in Nat, m <= Len(b), m <= Len(c)
  PROVE  /\ Drop(b, m) \in Text /\ Drop(c, m) \in Text
         /\ Then(Drop(b, m), u) = Then(Drop(c, m), x)
         /\ SubSeq(b, 1, m) = SubSeq(c, 1, m) /\ SubSeq(c, 1, m) \in Text
         /\ Then(SubSeq(c, 1, m), Drop(c, m)) = c
<1>1. b \in Seq(Chars) /\ u \in Seq(Chars) /\ c \in Seq(Chars) /\ x \in Seq(Chars)
  BY DEF Text
<1>2. m \in 0 .. Len(b) /\ m \in 0 .. Len(c)
  OBVIOUS
<1>3. PICK w : w = b \o u
  OBVIOUS
<1>4. w = c \o x
  BY <1>3 DEF Then
<1>5. Drop(w, m) = Drop(b, m) \o u
  BY <1>1, <1>2, <1>3, DropConcat
<1>6. Drop(w, m) = Drop(c, m) \o x
  BY <1>1, <1>2, <1>4, DropConcat
<1>7. Drop(b, m) \in Text /\ Drop(c, m) \in Text
  BY <1>1, <1>2, DropIs DEF Text
<1>8. /\ \A i \in 1 .. Len(b) : w[i] = b[i]
      /\ \A i \in 1 .. Len(c) : w[i] = c[i]
  <2>1. \A i \in 1 .. Len(b) : (b \o u)[i] = b[i]
    BY <1>1, ConcatIs
  <2>2. \A i \in 1 .. Len(c) : (c \o x)[i] = c[i]
    BY <1>1, ConcatIs
  <2> QED
    BY <1>3, <1>4, <2>1, <2>2
<1>9. PICK p, q : p = SubSeq(b, 1, m) /\ q = SubSeq(c, 1, m)
  OBVIOUS
<1>10. p \in Seq(Chars) /\ Len(p) = m /\ \A i \in 1 .. m : p[i] = b[i]
  <2>1. \A i \in 1 .. m : i \in 1 .. Len(b)
    BY <1>2
  <2>2. \A i \in 1 .. m : b[i] \in Chars
    BY <1>1, <2>1
  <2> QED
    BY <1>9, <2>2, SubSeqProperties
<1>11. q \in Seq(Chars) /\ Len(q) = m /\ \A i \in 1 .. m : q[i] = c[i]
  <2>1. \A i \in 1 .. m : i \in 1 .. Len(c)
    BY <1>2
  <2>2. \A i \in 1 .. m : c[i] \in Chars
    BY <1>1, <2>1
  <2> QED
    BY <1>9, <2>2, SubSeqProperties
<1>12. p = q
  <2>1. \A i \in 1 .. m : p[i] = q[i]
    <3>1. \A i \in 1 .. m : i \in 1 .. Len(b) /\ i \in 1 .. Len(c)
      BY <1>2
    <3> QED
      BY <1>8, <1>10, <1>11, <3>1
  <2> QED
    BY <1>10, <1>11, <2>1, SeqEqual
<1>13. q \o Drop(c, m) = c
  <2>1. PICK d : d = Drop(c, m)
    OBVIOUS
  <2>2. d \in Seq(Chars) /\ Len(d) = Len(c) - m /\ \A i \in 1 .. Len(c) - m : d[i] = c[m + i]
    BY <1>1, <1>2, <2>1, DropIs
  <2>3. PICK e : e = q \o d
    OBVIOUS
  <2>4. /\ e \in Seq(Chars) /\ Len(e) = m + (Len(c) - m)
        /\ \A i \in 1 .. m : e[i] = q[i]
        /\ \A i \in 1 .. Len(c) - m : e[m + i] = d[i]
    <3>1. q \in Seq(Chars) /\ d \in Seq(Chars)
      BY <1>11, <2>2
    <3>2. /\ q \o d \in Seq(Chars) /\ Len(q \o d) = Len(q) + Len(d)
          /\ \A i \in 1 .. Len(q) : (q \o d)[i] = q[i]
          /\ \A i \in 1 .. Len(d) : (q \o d)[Len(q) + i] = d[i]
      BY <3>1, ConcatIs
    <3> QED
      BY <1>11, <2>2, <2>3, <3>2
  <2>5. PICK n \in Nat : n = Len(c)
    BY <1>1
  <2>6. Len(e) = n
    BY <1>2, <2>4, <2>5
  <2>7. ASSUME NEW i \in 1 .. n PROVE e[i] = c[i]
    <3>1. CASE i <= m
      <4>1. i \in 1 .. m
        BY <3>1
      <4> QED
        BY <1>11, <2>4, <4>1
    <3>2. CASE i > m
      <4>1. i - m \in 1 .. n - m /\ m + (i - m) = i
        BY <3>2
      <4> QED
        BY <2>2, <2>4, <2>5, <4>1
    <3> QED
      BY <3>1, <3>2
  <2>8. e = c
    BY <1>1, <2>4, <2>5, <2>6, <2>7, SeqEqual
  <2> QED
    BY <2>1, <2>3, <2>8
<1> QED
  BY <1>5, <1>6, <1>7, <1>9, <1>11, <1>12, <1>13 DEF Then, Text

LEMMA TakenAll ==
  ASSUME NEW b \in Text, NEW u \in Text, NEW c \in Text, NEW x \in Text, Then(b, u) = Then(c, x),
         Len(c) <= Len(b)
  PROVE  Drop(b, Len(c)) \in Text /\ Then(Drop(b, Len(c)), u) = x /\ SubSeq(b, 1, Len(c)) = c
<1>1. PICK m \in Nat : m = Len(c)
  BY DEF Text
<1>2. /\ Drop(b, m) \in Text
      /\ Then(Drop(b, m), u) = Then(Drop(c, m), x)
      /\ SubSeq(b, 1, m) = SubSeq(c, 1, m)
  BY <1>1, Taken
<1>3. Drop(c, m) = <<>>
  BY <1>1 DEF Drop
<1>4. SubSeq(c, 1, m) = c
  BY <1>1, SubSeqFull DEF Text
<1> QED
  BY <1>1, <1>2, <1>3, <1>4, NoneIs

(* The parser takes a line or a boundary that ends with this mark.         *)
LEMMA TakenWith ==
  ASSUME NEW b \in Text, NEW u \in Text, NEW c \in Text, NEW t \in Text, NEW x \in Text,
         Then(b, u) = Then(c, Then(t, x)), Len(c) + Len(t) <= Len(b)
  PROVE  /\ Drop(b, Len(c) + Len(t)) \in Text
         /\ Then(Drop(b, Len(c) + Len(t)), u) = x /\ SubSeq(b, 1, Len(c)) = c
<1>1. PICK w : w = Then(c, t)
  OBVIOUS
<1>2. w \in Text /\ Len(w) = Len(c) + Len(t)
  <2>1. c \in Seq(Chars) /\ t \in Seq(Chars)
    BY DEF Text
  <2>2. c \o t \in Seq(Chars) /\ Len(c \o t) = Len(c) + Len(t)
    BY <2>1, ConcatIs
  <2> QED
    BY <1>1, <2>2 DEF Then, Text
<1>3. Then(b, u) = Then(w, x)
  BY <1>1, ThenIs
<1>4. Drop(b, Len(w)) \in Text /\ Then(Drop(b, Len(w)), u) = x
  <2>1. w \in Text /\ Len(w) <= Len(b)
    BY <1>2
  <2> QED
    BY <1>3, <2>1, TakenAll
<1>5. SubSeq(b, 1, Len(c)) = c
  <2>1. Len(c) <= Len(b)
    <3>1. Len(c) \in Nat /\ Len(t) \in Nat /\ Len(b) \in Nat
      BY DEF Text
    <3> QED
      BY <3>1
  <2>2. Then(t, x) \in Text
    BY ThenIs
  <2> QED
    BY <2>1, <2>2, TakenAll
<1> QED
  BY <1>2, <1>4, <1>5

LEMMA ErasedIs == Erased(0) = Drop(buf, 0) /\ \A n \in Nat : Erased(n) = Drop(buf, n)
BY DEF Erased, Drop

LEMMA DropTyped == ASSUME NEW b \in Text, NEW n \in Nat PROVE Drop(b, n) \in Text
<1>1. PICK l \in Nat : l = Len(b)
  BY DEF Text
<1>2. CASE n <= l
  <2>1. n \in 0 .. Len(b) /\ b \in Seq(Chars)
    BY <1>1, <1>2 DEF Text
  <2> QED
    BY <2>1, DropIs DEF Text
<1>3. CASE n > l
  <2>1. Drop(b, n) = <<>>
    BY <1>1, <1>3 DEF Drop
  <2> QED
    BY <2>1, NoneIs
<1> QED
  BY <1>2, <1>3

LEMMA FrontTyped == ASSUME NEW b \in Text, NEW n \in 0 .. Len(b) PROVE SubSeq(b, 1, n) \in Text
<1>1. \A i \in 1 .. n : b[i] \in Chars
  <2>1. \A i \in 1 .. n : i \in 1 .. Len(b)
    BY DEF Text
  <2> QED
    BY <2>1 DEF Text
<1>2. n \in Nat
  BY DEF Text
<1> QED
  BY <1>1, <1>2, SubSeqProperties DEF Text

LEMMA FindRange ==
  ASSUME buf \in Text, NEW t \in Text, Len(t) > 0
  PROVE  Find(t) \in 0 .. Len(buf)
<1>1. PICK m \in Nat, l \in Nat : m = Len(buf) /\ l = Len(t)
  BY DEF Text
<1>2. PICK at : at = {i \in 0 .. Len(buf) - Len(t) : IsPrefix(t, Erased(i))}
  OBVIOUS
<1>3. at \subseteq 0 .. m /\ at \subseteq Nat
  BY <1>1, <1>2
<1>4. CASE at = {}
  BY <1>1, <1>2, <1>4 DEF Find
<1>5. CASE at # {}
  <2>1. PICK p \in at : \A i \in at : p <= i
    BY <1>3, <1>5, LeastNumber
  <2>2. at \subseteq Int
    BY <1>3
  <2>3. Min(at) = p
    BY <2>1, <2>2, MinIs
  <2>4. Find(t) = p
    BY <1>2, <1>5, <2>3 DEF Find
  <2> QED
    BY <1>1, <1>3, <2>1, <2>4
<1> QED
  BY <1>4, <1>5

(* Where the reads must not end.                                           *)
LEMMA CutIs ==
  ASSUME form \in MultipartForms, NEW z, z = HeadName(form.files[1], After(form)[1])
  PROVE  /\ z \in Text /\ ContentText(form) = Then(form.preamble, Then(DashBoundaryCrlf, z))
         /\ Len(form.epilogue) \in Nat
         /\ \A left \in Nat : CutsAt(left) <=> \/ left \in Len(z) + 1 .. Len(z) + 4
                                                \/ left \in 1 .. Len(form.epilogue)
<1>1. Follows(form, After(form))
  BY AfterIs
<1>2. Len(form.files) \in Nat \ {0} /\ form.files[1] \in Files /\ form.kind = "multipart"
      /\ form.preamble \in Text /\ form.epilogue \in Text
  <2>1. Len(form.files) \in Nat \ {0} /\ \A i \in 1 .. Len(form.files) : form.files[i] \in Files
    BY FormIs
  <2>2. 1 \in 1 .. Len(form.files)
    BY <2>1
  <2> QED
    BY <2>1, <2>2, FormIs
<1>3. After(form)[1] \in Text
  BY <1>1, <1>2 DEF Follows
<1>4. z \in Text
  BY <1>2, <1>3, HeadTypes
<1>5. MultipartText(form) = Then(form.preamble, Then(DashBoundaryCrlf, z))
  BY <1>1 DEF Follows
<1>6. ContentText(form) = Then(form.preamble, Then(DashBoundaryCrlf, z))
  BY <1>2, <1>5 DEF ContentText
<1>7. PICK a \in Nat, b \in Nat, e \in Nat : a = Len(form.preamble) /\ b = Len(z) /\ e = Len(form.epilogue)
  BY <1>2, <1>4 DEF Text
<1>8. Len(ContentText(form)) = a + 5 + b
  <2>1. PICK y : y = Then(DashBoundaryCrlf, z)
    OBVIOUS
  <2>2. y \in Seq(Chars) /\ Len(y) = 5 + b
    <3>1. DashBoundaryCrlf \in Seq(Chars) /\ z \in Seq(Chars)
      BY <1>4, Marks DEF Text
    <3>2. Len(DashBoundaryCrlf) = 5
      BY Marks
    <3>3. DashBoundaryCrlf \o z \in Seq(Chars) /\ Len(DashBoundaryCrlf \o z) = Len(DashBoundaryCrlf) + Len(z)
      BY <3>1, ConcatIs
    <3> QED
      BY <1>7, <2>1, <3>2, <3>3 DEF Then
  <2>3. form.preamble \in Seq(Chars)
    BY <1>2 DEF Text
  <2>4. Len(form.preamble \o y) = Len(form.preamble) + Len(y)
    BY <2>2, <2>3, ConcatIs
  <2>5. ContentText(form) = form.preamble \o y
    BY <1>6, <2>1 DEF Then
  <2>6. Len(ContentText(form)) = Len(form.preamble) + Len(y)
    BY <2>4, <2>5, Zenon
  <2>7. PICK p, q, r : p = Len(form.preamble) /\ q = Len(y) /\ r = Len(ContentText(form))
    OBVIOUS
  <2>8. p = a /\ q = 5 + b /\ r = p + q
    BY <1>7, <2>2, <2>6, <2>7, Zenon
  <2>9. r = a + 5 + b
    BY <2>8
  <2> QED
    BY <2>7, <2>9, Zenon
<1>9. ASSUME NEW left \in Nat
      PROVE  CutsAt(left) <=> left \in b + 1 .. b + 4 \/ left \in 1 .. e
  <2>1. PICK r \in Int : r = (a + 5 + b) - left
    OBVIOUS
  <2>2. CutsAt(left) <=> r \in a + 1 .. a + 4 \/ left \in 1 .. e
    <3>1. Len(DashBoundaryCrlf) - 1 = 4
      BY Marks
    <3>2. a + Len(DashBoundaryCrlf) - 1 = a + 4
      BY Marks
    <3> QED
      BY <1>2, <1>7, <1>8, <2>1, <3>2 DEF CutsAt
  <2>3. r \in a + 1 .. a + 4 <=> left \in b + 1 .. b + 4
    BY <2>1
  <2> QED
    BY <2>2, <2>3
<1> QED
  BY <1>4, <1>6, <1>7, <1>9

Head2     == [name : Names \cup {""}, type : Types \cup {""}]
WrittenTo == [name : Names \cup {""}, type : Types \cup {""}, content : Text]

ParserTyped ==
  /\ buf \in Text /\ unread \in Text
  /\ state \in {"initial", "entry", "headers", "body", "boundary"}
  /\ valid \in BOOLEAN
  /\ file \in Head2
  /\ files \in Seq(WrittenTo) /\ Len(files) <= FileMax
  /\ parsing \in {"loop", "lines", "more", "false"}
  /\ state = "body" => files # <<>>
  /\ parsing = "lines" => state = "headers"

LEMMA ContinueIs ==
  ASSUME NEW rest, Continue(rest)
  PROVE  buf' = rest /\ parsing' \in {"more", "loop"}
BY DEF Continue

LEMMA DescribedIs ==
  ASSUME NEW line, file \in Head2
  PROVE  Described(line) \in Head2
<1>1. CASE line[1] \in Names
  <2>0. line[1] \notin Types
    BY <1>1, MultipartAssumption
  <2>1. Described(line) = [file EXCEPT !.name = line[1]]
    BY <1>1, <2>0 DEF Described
  <2> QED
    BY <1>1, <2>1 DEF Head2
<1>2. CASE line[1] \notin Names /\ line[1] \in Types
  <2>1. Described(line) = [file EXCEPT !.type = line[1]]
    BY <1>2 DEF Described
  <2> QED
    BY <1>2, <2>1 DEF Head2
<1>3. CASE line[1] \notin Names /\ line[1] \notin Types
  BY <1>3 DEF Described
<1> QED
  BY <1>1, <1>2, <1>3

(* The content of the last file, and nothing else, gets longer.            *)
LEMMA WriteIs ==
  ASSUME files \in Seq(WrittenTo), files # <<>>, buf \in Text, NEW n \in 0 .. Len(buf), Write(n)
  PROVE  /\ files' \in Seq(WrittenTo) /\ Len(files') = Len(files)
         /\ \A k \in Nat \ {0} : k = Len(files) =>
              /\ files'[k].name = files[k].name /\ files'[k].type = files[k].type
              /\ files'[k].content = Then(files[k].content, SubSeq(buf, 1, n))
              /\ \A i \in 1 .. k - 1 : files'[i] = files[i]
<1>1. PICK k \in Nat \ {0} : k = Len(files)
  <2>1. Len(files) # 0
    BY EmptySeq
  <2> QED
    BY <2>1
<1>2. PICK part : part = SubSeq(buf, 1, n)
  OBVIOUS
<1>3. part \in Text
  BY <1>2, FrontTyped
<1>4. files' = [files EXCEPT ![k].content = @ \o part]
  BY <1>1, <1>2 DEF Write
<1>5. files \in [1 .. k -> WrittenTo]
  BY <1>1
<1>6. \A i \in 1 .. k - 1 : i \in 1 .. k /\ i # k
  OBVIOUS
<1>7. k \in 1 .. k
  OBVIOUS
<1>8. files[k] \in WrittenTo
  BY <1>5, <1>7
<1>9. PICK r : r = [files[k] EXCEPT !.content = @ \o part]
  OBVIOUS
<1>10. r \in WrittenTo /\ r.name = files[k].name /\ r.type = files[k].type
       /\ r.content = Then(files[k].content, part)
  <2>1. files[k].content \in Text
    BY <1>8 DEF WrittenTo
  <2>2. Then(files[k].content, part) \in Text
    BY <1>3, <2>1, ThenIs
  <2>3. PICK c \in Text : c = Then(files[k].content, part)
    BY <2>2
  <2>4. r = [files[k] EXCEPT !.content = c]
    BY <1>9, <2>3 DEF Then
  <2>5. PICK q \in WrittenTo : q = files[k]
    BY <1>8
  <2>6. r = [q EXCEPT !.content = c]
    BY <2>4, <2>5
  <2>7. r \in WrittenTo /\ r.name = q.name /\ r.type = q.type /\ r.content = c
    BY <2>6 DEF WrittenTo
  <2> QED
    BY <2>3, <2>5, <2>7
<1>11. files' = [files EXCEPT ![k] = r]
  BY <1>4, <1>9
<1>12. /\ files' \in [1 .. k -> WrittenTo] /\ files'[k] = r
       /\ \A i \in 1 .. k - 1 : files'[i] = files[i]
  BY <1>5, <1>6, <1>7, <1>10, <1>11
<1>13. files' \in Seq(WrittenTo) /\ Len(files') = k
  BY <1>12
<1> QED
  BY <1>1, <1>2, <1>10, <1>12, <1>13

LEMMA WriteTyped ==
  ASSUME ParserTyped, state = "body", NEW n \in 0 .. Len(buf), Write(n)
  PROVE  files' \in Seq(WrittenTo) /\ Len(files') <= FileMax /\ files' # <<>>
<1>1. files \in Seq(WrittenTo) /\ files # <<>> /\ buf \in Text /\ Len(files) <= FileMax
  BY DEF ParserTyped
<1>2. files' \in Seq(WrittenTo) /\ Len(files') = Len(files)
  BY <1>1, WriteIs
<1>3. Len(files) # 0
  BY <1>1, EmptySeq
<1>4. files' # <<>>
  BY <1>2, <1>3
<1> QED
  BY <1>1, <1>2, <1>4

LEMMA Marked ==
  /\ Crlf \in Text /\ Len(Crlf) = 2 /\ DashBoundaryCrlf \in Text /\ Len(DashBoundaryCrlf) = 5
  /\ CrlfDashBoundary \in Text /\ Len(CrlfDashBoundary) = 5 /\ DashCrlf \in Text /\ Len(DashCrlf) = 4
BY Marks DEF Text

LEMMA FindShort ==
  ASSUME buf \in Text, NEW t \in Text, Len(buf) < Len(t)
  PROVE  Find(t) = Len(buf)
<1>1. PICK m \in Nat, l \in Nat : m = Len(buf) /\ l = Len(t)
  BY DEF Text
<1>2. PICK at : at = {i \in 0 .. Len(buf) - Len(t) : IsPrefix(t, Erased(i))}
  OBVIOUS
<1>3. at = {}
  BY <1>1, <1>2
<1> QED
  BY <1>2, <1>3 DEF Find

(* What is at the front of the buffer is at the front of the text.         *)
LEMMA MarkAhead ==
  ASSUME buf \in Text
  PROVE  /\ IsPrefix(Crlf, buf) => Len(buf) >= 2 /\ buf[1] = "cr" /\ ~IsPrefix(DashCrlf, buf)
         /\ IsPrefix(DashCrlf, buf) => Len(buf) >= 4 /\ buf[1] = "-"
<1>1. buf \in Seq(Chars) /\ 0 \in 0 .. Len(buf) /\ Drop(buf, 0) = buf
  <2>1. buf \in Seq(Chars)
    BY DEF Text
  <2> QED
    BY <2>1, DropNone
<1>2. Crlf \in Seq(Chars) /\ Len(Crlf) = 2 /\ Crlf[1] = "cr"
  BY Marks
<1>3. DashCrlf \in Seq(Chars) /\ Len(DashCrlf) = 4 /\ DashCrlf[1] = "-"
  BY Marks
<1>4. IsPrefix(Crlf, buf) <=> At(Crlf, buf, 0)
  BY <1>1, <1>2, PrefixIs
<1>5. IsPrefix(DashCrlf, buf) <=> At(DashCrlf, buf, 0)
  BY <1>1, <1>3, PrefixIs
<1>6. At(Crlf, buf, 0) => 2 <= Len(buf) /\ buf[1] = "cr"
  <2>1. At(Crlf, buf, 0) => 0 + 2 <= Len(buf) /\ \A k \in 1 .. 2 : buf[0 + k] = Crlf[k]
    BY <1>2 DEF At
  <2>2. 1 \in 1 .. 2 /\ 0 + 1 = 1
    OBVIOUS
  <2> QED
    BY <1>1, <1>2, <2>1, <2>2
<1>7. At(DashCrlf, buf, 0) => 4 <= Len(buf) /\ buf[1] = "-"
  <2>1. At(DashCrlf, buf, 0) => 0 + 4 <= Len(buf) /\ \A k \in 1 .. 4 : buf[0 + k] = DashCrlf[k]
    BY <1>3 DEF At
  <2>2. 1 \in 1 .. 4 /\ 0 + 1 = 1
    OBVIOUS
  <2> QED
    BY <1>1, <1>3, <2>1, <2>2
<1>8. "cr" # "-"
  OBVIOUS
<1> QED
  BY <1>1, <1>4, <1>5, <1>6, <1>7, <1>8

(* Types of the parser, whatever is read.                                  *)
LEMMA ParserStepTyped ==
  ASSUME ParserTyped, ParserStep, unread' = unread
  PROVE  ParserTyped'
<1>0. PICK l \in Nat : l = Len(buf)
  BY DEF ParserTyped, Text
<1>1. /\ buf \in Text /\ <<>> \in Text /\ \A n \in Nat : Erased(n) \in Text
  BY DropTyped, ErasedIs, NoneIs DEF ParserTyped
<1>2. Find(Crlf) \in 0 .. l /\ Find(CrlfDashBoundary) \in 0 .. l /\ Find(DashBoundaryCrlf) \in 0 .. l
  <2>1. Len(Crlf) > 0 /\ Len(CrlfDashBoundary) > 0 /\ Len(DashBoundaryCrlf) > 0
    BY Marked
  <2> QED
    BY <1>0, <1>1, <2>1, Marked, FindRange
<1>3. CASE InitialBoundary
  <2>1. UNCHANGED <<valid, file, files>>
    BY <1>3 DEF InitialBoundary
  <2>2. CASE Find(DashBoundaryCrlf) = Len(buf)
    <3>1. buf' = <<>> /\ parsing' = "more" /\ state' = state
      BY <1>3, <2>2 DEF InitialBoundary, Return
    <3> QED
      BY <1>1, <2>1, <3>1 DEF ParserTyped
  <2>3. CASE Find(DashBoundaryCrlf) # Len(buf)
    <3>1. Continue(Erased(Find(DashBoundaryCrlf) + Len(DashBoundaryCrlf))) /\ state' = "entry"
      BY <1>3, <2>3 DEF InitialBoundary
    <3>2. Find(DashBoundaryCrlf) + Len(DashBoundaryCrlf) \in Nat
      BY <1>2, Marked
    <3>3. buf' \in Text /\ parsing' \in {"more", "loop"}
      BY <1>1, <3>1, <3>2, ContinueIs
    <3> QED
      BY <2>1, <3>1, <3>3 DEF ParserTyped
  <2> QED
    BY <2>2, <2>3
<1>4. CASE NewEntry
  <2>1. NoFile \in Head2
    BY DEF NoFile, Head2
  <2> QED
    BY <1>4, <2>1 DEF NewEntry, ParserTyped
<1>5. CASE Headers
  <2>1. /\ state = "headers" /\ buf' = buf /\ parsing' \in {"false", "lines"}
        /\ UNCHANGED <<state, valid, file, files>>
    BY <1>5 DEF Headers, Fail
  <2> QED
    BY <2>1 DEF ParserTyped
<1>6. CASE HeaderLine
  <2>1. /\ file' = Described(SubSeq(buf, 1, Find(Crlf)))
        /\ buf' = Erased(Find(Crlf) + Len(Crlf))
        /\ UNCHANGED <<state, valid, files, parsing>>
    BY <1>6 DEF HeaderLine
  <2>2. file' \in Head2
    BY <2>1, DescribedIs DEF ParserTyped
  <2>3. Find(Crlf) + Len(Crlf) \in Nat
    BY <1>2, Marked
  <2>4. buf' \in Text
    BY <1>1, <2>1, <2>3
  <2> QED
    BY <2>1, <2>2, <2>4 DEF ParserTyped
<1>7. CASE HeaderLineMissing
  BY <1>7 DEF HeaderLineMissing, Return, ParserTyped
<1>8. CASE HeadersEnd
  <2>1. CASE Len(files) = FileMax
    <3>1. buf' = buf /\ parsing' = "false" /\ valid' = FALSE /\ UNCHANGED <<state, files, file>>
      BY <1>8, <2>1 DEF HeadersEnd, Fail
    <3> QED
      BY <3>1 DEF ParserTyped
  <2>2. CASE Len(files) # FileMax
    <3>1. /\ Continue(Erased(Len(Crlf))) /\ state' = "body" /\ UNCHANGED <<valid, file>>
          /\ files' = Append(files, [name |-> file.name, type |-> file.type, content |-> <<>>])
      BY <1>8, <2>2 DEF HeadersEnd
    <3>2. PICK r : r = [name |-> file.name, type |-> file.type, content |-> <<>>]
      OBVIOUS
    <3>3. r \in WrittenTo
      BY <1>1, <3>2 DEF ParserTyped, Head2, WrittenTo
    <3>4. files' = Append(files, r) /\ files \in Seq(WrittenTo)
      BY <3>1, <3>2 DEF ParserTyped
    <3>5. files' \in Seq(WrittenTo) /\ Len(files') = Len(files) + 1
      BY <3>3, <3>4, AppendProperties
    <3>6. Len(files) \in Nat /\ FileMax \in Nat /\ Len(files) <= FileMax
      <4>1. Len(files) \in Nat
        BY <3>4
      <4>2. FileMax \in Nat
        BY MultipartAssumption
      <4>3. Len(files) <= FileMax
        BY DEF ParserTyped
      <4> QED
        BY <4>1, <4>2, <4>3
    <3>7. Len(files') <= FileMax /\ files' # <<>>
      BY <2>2, <3>5, <3>6
    <3>8. Len(Crlf) \in Nat
      BY Marked
    <3>9. buf' \in Text /\ parsing' \in {"more", "loop"}
      BY <1>1, <3>1, <3>8, ContinueIs
    <3> QED
      BY <3>1, <3>5, <3>7, <3>9 DEF ParserTyped
  <2> QED
    BY <2>1, <2>2
<1>9. CASE Body
  <2>0. state = "body" /\ UNCHANGED <<valid, file>>
    BY <1>9 DEF Body
  <2>1. CASE Len(CrlfDashBoundary) > Len(buf)
    <3>0. ~(Find(CrlfDashBoundary) < Len(buf))
      <4>1. Len(buf) < Len(CrlfDashBoundary)
        BY <1>0, <2>1, Marked
      <4>2. Find(CrlfDashBoundary) = Len(buf)
        BY <1>1, <4>1, Marked, FindShort
      <4> QED
        BY <1>0, <4>2
    <3>1. buf' = buf /\ parsing' = "more" /\ UNCHANGED <<files, state>>
      BY <1>9, <2>1, <3>0 DEF Body, Return
    <3> QED
      BY <2>0, <3>1 DEF ParserTyped
  <2>2. CASE ~(Len(CrlfDashBoundary) > Len(buf)) /\ Find(CrlfDashBoundary) < Len(buf)
    <3>1. /\ Write(Find(CrlfDashBoundary)) /\ state' = "boundary"
          /\ Continue(Erased(Find(CrlfDashBoundary) + Len(CrlfDashBoundary)))
      BY <1>9, <2>2 DEF Body
    <3>2. Find(CrlfDashBoundary) + Len(CrlfDashBoundary) \in Nat
      BY <1>2, Marked
    <3>3. buf' \in Text /\ parsing' \in {"more", "loop"}
      BY <1>1, <3>1, <3>2, ContinueIs
    <3>4. Find(CrlfDashBoundary) \in 0 .. Len(buf)
      BY <1>0, <1>2
    <3>5. files' \in Seq(WrittenTo) /\ Len(files') <= FileMax
      BY <2>0, <3>1, <3>4, WriteTyped
    <3> QED
      BY <2>0, <3>1, <3>3, <3>5 DEF ParserTyped
  <2>3. CASE ~(Len(CrlfDashBoundary) > Len(buf)) /\ ~(Find(CrlfDashBoundary) < Len(buf))
    <3>1. /\ Write(Len(buf) - Len(CrlfDashBoundary)) /\ state' = state
          /\ Return(Erased(Len(buf) - Len(CrlfDashBoundary)))
      BY <1>9, <2>3 DEF Body
    <3>2. Len(buf) - Len(CrlfDashBoundary) \in 0 .. Len(buf)
      BY <1>0, <2>3, Marked
    <3>3. buf' \in Text /\ parsing' = "more"
      BY <1>1, <3>1, <3>2 DEF Return
    <3>4. files' \in Seq(WrittenTo) /\ Len(files') <= FileMax /\ files' # <<>>
      BY <2>0, <3>1, <3>2, WriteTyped
    <3> QED
      BY <2>0, <3>1, <3>3, <3>4 DEF ParserTyped
  <2> QED
    BY <2>1, <2>2, <2>3
<1>10. CASE Boundary
  <2>1. UNCHANGED <<file, files>> /\ state = "boundary"
    BY <1>10 DEF Boundary
  <2>2. buf' \in Text /\ parsing' \in {"more", "loop"} /\ state' \in {"entry", "boundary"} /\ valid' \in BOOLEAN
    <3>0. valid \in BOOLEAN
      BY DEF ParserTyped
    <3>1. CASE IsPrefix(Crlf, buf)
      <4>0. ~IsPrefix(DashCrlf, buf)
        BY <1>1, <3>1, MarkAhead
      <4>1. Continue(Erased(Len(Crlf))) /\ state' = "entry" /\ valid' = valid
        BY <1>10, <3>1, <4>0 DEF Boundary
      <4>2. Erased(Len(Crlf)) \in Text
        BY <1>1, Marked
      <4> QED
        BY <1>1, <2>1, <3>0, <4>1, <4>2, ContinueIs
    <3>2. CASE ~IsPrefix(Crlf, buf) /\ IsPrefix(DashCrlf, buf)
      <4>1. Continue(<<>>) /\ valid' = TRUE /\ state' = state
        BY <1>10, <3>2 DEF Boundary
      <4> QED
        BY <1>1, <2>1, <4>1, ContinueIs
    <3>3. CASE ~IsPrefix(Crlf, buf) /\ ~IsPrefix(DashCrlf, buf)
      <4>1. buf' = buf /\ parsing' = "more" /\ UNCHANGED <<state, valid>>
        BY <1>10, <3>3 DEF Boundary, Return
      <4> QED
        BY <1>1, <2>1, <3>0, <4>1
    <3> QED
      BY <3>1, <3>2, <3>3
  <2> QED
    BY <2>1, <2>2 DEF ParserTyped
<1> QED
  BY <1>3, <1>4, <1>5, <1>6, <1>7, <1>8, <1>9, <1>10 DEF ParserStep

(* A read gives its bytes to the parser and keeps the text ahead.          *)
LEMMA ReadMoves ==
  ASSUME buf \in Text, unread \in Text, NEW n \in DOMAIN unread,
         buf' = buf \o SubSeq(unread, 1, n), unread' = SubSeq(unread, n + 1, Len(unread))
  PROVE  buf' \in Text /\ unread' \in Text /\ Ahead' = Ahead
<1>1. PICK l \in Nat : l = Len(unread)
  BY DEF Text
<1>2. n \in 1 .. l /\ DOMAIN unread = 1 .. l
  BY <1>1 DEF Text
<1>3. PICK a, d : a = SubSeq(unread, 1, n) /\ d = Drop(unread, n)
  OBVIOUS
<1>4. unread \in Text /\ n \in 0 .. Len(unread)
  BY <1>1, <1>2
<1>5. a \in Text
  BY <1>3, <1>4, FrontTyped
<1>6. d \in Text /\ unread' = d
  <2>1. n \in Nat
    BY <1>2
  <2>2. d \in Text
    BY <1>3, <1>4, <2>1, DropTyped
  <2> QED
    BY <1>3, <2>2 DEF Drop
<1>7. Then(a, d) = unread
  <2>1. n \in Nat /\ n <= Len(unread)
    BY <1>1, <1>2
  <2>2. Then(SubSeq(unread, 1, n), Drop(unread, n)) = unread
    BY <2>1, NoneIs, Taken
  <2> QED
    BY <1>3, <2>2
<1>8. buf' = Then(buf, a)
  BY <1>3 DEF Then
<1>9. buf' \in Text
  BY <1>5, <1>8, ThenIs
<1>10. Then(buf', d) = Then(buf, unread)
  <2>1. Then(Then(buf, a), d) = Then(buf, Then(a, d))
    BY <1>5, <1>6, ThenIs
  <2> QED
    BY <1>7, <1>8, <2>1, Zenon
<1> QED
  BY <1>6, <1>9, <1>10 DEF Ahead

LEMMA ReadTyped ==
  ASSUME ParserTyped, NEW n \in DOMAIN unread, Parse(SubSeq(unread, 1, n)),
         unread' = SubSeq(unread, n + 1, Len(unread))
  PROVE  ParserTyped' /\ Ahead' = Ahead /\ parsing = "more" /\ UNCHANGED <<state, valid, file, files>>
<1>1. /\ parsing = "more" /\ Continue(buf \o SubSeq(unread, 1, n))
      /\ UNCHANGED <<state, valid, file, files>>
  BY DEF Parse
<1>2. buf' = buf \o SubSeq(unread, 1, n) /\ parsing' \in {"more", "loop"}
  BY <1>1, ContinueIs
<1>3. buf' \in Text /\ unread' \in Text /\ Ahead' = Ahead
  BY <1>2, ReadMoves DEF ParserTyped
<1> QED
  BY <1>1, <1>2, <1>3 DEF ParserTyped

(* The parser has found t behind c and in front of x. *)
Met(c, t, x) ==
  /\ Find(t) = Len(c) /\ Len(c) + Len(t) <= Len(buf)
  /\ Erased(Find(t) + Len(t)) \in Text
  /\ Then(Erased(Find(t) + Len(t)), unread) = x
  /\ SubSeq(buf, 1, Find(t)) = c

NotYet(c, t) == Find(t) = Len(buf) /\ Len(buf) < Len(c) + Len(t)

FirstBehind(c, t, x) == FirstAt(t, c \o (t \o x), Len(c))

(* The parser finds the mark where it is, or has not come to its end.      *)
LEMMA FoundMark ==
  ASSUME buf \in Text, unread \in Text, NEW c \in Text, NEW t \in Text, NEW x \in Text, Len(t) > 0,
         Ahead = Then(c, Then(t, x)), FirstBehind(c, t, x)
  PROVE  Met(c, t, x) \/ NotYet(c, t)
<1>1. PICK m \in Nat, l \in Nat, k \in Nat : m = Len(buf) /\ l = Len(t) /\ k = Len(c)
  BY DEF Text
<1>2. Then(buf, unread) = Then(c, Then(t, x)) /\ buf \o unread = c \o (t \o x)
  BY DEF Ahead, Then
<1>3. Find(t) = IF k + Len(t) <= Len(buf) THEN k ELSE Len(buf)
  <2>1. buf \in Seq(Chars) /\ unread \in Seq(Chars) /\ t \in Seq(Chars)
    BY DEF Text
  <2>2. FirstAt(t, buf \o unread, k)
    BY <1>1, <1>2 DEF FirstBehind
  <2> QED
    BY <2>1, <2>2, FindIs
<1>4. CASE k + l <= m
  <2>1. Find(t) = k
    BY <1>1, <1>3, <1>4
  <2>2. /\ Drop(buf, Len(c) + Len(t)) \in Text
        /\ Then(Drop(buf, Len(c) + Len(t)), unread) = x /\ SubSeq(buf, 1, Len(c)) = c
    BY <1>1, <1>2, <1>4, TakenWith
  <2>3. Erased(k + l) = Drop(buf, k + l)
    BY ErasedIs
  <2> QED
    BY <1>1, <1>4, <2>1, <2>2, <2>3 DEF Met
<1>5. CASE ~(k + l <= m)
  BY <1>1, <1>3, <1>5 DEF NotYet
<1> QED
  BY <1>4, <1>5

LEMMA FoundLine ==
  ASSUME buf \in Text, unread \in Text, NEW c \in Text, \A i \in 1 .. Len(c) : c[i] # "cr",
         NEW x \in Text, Ahead = Then(c, Then(Crlf, x))
  PROVE  Met(c, Crlf, x) \/ NotYet(c, Crlf)
<1>1. FirstBehind(c, Crlf, x)
  BY LineFirst DEF Text, FirstBehind
<1>2. Crlf \in Text /\ Len(Crlf) > 0
  BY Marked
<1> QED
  BY <1>1, <1>2, FoundMark

(* What an entry says of the file. *)
Told(f) == [name |-> f.name, type |-> f.type]

(* The parser is at one of the header lines of a file, a the text ahead    *)
(* and d what it knows of the file; x follows the file.                    *)
HeadIs(f, x, a, d) ==
  \/ a = HeadName(f, x) /\ d = NoFile
  \/ a = HeadType(f, x) /\ d = [name |-> f.name, type |-> ""]
  \/ a = HeadExtra(f, x) /\ d = Told(f)
  \/ a = HeadEnd(f, x) /\ d = Told(f)

LineAhead(line, next) ==
  /\ line \in Text /\ next \in Text /\ line # <<>>
  /\ \A i \in 1 .. Len(line) : line[i] # "cr"
  /\ Ahead = Then(line, Then(Crlf, next))

OneAhead(c, next) == next \in Text /\ Ahead = Then(<<c>>, Then(Crlf, next))

LEMMA OneLineAhead ==
  ASSUME NEW c \in Chars, c # "cr", NEW next, OneAhead(c, next)
  PROVE  LineAhead(<<c>>, next) /\ <<c>>[1] = c
<1>1. PICK line : line = <<c>>
  OBVIOUS
<1>2. line \in Text
  BY <1>1, OneIs
<1>3. Len(line) = 1 /\ line[1] = c /\ line # <<>>
  BY <1>1
<1>4. \A i \in 1 .. Len(line) : line[i] # "cr"
  BY <1>3
<1> QED
  BY <1>1, <1>2, <1>3, <1>4 DEF LineAhead, OneAhead

(* Each line tells what it says, and the next follows.                     *)
LEMMA NextLine ==
  ASSUME NEW f \in Files, NEW x \in Text, HeadIs(f, x, Ahead, file)
  PROVE  \/ \E line, next : LineAhead(line, next) /\ HeadIs(f, x, next, Described(line))
         \/ Ahead = HeadEnd(f, x) /\ file = Told(f)
<1>1. /\ HeadEnd(f, x) \in Text /\ HeadExtra(f, x) \in Text
      /\ HeadType(f, x) \in Text
  BY HeadTypes
<1>2. Names \cap Types = {}
  BY MultipartAssumption
<1>3. CASE Ahead = HeadName(f, x) /\ file = NoFile
  <2>1. f.name \in Names /\ f.name \in Chars /\ f.name # "cr"
    BY FileIs
  <2>2. OneAhead(f.name, HeadType(f, x))
    BY <1>1, <1>3 DEF OneAhead, HeadName
  <2>3. LineAhead(<<f.name>>, HeadType(f, x)) /\ <<f.name>>[1] = f.name
    BY <2>1, <2>2, OneLineAhead
  <2>4. Described(<<f.name>>) = [file EXCEPT !.name = f.name]
    BY <1>2, <2>1, <2>3 DEF Described
  <2>5. Described(<<f.name>>) = [name |-> f.name, type |-> ""]
    BY <1>3, <2>4 DEF NoFile
  <2>6. HeadIs(f, x, HeadType(f, x), Described(<<f.name>>))
    BY <2>5 DEF HeadIs
  <2> QED
    BY <2>3, <2>6
<1>4. CASE Ahead = HeadExtra(f, x) /\ file = Told(f)
  <2>1. CASE f.extra = <<>>
    BY <1>4, <2>1 DEF HeadExtra
  <2>2. CASE f.extra # <<>>
    <3>1. /\ f.extra \in Text /\ f.extra[1] \notin Names \cup Types
          /\ \A i \in 1 .. Len(f.extra) : f.extra[i] # "cr"
      BY <2>2, FileIs
    <3>2. LineAhead(f.extra, HeadEnd(f, x))
      BY <1>1, <1>4, <2>2, <3>1 DEF LineAhead, HeadExtra
    <3>3. Described(f.extra) = file
      BY <3>1 DEF Described
    <3>4. HeadIs(f, x, HeadEnd(f, x), Described(f.extra))
      BY <1>4, <3>3 DEF HeadIs
    <3> QED
      BY <3>2, <3>4
  <2> QED
    BY <2>1, <2>2
<1>5. CASE Ahead = HeadType(f, x) /\ file = [name |-> f.name, type |-> ""]
  <2>1. CASE f.type = ""
    <3>1. Ahead = HeadExtra(f, x) /\ file = Told(f)
      BY <1>5, <2>1 DEF HeadType, Told
    <3> QED
      BY <1>4, <3>1
  <2>2. CASE f.type # ""
    <3>1. f.type \in Types /\ f.type \in Chars /\ f.type # "cr" /\ f.type \notin Names
      BY <2>2, FileIs
    <3>2. OneAhead(f.type, HeadExtra(f, x))
      BY <1>1, <1>5, <2>2 DEF OneAhead, HeadType
    <3>3. LineAhead(<<f.type>>, HeadExtra(f, x)) /\ <<f.type>>[1] = f.type
      BY <3>1, <3>2, OneLineAhead
    <3>4. Described(<<f.type>>) = [file EXCEPT !.type = f.type]
      BY <3>1, <3>3 DEF Described
    <3>5. Described(<<f.type>>) = Told(f)
      BY <1>5, <3>4 DEF Told
    <3>6. HeadIs(f, x, HeadExtra(f, x), Described(<<f.type>>))
      BY <3>5 DEF HeadIs
    <3> QED
      BY <3>3, <3>6
  <2> QED
    BY <2>1, <2>2
<1> QED
  BY <1>3, <1>4, <1>5 DEF HeadIs

LEMMA LineFound ==
  ASSUME buf \in Text, unread \in Text, NEW line, NEW next, LineAhead(line, next)
  PROVE  \/ /\ Find(Crlf) \in 1 .. Len(buf) - 1 /\ SubSeq(buf, 1, Find(Crlf)) = line
            /\ Erased(Find(Crlf) + Len(Crlf)) \in Text
            /\ Then(Erased(Find(Crlf) + Len(Crlf)), unread) = next
         \/ Find(Crlf) = Len(buf)
<1>1. /\ line \in Text /\ next \in Text /\ line # <<>> /\ Ahead = Then(line, Then(Crlf, next))
      /\ \A i \in 1 .. Len(line) : line[i] # "cr"
  BY DEF LineAhead
<1>2. Crlf \in Text /\ Len(Crlf) = 2
  BY Marked
<1>3. Met(line, Crlf, next) \/ NotYet(line, Crlf)
  BY <1>1, FoundLine
<1>4. Len(line) \in Nat /\ Len(line) # 0 /\ Len(buf) \in Nat
  BY <1>1, EmptySeq DEF Text
<1> QED
  BY <1>2, <1>3, <1>4 DEF Met, NotYet

(* The line in front of the content is empty.                              *)
LEMMA EmptyFound ==
  ASSUME buf \in Text, unread \in Text, NEW f \in Files, NEW x \in Text, Ahead = HeadEnd(f, x)
  PROVE  Met(<<>>, Crlf, Then(f.content, x)) \/ NotYet(<<>>, Crlf)
<1>1. f.content \in Text
  BY FileTexts
<1>2. PICK y \in Text : y = Then(f.content, x)
  BY <1>1, ThenIs
<1>3. Ahead = Then(<<>>, Then(Crlf, y)) /\ <<>> \in Text
  <2>1. Then(Crlf, y) \in Text
    BY Marked, ThenIs
  <2> QED
    BY <1>2, <2>1, NoneIs DEF HeadEnd
<1>4. PICK c : c = <<>>
  OBVIOUS
<1>5. \A i \in 1 .. Len(c) : c[i] # "cr"
  BY <1>4
<1>6. Met(c, Crlf, y) \/ NotYet(c, Crlf)
  BY <1>3, <1>4, <1>5, FoundLine
<1> QED
  BY <1>2, <1>4, <1>6

LEMMA LinePassed ==
  ASSUME buf \in Text, unread \in Text, NEW f \in Files, NEW x \in Text, HeadIs(f, x, Ahead, file),
         HeaderLine, unread' = unread
  PROVE  HeadIs(f, x, Ahead', file')
<1>1. /\ Find(Crlf) \in 1 .. Len(buf) - 1
      /\ file' = Described(SubSeq(buf, 1, Find(Crlf)))
      /\ buf' = Erased(Find(Crlf) + Len(Crlf))
  BY DEF HeaderLine
<1>2. Find(Crlf) # Len(buf) /\ Find(Crlf) # 0
  <2>1. Len(buf) \in Nat
    BY DEF Text
  <2> QED
    BY <1>1, <2>1
<1>3. CASE Ahead = HeadEnd(f, x)
  <2>1. Find(Crlf) = 0 \/ Find(Crlf) = Len(buf)
    BY <1>3, EmptyFound DEF Met, NotYet
  <2> QED
    BY <1>2, <2>1
<1>4. ASSUME NEW line, NEW next, LineAhead(line, next), HeadIs(f, x, next, Described(line))
      PROVE  HeadIs(f, x, Ahead', file')
  <2>1. file' = Described(line) /\ Then(buf', unread) = next
    BY <1>1, <1>2, <1>4, LineFound
  <2>2. Ahead' = next
    BY <2>1 DEF Ahead
  <2> QED
    BY <1>4, <2>1, <2>2
<1> QED
  BY <1>3, <1>4, NextLine

(* An empty line is that in front of the content.                          *)
LEMMA HeadPassed ==
  ASSUME buf \in Text, unread \in Text, NEW f \in Files, NEW x \in Text, HeadIs(f, x, Ahead, file),
         Find(Crlf) = 0, buf # <<>>
  PROVE  file = Told(f) /\ Then(Erased(Len(Crlf)), unread) = Then(f.content, x)
<1>1. Len(buf) \in Nat /\ Len(buf) # 0
  BY EmptySeq DEF Text
<1>2. ASSUME NEW line, NEW next, LineAhead(line, next) PROVE FALSE
  <2>1. Find(Crlf) \in 1 .. Len(buf) - 1 \/ Find(Crlf) = Len(buf)
    BY <1>2, LineFound
  <2> QED
    BY <1>1, <2>1
<1>3. Ahead = HeadEnd(f, x) /\ file = Told(f)
  BY <1>2, NextLine
<1>4. Met(<<>>, Crlf, Then(f.content, x)) \/ NotYet(<<>>, Crlf)
  BY <1>3, EmptyFound
<1>5. ~NotYet(<<>>, Crlf)
  BY <1>1 DEF NotYet
<1>6. 0 + Len(Crlf) = Len(Crlf)
  BY Marked
<1> QED
  BY <1>3, <1>4, <1>5, <1>6 DEF Met

(* The first k files of the form have been read. *)
Done(k) == k <= Len(files) /\ \A i \in 1 .. k : files[i] = SentFile(form.files[i])

(* The text from the entry on that follows k files. *)
Entry(k) == HeadName(form.files[k + 1], After(form)[k + 1])

(* The last file is being written, and the rest of it is ahead. *)
BodyIs(r, f, x) ==
  /\ r.name = f.name /\ r.type = f.type
  /\ \E c \in Text : /\ Then(r.content, c) = f.content /\ ~Occurs(CrlfDashBoundary, c)
                     /\ Ahead = Then(c, x)

InPreamble ==
  /\ state = "initial" /\ files = <<>>
  /\ \E q \in Text : ~Occurs(DashBoundaryCrlf, q) /\ Ahead = Then(q, Then(DashBoundaryCrlf, Entry(0)))

AtEntry(k) == state = "entry" /\ Len(files) = k /\ Done(k) /\ Ahead = Entry(k)

InHead(k) ==
  /\ state = "headers" /\ Len(files) = k /\ Done(k)
  /\ HeadIs(form.files[k + 1], After(form)[k + 1], Ahead, file)

InBody(k) ==
  /\ state = "body" /\ Len(files) = k + 1 /\ Done(k)
  /\ BodyIs(files[k + 1], form.files[k + 1], After(form)[k + 1])

Past(k) ==
  \/ k < Len(form.files) /\ Ahead = Then(Crlf, Entry(k))
  \/ k = Len(form.files) /\ (Ahead = Then(DashCrlf, form.epilogue) \/ (buf = <<>> /\ unread = <<>>))

AtBoundary(k) ==
  /\ state = "boundary" /\ Len(files) = k + 1 /\ Done(k + 1)
  /\ Past(k + 1)

Tracked(k) == AtEntry(k) \/ InHead(k) \/ InBody(k) \/ AtBoundary(k)

Track == InPreamble \/ \E k \in 0 .. Len(form.files) - 1 : Tracked(k)

LEMMA EntryIs ==
  ASSUME form \in MultipartForms
  PROVE  /\ Len(form.files) \in Nat \ {0} /\ form.epilogue \in Text
         /\ \A k \in 0 .. Len(form.files) - 1 :
              /\ k + 1 \in 1 .. Len(form.files)
              /\ form.files[k + 1] \in Files /\ After(form)[k + 1] \in Text /\ Entry(k) \in Text
              /\ k + 1 < Len(form.files) => After(form)[k + 1] = Then(CrlfDashBoundary, Then(Crlf, Entry(k + 1)))
              /\ k + 1 = Len(form.files) => After(form)[k + 1] = Then(CrlfDashBoundary, Then(DashCrlf, form.epilogue))
<1>1. Follows(form, After(form))
  BY AfterIs
<1>2. PICK n \in Nat \ {0} : n = Len(form.files)
  BY FormIs
<1>3. \A i \in 1 .. n : form.files[i] \in Files
  BY <1>2, FormIs
<1>4. /\ After(form) \in [1 .. n -> Text]
      /\ \A i \in 1 .. n - 1 :
           After(form)[i] = Then(CrlfDashBoundary, Then(Crlf, HeadName(form.files[i + 1], After(form)[i + 1])))
      /\ After(form)[n] = Then(CrlfDashBoundary, Then(DashCrlf, form.epilogue))
  BY <1>1, <1>2 DEF Follows
<1>5. ASSUME NEW k \in 0 .. n - 1
      PROVE  /\ k + 1 \in 1 .. n
             /\ form.files[k + 1] \in Files /\ After(form)[k + 1] \in Text /\ Entry(k) \in Text
             /\ k + 1 < n => After(form)[k + 1] = Then(CrlfDashBoundary, Then(Crlf, Entry(k + 1)))
             /\ k + 1 = n => After(form)[k + 1] = Then(CrlfDashBoundary, Then(DashCrlf, form.epilogue))
  <2>1. k + 1 \in 1 .. n
    OBVIOUS
  <2>2. form.files[k + 1] \in Files /\ After(form)[k + 1] \in Text
    BY <1>3, <1>4, <2>1
  <2>3. Entry(k) \in Text
    BY <2>2, HeadTypes DEF Entry
  <2>4. k + 1 < n => k + 1 \in 1 .. n - 1
    OBVIOUS
  <2> QED
    BY <1>4, <2>1, <2>2, <2>3, <2>4 DEF Entry
<1> QED
  BY <1>2, <1>5, FormIs

LEMMA BoundaryFound ==
  ASSUME buf \in Text, unread \in Text, NEW c \in Text, NEW x \in Text, NEW t \in Text,
         t = CrlfDashBoundary \/ t = DashBoundaryCrlf, ~Occurs(t, c), Ahead = Then(c, Then(t, x))
  PROVE  Met(c, t, x) \/ NotYet(c, t)
<1>1. FirstBehind(c, t, x)
  BY BoundaryFirst DEF Text, FirstBehind
<1>2. Len(t) > 0
  <2>1. CASE t = CrlfDashBoundary
    BY <2>1, Marked
  <2>2. CASE t = DashBoundaryCrlf
    BY <2>2, Marked
  <2> QED
    BY <2>1, <2>2
<1> QED
  BY <1>1, <1>2, FoundMark

LEMMA Lengths ==
  ASSUME NEW b \in Text, NEW u \in Text
  PROVE  Len(Then(b, u)) = Len(b) + Len(u) /\ Len(b) \in Nat /\ Len(u) \in Nat
BY ConcatIs DEF Text, Then

LEMMA FrontOf ==
  ASSUME NEW b \in Text, NEW u \in Text, NEW c \in Text, NEW x \in Text, Then(b, u) = Then(c, x),
         Len(b) > 0, Len(c) > 0
  PROVE  b[1] = c[1]
<1>1. b \in Seq(Chars) /\ u \in Seq(Chars) /\ c \in Seq(Chars) /\ x \in Seq(Chars)
  BY DEF Text
<1>2. \A i \in 1 .. Len(b) : (b \o u)[i] = b[i]
  BY <1>1, ConcatIs
<1>3. \A i \in 1 .. Len(c) : (c \o x)[i] = c[i]
  BY <1>1, ConcatIs
<1>4. 1 \in 1 .. Len(b) /\ 1 \in 1 .. Len(c)
  BY <1>1
<1> QED
  BY <1>2, <1>3, <1>4 DEF Then

(* The preamble is skipped: a read that does not end inside the boundary   *)
(* has brought all of it, or nothing.                                      *)
LEMMA PreambleSkipped ==
  ASSUME form \in MultipartForms, form' = form, unread' = unread, ParserTyped, InPreamble,
         ~CutsAt(Len(unread)), InitialBoundary
  PROVE  Track'
<1>1. /\ UNCHANGED <<valid, file, files>>
      /\ IF Find(DashBoundaryCrlf) = Len(buf)
           THEN Return(<<>>) /\ UNCHANGED state
           ELSE /\ Continue(Erased(Find(DashBoundaryCrlf) + Len(DashBoundaryCrlf)))
                /\ state' = "entry"
  BY DEF InitialBoundary
<1>2. buf \in Text /\ unread \in Text
  BY DEF ParserTyped
<1>3. PICK z : z = Entry(0)
  OBVIOUS
<1>4. z \in Text /\ 0 \in 0 .. Len(form.files) - 1
  <2>1. 0 \in 0 .. Len(form.files) - 1
    BY EntryIs
  <2> QED
    BY <1>3, <2>1, EntryIs
<1>5. PICK q \in Text : ~Occurs(DashBoundaryCrlf, q) /\ Ahead = Then(q, Then(DashBoundaryCrlf, z))
  BY <1>3 DEF InPreamble
<1>6. DashBoundaryCrlf \in Text /\ Len(DashBoundaryCrlf) = 5
  BY Marked
<1>7. Met(q, DashBoundaryCrlf, z) \/ NotYet(q, DashBoundaryCrlf)
  BY <1>2, <1>4, <1>5, <1>6, BoundaryFound
<1>8. Len(q) \in Nat /\ Len(buf) \in Nat /\ Len(unread) \in Nat /\ Len(z) \in Nat
  BY <1>2, <1>4, Lengths
<1>9. CASE Met(q, DashBoundaryCrlf, z)
  <2>1. Find(DashBoundaryCrlf) # Len(buf)
    BY <1>6, <1>8, <1>9 DEF Met
  <2>2. Continue(Erased(Find(DashBoundaryCrlf) + Len(DashBoundaryCrlf))) /\ state' = "entry"
    BY <1>1, <2>1
  <2>3. buf' = Erased(Find(DashBoundaryCrlf) + Len(DashBoundaryCrlf))
    BY <2>2, ContinueIs
  <2>4. Ahead' = z
    BY <1>9, <2>3 DEF Met, Ahead
  <2>5. files' = <<>> /\ Len(<<>>) = 0
    BY <1>1 DEF InPreamble
  <2>6. AtEntry(0)'
    BY <1>3, <2>2, <2>4, <2>5 DEF AtEntry, Done, Entry
  <2> QED
    BY <1>4, <2>6 DEF Track, Tracked
<1>10. CASE NotYet(q, DashBoundaryCrlf)
  <2>1. buf' = <<>> /\ state' = state
    BY <1>1, <1>10 DEF NotYet, Return
  <2>2. PICK m \in Nat, l \in Nat, u \in Nat, a \in Nat : m = Len(buf) /\ l = Len(q) /\ u = Len(unread) /\ a = Len(z)
    BY <1>8
  <2>3. m + u = l + (5 + a)
    <3>1. Then(DashBoundaryCrlf, z) \in Text
      BY <1>4, <1>6, ThenIs
    <3>2. Len(Then(DashBoundaryCrlf, z)) = 5 + a
      BY <1>4, <1>6, <2>2, Lengths
    <3>3. Len(Then(q, Then(DashBoundaryCrlf, z))) = l + Len(Then(DashBoundaryCrlf, z))
      BY <2>2, <3>1, Lengths
    <3>4. Len(Ahead) = m + u
      BY <1>2, <2>2, Lengths DEF Ahead
    <3> QED
      BY <1>5, <3>2, <3>3, <3>4
  <2>4. m < l + 5
    BY <1>6, <1>10, <2>2 DEF NotYet
  <2>5. u \notin a + 1 .. a + 4
    <3>1. z = HeadName(form.files[1], After(form)[1])
      BY <1>3 DEF Entry
    <3>2. CutsAt(u) <=> u \in a + 1 .. a + 4 \/ u \in 1 .. Len(form.epilogue)
      BY <2>2, <3>1, CutIs
    <3> QED
      BY <2>2, <3>2
  <2>6. m <= l
    BY <2>3, <2>4, <2>5
  <2>7. PICK d : d = Drop(q, m)
    OBVIOUS
  <2>8. d \in Text /\ Then(<<>>, unread) = Then(d, Then(DashBoundaryCrlf, z))
    <3>1. Then(DashBoundaryCrlf, z) \in Text
      BY <1>4, <1>6, ThenIs
    <3>2. Drop(buf, m) = <<>>
      BY <2>2 DEF Drop
    <3>3. Then(buf, unread) = Then(q, Then(DashBoundaryCrlf, z))
      BY <1>5 DEF Ahead
    <3>4. m <= Len(buf) /\ m <= Len(q)
      BY <2>2, <2>6
    <3> QED
      BY <1>2, <2>7, <3>1, <3>2, <3>3, <3>4, Taken
  <2>9. ~Occurs(DashBoundaryCrlf, d)
    <3>1. q \in Seq(Chars) /\ DashBoundaryCrlf \in Seq(Chars) /\ m \in 0 .. Len(q)
      BY <1>6, <2>2, <2>6 DEF Text
    <3> QED
      BY <1>5, <2>7, <3>1, OccursLater
  <2>10. Ahead' = Then(d, Then(DashBoundaryCrlf, z))
    BY <2>1, <2>8 DEF Ahead
  <2>11. z = Entry(0)'
    BY <1>3 DEF Entry
  <2>12. InPreamble'
    BY <1>1, <2>1, <2>8, <2>9, <2>10, <2>11 DEF InPreamble
  <2> QED
    BY <2>12 DEF Track
<1> QED
  BY <1>7, <1>9, <1>10

(* What is known of the files stays true while they do not change.         *)
LEMMA TrackedIs ==
  ASSUME form \in MultipartForms, form' = form, NEW k \in 0 .. Len(form.files) - 1, Tracked(k)'
  PROVE  Track'
BY DEF Track

LEMMA DoneKept ==
  ASSUME NEW k, Done(k), form' = form, files' = files
  PROVE  Done(k)'
BY DEF Done

(* An entry begins with nothing known of its file.                         *)
LEMMA EntryBegun ==
  ASSUME form \in MultipartForms, form' = form, unread' = unread, NEW k \in 0 .. Len(form.files) - 1,
         AtEntry(k), NewEntry
  PROVE  Track'
<1>1. file' = NoFile /\ state' = "headers" /\ UNCHANGED <<buf, valid, files, parsing>>
  BY DEF NewEntry
<1>2. Len(files) = k /\ Done(k) /\ Ahead = Entry(k)
  BY DEF AtEntry
<1>3. Ahead' = HeadName(form.files[k + 1], After(form)[k + 1])
  BY <1>1, <1>2 DEF Ahead, Entry
<1>4. HeadIs(form.files[k + 1], After(form)[k + 1], Ahead', file')
  BY <1>1, <1>3 DEF HeadIs
<1>5. InHead(k)'
  BY <1>1, <1>2, <1>4, DoneKept DEF InHead
<1> QED
  BY <1>5, TrackedIs DEF Tracked

LEMMA HeadRead ==
  ASSUME form \in MultipartForms, form' = form, unread' = unread, ParserTyped,
         NEW k \in 0 .. Len(form.files) - 1, InHead(k), HeaderLine
  PROVE  Track'
<1>1. UNCHANGED <<state, valid, files, parsing>>
  BY DEF HeaderLine
<1>2. PICK f, x : f = form.files[k + 1] /\ x = After(form)[k + 1]
  OBVIOUS
<1>3. f \in Files /\ x \in Text
  BY <1>2, EntryIs
<1>4. state = "headers" /\ Len(files) = k /\ Done(k) /\ HeadIs(f, x, Ahead, file)
  BY <1>2 DEF InHead
<1>5. HeadIs(f, x, Ahead', file')
  BY <1>3, <1>4, LinePassed DEF ParserTyped
<1>6. InHead(k)'
  BY <1>1, <1>2, <1>4, <1>5, DoneKept DEF InHead
<1> QED
  BY <1>6, TrackedIs DEF Tracked

(* The file begins with what the header lines have told of it.             *)
LEMMA FileBegun ==
  ASSUME form \in MultipartForms, form' = form, unread' = unread, ParserTyped,
         NEW k \in 0 .. Len(form.files) - 1, InHead(k), HeadersEnd
  PROVE  Track'
<1>1. /\ Find(Crlf) = 0 /\ buf # <<>> /\ file' = file
      /\ IF Len(files) = FileMax
           THEN Fail /\ valid' = FALSE /\ UNCHANGED <<state, files>>
           ELSE /\ Continue(Erased(Len(Crlf)))
                /\ files' = Append(files, [name |-> file.name, type |-> file.type, content |-> <<>>])
                /\ state' = "body" /\ UNCHANGED valid
  BY DEF HeadersEnd
<1>2. PICK f, x : f = form.files[k + 1] /\ x = After(form)[k + 1]
  OBVIOUS
<1>3. f \in Files /\ x \in Text
  BY <1>2, EntryIs
<1>4. state = "headers" /\ Len(files) = k /\ Done(k) /\ HeadIs(f, x, Ahead, file)
  BY <1>2 DEF InHead
<1>5. CASE Len(files) = FileMax
  <2>1. buf' = buf /\ UNCHANGED <<state, files>>
    BY <1>1, <1>5 DEF Fail
  <2>2. HeadIs(f, x, Ahead', file')
    BY <1>1, <1>4, <2>1 DEF Ahead
  <2>3. InHead(k)'
    BY <1>2, <1>4, <2>1, <2>2, DoneKept DEF InHead
  <2> QED
    BY <2>3, TrackedIs DEF Tracked
<1>6. CASE Len(files) # FileMax
  <2>1. buf' = Erased(Len(Crlf)) /\ state' = "body"
    BY <1>1, <1>6, ContinueIs
  <2>2. PICK r : r = [name |-> file.name, type |-> file.type, content |-> <<>>]
    OBVIOUS
  <2>3. files' = Append(files, r) /\ files \in Seq(WrittenTo)
    BY <1>1, <1>6, <2>2 DEF ParserTyped
  <2>4. file = Told(f) /\ Then(Erased(Len(Crlf)), unread) = Then(f.content, x)
    BY <1>1, <1>3, <1>4, HeadPassed DEF ParserTyped
  <2>5. r.name = f.name /\ r.type = f.type /\ r.content = <<>>
    BY <2>2, <2>4 DEF Told
  <2>6. BodyIs(r, f, x)'
    <3>1. Ahead' = Then(f.content, x)
      BY <2>1, <2>4 DEF Ahead
    <3>2. f.content \in Text /\ ~Occurs(CrlfDashBoundary, f.content) /\ Then(<<>>, f.content) = f.content
      BY <1>3, FileIs, NoneIs
    <3> QED
      BY <2>5, <3>1, <3>2 DEF BodyIs
  <2>7. Len(files') = k + 1 /\ files'[k + 1] = r /\ \A i \in 1 .. k : files'[i] = files[i]
    <3>1. PICK m \in Nat : m = Len(files)
      BY <2>3
    <3>2. m = k
      BY <1>4, <3>1
    <3>3. Len(files') = m + 1 /\ files'[m + 1] = r /\ \A i \in 1 .. m : files'[i] = files[i]
      BY <2>3, <3>1
    <3> QED
      BY <3>2, <3>3
  <2>8. Done(k)'
    <3>1. k <= k + 1
      OBVIOUS
    <3> QED
      BY <1>4, <2>7, <3>1 DEF Done
  <2>9. InBody(k)'
    BY <1>2, <2>1, <2>6, <2>7, <2>8 DEF InBody
  <2> QED
    BY <2>9, TrackedIs DEF Tracked
<1> QED
  BY <1>5, <1>6

(* The text ahead is the same, and so is what is known of the files.       *)
LEMMA AheadKept ==
  ASSUME Track, Ahead' = Ahead, UNCHANGED <<form, state, file, files>>,
         buf = <<>> /\ unread = <<>> => buf' = <<>> /\ unread' = <<>>
  PROVE  Track'
<1>1. ASSUME NEW k, Tracked(k) PROVE Tracked(k)'
  <2>1. AtEntry(k) => AtEntry(k)'
    BY DEF AtEntry, Done, Entry
  <2>2. InHead(k) => InHead(k)'
    BY DEF InHead, Done
  <2>3. InBody(k) => InBody(k)'
    BY DEF InBody, Done, BodyIs
  <2>4. AtBoundary(k) => AtBoundary(k)'
    BY DEF AtBoundary, Done, Past, Entry
  <2> QED
    BY <1>1, <2>1, <2>2, <2>3, <2>4 DEF Tracked
<1>2. InPreamble => InPreamble'
  BY DEF InPreamble, Entry
<1> QED
  BY <1>1, <1>2 DEF Track

LEMMA NothingMoved ==
  ASSUME Track, UNCHANGED <<form, unread, buf, state, file, files>>
  PROVE  Track'
<1>1. Ahead' = Ahead
  BY DEF Ahead
<1> QED
  BY <1>1, AheadKept

(* The content that is written is that of the file, up to the boundary.    *)
LEMMA BodyWritten ==
  ASSUME form \in MultipartForms, form' = form, unread' = unread, ParserTyped,
         NEW k \in 0 .. Len(form.files) - 1, InBody(k), Body
  PROVE  Track'
<1>1. PICK f, x : f = form.files[k + 1] /\ x = After(form)[k + 1]
  OBVIOUS
<1>2. f \in Files /\ x \in Text /\ k \in Nat /\ k < Len(form.files)
  <2>1. Len(form.files) \in Nat
    BY EntryIs
  <2> QED
    BY <1>1, <2>1, EntryIs
<1>3. state = "body" /\ Len(files) = k + 1 /\ Done(k) /\ BodyIs(files[k + 1], f, x)
  BY <1>1 DEF InBody
<1>4. buf \in Text /\ unread \in Text /\ files \in Seq(WrittenTo) /\ files # <<>>
  BY <1>3 DEF ParserTyped
<1>5. PICK r : r = files[k + 1]
  OBVIOUS
<1>6. PICK c \in Text : /\ Then(r.content, c) = f.content /\ ~Occurs(CrlfDashBoundary, c)
                        /\ Ahead = Then(c, x)
  BY <1>3, <1>5 DEF BodyIs
<1>7. r.name = f.name /\ r.type = f.type
  BY <1>3, <1>5 DEF BodyIs
<1>8. r \in WrittenTo /\ r.content \in Text
  <2>1. k + 1 \in 1 .. Len(files)
    BY <1>2, <1>3
  <2>2. r \in WrittenTo
    BY <1>4, <1>5, <2>1
  <2> QED
    BY <2>2 DEF WrittenTo
<1>9. Len(c) \in Nat /\ Len(buf) \in Nat
  BY <1>4, Lengths
<1>10. CrlfDashBoundary \in Text /\ Len(CrlfDashBoundary) = 5
  BY Marked
<1>11. CASE Len(CrlfDashBoundary) > Len(buf)
  <2>1. ~(Find(CrlfDashBoundary) < Len(buf))
    <3>1. Len(buf) < Len(CrlfDashBoundary)
      BY <1>9, <1>10, <1>11
    <3>2. Find(CrlfDashBoundary) = Len(buf)
      BY <1>4, <1>10, <3>1, FindShort
    <3> QED
      BY <1>9, <3>2
  <2>2. buf' = buf /\ UNCHANGED <<files, state, file>>
    BY <1>11, <2>1 DEF Body, Return
  <2>3. Track
    BY DEF Track, Tracked
  <2> QED
    BY <2>2, <2>3, NothingMoved
<1>12. CASE ~(Len(CrlfDashBoundary) > Len(buf)) /\ Find(CrlfDashBoundary) < Len(buf)
  <2>1. /\ Write(Find(CrlfDashBoundary)) /\ state' = "boundary"
        /\ Continue(Erased(Find(CrlfDashBoundary) + Len(CrlfDashBoundary)))
    BY <1>12 DEF Body
  <2>2. buf' = Erased(Find(CrlfDashBoundary) + Len(CrlfDashBoundary))
    BY <2>1, ContinueIs
  <2>3. PICK w : w = IF k + 1 < Len(form.files) THEN Then(Crlf, Entry(k + 1)) ELSE Then(DashCrlf, form.epilogue)
    OBVIOUS
  <2>4. w \in Text /\ x = Then(CrlfDashBoundary, w)
    <3>1. CASE k + 1 < Len(form.files)
      <4>1. k + 1 \in 0 .. Len(form.files) - 1
        <5>1. Len(form.files) \in Nat
          BY EntryIs
        <5> QED
          BY <1>2, <3>1, <5>1
      <4>2. Entry(k + 1) \in Text /\ x = Then(CrlfDashBoundary, Then(Crlf, Entry(k + 1)))
        BY <1>1, <3>1, <4>1, EntryIs
      <4> QED
        BY <2>3, <3>1, <4>2, Marked, ThenIs
    <3>2. CASE ~(k + 1 < Len(form.files))
      <4>1. k + 1 = Len(form.files)
        <5>1. Len(form.files) \in Nat
          BY EntryIs
        <5> QED
          BY <1>2, <3>2, <5>1
      <4>2. form.epilogue \in Text /\ x = Then(CrlfDashBoundary, Then(DashCrlf, form.epilogue))
        BY <1>1, <4>1, EntryIs
      <4> QED
        BY <2>3, <3>2, <4>2, Marked, ThenIs
    <3> QED
      BY <3>1, <3>2
  <2>5. Met(c, CrlfDashBoundary, w)
    <3>1. Met(c, CrlfDashBoundary, w) \/ NotYet(c, CrlfDashBoundary)
      BY <1>4, <1>6, <1>10, <2>4, BoundaryFound
    <3>2. ~NotYet(c, CrlfDashBoundary)
      BY <1>9, <1>12 DEF NotYet
    <3> QED
      BY <3>1, <3>2
  <2>6. Ahead' = w
    BY <2>2, <2>5 DEF Met, Ahead
  <2>7. Find(CrlfDashBoundary) \in 0 .. Len(buf) /\ SubSeq(buf, 1, Find(CrlfDashBoundary)) = c
    BY <1>9, <1>12, <2>5 DEF Met
  <2>8. /\ Len(files') = Len(files)
        /\ \A n \in Nat \ {0} : n = Len(files) =>
             /\ files'[n].name = files[n].name /\ files'[n].type = files[n].type
             /\ files'[n].content = Then(files[n].content, SubSeq(buf, 1, Find(CrlfDashBoundary)))
             /\ \A i \in 1 .. n - 1 : files'[i] = files[i]
        /\ files' \in Seq(WrittenTo)
    BY <1>4, <2>1, <2>7, WriteIs
  <2>9. PICK s : s = files'[k + 1]
    OBVIOUS
  <2>10. /\ s.name = f.name /\ s.type = f.type /\ s.content = f.content
         /\ \A i \in 1 .. k : files'[i] = files[i]
    <3>1. k + 1 \in Nat \ {0} /\ (k + 1) - 1 = k
      BY <1>2
    <3> QED
      BY <1>3, <1>5, <1>6, <1>7, <2>7, <2>8, <2>9, <3>1
  <2>11. s = SentFile(f)
    <3>1. k + 1 \in 1 .. Len(files')
      BY <1>2, <1>3, <2>8
    <3>2. s \in WrittenTo
      BY <2>8, <2>9, <3>1
    <3>3. s = [name |-> s.name, type |-> s.type, content |-> s.content]
      BY <3>2 DEF WrittenTo
    <3> QED
      BY <2>10, <3>3 DEF SentFile
  <2>12. Done(k + 1)'
    <3>1. ASSUME NEW i \in 1 .. k + 1 PROVE files'[i] = SentFile(form.files[i])
      <4>1. CASE i = k + 1
        BY <1>1, <2>9, <2>11, <4>1
      <4>2. CASE i # k + 1
        <5>1. i \in 1 .. k
          BY <1>2, <4>2
        <5> QED
          BY <1>3, <2>10, <5>1 DEF Done
      <4> QED
        BY <4>1, <4>2
    <3>2. k + 1 <= Len(files')
      BY <1>2, <1>3, <2>8
    <3> QED
      BY <3>1, <3>2 DEF Done
  <2>13. Past(k + 1)'
    <3>1. Entry(k + 1)' = Entry(k + 1)
      BY DEF Entry
    <3>2. k + 1 < Len(form.files) \/ k + 1 = Len(form.files)
      <4>1. Len(form.files) \in Nat
        BY EntryIs
      <4> QED
        BY <1>2, <4>1
    <3> QED
      BY <2>3, <2>6, <3>1, <3>2 DEF Past
  <2>14. AtBoundary(k)'
    BY <1>3, <2>1, <2>8, <2>12, <2>13 DEF AtBoundary
  <2> QED
    BY <2>14, TrackedIs DEF Tracked
<1>13. CASE ~(Len(CrlfDashBoundary) > Len(buf)) /\ ~(Find(CrlfDashBoundary) < Len(buf))
  <2>1. PICK m : m = Len(buf) - Len(CrlfDashBoundary)
    OBVIOUS
  <2>2. Write(m) /\ state' = state /\ Return(Erased(m))
    BY <1>13, <2>1 DEF Body
  <2>3. m \in Nat /\ m \in 0 .. Len(buf) /\ m <= Len(buf)
    BY <1>9, <1>10, <1>13, <2>1
  <2>4. buf' = Drop(buf, m)
    BY <2>2, <2>3, ErasedIs DEF Return
  <2>5. m <= Len(c)
    <3>1. PICK w \in Text : x = Then(CrlfDashBoundary, w)
      <4>1. CASE k + 1 < Len(form.files)
        <5>1. k + 1 \in 0 .. Len(form.files) - 1
          <6>1. Len(form.files) \in Nat
            BY EntryIs
          <6> QED
            BY <1>2, <4>1, <6>1
        <5>2. Then(Crlf, Entry(k + 1)) \in Text /\ x = Then(CrlfDashBoundary, Then(Crlf, Entry(k + 1)))
          BY <1>1, <4>1, <5>1, EntryIs, Marked, ThenIs
        <5> QED
          BY <5>2
      <4>2. CASE ~(k + 1 < Len(form.files))
        <5>1. k + 1 = Len(form.files)
          <6>1. Len(form.files) \in Nat
            BY EntryIs
          <6> QED
            BY <1>2, <4>2, <6>1
        <5>2. Then(DashCrlf, form.epilogue) \in Text /\ x = Then(CrlfDashBoundary, Then(DashCrlf, form.epilogue))
          BY <1>1, <5>1, EntryIs, Marked, ThenIs
        <5> QED
          BY <5>2
      <4> QED
        BY <4>1, <4>2
    <3>2. Met(c, CrlfDashBoundary, w) \/ NotYet(c, CrlfDashBoundary)
      BY <1>4, <1>6, <1>10, <3>1, BoundaryFound
    <3>3. ~Met(c, CrlfDashBoundary, w)
      BY <1>9, <1>10, <1>13 DEF Met
    <3> QED
      BY <1>9, <1>10, <2>1, <3>2, <3>3 DEF NotYet
  <2>6. PICK d, a : d = Drop(c, m) /\ a = SubSeq(buf, 1, m)
    OBVIOUS
  <2>7. /\ d \in Text /\ Then(buf', unread) = Then(d, x) /\ a \in Text /\ Then(a, d) = c
    <3>1. Then(buf, unread) = Then(c, x)
      BY <1>6 DEF Ahead
    <3>2. /\ Drop(c, m) \in Text /\ Then(Drop(buf, m), unread) = Then(Drop(c, m), x)
          /\ SubSeq(buf, 1, m) = SubSeq(c, 1, m) /\ SubSeq(c, 1, m) \in Text
          /\ Then(SubSeq(c, 1, m), Drop(c, m)) = c
      BY <1>2, <1>4, <2>3, <2>5, <3>1, Taken
    <3> QED
      BY <2>4, <2>6, <3>2
  <2>8. ~Occurs(CrlfDashBoundary, d)
    <3>1. c \in Seq(Chars) /\ CrlfDashBoundary \in Seq(Chars) /\ m \in 0 .. Len(c)
      BY <1>9, <1>10, <2>3, <2>5 DEF Text
    <3> QED
      BY <1>6, <2>6, <3>1, OccursLater
  <2>9. /\ Len(files') = Len(files)
        /\ \A n \in Nat \ {0} : n = Len(files) =>
             /\ files'[n].name = files[n].name /\ files'[n].type = files[n].type
             /\ files'[n].content = Then(files[n].content, SubSeq(buf, 1, m))
             /\ \A i \in 1 .. n - 1 : files'[i] = files[i]
    BY <1>4, <2>2, <2>3, WriteIs
  <2>10. PICK s : s = files'[k + 1]
    OBVIOUS
  <2>11. /\ s.name = f.name /\ s.type = f.type /\ s.content = Then(r.content, a)
         /\ \A i \in 1 .. k : files'[i] = files[i]
    <3>1. k + 1 \in Nat \ {0} /\ (k + 1) - 1 = k
      BY <1>2
    <3> QED
      BY <1>3, <1>5, <1>7, <2>6, <2>9, <2>10, <3>1
  <2>12. Then(s.content, d) = f.content
    <3>1. PICK p \in Text : p = r.content
      BY <1>8
    <3>2. Then(Then(p, a), d) = Then(p, Then(a, d))
      BY <2>7, ThenIs
    <3> QED
      BY <1>6, <2>7, <2>11, <3>1, <3>2, Zenon
  <2>13. BodyIs(s, f, x)'
    <3>1. Ahead' = Then(d, x)
      BY <2>7 DEF Ahead
    <3> QED
      BY <2>7, <2>8, <2>11, <2>12, <3>1 DEF BodyIs
  <2>14. Done(k)'
    <3>1. k <= k + 1
      BY <1>2
    <3> QED
      BY <1>3, <2>9, <2>11, <3>1 DEF Done
  <2>15. InBody(k)'
    BY <1>1, <1>3, <2>2, <2>9, <2>10, <2>13, <2>14 DEF InBody
  <2> QED
    BY <2>15, TrackedIs DEF Tracked
<1> QED
  BY <1>11, <1>12, <1>13

(* Behind a boundary comes the next file, or the end.                      *)
LEMMA BoundaryPassed ==
  ASSUME form \in MultipartForms, form' = form, unread' = unread, ParserTyped,
         NEW k \in 0 .. Len(form.files) - 1, AtBoundary(k), ~CutsAt(Len(unread)), Boundary
  PROVE  Track'
<1>1. state = "boundary" /\ Len(files) = k + 1 /\ Done(k + 1) /\ Past(k + 1)
  BY DEF AtBoundary
<1>2. UNCHANGED <<file, files>>
  BY DEF Boundary
<1>3. buf \in Text /\ unread \in Text /\ Len(buf) \in Nat /\ Len(unread) \in Nat
  BY Lengths DEF ParserTyped
<1>4. ASSUME ~IsPrefix(Crlf, buf), ~IsPrefix(DashCrlf, buf) PROVE Track'
  <2>1. buf' = buf /\ state' = state
    BY <1>4 DEF Boundary, Return
  <2>2. Track
    BY DEF Track, Tracked
  <2> QED
    BY <1>2, <2>1, <2>2, NothingMoved
<1>5. CASE k + 1 < Len(form.files) /\ Ahead = Then(Crlf, Entry(k + 1))
  <2>1. k + 1 \in 0 .. Len(form.files) - 1
    <3>1. Len(form.files) \in Nat
      BY EntryIs
    <3> QED
      BY <1>5, <3>1
  <2>2. PICK e : e = Entry(k + 1)
    OBVIOUS
  <2>5. e \in Text /\ Crlf \in Text /\ Len(Crlf) = 2
    BY <2>1, <2>2, EntryIs, Marked
  <2>6. Then(buf, unread) = Then(Crlf, e)
    BY <1>5, <2>2 DEF Ahead
  <2>3. ~IsPrefix(DashCrlf, buf)
    <3>1. SUFFICES ASSUME Len(buf) >= 4, buf[1] = "-" PROVE FALSE
      BY <1>3, MarkAhead
    <3>2. buf[1] = Crlf[1]
      <4>1. Len(buf) > 0 /\ Len(Crlf) > 0
        BY <1>3, <2>5, <3>1
      <4> QED
        BY <1>3, <2>5, <2>6, <4>1, FrontOf
    <3> QED
      BY <3>1, <3>2, Marks
  <2>4. CASE IsPrefix(Crlf, buf)
    <3>1. Continue(Erased(Len(Crlf))) /\ state' = "entry"
      BY <2>3, <2>4 DEF Boundary
    <3>2. buf' = Drop(buf, Len(Crlf))
      <4>1. Len(Crlf) \in Nat
        BY Marked
      <4> QED
        BY <3>1, <4>1, ContinueIs, ErasedIs
    <3>3. Then(Drop(buf, Len(Crlf)), unread) = e
      <4>1. Len(Crlf) <= Len(buf)
        BY <1>3, <2>4, <2>5, MarkAhead
      <4> QED
        BY <1>3, <2>5, <2>6, <4>1, TakenAll
    <3>4. Ahead' = Entry(k + 1)'
      BY <2>2, <3>2, <3>3 DEF Ahead, Entry
    <3>5. AtEntry(k + 1)'
      BY <1>1, <1>2, <3>1, <3>4, DoneKept DEF AtEntry
    <3>6. Tracked(k + 1)'
      BY <3>5 DEF Tracked
    <3> QED
      BY <2>1, <3>6, TrackedIs
  <2> QED
    BY <1>4, <2>3, <2>4
<1>6. CASE k + 1 = Len(form.files) /\ Ahead = Then(DashCrlf, form.epilogue)
  <2>1. form.epilogue \in Text
    BY EntryIs
  <2>2. Then(buf, unread) = Then(DashCrlf, form.epilogue)
    BY <1>6 DEF Ahead
  <2>3. ~IsPrefix(Crlf, buf)
    <3>1. SUFFICES ASSUME Len(buf) >= 2, buf[1] = "cr" PROVE FALSE
      BY <1>3, MarkAhead
    <3>2. buf[1] = DashCrlf[1]
      <4>1. Len(buf) > 0 /\ Len(DashCrlf) > 0
        BY <1>3, <3>1, Marked
      <4> QED
        BY <1>3, <2>1, <2>2, <4>1, Marked, FrontOf
    <3> QED
      BY <3>1, <3>2, Marks
  <2>4. CASE IsPrefix(DashCrlf, buf)
    <3>1. Continue(<<>>) /\ state' = state
      BY <2>3, <2>4 DEF Boundary
    <3>2. buf' = <<>>
      BY <3>1, ContinueIs
    <3>3. unread = <<>>
      <4>1. PICK m \in Nat, u \in Nat, e \in Nat : m = Len(buf) /\ u = Len(unread) /\ e = Len(form.epilogue)
        BY <1>3, <2>1, Lengths
      <4>2. m + u = 4 + e
        <5>1. Len(Then(buf, unread)) = m + u
          BY <1>3, <4>1, Lengths
        <5>2. Len(Then(DashCrlf, form.epilogue)) = 4 + e
          BY <2>1, <4>1, Marked, Lengths
        <5> QED
          BY <2>2, <5>1, <5>2
      <4>3. m >= 4
        BY <1>3, <2>4, <4>1, MarkAhead
      <4>4. u \notin 1 .. e
        BY <4>1, CutIs
      <4>5. u = 0
        BY <4>2, <4>3, <4>4
      <4> QED
        BY <1>3, <4>1, <4>5, EmptySeq DEF Text
    <3>4. Past(k + 1)'
      BY <1>6, <3>2, <3>3 DEF Past
    <3>5. AtBoundary(k)'
      BY <1>1, <1>2, <3>1, <3>4, DoneKept DEF AtBoundary
    <3> QED
      BY <3>5, TrackedIs DEF Tracked
  <2> QED
    BY <1>4, <2>3, <2>4
<1>7. CASE buf = <<>> /\ unread = <<>>
  <2>1. Len(buf) = 0
    BY <1>7
  <2> QED
    BY <1>3, <1>4, <2>1, MarkAhead
<1> QED
  BY <1>1, <1>5, <1>6, <1>7 DEF Past

(* A step of the parser keeps its place in the form, unless a read ended   *)
(* where it must not.                                                      *)
LEMMA TrackKept ==
  ASSUME form \in MultipartForms, form' = form, unread' = unread, ParserTyped, Track,
         ~CutsAt(Len(unread)), ParserStep
  PROVE  Track'
<1>1. CASE InitialBoundary
  <2>1. state = "initial"
    BY <1>1 DEF InitialBoundary
  <2>2. InPreamble
    BY <2>1 DEF Track, Tracked, AtEntry, InHead, InBody, AtBoundary
  <2> QED
    BY <1>1, <2>2, PreambleSkipped
<1>2. CASE NewEntry
  <2>1. state = "entry"
    BY <1>2 DEF NewEntry
  <2>2. PICK k \in 0 .. Len(form.files) - 1 : AtEntry(k)
    BY <2>1 DEF Track, Tracked, InPreamble, InHead, InBody, AtBoundary
  <2> QED
    BY <1>2, <2>2, EntryBegun
<1>3. CASE Headers
  <2>1. UNCHANGED <<buf, state, file, files>>
    BY <1>3 DEF Headers, Fail
  <2> QED
    BY <2>1, NothingMoved
<1>4. CASE HeaderLine
  <2>1. state = "headers"
    BY <1>4 DEF HeaderLine, ParserTyped
  <2>2. PICK k \in 0 .. Len(form.files) - 1 : InHead(k)
    BY <2>1 DEF Track, Tracked, InPreamble, AtEntry, InBody, AtBoundary
  <2> QED
    BY <1>4, <2>2, HeadRead
<1>5. CASE HeaderLineMissing
  <2>1. UNCHANGED <<buf, state, file, files>>
    BY <1>5 DEF HeaderLineMissing, Return
  <2> QED
    BY <2>1, NothingMoved
<1>6. CASE HeadersEnd
  <2>1. state = "headers"
    BY <1>6 DEF HeadersEnd, ParserTyped
  <2>2. PICK k \in 0 .. Len(form.files) - 1 : InHead(k)
    BY <2>1 DEF Track, Tracked, InPreamble, AtEntry, InBody, AtBoundary
  <2> QED
    BY <1>6, <2>2, FileBegun
<1>7. CASE Body
  <2>1. state = "body"
    BY <1>7 DEF Body
  <2>2. PICK k \in 0 .. Len(form.files) - 1 : InBody(k)
    BY <2>1 DEF Track, Tracked, InPreamble, AtEntry, InHead, AtBoundary
  <2> QED
    BY <1>7, <2>2, BodyWritten
<1>8. CASE Boundary
  <2>1. state = "boundary"
    BY <1>8 DEF Boundary
  <2>2. PICK k \in 0 .. Len(form.files) - 1 : AtBoundary(k)
    BY <2>1 DEF Track, Tracked, InPreamble, AtEntry, InHead, InBody
  <2> QED
    BY <1>8, <2>2, BoundaryPassed
<1> QED
  BY <1>1, <1>2, <1>3, <1>4, <1>5, <1>6, <1>7, <1>8 DEF ParserStep

(* What the place of the parser says of the files it has written.          *)
LEMMA FileSent ==
  ASSUME NEW f \in Files, NEW r, r = SentFile(f)
  PROVE  r.name = f.name /\ r.type = f.type /\ r.content = f.content /\ IsPrefix(r.content, f.content)
<1>1. r.name = f.name /\ r.type = f.type /\ r.content = f.content
  BY DEF SentFile
<1>2. f.content \in Seq(Chars)
  BY FileTexts DEF Text
<1>3. IsPrefix(f.content, f.content)
  BY <1>2 DEF IsPrefix
<1> QED
  BY <1>1, <1>3

LEMMA PartSent ==
  ASSUME NEW a \in Text, NEW c \in Text
  PROVE  IsPrefix(a, Then(a, c))
<1>1. PICK b : b = a \o c
  OBVIOUS
<1>2. a \in Seq(Chars) /\ c \in Seq(Chars)
  BY DEF Text
<1>3. b \in Seq(Chars) /\ Len(b) = Len(a) + Len(c) /\ \A i \in 1 .. Len(a) : b[i] = a[i]
  BY <1>1, <1>2, ConcatIs
<1>4. At(a, b, 0)
  BY <1>2, <1>3 DEF At
<1>5. 0 \in 0 .. Len(b) /\ Drop(b, 0) = b
  BY <1>3, DropNone
<1>6. IsPrefix(a, b)
  BY <1>2, <1>3, <1>4, <1>5, PrefixIs
<1> QED
  BY <1>1, <1>6 DEF Then

(* File i, number l being the last, as it was sent so far. *)
SentSoFar(i, l) ==
  /\ files[i].name = form.files[i].name /\ files[i].type = form.files[i].type
  /\ IsPrefix(files[i].content, form.files[i].content)
  /\ i < l => files[i].content = form.files[i].content

LEMMA TrackedFiles ==
  ASSUME form \in MultipartForms, ParserTyped, Track, files # <<>>
  PROVE  Len(files) <= Len(form.files) /\ \A i \in 1 .. Len(files) : SentSoFar(i, Len(files))
<1>1. PICK n \in Nat \ {0} : n = Len(form.files)
  BY EntryIs
<1>2. PICK k \in 0 .. n - 1 : Tracked(k)
  BY <1>1 DEF Track, InPreamble
<1>3. ASSUME NEW d \in Nat, d <= n, Done(d), NEW i \in 1 .. d, NEW l PROVE SentSoFar(i, l)
  <2>1. i - 1 \in 0 .. n - 1 /\ (i - 1) + 1 = i
    BY <1>3
  <2>2. form.files[i] \in Files
    BY <1>1, <2>1, EntryIs
  <2>3. files[i] = SentFile(form.files[i])
    BY <1>3 DEF Done
  <2> QED
    BY <2>2, <2>3, FileSent DEF SentSoFar
<1>4. CASE AtEntry(k) \/ InHead(k)
  <2>1. Len(files) = k /\ Done(k)
    BY <1>4 DEF AtEntry, InHead
  <2> QED
    BY <1>1, <1>3, <2>1
<1>5. CASE InBody(k)
  <2>1. Len(files) = k + 1 /\ Done(k) /\ BodyIs(files[k + 1], form.files[k + 1], After(form)[k + 1])
    BY <1>5 DEF InBody
  <2>2. PICK c \in Text : Then(files[k + 1].content, c) = form.files[k + 1].content
    BY <2>1 DEF BodyIs
  <2>3. files[k + 1].content \in Text
    <3>1. files \in Seq(WrittenTo) /\ k + 1 \in 1 .. Len(files)
      BY <2>1 DEF ParserTyped
    <3>2. files[k + 1] \in WrittenTo
      BY <3>1
    <3> QED
      BY <3>2 DEF WrittenTo
  <2>4. IsPrefix(files[k + 1].content, form.files[k + 1].content)
    <3>1. PICK a \in Text : a = files[k + 1].content
      BY <2>3
    <3> QED
      BY <2>2, <3>1, PartSent
  <2>5. SentSoFar(k + 1, k + 1)
    BY <2>1, <2>4 DEF BodyIs, SentSoFar
  <2>6. ASSUME NEW i \in 1 .. k + 1 PROVE SentSoFar(i, k + 1)
    <3>1. CASE i = k + 1
      BY <2>5, <3>1
    <3>2. CASE i # k + 1
      <4>1. i \in 1 .. k
        BY <3>2
      <4> QED
        BY <1>3, <2>1, <4>1
    <3> QED
      BY <3>1, <3>2
  <2> QED
    BY <1>1, <2>1, <2>6
<1>6. CASE AtBoundary(k)
  <2>1. Len(files) = k + 1 /\ Done(k + 1)
    BY <1>6 DEF AtBoundary
  <2>2. k + 1 \in Nat /\ k + 1 <= n
    OBVIOUS
  <2> QED
    BY <1>1, <1>3, <2>1, <2>2
<1> QED
  BY <1>2, <1>4, <1>5, <1>6 DEF Tracked

(* Two texts of the same length whose elements R relates.                  *)
Alike(R, a, b) == Len(a) = Len(b) /\ \A k \in 1 .. Len(a) : <<a[k], b[k]>> \in R

LEMMA AlikeThen ==
  ASSUME NEW A, NEW B, NEW a \in Seq(A), NEW x \in Seq(A), NEW b \in Seq(B), NEW y \in Seq(B), NEW R,
         Alike(R, a, b), Alike(R, x, y)
  PROVE  Alike(R, Then(a, x), Then(b, y))
<1>1. PICK l \in Nat, n \in Nat : l = Len(a) /\ n = Len(x)
  OBVIOUS
<1>2. Len(b) = l /\ Len(y) = n
  BY <1>1 DEF Alike
<1>3. PICK v, w : v = Then(a, x) /\ w = Then(b, y)
  OBVIOUS
<1>4. Len(v) = l + n /\ (\A k \in 1 .. l : v[k] = a[k]) /\ (\A k \in 1 .. n : v[l + k] = x[k])
  BY <1>1, <1>3, ConcatIs DEF Then
<1>5. Len(w) = l + n /\ (\A k \in 1 .. l : w[k] = b[k]) /\ (\A k \in 1 .. n : w[l + k] = y[k])
  <2>1. /\ Len(b \o y) = Len(b) + Len(y)
        /\ \A k \in 1 .. Len(b) : (b \o y)[k] = b[k]
        /\ \A k \in 1 .. Len(y) : (b \o y)[Len(b) + k] = y[k]
    BY ConcatIs
  <2>2. w = b \o y
    BY <1>3 DEF Then
  <2> QED
    BY <1>2, <2>1, <2>2
<1>6. ASSUME NEW k \in 1 .. l + n PROVE <<v[k], w[k]>> \in R
  <2>1. CASE k <= l
    <3>1. k \in 1 .. l
      BY <2>1
    <3>2. <<a[k], b[k]>> \in R
      BY <1>1, <3>1 DEF Alike
    <3> QED
      BY <1>4, <1>5, <3>1, <3>2
  <2>2. CASE ~(k <= l)
    <3>1. PICK i : i = k - l
      OBVIOUS
    <3>2. i \in 1 .. n /\ l + i = k
      BY <2>2, <3>1
    <3>3. <<x[i], y[i]>> \in R
      BY <1>1, <3>2 DEF Alike
    <3>4. v[k] = x[i] /\ w[k] = y[i]
      BY <1>4, <1>5, <3>2
    <3> QED
      BY <3>3, <3>4
  <2> QED
    BY <2>1, <2>2
<1> QED
  BY <1>3, <1>4, <1>5, <1>6 DEF Alike

LEMMA FlattenAlike ==
  ASSUME NEW A, NEW B, NEW m \in Nat, NEW p \in [1 .. m -> Seq(A)], NEW q \in [1 .. m -> Seq(B)], NEW R,
         \A j \in 1 .. m : Alike(R, p[j], q[j])
  PROVE  Alike(R, FlattenSeq(p), FlattenSeq(q))
<1>1. PICK r : RestsOf(A, p, m, <<>>, r)
  <2>1. <<>> \in Seq(A)
    OBVIOUS
  <2> QED
    BY <2>1, FlattenRests
<1>2. PICK t : RestsOf(B, q, m, <<>>, t)
  <2>1. <<>> \in Seq(B)
    OBVIOUS
  <2> QED
    BY <2>1, FlattenRests
<1>3. /\ r \in [0 .. m -> Seq(A)] /\ r[m] = <<>> /\ \A j \in 0 .. m - 1 : r[j] = Then(p[j + 1], r[j + 1])
      /\ r[0] = Then(FlattenSeq(p), <<>>)
  BY <1>1 DEF RestsOf
<1>4. /\ t \in [0 .. m -> Seq(B)] /\ t[m] = <<>> /\ \A j \in 0 .. m - 1 : t[j] = Then(q[j + 1], t[j + 1])
      /\ t[0] = Then(FlattenSeq(q), <<>>)
  BY <1>2 DEF RestsOf
<1> DEFINE U == {d \in Nat : d <= m => Alike(R, r[m - d], t[m - d])}
<1>5. 0 \in U
  <2>1. m - 0 = m
    OBVIOUS
  <2>2. Alike(R, <<>>, <<>>)
    BY DEF Alike
  <2> QED
    BY <1>3, <1>4, <2>1, <2>2
<1>6. ASSUME NEW d \in Nat, d \in U PROVE d + 1 \in U
  <2> SUFFICES ASSUME d + 1 <= m PROVE Alike(R, r[m - (d + 1)], t[m - (d + 1)])
    OBVIOUS
  <2>1. PICK j \in 0 .. m - 1 : j = m - (d + 1)
    OBVIOUS
  <2>2. j + 1 = m - d /\ d <= m /\ j + 1 \in 0 .. m /\ j + 1 \in 1 .. m
    BY <2>1
  <2>3. PICK a, x, b, y : a = p[j + 1] /\ x = r[j + 1] /\ b = q[j + 1] /\ y = t[j + 1]
    OBVIOUS
  <2>4. a \in Seq(A) /\ x \in Seq(A) /\ b \in Seq(B) /\ y \in Seq(B)
    BY <1>3, <1>4, <2>2, <2>3
  <2>5. Alike(R, a, b) /\ Alike(R, x, y)
    BY <1>6, <2>2, <2>3
  <2>6. Alike(R, Then(a, x), Then(b, y))
    BY <2>4, <2>5, AlikeThen
  <2>7. r[j] = Then(a, x) /\ t[j] = Then(b, y)
    BY <1>3, <1>4, <2>3
  <2> QED
    BY <2>1, <2>6, <2>7
<1>7. m \in U
  <2> HIDE DEF U
  <2> QED
    BY <1>5, <1>6, NatSet
<1>8. Alike(R, r[0], t[0])
  <2>1. m - m = 0 /\ m <= m
    OBVIOUS
  <2> QED
    BY <1>7, <2>1
<1>9. FlattenSeq(p) \in Seq(A) /\ FlattenSeq(q) \in Seq(B)
  <2>1. <<>> \in Seq(A) /\ <<>> \in Seq(B)
    OBVIOUS
  <2> QED
    BY <2>1, FlattenRests
<1>10. r[0] = FlattenSeq(p) /\ t[0] = FlattenSeq(q)
  BY <1>3, <1>4, <1>9 DEF Then
<1> QED
  BY <1>8, <1>10

-----------------------------------------------------------------------------
(***************************************************************************)
(* Escaped characters.                                                     *)

(* Letters and digits, and what else is in an escaped text.                *)
Plain == (48 .. 57) \cup (65 .. 90) \cup (97 .. 122)

Inked == Plain \cup {Percent, Plus}

LEMMA DigitIs ==
  ASSUME NEW n \in 0 .. 15
  PROVE  /\ Digit(n) \in DOMAIN Hex /\ Hex[Digit(n)] = n
         /\ Digit(n) \in Plain /\ Digit(n) # LetterU
<1>1. CASE n < 10
  <2>1. Digit(n) = 48 + n /\ 48 + n \in 48 .. 57 /\ 48 + n # 117 /\ 48 + n <= 57 /\ (48 + n) - 48 = n
    BY <1>1 DEF Digit
  <2> QED
    BY <2>1 DEF Hex, Plain, LetterU
<1>2. CASE ~(n < 10)
  <2>1. /\ Digit(n) = 55 + n /\ 55 + n \in 65 .. 70 /\ 55 + n # 117 /\ ~(55 + n <= 57) /\ 55 + n <= 70
        /\ (55 + n) - 55 = n
    BY <1>2 DEF Digit
  <2> QED
    BY <2>1 DEF Hex, Plain, LetterU
<1> QED
  BY <1>1, <1>2

LEMMA TwoDigits ==
  ASSUME NEW c \in Nat, c < 128
  PROVE  c \div 16 \in 0 .. 15 /\ c % 16 \in 0 .. 15 /\ (16 * (c \div 16)) + (c % 16) = c
OBVIOUS

LEMMA FourDigits ==
  ASSUME NEW c \in Nat, c <= CodeMax
  PROVE  /\ c \div 4096 \in 0 .. 15 /\ (c \div 256) % 16 \in 0 .. 15
         /\ (c \div 16) % 16 \in 0 .. 15 /\ c % 16 \in 0 .. 15
         /\ (256 * ((16 * (c \div 4096)) + ((c \div 256) % 16))) + ((16 * ((c \div 16) % 16)) + (c % 16)) = c
BY DEF CodeMax

(* The escape at the front of a text: the code it stands for, and its      *)
(* length.                                                                 *)
CodeAt(x) ==
  IF x[1] = Percent
    THEN IF x[2] = LetterU THEN (256 * HexByte(x, 3)) + HexByte(x, 5) ELSE HexByte(x, 2)
    ELSE IF x[1] = Plus THEN Space ELSE x[1]

SizeAt(x) == IF x[1] = Percent THEN IF x[2] = LetterU THEN 6 ELSE 3 ELSE 1

(* An escape in front of anything is read back.                            *)
ReadBack(e, x, c) ==
  /\ e \in Seq(Inked) /\ e # <<>>
  /\ CodeAt(x) = c /\ SizeAt(x) = Len(e)
  /\ Unescape(x, TRUE).text = ToUtf8(c) /\ Unescape(x, TRUE).taken = Len(e)

LEMMA Front1 ==
  ASSUME NEW S, NEW c \in S, NEW y \in Seq(S)
  PROVE  Then(<<c>>, y) \in Seq(S) /\ Then(<<c>>, y)[1] = c /\ Len(Then(<<c>>, y)) \in Nat \ {0}
<1>1. PICK a : a = <<c>>
  OBVIOUS
<1>2. a \in Seq(S) /\ Len(a) = 1 /\ a[1] = c
  BY <1>1
<1>3. a \in Seq(S)
  BY <1>2
<1>4. Then(a, y) \in Seq(S) /\ Len(Then(a, y)) = Len(a) + Len(y) /\ \A i \in 1 .. Len(a) : Then(a, y)[i] = a[i]
  BY <1>3, ThenFront
<1>5. Len(y) \in Nat
  OBVIOUS
<1> QED
  BY <1>1, <1>2, <1>4, <1>5

LEMMA InkedIs == /\ Plain \subseteq Inked /\ Inked \subseteq Byte /\ Percent \in Inked /\ Plus \in Inked
                 /\ Percent # Plus /\ Percent \notin Plain /\ Plus \notin Plain /\ LetterU \in Plain
                 /\ LetterU \notin DOMAIN Hex /\ Space \notin Inked /\ Equals \notin Inked /\ Ampersand \notin Inked
                 /\ Inked \cap Blanks = {}
BY DEF Plain, Inked, Byte, Percent, Plus, LetterU, Hex, Space, Equals, Ampersand, Blanks

LEMMA Ascii == ASSUME NEW c \in Nat, c < 128 PROVE ToUtf8(c) = <<c>>
<1>1. ~(c >= 128) /\ ~(c >= 55296)
  OBVIOUS
<1> QED
  BY <1>1 DEF ToUtf8

LEMMA OneRead ==
  ASSUME NEW c \in 0 .. CodeMax, c \in Plain \cup {Space}, NEW y \in Seq(Inked)
  PROVE  ReadBack(Escape(c), Then(Escape(c), y), c)
<1>1. c \in Nat /\ c < 128
  BY DEF Plain, Space
<1>2. PICK d : d = IF c = Space THEN Plus ELSE c
  OBVIOUS
<1>3. Escape(c) = <<d>>
  <2>1. c = Space => c \notin (48 .. 57) \cup (65 .. 90) \cup (97 .. 122)
    BY DEF Space
  <2>2. CASE c = Space
    BY <1>2, <2>1, <2>2 DEF Escape
  <2>3. CASE c # Space
    <3>1. c \in (48 .. 57) \cup (65 .. 90) \cup (97 .. 122)
      BY <2>3 DEF Plain
    <3> QED
      BY <1>2, <2>3, <3>1 DEF Escape
  <2> QED
    BY <2>2, <2>3
<1>4. d \in Inked /\ d # Percent /\ (d = Plus <=> c = Space)
  BY <1>2, InkedIs
<1>5. PICK e : e = <<d>>
  OBVIOUS
<1>6. e \in Seq(Inked) /\ Len(e) = 1 /\ e # <<>>
  BY <1>4, <1>5
<1>7. PICK x : x = Then(e, y)
  OBVIOUS
<1>8. x[1] = d
  BY <1>4, <1>5, <1>7, Front1
<1>9. CodeAt(x) = c /\ SizeAt(x) = 1
  BY <1>2, <1>4, <1>8 DEF CodeAt, SizeAt
<1>10. Unescape(x, TRUE) = [text |-> <<c>>, taken |-> 1]
  <2>1. CASE c = Space
    BY <1>4, <1>8, <2>1 DEF Unescape
  <2>2. CASE c # Space
    BY <1>2, <1>4, <1>8, <2>2 DEF Unescape
  <2> QED
    BY <2>1, <2>2
<1>11. ToUtf8(c) = <<c>>
  BY <1>1, Ascii
<1>30. Unescape(x, TRUE).text = ToUtf8(c) /\ Unescape(x, TRUE).taken = 1
  <2>1. PICK v, t : v = Unescape(x, TRUE) /\ t = ToUtf8(c)
    OBVIOUS
  <2>2. v = [text |-> t, taken |-> 1]
    BY <1>10, <1>11, <2>1
  <2>3. v.text = t /\ v.taken = 1
    BY <2>2
  <2> QED
    BY <2>1, <2>3
<1>31. ReadBack(e, x, c)
  BY <1>9, <1>6, <1>30 DEF ReadBack
<1> QED
  BY <1>3, <1>5, <1>7, <1>31

(* The two digits from place i on. *)
LEMMA HexRead ==
  ASSUME NEW g \in 0 .. 15, NEW h \in 0 .. 15, NEW i \in Nat, NEW x, x[i] = Digit(g), x[i + 1] = Digit(h)
  PROVE  HexByte(x, i) = (16 * g) + h
BY DigitIs DEF HexByte

LEMMA ThreeRead ==
  ASSUME NEW c \in 0 .. CodeMax, c < 128, c \notin Plain \cup {Space}, NEW y \in Seq(Inked)
  PROVE  ReadBack(Escape(c), Then(Escape(c), y), c)
<1>1. PICK g, h \in 0 .. 15 : g = c \div 16 /\ h = c % 16 /\ (16 * g) + h = c
  BY TwoDigits
<1>2. PICK d1, d2 : d1 = Digit(g) /\ d2 = Digit(h)
  OBVIOUS
<1>3. d1 \in Inked /\ d2 \in Inked /\ d1 # LetterU /\ d1 \in DOMAIN Hex /\ d2 \in DOMAIN Hex
  BY <1>2, DigitIs, InkedIs
<1>4. PICK e : e = <<Percent, d1, d2>>
  OBVIOUS
<1>5. Escape(c) = e
  <2>1. c \notin (48 .. 57) \cup (65 .. 90) \cup (97 .. 122) /\ c # Space
    BY DEF Plain
  <2> QED
    BY <1>1, <1>2, <1>4, <2>1 DEF Escape
<1>6. e \in Seq(Inked) /\ Len(e) = 3 /\ e[1] = Percent /\ e[2] = d1 /\ e[3] = d2 /\ e # <<>>
  BY <1>3, <1>4, InkedIs
<1>7. PICK x : x = Then(e, y)
  OBVIOUS
<1>8. Len(x) >= 3 /\ Len(x) \in Nat /\ x[1] = Percent /\ x[2] = d1 /\ x[3] = d2
  <2>1. e \in Seq(Inked)
    BY <1>6
  <2>2. Len(x) = Len(e) + Len(y) /\ \A i \in 1 .. Len(e) : x[i] = e[i]
    BY <1>7, <2>1, ThenFront
  <2>3. Len(y) \in Nat
    OBVIOUS
  <2> QED
    BY <1>6, <2>2, <2>3
<1>9. HexByte(x, 2) = c
  <2>1. x[2] = Digit(g) /\ x[2 + 1] = Digit(h)
    BY <1>2, <1>8
  <2> QED
    BY <1>1, <2>1, HexRead
<1>10. CodeAt(x) = c /\ SizeAt(x) = 3
  BY <1>3, <1>8, <1>9 DEF CodeAt, SizeAt
<1>11. HasHex(x, 2, 2)
  <2>1. \A k \in 2 .. (2 + 2) - 1 : k = 2 \/ k = 3
    OBVIOUS
  <2> QED
    BY <1>3, <1>8, <2>1 DEF HasHex
<1>12. Unescape(x, TRUE) = [text |-> <<c>>, taken |-> 3]
  <2>1. x[1] # Plus
    BY <1>8, InkedIs
  <2> QED
    BY <1>3, <1>8, <1>9, <1>11, <2>1 DEF Unescape
<1>13. ToUtf8(c) = <<c>>
  BY Ascii
<1>30. Unescape(x, TRUE).text = ToUtf8(c) /\ Unescape(x, TRUE).taken = 3
  <2>1. PICK v, t : v = Unescape(x, TRUE) /\ t = ToUtf8(c)
    OBVIOUS
  <2>2. v = [text |-> t, taken |-> 3]
    BY <1>12, <1>13, <2>1
  <2>3. v.text = t /\ v.taken = 3
    BY <2>2
  <2> QED
    BY <2>1, <2>3
<1>31. ReadBack(e, x, c)
  BY <1>10, <1>6, <1>30 DEF ReadBack
<1> QED
  BY <1>5, <1>7, <1>31

LEMMA SixRead ==
  ASSUME NEW c \in 0 .. CodeMax, c >= 128, NEW y \in Seq(Inked)
  PROVE  ReadBack(Escape(c), Then(Escape(c), y), c)
<1>0. c \in Nat /\ c <= CodeMax
  BY DEF CodeMax
<1>20. PICK f, g, h, i :
        f = c \div 4096 /\ g = (c \div 256) % 16 /\ h = (c \div 16) % 16 /\ i = c % 16
  OBVIOUS
<1>21. /\ c \div 4096 \in 0 .. 15 /\ (c \div 256) % 16 \in 0 .. 15
       /\ (c \div 16) % 16 \in 0 .. 15 /\ c % 16 \in 0 .. 15
       /\ (256 * ((16 * (c \div 4096)) + ((c \div 256) % 16))) + ((16 * ((c \div 16) % 16)) + (c % 16)) = c
  BY <1>0, FourDigits
<1>1. /\ f \in 0 .. 15 /\ g \in 0 .. 15 /\ h \in 0 .. 15 /\ i \in 0 .. 15
      /\ (256 * ((16 * f) + g)) + ((16 * h) + i) = c
  BY <1>20, <1>21
<1>2. PICK d1, d2, d3, d4 : d1 = Digit(f) /\ d2 = Digit(g) /\ d3 = Digit(h) /\ d4 = Digit(i)
  OBVIOUS
<1>3. /\ d1 \in Inked /\ d2 \in Inked /\ d3 \in Inked /\ d4 \in Inked
      /\ d1 \in DOMAIN Hex /\ d2 \in DOMAIN Hex /\ d3 \in DOMAIN Hex /\ d4 \in DOMAIN Hex
  <2>1. \A n \in 0 .. 15 : Digit(n) \in Inked /\ Digit(n) \in DOMAIN Hex
    BY DigitIs, InkedIs
  <2> QED
    BY <1>1, <1>2, <2>1
<1>4. PICK e : e = <<Percent, LetterU, d1, d2, d3, d4>>
  OBVIOUS
<1>5. Escape(c) = e
  <2>1. c \notin (48 .. 57) \cup (65 .. 90) \cup (97 .. 122) /\ c # Space /\ ~(c < 128)
    BY <1>0 DEF Space
  <2> QED
    BY <1>20, <1>2, <1>4, <2>1 DEF Escape
<1>6. /\ e \in Seq(Inked) /\ Len(e) = 6 /\ e # <<>>
      /\ e[1] = Percent /\ e[2] = LetterU /\ e[3] = d1 /\ e[4] = d2 /\ e[5] = d3 /\ e[6] = d4
  BY <1>3, <1>4, InkedIs
<1>7. PICK x : x = Then(e, y)
  OBVIOUS
<1>8. /\ Len(x) >= 6 /\ Len(x) \in Nat /\ x[1] = Percent /\ x[2] = LetterU
      /\ x[3] = d1 /\ x[4] = d2 /\ x[5] = d3 /\ x[6] = d4
  <2>1. e \in Seq(Inked)
    BY <1>6
  <2>2. Len(x) = Len(e) + Len(y) /\ \A k \in 1 .. Len(e) : x[k] = e[k]
    BY <1>7, <2>1, ThenFront
  <2>3. Len(y) \in Nat
    OBVIOUS
  <2> QED
    BY <1>6, <2>2, <2>3
<1>9. HexByte(x, 3) = (16 * f) + g /\ HexByte(x, 5) = (16 * h) + i
  <2>1. x[3] = Digit(f) /\ x[3 + 1] = Digit(g) /\ 3 \in Nat
    BY <1>2, <1>8
  <2>2. x[5] = Digit(h) /\ x[5 + 1] = Digit(i) /\ 5 \in Nat
    BY <1>2, <1>8
  <2>3. HexByte(x, 3) = (16 * f) + g
    BY <1>1, <2>1, HexRead
  <2>4. HexByte(x, 5) = (16 * h) + i
    BY <1>1, <2>2, HexRead
  <2> QED
    BY <2>3, <2>4
<1>10. (256 * HexByte(x, 3)) + HexByte(x, 5) = c
  BY <1>1, <1>9
<1>11. CodeAt(x) = c /\ SizeAt(x) = 6
  BY <1>8, <1>10 DEF CodeAt, SizeAt
<1>12. HasHex(x, 3, 4)
  <2>1. \A k \in 3 .. (3 + 4) - 1 : k = 3 \/ k = 4 \/ k = 5 \/ k = 6
    OBVIOUS
  <2> QED
    BY <1>3, <1>8, <2>1 DEF HasHex
<1>13. ~HasHex(x, 2, 2)
  <2>1. 2 \in 2 .. (2 + 2) - 1
    OBVIOUS
  <2> QED
    BY <1>8, <2>1, InkedIs DEF HasHex
<1>14. Unescape(x, TRUE) = [text |-> ToUtf8(c), taken |-> 6]
  <2>1. x[1] # Plus
    BY <1>8, InkedIs
  <2> QED
    BY <1>8, <1>10, <1>12, <1>13, <2>1 DEF Unescape
<1>30. Unescape(x, TRUE).text = ToUtf8(c) /\ Unescape(x, TRUE).taken = 6
  <2>1. PICK v, t : v = Unescape(x, TRUE) /\ t = ToUtf8(c)
    OBVIOUS
  <2>2. v = [text |-> t, taken |-> 6]
    BY <1>14, <2>1
  <2>3. v.text = t /\ v.taken = 6
    BY <2>2
  <2> QED
    BY <2>1, <2>3
<1>31. ReadBack(e, x, c)
  BY <1>11, <1>6, <1>30 DEF ReadBack
<1> QED
  BY <1>5, <1>7, <1>31

LEMMA EscapeRead ==
  ASSUME NEW c \in 0 .. CodeMax, NEW y \in Seq(Inked)
  PROVE  ReadBack(Escape(c), Then(Escape(c), y), c)
<1>1. c \in Nat
  OBVIOUS
<1> QED
  BY <1>1, OneRead, ThreeRead, SixRead

-----------------------------------------------------------------------------
(***************************************************************************)
(* Characters and their bytes.                                             *)

Surrogates == 55296 .. 57343

LEMMA TwoBytes ==
  ASSUME NEW c \in Nat, c >= 128, c < 2048
  PROVE  /\ 192 + ((c \div 64) % 32) \in 192 .. 223 /\ 128 + (c % 64) \in 128 .. 191
         /\ (64 * ((192 + ((c \div 64) % 32)) - 192)) + ((128 + (c % 64)) - 128) = c
OBVIOUS

LEMMA ThreeBytes ==
  ASSUME NEW c \in Nat, c <= CodeMax
  PROVE  /\ 224 + ((c \div 4096) % 16) \in 224 .. 239 /\ 128 + ((c \div 64) % 64) \in 128 .. 191
         /\ 128 + (c % 64) \in 128 .. 191
         /\ ((4096 * ((224 + ((c \div 4096) % 16)) - 224)) + (64 * ((128 + ((c \div 64) % 64)) - 128)))
              + ((128 + (c % 64)) - 128) = c
BY DEF CodeMax

(* The bytes of a character in front of anything are read back.            *)
CharacterBack(e, x, c) ==
  /\ e \in Seq(Byte) /\ e # <<>>
  /\ FirstCharacter(x).text = <<c>> /\ FirstCharacter(x).taken = Len(e)

LEMMA OneByteRead ==
  ASSUME NEW c \in Nat, c < 128, NEW y \in Seq(Byte)
  PROVE  CharacterBack(ToUtf8(c), Then(ToUtf8(c), y), c)
<1>1. PICK e : e = <<c>>
  OBVIOUS
<1>2. c \in Byte
  BY DEF Byte
<1>3. e \in Seq(Byte) /\ Len(e) = 1 /\ e # <<>>
  BY <1>1, <1>2
<1>4. ToUtf8(c) = e
  BY <1>1, Ascii
<1>5. PICK x : x = Then(e, y)
  OBVIOUS
<1>6. x[1] = c
  BY <1>1, <1>2, <1>5, Front1
<1>7. FirstCharacter(x).text = <<c>> /\ FirstCharacter(x).taken = 1
  <2>1. PICK v : v = FirstCharacter(x)
    OBVIOUS
  <2>2. v = [text |-> <<c>>, taken |-> 1]
    BY <1>6, <2>1 DEF FirstCharacter
  <2> QED
    BY <2>1, <2>2
<1>8. CharacterBack(e, x, c)
  BY <1>3, <1>7 DEF CharacterBack
<1> QED
  BY <1>4, <1>5, <1>8

LEMMA TwoBytesRead ==
  ASSUME NEW c \in Nat, c >= 128, c < 2048, NEW y \in Seq(Byte)
  PROVE  CharacterBack(ToUtf8(c), Then(ToUtf8(c), y), c)
<1>1. PICK b1, b2 : b1 = 192 + ((c \div 64) % 32) /\ b2 = 128 + (c % 64)
  OBVIOUS
<1>2. b1 \in 192 .. 223 /\ b2 \in 128 .. 191 /\ (64 * (b1 - 192)) + (b2 - 128) = c
  BY <1>1, TwoBytes
<1> DEFINE e == <<b1, b2>>
<1>4. ToUtf8(c) = e
  <2>1. ~(c < 128) /\ ~(c >= 55296)
    OBVIOUS
  <2> QED
    BY <1>1, <2>1 DEF ToUtf8, Continuation
<1>5. e \in Seq(Byte) /\ Len(e) = 2 /\ e[1] = b1 /\ e[2] = b2 /\ e # <<>>
  <2>1. b1 \in Byte /\ b2 \in Byte
    BY <1>2 DEF Byte
  <2> QED
    BY <2>1
<1> HIDE DEF e
<1>6. PICK x : x = Then(e, y)
  OBVIOUS
<1>7. Len(x) >= 2 /\ Len(x) \in Nat /\ x[1] = b1 /\ x[2] = b2
  <2>1. e \in Seq(Byte)
    BY <1>5
  <2>4. Len(Then(e, y)) = Len(e) + Len(y) /\ \A k \in 1 .. Len(e) : Then(e, y)[k] = e[k]
    BY <2>1, ThenFront
  <2>2. Len(x) = Len(e) + Len(y) /\ \A k \in 1 .. Len(e) : x[k] = e[k]
    BY <1>6, <2>4
  <2>3. Len(y) \in Nat
    OBVIOUS
  <2> QED
    BY <1>5, <2>2, <2>3
<1>8. FirstCharacter(x).text = <<c>> /\ FirstCharacter(x).taken = 2
  <2>1. PICK v : v = FirstCharacter(x)
    OBVIOUS
  <2>2. x[1] >= 128 /\ x[1] < 224 /\ ~(x[1] < 128) /\ 2 <= Len(x)
    BY <1>2, <1>7
  <2>3. v = [text |-> <<(64 * (x[1] - 192)) + (x[2] - 128)>>, taken |-> 2]
    BY <2>1, <2>2 DEF FirstCharacter
  <2>4. (64 * (x[1] - 192)) + (x[2] - 128) = c
    BY <1>2, <1>7
  <2>5. v = [text |-> <<c>>, taken |-> 2]
    BY <2>3, <2>4
  <2> QED
    BY <2>1, <2>5
<1>9. CharacterBack(e, x, c)
  BY <1>5, <1>8 DEF CharacterBack
<1> QED
  BY <1>4, <1>6, <1>9

LEMMA ThreeBytesRead ==
  ASSUME NEW c \in Nat, c >= 2048, c <= CodeMax, c \notin Surrogates, NEW y \in Seq(Byte)
  PROVE  CharacterBack(ToUtf8(c), Then(ToUtf8(c), y), c)
<1>1. PICK b1, b2, b3 :
        b1 = 224 + ((c \div 4096) % 16) /\ b2 = 128 + ((c \div 64) % 64) /\ b3 = 128 + (c % 64)
  OBVIOUS
<1>2. /\ b1 \in 224 .. 239 /\ b2 \in 128 .. 191 /\ b3 \in 128 .. 191
      /\ ((4096 * (b1 - 224)) + (64 * (b2 - 128))) + (b3 - 128) = c
  BY <1>1, ThreeBytes
<1> DEFINE e == <<b1, b2, b3>>
<1>4. ToUtf8(c) = e
  <2>1. ~(c < 128) /\ ~(c < 2048) /\ ~(c >= 55296 /\ c < 57344)
    BY DEF Surrogates
  <2> QED
    BY <1>1, <2>1 DEF ToUtf8, Continuation
<1>5. e \in Seq(Byte) /\ Len(e) = 3 /\ e[1] = b1 /\ e[2] = b2 /\ e[3] = b3 /\ e # <<>>
  <2>1. b1 \in Byte /\ b2 \in Byte /\ b3 \in Byte
    BY <1>2 DEF Byte
  <2> QED
    BY <2>1
<1> HIDE DEF e
<1>6. PICK x : x = Then(e, y)
  OBVIOUS
<1>7. Len(x) >= 3 /\ Len(x) \in Nat /\ x[1] = b1 /\ x[2] = b2 /\ x[3] = b3
  <2>1. e \in Seq(Byte)
    BY <1>5
  <2>4. Len(Then(e, y)) = Len(e) + Len(y) /\ \A k \in 1 .. Len(e) : Then(e, y)[k] = e[k]
    BY <2>1, ThenFront
  <2>2. Len(x) = Len(e) + Len(y) /\ \A k \in 1 .. Len(e) : x[k] = e[k]
    BY <1>6, <2>4
  <2>3. Len(y) \in Nat
    OBVIOUS
  <2> QED
    BY <1>5, <2>2, <2>3
<1>8. FirstCharacter(x).text = <<c>> /\ FirstCharacter(x).taken = 3
  <2>1. PICK v : v = FirstCharacter(x)
    OBVIOUS
  <2>2. ~(x[1] < 224) /\ ~(x[1] < 128) /\ 2 <= Len(x) /\ 3 <= Len(x)
    BY <1>2, <1>7
  <2>3. v = [text |-> <<((4096 * (x[1] - 224)) + (64 * (x[2] - 128))) + (x[3] - 128)>>, taken |-> 3]
    BY <2>1, <2>2 DEF FirstCharacter
  <2>4. ((4096 * (x[1] - 224)) + (64 * (x[2] - 128))) + (x[3] - 128) = c
    BY <1>2, <1>7
  <2>5. v = [text |-> <<c>>, taken |-> 3]
    BY <2>3, <2>4
  <2> QED
    BY <2>1, <2>5
<1>9. CharacterBack(e, x, c)
  BY <1>5, <1>8 DEF CharacterBack
<1> QED
  BY <1>4, <1>6, <1>9

LEMMA NoBytes == ASSUME NEW c \in Surrogates PROVE ToUtf8(c) = <<>>
<1>1. ~(c < 128) /\ ~(c < 2048) /\ c >= 55296 /\ c < 57344
  BY DEF Surrogates
<1> QED
  BY <1>1 DEF ToUtf8

LEMMA Utf8Read ==
  ASSUME NEW c \in 0 .. CodeMax, c \notin Surrogates, NEW y \in Seq(Byte)
  PROVE  CharacterBack(ToUtf8(c), Then(ToUtf8(c), y), c)
<1>1. c \in Nat /\ c <= CodeMax
  BY DEF CodeMax
<1>2. CASE c < 128
  BY <1>1, <1>2, OneByteRead
<1>3. CASE c >= 128 /\ c < 2048
  BY <1>1, <1>3, TwoBytesRead
<1>4. CASE c >= 2048
  BY <1>1, <1>4, ThreeBytesRead
<1> QED
  BY <1>1, <1>2, <1>3, <1>4

LEMMA Utf8Typed == ASSUME NEW c \in 0 .. CodeMax PROVE ToUtf8(c) \in Seq(Byte)
<1>1. <<>> \in Seq(Byte)
  OBVIOUS
<1>2. CASE c \in Surrogates
  BY <1>1, <1>2, NoBytes
<1>3. CASE c \notin Surrogates
  BY <1>1, <1>3, Utf8Read DEF CharacterBack
<1> QED
  BY <1>2, <1>3

Codes == Seq(0 .. CodeMax)

LEMMA CodesIs ==
  ASSUME NEW codes \in Codes
  PROVE  /\ Len(codes) \in Nat /\ DOMAIN codes = 1 .. Len(codes)
         /\ \A i \in 1 .. Len(codes) : codes[i] \in 0 .. CodeMax
<1>1. PICK T : T = 0 .. CodeMax
  OBVIOUS
<1>2. codes \in Seq(T)
  BY <1>1 DEF Codes
<1>3. Len(codes) \in Nat /\ DOMAIN codes = 1 .. Len(codes) /\ \A i \in 1 .. Len(codes) : codes[i] \in T
  BY <1>2
<1> QED
  BY <1>1, <1>3

(* What the loops take at once. *)
LEMMA TakenIs ==
  ASSUME NEW x
  PROVE  Unescape(x, TRUE).taken \in Nat \ {0} /\ FirstCharacter(x).taken \in Nat \ {0}
<1>1. PICK v : v = Unescape(x, TRUE)
  OBVIOUS
<1>2. v.taken \in {1, 3, 6}
  BY <1>1 DEF Unescape
<1>3. PICK w : w = FirstCharacter(x)
  OBVIOUS
<1>4. w.taken \in {1, 2, 3}
  BY <1>3 DEF FirstCharacter
<1>5. v.taken \in Nat \ {0} /\ w.taken \in Nat \ {0}
  BY <1>2, <1>4
<1> QED
  BY <1>1, <1>3, <1>5

Escapes(codes) == [i \in 1 .. Len(codes) |-> Escape(codes[i])]

LEMMA EscapesAre ==
  ASSUME NEW codes \in Codes
  PROVE  /\ Escapes(codes) \in [1 .. Len(codes) -> Seq(Inked)]
         /\ EscapeAll(codes) = FlattenSeq(Escapes(codes)) /\ EscapeAll(codes) \in Seq(Inked)
         /\ EscapeAll(codes) = <<>> <=> codes = <<>>
<1>1. PICK m \in Nat : m = Len(codes)
  BY CodesIs
<1>2. DOMAIN codes = 1 .. m /\ \A i \in 1 .. m : codes[i] \in 0 .. CodeMax
  BY <1>1, CodesIs
<1>3. PICK e : e = Escapes(codes)
  OBVIOUS
<1>4. \A i \in 1 .. m : e[i] = Escape(codes[i])
  BY <1>1, <1>3 DEF Escapes
<1>5. ASSUME NEW i \in 1 .. m PROVE e[i] \in Seq(Inked) /\ e[i] # <<>>
  <2>1. codes[i] \in 0 .. CodeMax /\ <<>> \in Seq(Inked)
    BY <1>2
  <2> QED
    BY <1>4, <2>1, EscapeRead DEF ReadBack
<1>6. e \in [1 .. m -> Seq(Inked)]
  BY <1>1, <1>3, <1>5 DEF Escapes
<1>7. EscapeAll(codes) = FlattenSeq(e)
  BY <1>1, <1>2, <1>3 DEF EscapeAll, Escapes
<1>8. <<>> \in Seq(Inked)
  OBVIOUS
<1>9. FlattenSeq(e) \in Seq(Inked)
  BY <1>6, <1>8, FlattenRests
<1>10. ASSUME m # 0 PROVE FlattenSeq(e) # <<>>
  <2>1. PICK r : RestsOf(Inked, e, m, <<>>, r)
    BY <1>6, <1>8, FlattenRests
  <2>2. r[0] = Then(e[0 + 1], r[0 + 1]) /\ r[0] = Then(FlattenSeq(e), <<>>) /\ r[0 + 1] \in Seq(Inked)
    <3>1. 0 \in 0 .. m - 1 /\ 0 + 1 \in 0 .. m
      BY <1>10
    <3> QED
      BY <2>1, <3>1 DEF RestsOf
  <2>3. PICK a, y : a = e[1] /\ y = r[1]
    OBVIOUS
  <2>4. a \in Seq(Inked) /\ a # <<>>
    <3>1. 1 \in 1 .. m
      BY <1>10
    <3> QED
      BY <1>5, <2>3, <3>1
  <2>5. y \in Seq(Inked)
    BY <2>2, <2>3
  <2>6. FlattenSeq(e) = Then(a, y)
    <3>1. Then(FlattenSeq(e), <<>>) = FlattenSeq(e)
      BY <1>9 DEF Then
    <3>2. 0 + 1 = 1
      OBVIOUS
    <3>3. r[0] = Then(e[1], r[1])
      BY <2>2, <3>2
    <3> QED
      BY <2>2, <2>3, <3>1, <3>3
  <2>7. Len(Then(a, y)) = Len(a) + Len(y)
    <3>1. a \in Seq(Inked)
      BY <2>4
    <3> QED
      BY <2>5, <3>1, ThenFront
  <2>8. Len(a) \in Nat /\ Len(a) # 0 /\ Len(y) \in Nat
    BY <2>4, <2>5, EmptySeq
  <2>9. Len(FlattenSeq(e)) # 0
    BY <2>6, <2>7, <2>8
  <2> QED
    BY <2>9
<1>11. ASSUME m = 0 PROVE FlattenSeq(e) = <<>>
  <2>1. PICK r : RestsOf(Inked, e, m, <<>>, r)
    BY <1>6, <1>8, FlattenRests
  <2>2. r[0] = Then(FlattenSeq(e), <<>>) /\ r[0] = <<>>
    BY <1>11, <2>1 DEF RestsOf
  <2> QED
    BY <1>9, <2>2 DEF Then
<1>12. codes = <<>> <=> m = 0
  <2>1. codes = <<>> => m = 0
    BY <1>1
  <2> QED
    BY <1>1, <2>1, EmptySeq DEF Codes
<1> QED
  BY <1>1, <1>3, <1>6, <1>7, <1>9, <1>10, <1>11, <1>12

(* The codes that were escaped, one from each escape. *)
CodesLoop(s) == [i \in DOMAIN s |-> [text |-> <<CodeAt(From(s, i))>>, taken |-> SizeAt(From(s, i))]]

LEMMA Unescaped ==
  ASSUME NEW codes \in Codes
  PROVE  Joined(CodesLoop(EscapeAll(codes))) = codes
<1>1. PICK m \in Nat : m = Len(codes)
  BY CodesIs
<1>2. \A j \in 1 .. m : codes[j] \in 0 .. CodeMax
  BY <1>1, CodesIs
<1>3. PICK s, p : s = EscapeAll(codes) /\ p = Escapes(codes)
  OBVIOUS
<1>4. s \in Seq(Inked) /\ s = FlattenSeq(p) /\ p \in [1 .. m -> Seq(Inked)]
  BY <1>1, <1>3, EscapesAre
<1>5. PICK q : q = [j \in 1 .. m |-> <<codes[j]>>]
  OBVIOUS
<1>6. FlattenSeq(q) = codes
  BY <1>1, <1>5, FlattenOnes DEF Codes
<1>7. q \in [1 .. m -> Codes]
  <2>1. \A j \in 1 .. m : <<codes[j]>> \in Codes
    BY <1>2 DEF Codes
  <2> QED
    BY <1>5, <2>1
<1>8. PICK n \in Nat : n = Len(s)
  BY <1>4
<1>9. PICK u : u = CodesLoop(s)
  OBVIOUS
<1>10. DOMAIN s = 1 .. n /\ Len(u) = n
  BY <1>4, <1>8, <1>9 DEF CodesLoop
<1>11. ASSUME NEW i \in 1 .. n PROVE u[i].text = <<CodeAt(From(s, i))>> /\ u[i].taken = SizeAt(From(s, i))
  <2>1. PICK c, z : c = CodeAt(From(s, i)) /\ z = SizeAt(From(s, i))
    OBVIOUS
  <2>2. u[i] = [text |-> <<c>>, taken |-> z]
    BY <1>9, <1>10, <2>1 DEF CodesLoop
  <2> QED
    BY <2>1, <2>2
<1>12. \A x : SizeAt(x) \in Nat \ {0}
  BY DEF SizeAt
<1>13. Advances(u, n)
  BY <1>10, <1>11, <1>12 DEF Advances
<1>14. ASSUME NEW j \in 1 .. m, NEW y \in Seq(Inked) PROVE PartRead(u, s, p[j], q[j], y, j = m)
  <2>1. PICK a, c : a = p[j] /\ c = codes[j]
    OBVIOUS
  <2>2. a = Escape(c) /\ q[j] = <<c>>
    BY <1>1, <1>3, <1>5, <2>1 DEF Escapes
  <2>3. c \in 0 .. CodeMax
    BY <1>2, <2>1
  <2>4. ReadBack(a, Then(a, y), c)
    BY <2>2, <2>3, EscapeRead
  <2>5. ASSUME NEW i \in 1 .. n, Drop(s, i - 1) = Then(a, y) PROVE u[i].text = <<c>> /\ u[i].taken = Len(a)
    <3>1. From(s, i) = Then(a, y)
      BY <1>4, <1>8, <2>5, FromIs
    <3> QED
      BY <1>11, <2>4, <3>1 DEF ReadBack
  <2> QED
    BY <1>8, <2>1, <2>2, <2>4, <2>5 DEF PartRead, ReadBack
<1>15. Advances(u, Len(s))
  BY <1>8, <1>13
<1>16. ReadAs(Inked, 0 .. CodeMax, u, s, m, p, q)
  BY <1>4, <1>7, <1>14, <1>15 DEF ReadAs, Codes
<1>17. Joined(u) = FlattenSeq(q)
  BY <1>16, JoinedIs
<1> QED
  BY <1>3, <1>6, <1>9, <1>17

(* Different codes are written as different texts.                         *)
LEMMA EscapedOnce ==
  ASSUME NEW a \in Codes, NEW b \in Codes, EscapeAll(a) = EscapeAll(b)
  PROVE  a = b
BY Unescaped

(* What a text becomes that was escaped.                                   *)
Bytes(codes) == [i \in 1 .. Len(codes) |-> ToUtf8(codes[i])]

LEMMA DecodedIs ==
  ASSUME NEW codes \in Codes
  PROVE  DecodeUrl(EscapeAll(codes), TRUE) = FlattenSeq(Bytes(codes))
<1>1. PICK m \in Nat : m = Len(codes)
  BY CodesIs
<1>2. \A j \in 1 .. m : codes[j] \in 0 .. CodeMax
  BY <1>1, CodesIs
<1>3. PICK s, p : s = EscapeAll(codes) /\ p = Escapes(codes)
  OBVIOUS
<1>4. s \in Seq(Inked) /\ s = FlattenSeq(p) /\ p \in [1 .. m -> Seq(Inked)]
  BY <1>1, <1>3, EscapesAre
<1>5. PICK q : q = Bytes(codes)
  OBVIOUS
<1>6. \A j \in 1 .. m : q[j] = ToUtf8(codes[j])
  BY <1>1, <1>5 DEF Bytes
<1>7. q \in [1 .. m -> Seq(Byte)]
  <2>1. \A j \in 1 .. m : ToUtf8(codes[j]) \in Seq(Byte)
    BY <1>2, Utf8Typed
  <2> QED
    BY <1>1, <1>5, <2>1 DEF Bytes
<1>8. PICK n \in Nat : n = Len(s)
  BY <1>4
<1>9. PICK u : u = [i \in DOMAIN s |-> Unescape(From(s, i), TRUE)]
  OBVIOUS
<1>10. DOMAIN s = 1 .. n /\ Len(u) = n
  BY <1>4, <1>8, <1>9
<1>11. \A i \in 1 .. n : u[i] = Unescape(From(s, i), TRUE)
  BY <1>9, <1>10
<1>12. \A x : Unescape(x, TRUE).taken \in Nat \ {0}
  BY TakenIs
<1>13. Advances(u, n)
  BY <1>10, <1>11, <1>12 DEF Advances
<1>14. ASSUME NEW j \in 1 .. m, NEW y \in Seq(Inked) PROVE PartRead(u, s, p[j], q[j], y, j = m)
  <2>1. PICK a, c : a = p[j] /\ c = codes[j]
    OBVIOUS
  <2>2. a = Escape(c) /\ q[j] = ToUtf8(c)
    BY <1>1, <1>3, <1>6, <2>1 DEF Escapes
  <2>3. c \in 0 .. CodeMax
    BY <1>2, <2>1
  <2>4. ReadBack(a, Then(a, y), c)
    BY <2>2, <2>3, EscapeRead
  <2>5. ASSUME NEW i \in 1 .. n, Drop(s, i - 1) = Then(a, y) PROVE u[i].text = ToUtf8(c) /\ u[i].taken = Len(a)
    <3>1. From(s, i) = Then(a, y)
      BY <1>4, <1>8, <2>5, FromIs
    <3> QED
      BY <1>11, <2>4, <3>1 DEF ReadBack
  <2> QED
    BY <1>8, <2>1, <2>2, <2>4, <2>5 DEF PartRead, ReadBack
<1>15. Advances(u, Len(s))
  BY <1>8, <1>13
<1>16. ReadAs(Inked, Byte, u, s, m, p, q)
  BY <1>4, <1>7, <1>14, <1>15 DEF ReadAs
<1>17. Joined(u) = FlattenSeq(q)
  BY <1>16, JoinedIs
<1> QED
  BY <1>3, <1>5, <1>9, <1>17 DEF DecodeUrl

LEMMA CharactersAre ==
  ASSUME NEW codes \in Codes
  PROVE  /\ Characters(FlattenSeq(Bytes(codes))) = Proper(codes)
         /\ FlattenSeq(Bytes(codes)) \in Seq(Byte) /\ Proper(codes) \in Codes
<1>1. PICK m \in Nat : m = Len(codes)
  BY CodesIs
<1>2. DOMAIN codes = 1 .. m /\ \A j \in 1 .. m : codes[j] \in 0 .. CodeMax
  BY <1>1, CodesIs
<1>3. PICK s, p : s = FlattenSeq(p) /\ p = Bytes(codes)
  OBVIOUS
<1>4. \A j \in 1 .. m : p[j] = ToUtf8(codes[j])
  BY <1>1, <1>3 DEF Bytes
<1>5. p \in [1 .. m -> Seq(Byte)] /\ s \in Seq(Byte)
  <2>1. \A j \in 1 .. m : ToUtf8(codes[j]) \in Seq(Byte)
    BY <1>2, Utf8Typed
  <2>2. p \in [1 .. m -> Seq(Byte)]
    BY <1>1, <1>3, <2>1 DEF Bytes
  <2>3. <<>> \in Seq(Byte)
    OBVIOUS
  <2> QED
    BY <1>3, <2>2, <2>3, FlattenRests
<1> DEFINE q == [j \in DOMAIN codes |-> IF codes[j] \in 55296 .. 57343 THEN <<>> ELSE <<codes[j]>>]
<1>6. Proper(codes) = FlattenSeq(q) /\ DOMAIN q = 1 .. m
  BY <1>2 DEF Proper
<1>7. \A j \in 1 .. m : q[j] = IF codes[j] \in Surrogates THEN <<>> ELSE <<codes[j]>>
  BY <1>2 DEF Surrogates
<1>20. q = [j \in 1 .. m |-> q[j]]
  BY <1>2
<1> HIDE DEF q
<1>8. q \in [1 .. m -> Codes]
  <2>1. \A j \in 1 .. m : <<codes[j]>> \in Codes /\ <<>> \in Codes
    BY <1>2 DEF Codes
  <2>2. \A j \in 1 .. m : q[j] \in Codes
    BY <1>7, <2>1
  <2> QED
    BY <1>20, <2>2
<1>9. PICK n \in Nat : n = Len(s)
  BY <1>5
<1>10. PICK u : u = [i \in DOMAIN s |-> FirstCharacter(From(s, i))]
  OBVIOUS
<1>11. DOMAIN s = 1 .. n /\ Len(u) = n
  BY <1>5, <1>9, <1>10
<1>12. \A i \in 1 .. n : u[i] = FirstCharacter(From(s, i))
  BY <1>10, <1>11
<1>13. \A x : FirstCharacter(x).taken \in Nat \ {0}
  BY TakenIs
<1>14. Advances(u, n)
  BY <1>11, <1>12, <1>13 DEF Advances
<1>15. ASSUME NEW j \in 1 .. m, NEW y \in Seq(Byte) PROVE PartRead(u, s, p[j], q[j], y, j = m)
  <2>1. PICK a, c : a = p[j] /\ c = codes[j]
    OBVIOUS
  <2>2. a = ToUtf8(c) /\ c \in 0 .. CodeMax
    BY <1>2, <1>4, <2>1
  <2>3. CASE c \in Surrogates
    <3>1. a = <<>> /\ q[j] = <<>>
      BY <1>7, <2>1, <2>2, <2>3, NoBytes
    <3> QED
      BY <2>1, <3>1 DEF PartRead
  <2>4. CASE c \notin Surrogates
    <3>1. CharacterBack(a, Then(a, y), c) /\ q[j] = <<c>>
      BY <1>7, <2>1, <2>2, <2>4, Utf8Read
    <3>2. ASSUME NEW i \in 1 .. n, Drop(s, i - 1) = Then(a, y) PROVE u[i].text = <<c>> /\ u[i].taken = Len(a)
      <4>1. From(s, i) = Then(a, y)
        BY <1>5, <1>9, <3>2, FromIs
      <4> QED
        BY <1>12, <3>1, <4>1 DEF CharacterBack
    <3> QED
      BY <1>9, <2>1, <3>1, <3>2 DEF PartRead, CharacterBack
  <2> QED
    BY <2>3, <2>4
<1>16. Advances(u, Len(s))
  BY <1>9, <1>14
<1>17. ReadAs(Byte, 0 .. CodeMax, u, s, m, p, q)
  BY <1>3, <1>5, <1>8, <1>15, <1>16 DEF ReadAs, Codes
<1>18. Joined(u) = FlattenSeq(q)
  BY <1>17, JoinedIs
<1>19. FlattenSeq(q) \in Codes
  <2>1. <<>> \in Codes
    BY DEF Codes
  <2> QED
    BY <1>8, <2>1, FlattenRests DEF Codes
<1> QED
  BY <1>3, <1>5, <1>10, <1>18, <1>19, <1>6 DEF Characters

-----------------------------------------------------------------------------
(***************************************************************************)
(* Fields and their parts.                                                 *)

LEMMA NoBlanks ==
  ASSUME NEW w \in Seq(Byte), w # <<>>, \A i \in 1 .. Len(w) : w[i] \notin Blanks
  PROVE  Trim(w) = w
<1>1. PICK n \in Nat : n = Len(w)
  OBVIOUS
<1>2. PICK kept : kept = {i \in DOMAIN w : w[i] \notin Blanks}
  OBVIOUS
<1>3. n # 0
  BY <1>1, EmptySeq
<1>4. kept = 1 .. n
  BY <1>1, <1>2
<1>5. kept \subseteq Int /\ 1 \in kept /\ n \in kept /\ \A i \in kept : 1 <= i /\ i <= n
  BY <1>3, <1>4
<1>6. Min(kept) = 1 /\ Max(kept) = n
  BY <1>5, MinIs, MaxIs
<1>7. Trim(w) = SubSeq(w, 1, n)
  BY <1>2, <1>5, <1>6 DEF Trim
<1>8. SubSeq(w, 1, n) = w
  BY <1>1
<1> QED
  BY <1>7, <1>8

(* The places where a field may end.                                       *)
Ends(s, separator) == {i \in DOMAIN s : s[i] = separator} \cup {Len(s) + 1}

LEMMA FieldTaken ==
  ASSUME NEW s \in Seq(Byte), NEW c
  PROVE  FirstField(s, c).taken \in Nat \ {0}
<1>1. PICK e : e = Ends(s, c)
  OBVIOUS
<1>2. e \subseteq Nat \ {0} /\ e # {}
  BY <1>1 DEF Ends
<1>3. PICK n \in e : \A k \in e : n <= k
  BY <1>2, LeastNumber
<1>4. Min(e) = n
  <2>1. e \subseteq Int
    BY <1>2
  <2> QED
    BY <1>3, <2>1, MinIs
<1>5. FirstField(s, c).taken = Min(e)
  BY <1>1 DEF FirstField, Ends
<1> QED
  BY <1>2, <1>4, <1>5

(* A field with a separator behind it, or with nothing behind it.          *)
Leads(w, x, c) ==
  /\ Len(x) >= Len(w) /\ \A i \in 1 .. Len(w) : x[i] = w[i]
  /\ Len(x) > Len(w) => x[Len(w) + 1] = c

LEMMA FieldAtFront ==
  ASSUME NEW w \in Seq(Byte), NEW x \in Seq(Byte), NEW c, w # <<>>, Leads(w, x, c),
         \A i \in 1 .. Len(w) : w[i] \notin Blanks /\ w[i] # c
  PROVE  FirstField(x, c).text = <<w>> /\ FirstField(x, c).taken = Len(w) + 1
<1>1. PICK n, k \in Nat : n = Len(w) /\ k = Len(x)
  OBVIOUS
<1>2. n \in Nat /\ n <= k /\ \A i \in 1 .. n : x[i] = w[i] /\ w[i] # c
  BY <1>1 DEF Leads
<1>3. k > n => x[n + 1] = c
  BY <1>1 DEF Leads
<1>4. PICK e : e = Ends(x, c)
  OBVIOUS
<1>5. e = {i \in 1 .. k : x[i] = c} \cup {k + 1}
  BY <1>1, <1>4 DEF Ends
<1>6. e \subseteq Int /\ n + 1 \in e /\ \A i \in e : n + 1 <= i
  <2>1. \A i \in 1 .. k : x[i] = c => ~(i <= n)
    BY <1>2
  <2>2. e \subseteq Int /\ \A i \in e : n + 1 <= i
    BY <1>2, <1>5, <2>1
  <2>3. n + 1 \in e
    BY <1>2, <1>3, <1>5
  <2> QED
    BY <2>2, <2>3
<1>7. Min(e) = n + 1
  BY <1>6, MinIs
<1>8. SubSeq(x, 1, (n + 1) - 1) = w
  <2>1. PICK v : v = SubSeq(x, 1, (n + 1) - 1)
    OBVIOUS
  <2>2. v \in Seq(Byte) /\ Len(v) = n /\ \A i \in 1 .. n : v[i] = x[i]
    BY <1>1, <1>2, <2>1
  <2>3. \A i \in 1 .. Len(v) : v[i] = w[i]
    BY <1>2, <2>2
  <2>4. v = w
    BY <1>1, <2>2, <2>3, SeqEqual
  <2> QED
    BY <2>1, <2>4
<1>9. Trim(w) = w
  BY NoBlanks
<1>10. PICK f : f = FirstField(x, c)
  OBVIOUS
<1>11. f.text = <<w>> /\ f.taken = n + 1
  BY <1>4, <1>7, <1>8, <1>9, <1>10 DEF FirstField, Ends
<1> QED
  BY <1>1, <1>10, <1>11

LEMMA FlattenTwo ==
  ASSUME NEW S, NEW a \in Seq(S), NEW b \in Seq(S)
  PROVE  FlattenSeq(<<a, b>>) = a \o b
<1>1. PICK p : p = <<a, b>>
  OBVIOUS
<1>2. p \in [1 .. 2 -> Seq(S)] /\ p[1] = a /\ p[2] = b
  BY <1>1
<1>3. <<>> \in Seq(S)
  OBVIOUS
<1>4. FlattenSeq(p) \in Seq(S) /\ \E r : RestsOf(S, p, 2, <<>>, r)
  BY <1>2, <1>3, FlattenRests
<1>5. PICK r : RestsOf(S, p, 2, <<>>, r)
  BY <1>4
<1>6. r[0] = Then(p[1], r[1]) /\ r[1] = Then(p[2], r[2]) /\ r[2] = <<>> /\ r[0] = Then(FlattenSeq(p), <<>>)
  <2>1. 0 \in 0 .. 2 - 1 /\ 1 \in 0 .. 2 - 1 /\ 0 + 1 = 1 /\ 1 + 1 = 2
    OBVIOUS
  <2>2. r[0] = Then(p[0 + 1], r[0 + 1]) /\ r[1] = Then(p[1 + 1], r[1 + 1])
    BY <1>5, <2>1 DEF RestsOf
  <2>3. r[2] = <<>> /\ r[0] = Then(FlattenSeq(p), <<>>)
    BY <1>5 DEF RestsOf
  <2> QED
    BY <2>1, <2>2, <2>3
<1>7. Then(b, <<>>) = b
  BY DEF Then
<1>8. Then(FlattenSeq(p), <<>>) = FlattenSeq(p)
  BY <1>4 DEF Then
<1>9. FlattenSeq(p) = Then(a, b)
  BY <1>2, <1>6, <1>7, <1>8
<1> QED
  BY <1>1, <1>9 DEF Then

(* A text of m fields that separators divide.                              *)
Parted(s, c, m, w, p) ==
  /\ m \in Nat /\ w \in [1 .. m -> Seq(Byte)] /\ p \in [1 .. m -> Seq(Byte)] /\ s = FlattenSeq(p)
  /\ \A j \in 1 .. m :
       /\ p[j] = IF j = m THEN w[j] ELSE Then(w[j], <<c>>)
       /\ j # m => w[j] # <<>>
       /\ \A i \in 1 .. Len(w[j]) : w[j][i] \notin Blanks /\ w[j][i] # c

FieldsAre(w, m) == [j \in 1 .. m |-> IF w[j] = <<>> THEN <<>> ELSE <<w[j]>>]

LEMMA SplitIs ==
  ASSUME NEW s, NEW c \in Byte, NEW m, NEW w, NEW p, Parted(s, c, m, w, p)
  PROVE  Split(s, c) = FlattenSeq(FieldsAre(w, m))
<1>1. m \in Nat /\ w \in [1 .. m -> Seq(Byte)] /\ p \in [1 .. m -> Seq(Byte)] /\ s = FlattenSeq(p)
  BY DEF Parted
<1>2. s \in Seq(Byte)
  <2>1. <<>> \in Seq(Byte)
    OBVIOUS
  <2> QED
    BY <1>1, <2>1, FlattenRests
<1>3. PICK n \in Nat : n = Len(s)
  BY <1>2
<1>4. PICK u : u = [i \in DOMAIN s |-> FirstField(From(s, i), c)]
  OBVIOUS
<1>5. DOMAIN s = 1 .. n /\ Len(u) = n
  BY <1>2, <1>3, <1>4
<1>6. \A i \in 1 .. n : u[i] = FirstField(From(s, i), c)
  BY <1>4, <1>5
<1>7. Advances(u, n)
  <2>1. \A i \in 1 .. n : FirstField(From(s, i), c).taken \in Nat \ {0}
    BY <1>2, <1>3, FromIs, FieldTaken
  <2> QED
    BY <1>5, <1>6, <2>1 DEF Advances
<1>8. PICK q : q = FieldsAre(w, m)
  OBVIOUS
<1>9. \A j \in 1 .. m : q[j] = IF w[j] = <<>> THEN <<>> ELSE <<w[j]>>
  BY <1>8 DEF FieldsAre
<1>10. q \in [1 .. m -> Seq(Seq(Byte))]
  <2>1. PICK T : T = Seq(Byte)
    OBVIOUS
  <2>2. \A j \in 1 .. m : w[j] \in T
    BY <1>1, <2>1
  <2>3. ASSUME NEW j \in 1 .. m PROVE q[j] \in Seq(T)
    <3>1. PICK v \in T : v = w[j]
      BY <2>2
    <3>2. q[j] = <<>> \/ q[j] = <<v>>
      BY <1>9, <3>1
    <3>3. <<>> \in Seq(T) /\ <<v>> \in Seq(T)
      OBVIOUS
    <3> QED
      BY <3>2, <3>3
  <2>4. q \in [1 .. m -> Seq(T)]
    BY <1>8, <2>3 DEF FieldsAre
  <2> QED
    BY <2>1, <2>4
<1>11. ASSUME NEW j \in 1 .. m, NEW y \in Seq(Byte), j = m => y = <<>>
       PROVE  PartRead(u, s, p[j], q[j], y, j = m)
  <2>1. PICK a, v : a = p[j] /\ v = w[j]
    OBVIOUS
  <2>2. v \in Seq(Byte) /\ a \in Seq(Byte)
    BY <1>1, <2>1
  <2>3. /\ a = IF j = m THEN v ELSE Then(v, <<c>>)
        /\ \A i \in 1 .. Len(v) : v[i] \notin Blanks /\ v[i] # c
    BY <2>1 DEF Parted
  <2>4. j # m => v # <<>>
    BY <2>1 DEF Parted
  <2>5. CASE v = <<>>
    <3>1. a = <<>> /\ q[j] = <<>>
      BY <1>9, <2>1, <2>3, <2>4, <2>5
    <3> QED
      BY <2>1, <3>1 DEF PartRead
  <2>6. CASE v # <<>> /\ j = m
    <3>1. q[j] = <<v>> /\ a = v /\ y = <<>>
      BY <1>9, <1>11, <2>1, <2>3, <2>6
    <3>2. Then(a, y) = v
      BY <2>2, <3>1 DEF Then
    <3>3. ASSUME NEW i \in 1 .. n, Drop(s, i - 1) = Then(a, y) PROVE u[i].text = <<v>> /\ u[i].taken = Len(v) + 1
      <4>1. From(s, i) = v
        BY <1>2, <1>3, <3>2, <3>3, FromIs
      <4>2. Leads(v, v, c)
        BY <2>2 DEF Leads
      <4>3. FirstField(v, c).text = <<v>> /\ FirstField(v, c).taken = Len(v) + 1
        BY <2>2, <2>3, <2>6, <4>2, FieldAtFront
      <4> QED
        BY <1>6, <4>1, <4>3
    <3>4. Len(v) \in Nat /\ Len(v) + 1 > Len(v)
      BY <2>2
    <3> QED
      BY <1>3, <2>1, <2>6, <3>1, <3>3, <3>4 DEF PartRead
  <2>7. CASE v # <<>> /\ j # m
    <3>1. q[j] = <<v>> /\ a = Then(v, <<c>>)
      BY <1>9, <2>1, <2>3, <2>7
    <3>2. <<c>> \in Seq(Byte) /\ Len(<<c>>) = 1 /\ <<c>>[1] = c
      OBVIOUS
    <3>3. PICK e : e = <<c>>
      OBVIOUS
    <3>4. Len(a) = Len(v) + 1 /\ (\A i \in 1 .. Len(v) : a[i] = v[i]) /\ a[Len(v) + 1] = c
      <4>1. e \in Seq(Byte) /\ Len(e) = 1 /\ e[1] = c /\ a = v \o e
        BY <3>1, <3>2, <3>3 DEF Then
      <4>2. /\ Len(v \o e) = Len(v) + Len(e)
            /\ \A i \in 1 .. Len(v) : (v \o e)[i] = v[i]
            /\ \A i \in 1 .. Len(e) : (v \o e)[Len(v) + i] = e[i]
        <5>1. e \in Seq(Byte)
          BY <4>1
        <5> QED
          BY <2>2, <5>1, ConcatIs
      <4>3. 1 \in 1 .. Len(e)
        BY <4>1
      <4> QED
        BY <4>1, <4>2, <4>3
    <3>5. PICK x : x = Then(a, y)
      OBVIOUS
    <3>6. x \in Seq(Byte) /\ Len(x) = Len(a) + Len(y) /\ \A i \in 1 .. Len(a) : x[i] = a[i]
      BY <2>2, <3>5, ThenFront
    <3>7. Len(v) \in Nat /\ Len(y) \in Nat
      BY <2>2
    <3>8. Leads(v, x, c)
      <4>1. Len(x) >= Len(v) /\ Len(v) + 1 \in 1 .. Len(a) /\ \A i \in 1 .. Len(v) : i \in 1 .. Len(a)
        BY <3>4, <3>6, <3>7
      <4> QED
        BY <3>4, <3>6, <4>1 DEF Leads
    <3>9. FirstField(x, c).text = <<v>> /\ FirstField(x, c).taken = Len(v) + 1
      BY <2>2, <2>3, <2>7, <3>6, <3>8, FieldAtFront
    <3>10. ASSUME NEW i \in 1 .. n, Drop(s, i - 1) = Then(a, y) PROVE u[i].text = <<v>> /\ u[i].taken = Len(a)
      <4>1. From(s, i) = x
        BY <1>2, <1>3, <3>5, <3>10, FromIs
      <4> QED
        BY <1>6, <3>4, <3>9, <4>1
    <3>11. a # <<>>
      <4>1. Len(a) # 0
        BY <3>4, <3>7
      <4> QED
        BY <4>1
    <3> QED
      BY <1>3, <2>1, <3>1, <3>10, <3>11 DEF PartRead
  <2> QED
    BY <2>5, <2>6, <2>7
<1>12. ReadAs(Byte, Seq(Byte), u, s, m, p, q)
  <2>1. Advances(u, Len(s))
    BY <1>3, <1>7
  <2>2. \A j \in 1 .. m : \A y \in Seq(Byte) : (j = m => y = <<>>) => PartRead(u, s, p[j], q[j], y, j = m)
    BY <1>11
  <2> QED
    BY <1>1, <1>10, <2>1, <2>2 DEF ReadAs
<1>13. Joined(u) = FlattenSeq(q)
  BY <1>12, JoinedIs
<1> QED
  BY <1>4, <1>8, <1>13 DEF Split

(* A written field, and its two parts.                                     *)
LEMMA NameValue ==
  ASSUME NEW f \in NamesAndValues
  PROVE  f[1] \in Codes /\ f[1] # <<>> /\ f[2] \in Codes /\ f = <<f[1], f[2]>>
BY DEF NamesAndValues, Codes

LEMMA InkedBytes ==
  ASSUME NEW w \in Seq(Inked)
  PROVE  /\ w \in Seq(Byte)
         /\ \A i \in 1 .. Len(w) : w[i] \notin Blanks /\ w[i] # Equals /\ w[i] # Ampersand
<1>1. PICK I : I = Inked
  OBVIOUS
<1>2. I \subseteq Byte /\ \A x \in I : x \notin Blanks /\ x # Equals /\ x # Ampersand
  BY <1>1, InkedIs
<1>3. w \in Seq(I)
  BY <1>1
<1>4. \A i \in 1 .. Len(w) : w[i] \in I
  BY <1>3
<1>5. w \in Seq(Byte)
  BY <1>2, <1>3
<1> QED
  BY <1>2, <1>4, <1>5

LEMMA WrittenIs ==
  ASSUME NEW f \in NamesAndValues
  PROVE  /\ Written(f) \in Seq(Byte) /\ Written(f) # <<>>
         /\ \A i \in 1 .. Len(Written(f)) : Written(f)[i] \notin Blanks /\ Written(f)[i] # Ampersand
         /\ Split(Written(f), Equals) =
              IF f[2] = <<>> THEN <<EscapeAll(f[1])>> ELSE <<EscapeAll(f[1]), EscapeAll(f[2])>>
<1>1. PICK a, b : a = EscapeAll(f[1]) /\ b = EscapeAll(f[2])
  OBVIOUS
<1>2. f[1] \in Codes /\ f[1] # <<>> /\ f[2] \in Codes
  BY NameValue
<1>3. a \in Seq(Inked) /\ b \in Seq(Inked) /\ a # <<>>
  BY <1>1, <1>2, EscapesAre
<1>4. a \in Seq(Byte) /\ b \in Seq(Byte)
  BY <1>3, InkedBytes
<1>5. \A i \in 1 .. Len(a) : a[i] \notin Blanks /\ a[i] # Equals /\ a[i] # Ampersand
  BY <1>3, InkedBytes
<1>6. \A i \in 1 .. Len(b) : b[i] \notin Blanks /\ b[i] # Equals /\ b[i] # Ampersand
  BY <1>3, InkedBytes
<1>7. Equals \in Byte /\ Equals \notin Blanks /\ Equals # Ampersand
  BY DEF Equals, Byte, Blanks, Space, Ampersand
<1>8. PICK e, d, t : e = <<Equals>> /\ d = a \o e /\ t = Written(f)
  OBVIOUS
<1>9. e \in Seq(Byte) /\ Len(e) = 1 /\ e[1] = Equals
  BY <1>7, <1>8
<1>10. /\ d \in Seq(Byte) /\ Len(d) = Len(a) + 1 /\ \A i \in 1 .. Len(a) : d[i] = a[i]
       /\ d[Len(a) + 1] = Equals
  <2>1. d \in Seq(Byte) /\ Len(d) = Len(a) + Len(e) /\ (\A i \in 1 .. Len(a) : d[i] = a[i])
        /\ \A i \in 1 .. Len(e) : d[Len(a) + i] = e[i]
    BY <1>4, <1>8, <1>9, ConcatIs
  <2>2. 1 \in 1 .. Len(e)
    BY <1>9
  <2> QED
    BY <1>9, <2>1, <2>2
<1>11. t = d \o b
  BY <1>1, <1>8 DEF Written
<1>12. /\ t \in Seq(Byte) /\ Len(t) = Len(d) + Len(b) /\ (\A i \in 1 .. Len(d) : t[i] = d[i])
       /\ \A i \in 1 .. Len(b) : t[Len(d) + i] = b[i]
  <2>1. d \in Seq(Byte)
    BY <1>10
  <2>2. /\ d \o b \in Seq(Byte) /\ Len(d \o b) = Len(d) + Len(b)
        /\ \A i \in 1 .. Len(d) : (d \o b)[i] = d[i]
        /\ \A i \in 1 .. Len(b) : (d \o b)[Len(d) + i] = b[i]
    BY <1>4, <2>1, ConcatIs
  <2> QED
    BY <1>11, <2>2
<1>13. Len(a) \in Nat /\ Len(b) \in Nat
  BY <1>4
<1>14. t # <<>>
  <2>1. Len(t) # 0
    BY <1>10, <1>12, <1>13
  <2> QED
    BY <2>1
<1>15. ASSUME NEW i \in 1 .. Len(t) PROVE t[i] \notin Blanks /\ t[i] # Ampersand
  <2>1. CASE i \in 1 .. Len(a)
    <3>1. i \in 1 .. Len(d)
      BY <1>10, <1>13, <2>1
    <3> QED
      BY <1>5, <1>10, <1>12, <2>1, <3>1
  <2>2. CASE i = Len(a) + 1
    <3>1. i \in 1 .. Len(d)
      BY <1>10, <1>13, <2>2
    <3> QED
      BY <1>7, <1>10, <1>12, <2>2, <3>1
  <2>3. CASE i > Len(a) + 1
    <3>1. i - Len(d) \in 1 .. Len(b) /\ Len(d) + (i - Len(d)) = i
      BY <1>10, <1>12, <1>13, <1>15, <2>3
    <3> QED
      BY <1>6, <1>12, <3>1
  <2> QED
    BY <1>13, <1>15, <2>1, <2>2, <2>3
<1>16. Split(t, Equals) = IF b = <<>> THEN <<a>> ELSE <<a, b>>
  <2>1. PICK w, p : w = <<a, b>> /\ p = <<d, b>>
    OBVIOUS
  <2>2. w \in [1 .. 2 -> Seq(Byte)] /\ p \in [1 .. 2 -> Seq(Byte)]
    BY <1>4, <1>10, <2>1
  <2>3. w[1] = a /\ w[2] = b /\ p[1] = d /\ p[2] = b
    BY <2>1
  <2>4. t = FlattenSeq(p)
    BY <1>4, <1>10, <1>11, <2>1, FlattenTwo
  <2>5. d = Then(a, <<Equals>>)
    BY <1>8 DEF Then
  <2>6. ASSUME NEW j \in 1 .. 2
        PROVE  /\ p[j] = IF j = 2 THEN w[j] ELSE Then(w[j], <<Equals>>)
               /\ j # 2 => w[j] # <<>>
               /\ \A i \in 1 .. Len(w[j]) : w[j][i] \notin Blanks /\ w[j][i] # Equals
    <3>1. j = 1 \/ j = 2
      BY <2>6
    <3>2. CASE j = 1
      BY <1>3, <1>5, <2>3, <2>5, <3>2
    <3>3. CASE j = 2
      BY <1>6, <2>3, <3>3
    <3> QED
      BY <3>1, <3>2, <3>3
  <2>7. Parted(t, Equals, 2, w, p)
    BY <2>2, <2>4, <2>6 DEF Parted
  <2>8. PICK q : q = FieldsAre(w, 2)
    OBVIOUS
  <2>9. Split(t, Equals) = FlattenSeq(q)
    BY <1>7, <2>7, <2>8, SplitIs
  <2>10. PICK g, h : g = <<a>> /\ h = (IF b = <<>> THEN <<>> ELSE <<b>>)
    OBVIOUS
  <2>11. q = <<g, h>>
    <3>1. q = [j \in 1 .. 2 |-> IF w[j] = <<>> THEN <<>> ELSE <<w[j]>>]
      BY <2>8 DEF FieldsAre
    <3>2. q[1] = g /\ q[2] = h
      BY <1>3, <2>3, <2>10, <3>1
    <3> QED
      BY <3>1, <3>2
  <2>12. PICK T : T = Seq(Byte)
    OBVIOUS
  <2>13. a \in T /\ b \in T
    BY <1>4, <2>12
  <2>14. g \in Seq(T) /\ h \in Seq(T)
    BY <2>10, <2>13
  <2>15. FlattenSeq(q) = g \o h
    BY <2>11, <2>14, FlattenTwo
  <2>16. g \o h = IF b = <<>> THEN <<a>> ELSE <<a, b>>
    <3>1. CASE b = <<>>
      <4>1. g = <<a>> /\ h = <<>>
        BY <2>10, <3>1
      <4>2. <<a>> \o <<>> = <<a>>
        OBVIOUS
      <4> QED
        BY <3>1, <4>1, <4>2
    <3>2. CASE b # <<>>
      <4>1. g = <<a>> /\ h = <<b>>
        BY <2>10, <3>2
      <4>2. g \in Seq(T) /\ h \in Seq(T) /\ Len(g) = 1 /\ Len(h) = 1 /\ g[1] = a /\ h[1] = b
        BY <2>14, <4>1
      <4>3. g \o h \in Seq(T) /\ Len(g \o h) = 2 /\ (g \o h)[1] = a /\ (g \o h)[2] = b
        <5>1. /\ g \o h \in Seq(T) /\ Len(g \o h) = Len(g) + Len(h)
              /\ \A i \in 1 .. Len(g) : (g \o h)[i] = g[i]
              /\ \A i \in 1 .. Len(h) : (g \o h)[Len(g) + i] = h[i]
          BY <2>14, ConcatIs
        <5>2. 1 \in 1 .. Len(g) /\ 1 \in 1 .. Len(h) /\ Len(g) + 1 = 2
          BY <4>2
        <5> QED
          BY <4>2, <5>1, <5>2
      <4>4. PICK v : v = g \o h
        OBVIOUS
      <4>5. v = <<a, b>>
        <5>1. PICK z : z = <<a, b>>
          OBVIOUS
        <5>2. z \in Seq(T) /\ Len(z) = 2 /\ z[1] = a /\ z[2] = b
          BY <2>13, <5>1
        <5>3. v \in Seq(T) /\ Len(v) = Len(z)
          BY <4>3, <4>4, <5>2
        <5>4. ASSUME NEW i \in 1 .. Len(v) PROVE v[i] = z[i]
          <6>1. i = 1 \/ i = 2
            BY <5>2, <5>3, <5>4
          <6> QED
            BY <4>3, <4>4, <5>2, <6>1
        <5>5. v = z
          BY <5>2, <5>3, <5>4, SeqEqual
        <5> QED
          BY <5>1, <5>5
      <4> QED
        BY <3>2, <4>4, <4>5
    <3> QED
      BY <3>1, <3>2
  <2> QED
    BY <2>9, <2>15, <2>16
<1>17. b = <<>> <=> f[2] = <<>>
  BY <1>1, <1>2, EscapesAre
<1> QED
  BY <1>1, <1>8, <1>12, <1>14, <1>15, <1>16, <1>17

LEMMA SameField ==
  ASSUME NEW f \in NamesAndValues, NEW g \in NamesAndValues, Written(f) = Written(g)
  PROVE  f = g
<1>1. f[1] \in Codes /\ f[2] \in Codes /\ g[1] \in Codes /\ g[2] \in Codes
      /\ f = <<f[1], f[2]>> /\ g = <<g[1], g[2]>>
  BY NameValue
<1>2. PICK a, b, c, d : a = EscapeAll(f[1]) /\ b = EscapeAll(f[2]) /\ c = EscapeAll(g[1]) /\ d = EscapeAll(g[2])
  OBVIOUS
<1>3. (IF f[2] = <<>> THEN <<a>> ELSE <<a, b>>) = (IF g[2] = <<>> THEN <<c>> ELSE <<c, d>>)
  BY <1>2, WrittenIs
<1>4. a = c /\ (f[2] = <<>> <=> g[2] = <<>>) /\ (f[2] # <<>> => b = d)
  BY <1>3
<1>5. f[1] = g[1]
  BY <1>1, <1>2, <1>4, EscapedOnce
<1>6. f[2] = g[2]
  BY <1>1, <1>2, <1>4, EscapedOnce
<1> QED
  BY <1>1, <1>5, <1>6

LEMMA FlattenNone ==
  ASSUME NEW S, NEW e \in [1 .. 0 -> Seq(S)]
  PROVE  FlattenSeq(e) = <<>>
<1>1. <<>> \in Seq(S)
  OBVIOUS
<1>2. FlattenSeq(e) \in Seq(S) /\ \E r : RestsOf(S, e, 0, <<>>, r)
  BY <1>1, FlattenRests
<1>3. PICK r : RestsOf(S, e, 0, <<>>, r)
  BY <1>2
<1>4. r[0] = Then(FlattenSeq(e), <<>>) /\ r[0] = <<>>
  BY <1>3 DEF RestsOf
<1> QED
  BY <1>2, <1>4 DEF Then

(* What a field is sent as, and what the library makes of it.              *)
ParamOf(f) == <<FlattenSeq(Bytes(f[1])), FlattenSeq(Bytes(f[2]))>>

ParamRead(p) == <<DecodeUrl(p[1], TRUE), IF Len(p) = 1 THEN <<>> ELSE DecodeUrl(Last(p), TRUE)>>

ProperPair(f) == <<Proper(f[1]), Proper(f[2])>>

CharactersPair(x) == <<Characters(x[1]), Characters(x[2])>>

LEMMA ParamBack ==
  ASSUME NEW f \in NamesAndValues
  PROVE  /\ Split(Written(f), Equals) # <<>> /\ ParamRead(Split(Written(f), Equals)) = ParamOf(f)
         /\ ParamOf(f) \in Seq(Byte) \X Seq(Byte) /\ ProperPair(f) \in Codes \X Codes
         /\ CharactersPair(ParamOf(f)) = ProperPair(f)
<1>1. PICK n, v \in Codes : n = f[1] /\ v = f[2]
  BY NameValue
<1>2. PICK a, b, p : a = EscapeAll(n) /\ b = EscapeAll(v) /\ p = Split(Written(f), Equals)
  OBVIOUS
<1>3. p = IF v = <<>> THEN <<a>> ELSE <<a, b>>
  BY <1>1, <1>2, WrittenIs
<1>4. DecodeUrl(a, TRUE) = FlattenSeq(Bytes(n)) /\ DecodeUrl(b, TRUE) = FlattenSeq(Bytes(v))
  BY <1>2, DecodedIs
<1>5. v = <<>> => FlattenSeq(Bytes(v)) = <<>>
  <2>1. ASSUME v = <<>> PROVE Bytes(v) \in [1 .. 0 -> Seq(Byte)]
    BY <2>1 DEF Bytes
  <2> QED
    BY <2>1, FlattenNone
<1>6. p # <<>> /\ ParamRead(p) = ParamOf(f)
  <2>1. CASE v = <<>>
    <3>1. p = <<a>> /\ Len(p) = 1 /\ p[1] = a /\ p # <<>>
      BY <1>3, <2>1
    <3> QED
      BY <1>1, <1>4, <1>5, <2>1, <3>1 DEF ParamRead, ParamOf
  <2>2. CASE v # <<>>
    <3>1. p = <<a, b>>
      BY <1>3, <2>2
    <3>2. Len(p) = 2 /\ p[1] = a /\ p[2] = b /\ p # <<>>
      BY <3>1
    <3>3. Last(p) = b
      BY <3>2 DEF Last
    <3> QED
      <4>1. ParamOf(f) = <<FlattenSeq(Bytes(n)), FlattenSeq(Bytes(v))>>
        BY <1>1 DEF ParamOf
      <4>2. Len(p) # 1
        BY <3>2
      <4>3. ParamRead(p) = <<DecodeUrl(a, TRUE), DecodeUrl(b, TRUE)>>
        BY <3>2, <3>3, <4>2 DEF ParamRead
      <4> QED
        BY <1>4, <3>2, <4>1, <4>3
  <2> QED
    BY <2>1, <2>2
<1>7. FlattenSeq(Bytes(n)) \in Seq(Byte) /\ Proper(n) \in Codes /\ Characters(FlattenSeq(Bytes(n))) = Proper(n)
  BY CharactersAre
<1>8. FlattenSeq(Bytes(v)) \in Seq(Byte) /\ Proper(v) \in Codes /\ Characters(FlattenSeq(Bytes(v))) = Proper(v)
  BY CharactersAre
<1>9. PICK x, y : x = FlattenSeq(Bytes(n)) /\ y = FlattenSeq(Bytes(v))
  OBVIOUS
<1>10. ParamOf(f) = <<x, y>> /\ ProperPair(f) = <<Proper(n), Proper(v)>>
  BY <1>1, <1>9 DEF ParamOf, ProperPair
<1>11. CharactersPair(<<x, y>>) = <<Characters(x), Characters(y)>>
  BY DEF CharactersPair
<1> QED
  BY <1>2, <1>6, <1>7, <1>8, <1>9, <1>10, <1>11

LEMMA QueryParts ==
  ASSUME NEW fields \in Seq(NamesAndValues)
  PROVE  /\ QueryText(fields) \in Seq(Byte)
         /\ Split(QueryText(fields), Ampersand) = [i \in 1 .. Len(fields) |-> Written(fields[i])]
<1>1. PICK m \in Nat : m = Len(fields)
  OBVIOUS
<1>2. PICK N : N = NamesAndValues
  OBVIOUS
<1>3. DOMAIN fields = 1 .. m /\ \A i \in 1 .. m : fields[i] \in N
  <2>1. fields \in Seq(N)
    BY <1>2
  <2> QED
    BY <1>1, <2>1
<1>4. PICK w : w = [i \in 1 .. m |-> Written(fields[i])]
  OBVIOUS
<1>5. \A i \in 1 .. m : w[i] \in Seq(Byte) /\ w[i] # <<>>
                         /\ \A k \in 1 .. Len(w[i]) : w[i][k] \notin Blanks /\ w[i][k] # Ampersand
  BY <1>2, <1>3, <1>4, WrittenIs
<1>6. w \in [1 .. m -> Seq(Byte)]
  BY <1>4, <1>5
<1> DEFINE p == [i \in DOMAIN fields |-> Written(fields[i]) \o (IF i = Len(fields) THEN <<>> ELSE <<Ampersand>>)]
<1>7. QueryText(fields) = FlattenSeq(p)
  BY DEF QueryText
<1>8. p = [i \in 1 .. m |-> p[i]]
  BY <1>3
<1>9. ASSUME NEW i \in 1 .. m PROVE p[i] = IF i = m THEN w[i] ELSE Then(w[i], <<Ampersand>>)
  <2>1. PICK v \in Seq(Byte) : v = w[i]
    BY <1>5
  <2>2. p[i] = v \o (IF i = m THEN <<>> ELSE <<Ampersand>>)
    BY <1>1, <1>3, <1>4, <2>1
  <2>3. v \o <<>> = v
    OBVIOUS
  <2> QED
    BY <2>1, <2>2, <2>3 DEF Then
<1> HIDE DEF p
<1>10. Ampersand \in Byte
  BY DEF Ampersand, Byte
<1>11. p \in [1 .. m -> Seq(Byte)]
  <2>1. ASSUME NEW i \in 1 .. m PROVE p[i] \in Seq(Byte)
    <3>1. PICK v \in Seq(Byte) : v = w[i]
      BY <1>5
    <3>2. <<Ampersand>> \in Seq(Byte)
      BY <1>10
    <3>3. Then(v, <<Ampersand>>) \in Seq(Byte)
      BY <3>2, ThenFront
    <3> QED
      BY <1>9, <3>1, <3>3
  <2> QED
    BY <1>8, <2>1
<1>12. PICK s : s = QueryText(fields)
  OBVIOUS
<1>13. Parted(s, Ampersand, m, w, p)
  BY <1>5, <1>6, <1>7, <1>9, <1>11, <1>12 DEF Parted
<1>14. Split(s, Ampersand) = FlattenSeq(FieldsAre(w, m))
  BY <1>10, <1>13, SplitIs
<1>15. FieldsAre(w, m) = [i \in 1 .. m |-> <<w[i]>>]
  BY <1>5 DEF FieldsAre
<1>16. w \in Seq(Seq(Byte)) /\ Len(w) = m
  BY <1>6
<1>17. FlattenSeq([i \in 1 .. Len(w) |-> <<w[i]>>]) = w
  BY <1>16, FlattenOnes
<1>18. Split(s, Ampersand) = w
  BY <1>14, <1>15, <1>16, <1>17
<1>19. s \in Seq(Byte)
  <2>1. <<>> \in Seq(Byte)
    OBVIOUS
  <2> QED
    BY <1>7, <1>11, <1>12, <2>1, FlattenRests
<1> QED
  BY <1>1, <1>4, <1>12, <1>18, <1>19

Back(p) == [i \in DOMAIN p |-> CharactersPair(p[i])]

(* The parameters that a query is read as, next to its fields.             *)
LEMMA FieldsBack ==
  ASSUME NEW f \in QueryForms
  PROVE  Back(ParseQueryText(QueryText(f.fields))) = FieldsOf(f)
<1>1. PICK l : l = f.fields
  OBVIOUS
<1>2. l \in Seq(NamesAndValues)
  BY <1>1 DEF QueryForms, FieldForms
<1>3. PICK m \in Nat : m = Len(l)
  BY <1>2
<1>4. DOMAIN l = 1 .. m /\ \A i \in 1 .. m : l[i] \in NamesAndValues
  <2>1. PICK N : N = NamesAndValues
    OBVIOUS
  <2>2. l \in Seq(N)
    BY <1>2, <2>1
  <2>3. DOMAIN l = 1 .. m /\ \A i \in 1 .. m : l[i] \in N
    BY <1>3, <2>2
  <2> QED
    BY <2>1, <2>3
<1>5. PICK s, w : s = QueryText(l) /\ w = Split(s, Ampersand)
  OBVIOUS
<1>6. w = [i \in 1 .. m |-> Written(l[i])]
  BY <1>2, <1>3, <1>5, QueryParts
<1>7. DOMAIN w = 1 .. m /\ \A i \in 1 .. m : w[i] = Written(l[i])
  BY <1>6
<1> DEFINE cached(i) == \E k \in 1 .. i - 1 : w[k] = w[i]
           twice(i) == \E k \in 1 .. i - 1 : l[k] = l[i]
           P == [i \in DOMAIN w |-> LET p == Split(w[i], Equals)
                                    IN IF cached(i) \/ p = <<>> THEN <<>> ELSE <<ParamRead(p)>>]
           Q == [i \in DOMAIN l |-> IF twice(i) THEN <<>> ELSE <<ProperPair(l[i])>>]
<1>8. ASSUME NEW i \in 1 .. m PROVE cached(i) <=> twice(i)
  <2>1. \A k \in 1 .. i - 1 : k \in 1 .. m
    BY <1>8
  <2>2. ASSUME NEW k \in 1 .. i - 1 PROVE w[k] = w[i] <=> l[k] = l[i]
    <3>1. k \in 1 .. m
      BY <2>1
    <3>2. w[k] = Written(l[k]) /\ w[i] = Written(l[i])
      BY <1>7, <3>1
    <3>3. PICK x, y \in NamesAndValues : x = l[k] /\ y = l[i]
      BY <1>4, <3>1
    <3>4. Written(x) = Written(y) => x = y
      BY SameField
    <3> QED
      BY <3>2, <3>3, <3>4
  <2> QED
    BY <2>2
<1>9. ParseQueryText(s) = FlattenSeq(P)
  BY <1>5 DEF ParseQueryText, ParamRead
<1>10. FieldsOf(f) = FlattenSeq(Q)
  BY <1>1 DEF FieldsOf, ProperPair
<1>11. ASSUME NEW i \in 1 .. m
       PROVE  /\ P[i] = IF twice(i) THEN <<>> ELSE <<ParamOf(l[i])>>
              /\ Q[i] = IF twice(i) THEN <<>> ELSE <<ProperPair(l[i])>>
  <2>1. PICK p : p = Split(w[i], Equals)
    OBVIOUS
  <2>2. P[i] = IF cached(i) \/ p = <<>> THEN <<>> ELSE <<ParamRead(p)>>
    BY <1>7, <2>1
  <2>3. PICK x \in NamesAndValues : x = l[i]
    BY <1>4
  <2>4. w[i] = Written(x)
    BY <1>7, <2>3
  <2>5. p # <<>> /\ ParamRead(p) = ParamOf(x)
    BY <2>1, <2>4, ParamBack
  <2>6. P[i] = IF twice(i) THEN <<>> ELSE <<ParamOf(x)>>
    BY <1>8, <2>2, <2>5
  <2>7. Q[i] = IF twice(i) THEN <<>> ELSE <<ProperPair(l[i])>>
    BY <1>4
  <2> QED
    BY <2>3, <2>6, <2>7
<1>12. P = [i \in 1 .. m |-> P[i]] /\ Q = [i \in 1 .. m |-> Q[i]]
  BY <1>4, <1>7
<1>13. PICK A, B : A = Seq(Byte) \X Seq(Byte) /\ B = Codes \X Codes
  OBVIOUS
<1>14. PICK R : R = {<<x, CharactersPair(x)>> : x \in A}
  OBVIOUS
<1> HIDE DEF P, Q
<1>15. ASSUME NEW i \in 1 .. m PROVE P[i] \in Seq(A) /\ Q[i] \in Seq(B) /\ Alike(R, P[i], Q[i])
  <2>1. l[i] \in NamesAndValues
    BY <1>4
  <2>2. PICK x, y : x = ParamOf(l[i]) /\ y = ProperPair(l[i])
    OBVIOUS
  <2>3. x \in A /\ y \in B /\ CharactersPair(x) = y
    BY <1>13, <2>1, <2>2, ParamBack
  <2>4. <<x, y>> \in R
    BY <1>14, <2>3
  <2>5. CASE twice(i)
    <3>1. P[i] = <<>> /\ Q[i] = <<>>
      BY <1>11, <2>5
    <3>2. \A k \in 1 .. Len(<<>>) : FALSE
      OBVIOUS
    <3> QED
      BY <3>1, <3>2 DEF Alike
  <2>6. CASE ~twice(i)
    <3>1. P[i] = <<x>> /\ Q[i] = <<y>>
      BY <1>11, <2>2, <2>6
    <3>2. <<x>> \in Seq(A) /\ <<y>> \in Seq(B)
      BY <2>3
    <3>3. Alike(R, <<x>>, <<y>>)
      BY <2>4 DEF Alike
    <3> QED
      BY <3>1, <3>2, <3>3
  <2> QED
    BY <2>5, <2>6
<1>16. P \in [1 .. m -> Seq(A)] /\ Q \in [1 .. m -> Seq(B)]
  BY <1>12, <1>15
<1>17. PICK p, q : p = FlattenSeq(P) /\ q = FlattenSeq(Q)
  OBVIOUS
<1>18. p \in Seq(A) /\ q \in Seq(B)
  <2>1. <<>> \in Seq(A) /\ <<>> \in Seq(B)
    OBVIOUS
  <2> QED
    BY <1>16, <1>17, <2>1, FlattenRests
<1>19. Alike(R, p, q)
  BY <1>15, <1>16, <1>17, FlattenAlike
<1>20. Back(p) = q
  <2>1. PICK n \in Nat : n = Len(p)
    BY <1>18
  <2>2. Len(q) = n /\ \A k \in 1 .. n : <<p[k], q[k]>> \in R
    BY <1>19, <2>1 DEF Alike
  <2>3. ASSUME NEW k \in 1 .. n PROVE CharactersPair(p[k]) = q[k]
    <3>1. PICK a, b : a = p[k] /\ b = q[k]
      OBVIOUS
    <3>2. <<a, b>> \in R
      BY <2>2, <3>1
    <3>3. CharactersPair(a) = b
      BY <1>14, <3>2
    <3> QED
      BY <3>1, <3>3
  <2>4. DOMAIN p = 1 .. n /\ DOMAIN q = 1 .. n /\ q = [k \in 1 .. n |-> q[k]]
    BY <1>18, <2>1, <2>2
  <2>5. Back(p) = [k \in 1 .. n |-> q[k]]
    BY <2>3, <2>4 DEF Back
  <2> QED
    BY <2>4, <2>5
<1> QED
  BY <1>1, <1>5, <1>9, <1>10, <1>17, <1>20

-----------------------------------------------------------------------------
(***************************************************************************)
(* The content of a form.                                                  *)

LEMMA ContentTyped == ASSUME NEW f \in Forms PROVE \E S : ContentText(f) \in Seq(S)
<1>1. CASE f \in MultipartForms
  <2>1. f.kind = "multipart"
    BY <1>1, FormIs
  <2>2. MultipartText(f) \in Text
    <3>1. Follows(f, After(f))
      BY <1>1, AfterIs
    <3>2. Len(f.files) \in Nat \ {0} /\ f.preamble \in Text /\ \A i \in 1 .. Len(f.files) : f.files[i] \in Files
      BY <1>1, FormIs
    <3>3. 1 \in 1 .. Len(f.files)
      BY <3>2
    <3>4. After(f)[1] \in Text /\ f.files[1] \in Files
      BY <3>1, <3>2, <3>3 DEF Follows
    <3>5. HeadName(f.files[1], After(f)[1]) \in Text
      BY <3>4, HeadTypes
    <3>6. MultipartText(f) = Then(f.preamble, Then(DashBoundaryCrlf, HeadName(f.files[1], After(f)[1])))
      BY <3>1 DEF Follows
    <3>7. PICK z \in Text, p \in Text : z = HeadName(f.files[1], After(f)[1]) /\ p = f.preamble
      BY <3>2, <3>5
    <3>8. Then(p, Then(DashBoundaryCrlf, z)) \in Text
      BY Marked, ThenIs
    <3> QED
      BY <3>6, <3>7, <3>8
  <2>3. ContentText(f) \in Seq(Chars)
    BY <2>1, <2>2 DEF ContentText, Text
  <2> QED
    BY <2>3
<1>2. CASE f \in QueryForms
  <2>1. f \in FieldForms
    BY <1>2 DEF QueryForms
  <2>2. f.kind = "urlencoded" /\ f.fields \in Seq(NamesAndValues)
    BY <2>1 DEF FieldForms
  <2>3. QueryText(f.fields) \in Seq(Byte)
    BY <2>2, QueryParts
  <2>4. ContentText(f) \in Seq(Byte)
    BY <2>2, <2>3 DEF ContentText
  <2> QED
    BY <2>4
<1> QED
  BY <1>1, <1>2, FormsAssumption

LEMMA RestIsSuffix ==
  ASSUME NEW S, NEW s \in Seq(S), NEW k \in 0 .. Len(s)
  PROVE  IsSuffix(SubSeq(s, k + 1, Len(s)), s)
<1>1. PICK n \in Nat : n = Len(s)
  BY LenProperties
<1>2. PICK t : t = SubSeq(s, k + 1, n)
  OBVIOUS
<1>3. k \in 0 .. n /\ k \in Nat /\ n - k \in Nat
  BY <1>1
<1>4. /\ t \in Seq(S) /\ Len(t) = n - k
      /\ \A i \in 1 .. n - k : t[i] = s[k + i]
  <2>1. \A i \in k + 1 .. n : s[i] \in S
    BY <1>1, <1>3, ElementOfSeq
  <2> QED
    BY <1>2, <1>3, <2>1, SubSeqProperties
<1>5. PICK r, q : r = Reverse(t) /\ q = Reverse(s)
  OBVIOUS
<1>6. /\ r = [i \in 1 .. n - k |-> t[(n - k) - i + 1]]
      /\ q = [i \in 1 .. n |-> s[n - i + 1]]
  BY <1>1, <1>4, <1>5 DEF Reverse
<1>7. \A i \in 1 .. n : s[n - i + 1] \in S
  BY <1>1, ElementOfSeq
<1>8. \A i \in 1 .. n - k : t[(n - k) - i + 1] = s[n - i + 1] /\ i \in 1 .. n
  BY <1>3, <1>4
<1>9. q \in [1 .. n -> S] /\ r \in [1 .. n - k -> S]
  BY <1>6, <1>7, <1>8
<1>10. q \in Seq(S) /\ r \in Seq(S) /\ Len(q) = n /\ Len(r) = n - k
  <2>1. q \in Seq(S) /\ r \in Seq(S)
    BY <1>3, <1>9, SeqDef
  <2>2. DOMAIN q = 1 .. n /\ DOMAIN r = 1 .. n - k
    BY <1>9
  <2> QED
    BY <1>3, <2>1, <2>2, LenProperties
<1>11. SubSeq(r, 1, n - k) = r
  BY <1>10, SubSeqFull
<1>12. SubSeq(q, 1, n - k) = r
  <2>1. \A i \in 1 .. n - k : q[i] = r[i] /\ q[i] \in S
    BY <1>3, <1>6, <1>7, <1>8
  <2>2. PICK u : u = SubSeq(q, 1, n - k)
    OBVIOUS
  <2>3. /\ u \in Seq(S) /\ Len(u) = n - k
        /\ \A i \in 1 .. n - k : u[i] = q[i]
    BY <1>3, <2>1, <2>2, SubSeqProperties
  <2>4. u = r
    BY <1>10, <2>1, <2>3, SeqEqual
  <2> QED
    BY <2>2, <2>4
<1> QED
  BY <1>1, <1>2, <1>3, <1>5, <1>10, <1>11, <1>12 DEF IsSuffix, IsPrefix

-----------------------------------------------------------------------------
(***************************************************************************)
(* The invariant.                                                          *)

(* No call of parse() yet, or none at all. *)
Idle == buf = <<>> /\ state = "initial" /\ valid = FALSE /\ file = NoFile /\ files = <<>> /\ parsing = "more"

Untouched == Idle /\ unread = ContentText(form)

PlainRead == Idle /\ reading = "true" /\ ~(IsMultipart /\ HasBoundary)

(* A form with files is followed through its text, as long as no read cuts *)
(* it where it must not.                                                   *)
FilesRead ==
  /\ reading = "true" /\ IsMultipart /\ HasBoundary
  /\ form \in MultipartForms /\ ParserTyped
  /\ ~cut => Track /\ ~CutsAt(Len(unread))

RestUnread == \E i \in 0 .. Len(ContentText(form)) : unread = Drop(ContentText(form), i)

FormInv ==
  /\ form \in Forms /\ status \in {-1, 200, 400, 413} /\ cut \in BOOLEAN
  /\ ReaderInv /\ RestUnread
  /\ Untouched \/ PlainRead \/ FilesRead

LEMMA FormStarts == Init => FormInv
<1> SUFFICES ASSUME Init PROVE FormInv
  OBVIOUS
<1>1. /\ form \in Forms /\ ReaderInit(HeadText(form)) /\ ParserInit
      /\ unread = ContentText(form) /\ status = -1 /\ cut = FALSE
  BY DEF Init
<1>2. ReaderInv
  BY <1>1, ReaderStarts
<1>3. Untouched
  BY <1>1 DEF Untouched, Idle, ParserInit
<1>4. RestUnread
  <2>1. PICK S : ContentText(form) \in Seq(S)
    BY <1>1, ContentTyped
  <2>2. PICK c : c = ContentText(form)
    OBVIOUS
  <2>3. c \in Seq(S) /\ 0 \in 0 .. Len(c)
    BY <2>1, <2>2
  <2>4. unread = Drop(c, 0)
    BY <1>1, <2>2, <2>3, DropNone
  <2> QED
    BY <2>2, <2>3, <2>4 DEF RestUnread
<1> QED
  BY <1>1, <1>2, <1>3, <1>4 DEF FormInv

LEMMA ReaderKept ==
  ASSUME form' = form, ReaderInv, UNCHANGED reader
  PROVE  ReaderInv'
<1>1. UNCHANGED <<stream, fixed, glowable, headers, reading>>
  BY DEF reader
<1>2. Line' = Line
  BY <1>1 DEF Line
<1>3. ReaderTyped' /\ OneLine' /\ HeadersSent'
  BY <1>1, <1>2 DEF ReaderInv, ReaderTyped, OneLine, HeadersSent
<1>4. WhereItReads => WhereItReads'
  BY <1>1, <1>2 DEF WhereItReads, Behind
<1> QED
  BY <1>1, <1>3, <1>4 DEF ReaderInv

(* What is unread remains a rest of the content.                           *)
LEMMA RestRead ==
  ASSUME form \in Forms, form' = form, RestUnread, NEW n \in DOMAIN unread,
         unread' = SubSeq(unread, n + 1, Len(unread))
  PROVE  RestUnread'
<1>1. PICK c : c = ContentText(form)
  OBVIOUS
<1>2. PICK S : c \in Seq(S)
  BY <1>1, ContentTyped
<1>3. PICK i \in 0 .. Len(c) : unread = Drop(c, i)
  BY <1>1 DEF RestUnread
<1>4. unread \in Seq(S)
  BY <1>2, <1>3, DropIs
<1>5. n \in 1 .. Len(unread)
  BY <1>4
<1>6. unread' = Drop(unread, n)
  BY DEF Drop
<1>7. i + n \in 0 .. Len(c) /\ unread' = Drop(c, i + n)
  <2>1. PICK r : r = Drop(c, i)
    OBVIOUS
  <2>2. n \in 1 .. Len(r)
    BY <1>3, <1>5, <2>1
  <2>3. i + n \in 0 .. Len(c) /\ Drop(r, n) = Drop(c, i + n)
    BY <1>2, <2>1, <2>2, DropDrop
  <2> QED
    BY <1>3, <1>6, <2>1, <2>3
<1>8. c = ContentText(form')
  BY <1>1
<1> QED
  BY <1>7, <1>8 DEF RestUnread

(* Before the first read, the whole form is ahead.                         *)
LEMMA FormAhead ==
  ASSUME form \in MultipartForms, Untouched
  PROVE  ParserTyped /\ Track
<1>1. /\ buf = <<>> /\ state = "initial" /\ valid = FALSE /\ file = NoFile /\ files = <<>>
      /\ parsing = "more" /\ unread = ContentText(form)
  BY DEF Untouched, Idle
<1>2. PICK z : z = HeadName(form.files[1], After(form)[1])
  OBVIOUS
<1>3. z \in Text /\ unread = Then(form.preamble, Then(DashBoundaryCrlf, z))
  BY <1>1, <1>2, CutIs
<1>4. form.preamble \in Text /\ ~Occurs(DashBoundaryCrlf, form.preamble)
  BY FormIs
<1>5. Then(DashBoundaryCrlf, z) \in Text
  BY <1>3, Marked, ThenIs
<1>6. unread \in Text
  BY <1>3, <1>4, <1>5, ThenIs
<1>7. ParserTyped
  <2>1. NoFile \in Head2
    BY DEF NoFile, Head2
  <2>2. <<>> \in Seq(WrittenTo) /\ Len(<<>>) <= FileMax
    <3>1. <<>> \in Seq(WrittenTo) /\ Len(<<>>) = 0
      OBVIOUS
    <3>2. FileMax \in Nat
      BY MultipartAssumption
    <3> QED
      BY <3>1, <3>2
  <2>3. <<>> \in Text
    BY NoneIs
  <2> QED
    BY <1>1, <1>6, <2>1, <2>2, <2>3 DEF ParserTyped
<1>8. Ahead = Then(form.preamble, Then(DashBoundaryCrlf, Entry(0)))
  <2>1. Entry(0) = z
    BY <1>2 DEF Entry
  <2>2. Ahead = unread
    BY <1>1, <1>6, NoneIs DEF Ahead
  <2> QED
    BY <1>3, <2>1, <2>2
<1>9. InPreamble
  BY <1>1, <1>4, <1>8 DEF InPreamble
<1> QED
  BY <1>7, <1>9 DEF Track

(* A read of a form with files.                                            *)
LEMMA FileRead ==
  ASSUME FormInv, NEW n \in DOMAIN unread, Read(n), IsMultipart
  PROVE  FilesRead'
<1>1. /\ reading = "true" /\ HasBoundary /\ parsing = "more"
      /\ unread' = SubSeq(unread, n + 1, Len(unread)) /\ Parse(SubSeq(unread, 1, n))
      /\ cut' = (cut \/ CutsAt(Len(unread) - n))
      /\ form' = form /\ UNCHANGED reader
  BY DEF Read, Reading
<1>2. /\ form \in Forms /\ cut \in BOOLEAN /\ ReaderInv
      /\ Untouched \/ PlainRead \/ FilesRead
  BY DEF FormInv
<1>3. form \in MultipartForms
  BY <1>1, <1>2, FieldsNotParsed
<1>4. ParserTyped /\ (~cut => Track)
  BY <1>1, <1>2, <1>3, FormAhead DEF PlainRead, FilesRead
<1>5. ParserTyped' /\ Ahead' = Ahead /\ UNCHANGED <<state, valid, file, files>>
  BY <1>1, <1>4, ReadTyped
<1>6. PICK l \in Nat : l = Len(unread)
  BY <1>4 DEF ParserTyped, Text
<1>7. n \in 1 .. l /\ unread \in Seq(Chars)
  BY <1>4, <1>6 DEF ParserTyped, Text
<1>8. Len(unread') = l - n
  <2>1. unread' = Drop(unread, n)
    BY <1>1 DEF Drop
  <2>2. n \in 0 .. Len(unread)
    BY <1>6, <1>7
  <2> QED
    BY <1>6, <1>7, <2>1, <2>2, DropIs
<1>9. ~cut' => Track'
  <2>1. unread # <<>>
    BY <1>6, <1>7
  <2>2. ~cut' => ~cut
    BY <1>1
  <2>3. ASSUME ~cut PROVE Track'
    <3>1. Track
      BY <1>4, <2>3
    <3>2. UNCHANGED <<form, state, file, files>>
      BY <1>1, <1>5
    <3> QED
      BY <1>5, <2>1, <3>1, <3>2, AheadKept
  <2> QED
    BY <2>2, <2>3
<1>10. ~cut' => ~CutsAt(Len(unread))'
  <2>1. CutsAt(Len(unread))' <=> CutsAt(l - n)
    BY <1>1, <1>8 DEF CutsAt
  <2>2. cut' = (cut \/ CutsAt(l - n))
    BY <1>1, <1>6
  <2> QED
    BY <2>1, <2>2
<1>11. reading' = "true" /\ IsMultipart' /\ HasBoundary'
  BY <1>1 DEF reader, IsMultipart, HasBoundary, HeaderValue
<1> QED
  BY <1>1, <1>3, <1>5, <1>9, <1>10, <1>11 DEF FilesRead

LEMMA ReadKeeps ==
  ASSUME FormInv, NEW n \in DOMAIN unread, Read(n)
  PROVE  FormInv'
<1>1. /\ reading = "true" /\ unread' = SubSeq(unread, n + 1, Len(unread))
      /\ cut' = (cut \/ CutsAt(Len(unread) - n))
      /\ form' = form /\ status' = status /\ UNCHANGED reader
  BY DEF Read, Reading
<1>2. /\ form \in Forms /\ status \in {-1, 200, 400, 413} /\ cut \in BOOLEAN /\ ReaderInv /\ RestUnread
      /\ Untouched \/ PlainRead \/ FilesRead
  BY DEF FormInv
<1>3. ReaderInv'
  BY <1>1, <1>2, ReaderKept
<1>4. RestUnread'
  BY <1>1, <1>2, RestRead
<1>5. cut' \in BOOLEAN
  BY <1>1, <1>2 DEF CutsAt
<1>6. CASE IsMultipart
  <2>1. FilesRead'
    BY <1>6, FileRead
  <2> QED
    BY <1>1, <1>2, <1>3, <1>4, <1>5, <2>1 DEF FormInv
<1>7. CASE ~IsMultipart
  <2>1. UNCHANGED parser
    BY <1>7 DEF Read
  <2>2. Idle
    BY <1>2, <1>7 DEF Untouched, PlainRead, FilesRead
  <2>3. Idle'
    BY <2>1, <2>2 DEF Idle, parser
  <2>4. reading' = "true" /\ ~IsMultipart'
    BY <1>1, <1>7 DEF reader, IsMultipart, HeaderValue
  <2>5. PlainRead'
    BY <2>3, <2>4 DEF PlainRead
  <2> QED
    BY <1>1, <1>2, <1>3, <1>4, <1>5, <2>5 DEF FormInv
<1> QED
  BY <1>6, <1>7

(* An answer changes nothing of what was read.                             *)
LEMMA AnswerKeeps ==
  ASSUME FormInv, status' \in {-1, 200, 400, 413}, UNCHANGED <<parser, reader, form, unread, cut>>
  PROVE  FormInv'
<1>1. /\ form \in Forms /\ cut \in BOOLEAN /\ ReaderInv /\ RestUnread
      /\ Untouched \/ PlainRead \/ FilesRead
  BY DEF FormInv
<1>2. ReaderInv'
  BY <1>1, ReaderKept
<1>3. RestUnread'
  BY <1>1 DEF RestUnread
<1>4. Idle => Idle'
  BY DEF Idle, parser
<1>5. reading' = reading /\ (IsMultipart' <=> IsMultipart) /\ (HasBoundary' <=> HasBoundary)
  BY DEF reader, IsMultipart, HasBoundary, HeaderValue
<1>6. Untouched => Untouched'
  BY <1>4 DEF Untouched
<1>7. PlainRead => PlainRead'
  BY <1>4, <1>5 DEF PlainRead
<1>8. FilesRead => FilesRead'
  <2>1. ParserTyped => ParserTyped'
    BY DEF ParserTyped, parser
  <2>2. Track => Track'
    <3>1. UNCHANGED <<form, unread, buf, state, file, files>>
      BY DEF parser
    <3> QED
      BY <3>1, NothingMoved
  <2>3. CutsAt(Len(unread))' <=> CutsAt(Len(unread))
    BY DEF CutsAt
  <2> QED
    BY <1>5, <2>1, <2>2, <2>3 DEF FilesRead
<1> QED
  BY <1>1, <1>2, <1>3, <1>6, <1>7, <1>8 DEF FormInv

(* The headers are read before the content.                                *)
LEMMA HeadKeeps ==
  ASSUME FormInv, ReaderStep, UNCHANGED <<parser, request, unread, cut>>
  PROVE  FormInv'
<1>1. /\ form \in Forms /\ status \in {-1, 200, 400, 413} /\ cut \in BOOLEAN /\ ReaderInv /\ RestUnread
      /\ Untouched \/ PlainRead \/ FilesRead
  BY DEF FormInv
<1>2. form' = form /\ status' = status /\ unread' = unread /\ cut' = cut
  BY DEF request
<1>3. ReaderInv'
  BY <1>1, <1>2, ByteRead, ByteMissing, LineTaken DEF ReaderStep
<1>4. reading = "line"
  BY DEF ReaderStep, ReadByte, NoByte, HeaderRead
<1>5. Untouched
  BY <1>1, <1>4 DEF PlainRead, FilesRead
<1>6. Untouched'
  BY <1>2, <1>5 DEF Untouched, Idle, parser
<1>7. RestUnread'
  BY <1>1, <1>2 DEF RestUnread
<1> QED
  BY <1>1, <1>2, <1>3, <1>6, <1>7 DEF FormInv

LEMMA ParserKeeps ==
  ASSUME FormInv, ParserStep, UNCHANGED <<reader, request, unread, cut>>
  PROVE  FormInv'
<1>1. /\ form \in Forms /\ status \in {-1, 200, 400, 413} /\ cut \in BOOLEAN /\ ReaderInv /\ RestUnread
      /\ Untouched \/ PlainRead \/ FilesRead
  BY DEF FormInv
<1>2. form' = form /\ status' = status /\ unread' = unread /\ cut' = cut
  BY DEF request
<1>3. ReaderInv' /\ RestUnread'
  <2>1. ReaderInv'
    BY <1>1, <1>2, ReaderKept
  <2>2. RestUnread'
    BY <1>1, <1>2 DEF RestUnread
  <2> QED
    BY <2>1, <2>2
<1>4. parsing # "more"
  BY DEF ParserStep, InitialBoundary, NewEntry, Headers, HeaderLine, HeaderLineMissing, HeadersEnd,
         Body, Boundary
<1>5. FilesRead
  BY <1>1, <1>4 DEF Untouched, PlainRead, Idle
<1>6. /\ reading = "true" /\ IsMultipart /\ HasBoundary /\ form \in MultipartForms /\ ParserTyped
      /\ ~cut => Track /\ ~CutsAt(Len(unread))
  BY <1>5 DEF FilesRead
<1>7. ParserTyped'
  BY <1>2, <1>6, ParserStepTyped
<1>8. ~cut => Track'
  BY <1>2, <1>6, TrackKept
<1>9. CutsAt(Len(unread))' <=> CutsAt(Len(unread))
  BY <1>2 DEF CutsAt
<1>10. reading' = "true" /\ IsMultipart' /\ HasBoundary'
  BY <1>6 DEF reader, IsMultipart, HasBoundary, HeaderValue
<1>11. FilesRead'
  BY <1>2, <1>6, <1>7, <1>8, <1>9, <1>10 DEF FilesRead
<1> QED
  BY <1>1, <1>2, <1>3, <1>11 DEF FormInv

LEMMA FormKept == FormInv /\ [Next]_vars => FormInv'
<1> SUFFICES ASSUME FormInv, [Next]_vars PROVE FormInv'
  OBVIOUS
<1>1. status \in {-1, 200, 400, 413}
  BY DEF FormInv
<1>2. ASSUME NEW n \in DOMAIN unread, Read(n) PROVE FormInv'
  BY <1>2, ReadKeeps
<1>3. CASE HeadFails
  <2>1. status' \in {-1, 200, 400, 413} /\ UNCHANGED <<parser, reader, form, unread, cut>>
    BY <1>3 DEF HeadFails
  <2> QED
    BY <2>1, AnswerKeeps
<1>4. CASE ReadFails
  <2>1. status' \in {-1, 200, 400, 413} /\ UNCHANGED <<parser, reader, form, unread, cut>>
    BY <1>4 DEF ReadFails
  <2> QED
    BY <2>1, AnswerKeeps
<1>5. CASE ReadEnds
  <2>1. /\ UNCHANGED <<parser, reader, form, unread, cut>>
        /\ CASE IsMultipart -> status' = (IF valid THEN 200 ELSE 400) /\ UNCHANGED params
             [] IsUrlEncoded /\ Len(body) > PayloadMax -> status' = 413 /\ UNCHANGED params
             [] IsUrlEncoded /\ Len(body) <= PayloadMax ->
                  status' = 200 /\ params' = ParseQueryText(body)
             [] OTHER -> status' = 200 /\ UNCHANGED params
    BY <1>5 DEF ReadEnds
  <2>2. status' \in {-1, 200, 400, 413}
    BY <2>1
  <2> QED
    BY <2>1, <2>2, AnswerKeeps
<1>6. CASE ReaderStep /\ UNCHANGED <<parser, request, unread, cut>>
  BY <1>6, HeadKeeps
<1>7. CASE ParserStep /\ UNCHANGED <<reader, request, unread, cut>>
  BY <1>7, ParserKeeps
<1>8. CASE UNCHANGED vars
  <2>1. status' \in {-1, 200, 400, 413} /\ UNCHANGED <<parser, reader, form, unread, cut>>
    BY <1>1, <1>8 DEF vars, request
  <2> QED
    BY <2>1, AnswerKeeps
<1> QED
  BY <1>2, <1>3, <1>4, <1>5, <1>6, <1>7, <1>8 DEF Next

LEMMA ReaderFits == ReaderTyped => ReaderTypeOK
<1> SUFFICES ASSUME ReaderTyped PROVE ReaderTypeOK
  OBVIOUS
<1>1. PICK m \in Nat, g \in Nat : m = Len(fixed) /\ g = Len(glowable)
  BY DEF ReaderTyped
<1>2. m <= FixedSize - 1 /\ (glowable # <<>> => g >= FixedSize) /\ reading \in {"line", "true", "false"}
  BY <1>1 DEF ReaderTyped
<1>3. g # 0 => glowable # <<>>
  BY <1>1
<1>4. FixedSize \in Nat \ {0}
  BY HeadersAssumption
<1>5. m \in 0 .. FixedSize - 1 /\ (g # 0 => g >= FixedSize)
  BY <1>2, <1>3, <1>4
<1> QED
  BY <1>1, <1>2, <1>5 DEF ReaderTypeOK

LEMMA FormConsistent == FormInv => Consistent
<1> SUFFICES ASSUME FormInv PROVE Consistent
  OBVIOUS
<1>1. /\ form \in Forms /\ status \in {-1, 200, 400, 413} /\ cut \in BOOLEAN /\ ReaderInv /\ RestUnread
      /\ Untouched \/ PlainRead \/ FilesRead
  BY DEF FormInv
<1>2. Idle \/ FilesRead
  BY <1>1 DEF Untouched, PlainRead
<1>3. ParserTypeOK
  <2>0. FileMax \in Nat
    BY MultipartAssumption
  <2>1. CASE Idle
    <3>1. state = "initial" /\ valid = FALSE /\ file = NoFile /\ files = <<>> /\ parsing = "more"
      BY <2>1 DEF Idle
    <3>2. file.name = "" /\ file.type = ""
      BY <3>1 DEF NoFile
    <3>3. Len(files) = 0
      BY <3>1
    <3>4. Len(files) \in 0 .. FileMax
      BY <2>0, <3>3
    <3> QED
      BY <3>1, <3>2, <3>4 DEF ParserTypeOK
  <2>2. CASE FilesRead
    <3>1. ParserTyped
      BY <2>2 DEF FilesRead
    <3>2. file.name \in Names \cup {""} /\ file.type \in Types \cup {""}
      BY <3>1 DEF ParserTyped, Head2
    <3>3. Len(files) \in 0 .. FileMax
      <4>1. Len(files) \in Nat /\ Len(files) <= FileMax
        BY <3>1 DEF ParserTyped
      <4> QED
        BY <2>0, <4>1
    <3> QED
      BY <3>1, <3>2, <3>3 DEF ParserTyped, ParserTypeOK
  <2> QED
    BY <1>2, <2>1, <2>2
<1>4. ReaderTypeOK
  BY <1>1, ReaderFits DEF ReaderInv
<1>5. IsSuffix(unread, ContentText(form))
  <2>1. PICK c : c = ContentText(form)
    OBVIOUS
  <2>2. PICK S : c \in Seq(S)
    BY <1>1, <2>1, ContentTyped
  <2>3. PICK i \in 0 .. Len(c) : unread = Drop(c, i)
    BY <1>1, <2>1 DEF RestUnread
  <2>4. IsSuffix(Drop(c, i), c)
    BY <2>2, RestIsSuffix DEF Drop
  <2> QED
    BY <2>1, <2>3, <2>4
<1>6. HeadersIntact
  <2>1. DOMAIN form.lines = 1 .. Len(form.lines)
    <3>1. form.lines \in Seq(HeaderLines)
      BY <1>1, FormLines
    <3> QED
      BY <3>1
  <2>2. AllHeaders(form) = FlattenSeq([i \in DOMAIN form.lines |-> HeaderOf(form.lines[i])])
    BY <2>1 DEF AllHeaders, HeaderParts
  <2>3. reading = "true" => headers = AllHeaders(form)
    BY <1>1 DEF ReaderInv
  <2> QED
    BY <2>2, <2>3 DEF HeadersIntact
<1>7. FilesIntact
  <2>0. ASSUME NEW i, SentSoFar(i, Len(files))
        PROVE  LET sent == SentFile(form.files[i]) IN
                 /\ files[i].name = sent.name /\ files[i].type = sent.type
                 /\ IsPrefix(files[i].content, sent.content)
                 /\ i < Len(files) => files[i].content = sent.content
    BY <2>0 DEF SentFile, SentSoFar
  <2>1. SUFFICES ASSUME files # <<>>, ~cut
                 PROVE  /\ Len(files) <= Len(form.files)
                        /\ \A i \in DOMAIN files : SentSoFar(i, Len(files))
    BY <2>0, Zenon DEF FilesIntact
  <2>2. FilesRead
    BY <1>2, <2>1 DEF Idle
  <2>3. form \in MultipartForms /\ ParserTyped /\ Track
    BY <2>1, <2>2 DEF FilesRead
  <2>4. DOMAIN files = 1 .. Len(files)
    <3>1. files \in Seq(WrittenTo)
      BY <2>3 DEF ParserTyped
    <3> QED
      BY <3>1
  <2> QED
    BY <2>1, <2>3, <2>4, TrackedFiles
<1> QED
  BY <1>1, <1>3, <1>4, <1>5, <1>6, <1>7 DEF Consistent, TypeOK

LEMMA FormInvariant == Spec => []FormInv
<1>1. Init => FormInv
  BY FormStarts
<1>2. FormInv /\ [Next]_vars => FormInv'
  BY FormKept
<1> QED
  BY <1>1, <1>2, PTL DEF Spec

(* However a request is cut into reads, its header lines are read as they  *)
(* were sent, and the files of its form are those the client sent, each    *)
(* the beginning of its content and all but the last whole, unless a read  *)
(* ended inside the first boundary or between the last one and the end.    *)
THEOREM ConsistentHolds == Spec => []Consistent
<1>1. Spec => []FormInv
  BY FormInvariant
<1>2. FormInv => Consistent
  BY FormConsistent
<1> QED
  BY <1>1, <1>2, PTL

-----------------------------------------------------------------------------
(***************************************************************************)
(* The end of a form with files.                                           *)

(* The parser asks for more only when it has used up what it can. *)
Waits ==
  parsing = "more" =>
    \/ buf = <<>>
    \/ state = "headers" /\ Find(Crlf) = Len(buf)
    \/ state = "body" /\ Len(buf) <= 5
    \/ state = "boundary" /\ ~IsPrefix(Crlf, buf) /\ ~IsPrefix(DashCrlf, buf)

(* The form is valid once all of it has been taken apart. *)
Sealed ==
  valid <=> /\ state = "boundary" /\ Len(files) = Len(form.files)
            /\ buf = <<>> /\ unread = <<>>

(* An empty text. *)
LEMMA NoneLeft ==
  ASSUME NEW b \in Text, NEW u \in Text
  PROVE  /\ b = <<>> <=> Len(b) = 0
         /\ Len(Then(b, u)) = Len(b) + Len(u) /\ Len(b) \in Nat /\ Len(u) \in Nat
         /\ u = <<>> => Then(b, u) = b
<1>1. b = <<>> <=> Len(b) = 0
  BY EmptySeq DEF Text
<1> QED
  BY <1>1, Lengths, NoneIs

LEMMA EntryBegins ==
  ASSUME form \in MultipartForms, NEW k \in 0 .. Len(form.files) - 1
  PROVE  Len(Entry(k)) > 0
<1>1. PICK f, x : f = form.files[k + 1] /\ x = After(form)[k + 1]
  OBVIOUS
<1>2. f \in Files /\ x \in Text
  BY <1>1, EntryIs
<1>3. HeadType(f, x) \in Text
  BY <1>2, HeadTypes
<1>4. PICK n : n = <<f.name>>
  OBVIOUS
<1>5. n \in Text /\ Len(n) = 1
  BY <1>2, <1>4, FileTexts
<1>6. PICK y : y = Then(Crlf, HeadType(f, x))
  OBVIOUS
<1>7. y \in Text
  BY <1>3, <1>6, Marked, ThenIs
<1>8. Entry(k) = Then(n, y)
  BY <1>1, <1>4, <1>6 DEF Entry, HeadName
<1>9. Len(Then(n, y)) = Len(n) + Len(y) /\ Len(y) \in Nat
  BY <1>5, <1>7, Lengths
<1> QED
  BY <1>5, <1>8, <1>9

(* What follows the boundary behind a file.                                *)
LEMMA MarkFollows ==
  ASSUME form \in MultipartForms, NEW k \in 0 .. Len(form.files) - 1
  PROVE  \E w \in Text : After(form)[k + 1] = Then(CrlfDashBoundary, w) /\ Len(w) >= 2
<1>1. PICK n \in Nat \ {0} : n = Len(form.files)
  BY EntryIs
<1>2. k + 1 \in 1 .. n
  BY <1>1
<1>3. CASE k + 1 < n
  <2>1. k + 1 \in 0 .. n - 1
    BY <1>3
  <2>2. PICK e : e = Entry(k + 1)
    OBVIOUS
  <2>3. e \in Text /\ After(form)[k + 1] = Then(CrlfDashBoundary, Then(Crlf, e))
    BY <1>1, <1>3, <2>1, <2>2, EntryIs
  <2>4. PICK w : w = Then(Crlf, e)
    OBVIOUS
  <2>5. w \in Text /\ Len(w) = 2 + Len(e) /\ Len(e) \in Nat
    BY <2>3, <2>4, Marked, Lengths, ThenIs
  <2>6. Len(w) >= 2
    BY <2>5
  <2> QED
    BY <2>3, <2>4, <2>5, <2>6
<1>4. CASE k + 1 = n
  <2>1. PICK e : e = form.epilogue
    OBVIOUS
  <2>2. e \in Text /\ After(form)[k + 1] = Then(CrlfDashBoundary, Then(DashCrlf, e))
    BY <1>1, <1>4, <2>1, EntryIs
  <2>4. PICK w : w = Then(DashCrlf, e)
    OBVIOUS
  <2>5. w \in Text /\ Len(w) = 4 + Len(e) /\ Len(e) \in Nat
    BY <2>2, <2>4, Marked, Lengths, ThenIs
  <2>6. Len(w) >= 2
    BY <2>5
  <2> QED
    BY <2>2, <2>4, <2>5, <2>6
<1> QED
  BY <1>2, <1>3, <1>4

(* A parser that waits and gets no more has come to the end.               *)
LEMMA EndReached ==
  ASSUME form \in MultipartForms, ParserTyped, Track, Waits, parsing = "more", unread = <<>>
  PROVE  state = "boundary" /\ Len(files) = Len(form.files) /\ buf = <<>>
<1>1. buf \in Text /\ unread \in Text
  BY DEF ParserTyped
<1>2. Ahead = buf /\ Len(buf) \in Nat /\ (buf = <<>> <=> Len(buf) = 0)
  BY <1>1, NoneLeft DEF Ahead
<1>3. PICK n \in Nat \ {0} : n = Len(form.files)
  BY EntryIs
<1>4. ~InPreamble
  <2>1. SUFFICES ASSUME InPreamble PROVE FALSE
    OBVIOUS
  <2>2. state = "initial"
    BY <2>1 DEF InPreamble
  <2>3. PICK q \in Text : Ahead = Then(q, Then(DashBoundaryCrlf, Entry(0)))
    BY <2>1 DEF InPreamble
  <2>4. 0 \in 0 .. n - 1
    BY <1>3
  <2>5. PICK e : e = Entry(0)
    OBVIOUS
  <2>6. e \in Text
    BY <1>3, <2>4, <2>5, EntryIs
  <2>7. PICK w : w = Then(DashBoundaryCrlf, e)
    OBVIOUS
  <2>8. w \in Text /\ Len(w) = 5 + Len(e) /\ Len(e) \in Nat
    BY <2>6, <2>7, Marked, Lengths, ThenIs
  <2>9. Len(Ahead) = Len(q) + Len(w) /\ Len(q) \in Nat
    BY <2>3, <2>5, <2>7, <2>8, Lengths
  <2>10. Len(buf) = 0
    BY <1>2, <2>2 DEF Waits
  <2> QED
    BY <1>2, <2>8, <2>9, <2>10
<1>5. PICK k \in 0 .. n - 1 : Tracked(k)
  BY <1>3, <1>4 DEF Track
<1>6. ~AtEntry(k)
  <2>1. SUFFICES ASSUME AtEntry(k) PROVE FALSE
    OBVIOUS
  <2>2. state = "entry" /\ Ahead = Entry(k)
    BY <2>1 DEF AtEntry
  <2>3. Len(Entry(k)) > 0
    BY <1>3, EntryBegins
  <2>4. Len(buf) = 0
    BY <1>2, <2>2 DEF Waits
  <2> QED
    BY <1>2, <2>2, <2>3, <2>4
<1>7. ~InHead(k)
  <2>1. SUFFICES ASSUME InHead(k) PROVE FALSE
    OBVIOUS
  <2>2. PICK f, x : f = form.files[k + 1] /\ x = After(form)[k + 1]
    OBVIOUS
  <2>3. f \in Files /\ x \in Text
    BY <1>3, <2>2, EntryIs
  <2>4. state = "headers" /\ HeadIs(f, x, Ahead, file)
    BY <2>1, <2>2 DEF InHead
  <2>5. buf = <<>> \/ Find(Crlf) = Len(buf)
    BY <2>4 DEF Waits
  <2>6. ASSUME NEW line, NEW next, line \in Text, next \in Text, \A i \in 1 .. Len(line) : line[i] # "cr",
               Ahead = Then(line, Then(Crlf, next))
        PROVE FALSE
    <3>1. Met(line, Crlf, next) \/ NotYet(line, Crlf)
      BY <1>1, <2>6, FoundLine
    <3>2. PICK y : y = Then(Crlf, next)
      OBVIOUS
    <3>3. y \in Text /\ Len(y) = 2 + Len(next) /\ Len(next) \in Nat
      BY <2>6, <3>2, Marked, Lengths, ThenIs
    <3>4. Len(Ahead) = Len(line) + Len(y) /\ Len(line) \in Nat
      BY <2>6, <3>2, <3>3, Lengths
    <3>5. ~NotYet(line, Crlf)
      BY <1>2, <3>3, <3>4, Marked DEF NotYet
    <3>6. Find(Crlf) = Len(line)
      BY <3>1, <3>5 DEF Met
    <3> QED
      BY <1>2, <2>5, <3>3, <3>4, <3>6
  <2>7. Ahead = HeadEnd(f, x)
    BY <2>3, <2>4, <2>6, NextLine DEF LineAhead
  <2>8. f.content \in Text
    BY <2>3, FileTexts
  <2>9. PICK y \in Text : y = Then(f.content, x)
    BY <2>3, <2>8, ThenIs
  <2>10. Then(Crlf, y) \in Text
    BY Marked, ThenIs
  <2>11. Ahead = Then(<<>>, Then(Crlf, y)) /\ <<>> \in Text
    BY <2>7, <2>9, <2>10, NoneIs DEF HeadEnd
  <2>12. \A i \in 1 .. Len(<<>>) : <<>>[i] # "cr"
    OBVIOUS
  <2> QED
    BY <2>6, <2>11, <2>12
<1>8. ~InBody(k)
  <2>1. SUFFICES ASSUME InBody(k) PROVE FALSE
    OBVIOUS
  <2>2. state = "body" /\ BodyIs(files[k + 1], form.files[k + 1], After(form)[k + 1])
    BY <2>1 DEF InBody
  <2>3. PICK x : x = After(form)[k + 1]
    OBVIOUS
  <2>4. PICK c \in Text : Ahead = Then(c, x)
    BY <2>2, <2>3 DEF BodyIs
  <2>5. PICK w \in Text : x = Then(CrlfDashBoundary, w) /\ Len(w) >= 2
    BY <1>3, <2>3, MarkFollows
  <2>6. x \in Text /\ Len(x) = 5 + Len(w) /\ Len(w) \in Nat
    BY <2>5, Marked, Lengths, ThenIs
  <2>7. Len(Ahead) = Len(c) + Len(x) /\ Len(c) \in Nat
    BY <2>4, <2>6, Lengths
  <2>8. Len(buf) <= 5
    BY <1>2, <2>2 DEF Waits
  <2> QED
    BY <1>2, <2>5, <2>6, <2>7, <2>8
<1>9. AtBoundary(k)
  BY <1>5, <1>6, <1>7, <1>8 DEF Tracked
<1>10. state = "boundary" /\ Len(files) = k + 1 /\ Past(k + 1)
  BY <1>9 DEF AtBoundary
<1>11. buf = <<>> \/ (~IsPrefix(Crlf, buf) /\ ~IsPrefix(DashCrlf, buf))
  BY <1>10 DEF Waits
<1>12. ASSUME NEW t \in Text, NEW u \in Text, Ahead = Then(t, u), Len(t) > 0
       PROVE  buf # <<>> /\ IsPrefix(t, buf)
  <2>1. IsPrefix(t, Then(t, u))
    BY <1>12, PartSent
  <2>2. Len(Ahead) = Len(t) + Len(u) /\ Len(u) \in Nat /\ Len(t) \in Nat
    BY <1>12, Lengths
  <2> QED
    BY <1>2, <1>12, <2>1, <2>2
<1>13. CASE k + 1 < n /\ Ahead = Then(Crlf, Entry(k + 1))
  <2>1. k + 1 \in 0 .. n - 1
    BY <1>13
  <2>2. Entry(k + 1) \in Text
    BY <1>3, <2>1, EntryIs
  <2>3. PICK t, u : t = Crlf /\ u = Entry(k + 1)
    OBVIOUS
  <2>4. t \in Text /\ Len(t) > 0
    BY <2>3, Marked
  <2>5. u \in Text
    BY <2>2, <2>3
  <2>6. Ahead = Then(t, u)
    BY <1>13, <2>3
  <2>7. buf # <<>> /\ IsPrefix(t, buf)
    BY <1>12, <2>4, <2>5, <2>6
  <2> QED
    BY <1>11, <2>3, <2>7
<1>14. CASE k + 1 = n /\ Ahead = Then(DashCrlf, form.epilogue)
  <2>1. form.epilogue \in Text
    BY EntryIs
  <2>3. PICK t, u : t = DashCrlf /\ u = form.epilogue
    OBVIOUS
  <2>4. t \in Text /\ Len(t) > 0
    BY <2>3, Marked
  <2>5. u \in Text
    BY <2>1, <2>3
  <2>6. Ahead = Then(t, u)
    BY <1>14, <2>3
  <2>7. buf # <<>> /\ IsPrefix(t, buf)
    BY <1>12, <2>4, <2>5, <2>6
  <2> QED
    BY <1>11, <2>3, <2>7
<1>15. CASE k + 1 = n /\ buf = <<>>
  BY <1>3, <1>10, <1>15
<1> QED
  BY <1>3, <1>10, <1>13, <1>14, <1>15 DEF Past

(* A form is refused by the parser only for what it is too large for. *)
Failed == parsing = "false" => Oversized(form)

LEMMA NoneErased ==
  ASSUME NEW rest, Continue(rest), parsing' = "more"
  PROVE  buf' = <<>>
BY DEF Continue

LEMMA StepWaits ==
  ASSUME ParserTyped, ParserStep
  PROVE  Waits'
<1>1. CASE InitialBoundary
  <2>1. parsing' = "more" => buf' = <<>>
    BY <1>1, NoneErased DEF InitialBoundary, Return
  <2> QED
    BY <2>1 DEF Waits
<1>2. CASE NewEntry \/ Headers \/ HeaderLine
  <2>1. parsing' # "more"
    BY <1>2 DEF NewEntry, Headers, HeaderLine, Fail
  <2> QED
    BY <2>1 DEF Waits
<1>3. CASE HeaderLineMissing
  <2>1. state' = "headers" /\ buf' = buf /\ Find(Crlf) = Len(buf)
    BY <1>3 DEF HeaderLineMissing, Return, ParserTyped
  <2>2. Find(Crlf)' = Find(Crlf)
    BY <2>1 DEF Find, Erased
  <2> QED
    BY <2>1, <2>2 DEF Waits
<1>4. CASE HeadersEnd
  <2>1. parsing' = "more" => buf' = <<>>
    BY <1>4, NoneErased DEF HeadersEnd, Fail
  <2> QED
    BY <2>1 DEF Waits
<1>5. CASE Body
  <2>1. PICK m \in Nat : m = Len(buf)
    BY DEF ParserTyped, Text
  <2>2. state = "body" /\
        CASE 5 > m -> Return(buf) /\ UNCHANGED <<files, state>>
          [] Find(CrlfDashBoundary) < m ->
               /\ Write(Find(CrlfDashBoundary))
               /\ Continue(Erased(Find(CrlfDashBoundary) + 5))
               /\ state' = "boundary"
          [] OTHER ->
               /\ Write(m - 5) /\ Return(Erased(m - 5)) /\ UNCHANGED state
    BY <1>5, <2>1, Marked DEF Body
  <2>3. CASE 5 > m
    <3>1. Return(buf) \/ (m <= 4 /\ Continue(Erased(Find(CrlfDashBoundary) + 5)))
      BY <2>2, <2>3
    <3>2. ~(Find(CrlfDashBoundary) < m)
      <4>1. PICK g : g = Find(CrlfDashBoundary)
        OBVIOUS
      <4>2. g = m
        <5>1. buf \in Text /\ CrlfDashBoundary \in Text /\ Len(buf) < Len(CrlfDashBoundary)
          BY <2>1, <2>3, Marked DEF ParserTyped
        <5> QED
          BY <2>1, <4>1, <5>1, FindShort
      <4> QED
        BY <4>1, <4>2
    <3>3. Return(buf) /\ state' = "body"
      BY <2>2, <2>3, <3>2
    <3>4. buf' = buf
      BY <3>3 DEF Return
    <3>5. Len(buf') <= 5
      BY <2>1, <2>3, <3>4
    <3> QED
      BY <3>3, <3>5 DEF Waits
  <2>4. CASE ~(5 > m) /\ Find(CrlfDashBoundary) < m
    <3>1. Continue(Erased(Find(CrlfDashBoundary) + 5))
      BY <2>2, <2>4
    <3> QED
      BY <3>1, NoneErased DEF Waits
  <2>5. CASE ~(5 > m) /\ ~(Find(CrlfDashBoundary) < m)
    <3>1. Return(Erased(m - 5)) /\ state' = "body"
      BY <2>2, <2>5
    <3>2. buf' = Drop(buf, m - 5) /\ m - 5 \in 0 .. m
      BY <2>1, <2>5, <3>1 DEF Return, Erased, Drop
    <3>3. PICK b \in Text : b = buf /\ Len(b) = m
      BY <2>1 DEF ParserTyped
    <3>4. Len(Drop(b, m - 5)) = m - (m - 5)
      BY <3>2, <3>3, DropIs DEF Text
    <3>5. Len(buf') <= 5
      <4>1. m - (m - 5) <= 5
        BY <2>1
      <4>2. Len(buf') = m - (m - 5)
        BY <3>2, <3>3, <3>4
      <4> QED
        BY <4>1, <4>2
    <3> QED
      BY <3>1, <3>5 DEF Waits
  <2> QED
    BY <2>3, <2>4, <2>5
<1>6. CASE Boundary
  <2>1. PICK p, q \in BOOLEAN : p = IsPrefix(Crlf, buf) /\ q = IsPrefix(DashCrlf, buf)
    BY DEF IsPrefix
  <2>2. state = "boundary" /\
        CASE p -> Continue(Erased(Len(Crlf))) /\ state' = "entry" /\ UNCHANGED valid
          [] q -> Continue(<<>>) /\ valid' = TRUE /\ UNCHANGED state
          [] OTHER -> Return(buf) /\ UNCHANGED <<state, valid>>
    BY <1>6, <2>1 DEF Boundary
  <2>3. CASE ~p /\ ~q
    <3>1. Return(buf) /\ state' = "boundary"
      BY <2>2, <2>3
    <3>2. buf' = buf
      BY <3>1 DEF Return
    <3> QED
      BY <2>1, <2>3, <3>1, <3>2 DEF Waits
  <2>4. CASE p \/ q
    <3>1. Continue(Erased(Len(Crlf))) \/ Continue(<<>>)
      BY <2>2, <2>4
    <3> QED
      BY <3>1, NoneErased DEF Waits
  <2> QED
    BY <2>3, <2>4
<1> QED
  BY <1>1, <1>2, <1>3, <1>4, <1>5, <1>6 DEF ParserStep


LEMMA LimitIs == HeaderMax \in Nat /\ HeaderMax >= 2
<1>1. HeaderMax \in Nat \ {0, 1}
  BY MultipartAssumption, Zenon
<1>2. HeaderMax \in Nat /\ HeaderMax # 0 /\ HeaderMax # 1
  BY <1>1
<1> QED
  BY <1>2

(* What may be too long a line in front of a file's content.               *)
LEMMA LineTooLong ==
  ASSUME form \in MultipartForms, ParserTyped, NEW k \in 0 .. Len(form.files) - 1, InHead(k),
         Find(Crlf) > HeaderMax
  PROVE  Oversized(form)
<1>1. PICK f, x : f = form.files[k + 1] /\ x = After(form)[k + 1]
  OBVIOUS
<1>2. f \in Files /\ x \in Text /\ k + 1 \in 1 .. Len(form.files)
  BY <1>1, EntryIs
<1>3. HeadIs(f, x, Ahead, file)
  BY <1>1 DEF InHead
<1>4. buf \in Text /\ unread \in Text
  BY DEF ParserTyped
<1>5. HeaderMax \in Nat /\ HeaderMax >= 2
  BY LimitIs
<1>6. ASSUME NEW line \in Text, NEW next \in Text, \A i \in 1 .. Len(line) : line[i] # "cr",
             Ahead = Then(line, Then(Crlf, next))
      PROVE  Len(line) >= HeaderMax
  <2>1. Met(line, Crlf, next) \/ NotYet(line, Crlf)
    BY <1>4, <1>6, FoundLine
  <2>2. PICK l \in Nat, b \in Nat : l = Len(line) /\ b = Len(buf)
    BY <1>4, <1>6, Lengths
  <2>3. PICK g : g = Find(Crlf)
    OBVIOUS
  <2>4. g = l \/ (g = b /\ b < l + 2)
    BY <2>1, <2>2, <2>3, Marked DEF Met, NotYet
  <2>5. g > HeaderMax
    BY <2>3
  <2>6. l >= HeaderMax
    BY <1>5, <2>2, <2>4, <2>5
  <2> QED
    BY <2>2, <2>6
<1>7. ASSUME NEW c \in Chars, c # "cr", NEW next, OneAhead(c, next)
      PROVE  FALSE
  <2>1. LineAhead(<<c>>, next)
    BY <1>7, OneLineAhead
  <2>2. PICK line : line = <<c>>
    OBVIOUS
  <2>3. Len(line) = 1
    BY <2>2
  <2>4. Len(line) >= HeaderMax
    BY <1>6, <2>1, <2>2 DEF LineAhead
  <2> QED
    BY <1>5, <2>3, <2>4
<1>8. f.name \in Chars /\ f.name # "cr" /\ (f.type # "" => f.type \in Chars /\ f.type # "cr")
      /\ \A i \in 1 .. Len(f.extra) : f.extra[i] # "cr"
  BY <1>2, FileIs
<1>9. /\ HeadEnd(f, x) \in Text /\ HeadExtra(f, x) \in Text /\ HeadType(f, x) \in Text
      /\ f.extra \in Text /\ f.content \in Text
  BY <1>2, HeadTypes, FileTexts
<1>10. Ahead # HeadName(f, x)
  BY <1>7, <1>8, <1>9 DEF HeadName, OneAhead
<1>11. Ahead # HeadEnd(f, x)
  <2>1. SUFFICES ASSUME Ahead = HeadEnd(f, x) PROVE FALSE
    OBVIOUS
  <2>2. PICK y \in Text : y = Then(f.content, x)
    BY <1>2, <1>9, ThenIs
  <2>3. Then(Crlf, y) \in Text
    BY <2>2, Marked, ThenIs
  <2>4. PICK none : none = <<>>
    OBVIOUS
  <2>5. none \in Text /\ Len(none) = 0 /\ Ahead = Then(none, Then(Crlf, y))
    BY <2>1, <2>2, <2>3, <2>4, NoneIs DEF HeadEnd
  <2>6. \A i \in 1 .. Len(none) : none[i] # "cr"
    BY <2>5
  <2>7. Len(none) >= HeaderMax
    BY <1>6, <2>2, <2>5, <2>6
  <2> QED
    BY <1>5, <2>5, <2>7
<1>12. Ahead # HeadType(f, x) \/ f.type = ""
  BY <1>7, <1>8, <1>9 DEF HeadType, OneAhead
<1>13. Ahead = HeadExtra(f, x)
  BY <1>3, <1>10, <1>11, <1>12 DEF HeadIs, HeadType
<1>14. f.extra # <<>> /\ Ahead = Then(f.extra, Then(Crlf, HeadEnd(f, x)))
  BY <1>11, <1>13 DEF HeadExtra
<1>15. Len(f.extra) >= HeaderMax
  BY <1>6, <1>8, <1>9, <1>14
<1>16. form.kind = "multipart" /\ k + 1 \in DOMAIN form.files
  <2>1. form.files \in Seq(Files) /\ form.kind = "multipart"
    BY FormIs
  <2> QED
    BY <1>2, <2>1
<1> QED
  BY <1>1, <1>15, <1>16 DEF Oversized

(* The parser refuses nothing but too long a line and too many files.      *)
LEMMA StepFailed ==
  ASSUME form \in MultipartForms, form' = form, ParserTyped, Track, ParserStep
  PROVE  Failed'
<1>1. ASSUME parsing' = "false" PROVE Oversized(form)
  <2>1. Headers \/ HeadersEnd
    BY <1>1 DEF ParserStep, InitialBoundary, NewEntry, HeaderLine, HeaderLineMissing, Body, Boundary,
                Continue, Return
  <2>2. state = "headers"
    BY <2>1 DEF Headers, HeadersEnd, ParserTyped
  <2>3. PICK k \in 0 .. Len(form.files) - 1 : InHead(k)
    BY <2>2 DEF Track, Tracked, InPreamble, AtEntry, InBody, AtBoundary
  <2>4. CASE Headers
    <3>1. Find(Crlf) > HeaderMax
      BY <1>1, <2>4 DEF Headers
    <3> QED
      BY <2>3, <3>1, LineTooLong
  <2>5. CASE HeadersEnd
    <3>1. Len(files) = FileMax
      BY <1>1, <2>5 DEF HeadersEnd, Continue
    <3>2. Len(files) = k
      BY <2>3 DEF InHead
    <3>3. FileMax \in Nat /\ Len(form.files) \in Nat
      BY MultipartAssumption, EntryIs
    <3>4. Len(form.files) > FileMax
      BY <3>1, <3>2, <3>3
    <3>5. form.kind = "multipart"
      BY FormIs
    <3> QED
      BY <3>4, <3>5 DEF Oversized
  <2> QED
    BY <2>1, <2>4, <2>5
<1>2. Oversized(form)' <=> Oversized(form)
  BY DEF Oversized
<1> QED
  BY <1>1, <1>2 DEF Failed

(* What is left of the boundary that was found behind a file is not empty. *)
LEMMA MarkLeft ==
  ASSUME form \in MultipartForms, unread' = unread, ParserTyped,
         NEW k \in 0 .. Len(form.files) - 1, InBody(k), Body, state' = "boundary"
  PROVE  ~(buf' = <<>> /\ unread' = <<>>)
<1>1. PICK x : x = After(form)[k + 1]
  OBVIOUS
<1>2. state = "body" /\ BodyIs(files[k + 1], form.files[k + 1], x)
  BY <1>1 DEF InBody
<1>3. PICK c \in Text : ~Occurs(CrlfDashBoundary, c) /\ Ahead = Then(c, x)
  BY <1>2 DEF BodyIs
<1>4. PICK w \in Text : x = Then(CrlfDashBoundary, w) /\ Len(w) >= 2
  BY <1>1, MarkFollows
<1>5. buf \in Text /\ unread \in Text
  BY DEF ParserTyped
<1>6. PICK t : t = CrlfDashBoundary
  OBVIOUS
<1>7. t \in Text /\ Len(t) = 5
  BY <1>6, Marked
<1>8. Met(c, t, w) \/ NotYet(c, t)
  BY <1>3, <1>4, <1>5, <1>6, <1>7, BoundaryFound
<1>9. Find(t) < Len(buf) /\ Continue(Erased(Find(t) + Len(t)))
  BY <1>2, <1>6 DEF Body
<1>10. Len(buf) \in Nat
  BY <1>5, Lengths
<1>11. ~NotYet(c, t)
  BY <1>9, <1>10 DEF NotYet
<1>12. Then(buf', unread') = w
  BY <1>8, <1>9, <1>11, ContinueIs DEF Met
<1>13. SUFFICES ASSUME buf' = <<>>, unread' = <<>> PROVE FALSE
  OBVIOUS
<1>14. w = <<>>
  BY <1>12, <1>13, NoneIs
<1>15. Len(w) = 0
  BY <1>14
<1> QED
  BY <1>4, <1>15

(* The end mark is whole, and nothing is left behind it.                   *)
LEMMA EndMet ==
  ASSUME form \in MultipartForms, ParserTyped,
         NEW k \in 0 .. Len(form.files) - 1, AtBoundary(k), ~CutsAt(Len(unread)), IsPrefix(DashCrlf, buf)
  PROVE  unread = <<>> /\ Len(files) = Len(form.files)
<1>1. buf \in Text /\ unread \in Text
  BY DEF ParserTyped
<1>2. Len(buf) >= 4 /\ buf[1] = "-"
  BY <1>1, MarkAhead
<1>3. PICK n \in Nat \ {0} : n = Len(form.files)
  BY EntryIs
<1>4. PICK l \in Nat, b \in Nat : l = Len(unread) /\ b = Len(buf) /\ (unread = <<>> <=> Len(unread) = 0)
  BY <1>1, NoneLeft
<1>5. b >= 4
  BY <1>2, <1>4
<1>6. Len(files) = k + 1 /\ Past(k + 1)
  BY DEF AtBoundary
<1>7. ~(k + 1 < n /\ Ahead = Then(Crlf, Entry(k + 1)))
  <2>1. SUFFICES ASSUME k + 1 < n, Ahead = Then(Crlf, Entry(k + 1)) PROVE FALSE
    OBVIOUS
  <2>2. k + 1 \in 0 .. n - 1
    BY <2>1
  <2>3. PICK t, u : t = Crlf /\ u = Entry(k + 1)
    OBVIOUS
  <2>4. t \in Text /\ Len(t) > 0 /\ t[1] = "cr"
    BY <2>3, Marked, Marks
  <2>5. u \in Text
    BY <1>3, <2>2, <2>3, EntryIs
  <2>6. Then(buf, unread) = Then(t, u)
    BY <2>1, <2>3 DEF Ahead
  <2>7. Len(buf) > 0
    BY <1>4, <1>5
  <2>8. buf[1] = t[1]
    BY <1>1, <2>4, <2>5, <2>6, <2>7, FrontOf
  <2> QED
    BY <1>2, <2>4, <2>8
<1>8. buf # <<>>
  <2>1. SUFFICES ASSUME buf = <<>> PROVE FALSE
    OBVIOUS
  <2>2. Len(buf) = 0
    BY <2>1
  <2> QED
    BY <1>4, <1>5, <2>2
<1>9. k + 1 = n /\ Ahead = Then(DashCrlf, form.epilogue)
  BY <1>3, <1>6, <1>7, <1>8 DEF Past
<1>10. PICK e : e = form.epilogue
  OBVIOUS
<1>11. PICK t : t = DashCrlf
  OBVIOUS
<1>12. e \in Text /\ t \in Text /\ Len(t) = 4 /\ Then(buf, unread) = Then(t, e)
  BY <1>9, <1>10, <1>11, EntryIs, Marked DEF Ahead
<1>13. PICK m \in Nat : m = Len(e)
  BY <1>12, Lengths
<1>14. b + l = 4 + m
  <2>1. Len(Then(buf, unread)) = b + l
    BY <1>1, <1>4, Lengths
  <2>2. Len(Then(t, e)) = 4 + m
    BY <1>12, <1>13, Lengths
  <2> QED
    BY <1>12, <2>1, <2>2
<1>15. l \notin 1 .. m
  <2>1. PICK z : z = HeadName(form.files[1], After(form)[1])
    OBVIOUS
  <2>2. CutsAt(l) <=> \/ l \in Len(z) + 1 .. Len(z) + 4
                      \/ l \in 1 .. Len(form.epilogue)
    BY <1>4, <2>1, CutIs
  <2> QED
    BY <1>4, <1>10, <1>13, <2>2
<1>16. l = 0
  BY <1>4, <1>5, <1>13, <1>14, <1>15
<1> QED
  BY <1>3, <1>4, <1>6, <1>9, <1>16

(* The form becomes valid when the end of its text is met, and only then.  *)
LEMMA StepSealed ==
  ASSUME form \in MultipartForms, form' = form, unread' = unread, ParserTyped, Track,
         ~CutsAt(Len(unread)), Sealed, ParserStep
  PROVE  Sealed'
<1>1. valid \in BOOLEAN
  BY DEF ParserTyped
<1>2. state # "boundary" => valid = FALSE
  BY <1>1 DEF Sealed
<1>3. ASSUME valid' = FALSE, state' # "boundary" PROVE Sealed'
  BY <1>3 DEF Sealed
<1>4. CASE InitialBoundary \/ NewEntry
  BY <1>2, <1>3, <1>4 DEF InitialBoundary, NewEntry
<1>5. CASE Headers \/ HeaderLine \/ HeaderLineMissing \/ HeadersEnd
  <2>1. state = "headers"
    BY <1>5 DEF Headers, HeaderLine, HeaderLineMissing, HeadersEnd, ParserTyped
  <2>2. state' \in {"headers", "body"} /\ valid' = FALSE
    BY <1>2, <1>5, <2>1 DEF Headers, HeaderLine, HeaderLineMissing, HeadersEnd
  <2> QED
    BY <1>3, <2>2
<1>6. CASE Body
  <2>1. state = "body" /\ valid' = valid
    BY <1>6 DEF Body
  <2>2. valid' = FALSE
    BY <1>2, <2>1
  <2>3. PICK k \in 0 .. Len(form.files) - 1 : InBody(k)
    BY <2>1 DEF Track, Tracked, InPreamble, AtEntry, InHead, AtBoundary
  <2>4. state' = "boundary" => ~(buf' = <<>> /\ unread' = <<>>)
    BY <1>6, <2>3, MarkLeft
  <2> QED
    BY <2>2, <2>4 DEF Sealed
<1>7. CASE Boundary
  <2>1. state = "boundary" /\ UNCHANGED files
    BY <1>7 DEF Boundary
  <2>2. PICK k \in 0 .. Len(form.files) - 1 : AtBoundary(k)
    BY <2>1 DEF Track, Tracked, InPreamble, AtEntry, InHead, InBody
  <2>3. PICK p, q \in BOOLEAN : p = IsPrefix(Crlf, buf) /\ q = IsPrefix(DashCrlf, buf)
    BY DEF IsPrefix
  <2>4. /\ state = "boundary"
        /\ CASE p -> Continue(Erased(Len(Crlf))) /\ state' = "entry" /\ UNCHANGED valid
             [] q -> Continue(<<>>) /\ valid' = TRUE /\ UNCHANGED state
             [] OTHER -> Return(buf) /\ UNCHANGED <<state, valid>>
    BY <1>7, <2>3 DEF Boundary
  <2>5. buf \in Text
    BY DEF ParserTyped
  <2>6. ~(p /\ q) /\ (p \/ q => buf # <<>>)
    <3>1. p => Len(buf) >= 2
      BY <2>3, <2>5, MarkAhead
    <3>2. q => Len(buf) >= 4
      BY <2>3, <2>5, MarkAhead
    <3>3. p => ~q
      BY <2>3, <2>5, MarkAhead
    <3>4. buf = <<>> => Len(buf) = 0
      OBVIOUS
    <3> QED
      BY <3>1, <3>2, <3>3, <3>4
  <2>7. CASE p
    <3>1. valid = FALSE
      BY <1>1, <2>6, <2>7 DEF Sealed
    <3> QED
      BY <1>3, <2>4, <2>6, <2>7, <3>1
  <2>8. CASE q
    <3>1. Continue(<<>>) /\ valid' = TRUE /\ state' = "boundary"
      BY <2>1, <2>4, <2>6, <2>8
    <3>2. unread = <<>> /\ Len(files) = Len(form.files)
      BY <2>2, <2>3, <2>8, EndMet
    <3>3. buf' = <<>>
      BY <3>1, ContinueIs
    <3> QED
      BY <2>1, <3>1, <3>2, <3>3 DEF Sealed
  <2>9. CASE ~p /\ ~q
    <3>1. Return(buf) /\ UNCHANGED <<state, valid>>
      BY <2>4, <2>9
    <3>2. buf' = buf
      BY <3>1 DEF Return
    <3> QED
      BY <2>1, <3>1, <3>2 DEF Sealed
  <2> QED
    BY <2>7, <2>8, <2>9
<1> QED
  BY <1>4, <1>5, <1>6, <1>7 DEF ParserStep

-----------------------------------------------------------------------------
(***************************************************************************)
(* What the header lines say of the content.                               *)

Typing(l) == l.name = ContentType /\ l.end = <<CR, LF>> /\ l.value # <<>>

(* No header before those of line j + 1 is a Content-Type. *)
Untyped(p) == \A i \in 1 .. Len(p) : p[i][1] # ContentType

NoneBefore(f, j) ==
  \E p \in Seq(Pair) : AllHeaders(f) = Then(p, HeadersLeft(f)[j]) /\ Untyped(p)

LEMMA HeaderUntyped ==
  ASSUME NEW l \in HeaderLines, ~Typing(l)
  PROVE  Untyped(HeaderOf(l))
<1>1. CASE HeaderOf(l) = <<>>
  <2>1. Len(HeaderOf(l)) = 0
    BY <1>1
  <2> QED
    BY <2>1 DEF Untyped
<1>2. CASE HeaderOf(l) # <<>>
  <2>1. l.end = <<CR, LF>> /\ l.value # <<>> /\ HeaderOf(l) = <<<<l.name, l.value>>>>
    BY <1>2 DEF HeaderOf
  <2>2. l.name # ContentType
    BY <2>1 DEF Typing
  <2>3. PICK h, s : h = <<l.name, l.value>> /\ s = <<h>>
    OBVIOUS
  <2>4. Len(s) = 1 /\ s[1] = h /\ h[1] = l.name
    BY <2>3
  <2>5. HeaderOf(l) = s
    BY <2>1, <2>3
  <2>6. ASSUME NEW i \in 1 .. Len(s) PROVE s[i][1] # ContentType
    <3>1. i = 1
      BY <2>4
    <3> QED
      BY <2>2, <2>4, <3>1
  <2> QED
    BY <2>5, <2>6 DEF Untyped
<1> QED
  BY <1>1, <1>2

LEMMA UntypedBoth ==
  ASSUME NEW p \in Seq(Pair), NEW h \in Seq(Pair), Untyped(p), Untyped(h)
  PROVE  Untyped(p \o h)
<1>1. PICK a \in Nat, b \in Nat : a = Len(p) /\ b = Len(h)
  OBVIOUS
<1>2. PICK s : s = p \o h
  OBVIOUS
<1>3. /\ Len(s) = a + b
      /\ \A i \in 1 .. a : s[i] = p[i]
      /\ \A i \in 1 .. b : s[a + i] = h[i]
  BY <1>1, <1>2, ConcatIs
<1>4. ASSUME NEW i \in 1 .. a + b PROVE s[i][1] # ContentType
  <2>1. CASE i <= a
    <3>1. i \in 1 .. a
      BY <1>1, <2>1
    <3> QED
      BY <1>1, <1>3, <3>1 DEF Untyped
  <2>2. CASE i > a
    <3>1. PICK k : k = i - a
      OBVIOUS
    <3>2. k \in 1 .. b /\ a + k = i
      BY <1>1, <2>2, <3>1
    <3>3. s[i] = h[k]
      BY <1>3, <3>2
    <3>4. h[k][1] # ContentType
      BY <1>1, <3>2 DEF Untyped
    <3> QED
      BY <3>3, <3>4
  <2> QED
    BY <1>1, <2>1, <2>2
<1> QED
  BY <1>2, <1>3, <1>4 DEF Untyped

LEMMA PairsThen ==
  ASSUME NEW a \in Seq(Pair), NEW b \in Seq(Pair), NEW c \in Seq(Pair)
  PROVE  a \o b \in Seq(Pair) /\ Then(a, Then(b, c)) = Then(a \o b, c)
BY ConcatAssociative DEF Then

LEMMA NoneBeforeIs ==
  ASSUME NEW f \in Forms, NEW i \in 1 .. Len(f.lines), \A k \in 1 .. i - 1 : ~Typing(f.lines[k])
  PROVE  NoneBefore(f, i - 1)
<1>1. PICK m \in Nat : m = Len(f.lines)
  BY FormLines
<1>2. PICK r : r = HeadersLeft(f)
  OBVIOUS
<1>3. /\ r \in [0 .. m -> Seq(Pair)] /\ r[0] = AllHeaders(f)
      /\ \A j \in 0 .. m - 1 : r[j] = Then(HeaderOf(f.lines[j + 1]), r[j + 1])
  BY <1>1, <1>2, LeftIs
<1>4. PICK S : S = {j \in Nat : j < i => NoneBefore(f, j)}
  OBVIOUS
<1>5. i \in 1 .. m
  BY <1>1
<1>6. 0 \in S
  <2>1. PICK none : none = <<>>
    OBVIOUS
  <2>2. none \in Seq(Pair) /\ Len(none) = 0
    BY <2>1
  <2>3. PICK a \in Seq(Pair) : a = AllHeaders(f)
    <3>1. 0 \in 0 .. m
      OBVIOUS
    <3> QED
      BY <1>3, <3>1
  <2>4. none \o a = a
    BY <2>1, <2>3
  <2>5. AllHeaders(f) = Then(none, r[0])
    BY <1>3, <2>3, <2>4 DEF Then
  <2>6. Untyped(none)
    BY <2>2 DEF Untyped
  <2>7. NoneBefore(f, 0)
    BY <1>2, <2>2, <2>5, <2>6 DEF NoneBefore
  <2> QED
    BY <1>4, <2>7
<1>7. ASSUME NEW j \in Nat, j \in S PROVE j + 1 \in S
  <2>1. SUFFICES ASSUME j + 1 < i PROVE NoneBefore(f, j + 1)
    BY <1>4
  <2>2. j < i /\ j \in 0 .. m - 1 /\ j + 1 \in 0 .. m /\ j + 1 \in 1 .. i - 1 /\ j + 1 \in 1 .. m
    BY <1>5, <2>1
  <2>3. NoneBefore(f, j)
    BY <1>4, <1>7, <2>2
  <2>4. PICK p \in Seq(Pair) : AllHeaders(f) = Then(p, r[j]) /\ Untyped(p)
    BY <1>2, <2>3 DEF NoneBefore
  <2>5. PICK l : l = f.lines[j + 1]
    OBVIOUS
  <2>6. l \in HeaderLines /\ ~Typing(l)
    BY <1>1, <2>2, <2>5, FormLines
  <2>7. PICK h : h = HeaderOf(l)
    OBVIOUS
  <2>8. h \in Seq(Pair) /\ Untyped(h)
    BY <2>6, <2>7, HeaderOfIs, HeaderUntyped
  <2>9. r[j] = Then(h, r[j + 1]) /\ r[j + 1] \in Seq(Pair)
    BY <1>3, <2>2, <2>5, <2>7
  <2>10. p \o h \in Seq(Pair) /\ Then(p, Then(h, r[j + 1])) = Then(p \o h, r[j + 1])
    BY <2>8, <2>9, PairsThen
  <2>11. Untyped(p \o h)
    BY <2>4, <2>8, UntypedBoth
  <2>12. AllHeaders(f) = Then(p \o h, r[j + 1])
    BY <2>4, <2>9, <2>10
  <2> QED
    BY <1>2, <2>10, <2>11, <2>12 DEF NoneBefore
<1>8. Nat \subseteq S
  BY <1>6, <1>7, NatSet
<1>9. i - 1 \in Nat /\ i - 1 < i
  BY <1>5
<1> QED
  BY <1>4, <1>8, <1>9

(* The first header line that says it is the one that counts.              *)
LEMMA ValueRead ==
  ASSUME form \in Forms, headers = AllHeaders(form), NEW i \in 1 .. Len(form.lines),
         Typing(form.lines[i]), \A k \in 1 .. i - 1 : ~Typing(form.lines[k])
  PROVE  HeaderValue(ContentType) = form.lines[i].value
<1>1. PICK m \in Nat : m = Len(form.lines)
  BY FormLines
<1>2. PICK l : l = form.lines[i]
  OBVIOUS
<1>3. PICK p \in Seq(Pair) : headers = Then(p, HeadersLeft(form)[i - 1]) /\ Untyped(p)
  BY NoneBeforeIs DEF NoneBefore
<1>4. i \in 1 .. m /\ i - 1 \in 0 .. m - 1 /\ (i - 1) + 1 = i /\ i \in 0 .. m
  BY <1>1
<1>5. PICK r : r = HeadersLeft(form)[i]
  OBVIOUS
<1>6. r \in Seq(Pair) /\ HeadersLeft(form)[i - 1] = Then(HeaderOf(l), r)
  <2>1. /\ HeadersLeft(form) \in [0 .. m -> Seq(Pair)]
        /\ \A j \in 0 .. m - 1 : HeadersLeft(form)[j] = Then(HeaderOf(form.lines[j + 1]), HeadersLeft(form)[j + 1])
    BY <1>1, LeftIs
  <2> QED
    BY <1>2, <1>4, <1>5, <2>1
<1>7. l \in HeaderLines
  BY <1>1, <1>2, <1>4, FormLines
<1>8. PICK h, s : h = <<l.name, l.value>> /\ s = <<h>>
  OBVIOUS
<1>9. HeaderOf(l) = s /\ l.name = ContentType
  BY <1>2, <1>8 DEF HeaderOf, Typing
<1>10. s \in Seq(Pair) /\ Len(s) = 1 /\ s[1] = h /\ h[1] = ContentType /\ h[2] = l.value
  <2>1. s \in Seq(Pair)
    BY <1>7, <1>9, HeaderOfIs
  <2>2. h[1] = l.name /\ h[2] = l.value /\ Len(s) = 1 /\ s[1] = h
    BY <1>8
  <2> QED
    BY <1>9, <2>1, <2>2
<1>11. PICK t : t = s \o r
  OBVIOUS
<1>12. t \in Seq(Pair) /\ Len(t) = 1 + Len(r) /\ t[1] = h
  <2>1. 1 \in 1 .. Len(s)
    BY <1>10
  <2>2. s \in Seq(Pair) /\ r \in Seq(Pair)
    BY <1>6, <1>10
  <2>3. /\ s \o r \in Seq(Pair) /\ Len(s \o r) = Len(s) + Len(r)
        /\ \A k \in 1 .. Len(s) : (s \o r)[k] = s[k]
    BY <2>2, ConcatIs
  <2>4. t[1] = s[1]
    BY <1>11, <2>1, <2>3
  <2> QED
    BY <1>10, <1>11, <2>3, <2>4
<1>13. headers = p \o t
  BY <1>3, <1>6, <1>9, <1>11 DEF Then
<1>14. PICK a \in Nat, b \in Nat : a = Len(p) /\ b = Len(r)
  BY <1>6
<1>15. /\ headers \in Seq(Pair) /\ Len(headers) = a + (1 + b)
       /\ \A k \in 1 .. a : headers[k] = p[k]
       /\ headers[a + 1] = h
  <2>1. Len(t) = 1 + b
    BY <1>12, <1>14
  <2>2. /\ headers \in Seq(Pair) /\ Len(headers) = Len(p) + Len(t)
        /\ \A k \in 1 .. Len(p) : headers[k] = p[k]
        /\ \A k \in 1 .. Len(t) : headers[Len(p) + k] = t[k]
    <3>1. p \in Seq(Pair) /\ t \in Seq(Pair)
      BY <1>12
    <3>2. /\ p \o t \in Seq(Pair) /\ Len(p \o t) = Len(p) + Len(t)
          /\ \A k \in 1 .. Len(p) : (p \o t)[k] = p[k]
          /\ \A k \in 1 .. Len(t) : (p \o t)[Len(p) + k] = t[k]
      BY <3>1, ConcatIs
    <3> QED
      BY <1>13, <3>2
  <2>3. 1 \in 1 .. Len(t)
    BY <1>14, <2>1
  <2> QED
    BY <1>12, <1>14, <2>1, <2>2, <2>3
<1>16. PICK named : named = {k \in DOMAIN headers : headers[k][1] = ContentType}
  OBVIOUS
<1>17. DOMAIN headers = 1 .. a + (1 + b)
  BY <1>15
<1>18. named \subseteq Int /\ a + 1 \in named
  <2>1. a + 1 \in 1 .. a + (1 + b)
    BY <1>14
  <2> QED
    BY <1>10, <1>15, <1>16, <1>17, <2>1
<1>19. ASSUME NEW k \in named PROVE a + 1 <= k
  <2>1. k \in 1 .. a + (1 + b) /\ headers[k][1] = ContentType
    BY <1>16, <1>17
  <2>2. k \notin 1 .. a
    BY <1>3, <1>14, <1>15, <2>1 DEF Untyped
  <2> QED
    BY <1>14, <2>1, <2>2
<1>20. Min(named) = a + 1
  BY <1>18, <1>19, MinIs
<1>21. HeaderValue(ContentType) = headers[a + 1][2]
  BY <1>16, <1>18, <1>20 DEF HeaderValue
<1> QED
  BY <1>2, <1>10, <1>15, <1>21

(* A form that was announced is read as what it is.                        *)
LEMMA AnnouncedRead ==
  ASSUME form \in Forms, headers = AllHeaders(form), Announced(form)
  PROVE  HeaderValue(ContentType) = IF form.kind = "multipart" THEN <<77, 66>> ELSE <<85>>
<1>1. PICK T : T = {i \in DOMAIN form.lines : /\ form.lines[i].name = ContentType
                                              /\ form.lines[i].end = <<CR, LF>> /\ form.lines[i].value # <<>>}
  OBVIOUS
<1>2. T # {} /\ form.lines[Min(T)].value = (IF form.kind = "multipart" THEN <<77, 66>> ELSE <<85>>)
  BY <1>1 DEF Announced
<1>3. DOMAIN form.lines = 1 .. Len(form.lines) /\ Len(form.lines) \in Nat
  BY FormLines
<1>4. T \subseteq Nat
  BY <1>1, <1>3
<1>5. PICK i \in T : \A k \in T : i <= k
  BY <1>2, <1>4, LeastNumber
<1>6. Min(T) = i
  <2>1. T \subseteq Int
    BY <1>4
  <2> QED
    BY <1>5, <2>1, MinIs
<1>7. i \in 1 .. Len(form.lines) /\ Typing(form.lines[i])
  BY <1>1, <1>3, <1>5 DEF Typing
<1>8. ASSUME NEW k \in 1 .. i - 1, Typing(form.lines[k]) PROVE FALSE
  <2>1. k \in 1 .. Len(form.lines) /\ k < i
    BY <1>3, <1>7
  <2>2. k \in T
    BY <1>1, <1>3, <1>8, <2>1 DEF Typing
  <2>3. i <= k
    BY <1>5, <2>2
  <2> QED
    BY <1>4, <2>1, <2>2, <2>3
<1>9. HeaderValue(ContentType) = form.lines[i].value
  BY <1>7, <1>8, ValueRead
<1> QED
  BY <1>2, <1>6, <1>9

(* The header lines are refused only if they did not come to their end, or *)
(* for a line that is too long.                                            *)
Refused == reading = "false" => stream # <<>> \/ Oversized(form)

LEMMA ByteLeft ==
  ASSUME form \in Forms, ReaderInv, reading = "line", ~LineRead
  PROVE  stream # <<>>
<1>1. SUFFICES ASSUME stream = <<>> PROVE FALSE
  OBVIOUS
<1>2. PICK j \in 0 .. Len(form.lines) : Behind(form, j)
  BY DEF ReaderInv, WhereItReads
<1>3. PICK a : a = Line
  OBVIOUS
<1>4. a \in Seq(Byte) /\ \A i \in 1 .. Len(a) - 1 : a[i] # LF
  BY <1>3, LineTyped DEF ReaderInv, OneLine
<1>5. a = TextLeft(form)[j]
  <2>1. Then(a, <<>>) = TextLeft(form)[j]
    BY <1>1, <1>2, <1>3 DEF Behind
  <2> QED
    BY <1>4, <2>1 DEF Then
<1>6. ASSUME NEW t \in Seq(Byte), NEW r \in Seq(Byte), Len(t) > 0, t[Len(t)] = LF, a = Then(t, r)
      PROVE  FALSE
  <2>1. PICK m \in Nat, n \in Nat : m = Len(a) /\ n = Len(t)
    BY <1>4
  <2>2. m = n + Len(r) /\ Len(r) \in Nat /\ \A i \in 1 .. n : a[i] = t[i]
    BY <1>6, <2>1, ConcatIs DEF Then
  <2>3. n \in 1 .. n /\ n <= m
    BY <1>6, <2>1, <2>2
  <2>4. a[n] = LF
    BY <1>6, <2>1, <2>2, <2>3
  <2>5. n = m
    <3>1. SUFFICES ASSUME n # m PROVE FALSE
      OBVIOUS
    <3>2. n \in 1 .. m - 1
      BY <2>1, <2>3, <3>1
    <3> QED
      BY <1>4, <2>1, <2>4, <3>2
  <2>6. a # <<>>
    BY <1>6, <2>1, <2>5
  <2>7. Last(a) = LF
    BY <2>1, <2>4, <2>5 DEF Last
  <2> QED
    BY <1>3, <2>6, <2>7 DEF LineRead
<1>7. PICK m \in Nat : m = Len(form.lines)
  BY <1>2, FormLines
<1>8. CASE j = m
  <2>1. PICK e : e = <<CR, LF>>
    OBVIOUS
  <2>2. e \in Seq(Byte) /\ Len(e) = 2 /\ e[2] = LF
    BY <2>1, LastLine
  <2>3. a = e
    BY <1>5, <1>7, <1>8, <2>1, LeftIs
  <2>4. PICK none : none = <<>>
    OBVIOUS
  <2>5. none \in Seq(Byte) /\ a = Then(e, none)
    BY <2>2, <2>3, <2>4 DEF Then
  <2>6. Len(e) > 0 /\ e[Len(e)] = LF
    BY <2>2
  <2> QED
    BY <1>6, <2>2, <2>5, <2>6
<1>9. CASE j # m
  <2>1. j \in 0 .. m - 1 /\ j + 1 \in 0 .. m /\ j + 1 \in 1 .. m
    BY <1>7, <1>9
  <2>2. PICK t, r : t = LineText(form.lines[j + 1]) /\ r = TextLeft(form)[j + 1]
    OBVIOUS
  <2>3. /\ TextLeft(form) \in [0 .. m -> Seq(Byte)]
        /\ \A k \in 0 .. m - 1 : TextLeft(form)[k] = Then(LineText(form.lines[k + 1]), TextLeft(form)[k + 1])
    BY <1>7, LeftIs
  <2>4. a = Then(t, r) /\ r \in Seq(Byte)
    BY <1>5, <2>1, <2>2, <2>3
  <2>5. form.lines[j + 1] \in HeaderLines
    BY <1>7, <2>1, FormLines
  <2>6. t \in Seq(Byte) /\ Len(t) > 2 /\ t[Len(t)] = LF
    BY <2>2, <2>5, LineEnd
  <2>7. Len(t) > 0
    BY <2>6
  <2> QED
    BY <1>6, <2>4, <2>6, <2>7
<1> QED
  BY <1>8, <1>9

LEMMA LineRefused ==
  ASSUME form \in Forms, ReaderInv, HeaderRead, reading' = "false"
  PROVE  Oversized(form)
<1>1. /\ reading = "line" /\ LineRead
      /\ CASE ~EndsWithCrlf -> UNCHANGED <<headers, reading>>
           [] EndsWithCrlf /\ Len(Line) = 2 -> reading' = "true" /\ UNCHANGED headers
           [] EndsWithCrlf /\ Len(Line) # 2 /\ Len(Line) > LineMax -> reading' = "false" /\ UNCHANGED headers
           [] OTHER -> /\ headers' = headers \o ParseHeader(SubSeq(Line, 1, Len(Line) - 2))
                       /\ UNCHANGED reading
  BY DEF HeaderRead
<1>2. EndsWithCrlf /\ Len(Line) # 2 /\ Len(Line) > LineMax
  BY <1>1
<1>3. Line # <<CR, LF>>
  BY <1>2
<1>4. PICK j \in 0 .. Len(form.lines) - 1 : Line = LineText(form.lines[j + 1])
  BY <1>1, <1>3, WholeLine
<1>5. form.lines \in Seq(HeaderLines)
  BY FormLines
<1>6. j + 1 \in DOMAIN form.lines
  <2>1. PICK m \in Nat : m = Len(form.lines)
    BY <1>5
  <2>2. j + 1 \in 1 .. m
    BY <2>1
  <2> QED
    BY <1>5, <2>1, <2>2
<1> QED
  BY <1>2, <1>4, <1>6 DEF Oversized

LEMMA RefusedKept ==
  ASSUME form \in Forms, form' = form, ReaderInv, Refused, ReaderStep
  PROVE  Refused'
<1>1. reading = "line"
  BY DEF ReaderStep, ReadByte, NoByte, HeaderRead
<1>2. Oversized(form)' <=> Oversized(form)
  BY DEF Oversized
<1>3. CASE ReadByte
  BY <1>1, <1>3 DEF ReadByte, Refused
<1>4. CASE NoByte
  BY <1>1, <1>4, ByteLeft DEF NoByte, Refused
<1>5. CASE HeaderRead
  BY <1>2, <1>5, LineRefused DEF Refused
<1> QED
  BY <1>3, <1>4, <1>5 DEF ReaderStep

-----------------------------------------------------------------------------
(***************************************************************************)
(* What comes of a form.                                                   *)

(* Of a content that is not parsed, the body has what was read.            *)
BodyRead ==
  ~(reading = "true" /\ IsMultipart) =>
    \E i \in 0 .. Len(ContentText(form)) :
      body = SubSeq(ContentText(form), 1, i) /\ unread = Drop(ContentText(form), i)

TakenApart == form \in MultipartForms /\ ~cut => Sealed /\ Failed

(* An answer is the last that is done. *)
Settled == status # -1 => reading # "line" /\ parsing \in {"more", "false"}

AnswerInv == Waits /\ Refused /\ Settled /\ BodyRead /\ TakenApart /\ FormReadBack

LEMMA FrontGrows ==
  ASSUME NEW S, NEW s \in Seq(S), NEW i \in 0 .. Len(s), NEW r, r = Drop(s, i), NEW n \in 1 .. Len(r)
  PROVE  SubSeq(s, 1, i) \o SubSeq(r, 1, n) = SubSeq(s, 1, i + n)
<1>1. PICK m \in Nat : m = Len(s)
  OBVIOUS
<1>2. r \in Seq(S) /\ Len(r) = m - i /\ \A k \in 1 .. m - i : r[k] = s[i + k]
  BY <1>1, DropIs
<1>3. i \in 0 .. m /\ n \in 1 .. m - i /\ i + n \in 0 .. m
  BY <1>1, <1>2
<1>4. PICK a, b, c : a = SubSeq(s, 1, i) /\ b = SubSeq(r, 1, n) /\ c = SubSeq(s, 1, i + n)
  OBVIOUS
<1>5. \A k \in 1 .. m : s[k] \in S
  BY <1>1, ElementOfSeq
<1>6. a \in Seq(S) /\ Len(a) = i /\ \A k \in 1 .. i : a[k] = s[k]
  <2>1. \A k \in 1 .. i : s[k] \in S
    BY <1>3, <1>5
  <2> QED
    BY <1>3, <1>4, <2>1, SubSeqProperties
<1>7. b \in Seq(S) /\ Len(b) = n /\ \A k \in 1 .. n : b[k] = r[k]
  <2>1. \A k \in 1 .. n : r[k] \in S
    BY <1>2, <1>3, <1>5
  <2> QED
    BY <1>3, <1>4, <2>1, SubSeqProperties
<1>8. c \in Seq(S) /\ Len(c) = i + n /\ \A k \in 1 .. i + n : c[k] = s[k]
  <2>1. \A k \in 1 .. i + n : s[k] \in S
    BY <1>3, <1>5
  <2> QED
    BY <1>3, <1>4, <2>1, SubSeqProperties
<1>9. PICK d : d = a \o b
  OBVIOUS
<1>10. /\ d \in Seq(S) /\ Len(d) = i + n
       /\ \A k \in 1 .. i : d[k] = a[k]
       /\ \A k \in 1 .. n : d[i + k] = b[k]
  <2>1. /\ a \o b \in Seq(S) /\ Len(a \o b) = Len(a) + Len(b)
        /\ \A k \in 1 .. Len(a) : (a \o b)[k] = a[k]
        /\ \A k \in 1 .. Len(b) : (a \o b)[Len(a) + k] = b[k]
    BY <1>6, <1>7, ConcatIs
  <2> QED
    BY <1>6, <1>7, <1>9, <2>1
<1>11. ASSUME NEW k \in 1 .. i + n PROVE d[k] = c[k]
  <2>1. CASE k <= i
    <3>1. k \in 1 .. i
      BY <1>3, <2>1
    <3> QED
      BY <1>6, <1>8, <1>10, <3>1
  <2>2. CASE k > i
    <3>1. PICK j : j = k - i
      OBVIOUS
    <3>2. j \in 1 .. n /\ j \in 1 .. m - i /\ i + j = k
      BY <1>3, <2>2, <3>1
    <3>3. d[k] = b[j] /\ b[j] = r[j]
      BY <1>7, <1>10, <3>2
    <3>4. r[j] = s[k]
      BY <1>2, <3>2
    <3> QED
      BY <1>8, <3>3, <3>4
  <2> QED
    BY <1>3, <2>1, <2>2
<1>12. d = c
  BY <1>8, <1>10, <1>11, SeqEqual
<1> QED
  BY <1>4, <1>9, <1>12

LEMMA BodyGrows ==
  ASSUME form \in Forms, form' = form, UNCHANGED reader, BodyRead, NEW n \in DOMAIN unread, ~IsMultipart,
         body' = body \o SubSeq(unread, 1, n), unread' = SubSeq(unread, n + 1, Len(unread))
  PROVE  BodyRead'
<1>1. PICK c : c = ContentText(form)
  OBVIOUS
<1>2. PICK S : c \in Seq(S)
  BY <1>1, ContentTyped
<1>3. PICK i \in 0 .. Len(c) : body = SubSeq(c, 1, i) /\ unread = Drop(c, i)
  BY <1>1 DEF BodyRead
<1>4. unread \in Seq(S)
  BY <1>2, <1>3, DropIs
<1>5. n \in 1 .. Len(unread)
  BY <1>4
<1>6. PICK r : r = Drop(c, i)
  OBVIOUS
<1>7. n \in 1 .. Len(r) /\ unread' = Drop(r, n) /\ body' = SubSeq(c, 1, i) \o SubSeq(r, 1, n)
  BY <1>3, <1>5, <1>6 DEF Drop
<1>8. i + n \in 0 .. Len(c) /\ Drop(r, n) = Drop(c, i + n)
  BY <1>2, <1>6, <1>7, DropDrop
<1>9. SubSeq(c, 1, i) \o SubSeq(r, 1, n) = SubSeq(c, 1, i + n)
  BY <1>2, <1>6, <1>7, FrontGrows
<1>10. c = ContentText(form)'
  BY <1>1
<1> QED
  BY <1>7, <1>8, <1>9, <1>10 DEF BodyRead

LEMMA BodyWhole ==
  ASSUME form \in Forms, BodyRead, ~IsMultipart, unread = <<>>
  PROVE  body = ContentText(form)
<1>1. PICK c : c = ContentText(form)
  OBVIOUS
<1>2. PICK S : c \in Seq(S)
  BY <1>1, ContentTyped
<1>3. PICK i \in 0 .. Len(c) : body = SubSeq(c, 1, i) /\ unread = Drop(c, i)
  BY <1>1 DEF BodyRead
<1>4. PICK m \in Nat : m = Len(c)
  BY <1>2
<1>5. Len(unread) = m - i
  BY <1>2, <1>3, <1>4, DropIs
<1>6. i = m
  BY <1>3, <1>4, <1>5
<1>7. body = SubSeq(c, 1, Len(c))
  BY <1>3, <1>4, <1>6
<1>8. SubSeq(c, 1, Len(c)) = c
  BY <1>2, SubSeqFull
<1> QED
  BY <1>1, <1>7, <1>8

LEMMA AnswerStarts == Init => AnswerInv
<1> SUFFICES ASSUME Init PROVE AnswerInv
  OBVIOUS
<1>1. /\ form \in Forms /\ ReaderInit(HeadText(form)) /\ ParserInit
      /\ unread = ContentText(form) /\ body = <<>> /\ status = -1 /\ cut = FALSE
  BY DEF Init
<1>2. /\ buf = <<>> /\ state = "initial" /\ valid = FALSE /\ parsing = "more" /\ reading = "line"
  BY <1>1 DEF ParserInit, ReaderInit
<1>3. Waits /\ Refused /\ Settled /\ FormReadBack
  BY <1>1, <1>2 DEF Waits, Refused, Settled, FormReadBack
<1>4. TakenApart
  BY <1>2 DEF TakenApart, Sealed, Failed
<1>5. BodyRead
  <2>1. PICK c : c = ContentText(form)
    OBVIOUS
  <2>2. PICK S : c \in Seq(S)
    BY <1>1, <2>1, ContentTyped
  <2>3. Drop(c, 0) = c /\ 0 \in 0 .. Len(c)
    BY <2>2, DropNone
  <2>4. SubSeq(c, 1, 0) = <<>>
    OBVIOUS
  <2> QED
    BY <1>1, <2>1, <2>3, <2>4 DEF BodyRead
<1> QED
  BY <1>3, <1>4, <1>5 DEF AnswerInv

LEMMA AnswerRead ==
  ASSUME FormInv, AnswerInv, NEW n \in DOMAIN unread, Read(n)
  PROVE  AnswerInv'
<1>1. /\ reading = "true" /\ status = -1 /\ parsing = "more" /\ (IsMultipart => HasBoundary)
      /\ unread' = SubSeq(unread, n + 1, Len(unread))
      /\ cut' = (cut \/ CutsAt(Len(unread) - n))
      /\ form' = form /\ status' = status /\ UNCHANGED reader
  BY DEF Read, Reading
<1>2. form \in Forms /\ ReaderInv /\ (Untouched \/ PlainRead \/ FilesRead)
  BY DEF FormInv
<1>3. Settled' /\ FormReadBack'
  <2>1. status' = -1
    BY <1>1
  <2> QED
    BY <2>1 DEF Settled, FormReadBack
<1>4. Refused' /\ reading' = "true" /\ (IsMultipart' <=> IsMultipart)
  BY <1>1 DEF Refused, reader, IsMultipart, HeaderValue
<1>5. CASE IsMultipart
  <2>1. Parse(SubSeq(unread, 1, n))
    BY <1>5 DEF Read
  <2>2. Continue(buf \o SubSeq(unread, 1, n)) /\ UNCHANGED <<state, valid, file, files>>
    BY <2>1 DEF Parse
  <2>3. Waits'
    BY <2>2, NoneErased DEF Waits
  <2>4. BodyRead'
    BY <1>4, <1>5 DEF BodyRead
  <2>5. ASSUME form \in MultipartForms, ~cut' PROVE Sealed' /\ Failed'
    <3>1. ~cut
      BY <1>1, <2>5
    <3>2. Sealed
      BY <2>5, <3>1 DEF AnswerInv, TakenApart
    <3>3. ParserTyped
      BY <1>1, <1>2, <1>5, <2>5, FormAhead DEF PlainRead, FilesRead
    <3>4. PICK b, u \in Text : b = buf /\ u = unread
      BY <3>3 DEF ParserTyped
    <3>5. n \in 1 .. Len(u) /\ Len(u) \in Nat
      BY <3>4 DEF Text
    <3>6. unread # <<>>
      <4>1. SUFFICES ASSUME unread = <<>> PROVE FALSE
        OBVIOUS
      <4>2. Len(u) = 0
        BY <3>4, <4>1
      <4> QED
        BY <3>5, <4>2
    <3>7. valid = FALSE
      BY <3>2, <3>3, <3>6 DEF Sealed, ParserTyped
    <3>8. buf' # <<>>
      <4>1. PICK p : p = SubSeq(u, 1, n)
        OBVIOUS
      <4>2. p \in Text /\ Len(p) = n
        <5>1. n \in 0 .. Len(u)
          BY <3>5
        <5>2. p \in Text
          BY <4>1, <5>1, FrontTyped
        <5>3. Len(p) = n
          <6>1. u \in Seq(Chars) /\ \A k \in 1 .. n : u[k] \in Chars
            BY <3>4, <3>5 DEF Text
          <6> QED
            BY <3>5, <4>1, <6>1, SubSeqProperties
        <5> QED
          BY <5>2, <5>3
      <4>3. buf' = Then(b, p)
        BY <2>2, <3>4, <4>1, ContinueIs DEF Then
      <4>4. Len(buf') = Len(b) + n /\ Len(b) \in Nat
        BY <3>4, <4>2, <4>3, Lengths
      <4>5. SUFFICES ASSUME buf' = <<>> PROVE FALSE
        OBVIOUS
      <4>6. Len(buf') = 0
        BY <4>5
      <4> QED
        BY <3>5, <4>4, <4>6
    <3>9. Sealed'
      BY <2>2, <3>7, <3>8 DEF Sealed
    <3>10. Failed'
      <4>1. parsing' # "false"
        BY <2>2 DEF Continue
      <4> QED
        BY <4>1 DEF Failed
    <3> QED
      BY <3>9, <3>10
  <2>6. TakenApart'
    BY <1>1, <2>5 DEF TakenApart
  <2> QED
    BY <1>3, <1>4, <2>3, <2>4, <2>6 DEF AnswerInv
<1>6. CASE ~IsMultipart
  <2>1. UNCHANGED parser /\ body' = body \o SubSeq(unread, 1, n)
    BY <1>6 DEF Read
  <2>2. BodyRead'
    BY <1>1, <1>2, <1>6, <2>1, BodyGrows DEF AnswerInv
  <2>3. Idle
    BY <1>2, <1>6 DEF Untouched, PlainRead, FilesRead
  <2>4. buf' = <<>> /\ state' = "initial" /\ valid' = FALSE /\ parsing' = "more"
    BY <2>1, <2>3 DEF Idle, parser
  <2>5. Waits'
    BY <2>4 DEF Waits
  <2>6. TakenApart'
    BY <2>4 DEF TakenApart, Sealed, Failed
  <2> QED
    BY <1>3, <1>4, <2>2, <2>5, <2>6 DEF AnswerInv
<1> QED
  BY <1>5, <1>6

LEMMA AnswerHead ==
  ASSUME FormInv, AnswerInv, ReaderStep, UNCHANGED <<parser, request, unread, cut>>
  PROVE  AnswerInv'
<1>1. UNCHANGED <<buf, state, valid, file, files, parsing, form, body, params, status, unread, cut>>
  BY DEF parser, request
<1>2. form \in Forms /\ ReaderInv
  BY DEF FormInv
<1>3. reading = "line"
  BY DEF ReaderStep, ReadByte, NoByte, HeaderRead
<1>4. status = -1
  BY <1>3 DEF AnswerInv, Settled
<1>5. Settled' /\ FormReadBack'
  <2>1. status' = -1
    BY <1>1, <1>4
  <2> QED
    BY <2>1 DEF Settled, FormReadBack
<1>6. Refused'
  BY <1>1, <1>2, RefusedKept DEF AnswerInv
<1>7. Waits'
  <2>1. Find(Crlf)' = Find(Crlf)
    BY <1>1 DEF Find, Erased
  <2> QED
    BY <1>1, <2>1 DEF AnswerInv, Waits
<1>8. TakenApart'
  BY <1>1 DEF AnswerInv, TakenApart, Sealed, Failed, Oversized
<1>9. BodyRead'
  BY <1>1, <1>3 DEF AnswerInv, BodyRead
<1> QED
  BY <1>5, <1>6, <1>7, <1>8, <1>9 DEF AnswerInv

LEMMA AnswerParse ==
  ASSUME FormInv, AnswerInv, ParserStep, UNCHANGED <<reader, request, unread, cut>>
  PROVE  AnswerInv'
<1>1. UNCHANGED <<stream, headers, reading, form, body, params, status, unread, cut>>
  BY DEF reader, request
<1>2. form \in Forms /\ ReaderInv /\ (Untouched \/ PlainRead \/ FilesRead)
  BY DEF FormInv
<1>3. parsing \notin {"more", "false"}
  BY DEF ParserStep, InitialBoundary, NewEntry, Headers, HeaderLine, HeaderLineMissing, HeadersEnd,
         Body, Boundary
<1>4. FilesRead
  BY <1>2, <1>3 DEF Untouched, PlainRead, Idle
<1>5. status = -1
  BY <1>3 DEF AnswerInv, Settled
<1>6. Settled' /\ FormReadBack'
  <2>1. status' = -1
    BY <1>1, <1>5
  <2> QED
    BY <2>1 DEF Settled, FormReadBack
<1>7. Refused'
  BY <1>1 DEF AnswerInv, Refused, Oversized
<1>8. form \in MultipartForms /\ ParserTyped /\ (~cut => Track /\ ~CutsAt(Len(unread)))
      /\ reading = "true" /\ IsMultipart
  BY <1>4 DEF FilesRead
<1>9. Waits'
  BY <1>8, StepWaits
<1>10. BodyRead'
  BY <1>1, <1>8 DEF BodyRead, IsMultipart, HeaderValue
<1>11. ASSUME ~cut PROVE Sealed' /\ Failed'
  <2>1. Sealed
    BY <1>8, <1>11 DEF AnswerInv, TakenApart
  <2>2. Sealed'
    BY <1>1, <1>8, <1>11, <2>1, StepSealed
  <2>3. Failed'
    BY <1>1, <1>8, <1>11, StepFailed
  <2> QED
    BY <2>2, <2>3
<1>12. TakenApart'
  BY <1>1, <1>11 DEF TakenApart
<1> QED
  BY <1>6, <1>7, <1>9, <1>10, <1>12 DEF AnswerInv

(* An answer changes nothing that it rests on.                             *)
LEMMA AnswerFrozen ==
  ASSUME AnswerInv, UNCHANGED <<parser, reader, form, unread, body, cut>>
  PROVE  Waits' /\ Refused' /\ BodyRead' /\ TakenApart'
<1>1. UNCHANGED <<buf, state, valid, file, files, parsing, stream, headers, reading, form, unread, body, cut>>
  BY DEF parser, reader
<1>2. Waits'
  <2>1. Find(Crlf)' = Find(Crlf)
    BY <1>1 DEF Find, Erased
  <2> QED
    BY <1>1, <2>1 DEF AnswerInv, Waits
<1>3. Refused'
  BY <1>1 DEF AnswerInv, Refused, Oversized
<1>4. BodyRead'
  BY <1>1 DEF AnswerInv, BodyRead, IsMultipart, HeaderValue
<1>5. TakenApart'
  BY <1>1 DEF AnswerInv, TakenApart, Sealed, Failed, Oversized
<1> QED
  BY <1>2, <1>3, <1>4, <1>5

(* The values that say what the content is. *)
LEMMA KindsDiffer ==
  ASSUME NEW v
  PROVE  /\ IsPrefix(<<77>>, v) => ~IsPrefix(<<85>>, v)
         /\ v = <<77, 66>> => IsPrefix(<<77>>, v) /\ Len(v) > 1
         /\ v = <<85>> => IsPrefix(<<85>>, v) /\ ~IsPrefix(<<77>>, v)
<1>1. PICK a, b : a = <<77>> /\ b = <<85>>
  OBVIOUS
<1>2. Len(a) = 1 /\ Len(b) = 1 /\ a[1] = 77 /\ b[1] = 85 /\ a \in Seq(Nat) /\ b \in Seq(Nat)
  BY <1>1
<1>3. IsPrefix(a, v) => SubSeq(a, 1, 1) = SubSeq(v, 1, 1)
  BY <1>2 DEF IsPrefix
<1>4. IsPrefix(b, v) => SubSeq(b, 1, 1) = SubSeq(v, 1, 1)
  BY <1>2 DEF IsPrefix
<1>5. SubSeq(a, 1, 1) = a /\ SubSeq(b, 1, 1) = b
  BY <1>2, SubSeqFull
<1>6. a # b
  BY <1>2
<1>7. IsPrefix(a, v) => ~IsPrefix(b, v)
  BY <1>3, <1>4, <1>5, <1>6
<1>8. ASSUME v = <<77, 66>> PROVE IsPrefix(a, v) /\ Len(v) > 1
  <2>1. Len(v) = 2 /\ v[1] = 77 /\ v \in Seq(Nat)
    BY <1>8
  <2>2. 1 <= Len(v)
    BY <2>1
  <2>3. SubSeq(v, 1, 1) = a
    <3>1. PICK s : s = SubSeq(v, 1, 1)
      OBVIOUS
    <3>2. s \in Seq(Nat) /\ Len(s) = 1 /\ s[1] = v[1]
      <4>1. \A k \in 1 .. 1 : v[k] \in Nat
        BY <2>1
      <4>2. s \in Seq(Nat) /\ Len(s) = 1 /\ \A k \in 1 .. 1 : s[k] = v[k]
        BY <2>1, <3>1, <4>1, SubSeqProperties
      <4> QED
        BY <4>2
    <3>3. \A k \in 1 .. 1 : s[k] = a[k]
      <4>1. \A k \in 1 .. 1 : k = 1
        OBVIOUS
      <4> QED
        BY <1>2, <2>1, <3>2, <4>1
    <3>4. s = a
      BY <1>2, <3>2, <3>3, SeqEqual
    <3> QED
      BY <3>1, <3>4
  <2> QED
    BY <1>2, <1>5, <2>1, <2>2, <2>3 DEF IsPrefix
<1>9. ASSUME v = b PROVE IsPrefix(b, v)
  BY <1>2, <1>9 DEF IsPrefix
<1> QED
  BY <1>1, <1>7, <1>8, <1>9

LEMMA AnnouncedIs ==
  ASSUME form \in Forms, reading = "true", ReaderInv, Announced(form)
  PROVE  /\ form.kind = "multipart" => IsMultipart /\ HasBoundary
         /\ form.kind # "multipart" => IsUrlEncoded /\ ~IsMultipart
<1>1. headers = AllHeaders(form)
  BY DEF ReaderInv
<1>2. PICK v : v = HeaderValue(ContentType)
  OBVIOUS
<1>3. v = IF form.kind = "multipart" THEN <<77, 66>> ELSE <<85>>
  BY <1>1, <1>2, AnnouncedRead
<1>4. CASE form.kind = "multipart"
  <2>1. v = <<77, 66>>
    BY <1>3, <1>4
  <2>2. IsPrefix(<<77>>, v) /\ Len(v) > 1
    BY <2>1, KindsDiffer
  <2> QED
    BY <1>2, <1>4, <2>2 DEF IsMultipart, HasBoundary
<1>5. CASE form.kind # "multipart"
  <2>1. v = <<85>>
    BY <1>3, <1>5
  <2>2. IsPrefix(<<85>>, v) /\ ~IsPrefix(<<77>>, v)
    BY <2>1, KindsDiffer
  <2> QED
    BY <1>2, <1>5, <2>2 DEF IsMultipart, IsUrlEncoded
<1> QED
  BY <1>4, <1>5

(* The form is refused for a reason. *)
Excused ==
  \/ stream # <<>> \/ (unread # <<>> /\ parsing # "false")
  \/ cut \/ Oversized(form) \/ ~Announced(form)

(* The form is accepted whole. *)
Accepted ==
  Announced(form) /\ ~cut =>
    IF form.kind = "multipart"
      THEN files = [i \in DOMAIN form.files |-> SentFile(form.files[i])]
      ELSE FieldsRead = FieldsOf(form)

LEMMA KindIs ==
  ASSUME form \in Forms
  PROVE  /\ form.kind = "multipart" => form \in MultipartForms
         /\ form.kind # "multipart" => form \in QueryForms /\ form.kind = "urlencoded"
BY FormsAssumption DEF MultipartForms, QueryForms, FieldForms

LEMMA ExcuseKept ==
  ASSUME Excused, UNCHANGED <<parser, reader, form, unread, body, cut>>
  PROVE  Excused'
<1>1. UNCHANGED <<parsing, stream, form, unread, cut>>
  BY DEF parser, reader
<1> QED
  BY <1>1 DEF Excused, Oversized, Announced

LEMMA AnswerNoHead ==
  ASSUME FormInv, AnswerInv, HeadFails
  PROVE  AnswerInv'
<1>1. /\ reading = "false" \/ (reading = "true" /\ IsMultipart /\ ~HasBoundary)
      /\ status' = 400 /\ UNCHANGED <<parser, reader, form, unread, body, params, cut>>
  BY DEF HeadFails
<1>2. form \in Forms /\ ReaderInv /\ (Untouched \/ PlainRead \/ FilesRead)
  BY DEF FormInv
<1>3. Waits' /\ Refused' /\ BodyRead' /\ TakenApart'
  BY <1>1, AnswerFrozen
<1>4. parsing = "more"
  BY <1>1, <1>2 DEF Untouched, PlainRead, FilesRead, Idle
<1>5. Settled'
  BY <1>1, <1>4 DEF Settled, reader, parser
<1>6. Excused
  <2>1. CASE reading = "false"
    BY <2>1 DEF AnswerInv, Refused, Excused
  <2>2. CASE reading = "true" /\ IsMultipart /\ ~HasBoundary
    BY <1>2, <2>2, AnnouncedIs DEF Excused
  <2> QED
    BY <1>1, <2>1, <2>2
<1>7. Excused'
  BY <1>1, <1>6, ExcuseKept
<1>8. FormReadBack'
  BY <1>1, <1>7 DEF FormReadBack, Excused
<1> QED
  BY <1>3, <1>5, <1>8 DEF AnswerInv

LEMMA AnswerReadFails ==
  ASSUME FormInv, AnswerInv, ReadFails
  PROVE  AnswerInv'
<1>1. /\ reading = "true" /\ parsing \in {"more", "false"} /\ (IsMultipart => HasBoundary)
      /\ parsing = "false" \/ unread # <<>>
      /\ status' = 400 /\ UNCHANGED <<parser, reader, form, unread, body, params, cut>>
  BY DEF ReadFails, Reading
<1>2. form \in Forms /\ ReaderInv /\ (Untouched \/ PlainRead \/ FilesRead)
  BY DEF FormInv
<1>3. Waits' /\ Refused' /\ BodyRead' /\ TakenApart'
  BY <1>1, AnswerFrozen
<1>4. Settled'
  BY <1>1 DEF Settled, reader, parser
<1>5. Excused
  <2>1. CASE parsing = "false"
    <3>1. FilesRead
      BY <1>2, <2>1 DEF Untouched, PlainRead, Idle
    <3>2. ~cut => Failed
      BY <3>1 DEF FilesRead, AnswerInv, TakenApart
    <3> QED
      BY <2>1, <3>2 DEF Excused, Failed
  <2>2. CASE parsing # "false"
    BY <1>1, <2>2 DEF Excused
  <2> QED
    BY <2>1, <2>2
<1>6. Excused'
  BY <1>1, <1>5, ExcuseKept
<1>7. FormReadBack'
  BY <1>1, <1>6 DEF FormReadBack, Excused
<1> QED
  BY <1>3, <1>4, <1>7 DEF AnswerInv

(* All files have been read.                                               *)
LEMMA FilesWhole ==
  ASSUME form \in MultipartForms, ParserTyped, Track, state = "boundary", Len(files) = Len(form.files)
  PROVE  files = [i \in DOMAIN form.files |-> SentFile(form.files[i])]
<1>1. PICK n \in Nat \ {0} : n = Len(form.files)
  BY EntryIs
<1>2. PICK k \in 0 .. n - 1 : AtBoundary(k)
  BY <1>1 DEF Track, Tracked, InPreamble, AtEntry, InHead, InBody
<1>3. Len(files) = k + 1 /\ Done(k + 1)
  BY <1>2 DEF AtBoundary
<1>4. k + 1 = n
  BY <1>1, <1>3
<1>5. \A i \in 1 .. n : files[i] = SentFile(form.files[i])
  BY <1>3, <1>4 DEF Done
<1>6. DOMAIN form.files = 1 .. n
  <2>1. form.files \in Seq(Files)
    BY FormIs
  <2> QED
    BY <1>1, <2>1
<1>7. DOMAIN files = 1 .. n /\ files = [i \in DOMAIN files |-> files[i]]
  <2>1. files \in Seq(WrittenTo)
    BY DEF ParserTyped
  <2> QED
    BY <1>1, <2>1
<1>8. files = [i \in 1 .. n |-> files[i]]
  BY <1>7
<1>9. [i \in 1 .. n |-> files[i]] = [i \in 1 .. n |-> SentFile(form.files[i])]
  BY <1>5
<1> QED
  BY <1>6, <1>8, <1>9

(* A content with files is answered by whether it is valid.                *)
LEMMA FilesAnswered ==
  ASSUME FormInv, AnswerInv, Reading, parsing = "more", unread = <<>>, IsMultipart
  PROVE  (valid => Accepted) /\ (~valid => Excused)
<1>1. reading = "true" /\ HasBoundary
  BY DEF Reading
<1>2. form \in Forms /\ ReaderInv /\ (Untouched \/ PlainRead \/ FilesRead)
  BY DEF FormInv
<1>3. form \in MultipartForms
  BY <1>1, <1>2, FieldsNotParsed
<1>4. ParserTyped /\ (~cut => Track)
  BY <1>1, <1>2, <1>3, FormAhead DEF PlainRead, FilesRead
<1>5. ~cut => Sealed
  BY <1>3 DEF AnswerInv, TakenApart
<1>6. ASSUME valid, ~cut PROVE Accepted
  <2>1. state = "boundary" /\ Len(files) = Len(form.files)
    BY <1>5, <1>6 DEF Sealed
  <2>2. files = [i \in DOMAIN form.files |-> SentFile(form.files[i])]
    BY <1>3, <1>4, <1>6, <2>1, FilesWhole
  <2>3. form.kind = "multipart"
    BY <1>3, FormIs
  <2> QED
    BY <2>2, <2>3 DEF Accepted
<1>7. ASSUME ~valid, ~cut PROVE FALSE
  <2>1. state = "boundary" /\ Len(files) = Len(form.files) /\ buf = <<>>
    BY <1>3, <1>4, <1>7, EndReached DEF AnswerInv
  <2> QED
    BY <1>5, <1>7, <2>1 DEF Sealed
<1>8. valid => Accepted
  BY <1>6 DEF Accepted
<1> QED
  BY <1>7, <1>8 DEF Excused

(* The ways in which the end of the content is answered.                   *)
LEMMA EndChoices ==
  ASSUME ReadEnds, ~IsMultipart => Len(body) \in Nat
  PROVE  /\ status' \in {200, 400, 413}
         /\ IsMultipart => status' = (IF valid THEN 200 ELSE 400)
         /\ ~IsMultipart /\ IsUrlEncoded =>
              IF Len(body) > PayloadMax THEN status' = 413
              ELSE status' = 200 /\ params' = ParseQueryText(body)
         /\ ~IsMultipart /\ ~IsUrlEncoded => status' = 200
<1>1. IsMultipart => ~IsUrlEncoded
  BY KindsDiffer DEF IsMultipart, IsUrlEncoded
<1>2. PICK n : n = Len(body)
  OBVIOUS
<1>3. CASE IsMultipart
  <2>1. status' = (IF valid THEN 200 ELSE 400)
    BY <1>1, <1>3 DEF ReadEnds
  <2> QED
    BY <1>3, <2>1
<1>4. CASE ~IsMultipart /\ ~IsUrlEncoded
  <2>1. status' = 200
    BY <1>4 DEF ReadEnds
  <2> QED
    BY <1>4, <2>1
<1>5. CASE /\ ~IsMultipart /\ IsUrlEncoded
           /\ Len(body) > PayloadMax
  <2>1. ~(Len(body) <= PayloadMax)
    BY <1>5, PayloadAssumption
  <2>2. status' = 413
    BY <1>5, <2>1 DEF ReadEnds
  <2> QED
    BY <1>5, <2>2
<1>6. CASE /\ ~IsMultipart /\ IsUrlEncoded
           /\ ~(Len(body) > PayloadMax)
  <2>1. Len(body) <= PayloadMax
    BY <1>6, PayloadAssumption
  <2>2. status' = 200 /\ params' = ParseQueryText(body)
    BY <1>6, <2>1 DEF ReadEnds
  <2> QED
    BY <1>6, <2>2
<1> QED
  BY <1>3, <1>4, <1>5, <1>6

LEMMA AnswerReadEnds ==
  ASSUME FormInv, AnswerInv, ReadEnds
  PROVE  AnswerInv'
<1>1. Reading /\ parsing = "more" /\ unread = <<>> /\ UNCHANGED <<parser, reader, form, unread, body, cut>>
  BY DEF ReadEnds
<1>2. reading = "true" /\ (IsMultipart => HasBoundary)
  BY <1>1 DEF Reading
<1>3. form \in Forms /\ ReaderInv
  BY DEF FormInv
<1>4. Waits' /\ Refused' /\ BodyRead' /\ TakenApart'
  BY <1>1, AnswerFrozen
<1>5. Settled'
  BY <1>1, <1>2 DEF Settled, reader, parser
<1>6. ASSUME ~IsMultipart PROVE body = ContentText(form) /\ Len(body) \in Nat
  <2>1. body = ContentText(form)
    BY <1>1, <1>3, <1>6, BodyWhole DEF AnswerInv
  <2>2. PICK S : body \in Seq(S)
    BY <1>3, <2>1, ContentTyped
  <2> QED
    BY <2>1, <2>2
<1>7. ~IsMultipart => Len(body) \in Nat
  BY <1>6
<1>8. form' = form /\ cut' = cut /\ files' = files /\ (Announced(form))' = Announced(form)
      /\ (FieldsOf(form))' = FieldsOf(form)
  BY <1>1 DEF parser, Announced, FieldsOf, Proper
<1>9. SUFFICES FormReadBack'
  BY <1>4, <1>5 DEF AnswerInv
<1>10. CASE IsMultipart
  <2>1. (valid => Accepted) /\ (~valid => Excused)
    BY <1>1, <1>10, FilesAnswered
  <2>2. status' = IF valid THEN 200 ELSE 400
    BY <1>7, <1>10, EndChoices
  <2>3. CASE valid
    <3>1. status' = 200 /\ Accepted
      BY <2>1, <2>2, <2>3
    <3>2. form \in MultipartForms
      BY <1>2, <1>3, <1>10, FieldsNotParsed
    <3>3. form.kind = "multipart"
      BY <3>2, FormIs
    <3>4. Announced(form) /\ ~cut => files = [i \in DOMAIN form.files |-> SentFile(form.files[i])]
      BY <3>1, <3>3 DEF Accepted
    <3> QED
      BY <1>8, <3>1, <3>3, <3>4 DEF FormReadBack, SentFile
  <2>4. CASE ~valid
    <3>1. status' = 400 /\ Excused
      BY <2>1, <2>2, <2>4
    <3>2. Excused'
      BY <1>1, <3>1, ExcuseKept
    <3> QED
      BY <3>1, <3>2 DEF FormReadBack, Excused
  <2> QED
    BY <2>3, <2>4
<1>11. CASE ~IsMultipart
  <2>1. body = ContentText(form)
    BY <1>6, <1>11
  <2>2. Announced(form) => form \in QueryForms /\ form.kind = "urlencoded" /\ form.kind # "multipart" /\ IsUrlEncoded
    BY <1>2, <1>3, <1>11, AnnouncedIs, KindIs
  <2>3. CASE IsUrlEncoded /\ Len(body) > PayloadMax
    <3>1. status' = 413
      BY <1>7, <1>11, <2>3, EndChoices
    <3>2. Announced(form) => Oversized(form)
      BY <2>1, <2>2, <2>3 DEF Oversized
    <3>3. Excused'
      BY <1>1, <3>2, ExcuseKept DEF Excused
    <3> QED
      BY <3>1, <3>3 DEF FormReadBack, Excused
  <2>4. CASE IsUrlEncoded /\ ~(Len(body) > PayloadMax)
    <3>1. status' = 200 /\ params' = ParseQueryText(body)
      BY <1>7, <1>11, <2>4, EndChoices
    <3>2. ASSUME Announced(form) PROVE (FieldsRead)' = FieldsOf(form)
      <4>1. body = QueryText(form.fields)
        BY <2>1, <2>2, <3>2 DEF ContentText
      <4>2. Back(ParseQueryText(QueryText(form.fields))) = FieldsOf(form)
        BY <2>2, <3>2, FieldsBack
      <4>3. (FieldsRead)' = Back(params')
        BY DEF FieldsRead, Back, CharactersPair
      <4> QED
        BY <3>1, <4>1, <4>2, <4>3
    <3> QED
      BY <1>8, <2>2, <3>1, <3>2 DEF FormReadBack
  <2>5. CASE ~IsUrlEncoded
    <3>1. status' = 200
      BY <1>7, <1>11, <2>5, EndChoices
    <3>2. ~Announced(form)
      BY <2>2, <2>5
    <3> QED
      BY <1>8, <3>1, <3>2 DEF FormReadBack
  <2> QED
    BY <2>3, <2>4, <2>5
<1> QED
  BY <1>10, <1>11

LEMMA AnswerSame ==
  ASSUME AnswerInv, UNCHANGED vars
  PROVE  AnswerInv'
<1>1. UNCHANGED <<parser, reader, form, unread, body, cut>> /\ UNCHANGED <<params, status>>
  BY DEF vars, request
<1>2. Waits' /\ Refused' /\ BodyRead' /\ TakenApart'
  BY <1>1, AnswerFrozen
<1>3. UNCHANGED <<buf, state, valid, file, files, parsing, stream, headers, reading, form, unread, body, cut>>
  BY <1>1 DEF parser, reader
<1>4. Settled'
  BY <1>1, <1>3 DEF AnswerInv, Settled
<1>5. FormReadBack'
  BY <1>1, <1>3 DEF AnswerInv, FormReadBack, FieldsRead, FieldsOf, Announced, Oversized
<1> QED
  BY <1>2, <1>4, <1>5 DEF AnswerInv

LEMMA AnswerKept == FormInv /\ AnswerInv /\ [Next]_vars => AnswerInv'
<1>1. SUFFICES ASSUME FormInv, AnswerInv, [Next]_vars PROVE AnswerInv'
  OBVIOUS
<1>2. CASE \E n \in DOMAIN unread : Read(n)
  BY <1>1, <1>2, AnswerRead
<1>3. CASE HeadFails
  BY <1>1, <1>3, AnswerNoHead
<1>4. CASE ReadFails
  BY <1>1, <1>4, AnswerReadFails
<1>5. CASE ReadEnds
  BY <1>1, <1>5, AnswerReadEnds
<1>6. CASE /\ ReaderStep
           /\ UNCHANGED <<parser, request, unread, cut>>
  BY <1>1, <1>6, AnswerHead
<1>7. CASE /\ ParserStep
           /\ UNCHANGED <<reader, request, unread, cut>>
  BY <1>1, <1>7, AnswerParse
<1>8. CASE UNCHANGED vars
  BY <1>1, <1>8, AnswerSame
<1> QED
  BY <1>1, <1>2, <1>3, <1>4, <1>5, <1>6, <1>7, <1>8 DEF Next

(* A form is accepted only when it has been read whole, its files or its   *)
(* fields as the client meant them, and it is refused only if it did not   *)
(* come to its end, is over a limit, was not announced, or was cut inside  *)
(* the first boundary or behind the last one.                              *)
THEOREM FormReadBackHolds == Spec => []FormReadBack
<1>1. Spec => []FormInv
  BY FormInvariant
<1>2. FormInv /\ AnswerInv /\ [Next]_vars => AnswerInv'
  BY AnswerKept
<1>3. Init => AnswerInv
  BY AnswerStarts
<1>4. Spec => []AnswerInv
  BY <1>1, <1>2, <1>3, PTL DEF Spec
<1>5. AnswerInv => FormReadBack
  BY DEF AnswerInv
<1> QED
  BY <1>4, <1>5, PTL
=============================================================================
