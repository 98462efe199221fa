------------------------------ MODULE UrlText ------------------------------
(***************************************************************************)
(* The text functions of the HTTP library that read what a client has      *)
(* escaped: decode_url(), split() and parse_query_text()                   *)
(* (src/test-client/http/httplib.hpp 1941-2237, 3825-3846).                *)
(*                                                                         *)
(* A text is a sequence of bytes, 0 .. 255.                                *)
(***************************************************************************)
EXTENDS Integers, Sequences, SequencesExt, FiniteSetsExt

Space == 32   Percent == 37   Ampersand == 38   Plus == 43   Equals == 61   LetterU == 117
Blanks == {9, Space}

(* The value of each hexadecimal digit, of both cases: is_hex(). *)
Hex == [c \in (48 .. 57) \cup (65 .. 70) \cup (97 .. 102) |->
          IF c <= 57 THEN c - 48 ELSE IF c <= 70 THEN c - 55 ELSE c - 87]

(* from_hex_to_i(): there are n digits from i on, and the value of two.    *)
HasHex(s, i, n) == i + n - 1 <= Len(s) /\ \A k \in i .. i + n - 1 : s[k] \in DOMAIN Hex

HexByte(s, i) == (16 * Hex[s[i]]) + Hex[s[i + 1]]

Continuation(n) == 128 + (n % 64)

(* A faulty variant, for the checks: three bytes from 0x7FF on are two. *)
ToUtf8Short(code) ==
  CASE code < 128  -> <<code>>
    [] code >= 128 /\ code <= 2048 -> <<192 + ((code \div 64) % 32), Continuation(code)>>
    [] code >= 55296 /\ code < 57344 -> <<>>
    [] OTHER -> <<224 + ((code \div 4096) % 16), Continuation(code \div 64), Continuation(code)>>

(* to_utf8(), for a code of four digits: a surrogate has no bytes. *)
ToUtf8(code) ==
  CASE code < 128 -> <<code>>
    [] code >= 128 /\ code < 2048 -> <<192 + ((code \div 64) % 32), Continuation(code)>>
    [] code >= 55296 /\ code < 57344 -> <<>>
    [] OTHER -> <<224 + ((code \div 4096) % 16), Continuation(code \div 64), Continuation(code)>>

(* A loop over a text from its first place on: at place i, its front is    *)
(* read as front[i].text and takes front[i].taken places.                  *)
Joined(front) ==
  LET from[i \in Nat \ {0}] ==
        IF i > Len(front) THEN <<>> ELSE front[i].text \o from[i + front[i].taken]
  IN from[1]

From(s, i) == SubSeq(s, i, Len(s))

(* What the bytes at the front of s stand for, and how many they are: an   *)
(* escape that is not complete stands for itself.                          *)
Unescape(s, plus) ==
  CASE s[1] = Percent /\ Len(s) > 1 /\ s[2] = LetterU /\ HasHex(s, 3, 4) ->
         [text |-> ToUtf8((256 * HexByte(s, 3)) + HexByte(s, 5)), taken |-> 6]
    [] s[1] = Percent /\ HasHex(s, 2, 2) -> [text |-> <<HexByte(s, 2)>>, taken |-> 3]
    [] plus /\ s[1] = Plus -> [text |-> <<Space>>, taken |-> 1]
    [] OTHER -> [text |-> <<s[1]>>, taken |-> 1]

DecodeUrl(s, plus) == Joined([i \in DOMAIN s |-> Unescape(From(s, i), plus)])

Trim(s) ==
  LET kept == {i \in DOMAIN s : s[i] \notin Blanks}
  IN IF kept = {} THEN <<>> ELSE SubSeq(s, Min(kept), Max(kept))

(* The field at the front of s, trimmed, and where it ends: a blank one is *)
(* left out.                                                               *)
FirstField(s, separator) ==
  LET end   == Min({i \in DOMAIN s : s[i] = separator} \cup {Len(s) + 1})
      field == Trim(SubSeq(s, 1, end - 1))
  IN [text |-> IF field = <<>> THEN <<>> ELSE <<field>>, taken |-> end]

Split(s, separator) == Joined([i \in DOMAIN s |-> FirstField(From(s, i), separator)])

(* A faulty variant: the text of a query is decoded, then taken apart. *)
ParseQueryTextDecoded(s) ==
  LET fields  == Split(DecodeUrl(s, TRUE), Ampersand)
      pair(p) == <<p[1], IF Len(p) = 1 THEN <<>> ELSE Last(p)>>
  IN FlattenSeq([i \in DOMAIN fields |->
       LET p == Split(fields[i], Equals) IN IF p = <<>> THEN <<>> ELSE <<pair(p)>>])

(* The parameters of a query, as they are added to the multimap: the first *)
(* part of a field is its name and the last its value, and a field that    *)
(* was there before is not added again.                                    *)
ParseQueryText(s) ==
  LET fields    == Split(s, Ampersand)
      pair(p)   == <<DecodeUrl(p[1], TRUE), IF Len(p) = 1 THEN <<>> ELSE DecodeUrl(Last(p), TRUE)>>
      cached(i) == \E k \in 1 .. i - 1 : fields[k] = fields[i]
  IN FlattenSeq([i \in DOMAIN fields |->
       LET p == Split(fields[i], Equals)
       IN IF cached(i) \/ p = <<>> THEN <<>> ELSE <<pair(p)>>])

-----------------------------------------------------------------------------
(* What the bytes mean, and how a client writes them.                      *)

(* The code at the front of a well-formed text, of up to three bytes. *)
FirstCharacter(s) ==
  LET more(i) == IF i <= Len(s) THEN s[i] - 128 ELSE 0
  IN CASE s[1] < 128 -> [text |-> <<s[1]>>, taken |-> 1]
       [] s[1] >= 128 /\ s[1] < 224 ->
            [text |-> <<(64 * (s[1] - 192)) + more(2)>>, taken |-> 2]
       [] OTHER -> [text |-> <<(4096 * (s[1] - 224)) + (64 * more(2)) + more(3)>>, taken |-> 3]

(* The codes that well-formed UTF-8 stands for. *)
Characters(s) == Joined([i \in DOMAIN s |-> FirstCharacter(From(s, i))])

Digit(n) == IF n < 10 THEN 48 + n ELSE 55 + n

(* Letters and digits are written as they are, a space as a plus, and      *)
(* other characters as an escape, of four digits when two are too few.     *)
Escape(code) ==
  CASE code \in (48 .. 57) \cup (65 .. 90) \cup (97 .. 122) -> <<code>>
    [] code = Space -> <<Plus>>
    [] code < 128 /\ code \notin (48 .. 57) \cup (65 .. 90) \cup (97 .. 122) \cup {Space} ->
         <<Percent, Digit(code \div 16), Digit(code % 16)>>
    [] OTHER ->
         <<Percent, LetterU, Digit(code \div 4096), Digit((code \div 256) % 16),
           Digit((code \div 16) % 16), Digit(code % 16)>>

EscapeAll(codes) == FlattenSeq([i \in DOMAIN codes |-> Escape(codes[i])])

(* The query of a form with these fields, pairs of a name and a value. *)
Written(field) == EscapeAll(field[1]) \o <<Equals>> \o EscapeAll(field[2])

QueryText(fields) ==
  FlattenSeq([i \in DOMAIN fields |->
    Written(fields[i]) \o (IF i = Len(fields) THEN <<>> ELSE <<Ampersand>>)])
=============================================================================
