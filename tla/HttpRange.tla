----------------------------- MODULE HttpRange -----------------------------
(***************************************************************************)
(* Byte ranges in the HTTP library of the control panels: what a Range     *)
(* header selects from the body of a reply, and what the reply says of it  *)
(* (src/test-client/http/httplib.hpp 3860-3900, 4201-4282, 5698-5806).     *)
(*                                                                         *)
(* A range is a pair of numbers, -1 where the header has none: <<2, -1>>   *)
(* is "2-", <<-1, 2>> is "-2".  size_t wraps at SizeWidth.                 *)
(***************************************************************************)
EXTENDS Integers, Sequences, SequencesExt, FiniteSetsExt

CONSTANT SizeWidth   \* 2^64, the width of size_t

ASSUME SizeWidthAssumption == SizeWidth \in Nat \ {0}

(* What a range header can name: ssize_t. *)
Numbers == -1 .. (SizeWidth \div 2) - 1

(* A range that ends before it starts spoils the header, as bad syntax does. *)
ValidRange(r) == r[1] = -1 \/ r[2] = -1 \/ r[1] <= r[2]

ParseRangeHeader(header) == \A i \in DOMAIN header : ValidRange(header[i])

ToSize(n) == IF n < 0 THEN n + SizeWidth ELSE n

(* A faulty variant, for the checks: a range is not moved to the body's end. *)
OffsetAndLengthPrefix(r, size) ==
  IF r = <<-1, -1>> THEN [offset |-> 0, length |-> size]
  ELSE LET first == IF r[1] = -1 THEN 0 ELSE r[1]
           last  == IF r[2] = -1 THEN size - 1 ELSE r[2]
       IN [offset |-> first, length |-> (ToSize(last - first) + 1) % SizeWidth]

OffsetAndLength(r, size) ==
  IF r = <<-1, -1>> THEN [offset |-> 0, length |-> size]
  ELSE LET first == IF r[1] # -1 THEN r[1] ELSE IF size > r[2] THEN size - r[2] ELSE 0
           last  == IF r[1] = -1 \/ r[2] = -1 THEN size - 1 ELSE r[2]
       IN [offset |-> first, length |-> (ToSize(last - first) + 1) % SizeWidth]

(* Content-Range: the first and the last byte, as the header names them. *)
ContentRange(o) == <<o.offset, ToSize(o.offset + o.length - 1) % SizeWidth>>

(* The bytes of the body, numbered from 0, that body.substr() keeps. *)
Substring(o, size) == {i \in 0 .. size - 1 : o.offset <= i /\ i < o.offset + o.length}

(* Where a part of the reply lies, and what its Content-Range says. *)
RangePart(r, size) ==
  LET o == OffsetAndLength(r, size)
  IN [offset |-> o.offset, range |-> ContentRange(o), bytes |-> Substring(o, size)]

(* The parts of a body of this size that a valid header selects: all of    *)
(* them, or status 416 and nothing if one starts behind the last byte.     *)
ApplyRanges(ranges, size) ==
  LET parts == [i \in DOMAIN ranges |-> RangePart(ranges[i], size)]
  IN IF \A i \in DOMAIN parts : parts[i].offset < size
       THEN [status |-> 206, parts |-> parts]
       ELSE [status |-> 416, parts |-> <<>>]

-----------------------------------------------------------------------------

(* What a range means: the bytes from its first to its last number, or the *)
(* last r[2] bytes.                                                        *)
Selected(r, size) ==
  {i \in 0 .. size - 1 :
     IF r[1] = -1 THEN r[2] = -1 \/ i >= size - r[2]
     ELSE i >= r[1] /\ (r[2] = -1 \/ i <= r[2])}
=============================================================================
