---------------------------- MODULE HttpHeaders ----------------------------
(***************************************************************************)
(* The header lines of a request as the HTTP library reads them, byte by   *)
(* byte: stream_line_reader, whose lines grow out of a fixed buffer into   *)
(* another, read_headers() and parse_header()                              *)
(* (src/test-client/http/httplib.hpp 2241-2302, 3347-3424).                *)
(*                                                                         *)
(* A text is a sequence of bytes.  A header is <<its name, its value>>.    *)
(***************************************************************************)
EXTENDS UrlText

CONSTANTS
  FixedSize,    \* size of the reader's buffer, with its last '\0'
  LineMax       \* CPPHTTPLIB_HEADER_MAX_LENGTH

ASSUME HeadersAssumption ==
  /\ FixedSize \in Nat \ {0}
  /\ LineMax \in Nat \ {0}

VARIABLES
  stream,      \* bytes of the request before its content, not yet read
  fixed,       \* fixed_buffer_
  glowable,    \* glowable_buffer_, used once it is not empty
  headers,     \* req.headers, in the order they are added
  reading      \* read_headers(): "line", or it has returned "true", "false"

reader == <<stream, fixed, glowable, headers, reading>>

CR == 13
LF == 10
Colon == 58

(* ptr() and size(). *)
Line == IF glowable = <<>> THEN fixed ELSE glowable

EndsWithCrlf == IsSuffix(<<CR, LF>>, Line)

(* A faulty variant, for the checks: a line that grows leaves its          *)
(* beginning in the fixed buffer.                                          *)
GrowAnew(byte) ==
  IF Len(fixed) < FixedSize - 1
    THEN fixed' = Append(fixed, byte) /\ UNCHANGED glowable
    ELSE glowable' = Append(glowable, byte) /\ UNCHANGED fixed

(* append(). *)
Grow(byte) ==
  IF Len(fixed) < FixedSize - 1
    THEN fixed' = Append(fixed, byte) /\ UNCHANGED glowable
    ELSE glowable' = Append(Line, byte) /\ UNCHANGED fixed

LineRead == Line # <<>> /\ Last(Line) = LF

(* One read() of getline(). *)
ReadByte ==
  /\ reading = "line" /\ ~LineRead
  /\ stream # <<>>
  /\ Grow(Head(stream))
  /\ stream' = Tail(stream)
  /\ UNCHANGED <<headers, reading>>

(* The rest is not sent in time: half a line has no end and is skipped. *)
NoByte ==
  /\ reading = "line" /\ ~LineRead
  /\ reading' = "false"
  /\ UNCHANGED <<stream, fixed, glowable, headers>>

(* parse_header(): the headers of a line, none if it has no colon, or      *)
(* nothing but blanks behind it.                                           *)
ParseHeader(line) ==
  LET colons == {i \in DOMAIN line : line[i] = Colon}
      colon  == Min(colons)
      value  == Trim(SubSeq(line, colon + 1, Len(line)))
  IN IF colons = {} \/ value = <<>> THEN <<>>
     ELSE <<<<SubSeq(line, 1, colon - 1), DecodeUrl(value, FALSE)>>>>

(* A line of read_headers(): skipped if it does not end in CRLF, the last  *)
(* if it is empty, refused if it is too long, or one header more.          *)
HeaderRead ==
  /\ reading = "line" /\ LineRead
  /\ fixed' = <<>> /\ glowable' = <<>>
  /\ CASE ~EndsWithCrlf -> UNCHANGED <<headers, reading>>
       [] EndsWithCrlf /\ Len(Line) = 2 -> reading' = "true" /\ UNCHANGED headers
       [] EndsWithCrlf /\ Len(Line) # 2 /\ Len(Line) > LineMax -> reading' = "false" /\ UNCHANGED headers
       [] OTHER -> /\ headers' = headers \o ParseHeader(SubSeq(Line, 1, Len(Line) - 2))
                   /\ UNCHANGED reading
  /\ UNCHANGED stream

(* get_header_value(): the first that was added under a name. *)
HeaderValue(name) ==
  LET named == {i \in DOMAIN headers : headers[i][1] = name}
  IN IF named = {} THEN <<>> ELSE headers[Min(named)][2]

ReaderStep == ReadByte \/ NoByte \/ HeaderRead

ReaderInit(text) ==
  /\ stream = text
  /\ fixed = <<>> /\ glowable = <<>>
  /\ headers = <<>> /\ reading = "line"

(* Types of the reader: its fixed buffer never overflows. *)
ReaderTypeOK ==
  /\ Len(fixed) \in 0 .. FixedSize - 1
  /\ Len(glowable) # 0 => Len(glowable) >= FixedSize
  /\ reading \in {"line", "true", "false"}
=============================================================================
