----------------------------- MODULE Multipart -----------------------------
(***************************************************************************)
(* MultipartFormDataParser of the HTTP library, which takes the files of a *)
(* form out of its text while the text arrives                             *)
(* (src/test-client/http/httplib.hpp 3902-4110).                           *)
(*                                                                         *)
(* A text is a sequence of characters, "B" stands for the boundary and one *)
(* character for a header line: one of Names is a Content-Disposition with *)
(* that name, one of Types a Content-Type.                                 *)
(***************************************************************************)
EXTENDS Integers, Sequences, SequencesExt, FiniteSetsExt

CONSTANTS
  Names, Types,   \* header lines
  Letters,        \* characters that mean nothing
  HeaderMax,      \* CPPHTTPLIB_HEADER_MAX_LENGTH
  FileMax         \* CPPHTTPLIB_MULTIPART_FORM_DATA_FILE_MAX_COUNT

ASSUME MultipartAssumption ==
  /\ (Names \cup Types) \cap {"", "cr", "lf"} = {}
  /\ Names \cap Types = {}
  /\ HeaderMax \in Nat \ {0, 1}   \* one of these lines with its CR
  /\ FileMax \in Nat \ {0}

VARIABLES
  buf,      \* what was appended and not erased
  state,    \* state_, by the names of its cases
  valid,    \* is_valid_
  file,     \* file_: the headers of the current entry
  files,    \* those the callbacks were given, the last being written
  parsing   \* parse(): in its loop, in that over header lines,
            \* or it has returned: wants "more", or "false"

parser == <<buf, state, valid, file, files, parsing>>

Chars == {"cr", "lf", "-", "B"} \cup Names \cup Types \cup Letters

Crlf             == <<"cr", "lf">>
DashBoundaryCrlf == <<"-", "-", "B", "cr", "lf">>
CrlfDashBoundary == <<"cr", "lf", "-", "-", "B">>
DashCrlf         == <<"-", "-", "cr", "lf">>

NoFile == [name |-> "", type |-> ""]

(* buf_erase(), buf_find(): the characters before the text, all of them if *)
(* it is not there.                                                        *)
Erased(n) == SubSeq(buf, n + 1, Len(buf))

Find(text) ==
  LET at == {i \in 0 .. Len(buf) - Len(text) : IsPrefix(text, Erased(i))}
  IN IF at = {} THEN Len(buf) ELSE Min(at)

(* The loop goes on with this buffer, while there is something in it. *)
Continue(rest) ==
  /\ buf' = rest
  /\ parsing' = IF rest = <<>> THEN "more" ELSE "loop"

Return(rest) == buf' = rest /\ parsing' = "more"

Fail == parsing' = "false" /\ UNCHANGED buf

(* A call of parse(). *)
Parse(piece) ==
  /\ parsing = "more"
  /\ Continue(buf \o piece)
  /\ UNCHANGED <<state, valid, file, files>>

(* A text without the boundary is erased, though it may end with a part of *)
(* one.                                                                    *)
InitialBoundary ==
  /\ parsing = "loop" /\ state = "initial"
  /\ IF Find(DashBoundaryCrlf) = Len(buf)
       THEN Return(<<>>) /\ UNCHANGED state
       ELSE /\ Continue(Erased(Find(DashBoundaryCrlf) + Len(DashBoundaryCrlf)))
            /\ state' = "entry"
  /\ UNCHANGED <<valid, file, files>>

(* A faulty variant, for the checks: an entry keeps the headers of the last. *)
NewEntryKept ==
  /\ parsing = "loop" /\ state = "entry"
  /\ state' = "headers"
  /\ UNCHANGED <<buf, valid, file, files, parsing>>

NewEntry ==
  /\ parsing = "loop" /\ state = "entry"
  /\ file' = NoFile
  /\ state' = "headers"
  /\ UNCHANGED <<buf, valid, files, parsing>>

(* The limit is that of the first line in the buffer, whole or not. *)
Headers ==
  /\ parsing = "loop" /\ state = "headers"
  /\ IF Find(Crlf) > HeaderMax THEN Fail ELSE parsing' = "lines" /\ UNCHANGED buf
  /\ UNCHANGED <<state, valid, file, files>>

Described(line) ==
  CASE line[1] \in Names -> [file EXCEPT !.name = line[1]]
    [] line[1] \in Types -> [file EXCEPT !.type = line[1]]
    [] OTHER             -> file

HeaderLine ==
  /\ parsing = "lines" /\ Find(Crlf) \in 1 .. Len(buf) - 1
  /\ file' = Described(SubSeq(buf, 1, Find(Crlf)))
  /\ buf'  = Erased(Find(Crlf) + Len(Crlf))
  /\ UNCHANGED <<state, valid, files, parsing>>

HeaderLineMissing ==
  /\ parsing = "lines" /\ Find(Crlf) = Len(buf)
  /\ Return(buf)
  /\ UNCHANGED <<state, valid, file, files>>

(* An empty line: header_callback() begins a file, or there are too many. *)
HeadersEnd ==
  /\ parsing = "lines" /\ Find(Crlf) = 0 /\ buf # <<>>
  /\ IF Len(files) = FileMax
       THEN Fail /\ valid' = FALSE /\ UNCHANGED <<state, files>>
       ELSE /\ Continue(Erased(Len(Crlf)))
            /\ files' = Append(files, [name |-> file.name, type |-> file.type, content |-> <<>>])
            /\ state' = "body"
            /\ UNCHANGED valid
  /\ UNCHANGED file

(* content_callback(). *)
Write(n) == files' = [files EXCEPT ![Len(files)].content = @ \o SubSeq(buf, 1, n)]

(* A faulty variant: less is kept than a boundary may have begun with. *)
BodyKeepsLess ==
  /\ parsing = "loop" /\ state = "body"
  /\ CASE Len(CrlfDashBoundary) > Len(buf) -> Return(buf) /\ UNCHANGED <<files, state>>
       [] Find(CrlfDashBoundary) < Len(buf) ->
            /\ Write(Find(CrlfDashBoundary))
            /\ Continue(Erased(Find(CrlfDashBoundary) + Len(CrlfDashBoundary)))
            /\ state' = "boundary"
       [] OTHER ->
            /\ Write(Len(buf) - Len(DashCrlf) + 1)
            /\ Return(Erased(Len(buf) - Len(DashCrlf) + 1))
            /\ UNCHANGED state
  /\ UNCHANGED <<valid, file>>

(* What may be the beginning of the boundary is kept for the next call. *)
Body ==
  /\ parsing = "loop" /\ state = "body"
  /\ CASE Len(CrlfDashBoundary) > Len(buf) -> Return(buf) /\ UNCHANGED <<files, state>>
       [] Find(CrlfDashBoundary) < Len(buf) ->
            /\ Write(Find(CrlfDashBoundary))
            /\ Continue(Erased(Find(CrlfDashBoundary) + Len(CrlfDashBoundary)))
            /\ state' = "boundary"
       [] OTHER ->
            /\ Write(Len(buf) - Len(CrlfDashBoundary))
            /\ Return(Erased(Len(buf) - Len(CrlfDashBoundary)))
            /\ UNCHANGED state
  /\ UNCHANGED <<valid, file>>

(* Another entry, or the end: what follows it is erased, and what comes in *)
(* a later call is looked at as if it followed a boundary.                 *)
Boundary ==
  /\ parsing = "loop" /\ state = "boundary"
  /\ CASE IsPrefix(Crlf, buf) ->
            Continue(Erased(Len(Crlf))) /\ state' = "entry" /\ UNCHANGED valid
       [] IsPrefix(DashCrlf, buf) ->
            Continue(<<>>) /\ valid' = TRUE /\ UNCHANGED state
       [] OTHER -> Return(buf) /\ UNCHANGED <<state, valid>>
  /\ UNCHANGED <<file, files>>

ParserStep ==
  \/ InitialBoundary \/ NewEntry \/ Headers \/ HeaderLine \/ HeaderLineMissing
  \/ HeadersEnd \/ Body \/ Boundary

ParserInit ==
  /\ buf = <<>> /\ state = "initial" /\ valid = FALSE
  /\ file = NoFile /\ files = <<>> /\ parsing = "more"

(* Types of the parser: a file has a name only if a header gave it one. *)
ParserTypeOK ==
  /\ state \in {"initial", "entry", "headers", "body", "boundary"}
  /\ valid \in BOOLEAN
  /\ file.name \in Names \cup {""} /\ file.type \in Types \cup {""}
  /\ Len(files) \in 0 .. FileMax
  /\ parsing \in {"loop", "lines", "more", "false"}
=============================================================================
