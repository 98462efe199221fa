------------------------------ MODULE HttpForm ------------------------------
(***************************************************************************)
(* How the HTTP library of the control panels reads a form that a client   *)
(* posts, in whatever pieces the network delivers it: read_headers() and   *)
(* Server::read_content() with the receivers it gives to the readers of    *)
(* content (src/test-client/http/httplib.hpp 5351-5450).  HttpConnection   *)
(* calls what comes of it content "plain", "broken" or "large".            *)
(*                                                                         *)
(* A form is "multipart", with files and perhaps a preamble, an epilogue   *)
(* and an oversized header, or "urlencoded", with fields.  Its request has *)
(* header lines, each with a name, a value and its end, CRLF or LF.        *)
(***************************************************************************)
EXTENDS Multipart, HttpHeaders

CONSTANTS
  Forms,        \* what clients post
  PayloadMax    \* CPPHTTPLIB_FORM_URL_ENCODED_PAYLOAD_MAX_LENGTH

ContentType == <<67>>

(* A header line has one colon that counts, and a value without blanks     *)
(* around it or escapes in it; one without its CR is a line of other text. *)
HeaderLines ==
  {l \in [name  : Seq((0 .. 255) \ {CR, LF, Colon}),
          value : Seq((0 .. 255) \ {CR, LF, Percent}),
          end   : {<<CR, LF>>, <<LF>>}] :
     l.value # <<>> => l.value[1] \notin Blanks /\ Last(l.value) \notin Blanks}

Occurs(text, s) == \E i \in 0 .. Len(s) : IsPrefix(text, SubSeq(s, i + 1, Len(s)))

(* A file has no boundary in it, and no other line passes for one of those *)
(* with its name or its type.                                              *)
Files ==
  {f \in [name : Names, type : Types \cup {""}, extra : Seq(Chars \ {"cr", "lf"}),
          content : Seq(Chars)] :
     /\ f.extra # <<>> => f.extra[1] \notin Names \cup Types
     /\ ~Occurs(CrlfDashBoundary, f.content)}

MultipartForms ==
  {f \in [kind : {"multipart"}, lines : Seq(HeaderLines), preamble : Seq(Chars),
          files : Seq(Files), epilogue : Seq(Chars)] :
     f.files # <<>> /\ ~Occurs(DashBoundaryCrlf, f.preamble)}

(* A form of fields does not say that it has files. *)
SaysFiles(l) ==
  /\ l.name = ContentType /\ l.end = <<CR, LF>>
  /\ l.value # <<77>> /\ IsPrefix(<<77>>, l.value)

CodeMax == 65535   \* of four hexadecimal digits

(* A field without a name is not sent. *)
NamesAndValues == (Seq(0 .. CodeMax) \ {<<>>}) \X Seq(0 .. CodeMax)

FieldForms == [kind : {"urlencoded"}, lines : Seq(HeaderLines), fields : Seq(NamesAndValues)]

QueryForms == {f \in FieldForms : \A i \in DOMAIN f.lines : ~SaysFiles(f.lines[i])}

ASSUME FormsAssumption == Forms \subseteq MultipartForms \cup QueryForms

ASSUME PayloadAssumption == PayloadMax \in Nat

VARIABLES
  form,      \* the one that is posted
  unread,    \* the part of its content that has not been read
  body,      \* req.body
  params,    \* req.params
  status,    \* res.status, -1 while undecided; 200 if the form was read
  cut        \* history: a read ended inside the first boundary, or
             \* after the last one and before the end

request == <<form, body, params, status>>
vars    == <<parser, reader, request, unread, cut>>

-----------------------------------------------------------------------------
(* Clients.                                                                *)

LineText(l) == l.name \o <<Colon, Space>> \o l.value \o l.end

HeadText(f) == FlattenSeq([i \in DOMAIN f.lines |-> LineText(f.lines[i])]) \o <<CR, LF>>

FileText(f) ==
  <<f.name>> \o Crlf \o (IF f.type = "" THEN <<>> ELSE <<f.type>> \o Crlf)
    \o f.extra \o (IF f.extra = <<>> THEN <<>> ELSE Crlf) \o Crlf \o f.content

MultipartText(f) ==
  f.preamble \o DashBoundaryCrlf
    \o FlattenSeq([i \in DOMAIN f.files |->
         (IF i = 1 THEN <<>> ELSE CrlfDashBoundary \o Crlf) \o FileText(f.files[i])])
    \o CrlfDashBoundary \o DashCrlf \o f.epilogue

ContentText(f) == IF f.kind = "multipart" THEN MultipartText(f) ELSE QueryText(f.fields)

(* The read that leaves this much of the text cuts it where it must not.   *)
CutsAt(left) ==
  LET read == Len(ContentText(form)) - left
      first == Len(form.preamble)
  IN /\ form.kind = "multipart"
     /\ \/ read \in first + 1 .. first + Len(DashBoundaryCrlf) - 1
        \/ left \in 1 .. Len(form.epilogue)

-----------------------------------------------------------------------------
(* Server::read_content.                                                   *)

(* What the Content-Type says: "M" is multipart/form-data, with or without *)
(* a boundary, "U" application/x-www-form-urlencoded.                      *)
IsMultipart  == IsPrefix(<<77>>, HeaderValue(ContentType))
HasBoundary  == Len(HeaderValue(ContentType)) > 1
IsUrlEncoded == IsPrefix(<<85>>, HeaderValue(ContentType))

Reading ==
  /\ reading = "true" /\ status = -1 /\ parsing \in {"more", "false"}
  /\ IsMultipart => HasBoundary

(* The request has no headers, or the form no boundary. *)
HeadFails ==
  /\ status = -1
  /\ reading = "false" \/ (reading = "true" /\ IsMultipart /\ ~HasBoundary)
  /\ status' = 400
  /\ UNCHANGED <<parser, reader, form, unread, body, params, cut>>

(* A read() of the content, whose bytes go to the receiver of the form. *)
Read(n) ==
  /\ Reading /\ parsing = "more"
  /\ unread' = SubSeq(unread, n + 1, Len(unread))
  /\ IF IsMultipart
       THEN Parse(SubSeq(unread, 1, n)) /\ UNCHANGED body
       ELSE body' = body \o SubSeq(unread, 1, n) /\ UNCHANGED parser
  /\ cut' = (cut \/ CutsAt(Len(unread) - n))
  /\ UNCHANGED <<reader, form, params, status>>

(* The parser refuses the form, or the rest of it is not sent in time. *)
ReadFails ==
  /\ Reading /\ (parsing = "false" \/ unread # <<>>)
  /\ status' = 400
  /\ UNCHANGED <<parser, reader, form, unread, body, params, cut>>

(* The content has been read: whether it was a form. *)
ReadEnds ==
  /\ Reading /\ parsing = "more" /\ unread = <<>>
  /\ CASE IsMultipart -> status' = (IF valid THEN 200 ELSE 400) /\ UNCHANGED params
       [] IsUrlEncoded /\ Len(body) > PayloadMax -> status' = 413 /\ UNCHANGED params
       [] IsUrlEncoded /\ Len(body) <= PayloadMax ->
            status' = 200 /\ params' = ParseQueryText(body)
       [] OTHER -> status' = 200 /\ UNCHANGED params
  /\ UNCHANGED <<parser, reader, form, unread, body, cut>>

Init ==
  /\ form \in Forms
  /\ ReaderInit(HeadText(form)) /\ ParserInit
  /\ unread = ContentText(form)
  /\ body = <<>> /\ params = <<>>
  /\ status = -1 /\ cut = FALSE

Next ==
  \/ \E n \in DOMAIN unread : Read(n)
  \/ HeadFails \/ ReadFails \/ ReadEnds
  \/ ReaderStep /\ UNCHANGED <<parser, request, unread, cut>>
  \/ ParserStep /\ UNCHANGED <<reader, request, unread, cut>>

Spec == Init /\ [][Next]_vars

-----------------------------------------------------------------------------

(* Types of the form that is read. *)
TypeOK ==
  /\ ParserTypeOK /\ ReaderTypeOK
  /\ form \in Forms
  /\ IsSuffix(unread, ContentText(form))
  /\ status \in {-1, 200, 400, 413}
  /\ cut \in BOOLEAN

HeaderOf(l) == IF l.end = <<CR, LF>> /\ l.value # <<>> THEN <<<<l.name, l.value>>>> ELSE <<>>

(* A header line is read as it was sent, however long it is; one that does *)
(* not end in CRLF or has no value is left out.                            *)
HeadersIntact ==
  reading = "true" => headers = FlattenSeq([i \in DOMAIN form.lines |-> HeaderOf(form.lines[i])])

(* What the request says of its content, in a line that ends as it should. *)
Announced(f) ==
  LET types == {i \in DOMAIN f.lines : /\ f.lines[i].name = ContentType
                                        /\ f.lines[i].end = <<CR, LF>> /\ f.lines[i].value # <<>>}
  IN /\ types # {}
     /\ f.lines[Min(types)].value = (IF f.kind = "multipart" THEN <<77, 66>> ELSE <<85>>)

SentFile(f) == [name |-> f.name, type |-> f.type, content |-> f.content]

(* However the text is cut into reads, the files are those of the form, in *)
(* its order, the last perhaps not whole.  Only a read that ends inside    *)
(* the first boundary makes the parser lose files, and one that ends       *)
(* before the epilogue may make it see more.                               *)
FilesIntact ==
  files # <<>> /\ ~cut =>
    /\ Len(files) <= Len(form.files)
    /\ \A i \in DOMAIN files :
         LET sent == SentFile(form.files[i]) IN
           /\ files[i].name = sent.name /\ files[i].type = sent.type
           /\ IsPrefix(files[i].content, sent.content)
           /\ i < Len(files) => files[i].content = sent.content

(* What reading keeps true of the headers, the files and their types. *)
Consistent == TypeOK /\ HeadersIntact /\ FilesIntact

(* The names and the values of a form, without the surrogates in them; a   *)
(* field that is there twice is read once.                                 *)
Proper(codes) ==
  FlattenSeq([i \in DOMAIN codes |-> IF codes[i] \in 55296 .. 57343 THEN <<>> ELSE <<codes[i]>>])

FieldsOf(f) ==
  LET twice(i) == \E k \in 1 .. i - 1 : f.fields[k] = f.fields[i]
  IN FlattenSeq([i \in DOMAIN f.fields |->
       IF twice(i) THEN <<>> ELSE <<<<Proper(f.fields[i][1]), Proper(f.fields[i][2])>>>>])

FieldsRead ==
  [i \in DOMAIN params |-> <<Characters(params[i][1]), Characters(params[i][2])>>]

Oversized(f) ==
  \/ \E i \in DOMAIN f.lines : Len(LineText(f.lines[i])) > LineMax
  \/ f.kind = "urlencoded" /\ Len(ContentText(f)) > PayloadMax
  \/ f.kind = "multipart" /\
       (Len(f.files) > FileMax \/ \E i \in DOMAIN f.files : Len(f.files[i].extra) >= HeaderMax)

(* A form is accepted whole or not at all, and refused only if it did not  *)
(* come to its end, is over a limit, was not announced, or was cut where   *)
(* it must not be: the files have their content, and the fields the        *)
(* characters the client escaped.                                          *)
FormReadBack ==
  /\ status = 200 /\ Announced(form) /\ ~cut =>
       IF form.kind = "multipart"
         THEN files = [i \in DOMAIN form.files |-> SentFile(form.files[i])]
         ELSE FieldsRead = FieldsOf(form)
  /\ status \in {400, 413} =>
       \/ stream # <<>> \/ (unread # <<>> /\ parsing # "false")
       \/ cut \/ Oversized(form) \/ ~Announced(form)
=============================================================================
