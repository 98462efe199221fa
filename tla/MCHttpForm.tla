----------------------------- MODULE MCHttpForm -----------------------------
(* Instances of HttpForm for TLC. *)
EXTENDS HttpForm, TLC

HeaderSent(name, value, end) == [name |-> name, value |-> value, end |-> end]

TypeLine(value) == HeaderSent(ContentType, value, <<CR, LF>>)

File(name, type, content) ==
  [name |-> name, type |-> type, extra |-> <<>>, content |-> content]

Multi(preamble, fs, epilogue) ==
  [kind |-> "multipart", lines |-> <<TypeLine(<<77, 66>>)>>,
   preamble |-> preamble, files |-> fs, epilogue |-> epilogue]

Fields(fs) == [kind |-> "urlencoded", lines |-> <<TypeLine(<<85>>)>>, fields |-> fs]

(* Contents that look like a boundary, empty ones, headers over the limit, *)
(* more files than allowed.                                                *)
PostedFiles ==
  {Multi(<<>>, <<File("a", "t", <<"cr", "lf", "-", "-", "x">>), File("b", "", <<>>)>>, <<>>),
   Multi(<<"x", "cr", "lf">>, <<File("a", "", <<"cr", "cr", "lf", "-">>)>>, <<"x">>),
   Multi(<<>>, <<File("a", "t", <<"x">>)>>, <<"cr", "lf", "cr", "lf">>),
   Multi(<<"-">>, <<File("a", "t", <<"x">>)>>, <<"x", "cr", "lf", "cr", "lf">>),
   Multi(<<>>, <<File("a", "t", <<"x">>),
                 [File("b", "", <<"-">>) EXCEPT !.extra = <<"x", "x", "x">>]>>, <<>>),
   Multi(<<>>, <<[File("b", "", <<"-">>) EXCEPT !.extra = <<"x", "x">>]>>, <<>>),
   Multi(<<>>, <<File("a", "", <<>>), File("b", "", <<>>), File("a", "", <<>>)>>, <<>>)}

(* Characters at the limits of each length of UTF-8, those that separate,  *)
(* fields twice, without a value, of the same name, over the limit.        *)
PostedFields ==
  {Fields(<<<<<<97>>, <<c>>>>>>) : c \in {37, 127, 128, 2047, 2048, 55295, 55296, 57343, 57344, 65535}}
    \cup {Fields(<<<<<<32, 97>>, <<61, 38>>>>, <<<<98>>, <<>>>>, <<<<98>>, <<43>>>>>>),
          Fields(<<<<<<97>>, <<98>>>>, <<<<97>>, <<98>>>>>>),
          Fields(<<<<<<97>>, <<2048, 2048, 2048, 2048>>>>>>)}

Small == Fields(<<<<<<97>>, <<98>>>>>>)

(* Lines as long as the fixed buffer, and longer, one over the limit, one  *)
(* without its CR, one without a value, no boundary.                       *)
PostedHeaders ==
  {[Small EXCEPT !.lines = <<HeaderSent(<<88>>, v, <<CR, LF>>), TypeLine(<<85>>)>>] :
     v \in {[i \in 1 .. n |-> 97 + i] : n \in {0, 1, 2, 3, 6, 7}}}
    \cup {[Small EXCEPT !.lines = <<HeaderSent(ContentType, <<77>>, <<LF>>), TypeLine(<<85>>)>>],
          [Small EXCEPT !.lines = <<HeaderSent(ContentType, <<85>>, <<LF>>)>>],
          [Multi(<<>>, <<File("a", "", <<>>)>>, <<>>) EXCEPT !.lines = <<TypeLine(<<77>>)>>]}

AllForms == PostedFiles \cup PostedFields \cup PostedHeaders
=============================================================================
