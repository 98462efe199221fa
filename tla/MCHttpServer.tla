---------------------------- MODULE MCHttpServer ----------------------------
(* Instances of HttpServer for TLC. *)
EXTENDS HttpServer, TLC

CONSTANTS c1, c2

Get == [line |-> "good", method |-> "GET", path |-> "page", version |-> "1.1", closes |-> FALSE,
        ranges |-> <<>>, framing |-> "none", pieces |-> 0, content |-> "plain"]

Post == [Get EXCEPT !.method = "POST", !.framing = "length", !.pieces = 1]

Ranges(r) == [Get EXCEPT !.ranges = r]

Plan(rs, p) == [comes |-> TRUE, requests |-> rs, polite |-> p]

Idle == Plan(<<>>, TRUE)

(* One client with requests of every kind, at most one that the server may *)
(* not read to its end and then another, or two clients.                   *)
ClientPlans ==
  {Plan(<<[Get EXCEPT !.line = "bad"], Get>>, TRUE),
   Plan(<<[Get EXCEPT !.path = "failing"], [Get EXCEPT !.line = "long"]>>, TRUE),
   Plan(<<[Get EXCEPT !.method = "HEAD"], [Get EXCEPT !.method = "TRACE"]>>, TRUE),
   Plan(<<[Get EXCEPT !.path = "unknown"], [Get EXCEPT !.version = "1.0"]>>, TRUE),
   Plan(<<[Get EXCEPT !.closes = TRUE], Get>>, TRUE),
   Plan(<<[Get EXCEPT !.pieces = 1, !.framing = "length"], Get>>, TRUE),
   Plan(<<Post, [Get EXCEPT !.closes = TRUE]>>, TRUE),
   Plan(<<[Post EXCEPT !.content = "encoded"]>>, TRUE),
   Plan(<<[Post EXCEPT !.content = "broken"]>>, TRUE),
   Plan(<<[Post EXCEPT !.content = "large"]>>, TRUE),
   Plan(<<[Post EXCEPT !.framing = "none"]>>, TRUE),
   Plan(<<[Post EXCEPT !.framing = "chunked", !.method = "PRI"]>>, TRUE),
   Plan(<<Ranges(<<<<2, 1>>>>), Ranges(<<<<1, 5>>>>)>>, TRUE),
   Plan(<<Ranges(<<<<-1, 2>>, <<-1, 7>>>>), Ranges(<<<<0, 0>>, <<1, -1>>>>)>>, TRUE),
   Plan(<<Ranges(<<<<-1, 0>>>>), Ranges(<<<<5, -1>>, <<-1, -1>>>>)>>, TRUE),
   Plan(<<Post, Get>>, FALSE)}

OneOrTwo ==
  {[c \in {c1, c2} |-> IF c = c1 THEN p ELSE [Idle EXCEPT !.comes = FALSE]] : p \in ClientPlans}
    \cup {[c \in {c1, c2} |-> IF c = c1 THEN Plan(<<Get>>, TRUE) ELSE Idle]}
=============================================================================
