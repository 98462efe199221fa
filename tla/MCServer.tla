------------------------------ MODULE MCServer ------------------------------
(* Instances of Server for TLC. *)
EXTENDS Server, TLC

(* Numbers on both sides of the ranges of int (32) and ports (8), and one  *)
(* that is not a number; addresses up to one character too long.           *)
Options ==
  [letter : {"n", "p", "P"}, long : {FALSE}, arg : {NotDigits, 0, 3, 20, 33}]
    \cup [letter : {"i"}, long : {TRUE}, arg : [len : {0, 1, 2, 3, 4}, fill : {"a", "b"}]]
    \cup [letter : {"h", "m", "P", "?"}, long : {TRUE}, arg : {5}]

TwoOptions == {<<>>} \cup {<<o>> : o \in Options} \cup {<<o, r>> : o, r \in Options}
=============================================================================
