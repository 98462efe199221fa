---------------------------- MODULE CommandLine ----------------------------
(***************************************************************************)
(* The option loops of the two programs, src/test-client/main.cpp and      *)
(* src/test/main.cpp (the same loop without -i and -m).                    *)
(*                                                                         *)
(* An option is its letter, how it was written and its argument.  Numbers  *)
(* are read by atoi() into an int, whose width is scaled down; addresses   *)
(* are a length and a letter to fill it with.                              *)
(***************************************************************************)
EXTENDS Integers, Sequences, SequencesExt

CONSTANTS
  IntWidth,    \* values of an int: 2^32 in the code
  AddrSize,    \* sizeof ipAddr: 256 in the code
  CommandLines \* the command lines tried: sequences of options

NotDigits == -1         \* an argument that is not a number
Letters   == {"a", "b"} \* what addresses consist of

ASSUME CommandLineAssumption ==
  /\ IntWidth \in Nat \ {0} /\ IntWidth % 2 = 0
  /\ AddrSize \in Nat \ {0, 1}   \* the default address leaves room for its NUL
  /\ \A line \in CommandLines :
       /\ line \in Seq(ToSet(line))
       /\ \A o \in ToSet(line) :
            /\ o.letter \in {"n", "p", "P"} => o.arg \in Nat \cup {NotDigits}
            /\ o.letter = "i" => o.arg \in [len : Nat, fill : Letters]

VARIABLES
  program,  \* "server" (test/) or "client" (test-client/)
  given,    \* its command line
  args,     \* what getopt_long() has not returned yet
  set,      \* the variables the options set
  result    \* "options", "run", "usage" (exit status 0) or "error" (1);
            \* "used" once the settings are not read again

commandLine == <<program, given, args, set, result>>

Nul == "0"   \* a byte of ipAddr that holds no character

DefaultPort == 8090
DefaultCtrl(p) == IF p = "client" THEN 8081 ELSE 8080

(* A faulty variant: ipAddr has no initialiser. *)
UnsetUncleared(p) ==
  [workers |-> IF p = "client" THEN 1 ELSE 10,
   port    |-> 0,
   ctrl    |-> IF p = "client" THEN 8081 ELSE 0,
   addr    |-> [i \in 1 .. AddrSize |-> "b"]]

(* Before the loop.  0 stands for an option not given. *)
Unset(p) ==
  [workers |-> IF p = "client" THEN 1 ELSE 10,
   port    |-> 0,
   ctrl    |-> IF p = "client" THEN 8081 ELSE 0,
   addr    |-> [i \in 1 .. AddrSize |-> Nul]]

CommandLineInit ==
  /\ program \in {"server", "client"}
  /\ given \in CommandLines
  /\ args = given
  /\ set = Unset(program)
  /\ result = "options"

(* The letters getopt_long() knows.  The short options of the client lack  *)
(* m and P, which its usage message names.  (The long names end in a '='   *)
(* and are found as abbreviations.)                                        *)
Known(o) ==
  o.letter \in IF program = "server" THEN {"n", "P", "p", "h"}
               ELSE IF o.long THEN {"n", "P", "p", "h", "m", "i"}
               ELSE {"n", "i", "p", "h"}

Digits(o) == o.arg # NotDigits

(* atoi(), which the build truncates to an int. *)
Atoi(v) == LET m == v % IntWidth IN IF 2 * m >= IntWidth THEN m - IntWidth ELSE m

Number(o) == Digits(o) /\ Atoi(o.arg) > 0

Accepted(o) ==
  CASE o.letter \in {"n", "p"} -> Number(o)
    [] o.letter = "P" -> Digits(o)
    [] o.letter = "i" -> o.arg.len <= AddrSize
    [] OTHER -> TRUE

(* memcpy() without the terminating NUL. *)
Copied(addr, arg) ==
  [i \in 1 .. AddrSize |-> IF i <= arg.len THEN arg.fill ELSE addr[i]]

(* A faulty variant, for the checks: a second -n, -p or -P does not count. *)
StoredOnce(o) ==
  CASE o.letter = "n" -> [set EXCEPT !.workers = IF @ = Unset(program).workers THEN Atoi(o.arg) ELSE @]
    [] o.letter = "p" -> [set EXCEPT !.port = IF @ = 0 THEN Atoi(o.arg) ELSE @]
    [] o.letter = "P" -> [set EXCEPT !.ctrl = Atoi(o.arg)]
    [] o.letter = "i" -> [set EXCEPT !.addr = Copied(@, o.arg)]
    [] OTHER -> set

Stored(o) ==
  CASE o.letter = "n" -> [set EXCEPT !.workers = Atoi(o.arg)]
    [] o.letter = "p" -> [set EXCEPT !.port = Atoi(o.arg)]
    [] o.letter = "P" -> [set EXCEPT !.ctrl = Atoi(o.arg)]
    [] o.letter = "i" -> [set EXCEPT !.addr = Copied(@, o.arg)]
    [] OTHER -> set

(* One turn of the loop. *)
Option ==
  /\ result = "options" /\ args # <<>>
  /\ args' = Tail(args)
  /\ LET o == Head(args) IN
       IF ~Known(o) \/ o.letter = "h"
         THEN result' = "usage" /\ UNCHANGED set
         ELSE IF Accepted(o) THEN set' = Stored(o) /\ UNCHANGED result
                             ELSE result' = "error" /\ UNCHANGED set
  /\ UNCHANGED <<program, given>>

DefaultAddr == [len |-> 1, fill |-> "d"]   \* 127.0.0.1

(* After the loop: what was not given gets its default. *)
Defaults ==
  /\ result = "options" /\ args = <<>>
  /\ set' = [set EXCEPT
       !.port = IF @ = 0 THEN DefaultPort ELSE @,
       !.ctrl = IF program = "server" /\ @ = 0 THEN DefaultCtrl(program) ELSE @,
       !.addr = IF @[1] = Nul THEN Copied(@, DefaultAddr) ELSE @]
  /\ result' = "run"
  /\ UNCHANGED <<program, given, args>>

ReadCommandLine == Option \/ Defaults

-----------------------------------------------------------------------------

(* Types of what main() reads from its command line. *)
CommandLineTypeOK ==
  /\ program \in {"server", "client"}
  /\ given \in CommandLines \cup {<<>>} /\ IsSuffix(args, given)
  /\ set \in [workers : Int, port : Int, ctrl : Int,
              addr : [1 .. AddrSize -> Letters \cup {Nul, DefaultAddr.fill}]]
  /\ result \in {"options", "run", "usage", "error", "used"}

(* Where the options with a letter are, and the argument of the last one. *)
Positions(letter) == {i \in DOMAIN given : given[i].letter = letter}
LastArg(letter) == given[Max(Positions(letter))].arg

(* The loop, taken as a whole: a program runs only with a positive number  *)
(* of workers and a positive port, the port the last -p named (modulo the  *)
(* width of an int) or the default, and the client with the number of      *)
(* clients the last -n named.  A number that wraps to a positive one is    *)
(* taken, and a port above 65535 is not refused.  Nothing is said of the   *)
(* server's -n, "maximum number of clients" in its usage message           *)
(* (test/main.cpp 25) and the number of workers in its code, nor of the    *)
(* default the client's message names (8081; the code has 1).              *)
RunsAsAsked ==
  result = "run" =>
    /\ \A i \in DOMAIN given : Known(given[i]) /\ given[i].letter # "h"
    /\ set.workers > 0 /\ set.port > 0
    /\ program = "client" /\ Positions("n") # {} => set.workers = Atoi(LastArg("n"))
    /\ set.port = IF Positions("p") = {} THEN DefaultPort ELSE Atoi(LastArg("p"))

(* The address worker() connects to ends within its buffer exactly if each *)
(* address given is shorter than the buffer: the option loop takes one     *)
(* that fills it, and worker() reads on behind it.  Given once at most, it *)
(* is the address in the buffer; of two the longer shows behind the        *)
(* shorter.                                                                *)
AddressTerminated ==
  result = "run" =>
    /\ (\E b \in 1 .. AddrSize : set.addr[b] = Nul)
         <=> (\A i \in Positions("i") : given[i].arg.len < AddrSize)
    /\ (\A i, j \in Positions("i") : i = j) =>
         LET want == IF Positions("i") = {} \/ LastArg("i").len = 0
                       THEN DefaultAddr ELSE LastArg("i")
         IN \A b \in 1 .. AddrSize : set.addr[b] = IF b <= want.len THEN want.fill ELSE Nul
=============================================================================
