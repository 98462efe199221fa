------------------------------ MODULE FreeList ------------------------------
(***************************************************************************)
(* What client_pool relies on when it calls freeMem_.pop() and             *)
(* freeMem_.push() (src/pool.hpp, use() and unuse()): a set of slots, each *)
(* of which is free, handed out, or on its way back.  No slot is handed    *)
(* out twice and none is lost.  The order in which free slots come back    *)
(* does not matter to the pool, so this module says nothing of it.         *)
(***************************************************************************)

CONSTANT Slots

VARIABLES
  free,     \* slots a pop may return
  out       \* slots handed out by a pop and not yet given to a push

flVars == <<free, out>>

(* The slots given to a push that has not taken effect yet. *)
Returning == Slots \ (free \cup out)

Init ==
  /\ free = Slots
  /\ out = {}

(* A pop takes effect: a free slot gets its one owner. *)
Alloc(s) ==
  /\ s \in free
  /\ free' = free \ {s}
  /\ out'  = out \cup {s}

(* The owner gives its slot up by calling push. *)
GiveBack(s) ==
  /\ s \in out
  /\ out' = out \ {s}
  /\ UNCHANGED free

(* The push takes effect: the slot is free again. *)
Free(s) ==
  /\ s \in Returning
  /\ free' = free \cup {s}
  /\ UNCHANGED out

Next == \E s \in Slots : Alloc(s) \/ GiveBack(s) \/ Free(s)

Spec == Init /\ [][Next]_flVars
=============================================================================
