---------------------------- MODULE AtomicStack ----------------------------
(***************************************************************************)
(* comm::atomic_stack (src/atomic_stack.hpp): the lock-free linked list    *)
(* that holds the unused client slots.  One action per atomic access of    *)
(* the shared head_, so that the steps of concurrent push() and pop()      *)
(* calls interleave as the code lets them.                                 *)
(*                                                                         *)
(* In the library worker threads push (client_pool::unuse) and the one     *)
(* server thread pops (client_pool::use), hence two sets of threads.  The  *)
(* configurations have one popper, as the library does.                    *)
(*                                                                         *)
(* Node i stands for &buffer_[i - 1] and Null for nullptr.                 *)
(***************************************************************************)
EXTENDS Naturals

CONSTANTS
  Capacity,   \* capacity_, after create() rounded it up
  Pushers,    \* threads that call push()
  Poppers     \* threads that call pop()

ASSUME StackAssumption ==
  /\ Capacity \in Nat \ {0}
  /\ Pushers \cap Poppers = {}

VARIABLES
  head,   \* head_
  next,   \* the next pointer of every node
  pc,     \* where each thread is
  node,   \* newHead of a pushing thread, oldHead of a popping one
  succ,   \* oldHead->next, evaluated before the exchange of a pop
  out     \* nodes popped, and not passed to push() since

stackVars == <<head, next, pc, node, succ, out>>

Null    == 0
Nodes   == 1 .. Capacity
Threads == Pushers \cup Poppers

-----------------------------------------------------------------------------

(* The list create() builds: buffer_[0] at the bottom, each later node on  *)
(* top of the one before it, head_ at the last.                            *)
StackInit ==
  /\ head = Capacity
  /\ next = [n \in Nodes |-> n - 1]
  /\ pc   = [t \in Threads |-> "idle"]
  /\ node = [t \in Threads |-> Null]
  /\ succ = [t \in Threads |-> Null]
  /\ out  = {}

(* push(), up to the first exchange: newHead->next = head_.load().  The    *)
(* store goes to a node that belongs to the caller, so load and store are  *)
(* one step.                                                               *)
PushBegin(t, n) ==
  /\ pc[t] = "idle"
  /\ n \in out
  /\ out'  = out \ {n}
  /\ node' = [node EXCEPT ![t] = n]
  /\ next' = [next EXCEPT ![n] = head]
  /\ pc'   = [pc EXCEPT ![t] = "push"]
  /\ UNCHANGED <<head, succ>>

(* A faulty variant, for the checks: a plain store instead of an exchange. *)
PushStores(t) ==
  /\ pc[t] = "push"
  /\ head' = node[t]
  /\ pc'   = [pc EXCEPT ![t] = "idle"]
  /\ UNCHANGED <<next, node, succ, out>>

(* The exchange of push() succeeds: the node is the new top. *)
PushCasOk(t) ==
  /\ pc[t] = "push"
  /\ head = next[node[t]]
  /\ head' = node[t]
  /\ pc'   = [pc EXCEPT ![t] = "idle"]
  /\ UNCHANGED <<next, node, succ, out>>

(* A faulty variant: newHead->next is not updated before the next try. *)
PushRetriesBlindly(t) ==
  /\ pc[t] = "push"
  /\ head # next[node[t]]
  /\ UNCHANGED stackVars

(* The exchange of push() fails and stores the head it saw in              *)
(* newHead->next.  A spurious failure stores the value that is already     *)
(* there and changes nothing.                                              *)
PushCasFail(t) ==
  /\ pc[t] = "push"
  /\ head # next[node[t]]
  /\ next' = [next EXCEPT ![node[t]] = head]
  /\ UNCHANGED <<head, pc, node, succ, out>>

PushCas(t) == PushCasOk(t) \/ PushCasFail(t)

(* A faulty variant: oldHead is not tested. *)
PopSeesUntested(t, h) ==
  /\ node' = [node EXCEPT ![t] = h]
  /\ pc'   = [pc EXCEPT ![t] = "popNext"]

(* pop() has loaded the head, at its start or through a failed exchange:   *)
(* it returns nullptr when the stack is empty, and goes on otherwise.      *)
PopSees(t, h) ==
  /\ node' = [node EXCEPT ![t] = h]
  /\ pc'   = [pc EXCEPT ![t] = IF h = Null THEN "idle" ELSE "popNext"]

PopBegin(t) ==
  /\ pc[t] = "idle"
  /\ PopSees(t, head)
  /\ UNCHANGED <<head, next, succ, out>>

(* The third argument of the exchange, oldHead->next, is read before it. *)
PopReadNext(t) ==
  /\ pc[t] = "popNext"
  /\ succ' = [succ EXCEPT ![t] = next[node[t]]]
  /\ pc'   = [pc EXCEPT ![t] = "popCas"]
  /\ UNCHANGED <<head, next, node, out>>

(* A faulty variant: the new head is returned instead of the old one. *)
PopReturnsNewHead(t) ==
  /\ pc[t] = "popCas"
  /\ head = node[t]
  /\ head' = succ[t]
  /\ out'  = out \cup {succ[t]}
  /\ pc'   = [pc EXCEPT ![t] = "idle"]
  /\ UNCHANGED <<next, node, succ>>

(* The exchange compares pointers only: head_ still (or again) oldHead. *)
PopCasOk(t) ==
  /\ pc[t] = "popCas"
  /\ head = node[t]
  /\ head' = succ[t]
  /\ out'  = out \cup {node[t]}
  /\ pc'   = [pc EXCEPT ![t] = "idle"]
  /\ UNCHANGED <<next, node, succ>>

(* Faulty variants: oldHead->next is read once only, before the loop, or   *)
(* oldHead is not updated before the next try.                             *)
PopKeepsSucc(t) ==
  /\ pc[t] = "popCas"
  /\ head # node[t]
  /\ head # Null
  /\ node' = [node EXCEPT ![t] = head]
  /\ UNCHANGED <<head, next, pc, succ, out>>

PopRetriesBlindly(t) ==
  /\ pc[t] = "popCas"
  /\ head # node[t]
  /\ pc' = [pc EXCEPT ![t] = "popNext"]
  /\ UNCHANGED <<head, next, node, succ, out>>

(* head_ moved: the failed exchange stores its new value in oldHead. *)
PopCasFail(t) ==
  /\ pc[t] = "popCas"
  /\ head # node[t]
  /\ PopSees(t, head)
  /\ UNCHANGED <<head, next, succ, out>>

(* A weak exchange may fail although head_ is oldHead. *)
PopCasSpurious(t) ==
  /\ pc[t] = "popCas"
  /\ head = node[t]
  /\ PopSees(t, head)
  /\ UNCHANGED <<head, next, succ, out>>

PopCas(t) == PopCasOk(t) \/ PopCasFail(t)

Push(t) == (\E n \in out : PushBegin(t, n)) \/ PushCas(t)
Pop(t)  == PopBegin(t) \/ PopReadNext(t) \/ PopCas(t) \/ PopCasSpurious(t)

StackNext ==
  \/ \E t \in Pushers : Push(t)
  \/ \E t \in Poppers : Pop(t)

StackSpec == StackInit /\ [][StackNext]_stackVars

(* The operating system runs every thread that is inside a call, and a     *)
(* weak exchange does not fail spuriously for ever.  Nothing obliges a     *)
(* thread to start a call.                                                 *)
StackFairness ==
  /\ \A t \in Pushers : WF_stackVars(PushCas(t))
  /\ \A t \in Poppers : WF_stackVars(PopReadNext(t)) /\ SF_stackVars(PopCas(t))

StackFairSpec == StackSpec /\ StackFairness

-----------------------------------------------------------------------------

(* Types: head_ and every next pointer of push() and pop() stay in the list. *)
StackTypeOK ==
  /\ head \in Nodes \cup {Null}
  /\ next \in [Nodes -> Nodes \cup {Null}]
  /\ pc   \in [Threads -> {"idle", "push", "popNext", "popCas"}]
  /\ \A t \in Pushers : pc[t] \in {"idle", "push"}
  /\ \A t \in Poppers : pc[t] \in {"idle", "popNext", "popCas"}
  /\ node \in [Threads -> Nodes \cup {Null}]
  /\ \A t \in Threads : pc[t] # "idle" => node[t] \in Nodes
  /\ succ \in [Threads -> Nodes \cup {Null}]
  /\ out  \subseteq Nodes

(* Nodes given to a push() whose exchange has not succeeded. *)
InTransit == {node[t] : t \in {u \in Pushers : pc[u] = "push"}}

(* s lists the linked list from the bottom to head_, each node once. *)
IsChain(s, k) ==
  /\ head = IF k = 0 THEN Null ELSE s[k]
  /\ \A i \in 1 .. k : next[s[i]] = IF i = 1 THEN Null ELSE s[i - 1]
  /\ \A i, j \in 1 .. k : s[i] = s[j] => i = j

(* No slot is lost and none has two owners: following next from head_ is a *)
(* finite walk over distinct nodes, and every node is either on it, or     *)
(* popped, or in the hands of exactly one push.                            *)
Conservation ==
  /\ \E k \in 0 .. Capacity : \E s \in [1 .. k -> Nodes] :
       /\ IsChain(s, k)
       /\ \A n \in Nodes :
            (n \notin out /\ n \notin InTransit) <=> \E i \in 1 .. k : s[i] = n
  /\ out \cap InTransit = {}
  /\ \A t, u \in Pushers :
       pc[t] = "push" /\ pc[u] = "push" /\ node[t] = node[u] => t = u

(* While a pop is under way the node it took for the top stays in the      *)
(* stack, and the successor it read stays its successor: a compare of the  *)
(* pointer alone is enough, the ABA problem does not arise.                *)
PopSnapshotValid ==
  \A t \in Poppers :
    pc[t] # "idle" =>
      /\ node[t] \notin out \cup InTransit
      /\ pc[t] = "popCas" => succ[t] = next[node[t]]

(* The stack is the pool's free list: a pop hands out a slot that nobody   *)
(* owned, a push returns a slot its caller owned.                          *)
FL == INSTANCE FreeList WITH
        Slots <- Nodes,
        free  <- Nodes \ (out \cup InTransit)

ImplementsFreeList == FL!Spec

(* Every pop() returns, however the pushers interfere: pushes that get in  *)
(* its way use up nodes that only the pop itself can hand out again.       *)
PopReturns == \A t \in Poppers : pc[t] # "idle" ~> pc[t] = "idle"

(* push() is lock-free: one that never returns is overtaken for ever, it   *)
(* does not spin on a head_ that has stopped moving.                       *)
PushLockFree ==
  \A t \in Pushers : <>[](pc[t] = "push") => []<><<head' # head>>_stackVars

(* What every push() and pop() relies on, at each of its steps. *)
StackConsistent == StackTypeOK /\ PopSnapshotValid

(* No interference keeps the stack from moving on. *)
Progress == PopReturns /\ PushLockFree
=============================================================================
