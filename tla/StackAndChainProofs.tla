------------------------ MODULE StackAndChainProofs ------------------------
(***************************************************************************)
(* Proofs about the two algorithms client_pool is built on: the lock-free  *)
(* stack of unused slots (AtomicStack), for any capacity and any number of *)
(* pushing threads, and the exit message that wakes the workers one by one *)
(* (ShutdownChain), for any number of workers and callers.                 *)
(*                                                                         *)
(* What goes beyond types needs, of the stack, the hypothesis the library  *)
(* meets and the class does not ask for: one thread pops.  Of the chain,   *)
(* part of the invariant holds always, part of it until epoll_wait fails:  *)
(* a worker that leaves through that error breaks the counter the chain    *)
(* relies on.                                                              *)
(***************************************************************************)
EXTENDS AtomicStack, ShutdownChain, FiniteSetTheorems, TLAPS

-----------------------------------------------------------------------------
(***************************************************************************)
(* The stack.                                                              *)

(* server_pool has one server thread, and only that thread calls use(). *)
SinglePopper == \A t, u \in Poppers : t = u

-----------------------------------------------------------------------------
(* Every variable keeps its type, with any number of poppers: no exchange  *)
(* stores anything but a node or nullptr.                                  *)

LEMMA StackTypeStep == StackTypeOK /\ [StackNext]_stackVars => StackTypeOK'
<1> SUFFICES ASSUME StackTypeOK, [StackNext]_stackVars PROVE StackTypeOK'
  OBVIOUS
<1> USE StackAssumption DEF StackTypeOK, Nodes, Null, Threads
<1>1. ASSUME NEW t \in Pushers, NEW n \in out, PushBegin(t, n) PROVE StackTypeOK'
  BY <1>1 DEF PushBegin
<1>2. ASSUME NEW t \in Pushers, PushCasOk(t) PROVE StackTypeOK'
  BY <1>2 DEF PushCasOk
<1>3. ASSUME NEW t \in Pushers, PushCasFail(t) PROVE StackTypeOK'
  BY <1>3 DEF PushCasFail
<1>4. ASSUME NEW t \in Poppers, PopSees(t, head),
             UNCHANGED <<head, next, succ, out>>
      PROVE  StackTypeOK'
  BY <1>4 DEF PopSees
<1>5. ASSUME NEW t \in Poppers, PopReadNext(t) PROVE StackTypeOK'
  BY <1>5 DEF PopReadNext
<1>6. ASSUME NEW t \in Poppers, PopCasOk(t) PROVE StackTypeOK'
  BY <1>6 DEF PopCasOk
<1>7. CASE UNCHANGED stackVars
  BY <1>7 DEF stackVars
<1> QED
  BY <1>1, <1>2, <1>3, <1>4, <1>5, <1>6, <1>7
  DEF StackNext, Push, PushCas, Pop, PopBegin, PopCas, PopCasFail, PopCasSpurious

THEOREM StackTypeCorrect == StackSpec => []StackTypeOK
<1>1. StackInit => StackTypeOK
  BY StackAssumption DEF StackInit, StackTypeOK, Nodes, Null, Threads
<1> QED
  BY <1>1, StackTypeStep, PTL DEF StackSpec

-----------------------------------------------------------------------------
(* The linked list.                                                        *)

(* s lists the stack, and the list holds just the nodes nobody owns. *)
Lists(s, k) ==
  /\ IsChain(s, k)
  /\ \A n \in Nodes :
       (n \notin out /\ n \notin InTransit) <=> \E i \in 1 .. k : s[i] = n

(* Distinct nodes in a row are at most as many as there are nodes. *)
LEMMA ChainFits ==
  ASSUME NEW k \in Nat, NEW s \in [1 .. k -> Nodes],
         \A i, j \in 1 .. k : s[i] = s[j] => i = j
  PROVE  k <= Capacity
<1>1. s \in Injection(1 .. k, Nodes)
  BY DEF Injection, IsInjective
<1>2. IsFiniteSet(Nodes) /\ Cardinality(Nodes) = Capacity
  BY FS_Interval, StackAssumption DEF Nodes
<1>3. Cardinality(1 .. k) = k
  BY FS_Interval
<1>4. Cardinality(1 .. k) <= Cardinality(Nodes)
  BY <1>1, <1>2, FS_Injection
<1> QED
  BY <1>2, <1>3, <1>4

(* What the steps of a push do to the set of nodes in transit. *)
LEMMA TransitOfPushBegin ==
  ASSUME StackTypeOK, NEW t \in Pushers, NEW n \in out, PushBegin(t, n)
  PROVE  InTransit' = InTransit \cup {n}
BY StackAssumption DEF StackTypeOK, PushBegin, InTransit, Threads

LEMMA TransitOfPushCasOk ==
  ASSUME StackTypeOK, Conservation, NEW t \in Pushers, PushCasOk(t)
  PROVE  /\ node[t] \in InTransit
         /\ InTransit' = InTransit \ {node[t]}
<1>1. \A u \in Pushers : u # t /\ pc[u] = "push" => node[u] # node[t]
  BY DEF Conservation, PushCasOk
<1>2. \A u \in Pushers : pc'[u] = "push" <=> u # t /\ pc[u] = "push"
  BY DEF StackTypeOK, PushCasOk, Threads
<1> QED
  BY <1>1, <1>2 DEF StackTypeOK, PushCasOk, InTransit, Threads

LEMMA TransitOfPop ==
  ASSUME StackTypeOK, NEW t \in Poppers,
         \A u \in Threads : u # t => pc'[u] = pc[u] /\ node'[u] = node[u]
  PROVE  InTransit' = InTransit
BY StackAssumption DEF StackTypeOK, InTransit, Threads

-----------------------------------------------------------------------------
(* The inductive invariant.  Conservation alone is not inductive: that an  *)
(* exchange of a pop installs the right successor is PopSnapshotValid, and *)
(* that in turn needs the node to be in the list.                          *)

StackInv == StackTypeOK /\ Conservation /\ PopSnapshotValid

LEMMA StackStarts == StackInit => StackInv
<1> SUFFICES ASSUME StackInit PROVE StackInv
  OBVIOUS
<1> USE StackAssumption DEF StackInit, Nodes, Null, Threads
<1>1. StackTypeOK
  BY DEF StackTypeOK
<1>2. InTransit = {}
  BY DEF InTransit
<1>3. PopSnapshotValid
  BY DEF PopSnapshotValid
<1>4. Conservation
  <2>1. PICK s \in [1 .. Capacity -> Nodes] : \A i \in 1 .. Capacity : s[i] = i
    <3>1. [i \in 1 .. Capacity |-> i] \in [1 .. Capacity -> Nodes]
      OBVIOUS
    <3> QED
      BY <3>1
  <2>2. \A i \in 1 .. Capacity : s[i] = i /\ next[i] = i - 1
    BY <2>1
  <2>3. IsChain(s, Capacity)
    <3>1. head = IF Capacity = 0 THEN Null ELSE s[Capacity]
      BY <2>2
    <3>2. \A i \in 1 .. Capacity :
            next[s[i]] = IF i = 1 THEN Null ELSE s[i - 1]
      <4> SUFFICES ASSUME NEW i \in 1 .. Capacity
                   PROVE  next[s[i]] = IF i = 1 THEN Null ELSE s[i - 1]
        OBVIOUS
      <4>1. CASE i = 1
        BY <2>2, <4>1
      <4>2. CASE i # 1
        <5>1. i - 1 \in 1 .. Capacity
          BY <4>2
        <5> QED
          BY <2>2, <4>2, <5>1
      <4> QED
        BY <4>1, <4>2
    <3>3. \A i, j \in 1 .. Capacity : s[i] = s[j] => i = j
      BY <2>2
    <3> QED
      BY <3>1, <3>2, <3>3 DEF IsChain
  <2>4. \A n \in Nodes : \E i \in 1 .. Capacity : s[i] = n
    BY <2>2
  <2> QED
    BY <1>2, <2>1, <2>3, <2>4 DEF Conservation
<1> QED
  BY <1>1, <1>3, <1>4 DEF StackInv

(* A step that leaves head_, the links and the owners alone leaves the     *)
(* list alone.                                                             *)
LEMMA ListUnchanged ==
  ASSUME Conservation, UNCHANGED <<head, next, out>>, InTransit' = InTransit,
         \A u \in Pushers : pc'[u] = pc[u] /\ node'[u] = node[u]
  PROVE  Conservation'
BY DEF Conservation, IsChain

LEMMA PushBeginKeeps ==
  ASSUME StackInv, NEW t \in Pushers, NEW n \in out, PushBegin(t, n)
  PROVE  Conservation' /\ PopSnapshotValid'
<1> USE StackAssumption DEF StackInv, Threads
<1>1. InTransit' = InTransit \cup {n} /\ out' = out \ {n}
  BY TransitOfPushBegin DEF PushBegin
<1>2. n \notin InTransit /\ n \in Nodes
  BY DEF Conservation, StackTypeOK
<1>3. Conservation'
  <2>0. PICK k \in 0 .. Capacity : \E s \in [1 .. k -> Nodes] : Lists(s, k)
    BY DEF Conservation, Lists
  <2>1. PICK s \in [1 .. k -> Nodes] : Lists(s, k)
    BY <2>0
  <2>2. \A i \in 1 .. k : s[i] # n
    BY <2>1, <1>2 DEF Lists
  <2>3. \A i \in 1 .. k : next'[s[i]] = next[s[i]]
    BY <2>2 DEF PushBegin, StackTypeOK
  <2>4. IsChain(s, k)'
    BY <2>1, <2>3 DEF Lists, IsChain, PushBegin
  <2>5. \A m \in Nodes :
          (m \notin out' /\ m \notin InTransit') <=> \E i \in 1 .. k : s[i] = m
    BY <2>1, <1>1, <1>2 DEF Lists
  <2>6. out' \cap InTransit' = {}
    BY <1>1, <1>2 DEF Conservation
  <2>7. \A u \in Pushers : u # t => pc'[u] = pc[u] /\ node'[u] = node[u]
    BY DEF PushBegin, StackTypeOK
  <2>8. \A u \in Pushers : u # t /\ pc[u] = "push" => node[u] # n
    BY <1>2 DEF InTransit
  <2>9. \A u, v \in Pushers :
          pc'[u] = "push" /\ pc'[v] = "push" /\ node'[u] = node'[v] => u = v
    BY <2>7, <2>8 DEF Conservation, PushBegin, StackTypeOK
  <2> QED
    BY <2>4, <2>5, <2>6, <2>9 DEF Conservation
<1>4. PopSnapshotValid'
  <2> SUFFICES ASSUME NEW u \in Poppers, pc'[u] # "idle"
               PROVE  /\ node'[u] \notin out' \cup InTransit'
                      /\ pc'[u] = "popCas" => succ'[u] = next'[node'[u]]
    BY DEF PopSnapshotValid
  <2>1. pc'[u] = pc[u] /\ node'[u] = node[u] /\ succ'[u] = succ[u]
    BY DEF PushBegin, StackTypeOK
  <2>2. node[u] \notin out \cup InTransit
    BY <2>1 DEF PopSnapshotValid
  <2>3. node[u] # n /\ next'[node[u]] = next[node[u]]
    BY <2>1, <2>2 DEF PushBegin, StackTypeOK
  <2> QED
    BY <1>1, <2>1, <2>2, <2>3 DEF PopSnapshotValid
<1> QED
  BY <1>3, <1>4

(* The exchange succeeds: the node goes on top of the list. *)
LEMMA PushCasOkKeeps ==
  ASSUME StackInv, NEW t \in Pushers, PushCasOk(t)
  PROVE  Conservation' /\ PopSnapshotValid'
<1> USE StackAssumption DEF StackInv, Threads
<1>1. node[t] \in InTransit /\ InTransit' = InTransit \ {node[t]}
  BY TransitOfPushCasOk
<1>2. /\ node[t] \in Nodes /\ node[t] \notin out
      /\ head' = node[t] /\ head = next[node[t]]
      /\ UNCHANGED <<next, node, succ, out>>
  BY <1>1 DEF PushCasOk, StackTypeOK, Conservation
<1>3. Conservation'
  <2>0. PICK k \in 0 .. Capacity : \E s \in [1 .. k -> Nodes] : Lists(s, k)
    BY DEF Conservation, Lists
  <2>1. PICK s \in [1 .. k -> Nodes] : Lists(s, k)
    BY <2>0
  <2>2. PICK r \in [1 .. k + 1 -> Nodes] :
          r[k + 1] = node[t] /\ \A i \in 1 .. k : r[i] = s[i]
    <3> DEFINE q == [i \in 1 .. k + 1 |-> IF i <= k THEN s[i] ELSE node[t]]
    <3>1. q \in [1 .. k + 1 -> Nodes]
      BY <1>2
    <3>2. q[k + 1] = node[t] /\ \A i \in 1 .. k : q[i] = s[i]
      OBVIOUS
    <3> HIDE DEF q
    <3> QED
      BY <3>1, <3>2
  <2>3. \A i \in 1 .. k : s[i] # node[t]
    BY <1>1, <2>1 DEF Lists
  <2>4. \A i, j \in 1 .. k + 1 : r[i] = r[j] => i = j
    BY <2>1, <2>2, <2>3 DEF Lists, IsChain
  <2>5. k + 1 \in 0 .. Capacity
    BY <2>4, ChainFits
  <2>6. \A i \in 1 .. k + 1 :
          next[r[i]] = IF i = 1 THEN Null ELSE r[i - 1]
    <3> SUFFICES ASSUME NEW i \in 1 .. k + 1
                 PROVE  next[r[i]] = IF i = 1 THEN Null ELSE r[i - 1]
      OBVIOUS
    <3>1. CASE i \in 1 .. k
      BY <2>1, <2>2, <3>1 DEF Lists, IsChain
    <3>2. CASE i = k + 1
      <4>1. next[r[i]] = IF k = 0 THEN Null ELSE s[k]
        BY <1>2, <2>1, <2>2, <3>2 DEF Lists, IsChain
      <4>2. k # 0 => r[i - 1] = s[k]
        BY <2>2, <3>2
      <4> QED
        BY <3>2, <4>1, <4>2
    <3> QED
      BY <3>1, <3>2
  <2>7. IsChain(r, k + 1)'
    BY <1>2, <2>2, <2>4, <2>6 DEF IsChain
  <2>8. \A m \in Nodes :
          (m \notin out' /\ m \notin InTransit')
            <=> \E i \in 1 .. k + 1 : r[i] = m
    <3> SUFFICES ASSUME NEW m \in Nodes
                 PROVE  (m \notin out /\ m \notin InTransit \ {node[t]})
                          <=> \E i \in 1 .. k + 1 : r[i] = m
      BY <1>1, <1>2
    <3>1. CASE m = node[t]
      BY <1>2, <2>2, <3>1
    <3>2. CASE m # node[t]
      <4>1. (\E i \in 1 .. k + 1 : r[i] = m) <=> \E i \in 1 .. k : s[i] = m
        BY <2>2, <3>2
      <4> QED
        BY <2>1, <3>2, <4>1 DEF Lists
    <3> QED
      BY <3>1, <3>2
  <2>9. \A u \in Pushers : pc'[u] = "push" => pc[u] = "push"
    BY DEF PushCasOk, StackTypeOK
  <2>10. out' \cap InTransit' = {}
    BY <1>1, <1>2 DEF Conservation
  <2>11. \A u, v \in Pushers :
           pc'[u] = "push" /\ pc'[v] = "push" /\ node'[u] = node'[v] => u = v
    BY <1>2, <2>9 DEF Conservation
  <2>12. PICK j \in 0 .. Capacity : j = k + 1
    BY <2>5
  <2>13. \E q \in [1 .. j -> Nodes] :
           /\ IsChain(q, j)'
           /\ \A m \in Nodes :
                (m \notin out' /\ m \notin InTransit')
                  <=> \E i \in 1 .. j : q[i] = m
    BY <2>7, <2>8, <2>12
  <2> QED
    BY <2>10, <2>11, <2>13 DEF Conservation
<1>4. PopSnapshotValid'
  <2>1. \A u \in Poppers : pc'[u] = pc[u]
    BY DEF PushCasOk, StackTypeOK
  <2> QED
    BY <1>1, <1>2, <2>1 DEF PopSnapshotValid
<1> QED
  BY <1>3, <1>4

(* The exchange fails: only a node outside the list is written to. *)
LEMMA PushCasFailKeeps ==
  ASSUME StackInv, NEW t \in Pushers, PushCasFail(t)
  PROVE  Conservation' /\ PopSnapshotValid'
<1> USE StackAssumption DEF StackInv, Threads
<1>1. node[t] \in InTransit /\ node[t] \in Nodes
  BY DEF PushCasFail, InTransit, StackTypeOK
<1>2. UNCHANGED <<head, pc, node, succ, out>> /\ InTransit' = InTransit
  BY DEF PushCasFail, InTransit
<1>3. \A n \in Nodes : n # node[t] => next'[n] = next[n]
  BY DEF PushCasFail, StackTypeOK
<1>4. Conservation'
  <2>0. PICK k \in 0 .. Capacity : \E s \in [1 .. k -> Nodes] : Lists(s, k)
    BY DEF Conservation, Lists
  <2>1. PICK s \in [1 .. k -> Nodes] : Lists(s, k)
    BY <2>0
  <2>2. \A i \in 1 .. k : next'[s[i]] = next[s[i]]
    BY <1>1, <1>3, <2>1 DEF Lists
  <2>3. IsChain(s, k)'
    BY <1>2, <2>1, <2>2 DEF Lists, IsChain
  <2> QED
    BY <1>2, <2>1, <2>3 DEF Conservation, Lists
<1>5. PopSnapshotValid'
  <2>1. \A u \in Poppers : pc[u] # "idle" =>
          node[u] \in Nodes /\ node[u] # node[t]
    BY <1>1 DEF PopSnapshotValid, StackTypeOK
  <2> QED
    BY <1>2, <1>3, <2>1 DEF PopSnapshotValid
<1> QED
  BY <1>4, <1>5

(* head_ is on the list, so it is nobody's. *)
LEMMA HeadIsListed ==
  ASSUME Conservation, StackTypeOK, head # Null
  PROVE  head \in Nodes /\ head \notin out \cup InTransit
<1>0. PICK k \in 0 .. Capacity : \E s \in [1 .. k -> Nodes] : Lists(s, k)
  BY DEF Conservation, Lists
<1>1. PICK s \in [1 .. k -> Nodes] : Lists(s, k)
  BY <1>0
<1>2. k \in 1 .. k /\ head = s[k]
  BY <1>1 DEF Lists, IsChain
<1> QED
  BY <1>1, <1>2 DEF Lists

(* A pop takes the head it sees for the top: rightly so. *)
LEMMA PopSeesKeeps ==
  ASSUME StackInv, NEW t \in Poppers, PopSees(t, head),
         UNCHANGED <<head, next, succ, out>>
  PROVE  Conservation' /\ PopSnapshotValid'
<1> USE StackAssumption DEF StackInv, Threads
<1>1. \A u \in Threads : u # t => pc'[u] = pc[u] /\ node'[u] = node[u]
  BY DEF PopSees, StackTypeOK
<1>2. InTransit' = InTransit
  BY <1>1, TransitOfPop
<1>3. Conservation'
  BY <1>1, <1>2, ListUnchanged
<1>4. ASSUME NEW u \in Poppers, pc'[u] # "idle"
      PROVE  /\ node'[u] \notin out' \cup InTransit'
             /\ pc'[u] = "popCas" => succ'[u] = next'[node'[u]]
  <2>1. CASE u = t
    <3>1. pc'[t] = "popNext" /\ node'[t] = head /\ head # Null
      BY <1>4, <2>1 DEF PopSees, StackTypeOK
    <3> QED
      BY <1>2, <2>1, <3>1, HeadIsListed
  <2>2. CASE u # t
    BY <1>1, <1>2, <1>4, <2>2 DEF PopSnapshotValid
  <2> QED
    BY <2>1, <2>2
<1> QED
  BY <1>3, <1>4 DEF PopSnapshotValid

LEMMA PopReadNextKeeps ==
  ASSUME StackInv, NEW t \in Poppers, PopReadNext(t)
  PROVE  Conservation' /\ PopSnapshotValid'
<1> USE StackAssumption DEF StackInv, Threads
<1>1. /\ UNCHANGED <<head, next, node, out>>
      /\ \A u \in Threads : u # t => pc'[u] = pc[u] /\ succ'[u] = succ[u]
      /\ pc[t] = "popNext" /\ pc'[t] = "popCas" /\ succ'[t] = next[node[t]]
  BY DEF PopReadNext, StackTypeOK
<1>2. InTransit' = InTransit
  BY <1>1, TransitOfPop
<1>3. Conservation'
  BY <1>1, <1>2, ListUnchanged
<1>4. PopSnapshotValid'
  BY <1>1, <1>2 DEF PopSnapshotValid
<1> QED
  BY <1>3, <1>4

(* The exchange of a pop succeeds: the top leaves the list, and what the   *)
(* pop read as its successor really is the rest.                           *)
LEMMA PopCasOkKeeps ==
  ASSUME SinglePopper, StackInv, NEW t \in Poppers, PopCasOk(t)
  PROVE  Conservation' /\ PopSnapshotValid'
<1> USE StackAssumption DEF StackInv, Threads
<1>1. /\ head = node[t] /\ head \in Nodes /\ head' = succ[t]
      /\ out' = out \cup {head} /\ UNCHANGED <<next, node, succ>>
      /\ pc[t] = "popCas" /\ pc'[t] = "idle"
      /\ \A u \in Threads : u # t => pc'[u] = pc[u]
  BY DEF PopCasOk, StackTypeOK
<1>2. InTransit' = InTransit
  BY <1>1, TransitOfPop
<1>3. succ[t] = next[head] /\ head \notin InTransit
  BY <1>1 DEF PopSnapshotValid
<1>4. Conservation'
  <2>0. PICK k \in 0 .. Capacity : \E s \in [1 .. k -> Nodes] : Lists(s, k)
    BY DEF Conservation, Lists
  <2>1. PICK s \in [1 .. k -> Nodes] : Lists(s, k)
    BY <2>0
  <2>2. k \in 1 .. Capacity /\ s[k] = head
    BY <1>1, <2>1 DEF Lists, IsChain, Null, Nodes
  <2>3. PICK r \in [1 .. k - 1 -> Nodes] : \A i \in 1 .. k - 1 : r[i] = s[i]
    <3>1. [i \in 1 .. k - 1 |-> s[i]] \in [1 .. k - 1 -> Nodes]
      BY <2>2
    <3> QED
      BY <3>1
  <2>4. head' = IF k - 1 = 0 THEN Null ELSE r[k - 1]
    <3>1. head' = IF k = 1 THEN Null ELSE s[k - 1]
      BY <1>1, <1>3, <2>1, <2>2 DEF Lists, IsChain
    <3> QED
      BY <2>2, <2>3, <3>1
  <2>5. \A i \in 1 .. k - 1 : next[r[i]] = IF i = 1 THEN Null ELSE r[i - 1]
    BY <2>1, <2>2, <2>3 DEF Lists, IsChain
  <2>6. \A i, j \in 1 .. k - 1 : r[i] = r[j] => i = j
    BY <2>1, <2>2, <2>3 DEF Lists, IsChain
  <2>7. IsChain(r, k - 1)'
    BY <1>1, <2>4, <2>5, <2>6 DEF IsChain
  <2>8. \A m \in Nodes :
          (m \notin out' /\ m \notin InTransit')
            <=> \E i \in 1 .. k - 1 : r[i] = m
    <3> SUFFICES ASSUME NEW m \in Nodes
                 PROVE  (m \notin out \cup {head} /\ m \notin InTransit)
                          <=> \E i \in 1 .. k - 1 : r[i] = m
      BY <1>1, <1>2
    <3>1. CASE m = head
      <4>1. \A i \in 1 .. k - 1 : s[i] # s[k]
        BY <2>1, <2>2 DEF Lists, IsChain
      <4> QED
        BY <2>2, <2>3, <3>1, <4>1
    <3>2. CASE m # head
      <4>1. (\E i \in 1 .. k - 1 : r[i] = m) <=> \E i \in 1 .. k : s[i] = m
        BY <2>2, <2>3, <3>2
      <4> QED
        BY <2>1, <3>2, <4>1 DEF Lists
    <3> QED
      BY <3>1, <3>2
  <2>9. \A u \in Pushers : pc'[u] = "push" => pc[u] = "push"
    BY <1>1
  <2>10. out' \cap InTransit' = {}
    BY <1>1, <1>2, <1>3 DEF Conservation
  <2>11. \A u, v \in Pushers :
           pc'[u] = "push" /\ pc'[v] = "push" /\ node'[u] = node'[v] => u = v
    BY <1>1, <2>9 DEF Conservation
  <2>12. PICK j \in 0 .. Capacity : j = k - 1
    BY <2>2
  <2>13. \E q \in [1 .. j -> Nodes] :
           /\ IsChain(q, j)'
           /\ \A m \in Nodes :
                (m \notin out' /\ m \notin InTransit')
                  <=> \E i \in 1 .. j : q[i] = m
    BY <2>7, <2>8, <2>12
  <2> QED
    BY <2>10, <2>11, <2>13 DEF Conservation
<1>5. PopSnapshotValid'
  BY <1>1 DEF PopSnapshotValid, SinglePopper
<1> QED
  BY <1>4, <1>5

LEMMA StackKept == ASSUME SinglePopper PROVE StackInv /\ [StackNext]_stackVars => StackInv'
<1> SUFFICES ASSUME StackInv, [StackNext]_stackVars PROVE Conservation' /\ PopSnapshotValid'
  BY StackTypeStep DEF StackInv
<1>1. ASSUME NEW t \in Pushers, Push(t)
      PROVE  Conservation' /\ PopSnapshotValid'
  BY <1>1, PushBeginKeeps, PushCasOkKeeps, PushCasFailKeeps DEF Push, PushCas
<1>2. ASSUME NEW t \in Poppers, Pop(t)
      PROVE  Conservation' /\ PopSnapshotValid'
  <2>1. CASE PopBegin(t) \/ PopCasFail(t) \/ PopCasSpurious(t)
    BY <2>1, PopSeesKeeps DEF PopBegin, PopCasFail, PopCasSpurious
  <2>2. CASE PopReadNext(t)
    BY <2>2, PopReadNextKeeps
  <2>3. CASE PopCasOk(t)
    BY <2>3, SinglePopper, PopCasOkKeeps
  <2> QED
    BY <1>2, <2>1, <2>2, <2>3 DEF Pop, PopCas
<1>3. CASE UNCHANGED stackVars
  BY <1>3 DEF stackVars, StackInv, Conservation, IsChain, InTransit, PopSnapshotValid
<1> QED
  BY <1>1, <1>2, <1>3 DEF StackNext

LEMMA StackInvariance == ASSUME SinglePopper PROVE StackSpec => []StackInv
<1>1. StackInv /\ [StackNext]_stackVars => StackInv'
  BY SinglePopper, StackKept
<1> QED
  BY <1>1, StackStarts, PTL DEF StackSpec

(* With one popping thread no slot is lost and none gets two owners,       *)
(* whatever push() calls of the workers run at the same time.              *)
THEOREM ConservationHolds == ASSUME SinglePopper PROVE StackSpec => []Conservation
BY SinglePopper, StackInvariance, PTL DEF StackInv

(* With one popping thread the ABA problem does not arise: between the     *)
(* load of head_ and the exchange nobody takes that node away, and its     *)
(* successor does not change.                                              *)
THEOREM SnapshotHolds == ASSUME SinglePopper PROVE StackSpec => []PopSnapshotValid
BY SinglePopper, StackInvariance, PTL DEF StackInv

(* What a push() or pop() read before its exchange it may still rely on.   *)
THEOREM StackConsistentHolds == ASSUME SinglePopper PROVE StackSpec => []StackConsistent
BY SinglePopper, StackTypeCorrect, SnapshotHolds, PTL DEF StackConsistent

-----------------------------------------------------------------------------
(* Refinement: the exchange of pop() is where a slot gets its owner, the   *)
(* call of push() where the owner gives it up, the exchange of push()      *)
(* where it is free again.  Every other step is invisible.                 *)

LEMMA FreeListInit == StackInit => FL!Init
<1> SUFFICES ASSUME StackInit PROVE FL!Init
  OBVIOUS
<1>1. InTransit = {} /\ out = {}
  BY DEF StackInit, InTransit, Threads
<1> QED
  BY <1>1 DEF FL!Init

LEMMA FreeListStep == StackInv /\ [StackNext]_stackVars => [FL!Next]_(FL!flVars)
<1> SUFFICES ASSUME StackInv, [StackNext]_stackVars PROVE FL!Next \/ UNCHANGED FL!flVars
  OBVIOUS
<1> USE StackAssumption DEF StackInv, Threads
<1>1. ASSUME NEW t \in Pushers, NEW n \in out, PushBegin(t, n)
      PROVE  FL!Next
  <2>1. /\ InTransit' = InTransit \cup {n} /\ out' = out \ {n}
        /\ n \in Nodes
    BY <1>1, TransitOfPushBegin DEF PushBegin, StackTypeOK
  <2>2. FL!GiveBack(n)
    BY <2>1 DEF FL!GiveBack
  <2> QED
    BY <2>1, <2>2 DEF FL!Next
<1>2. ASSUME NEW t \in Pushers, PushCasOk(t) PROVE FL!Next
  <2>1. /\ node[t] \in InTransit /\ InTransit' = InTransit \ {node[t]}
        /\ out' = out /\ node[t] \notin out /\ node[t] \in Nodes
    BY <1>2, TransitOfPushCasOk DEF PushCasOk, Conservation, StackTypeOK
  <2>2. FL!Free(node[t])
    BY <2>1 DEF FL!Free, FL!Returning
  <2> QED
    BY <2>1, <2>2 DEF FL!Next
<1>3. ASSUME NEW t \in Pushers, PushCasFail(t) PROVE UNCHANGED FL!flVars
  <2>1. InTransit' = InTransit /\ out' = out
    BY <1>3 DEF PushCasFail, InTransit
  <2> QED
    BY <2>1 DEF FL!flVars
<1>4. ASSUME NEW t \in Poppers, PopCasOk(t) PROVE FL!Next
  <2>1. InTransit' = InTransit
    BY <1>4, TransitOfPop DEF PopCasOk, StackTypeOK
  <2>2. /\ node[t] \in Nodes /\ node[t] \notin out \cup InTransit
        /\ out' = out \cup {node[t]}
    BY <1>4 DEF PopCasOk, PopSnapshotValid, StackTypeOK
  <2>3. FL!Alloc(node[t])
    BY <2>1, <2>2 DEF FL!Alloc
  <2> QED
    BY <2>2, <2>3 DEF FL!Next
<1>5. ASSUME NEW t \in Poppers,
             PopBegin(t) \/ PopReadNext(t) \/ PopCasFail(t) \/ PopCasSpurious(t)
      PROVE  UNCHANGED FL!flVars
  <2>1. \A u \in Threads : u # t => pc'[u] = pc[u] /\ node'[u] = node[u]
    BY <1>5 DEF PopBegin, PopReadNext, PopCasFail, PopCasSpurious, PopSees, StackTypeOK
  <2>2. out' = out /\ InTransit' = InTransit
    BY <1>5, <2>1, TransitOfPop
    DEF PopBegin, PopReadNext, PopCasFail, PopCasSpurious
  <2> QED
    BY <2>2 DEF FL!flVars
<1>6. CASE UNCHANGED stackVars
  BY <1>6 DEF stackVars, InTransit, FL!flVars
<1> QED
  BY <1>1, <1>2, <1>3, <1>4, <1>5, <1>6 DEF StackNext, Push, PushCas, Pop, PopCas

(* atomic_stack implements the free list client_pool relies on.            *)
THEOREM StackImplementsFreeList ==
  ASSUME SinglePopper PROVE StackSpec => ImplementsFreeList
<1>1. StackSpec => []StackInv
  BY SinglePopper, StackInvariance
<1>2. StackInv /\ [StackNext]_stackVars => [FL!Next]_(FL!flVars)
  BY FreeListStep
<1> QED
  BY <1>1, <1>2, FreeListInit, PTL DEF StackSpec, ImplementsFreeList, FL!Spec

-----------------------------------------------------------------------------
(***************************************************************************)
(* The chain.                                                              *)

(* threadCount_ wraps, and keeps its type. *)
LEMMA TypeStep == TypeOK /\ [Next]_vars => TypeOK'
<1> SUFFICES ASSUME TypeOK, [Next]_vars PROVE TypeOK'
  OBVIOUS
<1> USE ChainAssumption DEF TypeOK, Goto
<1>1. ASSUME NEW c \in Callers, RunBegin(c) PROVE TypeOK'
  <2>1. Cardinality(Workers) \in Nat
    BY FS_CardinalityType
  <2> QED
    BY <1>1, <2>1 DEF RunBegin
<1>2. ASSUME NEW c \in Callers, NEW w \in Workers, Spawn(c, w) PROVE TypeOK'
  BY <1>2 DEF Spawn
<1>3. ASSUME NEW c \in Callers, RunEnd(c) PROVE TypeOK'
  BY <1>3 DEF RunEnd
<1>4. ASSUME NEW c \in Callers, StopBegin(c) PROVE TypeOK'
  BY <1>4 DEF StopBegin
<1>5. ASSUME NEW c \in Callers, StopEnd(c) PROVE TypeOK'
  BY <1>5 DEF StopEnd
<1>6. ASSUME NEW w \in Workers, ControlEvent(w) PROVE TypeOK'
  BY <1>6 DEF ControlEvent
<1>7. ASSUME NEW w \in Workers, ReadPipe(w) PROVE TypeOK'
  BY <1>7 DEF ReadPipe
<1>8. ASSUME NEW w \in Workers, RearmPipe(w) PROVE TypeOK'
  BY <1>8 DEF RearmPipe
<1>9. ASSUME NEW w \in Workers, CountOut(w) PROVE TypeOK'
  <2>1. Decremented \in 0 .. SizeMax
    BY DEF Decremented
  <2> QED
    BY <1>9, <2>1 DEF CountOut
<1>10. ASSUME NEW w \in Workers, PassOn(w) PROVE TypeOK'
  BY <1>10 DEF PassOn
<1>11. ASSUME NEW w \in Workers, WaitFails(w) PROVE TypeOK'
  BY <1>11 DEF WaitFails
<1>12. CASE UNCHANGED vars
  BY <1>12 DEF vars
<1> QED
  BY <1>1, <1>2, <1>3, <1>4, <1>5, <1>6, <1>7, <1>8, <1>9, <1>10, <1>11, <1>12
  DEF Next, Caller, Worker, Leaving

LEMMA InitType == Init => TypeOK
<1> SUFFICES ASSUME Init PROVE TypeOK
  OBVIOUS
<1>1. armed \in BOOLEAN /\ failed \in BOOLEAN
  BY DEF Init
<1>2. /\ wpc  \in [Workers -> {"none", "new", "wait", "read", "rearm", "dec",
                               "write", "exited"}]
      /\ cpc  \in [Callers -> {"idle", "spawn", "join"}]
  BY DEF Init
<1>3. /\ pipe \in Nat /\ runningInstances \in 0 .. SizeMax
      /\ lock \in Callers \cup {NoCaller}
  BY ChainAssumption DEF Init
<1> QED
  BY <1>1, <1>2, <1>3 DEF TypeOK

(* Every variable keeps its type, the wrapping counter included.           *)
THEOREM TypeCorrect == Spec => []TypeOK
<1>1. Init => TypeOK
  BY InitType
<1> QED
  BY <1>1, TypeStep, PTL DEF Spec

-----------------------------------------------------------------------------
(* The inductive invariant: first what holds whatever epoll_wait returns.  *)

(* lock_ is held by the one caller that is inside run() or stop(). *)
LockHeld == \A c \in Callers : cpc[c] # "idle" <=> lock = c

(* The registration being one-shot, one worker at a time is between the    *)
(* event and its re-arming.                                                *)
OneReader ==
  \A v, w \in Workers :
    wpc[v] \in {"read", "rearm"} /\ wpc[w] \in {"read", "rearm"} => v = w

Always == TypeOK /\ LockHeld /\ OneReader /\ PipeReported

(* And what holds until it fails.                                          *)

Counted == {w \in Workers : wpc[w] \in {"new", "wait", "read", "rearm", "dec"}}

Spawning == \E c \in Callers : cpc[c] = "spawn"

(* Where the workers can be: nobody is on the way out unless stop() waits. *)
Phases ==
  /\ Stopping =>
       \A w \in Workers : wpc[w] \in {"wait", "read", "rearm", "dec", "write", "exited"}
  /\ Spawning => \A w \in Workers : wpc[w] \in {"new", "wait"}
  /\ ~Stopping /\ ~Spawning =>
       ThreadsEmpty \/ \A w \in Workers : wpc[w] = "wait"
  /\ ~Stopping => pipe = 0

(* One worker at a time deals with the exit message, ... *)
OneAtATime ==
  \A v, w \in Workers :
    /\ wpc[v] \in {"read", "rearm", "dec", "write"}
    /\ wpc[w] \in {"read", "rearm", "dec", "write"}
    => v = w

(* ... the message is in the pipe or in that worker's hands, and there is  *)
(* always somebody left to take it.                                        *)
Message ==
  /\ pipe \in {0, 1}
  /\ pipe = 1 => Carriers = {} /\ \E w \in Workers : wpc[w] \in {"wait", "read"}
  /\ Stopping /\ pipe = 0 /\ Carriers = {} => \A w \in Workers : wpc[w] = "exited"
  /\ \A w \in Workers : wpc[w] = "write" => \E v \in Workers : wpc[v] = "wait"

Intact ==
  /\ ~failed
  /\ TypeOK
  /\ CounterExact
  /\ LockHeld
  /\ Phases
  /\ OneAtATime
  /\ Message
  /\ PipeReported

IInv == Always /\ (failed \/ Intact)

LEMMA InitIntact == Init => Intact
<1> SUFFICES ASSUME Init PROVE Intact
  OBVIOUS
<1> USE ChainAssumption DEF Init
<1>1. TypeOK
  BY InitType
<1>2. CounterExact
  <2>1. Counted = {}
    BY DEF Counted
  <2> QED
    BY <2>1, FS_EmptySet DEF CounterExact, Counted
<1>3. LockHeld /\ ~Stopping /\ ~Spawning
  BY DEF LockHeld, Stopping, Spawning
<1>4. Phases /\ OneAtATime /\ Message /\ PipeReported
  BY <1>3 DEF Phases, ThreadsEmpty, OneAtATime, Message, Carriers, PipeReported
<1> QED
  BY <1>1, <1>2, <1>3, <1>4 DEF Intact

LEMMA InitIInv == Init => IInv
<1> SUFFICES ASSUME Init PROVE IInv
  OBVIOUS
<1>1. Intact
  BY InitIntact
<1>2. OneReader
  BY DEF Init, OneReader
<1> QED
  BY <1>1, <1>2 DEF IInv, Always, Intact

(* A caller that is inside run() or stop() is the only one. *)
LEMMA OneCaller ==
  ASSUME LockHeld, NEW c \in Callers, cpc[c] # "idle"
  PROVE  \A d \in Callers : d # c => cpc[d] = "idle"
BY DEF LockHeld

(* Nobody is inside while lock_ is free. *)
LEMMA NobodyInside ==
  ASSUME LockHeld, lock = NoCaller
  PROVE  /\ \A c \in Callers : cpc[c] = "idle"
         /\ ~Stopping /\ ~Spawning
BY ChainAssumption DEF LockHeld, Stopping, Spawning

LEMMA RunBeginKeeps ==
  ASSUME Intact, NEW c \in Callers, RunBegin(c)
  PROVE  Intact'
<1> USE ChainAssumption DEF Intact
<1>1. /\ \A d \in Callers : cpc[d] = "idle"
      /\ ~Stopping /\ pipe = 0 /\ pipe' = 0
      /\ cpc' = [cpc EXCEPT ![c] = "spawn"] /\ lock' = c
      /\ \A w \in Workers : wpc[w] = "none" /\ wpc'[w] = "new"
      /\ UNCHANGED <<armed, failed>>
  BY NobodyInside DEF RunBegin, Phases, ThreadsEmpty
<1>2. TypeOK'
  BY TypeStep DEF Next, Caller
<1>3. CounterExact'
  <2>1. Counted' = Workers
    BY <1>1 DEF Counted
  <2> QED
    BY <2>1 DEF CounterExact, Counted, RunBegin
<1>4. LockHeld' /\ ~Stopping' /\ Spawning'
  BY <1>1 DEF LockHeld, Stopping, Spawning, TypeOK
<1>5. Phases' /\ OneAtATime' /\ Message' /\ PipeReported'
  BY <1>1, <1>4 DEF Phases, OneAtATime, Message, PipeReported, Carriers
<1> QED
  BY <1>1, <1>2, <1>3, <1>4, <1>5

LEMMA SpawnKeeps ==
  ASSUME Intact, NEW c \in Callers, NEW x \in Workers, Spawn(c, x)
  PROVE  Intact'
<1> USE DEF Intact
<1>1. /\ wpc[x] = "new" /\ wpc'[x] = "wait"
      /\ \A w \in Workers : w # x => wpc'[w] = wpc[w]
      /\ UNCHANGED <<pipe, armed, runningInstances, cpc, lock, failed>>
  BY DEF Spawn, TypeOK
<1>2. Spawning /\ Spawning' /\ ~Stopping /\ ~Stopping'
  BY OneCaller DEF Spawn, Spawning, Stopping
<1>3. TypeOK'
  BY TypeStep DEF Next, Caller
<1>4. CounterExact'
  <2>1. Counted' = Counted
    BY <1>1 DEF Counted
  <2> QED
    BY <1>1, <2>1 DEF CounterExact, Counted
<1>5. LockHeld'
  BY <1>1 DEF LockHeld
<1>6. Phases' /\ OneAtATime' /\ Message' /\ PipeReported'
  BY <1>1, <1>2 DEF Phases, OneAtATime, Message, PipeReported, Carriers
<1> QED
  BY <1>1, <1>3, <1>4, <1>5, <1>6

LEMMA RunEndKeeps ==
  ASSUME Intact, NEW c \in Callers, RunEnd(c)
  PROVE  Intact'
<1> USE ChainAssumption DEF Intact
<1>1. /\ cpc[c] = "spawn" /\ cpc' = [cpc EXCEPT ![c] = "idle"]
      /\ lock' = NoCaller
      /\ \A w \in Workers : wpc[w] # "new"
      /\ UNCHANGED <<pipe, armed, runningInstances, wpc, failed>>
  BY DEF RunEnd
<1>2. Spawning /\ ~Stopping /\ \A d \in Callers : cpc'[d] = "idle"
  BY <1>1, OneCaller DEF Spawning, Stopping, TypeOK
<1>3. TypeOK'
  BY TypeStep DEF Next, Caller
<1>4. CounterExact'
  BY <1>1 DEF CounterExact
<1>5. LockHeld' /\ ~Stopping' /\ ~Spawning'
  BY <1>1, <1>2 DEF LockHeld, Stopping, Spawning
<1>6. Phases' /\ OneAtATime' /\ Message' /\ PipeReported'
  BY <1>1, <1>2, <1>5 DEF Phases, OneAtATime, Message, PipeReported, Carriers
<1> QED
  BY <1>1, <1>3, <1>4, <1>5, <1>6

LEMMA StopBeginKeeps ==
  ASSUME Intact, NEW c \in Callers, StopBegin(c)
  PROVE  Intact'
<1> USE ChainAssumption DEF Intact
<1>1. /\ \A d \in Callers : cpc[d] = "idle"
      /\ pipe = 0 /\ pipe' = 1
      /\ cpc' = [cpc EXCEPT ![c] = "join"] /\ lock' = c
      /\ \A w \in Workers : wpc[w] = "wait"
      /\ UNCHANGED <<armed, runningInstances, wpc, failed>>
  BY NobodyInside DEF StopBegin, Phases
<1>2. TypeOK'
  BY TypeStep DEF Next, Caller
<1>3. CounterExact'
  BY <1>1 DEF CounterExact
<1>4. LockHeld' /\ Stopping' /\ ~Spawning'
  BY <1>1 DEF LockHeld, Stopping, Spawning, TypeOK
<1>5. Phases' /\ OneAtATime' /\ Message' /\ PipeReported'
  BY <1>1, <1>4 DEF Phases, OneAtATime, Message, PipeReported, Carriers
<1> QED
  BY <1>1, <1>2, <1>3, <1>4, <1>5

LEMMA StopEndKeeps ==
  ASSUME Intact, NEW c \in Callers, StopEnd(c)
  PROVE  Intact'
<1> USE ChainAssumption DEF Intact
<1>1. /\ cpc[c] = "join" /\ cpc' = [cpc EXCEPT ![c] = "idle"]
      /\ lock' = NoCaller
      /\ \A w \in Workers : wpc[w] = "exited" /\ wpc'[w] = "none"
      /\ UNCHANGED <<pipe, armed, runningInstances, failed>>
  BY DEF StopEnd
<1>2. Stopping /\ pipe = 0
  BY <1>1 DEF Stopping, Message
<1>3. TypeOK'
  BY TypeStep DEF Next, Caller
<1>4. CounterExact'
  <2>1. Counted = {} /\ Counted' = {}
    BY <1>1 DEF Counted
  <2> QED
    BY <1>1, <2>1 DEF CounterExact, Counted
<1>5. \A d \in Callers : cpc'[d] = "idle"
  BY <1>1, OneCaller DEF TypeOK
<1>6. LockHeld' /\ ~Stopping' /\ ~Spawning'
  BY <1>1, <1>5 DEF LockHeld, Stopping, Spawning
<1>7. Phases' /\ OneAtATime' /\ Message' /\ PipeReported'
  BY <1>1, <1>2, <1>6
  DEF Phases, ThreadsEmpty, OneAtATime, Message, PipeReported, Carriers
<1> QED
  BY <1>1, <1>3, <1>4, <1>6, <1>7

(* A worker that deals with the exit message, or could: stop() is waiting. *)
LEMMA MessageMeansStopping ==
  ASSUME Intact, NEW w \in Workers,
         wpc[w] \in {"read", "rearm", "dec", "write"} \/ pipe > 0
  PROVE  Stopping /\ ~Spawning
<1>1. Stopping
  BY DEF Intact, Phases, ThreadsEmpty, TypeOK
<1>2. ~Spawning
  BY <1>1, OneCaller DEF Intact, Stopping, Spawning
<1> QED
  BY <1>1, <1>2

(* What is left to show of a step of a worker that does not count out. *)
LEMMA WorkerMoves ==
  ASSUME Intact, NEW x \in Workers, Stopping,
         UNCHANGED <<runningInstances, cpc, lock, failed>>,
         \A w \in Workers : w # x => wpc'[w] = wpc[w],
         wpc[x] \in {"wait", "read", "rearm", "write"},
         \/ wpc[x] # "write" /\ wpc'[x] \in {"read", "rearm", "dec"}
         \/ wpc[x] = "write" /\ wpc'[x] = "exited",
         \A w \in Workers \ {x} : wpc[w] \notin {"read", "rearm", "dec", "write"},
         TypeOK', Message', PipeReported'
  PROVE  Intact'
<1> USE DEF Intact
<1>1. CounterExact'
  <2>1. Counted' = Counted
    BY DEF Counted
  <2> QED
    BY <2>1 DEF CounterExact, Counted
<1>2. LockHeld' /\ Stopping' /\ (Spawning' <=> Spawning)
  BY DEF LockHeld, Stopping, Spawning
<1>3. Phases'
  BY <1>2, OneCaller DEF Phases, Stopping, Spawning
<1>4. OneAtATime'
  BY DEF OneAtATime
<1> QED
  BY <1>1, <1>2, <1>3, <1>4

LEMMA ControlEventKeeps ==
  ASSUME Intact, NEW x \in Workers, ControlEvent(x)
  PROVE  Intact'
<1> USE DEF Intact
<1>1. /\ wpc[x] = "wait" /\ wpc'[x] = "read"
      /\ \A w \in Workers : w # x => wpc'[w] = wpc[w]
      /\ armed /\ armed' = FALSE /\ pipe > 0
      /\ UNCHANGED <<pipe, runningInstances, cpc, lock, failed>>
  BY DEF ControlEvent, Goto, TypeOK
<1>2. Stopping /\ pipe = 1 /\ Carriers = {}
  BY <1>1, MessageMeansStopping DEF Message
<1>3. \A w \in Workers : wpc[w] \notin {"read", "rearm", "dec", "write"}
  BY <1>1, <1>2 DEF PipeReported, Carriers
<1>4. TypeOK'
  BY TypeStep DEF Next, Worker
<1>5. Message'
  BY <1>1, <1>2, <1>3 DEF Message, Carriers
<1>6. PipeReported'
  BY <1>1, <1>3 DEF PipeReported
<1> QED
  BY <1>1, <1>2, <1>3, <1>4, <1>5, <1>6, WorkerMoves

LEMMA ReadPipeKeeps ==
  ASSUME Intact, NEW x \in Workers, ReadPipe(x)
  PROVE  Intact'
<1> USE DEF Intact
<1>1. /\ wpc[x] = "read" /\ wpc'[x] = "rearm"
      /\ \A w \in Workers : w # x => wpc'[w] = wpc[w]
      /\ pipe > 0 /\ pipe' = pipe - 1
      /\ UNCHANGED <<armed, runningInstances, cpc, lock, failed>>
  BY DEF ReadPipe, Goto, TypeOK
<1>2. Stopping /\ pipe = 1 /\ pipe' = 0
  BY <1>1, MessageMeansStopping DEF Message
<1>3. \A w \in Workers \ {x} : wpc[w] \notin {"read", "rearm", "dec", "write"}
  BY <1>1 DEF OneAtATime
<1>4. TypeOK'
  BY TypeStep DEF Next, Worker, Leaving
<1>5. Message'
  <2>1. x \in Carriers'
    BY <1>1 DEF Carriers
  <2> QED
    BY <1>1, <1>2, <1>3, <2>1 DEF Message
<1>6. PipeReported'
  BY <1>1, <1>3 DEF PipeReported
<1> QED
  BY <1>1, <1>2, <1>3, <1>4, <1>5, <1>6, WorkerMoves

LEMMA RearmPipeKeeps ==
  ASSUME Intact, NEW x \in Workers, RearmPipe(x)
  PROVE  Intact'
<1> USE DEF Intact
<1>1. /\ wpc[x] = "rearm" /\ wpc'[x] = "dec"
      /\ \A w \in Workers : w # x => wpc'[w] = wpc[w]
      /\ armed' = TRUE
      /\ UNCHANGED <<pipe, runningInstances, cpc, lock, failed>>
  BY DEF RearmPipe, Goto, TypeOK
<1>2. Stopping /\ pipe = 0
  BY <1>1, MessageMeansStopping DEF Message, Carriers
<1>3. \A w \in Workers \ {x} : wpc[w] \notin {"read", "rearm", "dec", "write"}
  BY <1>1 DEF OneAtATime
<1>4. TypeOK'
  BY TypeStep DEF Next, Worker, Leaving
<1>5. Message'
  <2>1. x \in Carriers'
    BY <1>1 DEF Carriers
  <2> QED
    BY <1>1, <1>2, <1>3, <2>1 DEF Message
<1>6. PipeReported'
  BY <1>1, <1>3 DEF PipeReported
<1> QED
  BY <1>1, <1>2, <1>3, <1>4, <1>5, <1>6, WorkerMoves

LEMMA PassOnKeeps ==
  ASSUME Intact, NEW x \in Workers, PassOn(x)
  PROVE  Intact'
<1> USE DEF Intact
<1>1. /\ wpc[x] = "write" /\ wpc'[x] = "exited"
      /\ \A w \in Workers : w # x => wpc'[w] = wpc[w]
      /\ pipe' = pipe + 1
      /\ UNCHANGED <<armed, runningInstances, cpc, lock, failed>>
  BY DEF PassOn, Goto, TypeOK
<1>2. Stopping /\ pipe' = 1
  BY <1>1, MessageMeansStopping DEF Message, Carriers
<1>3. \A w \in Workers \ {x} : wpc[w] \notin {"read", "rearm", "dec", "write"}
  BY <1>1 DEF OneAtATime
<1>4. TypeOK'
  BY TypeStep DEF Next, Worker, Leaving
<1>5. Message'
  <2>1. \E v \in Workers : v # x /\ wpc[v] = "wait"
    BY <1>1 DEF Message
  <2>2. Carriers' = {}
    BY <1>1, <1>3 DEF Carriers
  <2> QED
    BY <1>1, <1>2, <1>3, <2>1, <2>2 DEF Message
<1>6. PipeReported'
  BY <1>1, <1>2, <1>3 DEF PipeReported
<1> QED
  BY <1>1, <1>2, <1>3, <1>4, <1>5, <1>6, WorkerMoves

(* A worker counts itself out: it passes the message on exactly if another *)
(* worker is left to take it.                                              *)
LEMMA CountOutKeeps ==
  ASSUME Intact, NEW x \in Workers, CountOut(x)
  PROVE  Intact'
<1> USE ChainAssumption DEF Intact
<1>1. /\ wpc[x] = "dec"
      /\ wpc'[x] = IF Decremented > 0 THEN "write" ELSE "exited"
      /\ \A w \in Workers : w # x => wpc'[w] = wpc[w]
      /\ runningInstances' = Decremented
      /\ UNCHANGED <<pipe, armed, cpc, lock, failed>>
  BY DEF CountOut, Goto, TypeOK
<1>2. Stopping /\ ~Spawning /\ pipe = 0
  BY <1>1, MessageMeansStopping DEF Message, Carriers
<1>3. \A w \in Workers \ {x} : wpc[w] \in {"wait", "exited"}
  BY <1>1, <1>2 DEF OneAtATime, Phases
<1>4. TypeOK'
  BY TypeStep DEF Next, Worker, Leaving
<1>5. /\ IsFiniteSet(Counted \ {x})
      /\ Decremented = Cardinality(Counted \ {x})
  <2>1. x \in Counted /\ IsFiniteSet(Counted)
    BY <1>1, FS_Subset DEF Counted
  <2>2. /\ IsFiniteSet(Counted \ {x})
        /\ Cardinality(Counted \ {x}) = Cardinality(Counted) - 1
    BY <2>1, FS_RemoveElement
  <2>3. runningInstances = Cardinality(Counted)
    BY DEF CounterExact, Counted
  <2>4. Cardinality(Counted \ {x}) \in Nat
    BY <2>2, FS_CardinalityType
  <2>5. runningInstances # 0
    BY <2>2, <2>3, <2>4 DEF TypeOK
  <2> QED
    BY <2>2, <2>3, <2>5 DEF Decremented
<1>6. CounterExact'
  <2>1. Counted' = Counted \ {x}
    BY <1>1 DEF Counted
  <2> QED
    BY <1>1, <1>5, <2>1 DEF CounterExact, Counted
<1>7. Decremented > 0 <=> \E v \in Workers \ {x} : wpc[v] = "wait"
  <2>1. Decremented > 0 <=> Counted \ {x} # {}
    BY <1>5, FS_EmptySet, FS_CardinalityType
  <2>2. Counted \ {x} = {v \in Workers \ {x} : wpc[v] = "wait"}
    BY <1>3 DEF Counted
  <2> QED
    BY <2>1, <2>2
<1>8. LockHeld' /\ Stopping' /\ ~Spawning'
  BY <1>1, <1>2 DEF LockHeld, Stopping, Spawning
<1>9. Phases' /\ OneAtATime'
  BY <1>1, <1>2, <1>3, <1>8 DEF Phases, OneAtATime
<1>10. Message'
  <2>1. CASE Decremented > 0
    <3>1. x \in Carriers'
      BY <1>1, <2>1 DEF Carriers
    <3> QED
      BY <1>1, <1>2, <1>3, <1>7, <2>1, <3>1 DEF Message
  <2>2. CASE ~(Decremented > 0)
    <3>1. \A w \in Workers : wpc'[w] = "exited"
      BY <1>1, <1>3, <1>7, <2>2
    <3> QED
      BY <1>1, <1>2, <3>1 DEF Message
  <2> QED
    BY <2>1, <2>2
<1>11. PipeReported'
  BY <1>1, <1>3 DEF PipeReported
<1> QED
  BY <1>1, <1>4, <1>6, <1>8, <1>9, <1>10, <1>11

(* Until epoll_wait fails, every step keeps the whole. *)
LEMMA IntactStep ==
  Intact /\ [Next]_vars => Intact' \/ \E w \in Workers : WaitFails(w)
<1> SUFFICES ASSUME Intact, [Next]_vars, ~\E w \in Workers : WaitFails(w)
             PROVE  Intact'
  OBVIOUS
<1>1. ASSUME NEW c \in Callers, Caller(c) PROVE Intact'
  BY <1>1, RunBeginKeeps, SpawnKeeps, RunEndKeeps, StopBeginKeeps, StopEndKeeps
  DEF Caller
<1>2. ASSUME NEW w \in Workers, Worker(w) PROVE Intact'
  BY <1>2, ControlEventKeeps, ReadPipeKeeps, RearmPipeKeeps, CountOutKeeps,
     PassOnKeeps
  DEF Worker, Leaving
<1>3. CASE UNCHANGED vars
  <2>1. ~failed' /\ TypeOK' /\ CounterExact' /\ LockHeld'
    BY <1>3 DEF vars, Intact, TypeOK, CounterExact, LockHeld
  <2>2. Phases' /\ OneAtATime' /\ Message' /\ PipeReported'
    BY <1>3 DEF vars, Intact, Phases, ThreadsEmpty, Stopping, Spawning,
                OneAtATime, Message, Carriers, PipeReported
  <2> QED
    BY <2>1, <2>2 DEF Intact
<1> QED
  BY <1>1, <1>2, <1>3 DEF Next

(* The part that needs no such hypothesis. *)
LEMMA AlwaysStep == Always /\ [Next]_vars => Always'
<1> SUFFICES ASSUME Always, [Next]_vars PROVE Always'
  OBVIOUS
<1> USE ChainAssumption DEF Always
<1>0. TypeOK'
  BY TypeStep
<1>1. ASSUME NEW c \in Callers, Caller(c)
      PROVE  LockHeld' /\ OneReader' /\ PipeReported'
  <2>1. LockHeld'
    BY <1>1
    DEF Caller, RunBegin, Spawn, RunEnd, StopBegin, StopEnd, LockHeld, TypeOK
  <2>2. CASE RunBegin(c) \/ StopEnd(c)
    <3>1. /\ \A w \in Workers : wpc[w] \notin {"read", "rearm"}
          /\ \A w \in Workers : wpc'[w] \notin {"read", "rearm"}
          /\ UNCHANGED <<pipe, armed>>
      BY <2>2 DEF RunBegin, StopEnd, ThreadsEmpty
    <3> QED
      BY <2>1, <3>1 DEF OneReader, PipeReported
  <2>3. CASE \E w \in Workers : Spawn(c, w)
    <3>1. /\ \A v \in Workers :
               wpc'[v] = wpc[v] \/ (wpc[v] = "new" /\ wpc'[v] = "wait")
          /\ UNCHANGED <<pipe, armed>>
      BY <2>3 DEF Spawn, TypeOK
    <3> QED
      BY <2>1, <3>1 DEF OneReader, PipeReported
  <2>4. CASE RunEnd(c) \/ StopBegin(c)
    <3>1. /\ UNCHANGED <<wpc, armed>>
          /\ pipe' >= pipe
      BY <2>4 DEF RunEnd, StopBegin, TypeOK
    <3> QED
      BY <1>0, <2>1, <3>1 DEF OneReader, PipeReported, TypeOK
  <2> QED
    BY <1>1, <2>2, <2>3, <2>4 DEF Caller
<1>2. ASSUME NEW w \in Workers, Worker(w)
      PROVE  LockHeld' /\ OneReader' /\ PipeReported'
  <2>1. LockHeld' /\ \A v \in Workers : v # w => wpc'[v] = wpc[v]
    BY <1>2
    DEF Worker, Leaving, ControlEvent, ReadPipe, RearmPipe, CountOut, PassOn,
        WaitFails, Goto, LockHeld, TypeOK
  <2>2. CASE ControlEvent(w)
    <3>1. /\ \A v \in Workers : wpc[v] \notin {"read", "rearm"}
          /\ wpc'[w] = "read" /\ armed' = FALSE /\ pipe' = pipe /\ pipe > 0
      BY <2>2 DEF ControlEvent, Goto, PipeReported, TypeOK
    <3> QED
      BY <2>1, <3>1 DEF OneReader, PipeReported
  <2>3. CASE ReadPipe(w) \/ RearmPipe(w)
    <3>1. \/ wpc[w] = "read" /\ wpc'[w] = "rearm" /\ armed' = armed
          \/ wpc[w] = "rearm" /\ wpc'[w] = "dec" /\ armed' = TRUE
      BY <2>3 DEF ReadPipe, RearmPipe, Goto, TypeOK
    <3>2. \A v \in Workers \ {w} : wpc[v] \notin {"read", "rearm"}
      BY <3>1 DEF OneReader
    <3> QED
      BY <2>1, <3>1, <3>2 DEF OneReader, PipeReported
  <2>4. CASE CountOut(w) \/ PassOn(w) \/ WaitFails(w)
    <3>1. /\ wpc[w] \in {"dec", "write", "wait"} /\ wpc'[w] \in {"write", "exited"}
          /\ armed' = armed /\ pipe' >= pipe
      BY <2>4 DEF CountOut, PassOn, WaitFails, Goto, TypeOK
    <3> QED
      BY <1>0, <2>1, <3>1 DEF OneReader, PipeReported, TypeOK
  <2> QED
    BY <1>2, <2>1, <2>2, <2>3, <2>4 DEF Worker, Leaving
<1>3. ASSUME UNCHANGED vars PROVE LockHeld' /\ OneReader' /\ PipeReported'
  BY <1>3 DEF vars, LockHeld, OneReader, PipeReported
<1> QED
  BY <1>0, <1>1, <1>2, <1>3 DEF Next

LEMMA StepIInv == IInv /\ [Next]_vars => IInv'
<1> SUFFICES ASSUME IInv, [Next]_vars PROVE failed' \/ Intact'
  BY AlwaysStep DEF IInv
<1>1. failed => failed'
  BY DEF Next, Caller, Worker, Leaving, vars, RunBegin, Spawn, RunEnd,
         StopBegin, StopEnd, ControlEvent, ReadPipe, RearmPipe, CountOut,
         PassOn, WaitFails
<1>2. ASSUME NEW w \in Workers, WaitFails(w) PROVE failed'
  BY <1>2 DEF WaitFails
<1> QED
  BY <1>1, <1>2, IntactStep DEF IInv

LEMMA Invariance == Spec => []IInv
BY InitIInv, StepIInv, PTL DEF Spec

(* threadCount_ is the number of workers that have not counted out, so it  *)
(* reaches zero in the last worker and never wraps, unless epoll_wait has  *)
(* failed.                                                                 *)
THEOREM CounterHolds == Spec => []CounterExact
<1>1. IInv => CounterExact
  BY DEF IInv, Intact, CounterExact
<1> QED
  BY <1>1, Invariance, PTL

(* A worker that goes to read the self-pipe never blocks there, and a byte *)
(* in the pipe is always announced to whoever polls next.                  *)
THEOREM PipeHolds == Spec => []PipeReported
BY Invariance, PTL DEF IInv, Always

(* threadCount_, the self-pipe and its registration agree with where the   *)
(* workers are.                                                            *)
THEOREM ConsistentHolds == Spec => []Consistent
BY TypeCorrect, CounterHolds, PipeHolds, PTL DEF Consistent

LEMMA IntactOneBaton == Intact => OneBaton
<1> SUFFICES ASSUME Intact PROVE OneBaton
  OBVIOUS
<1> USE ChainAssumption DEF Intact
<1>1. CASE Carriers = {}
  <2>1. Cardinality(Carriers) = 0
    BY <1>1, FS_EmptySet
  <2>2. pipe = 1 => Stopping
    BY MessageMeansStopping, ChainAssumption DEF Phases
  <2> QED
    BY <1>1, <2>1, <2>2 DEF OneBaton, Message
<1>2. CASE Carriers # {}
  <2>1. PICK x \in Carriers : TRUE
    BY <1>2
  <2>2. Carriers = {x} /\ x \in Workers
    BY <2>1 DEF Carriers, OneAtATime
  <2>3. Cardinality(Carriers) = 1
    BY <2>2, FS_Singleton
  <2>4. wpc[x] \in {"rearm", "dec", "write"}
    BY <2>1 DEF Carriers
  <2>5. Stopping /\ wpc[x] # "exited" /\ pipe = 0
    BY <1>2, <2>2, <2>4, MessageMeansStopping DEF Message
  <2> QED
    BY <2>2, <2>3, <2>5 DEF OneBaton
<1> QED
  BY <1>1, <1>2

(* The daisy chain never breaks and leaves nothing behind: while stop()    *)
(* waits there is one exit message, otherwise there is none, until         *)
(* epoll_wait fails.                                                       *)
THEOREM BatonHolds == Spec => []OneBaton
<1>1. IInv => OneBaton
  BY IntactOneBaton DEF IInv, OneBaton
<1> QED
  BY <1>1, Invariance, PTL

-----------------------------------------------------------------------------
(* Refinement: run() and stop() on ThreadGroup.                            *)

Alive == {w \in Workers : wpc[w] \notin {"none", "exited"}}

LEMMA GroupStep == IInv /\ [Next]_vars => [TG!Next]_(TG!tgVars)
<1> SUFFICES ASSUME IInv, [Next]_vars PROVE TG!Next \/ UNCHANGED TG!tgVars
  OBVIOUS
<1> USE ChainAssumption DEF IInv, Always
<1>1. ASSUME NEW c \in Callers, RunBegin(c) PROVE TG!Next
  <2>1. /\ ThreadsEmpty /\ ~Stopping /\ failed' = failed
        /\ \A w \in Workers : wpc'[w] = "new"
        /\ \A d \in Callers : cpc'[d] # "join"
    BY <1>1, NobodyInside DEF RunBegin, Stopping, TypeOK
  <2>2. ~ThreadsEmpty' /\ ~Stopping' /\ Alive' = Workers
    BY <2>1 DEF ThreadsEmpty, Stopping, Alive
  <2>3. TG!Start
    BY <2>1, <2>2 DEF TG!Start, Alive
  <2> QED
    BY <2>3 DEF TG!Next
<1>2. ASSUME NEW c \in Callers, NEW w \in Workers, Spawn(c, w)
      PROVE  UNCHANGED TG!tgVars
  <2>1. /\ wpc[w] = "new" /\ wpc'[w] = "wait" /\ cpc' = cpc /\ failed' = failed
        /\ \A v \in Workers : v # w => wpc'[v] = wpc[v]
    BY <1>2 DEF Spawn, TypeOK
  <2>2. /\ ~ThreadsEmpty /\ ~ThreadsEmpty' /\ (Stopping' <=> Stopping)
        /\ Alive' = Alive
    BY <2>1 DEF ThreadsEmpty, Stopping, Alive
  <2> QED
    BY <2>1, <2>2 DEF TG!tgVars, Alive
<1>3. ASSUME NEW c \in Callers, RunEnd(c) PROVE UNCHANGED TG!tgVars
  <2>1. ~Stopping /\ ~Stopping' /\ wpc' = wpc /\ failed' = failed
    <3>1. \A d \in Callers : d # c => cpc[d] = "idle"
      BY <1>3, OneCaller DEF RunEnd
    <3>2. \A d \in Callers : cpc'[d] = "idle"
      BY <1>3, <3>1 DEF RunEnd, TypeOK
    <3> QED
      BY <1>3, <3>1, <3>2 DEF RunEnd, Stopping
  <2> QED
    BY <2>1 DEF TG!tgVars, ThreadsEmpty
<1>4. ASSUME NEW c \in Callers, StopBegin(c) PROVE TG!Next
  <2>1. /\ ~ThreadsEmpty /\ ~Stopping /\ cpc'[c] = "join" /\ wpc' = wpc
        /\ failed' = failed
    BY <1>4, NobodyInside DEF StopBegin, TypeOK
  <2>2. ~ThreadsEmpty' /\ Stopping' /\ Alive' = Alive
    BY <2>1 DEF ThreadsEmpty, Stopping, Alive
  <2>3. TG!RequestStop
    BY <2>1, <2>2 DEF TG!RequestStop, Alive
  <2> QED
    BY <2>3 DEF TG!Next
<1>5. ASSUME NEW c \in Callers, StopEnd(c) PROVE TG!Next
  <2>1. /\ cpc[c] = "join" /\ failed' = failed
        /\ \A w \in Workers : wpc[w] = "exited" /\ wpc'[w] = "none"
    BY <1>5 DEF StopEnd
  <2>2. Stopping /\ ~ThreadsEmpty /\ Alive = {} /\ ThreadsEmpty' /\ Alive' = {}
    BY <2>1 DEF Stopping, ThreadsEmpty, Alive
  <2>3. TG!Stopped
    BY <2>1, <2>2 DEF TG!Stopped, Alive
  <2> QED
    BY <2>3 DEF TG!Next
<1>6. ASSUME NEW w \in Workers, Worker(w) PROVE TG!Next \/ UNCHANGED TG!tgVars
  <2>1. /\ cpc' = cpc /\ wpc[w] \in {"wait", "read", "rearm", "dec", "write"}
        /\ wpc'[w] \in {"read", "rearm", "dec", "write", "exited"}
        /\ wpc'[w] = "exited" => wpc[w] \in {"dec", "write"} \/ WaitFails(w)
        /\ \A v \in Workers : v # w => wpc'[v] = wpc[v]
        /\ IF WaitFails(w) THEN failed' = TRUE ELSE failed' = failed
    BY <1>6
    DEF Worker, Leaving, ControlEvent, ReadPipe, RearmPipe, CountOut, PassOn,
        WaitFails, Goto, TypeOK
  <2>2. ~ThreadsEmpty /\ ~ThreadsEmpty' /\ (Stopping' <=> Stopping)
    BY <2>1 DEF ThreadsEmpty, Stopping
  <2>3. ASSUME wpc'[w] = "exited" PROVE w \in Alive /\ Alive' = Alive \ {w}
    BY <2>1, <2>3 DEF Alive
  <2>4. CASE WaitFails(w)
    <3>1. wpc'[w] = "exited"
      BY <2>4 DEF WaitFails, Goto, TypeOK
    <3>2. TG!BreakOff(w)
      BY <2>1, <2>2, <2>3, <2>4, <3>1 DEF TG!BreakOff, Alive
    <3> QED
      BY <3>2 DEF TG!Next
  <2>5. CASE wpc'[w] = "exited" /\ ~WaitFails(w)
    <3>1. Stopping \/ failed
      BY <2>1, <2>5, MessageMeansStopping
    <3>2. TG!Exit(w)
      BY <2>1, <2>2, <2>3, <2>5, <3>1 DEF TG!Exit, Alive
    <3> QED
      BY <3>2 DEF TG!Next
  <2>6. CASE wpc'[w] # "exited"
    <3>1. Alive' = Alive /\ ~WaitFails(w)
      BY <2>1, <2>6 DEF Alive, WaitFails, Goto, TypeOK
    <3> QED
      BY <2>1, <2>2, <3>1 DEF TG!tgVars, Alive
  <2> QED
    BY <2>4, <2>5, <2>6
<1>7. CASE UNCHANGED vars
  BY <1>7 DEF vars, TG!tgVars, ThreadsEmpty, Stopping
<1> QED
  BY <1>1, <1>2, <1>3, <1>4, <1>5, <1>6, <1>7 DEF Next, Caller

(* run() and stop() treat the workers as one thread group: no worker       *)
(* leaves before stop() is called unless epoll_wait has failed, all have   *)
(* left when it returns.                                                   *)
THEOREM ChainImplementsThreadGroup == Spec => ImplementsThreadGroup
<1>1. Init => TG!Init
  BY ChainAssumption DEF Init, TG!Init, ThreadsEmpty
<1>2. Spec => []IInv
  BY Invariance
<1>3. IInv /\ [Next]_vars => [TG!Next]_(TG!tgVars)
  BY GroupStep
<1> QED
  BY <1>1, <1>2, <1>3, PTL DEF Spec, ImplementsThreadGroup, TG!Spec
=============================================================================
