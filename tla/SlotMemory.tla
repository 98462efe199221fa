----------------------------- MODULE SlotMemory -----------------------------
(***************************************************************************)
(* The memory of the client slots: comm::detail::genmap and delmap         *)
(* (src/mem.hpp) under atomic_stack::create and destroy                    *)
(* (src/atomic_stack.hpp), with the arithmetic of std::size_t.             *)
(***************************************************************************)
EXTENDS Naturals

CONSTANTS
  PageSize,   \* getpagesize()
  NodeSize,   \* sizeof(atomic_node<client>)
  SizeRange,  \* values of std::size_t: 2^64 in the code
  Hints       \* the capacities asked for

ASSUME SlotMemoryAssumption ==
  /\ PageSize \in Nat \ {0}
  /\ NodeSize \in Nat \ {0}
  /\ SizeRange \in Nat \ {0} /\ SizeRange % PageSize = 0
  /\ Hints \subseteq 0 .. SizeRange - 1

VARIABLES
  hint,      \* the capacity asked for
  buffer,    \* buffer_: "null", "mapped", "wild" (MAP_FAILED) or "guarded"
  capacity,  \* clientCap_ and capacity_
  mapped,    \* bytes of the mapping
  written,   \* bytes from the start of the buffer that create() writes
  unmapped   \* bytes from the start of the buffer that destroy() unmapped

memory == <<hint, buffer, capacity, mapped, written, unmapped>>

MemoryInit ==
  /\ hint \in Hints
  /\ buffer = "null" /\ capacity = 0 /\ mapped = 0 /\ written = 0 /\ unmapped = 0

(* A faulty variant, for the checks: rounded down. *)
RoundedDown(n) == n - (n % PageSize)

(* A number of slots, rounded up to a multiple of the page size in bytes. *)
Rounded(n) ==
  IF n % PageSize = 0 THEN n ELSE (n + PageSize - (n % PageSize)) % SizeRange

Bytes(slots) == (slots * NodeSize) % SizeRange

(* How the system calls of genmap() end.  memfd_create() and ftruncate()   *)
(* are checked; the first mmap() returns MAP_FAILED, also for zero bytes,  *)
(* and the second leaves the memory inaccessible.                          *)
Mapping(size) ==
  {"null"} \cup (IF size = 0 THEN {"wild"} ELSE {"mapped", "wild", "guarded"})

(* atomic_stack::create: the mapping, then one node after the other, up to *)
(* the one numbered capacity - 1.                                          *)
CreateSlots ==
  /\ buffer = "null"
  /\ capacity' = Rounded(hint)
  /\ buffer' \in Mapping(Bytes(capacity'))
  /\ mapped' = IF buffer' = "mapped" THEN Bytes(capacity') ELSE 0
  /\ written' = IF buffer' = "null" THEN 0
                ELSE (((capacity' + SizeRange - 1) % SizeRange) + 1) * NodeSize
  /\ UNCHANGED <<hint, unmapped>>

(* A faulty variant: the size of a slot is forgotten. *)
UnmappedSlots(slots) == 2 * slots

(* delmap() unmaps twice what was mapped. *)
Unmapped(slots) == Bytes(2 * slots)

(* atomic_stack::destroy. *)
DestroySlots ==
  /\ buffer = "mapped"
  /\ buffer' = "null"
  /\ unmapped' = Unmapped(capacity)
  /\ UNCHANGED <<hint, capacity, mapped, written>>

-----------------------------------------------------------------------------

(* Types of the mapping behind the slots. *)
MemoryTypeOK ==
  /\ hint \in Hints
  /\ buffer \in {"null", "mapped", "wild", "guarded"}
  /\ {capacity, mapped, unmapped} \subseteq 0 .. SizeRange - 1
  /\ written \in 0 .. SizeRange * NodeSize

(* The arithmetic of a capacity hint exceeds std::size_t. *)
Wraps(n) == (n + PageSize) * NodeSize >= SizeRange

(* create() gives at least the slots asked for, whole pages of them, and   *)
(* writes nodes inside the mapping only.  A hint so large that a size      *)
(* wraps has nodes outside, and a hint of zero has them everywhere.        *)
SlotsFit ==
  buffer = "mapped" /\ ~Wraps(hint) =>
    /\ capacity >= hint /\ capacity < hint + PageSize
    /\ capacity % PageSize = 0
    /\ written = mapped

(* After destroy() nothing of the mapping is left, though twice its size   *)
(* was unmapped.                                                           *)
NothingLeftMapped ==
  unmapped > 0 /\ 2 * capacity * NodeSize < SizeRange => unmapped >= mapped
=============================================================================
