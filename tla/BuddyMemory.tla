------------------------------ MODULE BuddyMemory ------------------------------
(***************************************************************************)
(* buddy_memory.c: the memory as the list of its blocks, and what one split *)
(* and one merge do to it.  The list is a sequence; a pointer to a block is *)
(* the block's start, which no operation changes.  `allocated' is the size  *)
(* that was asked for, 0 for a free block.                                  *)
(***************************************************************************)
EXTENDS Integers, Sequences, SequencesExt

CONSTANT MAX_SIZE   (* 1024 in the code *)

(* The powers of two that are sizes of blocks. *)
ASSUME MaxSizeAssumption == \E k \in 0 .. MAX_SIZE : MAX_SIZE = 2 ^ k

Blocks == [start : Nat, size : Nat, allocated : Nat]

Ends(b) == b.start + b.size

init_memory == <<[start |-> 0, size |-> MAX_SIZE, allocated |-> 0]>>

(* The index of the block at an address, and whether there is one. *)
HasBlock(memory, start) == \E i \in DOMAIN memory : memory[i].start = start
IndexOfBlock(memory, start) == CHOOSE i \in DOMAIN memory : memory[i].start = start

(* Blocks that a request fits in. *)
Fitting(memory, size) ==
  {i \in DOMAIN memory : memory[i].allocated = 0 /\ memory[i].size >= size}

(* The first of the smallest of them; the caller has seen that there is one. *)
get_smallest_block_available(memory, size) ==
  CHOOSE i \in Fitting(memory, size) : \A j \in Fitting(memory, size) :
    memory[i].size < memory[j].size \/ (memory[i].size = memory[j].size /\ i <= j)

split_block(memory, i) ==
  LET half == memory[i].size \div 2
  IN  InsertAt([memory EXCEPT ![i].size = half], i + 1,
               [start |-> memory[i].start + half, size |-> half, allocated |-> 0])

(* (int)log2(size) and (int)ceil(log2(size)).  Both are undefined for 0:    *)
(* the conversion of -inf gives the same least int for both, here -1.       *)
FloorLog2(size) ==
  IF size = 0 THEN -1 ELSE CHOOSE k \in 0 .. size : 2 ^ k <= size /\ size < 2 ^ (k + 1)
CeilLog2(size) ==
  IF size = 0 THEN -1 ELSE CHOOSE k \in 0 .. size : size <= 2 ^ k /\ (k > 0 => 2 ^ (k - 1) < size)

(* The sizes that blocks can have. *)
BlockSizes == {2 ^ k : k \in 0 .. FloorLog2(MAX_SIZE)}

TooLarge_above(block, size) == FloorLog2(block.size) > FloorLog2(size)
TooLarge(block, size) == FloorLog2(block.size) # CeilLog2(size)

(* start ^ size is above start where start is an even multiple of size.     *)
BuddyOnRight(block) == block.size > 0 /\ (block.start \div block.size) % 2 = 0

Buddy_next(memory, i) == i + 1
Buddy_right(memory, i) == IF BuddyOnRight(memory[i]) THEN i + 1 ELSE 0
Buddy(memory, i) == IF BuddyOnRight(memory[i]) THEN i + 1 ELSE i - 1

Mergeable_any(memory, i) ==
  LET b == Buddy(memory, i) IN b \in DOMAIN memory /\ memory[b].size = memory[i].size
Mergeable(memory, i) ==
  LET b == Buddy(memory, i)
  IN  b \in DOMAIN memory /\ memory[b].size = memory[i].size /\ memory[b].allocated = 0

(* One level of merge_block: the left block of the two takes the right in.  *)
MergedAt(memory, i) == IF Buddy(memory, i) > i THEN i ELSE Buddy(memory, i)
merge_block(memory, i) ==
  LET l == MergedAt(memory, i)
  IN  RemoveAt([memory EXCEPT ![l].size = 2 * @], l + 1)
-----------------------------------------------------------------------------
(* The list tiles the memory: the blocks lie side by side from 0 to         *)
(* MAX_SIZE, each of a size that is a power of two and at a multiple of it. *)
MemoryOK(memory) ==
  /\ memory \in Seq(Blocks) /\ Len(memory) > 0
  /\ memory[1].start = 0
  /\ Ends(memory[Len(memory)]) = MAX_SIZE
  /\ \A i \in 1 .. Len(memory) - 1 : memory[i + 1].start = Ends(memory[i])
  /\ \A i, j \in DOMAIN memory : i < j => Ends(memory[i]) <= memory[j].start
  /\ \A i \in DOMAIN memory :
       memory[i].size \in BlockSizes /\ memory[i].start % memory[i].size = 0

AllocatedBlocks(memory) ==
  {memory[i] : i \in {j \in DOMAIN memory : memory[j].allocated # 0}}

(* Two neighbours that a merge could join: of one size, the left of them at *)
(* an even multiple of it.                                                  *)
BuddiesAt(memory, l) ==
  /\ l \in 1 .. Len(memory) - 1
  /\ memory[l].size = memory[l + 1].size
  /\ (memory[l].start \div memory[l].size) % 2 = 0

FreeBuddies(memory, l) ==
  BuddiesAt(memory, l) /\ memory[l].allocated = 0 /\ memory[l + 1].allocated = 0
=============================================================================
