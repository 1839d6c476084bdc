-------------------------- MODULE MemoryManagerProofs --------------------------
(***************************************************************************)
(* The memory manager, for every size of the memory, every set of processes *)
(* and all sizes they may ask for but 0, which no block is right for.       *)
(***************************************************************************)
EXTENDS MemoryManager, BuddyMemoryProofs

(* The block at hand, while there is one.                                   *)
LEMMA Hand ==
  ASSUME MemoryOK(memory), HasBlock(memory, block)
  PROVE  /\ At \in DOMAIN memory /\ memory[At].start = block
         /\ memory[At] \in Blocks
         /\ memory[At].start \in Nat /\ memory[At].size \in Nat \ {0}
         /\ memory[At].size \in BlockSizes /\ memory[At].allocated \in Nat
BY BlockByStart, BlockTypes DEF At

(* The block of a process that holds one.                                   *)
LEMMA HeldBlock ==
  ASSUME MemInv, NEW p \in Procs, held[p] # NULL
  PROVE  LET i == IndexOfBlock(memory, held[p])
         IN  /\ i \in DOMAIN memory /\ memory[i].start = held[p]
             /\ memory[i] \in AllocatedBlocks(memory) /\ memory[i].allocated # 0
<1>1. PICK i \in DOMAIN memory : memory[i].allocated # 0 /\ memory[i].start = held[p]
  BY DEF MemInv, HeldInv, AllocatedBlocks
<1>2. IndexOfBlock(memory, held[p]) = i
  BY <1>1, BlockByStart DEF MemInv
<1> QED
  BY <1>1, <1>2 DEF AllocatedBlocks

(* If the allocated blocks stay what they are, so does what is held.        *)
LEMMA HeldFrame ==
  ASSUME MemInv, AllocatedBlocks(memory') = AllocatedBlocks(memory), held' = held
  PROVE  /\ HeldInv'
         /\ \A p \in Procs : held'[p] # NULL => HasBlock(memory', held'[p])
<1>1. HeldInv'
  BY DEF MemInv, HeldInv
<1>2. ASSUME NEW p \in Procs, held'[p] # NULL
      PROVE  HasBlock(memory', held'[p])
  BY <1>1, <1>2 DEF HeldInv, HasBlock, AllocatedBlocks
<1> QED
  BY <1>1, <1>2

(* Free buddies are left only where the block at hand is.                   *)
LEMMA LeftBuddies ==
  ASSUME MemInv, NEW m, FreeBuddies(memory, m)
  PROVE  pc # "idle" /\ At \in {m, m + 1}
<1>1. m \in 1 .. Len(memory) - 1 /\ DOMAIN memory = 1 .. Len(memory) /\ Len(memory) \in Nat
  BY BlockTypes DEF MemInv, FreeBuddies, BuddiesAt
<1>2. m \in DOMAIN memory
  BY <1>1
<1> QED
  BY <1>2 DEF MemInv, HandInv
-----------------------------------------------------------------------------
(* The state that init_memory_manager leaves satisfies the invariant.       *)
LEMMA MemInit == Init => MemInv
<1> SUFFICES ASSUME Init PROVE MemInv
  OBVIOUS
<1>1. memory = init_memory /\ held = [p \in Procs |-> NULL] /\ pc = "idle" /\ block = 0
  BY DEF Init
<1>2. TypeOK
  BY <1>1, InitList DEF Init, TypeOK, MemoryOK
<1>3. HeldInv
  BY <1>1, InitList DEF HeldInv
<1>4. HandInv
  BY <1>1, InitList DEF HandInv
<1> QED
  BY <1>1, <1>2, <1>3, <1>4, InitList DEF MemInv

(* allocate_memory picks a free block that is large enough.                 *)
LEMMA MemAllocate ==
  ASSUME 0 \notin Sizes, MemInv, NEW p \in Procs, NEW size \in Sizes,
         allocate_memory(p, size)
  PROVE  MemInv'
<1> DEFINE i == get_smallest_block_available(memory, size)
<1>1. MemoryOK(memory) /\ TypeOK /\ size \in Nat /\ size # 0
  BY SizesAssumption DEF MemInv
<1>2. i \in Fitting(memory, size)
  BY <1>1, SmallestFits DEF allocate_memory
<1> HIDE DEF i
<1>3. /\ i \in DOMAIN memory /\ memory[i].allocated = 0 /\ memory[i].size >= size
      /\ memory[i].start \in Nat /\ memory[i].size \in Nat
  BY <1>1, <1>2, BlockTypes DEF Fitting
<1>4. /\ pc = "idle" /\ pc' = "split" /\ memory' = memory /\ held' = held
      /\ block' = memory[i].start /\ caller' = p /\ request' = size /\ held[p] = NULL
  BY DEF allocate_memory, i
<1>5. At' = i
  BY <1>1, <1>3, <1>4, BlockByStart DEF At
<1>6. HasBlock(memory, block')
  BY <1>3, <1>4 DEF HasBlock
<1>7. TypeOK'
  BY <1>1, <1>3, <1>4, <1>6 DEF TypeOK
<1>8. HandInv'
  BY <1>1, <1>3, <1>4, <1>5 DEF MemInv, HandInv
<1>9. HeldInv'
  BY <1>4 DEF MemInv, HeldInv
<1> QED
  BY <1>1, <1>4, <1>7, <1>8, <1>9 DEF MemInv

(* A split leaves the left half at hand, which is still large enough: the   *)
(* two halves are the only free buddies.                                    *)
LEMMA MemSplit ==
  ASSUME MemInv, Split
  PROVE  MemInv'
<1>1. MemoryOK(memory) /\ TypeOK /\ HandInv
  BY DEF MemInv
<1>2. /\ pc = "split" /\ TooLarge(memory[At], request) /\ memory' = split_block(memory, At)
      /\ UNCHANGED <<held, pc, block, caller, request>>
  BY DEF Split
<1>3. HasBlock(memory, block) /\ request \in Nat \ {0} /\ request <= memory[At].size
  BY <1>1, <1>2 DEF TypeOK, HandInv
<1>4. /\ At \in DOMAIN memory /\ memory[At].start = block /\ memory[At].allocated = 0
      /\ memory[At].size \in Nat \ {0} /\ memory[At].size \in BlockSizes
  BY <1>1, <1>2, <1>3, Hand DEF HandInv
<1>5. 2 * request <= memory[At].size
  <2>1. PICK k \in Nat : memory[At].size = 2 ^ k
    BY <1>4, MaxSizeOrder DEF BlockSizes
  <2> QED
    BY <1>2, <1>3, <2>1, TooLargeMeansHalf
<1>6. memory[At].size >= 2
  BY <1>3, <1>4, <1>5
<1> DEFINE i == At
<1>7. /\ MemoryOK(memory') /\ i \in DOMAIN memory'
      /\ memory'[i].start = memory[i].start /\ memory'[i].allocated = 0
      /\ memory'[i].size \in Nat /\ 2 * memory'[i].size = memory[i].size
      /\ AllocatedBlocks(memory') = AllocatedBlocks(memory)
      /\ \A l : FreeBuddies(memory', l) =>
           i \in {l, l + 1} \/ \E m : FreeBuddies(memory, m) /\ i \notin {m, m + 1}
  BY <1>1, <1>2, <1>4, <1>6, SplitEffect
<1>8. At' = i
  BY <1>2, <1>4, <1>7, BlockByStart DEF At
<1>9. HeldInv' /\ \A p \in Procs : held'[p] # NULL => HasBlock(memory', held'[p])
  BY <1>2, <1>7, HeldFrame
<1>10. HasBlock(memory', block')
  BY <1>2, <1>4, <1>7 DEF HasBlock
<1>11. TypeOK'
  BY <1>1, <1>2, <1>7, <1>9, <1>10 DEF TypeOK, MemoryOK
<1>12. \A m : FreeBuddies(memory, m) => i \in {m, m + 1}
  BY LeftBuddies
<1>13. request' <= memory'[i].size /\ request' # 0
  BY <1>2, <1>3, <1>5, <1>7
<1> HIDE DEF i
<1>14. HandInv'
  BY <1>1, <1>2, <1>7, <1>8, <1>12, <1>13 DEF HandInv
<1> QED
  BY <1>7, <1>9, <1>11, <1>14 DEF MemInv

(* An allocated block is as large as the request, and its half is not.      *)
LEMMA MemMark ==
  ASSUME MemInv, Mark
  PROVE  MemInv'
<1> DEFINE i  == At
           nb == [memory[i] EXCEPT !.allocated = request]
<1>1. MemoryOK(memory) /\ TypeOK /\ HandInv /\ HeldInv
  BY DEF MemInv
<1>2. /\ pc = "split" /\ pc' = "idle" /\ ~TooLarge(memory[i], request)
      /\ memory' = Marked(memory, i, request) /\ held' = [held EXCEPT ![caller] = block]
      /\ block' = 0 /\ caller' = NULL /\ request' = 0
  BY DEF Mark, Marked
<1>3. /\ HasBlock(memory, block) /\ caller \in Procs /\ held[caller] = NULL
      /\ request \in Nat \ {0} /\ request <= memory[i].size
  BY <1>1, <1>2 DEF TypeOK, HandInv
<1>4. /\ i \in DOMAIN memory /\ memory[i].start = block /\ memory[i].allocated = 0
      /\ memory[i] \in Blocks
      /\ memory[i].size \in Nat \ {0} /\ memory[i].size \in BlockSizes /\ block \in Nat
  BY <1>1, <1>2, <1>3, Hand DEF HandInv
<1>5. memory[i].size < 2 * request
  <2>1. PICK k \in Nat : memory[i].size = 2 ^ k
    BY <1>4, MaxSizeOrder DEF BlockSizes
  <2>2. ~(2 * request <= memory[i].size)
    BY <1>2, <1>3, <2>1, TooLargeMeansHalf
  <2> QED
    BY <1>3, <1>4, <2>2
<1> HIDE DEF i
<1>6. /\ MemoryOK(memory') /\ DOMAIN memory' = DOMAIN memory
      /\ \A j \in DOMAIN memory : memory'[j].start = memory[j].start
  <2>1. request \in Nat
    BY <1>3
  <2>2. /\ MemoryOK(memory') /\ DOMAIN memory' = DOMAIN memory
        /\ memory'[i] = [memory[i] EXCEPT !.allocated = request]
        /\ memory'[i].allocated = request
        /\ memory'[i].start = memory[i].start /\ memory'[i].size = memory[i].size
        /\ \A j \in DOMAIN memory : j # i => memory'[j] = memory[j]
    BY <1>1, <1>2, <1>4, <2>1, MarkBlock
  <2> QED
    BY <2>2
<1>7. /\ AllocatedBlocks(memory') = AllocatedBlocks(memory) \cup {nb}
      /\ \A l : FreeBuddies(memory', l) => FreeBuddies(memory, l) /\ i \notin {l, l + 1}
  BY <1>1, <1>2, <1>3, <1>4, MarkAllocated
<1>8. nb.start = block /\ nb.size = memory[i].size /\ nb.allocated = request
  BY <1>4 DEF Blocks
<1> HIDE DEF nb
<1>9. \A p \in Procs : held[p] # block
  <2> SUFFICES ASSUME NEW p \in Procs, held[p] = block
               PROVE  FALSE
    OBVIOUS
  <2>1. held[p] # NULL
    BY <1>4, NullAssumption
  <2>2. IndexOfBlock(memory, held[p]) = i /\ memory[i].allocated # 0
    BY <1>1, <1>4, <2>1, HeldBlock, BlockByStart
  <2> QED
    BY <1>4, <2>2
<1>10. /\ held \in [Procs -> Nat \cup {NULL}]
       /\ held' \in [Procs -> Nat \cup {NULL}]
       /\ held'[caller] = block
       /\ \A p \in Procs : p # caller => held'[p] = held[p]
  BY <1>1, <1>2, <1>3, <1>4 DEF TypeOK
<1>11. HeldInv'
  <2>1. ASSUME NEW p \in Procs, NEW q \in Procs, held'[p] # NULL, held'[p] = held'[q]
        PROVE  p = q
    BY <1>1, <1>9, <1>10, <2>1 DEF HeldInv
  <2>2. ASSUME NEW p \in Procs, held'[p] # NULL
        PROVE  \E b \in AllocatedBlocks(memory') : b.start = held'[p]
    BY <1>1, <1>7, <1>8, <1>10, <2>2 DEF HeldInv
  <2>3. ASSUME NEW b \in AllocatedBlocks(memory')
        PROVE  /\ \E p \in Procs : held'[p] = b.start
               /\ b.allocated <= b.size /\ b.size < 2 * b.allocated
    <3>1. CASE b = nb
      BY <1>3, <1>5, <1>8, <1>10, <3>1
    <3>2. CASE b \in AllocatedBlocks(memory)
      <4>1. PICK p \in Procs : held[p] = b.start
        BY <1>1, <3>2 DEF HeldInv
      <4>2. b.start # NULL
        BY <3>2, <1>1, BlockTypes, NullAssumption DEF AllocatedBlocks
      <4>3. held'[p] = b.start
        BY <1>3, <1>10, <4>1, <4>2
      <4>4. b.allocated <= b.size /\ b.size < 2 * b.allocated
        BY <1>1, <3>2 DEF HeldInv
      <4> QED
        BY <4>3, <4>4
    <3> QED
      BY <1>7, <3>1, <3>2
  <2> QED
    BY <2>1, <2>2, <2>3 DEF HeldInv
<1>12. TypeOK'
  <2>1. \A p \in Procs : held'[p] # NULL => HasBlock(memory', held'[p])
    BY <1>11 DEF HeldInv, HasBlock, AllocatedBlocks
  <2> QED
    BY <1>2, <1>6, <1>10, <2>1 DEF TypeOK, MemoryOK
<1>13. \A l : ~FreeBuddies(memory', l)
  BY <1>7, LeftBuddies DEF i
<1>14. HandInv'
  BY <1>2, <1>13 DEF HandInv
<1> QED
  BY <1>6, <1>11, <1>12, <1>14 DEF MemInv

(* The block of a process that has exited is free, and is at hand.          *)
LEMMA MemDeallocate ==
  ASSUME MemInv, NEW p \in Procs, deallocate_memory(p)
  PROVE  MemInv'
<1> DEFINE i == IndexOfBlock(memory, held[p])
<1>1. MemoryOK(memory) /\ TypeOK /\ HandInv /\ HeldInv
  BY DEF MemInv
<1>2. /\ pc = "idle" /\ held[p] # NULL /\ pc' = "merge" /\ block' = held[p]
      /\ held' = [held EXCEPT ![p] = NULL]
      /\ memory' = Marked(memory, i, 0)
      /\ UNCHANGED <<caller, request>>
  BY DEF deallocate_memory, Marked
<1>3. /\ i \in DOMAIN memory /\ memory[i].start = held[p]
      /\ memory[i].allocated # 0
  BY <1>2, HeldBlock
<1> HIDE DEF i
<1>4. held[p] \in Nat
  BY <1>1, <1>2 DEF TypeOK
<1>5. /\ MemoryOK(memory') /\ DOMAIN memory' = DOMAIN memory
      /\ memory'[i].start = memory[i].start /\ memory'[i].allocated = 0
  <2>1. PICK r \in Nat : r = 0 /\ memory' = Marked(memory, i, r)
    BY <1>2
  <2>2. /\ MemoryOK(memory') /\ DOMAIN memory' = DOMAIN memory
        /\ memory'[i] = [memory[i] EXCEPT !.allocated = r]
        /\ memory'[i].start = memory[i].start /\ memory'[i].allocated = r
    BY <1>1, <1>3, <2>1, MarkBlock
  <2> QED
    BY <2>1, <2>2
<1>6. /\ AllocatedBlocks(memory') = AllocatedBlocks(memory) \ {memory[i]}
      /\ \A l : FreeBuddies(memory', l) => FreeBuddies(memory, l) \/ i \in {l, l + 1}
  BY <1>1, <1>2, <1>3, MarkFree
<1>7. /\ held \in [Procs -> Nat \cup {NULL}]
      /\ held' \in [Procs -> Nat \cup {NULL}]
      /\ held'[p] = NULL
      /\ \A q \in Procs : q # p => held'[q] = held[q]
  BY <1>1, <1>2 DEF TypeOK
<1>8. HeldInv'
  <2>1. ASSUME NEW q \in Procs, NEW r \in Procs, held'[q] # NULL, held'[q] = held'[r]
        PROVE  q = r
    BY <1>1, <1>7, <2>1 DEF HeldInv
  <2>2. ASSUME NEW q \in Procs, held'[q] # NULL
        PROVE  \E b \in AllocatedBlocks(memory') : b.start = held'[q]
    <3>1. q # p /\ held'[q] = held[q] /\ held[q] # held[p]
      BY <1>1, <1>7, <2>2 DEF HeldInv
    <3>2. PICK b \in AllocatedBlocks(memory) : b.start = held[q]
      BY <1>1, <2>2, <3>1 DEF HeldInv
    <3> QED
      BY <1>3, <1>6, <3>1, <3>2
  <2>3. ASSUME NEW b \in AllocatedBlocks(memory')
        PROVE  /\ \E q \in Procs : held'[q] = b.start
               /\ b.allocated <= b.size /\ b.size < 2 * b.allocated
    <3>1. b \in AllocatedBlocks(memory) /\ b # memory[i]
      BY <1>6
    <3>2. PICK q \in Procs : held[q] = b.start
      BY <1>1, <3>1 DEF HeldInv
    <3>3. b.start # memory[i].start
      BY <1>1, <1>3, <3>1, BlockByStart DEF AllocatedBlocks
    <3>4. q # p /\ held'[q] = b.start
      BY <1>3, <1>7, <3>2, <3>3
    <3>5. b.allocated <= b.size /\ b.size < 2 * b.allocated
      BY <1>1, <3>1 DEF HeldInv
    <3> QED
      BY <3>4, <3>5
  <2> QED
    BY <2>1, <2>2, <2>3 DEF HeldInv
<1>9. At' = i
  BY <1>2, <1>3, <1>5, BlockByStart DEF At
<1>10. TypeOK'
  <2>1. \A q \in Procs : held'[q] # NULL => HasBlock(memory', held'[q])
    BY <1>8 DEF HeldInv, HasBlock, AllocatedBlocks
  <2>2. HasBlock(memory', block')
    BY <1>2, <1>3, <1>5 DEF HasBlock
  <2> QED
    BY <1>1, <1>2, <1>4, <1>5, <1>7, <2>1, <2>2 DEF TypeOK, MemoryOK
<1>11. HandInv'
  BY <1>2, <1>5, <1>6, <1>9, LeftBuddies DEF HandInv
<1> QED
  BY <1>5, <1>8, <1>10, <1>11 DEF MemInv

(* A merge leaves the two blocks at hand as one; when there is none to be   *)
(* made no free buddies are left.                                           *)
LEMMA MemMerge ==
  ASSUME MemInv, Merge
  PROVE  MemInv'
<1> DEFINE i == At
<1>1. MemoryOK(memory) /\ TypeOK /\ HandInv /\ HeldInv /\ pc = "merge"
  BY DEF MemInv, Merge
<1>2. UNCHANGED <<held, caller, request>> /\ caller = NULL
  BY <1>1 DEF Merge, TypeOK
<1>3. i \in DOMAIN memory /\ memory[i].start = block /\ memory[i].allocated = 0
  <2>1. HasBlock(memory, block) /\ memory[At].allocated = 0
    BY <1>1 DEF TypeOK, HandInv
  <2> QED
    BY <1>1, <2>1, Hand
<1>4. CASE ~Mergeable(memory, i)
  <2>1. pc' = "idle" /\ block' = 0 /\ memory' = memory
    BY <1>4 DEF Merge
  <2>2. \A l : ~FreeBuddies(memory, l)
    BY <1>1, <1>3, <1>4, MergeableBuddies, LeftBuddies
  <2>3. TypeOK'
    BY <1>1, <1>2, <2>1 DEF TypeOK
  <2>4. HandInv'
    BY <2>1, <2>2 DEF HandInv
  <2>5. HeldInv'
    BY <1>1, <1>2, <2>1 DEF HeldInv
  <2> QED
    BY <1>1, <2>1, <2>3, <2>4, <2>5 DEF MemInv
<1>5. CASE Mergeable(memory, i)
  <2> DEFINE l == MergedAt(memory, i)
  <2>1. memory' = merge_block(memory, i) /\ block' = memory[l].start /\ pc' = pc
    BY <1>5 DEF Merge
  <2>2. /\ MemoryOK(memory') /\ l \in DOMAIN memory'
        /\ l \in DOMAIN memory
        /\ memory'[l].start = memory[l].start /\ memory'[l].allocated = 0
        /\ AllocatedBlocks(memory') = AllocatedBlocks(memory)
        /\ \A m : FreeBuddies(memory', m) =>
             l \in {m, m + 1} \/ \E k : FreeBuddies(memory, k) /\ i \notin {k, k + 1}
    BY <1>1, <1>3, <1>5, <2>1, MergeEffect
  <2> HIDE DEF l
  <2>3. At' = l
    BY <2>1, <2>2, BlockByStart DEF At
  <2>4. HeldInv' /\ \A p \in Procs : held'[p] # NULL => HasBlock(memory', held'[p])
    BY <1>2, <2>2, HeldFrame
  <2>5. HasBlock(memory', block') /\ block' \in Nat
    BY <1>1, <2>1, <2>2, BlockTypes DEF HasBlock
  <2>6. TypeOK'
    BY <1>1, <1>2, <2>1, <2>2, <2>4, <2>5 DEF TypeOK, MemoryOK
  <2>7. HandInv'
    BY <1>1, <2>1, <2>2, <2>3, LeftBuddies DEF HandInv
  <2> QED
    BY <2>2, <2>4, <2>6, <2>7 DEF MemInv
<1> QED
  BY <1>4, <1>5

(* The list tiles the memory, its allocated blocks are held, and free       *)
(* buddies are left only at the block at hand.                              *)
THEOREM MemInvariant == ASSUME 0 \notin Sizes PROVE Spec => []MemInv
<1>1. Init => MemInv
  BY MemInit
<1>2. MemInv /\ [Next]_vars => MemInv'
  <2>1. MemInv /\ UNCHANGED vars => MemInv'
    BY DEF vars, MemInv, TypeOK, HeldInv, HandInv, At
  <2> QED
    BY <2>1, MemAllocate, MemSplit, MemMark, MemDeallocate, MemMerge DEF Next
<1> QED
  BY <1>1, <1>2, PTL DEF Spec
-----------------------------------------------------------------------------
(* The invariant says of the blocks' sizes that they are powers of two up   *)
(* to MAX_SIZE, hence divisors of it.                                       *)
LEMMA InvTiles == MemInv => Tiles
<1> SUFFICES ASSUME MemInv PROVE Tiles
  OBVIOUS
<1>1. MemoryOK(memory)
  BY DEF MemInv
<1>2. ASSUME NEW i \in DOMAIN memory
      PROVE  /\ memory[i].size > 0 /\ MAX_SIZE % memory[i].size = 0
             /\ memory[i].start % memory[i].size = 0
  <2>1. memory[i].size \in BlockSizes /\ memory[i].start % memory[i].size = 0
    BY <1>1, BlockTypes
  <2>2. memory[i].size \in Nat \ {0} /\ memory[i].size <= MAX_SIZE
    BY <2>1, SizeFacts
  <2>3. MAX_SIZE \in BlockSizes /\ MAX_SIZE \in Nat
    BY MaxSizeOrder DEF BlockSizes
  <2>4. PICK m \in Nat \ {0} : MAX_SIZE = m * memory[i].size
    BY <2>1, SizeDivides
  <2>5. MAX_SIZE % memory[i].size = 0
    BY <2>2, <2>3, <2>4, Multiple
  <2> QED
    BY <2>1, <2>2, <2>5
<1> QED
  BY <1>1, <1>2 DEF Tiles, MemoryOK

(* A block that a process holds is the only one at its address, and NULL is *)
(* no address.                                                              *)
LEMMA InvHeld == MemInv => BlocksAreHeld
<1> SUFFICES ASSUME MemInv PROVE BlocksAreHeld
  OBVIOUS
<1>1. MemoryOK(memory) /\ HeldInv
  BY DEF MemInv
<1>2. ASSUME NEW i \in DOMAIN memory
      PROVE  memory[i].allocated # 0 <=> \E p \in Procs : held[p] = memory[i].start
  <2>1. memory[i].start \in Nat /\ memory[i].start # NULL
    BY <1>1, BlockTypes, NullAssumption
  <2>2. memory[i].allocated # 0 => \E p \in Procs : held[p] = memory[i].start
    BY <1>1 DEF HeldInv, AllocatedBlocks
  <2>3. ASSUME NEW p \in Procs, held[p] = memory[i].start
        PROVE  memory[i].allocated # 0
    BY <1>1, <2>1, <2>3, BlockByStart DEF HeldInv, AllocatedBlocks
  <2> QED
    BY <2>2, <2>3
<1>3. ASSUME NEW i \in DOMAIN memory, memory[i].allocated # 0
      PROVE  memory[i].allocated <= memory[i].size /\ memory[i].size < 2 * memory[i].allocated
  BY <1>1, <1>3 DEF HeldInv, AllocatedBlocks
<1> QED
  BY <1>1, <1>2, <1>3 DEF BlocksAreHeld, HeldInv

(* A block that could be merged is one of two free buddies.                 *)
LEMMA InvCoalesced == MemInv => Coalesced
<1> SUFFICES ASSUME MemInv, pc = "idle",
                    NEW i \in DOMAIN memory, memory[i].allocated = 0, Mergeable(memory, i)
             PROVE  FALSE
  BY DEF Coalesced
<1>1. \E l : FreeBuddies(memory, l)
  BY MergeableBuddies DEF MemInv
<1> QED
  BY <1>1, LeftBuddies

(* A region that is free lies in one free block (FreeRegion).               *)
LEMMA InvRefuses == MemInv => RefusesOnlyWhenFull
<1> SUFFICES ASSUME MemInv, pc = "idle", NEW size \in BlockSizes,
                    NEW m \in 0 .. (MAX_SIZE \div size) - 1,
                    \A i \in DOMAIN memory : memory[i].allocated # 0 =>
                       Ends(memory[i]) <= size * m \/ size * m + size <= memory[i].start
             PROVE  Fitting(memory, size) # {}
  BY DEF RefusesOnlyWhenFull
<1>1. MemoryOK(memory) /\ \A l : ~FreeBuddies(memory, l)
  BY LeftBuddies DEF MemInv
<1>2. MAX_SIZE \in Nat /\ MAX_SIZE \in BlockSizes /\ size \in Nat \ {0} /\ size <= MAX_SIZE
  BY MaxSizeOrder, SizeFacts DEF BlockSizes
<1>3. PICK n \in Nat : MAX_SIZE = n * size
  <2>1. \A t \in BlockSizes : size <= t => \E n \in Nat \ {0} : t = n * size
    BY SizeFacts
  <2>2. \E n \in Nat \ {0} : MAX_SIZE = n * size
    BY <1>2, <2>1, Zenon
  <2> QED
    BY <2>2
<1>4. MAX_SIZE \div size = n
  BY <1>2, <1>3, Multiple
<1>5. m \in Nat /\ m + 1 <= n
  BY <1>3, <1>4
<1>6. size * m \in Nat /\ size * m = m * size
  BY <1>2, <1>5
<1>7. (size * m) % size = 0
  BY <1>2, <1>5, <1>6, Multiple
<1>8. size * m + size <= MAX_SIZE
  <2>1. PICK d \in Nat : n = (m + 1) + d
    <3>1. n - (m + 1) \in Nat /\ n = (m + 1) + (n - (m + 1))
      BY <1>5
    <3> QED
      BY <3>1
  <2>2. MAX_SIZE = (size * m + size) + d * size /\ d * size \in Nat
    BY <1>2, <1>3, <1>5, <2>1
  <2> QED
    BY <1>2, <1>6, <2>2
<1> QED
  BY <1>1, <1>6, <1>7, <1>8, FreeRegion

(* The blocks lie side by side from 0 to MAX_SIZE, aligned to their sizes.  *)
THEOREM MemTiles == ASSUME 0 \notin Sizes PROVE Spec => []Tiles
  BY InvTiles, MemInvariant, PTL

(* Each allocated block is one process's, and at least as large as it asked *)
(* for and less than twice as large.                                        *)
THEOREM MemBlocksAreHeld == ASSUME 0 \notin Sizes PROVE Spec => []BlocksAreHeld
  BY InvHeld, MemInvariant, PTL

(* Between calls no two free blocks are buddies: merge_block merges on      *)
(* until there is nothing to merge.                                         *)
THEOREM MemCoalesced == ASSUME 0 \notin Sizes PROVE Spec => []Coalesced
  BY InvCoalesced, MemInvariant, PTL

(* A request is refused only if no free region of the memory could be its   *)
(* block: what is free is not in pieces that could be one.                  *)
THEOREM MemRefusesOnlyWhenFull == ASSUME 0 \notin Sizes PROVE Spec => []RefusesOnlyWhenFull
  BY InvRefuses, MemInvariant, PTL
=============================================================================
