----------------------------- MODULE MemoryManager -----------------------------
(***************************************************************************)
(* The memory of the processes, as memory_manager.c allocates and frees it, *)
(* when no call interrupts another.  The splits of an allocation and the    *)
(* merges of a deallocation are steps of their own.                         *)
(***************************************************************************)
EXTENDS BuddyMemory

CONSTANTS Procs,  (* the processes that may hold memory at one time         *)
          Sizes,  (* the memory sizes that they may ask for                 *)
          NULL    (* no process; no block                                   *)

ASSUME SizesAssumption == Sizes \subseteq Nat
ASSUME NullAssumption == NULL \notin Procs \cup Nat

VARIABLES
  memory,
  held,      (* for each process, its block in memory_map, or NULL          *)
  pc,        (* "idle", "split" in an allocation, "merge" in a deallocation *)
  block,     (* the block at hand                                           *)
  caller,    (* an allocation's process                                     *)
  request    (* and the size it asked for                                   *)

vars == <<memory, held, pc, block, caller, request>>

Init ==
  /\ memory = init_memory
  /\ held = [p \in Procs |-> NULL]
  /\ pc = "idle" /\ block = 0 /\ caller = NULL /\ request = 0

At == IndexOfBlock(memory, block)
-----------------------------------------------------------------------------
(* allocate_process_memory; a request that fits nowhere changes nothing.    *)
allocate_memory(p, size) ==
  /\ pc = "idle" /\ held[p] = NULL
  /\ Fitting(memory, size) # {}
  /\ pc' = "split"
  /\ block' = memory[get_smallest_block_available(memory, size)].start
  /\ caller' = p /\ request' = size
  /\ UNCHANGED <<memory, held>>

Split ==
  /\ pc = "split"
  /\ TooLarge(memory[At], request)
  /\ memory' = split_block(memory, At)
  /\ UNCHANGED <<held, pc, block, caller, request>>

(* The block is marked, and assign_memory_block_to_process records it.      *)
Mark ==
  /\ pc = "split" /\ pc' = "idle"
  /\ ~TooLarge(memory[At], request)
  /\ memory' = [memory EXCEPT ![At].allocated = request]
  /\ held' = [held EXCEPT ![caller] = block]
  /\ block' = 0 /\ caller' = NULL /\ request' = 0

(* deallocate_process_memory, when the process has exited.                  *)
deallocate_memory(p) ==
  /\ pc = "idle" /\ held[p] # NULL
  /\ pc' = "merge"
  /\ block' = held[p]
  /\ held' = [held EXCEPT ![p] = NULL]
  /\ memory' = [memory EXCEPT ![IndexOfBlock(memory, held[p])].allocated = 0]
  /\ UNCHANGED <<caller, request>>

(* After a merge, merge_block goes on with the block that remains.          *)
Merge_same_block ==
  /\ pc = "merge"
  /\ IF Mergeable(memory, At)
     THEN memory' = merge_block(memory, At) /\ UNCHANGED <<pc, block>>
     ELSE pc' = "idle" /\ block' = 0 /\ UNCHANGED memory
  /\ UNCHANGED <<held, caller, request>>
Merge_once ==
  /\ pc = "merge" /\ pc' = "idle" /\ block' = 0
  /\ memory' = IF Mergeable(memory, At) THEN merge_block(memory, At) ELSE memory
  /\ UNCHANGED <<held, caller, request>>
Merge ==
  /\ pc = "merge"
  /\ IF Mergeable(memory, At)
     THEN /\ memory' = merge_block(memory, At)
          /\ block' = memory[MergedAt(memory, At)].start
          /\ UNCHANGED pc
     ELSE pc' = "idle" /\ block' = 0 /\ UNCHANGED memory
  /\ UNCHANGED <<held, caller, request>>

Next ==
  \/ \E p \in Procs, size \in Sizes : allocate_memory(p, size)
  \/ Split \/ Mark
  \/ \E p \in Procs : deallocate_memory(p)
  \/ Merge

Spec == Init /\ [][Next]_vars
-----------------------------------------------------------------------------
(* Pointers are to blocks of the list: neither the block at hand nor one    *)
(* that a process holds was freed by a merge.                               *)
TypeOK ==
  /\ memory \in Seq(Blocks)
  /\ pc \in {"idle", "split", "merge"}
  /\ held \in [Procs -> Nat \cup {NULL}]
  /\ \A p \in Procs : held[p] # NULL => HasBlock(memory, held[p])
  /\ block \in Nat /\ (pc # "idle" => HasBlock(memory, block))
  /\ caller \in IF pc = "split" THEN Procs ELSE {NULL}
  /\ request \in Nat

(* The blocks lie side by side from 0 to MAX_SIZE, each of a size that is a *)
(* power of two and at a multiple of it.                                    *)
Tiles ==
  /\ memory[1].start = 0
  /\ Ends(memory[Len(memory)]) = MAX_SIZE
  /\ \A i \in 1 .. Len(memory) - 1 : memory[i + 1].start = Ends(memory[i])
  /\ \A i \in DOMAIN memory :
       memory[i].size > 0 /\ MAX_SIZE % memory[i].size = 0
                          /\ memory[i].start % memory[i].size = 0

(* The allocated blocks are the processes' blocks, one each, and each is at *)
(* least as large as was asked for and less than twice as large.            *)
BlocksAreHeld ==
  /\ \A p, q \in Procs : held[p] # NULL /\ held[p] = held[q] => p = q
  /\ \A i \in DOMAIN memory :
       memory[i].allocated # 0 <=> \E p \in Procs : held[p] = memory[i].start
  /\ \A i \in DOMAIN memory :
       memory[i].allocated # 0 => /\ memory[i].allocated <= memory[i].size
                                  /\ memory[i].size < 2 * memory[i].allocated

(* Between calls no two free blocks are buddies.                            *)
Coalesced ==
  pc = "idle" =>
    ~ \E i \in DOMAIN memory : memory[i].allocated = 0 /\ Mergeable(memory, i)

(* A request is refused only if there is no free place for it: whenever the *)
(* aligned region of a block's size is free, a block as large is.           *)
RefusesOnlyWhenFull ==
  pc = "idle" =>
    \A size \in BlockSizes :
      \A start \in {size * m : m \in 0 .. (MAX_SIZE \div size) - 1} :
        (\A i \in DOMAIN memory : memory[i].allocated # 0 =>
            Ends(memory[i]) <= start \/ start + size <= memory[i].start)
        => Fitting(memory, size) # {}
-----------------------------------------------------------------------------
(* The inductive invariant of module MemoryManagerProofs.                   *)

(* The allocated blocks are held, one by each process that holds one.       *)
HeldInv ==
  /\ \A p, q \in Procs : held[p] # NULL /\ held[p] = held[q] => p = q
  /\ \A p \in Procs : held[p] # NULL =>
       \E b \in AllocatedBlocks(memory) : b.start = held[p]
  /\ \A b \in AllocatedBlocks(memory) :
       /\ \E p \in Procs : held[p] = b.start
       /\ b.allocated <= b.size /\ b.size < 2 * b.allocated

(* The block at hand is free; in an allocation it is large enough.  Free    *)
(* buddies are left only where it is.                                       *)
HandInv ==
  /\ pc # "idle" => memory[At].allocated = 0
  /\ pc = "split" => request # 0 /\ request <= memory[At].size /\ held[caller] = NULL
  /\ \A l \in DOMAIN memory : FreeBuddies(memory, l) => pc # "idle" /\ At \in {l, l + 1}

(* In and between the calls the blocks are a well-formed list, the          *)
(* allocated ones are held, and free buddies are about to be merged.        *)
MemInv == TypeOK /\ MemoryOK(memory) /\ HeldInv /\ HandInv
=============================================================================
