------------------------------- MODULE Generator -------------------------------
(***************************************************************************)
(* The process generator: its loop (create_processes), which forks each     *)
(* process at its arrival or, when there was no memory for it, from the     *)
(* waiting list; and its SIGCHLD handler, which frees the memory of the     *)
(* processes that exited and may interrupt the loop at any step.            *)
(***************************************************************************)
EXTENDS BuddyMemory

CONSTANTS process_list,  (* the processes, in the order of the input file   *)
          Arrival,       (* their arrival times                             *)
          MemorySize,    (* the memory they ask for                         *)
          MapCapacity,   (* entries of memory_map, 100 in the code          *)
          Timing,        (* what is assumed of the machine, see below       *)
          NULL

(***************************************************************************)
(* "any"     a signal may arrive between any two steps, and any number of   *)
(*           steps may take a second                                        *)
(* "prompt"  signals arrive while the loop sleeps (50 ms of every turn that *)
(*           found nothing to do), and the loop has done all there is to do *)
(*           at one time before the clock ticks                             *)
(***************************************************************************)
Prompt == Timing = "prompt"

Processes == {process_list[k] : k \in DOMAIN process_list}

ASSUME ListAssumption    == process_list \in Seq(Processes) /\ IsInjective(process_list)
ASSUME ArrivalAssumption == Arrival \in [Processes -> Nat]
ASSUME MemoryAssumption  == MemorySize \in [Processes -> Nat \ {0}]
ASSUME TimingAssumption  == Timing \in {"any", "prompt"}
ASSUME NullAssumption    == NULL \notin Processes \cup Nat

VARIABLES
  clock,
  i,                (* the next process of process_list to arrive, from 1   *)
  waiting_list,
  memory,
  memory_map,       (* process -> block; an entry is never removed          *)
  child,            (* "none", "alive", "zombie" or "reaped"                *)
  end_sent,         (* "no_more_processes" was sent                         *)
  pc,               (* the loop's next step                                 *)
  proc,             (* the process the loop is forking                      *)
  waited,           (* it comes from the waiting list                       *)
  fit_memory_block, (* the block that get_smallest_block found for it       *)
  block,            (* allocate_memory's local variable                     *)
  merging           (* the handler's block, or NULL when it is not running  *)

memVars  == <<memory, memory_map>>
loopVars == <<pc, proc, waited, fit_memory_block, block>>
vars     == <<clock, i, waiting_list, memVars, child, end_sent, loopVars, merging>>

Init ==
  /\ clock = 0
  /\ i = 1
  /\ waiting_list = <<>>
  /\ memory = init_memory
  /\ memory_map = [p \in Processes |-> NULL]
  /\ child = [p \in Processes |-> "none"]
  /\ end_sent = FALSE
  /\ pc = "test"
  /\ proc = NULL /\ waited = FALSE /\ fit_memory_block = NULL /\ block = NULL
  /\ merging = NULL

At(b) == IndexOfBlock(memory, b)
Smallest(p) == memory[get_smallest_block_available(memory, MemorySize[p])].start
Fits(p) == Fitting(memory, MemorySize[p]) # {}
-----------------------------------------------------------------------------
(* create_processes                                                         *)

Go(step) == merging = NULL /\ pc' = step

MoreToDo_arriving == i <= Len(process_list)
MoreToDo == i <= Len(process_list) \/ waiting_list # <<>>

TestLoop ==
  /\ pc = "test"
  /\ IF MoreToDo THEN Go("oldest") ELSE Go("end")
  /\ UNCHANGED <<clock, i, waiting_list, memVars, child, end_sent, proc, waited,
                 fit_memory_block, block, merging>>

(* The first of the waiting list that fits leaves the list.                 *)
Oldest_head == {k \in DOMAIN waiting_list : k = 1 /\ Fits(waiting_list[k])}
Oldest == {k \in DOMAIN waiting_list :
             Fits(waiting_list[k]) /\ \A j \in 1 .. k - 1 : ~Fits(waiting_list[j])}

Without_front(k) == Tail(waiting_list)
Without(k) == RemoveAt(waiting_list, k)

get_oldest_fit ==
  /\ pc = "oldest"
  /\ \/ /\ Oldest = {}
        /\ Go("arrival")
        /\ UNCHANGED <<waiting_list, proc, waited>>
     \/ \E k \in Oldest :
          /\ Go("smallest")
          /\ proc' = waiting_list[k] /\ waited' = TRUE
          /\ waiting_list' = Without(k)
  /\ UNCHANGED <<clock, i, memVars, child, end_sent, fit_memory_block, block, merging>>

(* If nothing fitted any more the process would be dropped here.            *)
get_smallest_block ==
  /\ pc = "smallest"
  /\ IF Fits(proc) THEN Go("find") /\ fit_memory_block' = Smallest(proc) /\ UNCHANGED <<proc, waited>>
     ELSE Go("oldest") /\ proc' = NULL /\ waited' = FALSE /\ fit_memory_block' = NULL
  /\ UNCHANGED <<clock, i, waiting_list, memVars, child, end_sent, block, merging>>

Arrives(p) == clock = Arrival[p]

TestArrival ==
  /\ pc = "arrival"
  /\ IF i <= Len(process_list) /\ Arrives(process_list[i])
     THEN Go("find") /\ proc' = process_list[i]
     ELSE Go("sleep") /\ UNCHANGED proc
  /\ UNCHANGED <<clock, i, waiting_list, memVars, child, end_sent, waited,
                 fit_memory_block, block, merging>>

Sleep ==
  /\ pc = "sleep"
  /\ Go("test")
  /\ UNCHANGED <<clock, i, waiting_list, memVars, child, end_sent, proc, waited,
                 fit_memory_block, block, merging>>
-----------------------------------------------------------------------------
(* allocate_process_memory, called by the loop                              *)

FindBlock ==
  /\ pc = "find"
  /\ IF Fits(proc) THEN Go("split") /\ block' = Smallest(proc)
                   ELSE Go("fork") /\ block' = NULL
  /\ UNCHANGED <<clock, i, waiting_list, memVars, child, end_sent, proc, waited,
                 fit_memory_block, merging>>

(* A block that the handler merged into another was freed.                  *)
SplitBlock ==
  /\ pc = "split"
  /\ IF ~HasBlock(memory, block) THEN Go("undefined") /\ UNCHANGED memory
     ELSE IF TooLarge(memory[At(block)], MemorySize[proc])
     THEN Go("split") /\ memory' = split_block(memory, At(block))
     ELSE Go("fork") /\ memory' = [memory EXCEPT ![At(block)].allocated = MemorySize[proc]]
  /\ UNCHANGED <<clock, i, waiting_list, memory_map, child, end_sent, proc, waited,
                 fit_memory_block, block, merging>>
-----------------------------------------------------------------------------
(* create_node and add_node_to_back.                                        *)
Behind(p) == Append(waiting_list, p)

(* An arrival that got no block waits; the return of an allocation for a    *)
(* process of the waiting list is not looked at.                            *)
AddToWaitingList ==
  /\ pc = "fork" /\ ~waited /\ block = NULL
  /\ Go("test")
  /\ waiting_list' = Behind(proc)
  /\ i' = i + 1
  /\ proc' = NULL
  /\ UNCHANGED <<clock, memVars, child, end_sent, waited, fit_memory_block, block, merging>>

(* The block is recorded for the new child unless the map is full.          *)
Assigned_short(p, b) ==
  IF b # NULL /\ Cardinality({q \in Processes : memory_map[q] # NULL}) + 1 < MapCapacity
  THEN [memory_map EXCEPT ![p] = b] ELSE memory_map
Assigned(p, b) ==
  IF b # NULL /\ Cardinality({q \in Processes : memory_map[q] # NULL}) < MapCapacity
  THEN [memory_map EXCEPT ![p] = b] ELSE memory_map

NextIndex_always == i + 1
NextIndex == IF waited THEN i ELSE i + 1

fork_and_send ==
  /\ pc = "fork" /\ (waited \/ block # NULL)
  /\ IF waited THEN Go("oldest") ELSE Go("test")
  /\ child' = [child EXCEPT ![proc] = "alive"]
  /\ memory_map' = Assigned(proc, IF waited THEN fit_memory_block ELSE block)
  /\ i' = NextIndex
  /\ proc' = NULL /\ waited' = FALSE /\ fit_memory_block' = NULL /\ block' = NULL
  /\ UNCHANGED <<clock, waiting_list, memory, end_sent, merging>>

SendNoMore ==
  /\ pc = "end"
  /\ Go("done")
  /\ end_sent' = TRUE
  /\ UNCHANGED <<clock, i, waiting_list, memVars, child, proc, waited, fit_memory_block,
                 block, merging>>

Loop ==
  \/ TestLoop \/ get_oldest_fit \/ get_smallest_block \/ TestArrival \/ Sleep
  \/ FindBlock \/ SplitBlock \/ AddToWaitingList \/ fork_and_send \/ SendNoMore
-----------------------------------------------------------------------------
(* The processes, and the SIGCHLD handler                                   *)

(* The scheduler lets a process run to its end some time.                   *)
Exit(p) ==
  /\ child[p] = "alive"
  /\ child' = [child EXCEPT ![p] = "zombie"]
  /\ UNCHANGED <<clock, i, waiting_list, memVars, end_sent, loopVars, merging>>

(* One turn of handle_child_exit's loop: the block of a process that exited *)
(* is marked free.  A block that is not in the list any more was freed.     *)
handle_child_exit(p) ==
  /\ merging = NULL /\ pc # "undefined"
  /\ Prompt => pc \in {"sleep", "done"}
  /\ child[p] = "zombie"
  /\ child' = [child EXCEPT ![p] = "reaped"]
  /\ IF memory_map[p] = NULL THEN UNCHANGED <<memory, pc, merging>>
     ELSE IF ~HasBlock(memory, memory_map[p])
     THEN pc' = "undefined" /\ UNCHANGED <<memory, merging>>
     ELSE /\ memory' = [memory EXCEPT ![At(memory_map[p])].allocated = 0]
          /\ merging' = memory_map[p]
          /\ UNCHANGED pc
  /\ UNCHANGED <<clock, i, waiting_list, memory_map, end_sent, proc, waited,
                 fit_memory_block, block>>

MergeBlock ==
  /\ merging # NULL
  /\ IF Mergeable(memory, At(merging))
     THEN /\ memory' = merge_block(memory, At(merging))
          /\ merging' = memory[MergedAt(memory, At(merging))].start
     ELSE merging' = NULL /\ UNCHANGED memory
  /\ UNCHANGED <<clock, i, waiting_list, memory_map, child, end_sent, loopVars>>

Handler == MergeBlock \/ \E p \in Processes : handle_child_exit(p)
-----------------------------------------------------------------------------
(* The clock, as far as an arrival still depends on it.                     *)

Settled ==
  /\ pc \in {"sleep", "done"} /\ merging = NULL
  /\ \A p \in Processes : child[p] # "zombie"
  /\ i <= Len(process_list) => ~Arrives(process_list[i])
  /\ Oldest = {}

Tick ==
  /\ \E p \in Processes : clock <= Arrival[p]
  /\ Prompt => Settled
  /\ clock' = clock + 1
  /\ UNCHANGED <<i, waiting_list, memVars, child, end_sent, loopVars, merging>>

Next == Loop \/ Handler \/ Tick \/ \E p \in Processes : Exit(p)

Spec == Init /\ [][Next]_vars

(* The kernel runs the generator and the clock; the scheduler starves       *)
(* nobody (module Scheduler, WaitingFinishes).  Under "prompt" a signal and *)
(* a tick are enabled once in every turn of the idle loop and disabled      *)
(* between: the sleeps add up to the second that the clock waits for, and a *)
(* pending signal is not held off by them, hence strong fairness.           *)
Fairness ==
  /\ WF_vars(Loop) /\ SF_vars(Handler) /\ SF_vars(Tick)
  /\ \A p \in Processes : WF_vars(Exit(p))

FairSpec == Spec /\ Fairness
-----------------------------------------------------------------------------
Alive(p) == child[p] \in {"alive", "zombie"}
InWaitingList(p) == \E k \in DOMAIN waiting_list : waiting_list[k] = p

TypeOK ==
  /\ clock \in Nat
  /\ i \in 1 .. Len(process_list) + 1
  /\ waiting_list \in Seq(Processes)
  /\ memory \in Seq(Blocks)
  /\ memory_map \in [Processes -> Nat \cup {NULL}]
  /\ child \in [Processes -> {"none", "alive", "zombie", "reaped"}]
  /\ end_sent \in BOOLEAN
  /\ pc \in {"test", "oldest", "smallest", "arrival", "find", "split", "fork", "sleep",
             "end", "done", "undefined"}
  /\ proc \in Processes \cup {NULL} /\ waited \in BOOLEAN
  /\ {fit_memory_block, block, merging} \subseteq Nat \cup {NULL}

(* A process's entry in the map is the block that was allocated for it, and *)
(* no other process has it, until the process's exit is handled.            *)
OwnBlock ==
  \A p \in Processes : Alive(p) =>
    /\ memory_map[p] # NULL => HasBlock(memory, memory_map[p])
    /\ memory_map[p] # NULL => memory[At(memory_map[p])].allocated = MemorySize[p]
    /\ \A q \in Processes : Alive(q) /\ memory_map[q] = memory_map[p] => q = p

(* When the exit of the last child was handled all memory is one free block *)
(* again.                                                                   *)
AllReturned ==
  (pc = "done" /\ merging = NULL /\ \A p \in Processes : child[p] = "reaped")
    => memory = init_memory

(* Each process that has arrived is waiting, being forked, or forked: none  *)
(* is dropped between the list and the fork, and none is forked twice.      *)
EachOnce ==
  \A k \in DOMAIN process_list :
    LET p == process_list[k]
    IN  IF k > i \/ (k = i /\ proc # p) THEN child[p] = "none" /\ ~InWaitingList(p)
        ELSE \/ child[p] = "none" /\ (InWaitingList(p) # (proc = p))
             \/ child[p] # "none" /\ ~InWaitingList(p) /\ proc # p

(* A newcomer is given memory only if no process that waits could have it.  *)
NoOvertaking ==
  [][pc = "split" /\ pc' = "fork" /\ ~waited =>
       ~\E q \in Processes : InWaitingList(q) /\ Fits(q)]_vars

(* Every process of the input file is forked in the end.                    *)
AllForked == \A p \in Processes : <>(child[p] # "none")
-----------------------------------------------------------------------------
(* The inductive invariants of module GeneratorProofs.  GenInv needs no     *)
(* assumption on time.                                                      *)

(* The loop has a process at hand, from the waiting list or the next of the *)
(* input, from when it has found one until it has forked it.                *)
LoopInv ==
  /\ pc \in {"test", "oldest", "arrival", "sleep", "end", "done"} => proc = NULL /\ ~waited
  /\ pc \in {"smallest", "find", "split", "fork"} => proc # NULL
  /\ proc # NULL => IF waited THEN \E k \in 1 .. i - 1 : proc = process_list[k]
                             ELSE i <= Len(process_list) /\ proc = process_list[i]
  /\ pc = "smallest" => waited /\ Fits(proc)
  /\ IsInjective(waiting_list)

(* The block that is to be split is free and large enough, if the handler   *)
(* has left it in the list; the handler's own block is free.                *)
BlockInv ==
  /\ pc = "split" => block # NULL
  /\ pc = "split" /\ HasBlock(memory, block) =>
       /\ memory[At(block)].allocated = 0
       /\ MemorySize[proc] <= memory[At(block)].size
  /\ merging # NULL => HasBlock(memory, merging) /\ memory[At(merging)].allocated = 0

(* What holds whenever the signals come.                                    *)
GenInv == TypeOK /\ MemoryOK(memory) /\ LoopInv /\ BlockInv /\ EachOnce

(* Under "prompt": once no process of the waiting list fits, that stays so  *)
(* until the newcomer has been looked after.                                *)
TurnInv ==
  /\ merging # NULL => pc \in {"sleep", "done"}
  /\ pc \in {"arrival", "find", "split"} /\ ~waited =>
       ~\E q \in Processes : InWaitingList(q) /\ Fits(q)

(* The map has an entry for each process of the input.                      *)
RoomInMap == MapCapacity \in Nat /\ Len(process_list) <= MapCapacity

(* Under "prompt", and with an entry of the map for each process: the       *)
(* allocated blocks are those of the processes that were forked and not     *)
(* reaped, and one that is about to be forked.                              *)
OwnInv ==
  /\ pc # "undefined"
  /\ \A p \in Processes : child[p] # "none" <=> memory_map[p] # NULL
  /\ \A p, q \in Processes :
       Alive(p) /\ Alive(q) /\ memory_map[p] = memory_map[q] => p = q
  /\ \A p \in Processes : Alive(p) =>
       \E b \in AllocatedBlocks(memory) : b.start = memory_map[p] /\ b.allocated = MemorySize[p]
  /\ \A b \in AllocatedBlocks(memory) :
       \/ \E p \in Processes : Alive(p) /\ memory_map[p] = b.start
       \/ pc = "fork" /\ block = b.start

(* What the loop found for a process of the waiting list is what is         *)
(* allocated for it.                                                        *)
FoundInv ==
  /\ waited /\ pc = "find" => Fits(proc) /\ fit_memory_block = Smallest(proc)
  /\ waited /\ pc \in {"split", "fork"} => block = fit_memory_block /\ block # NULL
  /\ pc = "split" => HasBlock(memory, block)
  /\ pc = "fork" /\ block # NULL =>
       /\ \E b \in AllocatedBlocks(memory) : b.start = block /\ b.allocated = MemorySize[proc]
       /\ \A p \in Processes : Alive(p) => memory_map[p] # block

(* Free buddies are left only at the loop's or the handler's block.         *)
BuddyInv ==
  \A l \in DOMAIN memory : FreeBuddies(memory, l) =>
    \/ merging # NULL /\ At(merging) \in {l, l + 1}
    \/ pc = "split" /\ At(block) \in {l, l + 1}

(* Nobody is given less than it asked for.                                  *)
SizeInv == \A b \in AllocatedBlocks(memory) : b.allocated <= b.size

(* Under "prompt": the list of blocks, the processes, the map and what the  *)
(* loop and the handler have in hand agree with each other at every step.   *)
PromptGenInv == GenInv /\ TurnInv /\ OwnInv /\ FoundInv /\ BuddyInv /\ SizeInv
=============================================================================
