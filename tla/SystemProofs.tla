----------------------------- MODULE SystemProofs -----------------------------
(***************************************************************************)
(* The whole program, for every input, size of the memory and quantum: it   *)
(* runs the scheduler of Scheduler and the generator of Generator, so that  *)
(* what is proved of each holds in it, and on an orderly machine the two    *)
(* together keep the promise of Simulation.                                 *)
(***************************************************************************)
EXTENDS System, SchedulerProofs

(* What Generator and BuddyMemory assume of their constants is assumed of   *)
(* the constants of System.                                                 *)
LEMMA GeneratorAssumptions ==
  /\ process_list \in Seq(G!Processes) /\ G!IsInjective(process_list)
  /\ Arrival \in [G!Processes -> Nat]
  /\ MemorySize \in [G!Processes -> Nat \ {0}]
  /\ (IF Prompt THEN "prompt" ELSE "any") \in {"any", "prompt"}
  /\ NULL \notin G!Processes \cup Nat
  /\ \E k \in 0 .. MAX_SIZE : MAX_SIZE = 2 ^ k
BY SameProcesses, ListAssumption, InputAssumption, MemoryAssumption, NullAssumption,
   ProcsAssumption DEF IsInjective, G!IsInjective

(* The scheduler's variables change only as its own module lets them.       *)
LEMMA SystemScheduler == [SysNext]_sysVars => [Next]_vars
BY DEF SysNext, sysVars, SchedulerStep, Termination, TickHandler, ProcessStep, ExitOf, Fork,
   GeneratorStep, ChildHandler, AnnounceEnd, TickOfBoth, TickOfGenerator, Next, Process

(* And so do the generator's.                                               *)
LEMMA SystemGenerator == [SysNext]_sysVars => [G!Next]_G!vars
<1>1. UNCHANGED gvars => UNCHANGED G!vars
  BY DEF gvars, G!vars, G!memVars, G!loopVars
<1> QED
  BY <1>1, SameProcesses
     DEF SysNext, sysVars, SchedulerStep, Termination, TickHandler, ProcessStep, ExitOf, Fork,
         GeneratorStep, ChildHandler, AnnounceEnd, TickOfBoth, TickOfGenerator, G!Next, G!Loop

(* The whole program is a behaviour of Scheduler and one of Generator: what *)
(* was proved of either, with the other left open, holds of both together.  *)
THEOREM SystemRunsBoth == SysSpec => Spec /\ G!Spec
BY SystemScheduler, SystemGenerator, PTL DEF SysSpec, SysInit, Spec, G!Spec
-----------------------------------------------------------------------------
(* The invariant                                                            *)

(* Types that the invariant gives, and what it says of a process's memory:  *)
(* from its fork until its exit was handled the block that the map has for  *)
(* it is allocated to it.                                                   *)
LEMMA SysFacts ==
  ASSUME SysInv
  PROVE  /\ PromptInv /\ TypeOK /\ G!PromptGenInv /\ LinkInv
         /\ phase \in [Procs -> {"unborn", "init", "raised", "loop", "exited"}]
         /\ left \in [Procs -> Nat] /\ current_pcb \in Procs \cup {NULL}
         /\ child \in [Procs -> {"none", "alive", "zombie", "reaped"}]
         /\ memory_map \in [Procs -> Nat \cup {NULL}]
BY SameProcesses DEF SysInv, PromptInv, TypeOK, G!PromptGenInv, G!GenInv, G!TypeOK

(* Each step of the two programs that moves a process along moves the       *)
(* other's view of it.                                                      *)
LEMMA LinkStep ==
  ASSUME SysInv, [SysNext]_sysVars
  PROVE  LinkInv'
<1>1. /\ LinkInv
      /\ phase \in [Procs -> {"unborn", "init", "raised", "loop", "exited"}]
      /\ child \in [Procs -> {"none", "alive", "zombie", "reaped"}]
  BY SysFacts
<1>2. CASE UNCHANGED <<phase, child>>
  BY <1>1, <1>2 DEF LinkInv
<1>3. ASSUME NEW p \in Procs, Fork(p)
      PROVE  LinkInv'
  <2>1. /\ phase[p] = "unborn" /\ phase' = [phase EXCEPT ![p] = "init"]
        /\ child' = [child EXCEPT ![p] = "alive"]
    BY <1>3 DEF Fork, Spawn, G!fork_and_send
  <2> QED
    BY <1>1, <2>1 DEF LinkInv
<1>4. ASSUME NEW p \in Procs, ExitOf(p)
      PROVE  LinkInv'
  <2>1. /\ phase[p] = "loop" /\ phase' = [phase EXCEPT ![p] = "exited"]
        /\ child' = [child EXCEPT ![p] = "zombie"]
    BY <1>4 DEF ExitOf, ExitProcess, G!Exit
  <2> QED
    BY <1>1, <2>1 DEF LinkInv
<1>5. ASSUME NEW p \in Procs, RaiseStop(p) \/ handle_sigcont(p), UNCHANGED child
      PROVE  LinkInv'
  <2>1. CASE phase[p] = "init" /\ phase' = [phase EXCEPT ![p] = "raised"]
    BY <1>1, <1>5, <2>1 DEF LinkInv
  <2>2. CASE phase' = [phase EXCEPT ![p] = IF @ = "raised" THEN "loop" ELSE @]
    BY <1>1, <1>5, <2>2 DEF LinkInv
  <2> QED
    BY <1>5, <2>1, <2>2 DEF RaiseStop, handle_sigcont
<1>6. ASSUME NEW p \in Procs, G!handle_child_exit(p), UNCHANGED phase
      PROVE  LinkInv'
  <2>1. child[p] = "zombie" /\ child' = [child EXCEPT ![p] = "reaped"]
    BY <1>6 DEF G!handle_child_exit
  <2> QED
    BY <1>1, <1>6, <2>1 DEF LinkInv
<1>7. CASE UNCHANGED sysVars
  BY <1>2, <1>7 DEF sysVars, vars, procVars, gvars
<1>8. CASE SchedulerStep \/ Termination \/ TickHandler
  BY <1>2, <1>8 DEF SchedulerStep, Termination, TickHandler, SchedulerLoop, NextTurn,
     check_for_new_processes, Dispatch, ContinueProcess, MarkStart,
     handle_current_running_process, CompareCurrent, ClipRemaining, TestPreempted, StopProcess,
     DropCurrent, RotateQueue, check_no_more_processes, handle_process_termination, handle_process_tick,
     procVars, gvars
<1>9. CASE GeneratorStep \/ AnnounceEnd \/ TickOfBoth \/ TickOfGenerator
  BY <1>2, <1>9 DEF GeneratorStep, AnnounceEnd, TickOfBoth, TickOfGenerator, SendNoMore, Tick,
     G!TestLoop, G!get_oldest_fit, G!get_smallest_block, G!TestArrival, G!Sleep, G!FindBlock,
     G!SplitBlock, G!AddToWaitingList, G!SendNoMore, G!Tick, vars, procVars, gvars
<1>10. ASSUME NEW p \in Procs, ProcessStep(p)
       PROVE  LinkInv'
  BY <1>2, <1>5, <1>10 DEF ProcessStep, TakeStop, PollTick, gvars
<1>11. CASE ChildHandler
  <2>1. UNCHANGED phase
    BY <1>11 DEF ChildHandler, vars, procVars
  <2> QED
    BY <1>2, <1>6, <1>11, <2>1, SameProcesses DEF ChildHandler, G!Handler, G!MergeBlock
<1> QED
  BY <1>3, <1>4, <1>7, <1>8, <1>9, <1>10, <1>11 DEF SysNext

(* On an orderly machine, with an entry of the map for each process, what   *)
(* either program knows holds, and they agree about the processes.          *)
THEOREM SystemInvariant == ASSUME Orderly, G!RoomInMap PROVE SysSpec => []SysInv
<1>1. G!Prompt
  BY DEF Orderly, G!Prompt
<1>2. G!Spec => []G!PromptGenInv
  BY <1>1, GeneratorAssumptions, G!GeneratorPromptInvariant, PTL
<1>3. SysInit => LinkInv
  BY SameProcesses DEF SysInit, Init, G!Init, LinkInv
<1>4. SysInv /\ [SysNext]_sysVars => LinkInv'
  BY LinkStep
<1>5. SysInv <=> PromptInv /\ G!PromptGenInv /\ LinkInv
  BY DEF SysInv
<1> QED
  BY <1>2, <1>3, <1>4, <1>5, PromptInvariant, SystemRunsBoth, PTL DEF SysSpec
-----------------------------------------------------------------------------
(* The promise.  Its state, as System maps it                               *)

lives  == [p \in Procs |-> Life(p)]
places == [p \in Procs |-> IF HoldsMemory(p) THEN memory_map[p] ELSE NULL]

(* A process has memory from its fork until its exit was handled.           *)
LEMMA Places ==
  ASSUME SysInv
  PROVE  \A q \in Procs :
           /\ places[q] = IF child[q] \in {"alive", "zombie"} THEN memory_map[q] ELSE NULL
           /\ child[q] \in {"alive", "zombie"} => memory_map[q] # NULL
<1>1. /\ G!PromptGenInv /\ G!OwnInv
      /\ memory_map \in [Procs -> Nat \cup {NULL}]
  BY SysFacts DEF G!PromptGenInv
<1>2. G!OwnBlock
  BY <1>1, GeneratorAssumptions, G!OwnBlockHolds
<1> QED
  BY <1>1, <1>2, SameProcesses DEF places, HoldsMemory, G!OwnBlock, G!OwnInv, G!Alive

(* The same in the next state.                                              *)
LEMMA PlacesNext ==
  ASSUME SysInv'
  PROVE  (\A q \in Procs :
           /\ places[q] = IF child[q] \in {"alive", "zombie"} THEN memory_map[q] ELSE NULL
           /\ child[q] \in {"alive", "zombie"} => memory_map[q] # NULL)'
BY Places, PTL

(* A step that leaves alone what the promise speaks of is no step of it.    *)
LEMMA Unseen ==
  ASSUME UNCHANGED <<phase, left, current_pcb, child, memory, memory_map>>
  PROVE  UNCHANGED Promise!vars
<1>1. \A p \in Procs : Life(p)' = Life(p)
  BY DEF Life
<1>2. \A p \in Procs : HoldsMemory(p)' = HoldsMemory(p)
  BY DEF HoldsMemory, G!HasBlock, G!At, G!IndexOfBlock
<1> QED
  BY <1>1, <1>2 DEF Promise!vars

(* Nor does the list of blocks alone matter, while each process's own block *)
(* stays.                                                                   *)
LEMMA SamePlaces ==
  ASSUME SysInv, SysInv', UNCHANGED memory_map,
         \A p \in Procs : child'[p] \in {"alive", "zombie"} <=> child[p] \in {"alive", "zombie"}
  PROVE  UNCHANGED places
<1>1. \A p \in Procs :
        places[p] = IF child[p] \in {"alive", "zombie"} THEN memory_map[p] ELSE NULL
  BY Places
<1>2. (\A q \in Procs :
         /\ places[q] = IF child[q] \in {"alive", "zombie"} THEN memory_map[q] ELSE NULL
         /\ child[q] \in {"alive", "zombie"} => memory_map[q] # NULL)'
  BY PlacesNext
<1>3. \A p \in Procs : places'[p] = places[p]
  BY <1>1, <1>2
<1> QED
  BY <1>3 DEF places

(* The promise's actions in terms of its state.                             *)
LEMMA PromiseForm ==
  /\ Promise!Init <=> /\ lives = [p \in Procs |-> "unforked"]
                      /\ left = Runtime /\ places = [p \in Procs |-> NULL]
  /\ \A p \in Procs :
       /\ Promise!Dispatch(p) <=>
            /\ lives[p] = "ready" /\ \A q \in Procs : lives[q] # "running"
            /\ lives' = [lives EXCEPT ![p] = "running"] /\ UNCHANGED <<left, places>>
       /\ Promise!Preempt(p) <=>
            /\ lives[p] = "running"
            /\ lives' = [lives EXCEPT ![p] = "ready"] /\ UNCHANGED <<left, places>>
       /\ Promise!Work(p) <=>
            /\ lives[p] = "running" /\ left' = [left EXCEPT ![p] = @ - 1]
            /\ lives' = [lives EXCEPT ![p] = IF left[p] = 1 THEN "done" ELSE @]
            /\ UNCHANGED places
       /\ Promise!Free(p) <=>
            /\ lives[p] = "done" /\ places' = [places EXCEPT ![p] = NULL]
            /\ UNCHANGED <<lives, left>>
  /\ UNCHANGED Promise!vars <=> UNCHANGED <<lives, left, places>>
<1>1. Promise!Init <=> /\ lives = [p \in Procs |-> "unforked"]
                       /\ left = Runtime /\ places = [p \in Procs |-> NULL]
  BY DEF Promise!Init, lives, places
<1>2. ASSUME NEW p \in Procs
      PROVE  Promise!Dispatch(p) <=>
            /\ lives[p] = "ready" /\ \A q \in Procs : lives[q] # "running"
            /\ lives' = [lives EXCEPT ![p] = "running"] /\ UNCHANGED <<left, places>>
  BY DEF Promise!Dispatch, lives, places
<1>3. ASSUME NEW p \in Procs
      PROVE  Promise!Preempt(p) <=>
            /\ lives[p] = "running"
            /\ lives' = [lives EXCEPT ![p] = "ready"] /\ UNCHANGED <<left, places>>
  BY DEF Promise!Preempt, lives, places
<1>4. ASSUME NEW p \in Procs
      PROVE  Promise!Work(p) <=>
            /\ lives[p] = "running" /\ left' = [left EXCEPT ![p] = @ - 1]
            /\ lives' = [lives EXCEPT ![p] = IF left[p] = 1 THEN "done" ELSE @]
            /\ UNCHANGED places
  BY DEF Promise!Work, lives, places
<1>5. ASSUME NEW p \in Procs
      PROVE  Promise!Free(p) <=>
            /\ lives[p] = "done" /\ places' = [places EXCEPT ![p] = NULL]
            /\ UNCHANGED <<lives, left>>
  BY DEF Promise!Free, lives, places
<1>6. UNCHANGED Promise!vars <=> UNCHANGED <<lives, left, places>>
  BY DEF Promise!vars, lives, places
<1> QED
  BY <1>1, <1>2, <1>3, <1>4, <1>5, <1>6

(* The life of a process depends on its phase, its runtime and who is       *)
(* current.                                                                 *)
LEMMA SameLives ==
  ASSUME UNCHANGED <<phase, left, current_pcb>>
  PROVE  UNCHANGED lives
BY DEF lives, Life

(* The scheduler's choice of the next process is the promise's dispatch.    *)
LEMMA ScheduleSeen ==
  ASSUME SysInv, current_pcb = NULL, NEW back \in {"check", "nomore"},
         schedule_next_process(back), UNCHANGED <<phase, left>>, UNCHANGED gvars
  PROVE  \E p \in Procs : Promise!Dispatch(p)
<1> DEFINE p == front(ready_queue)
<1>1. PromptInv /\ TypeOK
  BY SysFacts
<1>2. p \in Procs /\ Waiting(p) /\ current_pcb' = p
  BY <1>1, ScheduleOK DEF Waiting
<1> HIDE DEF p
<1>3. phase[p] # "unborn" /\ left[p] \in Nat /\ left[p] # 0
  <2>1. Stage(p) /\ left[p] \in Nat
    BY <1>1, <1>2 DEF PromptInv, TypeOK
  <2>2. state[p] \in {"unset", "started", "resumed", "stopped", "finished"}
    BY <1>1, <1>2 DEF TypeOK
  <2> QED
    BY <1>2, <2>1, <2>2, ProcsAssumption
       DEF Stage, Unscheduled, OnCPU, PutAside, Ended, Suspended, Stopping
<1>4. /\ lives[p] = "ready" /\ lives'[p] = "running"
      /\ \A q \in Procs : lives[q] # "running"
      /\ \A q \in Procs : q # p => lives'[q] = lives[q]
  BY <1>2, <1>3, ProcsAssumption DEF lives, Life
<1>5. lives' = [lives EXCEPT ![p] = "running"]
  BY <1>2, <1>4 DEF lives
<1>6. UNCHANGED places
  BY DEF gvars, places, HoldsMemory, G!HasBlock, G!At, G!IndexOfBlock
<1> QED
  BY <1>2, <1>4, <1>5, <1>6, PromiseForm

(* A process is preempted when the scheduler drops it, its SIGSTOP sent.    *)
LEMMA DropSeen ==
  ASSUME SysInv, DropCurrent, UNCHANGED gvars
  PROVE  \E p \in Procs : Promise!Preempt(p)
<1> DEFINE p == current_pcb
<1>1. PromptInv /\ TypeOK /\ pc = "drop" /\ current_pcb' = NULL /\ UNCHANGED <<phase, left>>
  BY SysFacts DEF DropCurrent, procVars
<1>2. p \in Procs /\ OnCPU(p)
  BY <1>1, CurrentOnCPU DEF PromptInv, StepsInv
<1>3. phase[p] # "unborn" /\ left[p] \in Nat /\ left[p] # 0
  BY <1>1, <1>2 DEF OnCPU, Suspended, Stopping, TypeOK
<1>4. /\ lives[p] = "running" /\ lives'[p] = "ready"
      /\ \A q \in Procs : q # p => lives'[q] = lives[q]
  BY <1>1, <1>2, <1>3, ProcsAssumption DEF lives, Life
<1>5. UNCHANGED places
  BY DEF gvars, places, HoldsMemory, G!HasBlock, G!At, G!IndexOfBlock
<1> HIDE DEF p
<1>6. lives' = [lives EXCEPT ![p] = "ready"]
  BY <1>2, <1>4 DEF lives
<1> QED
  BY <1>1, <1>2, <1>4, <1>5, <1>6, PromiseForm

(* The process whose termination is handled has done all its work already.  *)
LEMMA TerminationSeen ==
  ASSUME SysInv, handle_process_termination, UNCHANGED gvars
  PROVE  UNCHANGED Promise!vars
<1>1. /\ PromptInv /\ TypeOK /\ "SIGUSR1" \in sigs /\ sigs # {} /\ UNCHANGED <<phase, left>>
      /\ current_pcb' = current_pcb \/ current_pcb' = NULL
  BY SysFacts DEF handle_process_termination, procVars
<1>2. current_pcb \in Procs /\ OnCPU(current_pcb)
  BY <1>1, CurrentOnCPU DEF PromptInv, TickInv
<1>3. left[current_pcb] = 0
  BY <1>1, <1>2 DEF OnCPU
<1>4. \A q \in Procs : Life(q)' = Life(q)
  BY <1>1, <1>2, <1>3, ProcsAssumption DEF Life
<1>5. UNCHANGED lives
  BY <1>4 DEF lives
<1>6. UNCHANGED places
  BY DEF gvars, places, HoldsMemory, G!HasBlock, G!At, G!IndexOfBlock
<1> QED
  BY <1>1, <1>5, <1>6, PromiseForm

(* A process works when it sees a new clock value.                          *)
LEMMA PollSeen ==
  ASSUME SysInv, NEW p \in Procs, PollTick(p), UNCHANGED gvars
  PROVE  Promise!Work(p)
<1>1. /\ PromptInv /\ TypeOK /\ fresh[p] /\ phase[p] = "loop" /\ left[p] \in Nat /\ left[p] # 0
      /\ left' = [left EXCEPT ![p] = @ - 1] /\ UNCHANGED <<phase, current_pcb>>
      /\ left \in [Procs -> Nat]
  BY SysFacts DEF PollTick, schVars, TypeOK
<1>2. current_pcb = p
  BY <1>1 DEF PromptInv, TickInv
<1>3. /\ lives[p] = "running"
      /\ lives'[p] = IF left[p] = 1 THEN "done" ELSE "running"
      /\ \A q \in Procs : q # p => lives'[q] = lives[q]
  BY <1>1, <1>2 DEF lives, Life
<1>4. lives' = [lives EXCEPT ![p] = IF left[p] = 1 THEN "done" ELSE @]
  BY <1>3 DEF lives
<1>5. UNCHANGED places
  BY DEF gvars, places, HoldsMemory, G!HasBlock, G!At, G!IndexOfBlock
<1> QED
  BY <1>1, <1>3, <1>4, <1>5, PromiseForm

(* A process that has exited has done all its work.                         *)
LEMMA ExitedIsDone ==
  ASSUME SysInv, NEW p \in Procs, phase[p] = "exited"
  PROVE  left[p] = 0
<1>1. PromptInv /\ TypeOK /\ Stage(p)
  BY SysFacts DEF PromptInv
<1>2. state[p] \in {"unset", "started", "resumed", "stopped", "finished"}
  BY <1>1 DEF TypeOK
<1> QED
  BY <1>1, <1>2
     DEF Stage, Unscheduled, OnCPU, PutAside, Ended, Suspended, Stopping

(* Its exit is seen only when the generator handles it,                     *)
LEMMA ExitSeen ==
  ASSUME SysInv, SysInv', NEW p \in Procs, ExitOf(p)
  PROVE  UNCHANGED Promise!vars
<1>1. /\ phase[p] = "loop" /\ phase' = [phase EXCEPT ![p] = "exited"]
      /\ child[p] = "alive" /\ child' = [child EXCEPT ![p] = "zombie"]
      /\ UNCHANGED <<left, current_pcb, memory_map>>
  BY DEF ExitOf, ExitProcess, G!Exit, schVars, G!memVars
<1>2. child \in [Procs -> {"none", "alive", "zombie", "reaped"}]
      /\ phase \in [Procs -> {"unborn", "init", "raised", "loop", "exited"}]
  BY SysFacts
<1>3. UNCHANGED lives
  BY <1>1, <1>2 DEF lives, Life
<1>4. UNCHANGED places
  BY <1>1, <1>2, SamePlaces
<1> QED
  BY <1>1, <1>3, <1>4, PromiseForm

(* which frees its memory; merging free blocks moves nobody's.              *)
LEMMA ChildHandlerSeen ==
  ASSUME SysInv, SysInv', ChildHandler
  PROVE  (\E p \in Procs : Promise!Free(p)) \/ UNCHANGED Promise!vars
<1>1. UNCHANGED <<phase, left, current_pcb>> /\ UNCHANGED memory_map
  BY DEF ChildHandler, vars, procVars, schVars, G!Handler, G!MergeBlock, G!handle_child_exit
<1>2. UNCHANGED lives
  BY <1>1, SameLives
<1>3. CASE G!MergeBlock
  <2>1. UNCHANGED places
    BY <1>1, <1>3, SamePlaces DEF G!MergeBlock
  <2> QED
    BY <1>1, <1>2, <2>1, PromiseForm
<1>4. (\A q \in Procs :
         /\ places[q] = IF child[q] \in {"alive", "zombie"} THEN memory_map[q] ELSE NULL
         /\ child[q] \in {"alive", "zombie"} => memory_map[q] # NULL)'
  BY PlacesNext
<1>5. ASSUME NEW p \in Procs, G!handle_child_exit(p)
      PROVE  Promise!Free(p)
  <2>1. child[p] = "zombie" /\ child' = [child EXCEPT ![p] = "reaped"]
    BY <1>5 DEF G!handle_child_exit
  <2>2. LinkInv /\ child \in [Procs -> {"none", "alive", "zombie", "reaped"}]
    BY SysFacts
  <2>3. phase[p] = "exited"
    BY <2>1, <2>2 DEF LinkInv
  <2>4. lives[p] = "done"
    BY <2>3, ExitedIsDone DEF lives, Life
  <2>5. \A q \in Procs :
          places[q] = IF child[q] \in {"alive", "zombie"} THEN memory_map[q] ELSE NULL
    BY Places
  <2>6. places'[p] = NULL /\ \A q \in Procs : q # p => places'[q] = places[q]
    BY <1>1, <1>4, <2>1, <2>2, <2>5
  <2>7. places' = [places EXCEPT ![p] = NULL]
    BY <2>6 DEF places
  <2> QED
    BY <1>1, <1>2, <2>4, <2>7, PromiseForm
<1> QED
  BY <1>3, <1>5, SameProcesses DEF ChildHandler, G!Handler

(* What Generator's theorem says of the memory of two processes.            *)
HasOwnPart(p) ==
  child[p] \in {"alive", "zombie"} =>
    /\ memory_map[p] \in 0 .. MAX_SIZE - MemorySize[p]
    /\ \A q \in Procs : child[q] \in {"alive", "zombie"} /\ q # p =>
         \/ memory_map[p] + MemorySize[p] <= memory_map[q]
         \/ memory_map[q] + MemorySize[q] <= memory_map[p]

(* Each live process holds a part of the memory that overlaps no other's.   *)
LEMMA Parts == SysInv => \A q \in Procs : HasOwnPart(q)
<1> SUFFICES ASSUME SysInv, NEW p \in Procs, child[p] \in {"alive", "zombie"}
             PROVE  /\ memory_map[p] \in 0 .. MAX_SIZE - MemorySize[p]
                    /\ \A q \in Procs : child[q] \in {"alive", "zombie"} /\ q # p =>
                         \/ memory_map[p] + MemorySize[p] <= memory_map[q]
                         \/ memory_map[q] + MemorySize[q] <= memory_map[p]
  BY DEF HasOwnPart
<1>1. G!PromptGenInv /\ p \in G!Processes /\ G!Alive(p)
  BY SysFacts, SameProcesses DEF G!Alive
<1>2. /\ memory_map[p] \in 0 .. MAX_SIZE - MemorySize[p]
      /\ \A q \in G!Processes : G!Alive(q) /\ q # p =>
           \/ memory_map[p] + MemorySize[p] <= memory_map[q]
           \/ memory_map[q] + MemorySize[q] <= memory_map[p]
  BY <1>1, GeneratorAssumptions, G!PartsApart
<1> QED
  BY <1>2, SameProcesses DEF G!Alive

(* The same in the next state.                                              *)
LEMMA PartsNext == SysInv' => (\A q \in Procs : HasOwnPart(q))'
BY Parts, PTL

(* A step of the promise's Fork, with the place it gives the process.       *)
LEMMA PromiseFork ==
  ASSUME NEW p \in Procs, lives[p] = "unforked",
         lives' = [lives EXCEPT ![p] = IF left[p] = 0 THEN "done" ELSE "ready"],
         NEW a \in 0 .. MAX_SIZE - MemorySize[p],
         \A q \in Procs : places[q] # NULL =>
           a + MemorySize[p] <= places[q] \/ places[q] + MemorySize[q] <= a,
         places' = [places EXCEPT ![p] = a], UNCHANGED left
  PROVE  Promise!Fork(p)
BY DEF Promise!Fork, Promise!Apart, lives, places

(* A process is forked with a part of the memory that overlaps no other's.  *)
LEMMA ForkSeen ==
  ASSUME SysInv, SysInv', NEW p \in Procs, Fork(p)
  PROVE  Promise!Fork(p)
<1>1. /\ phase[p] = "unborn" /\ phase' = [phase EXCEPT ![p] = "init"]
      /\ child' = [child EXCEPT ![p] = "alive"]
      /\ UNCHANGED <<left, current_pcb, memory>>
      /\ \A q \in Procs : q # p => memory_map'[q] = memory_map[q]
  <2>1. memory_map' = memory_map \/ \E b : memory_map' = [memory_map EXCEPT ![p] = b]
    BY DEF Fork, G!fork_and_send, G!Assigned
  <2>2. memory_map \in [Procs -> Nat \cup {NULL}]
    BY SysFacts
  <2> QED
    BY <2>1, <2>2 DEF Fork, Spawn, schVars, G!fork_and_send
<1>2. /\ child \in [Procs -> {"none", "alive", "zombie", "reaped"}]
      /\ phase \in [Procs -> {"unborn", "init", "raised", "loop", "exited"}]
      /\ left \in [Procs -> Nat] /\ LinkInv /\ PromptInv /\ TypeOK
  BY SysFacts
<1>3. child[p] = "none"
  BY <1>1, <1>2 DEF LinkInv
<1>4. /\ lives[p] = "unforked" /\ lives'[p] = IF left[p] = 0 THEN "done" ELSE "ready"
      /\ \A q \in Procs : q # p => lives'[q] = lives[q]
  <2>1. current_pcb # p
    <3>1. Stage(p) /\ state[p] \in {"unset", "started", "resumed", "stopped", "finished"}
      BY <1>2 DEF PromptInv, TypeOK
    <3> QED
      BY <1>1, <3>1
         DEF Stage, Unscheduled, OnCPU, PutAside, Ended, Suspended, Stopping
  <2> QED
    BY <1>1, <1>2, <2>1 DEF lives, Life
<1>5. lives' = [lives EXCEPT ![p] = IF left[p] = 0 THEN "done" ELSE "ready"]
  BY <1>4 DEF lives
<1>6. \A q \in Procs :
        places[q] = IF child[q] \in {"alive", "zombie"} THEN memory_map[q] ELSE NULL
  BY Places
<1>7. \A q \in Procs :
        /\ places'[q] = IF child'[q] \in {"alive", "zombie"} THEN memory_map'[q] ELSE NULL
        /\ child'[q] \in {"alive", "zombie"} => memory_map'[q] # NULL
  BY PlacesNext
<1>8. /\ places'[p] = memory_map'[p]
      /\ \A q \in Procs : q # p => places'[q] = places[q]
  BY <1>1, <1>2, <1>6, <1>7
<1>9. places' = [places EXCEPT ![p] = memory_map'[p]]
  BY <1>8 DEF places
<1>10. (\A q \in Procs : HasOwnPart(q))'
  BY PartsNext
<1>11. \A q \in Procs : places[q] # NULL =>
         q # p /\ child'[q] \in {"alive", "zombie"} /\ memory_map'[q] = places[q]
  BY <1>1, <1>2, <1>3, <1>6
<1>12. /\ memory_map'[p] \in 0 .. MAX_SIZE - MemorySize[p]
       /\ \A q \in Procs : places[q] # NULL =>
            \/ memory_map'[p] + MemorySize[p] <= places[q]
            \/ places[q] + MemorySize[q] <= memory_map'[p]
  <2>1. child'[p] \in {"alive", "zombie"}
    BY <1>1, <1>2
  <2>2. HasOwnPart(p)'
    BY <1>10
  <2> QED
    BY <1>11, <2>1, <2>2 DEF HasOwnPart
<1>13. UNCHANGED left
  BY <1>1
<1> QED
  BY <1>4, <1>5, <1>9, <1>12, <1>13, PromiseFork
-----------------------------------------------------------------------------
(* Every step of the program is one of the promise or none.                 *)
LEMMA PromiseStep ==
  ASSUME SysInv, SysInv', [SysNext]_sysVars
  PROVE  [Promise!Next]_Promise!vars
<1>1. CASE UNCHANGED sysVars
  BY <1>1, Unseen DEF sysVars, vars, procVars, schVars, gvars
<1>2. CASE SchedulerStep
  <2>1. ASSUME NEW back \in {"check", "nomore"}, current_pcb = NULL,
               schedule_next_process(back), UNCHANGED procVars, UNCHANGED gvars
        PROVE  Promise!Next
    BY <2>1, ScheduleSeen DEF Promise!Next, procVars
  <2>2. CASE UNCHANGED <<phase, left, current_pcb>>
    BY <1>2, <2>2, Unseen DEF SchedulerStep, gvars
  <2>3. CASE DropCurrent
    BY <1>2, <2>3, DropSeen DEF SchedulerStep, Promise!Next
  <2>4. CASE Dispatch \/ handle_current_running_process
    BY <1>2, <2>1, <2>2, <2>4
       DEF SchedulerStep, Dispatch, handle_current_running_process, procVars
  <2> QED
    BY <1>2, <2>2, <2>3, <2>4 DEF SchedulerStep, SchedulerLoop, NextTurn,
       check_for_new_processes, ContinueProcess, MarkStart, CompareCurrent, ClipRemaining,
       TestPreempted, StopProcess, RotateQueue, check_no_more_processes, procVars, schVars
<1>3. CASE Termination
  BY <1>3, TerminationSeen DEF Termination
<1>4. CASE TickHandler
  BY <1>4, Unseen DEF TickHandler, handle_process_tick, procVars, gvars
<1>5. ASSUME NEW p \in Procs, ProcessStep(p)
      PROVE  [Promise!Next]_Promise!vars
  <2>1. UNCHANGED gvars
    BY <1>5 DEF ProcessStep
  <2>2. CASE PollTick(p)
    BY <2>1, <2>2, PollSeen DEF Promise!Next
  <2>3. CASE TakeStop(p)
    BY <2>1, <2>3, Unseen DEF TakeStop, schVars, gvars
  <2>4. CASE RaiseStop(p) \/ handle_sigcont(p)
    <3>1. /\ UNCHANGED <<left, current_pcb, child, memory, memory_map>>
          /\ \/ phase[p] = "init" /\ phase' = [phase EXCEPT ![p] = "raised"]
             \/ phase' = [phase EXCEPT ![p] = IF @ = "raised" THEN "loop" ELSE @]
      BY <2>1, <2>4 DEF RaiseStop, handle_sigcont, schVars, gvars
    <3>2. phase \in [Procs -> {"unborn", "init", "raised", "loop", "exited"}]
      BY SysFacts
    <3>3. \A q \in Procs : phase'[q] = "unborn" <=> phase[q] = "unborn"
      BY <3>1, <3>2
    <3>4. UNCHANGED lives
      BY <3>1, <3>3 DEF lives, Life
    <3>5. UNCHANGED places
      BY <2>1 DEF gvars, places, HoldsMemory, G!HasBlock, G!At, G!IndexOfBlock
    <3> QED
      BY <3>1, <3>4, <3>5, PromiseForm
  <2> QED
    BY <1>5, <2>2, <2>3, <2>4 DEF ProcessStep
<1>6. ASSUME NEW p \in Procs, ExitOf(p)
      PROVE  UNCHANGED Promise!vars
  BY <1>6, ExitSeen
<1>7. ASSUME NEW p \in Procs, Fork(p)
      PROVE  Promise!Next
  BY <1>7, ForkSeen DEF Promise!Next
<1>8. CASE GeneratorStep
  <2>1. UNCHANGED <<phase, left, current_pcb>> /\ UNCHANGED memory_map /\ UNCHANGED child
    BY <1>8 DEF GeneratorStep, vars, procVars, schVars, G!TestLoop, G!get_oldest_fit,
       G!get_smallest_block, G!TestArrival, G!Sleep, G!FindBlock, G!SplitBlock,
       G!AddToWaitingList, G!memVars
  <2> QED
    BY <2>1, SameLives, SamePlaces, PromiseForm
<1>9. CASE ChildHandler
  BY <1>9, ChildHandlerSeen DEF Promise!Next
<1>10. CASE AnnounceEnd \/ TickOfBoth \/ TickOfGenerator
  BY <1>10, Unseen DEF AnnounceEnd, TickOfBoth, TickOfGenerator, SendNoMore, Tick,
     G!SendNoMore, G!Tick, vars, procVars, schVars, gvars, G!memVars
<1> QED
  BY <1>1, <1>2, <1>3, <1>4, <1>5, <1>6, <1>7, <1>8, <1>9, <1>10 DEF SysNext

(* At the start nothing is forked.                                          *)
LEMMA PromiseInit == SysInit => Promise!Init
<1> SUFFICES ASSUME SysInit PROVE Promise!Init
  OBVIOUS
<1>1. /\ phase = [p \in Procs |-> "unborn"] /\ left = Runtime
      /\ child = [p \in Procs |-> "none"]
  BY SameProcesses DEF SysInit, Init, G!Init
<1>2. lives = [p \in Procs |-> "unforked"]
  BY <1>1 DEF lives, Life
<1>3. places = [p \in Procs |-> NULL]
  BY <1>1 DEF places, HoldsMemory
<1> QED
  BY <1>1, <1>2, <1>3, PromiseForm

(* On an orderly machine, with an entry of the map for each process, the    *)
(* two programs together keep the promise of Simulation.                    *)
THEOREM SystemImplementsSimulation ==
  ASSUME Orderly, G!RoomInMap PROVE SysSpec => ImplementsSimulation
BY SystemInvariant, PromiseInit, PromiseStep, PTL DEF SysSpec, ImplementsSimulation, Promise!Spec
=============================================================================
