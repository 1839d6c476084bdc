------------------------------- MODULE System -------------------------------
(***************************************************************************)
(* The whole simulation: Scheduler and Generator composed.  They share the  *)
(* processes, which the generator forks and reaps and the scheduler starts  *)
(* and stops; the two messages; and the clock.                              *)
(*                                                                         *)
(* Each module leaves open what the other decides: Scheduler when a process *)
(* is forked, Generator when it exits.  Here these are one step of both.    *)
(***************************************************************************)
EXTENDS Scheduler

CONSTANTS process_list, Arrival, MemorySize, MapCapacity, MAX_SIZE

VARIABLES clock, i, waiting_list, memory, memory_map, child, end_sent,
          gen_pc, proc, waited, fit_memory_block, block, merging

(* The generator with the theorems about it.  It knows "prompt" and "any";  *)
(* its sleeps are the same under "apart".                                   *)
G == INSTANCE GeneratorProofs WITH pc <- gen_pc, Timing <- IF Prompt THEN "prompt" ELSE "any"

(* The lines of the input file, each a process of its own, and the size of  *)
(* the memory, a power of two.                                              *)
ASSUME SameProcesses    == Procs = G!Processes
ASSUME ListAssumption   == process_list \in Seq(Procs) /\ IsInjective(process_list)
ASSUME InputAssumption  == Arrival \in [Procs -> Nat] /\ MemorySize \in [Procs -> Nat \ {0}]
ASSUME MemoryAssumption == \E k \in 0 .. MAX_SIZE : MAX_SIZE = 2 ^ k
ASSUME NullAssumption   == NULL \notin Nat

gvars   == <<clock, i, waiting_list, memory, memory_map, child, end_sent,
             gen_pc, proc, waited, fit_memory_block, block, merging>>
sysVars == <<vars, gvars>>

SysInit == Init /\ G!Init
-----------------------------------------------------------------------------
(* Steps of both                                                            *)

(* fork_and_send: the child is forked and its PCB is in the queue.          *)
Fork(p) == proc = p /\ Spawn(p) /\ G!fork_and_send

AnnounceEnd == SendNoMore /\ G!SendNoMore

(* A process that exits becomes a zombie of the generator.                  *)
ExitOf(p) == ExitProcess(p) /\ G!Exit(p)

(* A tick that a running process notices; one that only the generator does. *)
(* After the last arrival the generator does not look at the clock.         *)
LastArrivalPast == \A p \in Procs : clock > Arrival[p]

TickOfBoth ==
  /\ Tick
  /\ Prompt => G!Settled
  /\ IF LastArrivalPast THEN UNCHANGED gvars ELSE G!Tick

TickOfGenerator ==
  /\ ~\E p \in Procs : Running(p) /\ ~fresh[p]
  /\ Prompt => Settled
  /\ G!Tick
  /\ UNCHANGED vars
-----------------------------------------------------------------------------
(* Steps of one                                                             *)

SchedulerStep == SchedulerLoop /\ UNCHANGED gvars
Termination   == handle_process_termination /\ UNCHANGED gvars
TickHandler   == handle_process_tick /\ UNCHANGED gvars

ProcessStep(p) ==
  /\ RaiseStop(p) \/ TakeStop(p) \/ handle_sigcont(p) \/ PollTick(p)
  /\ UNCHANGED gvars

GeneratorStep ==
  /\ \/ G!TestLoop \/ G!get_oldest_fit \/ G!get_smallest_block \/ G!TestArrival \/ G!Sleep
     \/ G!FindBlock \/ G!SplitBlock \/ G!AddToWaitingList
  /\ UNCHANGED vars

ChildHandler == G!Handler /\ UNCHANGED vars
-----------------------------------------------------------------------------
SysNext ==
  \/ SchedulerStep \/ Termination \/ TickHandler
  \/ \E p \in Procs : ProcessStep(p) \/ ExitOf(p) \/ Fork(p)
  \/ GeneratorStep \/ ChildHandler \/ AnnounceEnd
  \/ TickOfBoth \/ TickOfGenerator

SysSpec == SysInit /\ [][SysNext]_sysVars

(* As in the two modules, but for Generator's assumption that processes     *)
(* exit: here that is up to the scheduler.  A tick is disabled in every     *)
(* turn of the generator's loop, as there.                                  *)
SysFairness ==
  /\ WF_sysVars(SchedulerStep) /\ WF_sysVars(Termination) /\ WF_sysVars(TickHandler)
  /\ \A p \in Procs : WF_sysVars(ProcessStep(p)) /\ WF_sysVars(ExitOf(p))
  /\ WF_sysVars(GeneratorStep \/ AnnounceEnd \/ \E p \in Procs : Fork(p))
  /\ SF_sysVars(ChildHandler)
  /\ SF_sysVars(TickOfBoth \/ TickOfGenerator)

SysFairSpec == SysSpec /\ SysFairness
-----------------------------------------------------------------------------
(* What the generator assumes and the scheduler must deliver, unless it     *)
(* crashes: each child that was forked exits.                               *)
EveryChildExits == \A p \in Procs : child[p] = "alive" ~> child[p] # "alive" \/ pc = "crash"

(* The program keeps the promise of Simulation.  A process has the CPU from *)
(* the scheduler's dispatch to its preemption or its last tick, and memory  *)
(* as long as the block recorded for it is allocated to it.                 *)
Life(p) ==
  IF phase[p] = "unborn" THEN "unforked"
  ELSE IF left[p] = 0 THEN "done"
  ELSE IF current_pcb = p THEN "running" ELSE "ready"

HoldsMemory(p) ==
  /\ child[p] \in {"alive", "zombie"} /\ memory_map[p] # NULL
  /\ G!HasBlock(memory, memory_map[p])
  /\ memory[G!At(memory_map[p])].allocated = MemorySize[p]

Promise == INSTANCE Simulation WITH
             life <- [p \in Procs |-> Life(p)], work <- left,
             place <- [p \in Procs |-> IF HoldsMemory(p) THEN memory_map[p] ELSE NULL]

(* No process works while another has the CPU, none is forked without       *)
(* memory for it or frees it before its last tick: across the signals, the  *)
(* messages and the two programs.                                           *)
ImplementsSimulation == Promise!Spec

(* The invariant behind it.  What the generator knows of a child agrees     *)
(* with where the process is in its program.                                *)
LinkInv ==
  \A p \in Procs :
    /\ child[p] = "none" <=> phase[p] = "unborn"
    /\ child[p] \in {"zombie", "reaped"} <=> phase[p] = "exited"

SysInv == PromptInv /\ G!PromptGenInv /\ LinkInv

(* In the end, unless it has crashed, the scheduler has exited, every       *)
(* process has run and all memory is one free block again.                  *)
ComesToRest ==
  <>[](\/ pc = "crash"
       \/ /\ pc = "exit"
          /\ \A p \in Procs : state[p] = "finished" /\ child[p] = "reaped"
          /\ memory = G!init_memory)
=============================================================================
