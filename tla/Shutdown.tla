------------------------------ MODULE Shutdown ------------------------------
(***************************************************************************)
(* The end of a simulation, from the time the first processes are forked:   *)
(* main after create_processes, destroy_clk, the generator's SIGINT handler *)
(* (clear_and_exit) with its SIGCHLD handler on top of it, and what SIGINT  *)
(* does to the clock, the scheduler and the processes.                      *)
(*                                                                         *)
(* SIGINT comes from the keyboard, to the whole process group, or from      *)
(* destroy_clk, when the scheduler has ended.                               *)
(***************************************************************************)
EXTENDS Naturals, FiniteSets

CONSTANT Procs       (* the user processes that were forked                 *)

Programs == Procs \cup {"clock", "scheduler"}   (* the generator's children *)

VARIABLES
  pc,                (* main: its next step, or how the generator ended     *)
  handler,           (* clear_and_exit: its next step, or "off"             *)
  attached,          (* the generator has the clock's shared memory         *)
  freed,             (* of the generator's heap                             *)
  child,             (* "running", "stopped", "zombie" or "reaped"          *)
  interrupted,       (* SIGINT is pending for these                         *)
  pressed,           (* Ctrl-C was pressed                                  *)
  resources          (* System V objects that exist                         *)

heapVars == <<attached, freed>>
vars == <<pc, handler, heapVars, child, interrupted, pressed, resources>>

Init ==
  /\ pc = "create"
  /\ handler = "off"
  /\ attached = TRUE
  /\ freed = {}
  /\ child \in [Programs -> {"running", "stopped"}]
  /\ child["clock"] = "running" /\ child["scheduler"] = "running"
  /\ interrupted = {}
  /\ pressed = FALSE
  /\ resources = {"queue", "shared memory"}

Ended == pc \in {"exited", "crashed"}
There(c) == child[c] \in {"running", "stopped"}

(* killpg(getpgrp(), SIGINT), as it reaches the generator's children.       *)
InterruptChildren == interrupted' = interrupted \cup {c \in Programs : There(c)}
-----------------------------------------------------------------------------
(* main                                                                     *)

Main(step) == ~Ended /\ handler = "off" /\ pc = step

(* create_processes ends when the last process was forked.                  *)
CreateProcesses ==
  /\ Main("create")
  /\ pc' = "wait"
  /\ UNCHANGED <<handler, heapVars, child, interrupted, pressed, resources>>

(* waitpid(sch_pid): also when the SIGCHLD handler has reaped it.           *)
WaitForScheduler ==
  /\ Main("wait")
  /\ ~There("scheduler")
  /\ child' = [child EXCEPT !["scheduler"] = "reaped"]
  /\ pc' = "detach"
  /\ UNCHANGED <<handler, heapVars, interrupted, pressed, resources>>

(* destroy_clk: shmdt, then killpg, which the generator is also sent.       *)
DetachClock ==
  /\ Main("detach")
  /\ attached' = FALSE
  /\ pc' = "kill"
  /\ UNCHANGED <<handler, freed, child, interrupted, pressed, resources>>

TerminateAll ==
  /\ Main("kill")
  /\ InterruptChildren
  /\ handler' = "list"
  /\ UNCHANGED <<pc, heapVars, child, pressed, resources>>
-----------------------------------------------------------------------------
(* clear_and_exit.  It never returns to main.                               *)

Handler(step, next) == ~Ended /\ handler = step /\ handler' = next

FreeWaitingList ==
  /\ Handler("list", "kill")
  /\ freed' = freed \cup {"waiting_list"}
  /\ UNCHANGED <<pc, attached, child, interrupted, pressed, resources>>

InterruptGroup ==
  /\ Handler("kill", "memory")
  /\ InterruptChildren
  /\ UNCHANGED <<pc, heapVars, child, pressed, resources>>

DestroyMemory ==
  /\ Handler("memory", "map")
  /\ freed' = freed \cup {"memory"}
  /\ UNCHANGED <<pc, attached, child, interrupted, pressed, resources>>

FreeMap ==
  /\ Handler("map", "queue")
  /\ freed' = freed \cup {"memory_map"}
  /\ UNCHANGED <<pc, attached, child, interrupted, pressed, resources>>

RemoveQueue ==
  /\ Handler("queue", "exit")
  /\ resources' = resources \ {"queue"}
  /\ UNCHANGED <<pc, heapVars, child, interrupted, pressed>>

ExitGenerator ==
  /\ Handler("exit", "exit")
  /\ pc' = "exited"
  /\ UNCHANGED <<heapVars, child, interrupted, pressed, resources>>

clear_and_exit ==
  FreeWaitingList \/ InterruptGroup \/ DestroyMemory \/ FreeMap \/ RemoveQueue \/ ExitGenerator
-----------------------------------------------------------------------------
(* The SIGCHLD handler, on top of main or of clear_and_exit.  For a user    *)
(* process it looks up the map, logs with get_clk, and frees the block: on  *)
(* freed memory anything may happen; reading detached memory faults.        *)
UsesFreed == freed \cap {"memory", "memory_map"} # {}

handle_child_exit(c) ==
  /\ ~Ended
  /\ child[c] = "zombie"
  /\ child' = [child EXCEPT ![c] = "reaped"]
  /\ \/ /\ c \in Procs => attached \/ UsesFreed
        /\ UNCHANGED pc
     \/ /\ c \in Procs /\ (UsesFreed \/ ~attached)
        /\ pc' = "crashed"
  /\ UNCHANGED <<handler, heapVars, interrupted, pressed, resources>>
-----------------------------------------------------------------------------
(* The children                                                             *)

(* SIGINT ends the scheduler and the processes; the clock removes its       *)
(* shared memory first (_cleanup).  A stopped process takes it when it is   *)
(* continued.                                                               *)
TakeInterrupt(c) ==
  /\ c \in interrupted /\ child[c] = "running"
  /\ child' = [child EXCEPT ![c] = "zombie"]
  /\ interrupted' = interrupted \ {c}
  /\ resources' = IF c = "clock" THEN resources \ {"shared memory"} ELSE resources
  /\ UNCHANGED <<pc, handler, heapVars, pressed>>

(* The scheduler stops and continues processes, and ends when all have run. *)
Schedule(p) ==
  /\ child["scheduler"] = "running"
  /\ \/ child[p] = "running" /\ child' = [child EXCEPT ![p] = "stopped"]
     \/ child[p] = "stopped" /\ child' = [child EXCEPT ![p] = "running"]
  /\ UNCHANGED <<pc, handler, heapVars, interrupted, pressed, resources>>

RunToEnd(p) ==
  /\ child[p] = "running"
  /\ child' = [child EXCEPT ![p] = "zombie"]
  /\ interrupted' = interrupted \ {p}
  /\ UNCHANGED <<pc, handler, heapVars, pressed, resources>>

SchedulerEnds ==
  /\ pc # "create"
  /\ child["scheduler"] = "running"
  /\ \A p \in Procs : ~There(p)
  /\ child' = [child EXCEPT !["scheduler"] = "zombie"]
  /\ UNCHANGED <<pc, handler, heapVars, interrupted, pressed, resources>>
-----------------------------------------------------------------------------
(* Ctrl-C: SIGINT to the generator, which ignores it from its handler on,   *)
(* and to all its children.                                                 *)
CtrlC ==
  /\ ~pressed /\ ~Ended
  /\ pressed' = TRUE
  /\ InterruptChildren
  /\ handler' = IF handler = "off" THEN "list" ELSE handler
  /\ UNCHANGED <<pc, heapVars, child, resources>>

Next ==
  \/ CreateProcesses \/ WaitForScheduler \/ DetachClock \/ TerminateAll
  \/ clear_and_exit
  \/ \E c \in Programs : handle_child_exit(c) \/ TakeInterrupt(c)
  \/ \E p \in Procs : Schedule(p) \/ RunToEnd(p)
  \/ SchedulerEnds
  \/ CtrlC

Spec == Init /\ [][Next]_vars
-----------------------------------------------------------------------------
(* clear_and_exit "clears the message queue": however the generator ends,   *)
(* no message is left for the scheduler of the next simulation, which opens *)
(* the queue of the same key.                                               *)
QueueCleared == Ended => "queue" \notin resources
=============================================================================
