------------------------------ MODULE Scheduler ------------------------------
(***************************************************************************)
(* The running simulation: the scheduler (scheduler.c), the processes it    *)
(* starts and stops (process.c), the clock they all read (clk.c) and the    *)
(* generator's messages (process_generator.c), down to the order of their   *)
(* steps.                                                                   *)
(*                                                                         *)
(* The scheduler is a loop of steps; `pc' is the step it is about to take.  *)
(* Its two signal handlers run between any two of them, on the same         *)
(* variables.  Each process has a place in its program (phase), is stopped  *)
(* or not, and has at most one job-control signal on its way to it.         *)
(*                                                                         *)
(* A definition named like its neighbour with a suffix (TickSignal_early    *)
(* beside TickSignal) is a wrong form of it that the code could have had:   *)
(* put in its place, it breaks the properties that PROJECT.json lists.      *)
(***************************************************************************)
EXTENDS ReadyQueue

CONSTANTS Procs,     (* the processes of the input file                     *)
          Runtime,   (* the runtime of each, as the input file gives it     *)
          Priority,  (* the priority of each, 0 the highest                 *)
          Quantum,   (* the -q argument, for RR                             *)
          Timing     (* what is assumed of the machine, see below           *)

(***************************************************************************)
(* The code leaves its ordering to delays: 10 ms between two polls of a     *)
(* process, 15 ms before each receive of the scheduler, 50 ms between two   *)
(* turns of its loop, 1 ms after a SIGSTOP, 1 s between two clock ticks.    *)
(*   "any"     no delay orders anything                                     *)
(*   "prompt"  the shorter delays always end first: all the work that a     *)
(*             tick or an arrival causes is done before the next tick, a    *)
(*             forked process raises SIGSTOP before its message is read,    *)
(*             and takes a SIGSTOP within the 1 ms the scheduler waits      *)
(*   "apart"   prompt, and no process arrives in the 10 ms in which the     *)
(*             running process has not yet seen the last tick               *)
(***************************************************************************)
Prompt == Timing # "any"

ASSUME AlgoAssumption     == Algo \in Algorithms
ASSUME ProcsAssumption    == NULL \notin Procs
ASSUME RuntimeAssumption  == Runtime \in [Procs -> Nat]
ASSUME PriorityAssumption == Priority \in [Procs -> Nat]
ASSUME QuantumAssumption  == Quantum \in Nat \ {0}
ASSUME TimingAssumption   == Timing \in {"any", "prompt", "apart"}

VARIABLES
  phase,             (* process: where it is in run_process                 *)
  stopped,           (* process: stopped by job control                     *)
  psig,              (* process: the SIGSTOP or SIGCONT on its way to it    *)
  left,              (* process: its local `runtime'                        *)
  fresh,             (* process: get_clk() # last_clk                       *)
  inbox,             (* message queue: PCBs, in the order they were sent    *)
  noMoreMsg,         (* message queue: the "no_more_processes" message      *)
  sigs,              (* signals pending for the scheduler                   *)
  pc,                (* scheduler: its next step                            *)
  ret,               (* scheduler: where schedule_next_process returns      *)
  ready_queue,
  current_pcb,
  remaining_time,    (* PCB: as the scheduler counts it                     *)
  state,             (* PCB: unset until first scheduled (start_time = -1)  *)
  last_remain_time,
  no_more_processes

procVars == <<phase, stopped, psig, left, fresh>>
msgVars  == <<inbox, noMoreMsg>>
pcbVars  == <<remaining_time, state>>
schVars  == <<ready_queue, current_pcb, pcbVars, last_remain_time, no_more_processes>>
vars     == <<procVars, msgVars, sigs, pc, ret, schVars>>

Steps == {"test", "recv", "dispatch", "cont", "mark", "check", "compare", "due",
          "preempt", "stop", "drop", "rotate", "nomore", "exit", "crash"}
Alive == pc \notin {"exit", "crash"}

Init ==
  /\ phase   = [p \in Procs |-> "unborn"]
  /\ stopped = [p \in Procs |-> FALSE]
  /\ psig    = [p \in Procs |-> "none"]
  /\ left    = Runtime
  /\ fresh   = [p \in Procs |-> FALSE]
  /\ inbox = <<>>
  /\ noMoreMsg = "unsent"
  /\ sigs = {}
  /\ pc = "test"
  /\ ret = "check"
  /\ ready_queue = init_queue
  /\ current_pcb = NULL
  /\ remaining_time = Runtime
  /\ state = [p \in Procs |-> "unset"]
  /\ last_remain_time = 0
  /\ no_more_processes = FALSE
-----------------------------------------------------------------------------
(* The process generator, as the scheduler and the processes see it.        *)

(* A running process that has not yet polled the clock since the last tick, *)
(* or the scheduler that has not yet run the handler of the signal it sent. *)
TickUnderWay ==
  sigs # {} \/ \E p \in Procs : phase[p] = "loop" /\ ~stopped[p] /\ fresh[p]

(* fork_and_send: the child is forked, then its PCB is sent.                *)
Spawn(p) ==
  /\ phase[p] = "unborn"
  /\ Timing = "apart" => ~TickUnderWay
  /\ phase' = [phase EXCEPT ![p] = "init"]
  /\ inbox' = Append(inbox, p)
  /\ UNCHANGED <<stopped, psig, left, fresh, noMoreMsg, sigs, pc, ret, schVars>>

SendNoMore ==
  /\ noMoreMsg = "unsent"
  /\ \A p \in Procs : phase[p] # "unborn"
  /\ noMoreMsg' = "queued"
  /\ UNCHANGED <<procVars, inbox, sigs, pc, ret, schVars>>
-----------------------------------------------------------------------------
(* A process                                                                *)

(* raise(SIGSTOP): from now on the process waits for a SIGCONT.             *)
RaiseStop(p) ==
  /\ phase[p] = "init"
  /\ ~stopped[p]
  /\ phase' = [phase EXCEPT ![p] = "raised"]
  /\ stopped' = [stopped EXCEPT ![p] = TRUE]
  /\ psig' = [psig EXCEPT ![p] = "none"]
  /\ UNCHANGED <<left, fresh, msgVars, sigs, pc, ret, schVars>>

(* A SIGSTOP reaches the process.                                           *)
TakeStop(p) ==
  /\ psig[p] = "stop"
  /\ psig' = [psig EXCEPT ![p] = "none"]
  /\ stopped' = [stopped EXCEPT ![p] = TRUE]
  /\ UNCHANGED <<phase, left, fresh, msgVars, sigs, pc, ret, schVars>>

(* The SIGCONT handler: last_clk catches up with the clock.  A process that *)
(* was stopped in raise(SIGSTOP) goes on to its loop; one that has not come *)
(* to it yet is where it was.                                               *)
handle_sigcont(p) ==
  /\ psig[p] = "cont"
  /\ psig' = [psig EXCEPT ![p] = "none"]
  /\ fresh' = [fresh EXCEPT ![p] = FALSE]
  /\ phase' = [phase EXCEPT ![p] = IF @ = "raised" THEN "loop" ELSE @]
  /\ UNCHANGED <<stopped, left, msgVars, sigs, pc, ret, schVars>>

(* The signal that tells the scheduler of a tick: the last one is SIGUSR1.  *)
TickSignal_early(p) == IF left[p] <= 2 THEN "SIGUSR1" ELSE "SIGUSR2"
TickSignal_never(p) == IF left[p] = 0 THEN "SIGUSR1" ELSE "SIGUSR2"
TickSignal(p)       == IF left[p] = 1 THEN "SIGUSR1" ELSE "SIGUSR2"

(* A turn of the loop that sees a new clock value.                          *)
PollTick(p) ==
  /\ phase[p] = "loop" /\ ~stopped[p] /\ psig[p] # "cont"
  /\ left[p] > 0
  /\ fresh[p]
  /\ left' = [left EXCEPT ![p] = @ - 1]
  /\ fresh' = [fresh EXCEPT ![p] = FALSE]
  /\ sigs' = IF Alive THEN sigs \cup {TickSignal(p)} ELSE sigs
  /\ UNCHANGED <<phase, stopped, psig, msgVars, pc, ret, schVars>>

ExitProcess(p) ==
  /\ phase[p] = "loop" /\ ~stopped[p]
  /\ left[p] = 0
  /\ phase' = [phase EXCEPT ![p] = "exited"]
  /\ psig' = [psig EXCEPT ![p] = "none"]
  /\ UNCHANGED <<stopped, left, fresh, msgVars, sigs, pc, ret, schVars>>

Process(p) ==
  RaiseStop(p) \/ TakeStop(p) \/ handle_sigcont(p) \/ PollTick(p) \/ ExitProcess(p)
-----------------------------------------------------------------------------
(* What kill(2) does to a process: each of the two signals discards the     *)
(* other if that one is still pending, and SIGCONT resumes at once.         *)
(* A process that has not yet called raise(SIGSTOP) keeps nothing of it.    *)

kill_SIGCONT(p) ==
  IF phase[p] = "exited" THEN UNCHANGED <<psig, stopped>>
  ELSE /\ stopped' = [stopped EXCEPT ![p] = FALSE]
       /\ psig' = [psig EXCEPT ![p] = "cont"]

kill_SIGSTOP(p) ==
  IF phase[p] = "exited" \/ stopped[p] THEN UNCHANGED psig
  ELSE psig' = [psig EXCEPT ![p] = "stop"]
-----------------------------------------------------------------------------
(* The scheduler's loop.  A step that dereferences current_pcb when it is   *)
(* NULL ends the scheduler.                                                 *)

Go(step) == pc' = step /\ UNCHANGED ret

NextTurn ==
  /\ pc = "test"
  /\ IF ~no_more_processes \/ ~is_empty(ready_queue) \/ current_pcb # NULL
     THEN Go("recv") ELSE Go("exit")
  /\ UNCHANGED <<procVars, msgVars, sigs, schVars>>

(* Under SRTN the heap is keyed by the remaining time, under HPF by the     *)
(* priority; the ring of RR has no key.                                     *)
Key(p) == IF Algo = "SRTN" THEN remaining_time[p] ELSE Priority[p]

(* check_for_new_processes, one message at a time.  An invalid PCB is read  *)
(* and dropped, and ends this turn's receiving.                             *)
check_for_new_processes ==
  /\ pc = "recv"
  /\ \/ /\ inbox = <<>>
        /\ Go("dispatch")
        /\ UNCHANGED <<inbox, ready_queue>>
     \/ /\ inbox # <<>>
        /\ Prompt => phase[Head(inbox)] # "init"
        /\ inbox' = Tail(inbox)
        /\ IF Runtime[Head(inbox)] > 0
           THEN /\ ready_queue' = enqueue(ready_queue, Head(inbox), Key(Head(inbox)))
                /\ Go("recv")
           ELSE Go("dispatch") /\ UNCHANGED ready_queue
  /\ UNCHANGED <<procVars, noMoreMsg, sigs, current_pcb, pcbVars, last_remain_time,
                 no_more_processes>>

(* schedule_next_process, up to the kill; back is where it returns.         *)
schedule_next_process(back) ==
  /\ ~is_empty(ready_queue)
  /\ current_pcb' = front(ready_queue)
  /\ IF Algo = "HPF" THEN ready_queue' \in dequeue(ready_queue, TRUE)
                     ELSE UNCHANGED ready_queue
  /\ state' = [state EXCEPT ![front(ready_queue)] =
                 IF @ = "unset" THEN "started" ELSE "resumed"]
  /\ pc' = "cont"
  /\ ret' = back

Dispatch ==
  /\ pc = "dispatch"
  /\ \/ current_pcb = NULL /\ schedule_next_process("check")
     \/ /\ current_pcb # NULL \/ is_empty(ready_queue)
        /\ Go("check")
        /\ UNCHANGED <<ready_queue, current_pcb, state>>
  /\ UNCHANGED <<procVars, msgVars, sigs, remaining_time, last_remain_time,
                 no_more_processes>>

ContinueProcess ==
  /\ pc = "cont"
  /\ IF current_pcb = NULL THEN Go("crash") /\ UNCHANGED <<psig, stopped>>
     ELSE Go("mark") /\ kill_SIGCONT(current_pcb)
  /\ UNCHANGED <<phase, left, fresh, msgVars, sigs, schVars>>

MarkStart ==
  /\ pc = "mark"
  /\ IF current_pcb = NULL THEN Go("crash") /\ UNCHANGED last_remain_time
     ELSE /\ last_remain_time' = remaining_time[current_pcb]
          /\ Go(ret)
  /\ UNCHANGED <<procVars, msgVars, sigs, ready_queue, current_pcb, pcbVars,
                 no_more_processes>>

(* The remaining time at which the current turn is over.                    *)
QuantumEnd_late == last_remain_time - Quantum - 1
QuantumEnd      == last_remain_time - Quantum

QuantumExpired_at_tick ==
  Algo = "RR" /\ remaining_time[current_pcb] < last_remain_time
QuantumExpired ==
  Algo = "RR" /\ remaining_time[current_pcb] <= QuantumEnd

(* Under SRTN current_pcb is compared with the front of the queue, next_pcb. *)
ShorterWaiting_never == FALSE
ShorterWaiting ==
  /\ Algo = "SRTN"
  /\ current_pcb # NULL
  /\ front(ready_queue) \notin {NULL, current_pcb}

(* handle_current_running_process, up to its first load of current_pcb: the *)
(* test that it is not NULL.  The use of current_pcb is a load of its own,  *)
(* CompareCurrent.  Only where next_pcb is another process that load makes  *)
(* no difference: a NULL is not next_pcb either, and ClipRemaining faults.  *)
(* Under SRTN the code acts at least 15 ms after the message that made it.  *)
handle_current_running_process ==
  /\ pc = "check"
  /\ \/ /\ Algo = "HPF" /\ current_pcb = NULL
        /\ schedule_next_process("nomore")
     \/ /\ ShorterWaiting
        /\ Prompt => ~TickUnderWay
        /\ Go("due")
        /\ UNCHANGED <<ready_queue, current_pcb, state>>
     \/ /\ current_pcb # NULL
        /\ Algo = "RR" \/ (Algo = "SRTN" /\ front(ready_queue) = current_pcb)
        /\ Go("compare")
        /\ UNCHANGED <<ready_queue, current_pcb, state>>
     \/ /\ CASE Algo = "HPF"  -> current_pcb # NULL \/ is_empty(ready_queue)
             [] Algo = "RR"   -> current_pcb = NULL
             [] Algo = "SRTN" -> NULL \in {current_pcb, front(ready_queue)}
        /\ Go("nomore")
        /\ UNCHANGED <<ready_queue, current_pcb, state>>
  /\ UNCHANGED <<procVars, msgVars, sigs, remaining_time, last_remain_time,
                 no_more_processes>>

(* The second load.  A termination handler that ran since the test has set  *)
(* current_pcb to NULL: RR dereferences it to read the remaining time, SRTN *)
(* finds it different from next_pcb and dereferences it to print it.        *)
CompareCurrent ==
  /\ pc = "compare"
  /\ IF current_pcb = NULL THEN Go("crash")
     ELSE IF QuantumExpired THEN Go("due") ELSE Go("nomore")
  /\ UNCHANGED <<procVars, msgVars, sigs, schVars>>

(* Under RR the remaining time is set back to what the quantum left of it;  *)
(* under SRTN the processes compared are only printed.                      *)
ClipRemaining ==
  /\ pc = "due"
  /\ IF current_pcb = NULL THEN Go("crash") /\ UNCHANGED remaining_time
     ELSE /\ IF Algo = "RR"
             THEN remaining_time' = [remaining_time EXCEPT ![current_pcb] = QuantumEnd]
             ELSE UNCHANGED remaining_time
          /\ Go("preempt")
  /\ UNCHANGED <<procVars, msgVars, sigs, ready_queue, current_pcb, state,
                 last_remain_time, no_more_processes>>

(* handle_quantum_expiration, in the order of its effects.                  *)
TestPreempted ==
  /\ pc = "preempt"
  /\ IF current_pcb = NULL THEN Go("nomore") ELSE Go("stop")
  /\ UNCHANGED <<procVars, msgVars, sigs, schVars>>

StopProcess_unsent ==
  /\ pc = "stop"
  /\ IF current_pcb = NULL THEN Go("crash") ELSE Go("drop")
  /\ UNCHANGED <<procVars, msgVars, sigs, schVars>>
StopProcess ==
  /\ pc = "stop"
  /\ IF current_pcb = NULL THEN Go("crash") /\ UNCHANGED psig
     ELSE Go("drop") /\ kill_SIGSTOP(current_pcb)
  /\ UNCHANGED <<phase, stopped, left, fresh, msgVars, sigs, schVars>>

DropCurrent ==
  /\ pc = "drop"
  /\ IF current_pcb = NULL THEN Go("crash") /\ UNCHANGED state
     ELSE /\ state' = [state EXCEPT ![current_pcb] = "stopped"]
          /\ Go("rotate")
  /\ current_pcb' = NULL
  /\ UNCHANGED <<procVars, msgVars, sigs, ready_queue, remaining_time,
                 last_remain_time, no_more_processes>>

(* After 1 ms of sleep "to ensure the process is stopped".                  *)
RotateQueue ==
  /\ pc = "rotate"
  /\ Prompt => \A p \in Procs : psig[p] # "stop"
  /\ IF Algo = "RR" THEN ready_queue' \in dequeue(ready_queue, FALSE)
                    ELSE UNCHANGED ready_queue
  /\ Go("nomore")
  /\ UNCHANGED <<procVars, msgVars, sigs, current_pcb, pcbVars, last_remain_time,
                 no_more_processes>>

check_no_more_processes ==
  /\ pc = "nomore"
  /\ IF noMoreMsg = "queued"
     THEN noMoreMsg' = "read" /\ no_more_processes' = TRUE
     ELSE UNCHANGED <<noMoreMsg, no_more_processes>>
  /\ Go("test")
  /\ UNCHANGED <<procVars, inbox, sigs, ready_queue, current_pcb, pcbVars,
                 last_remain_time>>
-----------------------------------------------------------------------------
(* The scheduler's signal handlers, between any two steps of its loop.  Two *)
(* signals of the same number become one.  When both numbers are pending,   *)
(* Linux stacks the handler of the higher on that of the lower: the tick is *)
(* handled before the termination.                                          *)

(* HPF took the process out of the queue when it was scheduled.             *)
DequeuesAtTermination_always == TRUE
DequeuesAtTermination_never  == FALSE
DequeuesAtTermination        == Algo # "HPF"

(* SIGUSR1.  The process that ended is taken to be the current one, and,    *)
(* but for HPF, to be the one the queue would give next.                    *)
handle_process_termination ==
  /\ Alive /\ sigs = {"SIGUSR1"}
  /\ sigs' = sigs \ {"SIGUSR1"}
  /\ IF current_pcb = NULL
     THEN Go("crash") /\ UNCHANGED <<ready_queue, current_pcb, pcbVars, last_remain_time>>
     ELSE /\ IF DequeuesAtTermination THEN ready_queue' \in dequeue(ready_queue, TRUE)
             ELSE UNCHANGED ready_queue
          /\ remaining_time' = [remaining_time EXCEPT ![current_pcb] = @ - 1]
          /\ state' = [state EXCEPT ![current_pcb] = "finished"]
          /\ current_pcb' = NULL
          /\ last_remain_time' = 0
          /\ UNCHANGED <<pc, ret>>
  /\ UNCHANGED <<procVars, msgVars, no_more_processes>>

(* SIGUSR2.  The NULL test comes after the first use.                       *)
handle_process_tick ==
  /\ Alive /\ "SIGUSR2" \in sigs
  /\ sigs' = sigs \ {"SIGUSR2"}
  /\ IF current_pcb = NULL
     THEN Go("crash") /\ UNCHANGED <<ready_queue, remaining_time>>
     ELSE /\ remaining_time' = [remaining_time EXCEPT ![current_pcb] = @ - 1]
          /\ IF Algo = "SRTN"
             THEN ready_queue' \in change_priority(ready_queue, remaining_time[current_pcb] - 1)
             ELSE UNCHANGED ready_queue
          /\ UNCHANGED <<pc, ret>>
  /\ UNCHANGED <<procVars, msgVars, current_pcb, state, last_remain_time,
                 no_more_processes>>

SchedulerLoop ==
  \/ NextTurn \/ check_for_new_processes \/ Dispatch \/ ContinueProcess \/ MarkStart
  \/ handle_current_running_process \/ CompareCurrent \/ ClipRemaining \/ TestPreempted
  \/ StopProcess \/ DropCurrent \/ RotateQueue \/ check_no_more_processes
-----------------------------------------------------------------------------
(* The clock.                                                               *)

Running(p) == phase[p] = "loop" /\ ~stopped[p]

(* Nothing is left to do until the next tick: no message, signal or poll is *)
(* outstanding and the scheduler's loop has nothing to decide.              *)
Settled ==
  /\ ~TickUnderWay
  /\ inbox = <<>>
  /\ \A p \in Procs : psig[p] = "none" /\ phase[p] # "init" /\ (Running(p) => left[p] > 0)
  /\ Alive => /\ pc \in {"test", "recv", "dispatch", "check", "compare", "nomore"}
              /\ IF current_pcb = NULL THEN is_empty(ready_queue)
                 ELSE ~QuantumExpired /\ ~ShorterWaiting

Tick ==
  /\ Prompt => Settled
  /\ \E p \in Procs : Running(p) /\ ~fresh[p]
  /\ fresh' = [p \in Procs |-> fresh[p] \/ Running(p)]
  /\ UNCHANGED <<phase, stopped, psig, left, msgVars, sigs, pc, ret, schVars>>
-----------------------------------------------------------------------------
Next ==
  \/ SchedulerLoop \/ handle_process_termination \/ handle_process_tick
  \/ \E p \in Procs : Spawn(p) \/ Process(p)
  \/ SendNoMore
  \/ Tick

Spec == Init /\ [][Next]_vars

(* The machine runs every program of the simulation and delivers its        *)
(* signals; the generator is free never to send another process.            *)
Fairness ==
  /\ WF_vars(SchedulerLoop)
  /\ WF_vars(handle_process_termination)
  /\ WF_vars(handle_process_tick)
  /\ \A p \in Procs : WF_vars(Process(p))
  /\ WF_vars(Tick)

FairSpec == Spec /\ Fairness
-----------------------------------------------------------------------------
(* Properties.  The timing each needs is that of the runs that check it.    *)

Waiting(p)  == p \in QueueItems(ready_queue)
InInbox(p)  == \E i \in DOMAIN inbox : inbox[i] = p
Received(p) == phase[p] # "unborn" /\ ~InInbox(p) /\ Runtime[p] > 0

(* Every variable has its type; in particular the ready queue is well       *)
(* formed and holds only processes, and current_pcb is one of them or NULL. *)
TypeOK ==
  /\ phase \in [Procs -> {"unborn", "init", "raised", "loop", "exited"}]
  /\ stopped \in [Procs -> BOOLEAN]
  /\ psig \in [Procs -> {"none", "stop", "cont"}]
  /\ left \in [Procs -> Nat]
  /\ fresh \in [Procs -> BOOLEAN]
  /\ inbox \in Seq(Procs)
  /\ noMoreMsg \in {"unsent", "queued", "read"}
  /\ sigs \subseteq {"SIGUSR1", "SIGUSR2"}
  /\ pc \in Steps
  /\ ret \in {"check", "nomore"}
  /\ QueueOK(ready_queue, Procs)
  /\ current_pcb \in Procs \cup {NULL}
  /\ remaining_time \in [Procs -> Int]
  /\ state \in [Procs -> {"unset", "started", "resumed", "stopped", "finished"}]
  /\ last_remain_time \in Int
  /\ no_more_processes \in BOOLEAN

(* One CPU: of the processes that still have work, at most one is running.  *)
(* Stopping one process and continuing the next are separate kill calls, in *)
(* separate turns of the scheduler's loop.                                  *)
OneAtATime ==
  \A p, q \in Procs :
    (Running(p) /\ left[p] > 0 /\ Running(q) /\ left[q] > 0) => p = q

(* SIGUSR1 does not say who sent it: the process that the scheduler marks   *)
(* finished is one that has used its whole runtime.                         *)
FinishedMeansDone ==
  \A p \in Procs : state[p] = "finished" => left[p] = 0

(* A process whose PCB was accepted is in the ready queue or on the CPU     *)
(* exactly until it finishes: none is dropped, none comes back.             *)
NothingLost ==
  \A p \in Procs :
    Received(p) => (state[p] = "finished" <=> ~(Waiting(p) \/ current_pcb = p))

(* Line 197 tests that current_pcb is not NULL before it reads the remaining *)
(* time: the scheduler never dereferences a NULL.                           *)
NoCrash == pc # "crash"

(* No handler and no step but CompareCurrent meets a current_pcb that was   *)
(* set to NULL under it: neither a signal that comes after the process it   *)
(* is about was preempted, nor a step of a dispatch or a preemption.        *)
CrashesOnlyInCompare ==
  [][pc # "crash" /\ pc' = "crash" => CompareCurrent]_vars

(* The scheduler's count of a process's remaining time and the process's    *)
(* own count differ only by the signal that is on its way.                  *)
CountersAgree ==
  \A p \in Procs :
    remaining_time[p] = left[p] + (IF p = current_pcb /\ sigs # {} THEN 1 ELSE 0)

(* Under RR a turn never exceeds the quantum, and a turn that is cut short  *)
(* by SIGSTOP has used all of it.                                           *)
QuantumExact ==
  current_pcb # NULL /\ pc \notin {"cont", "mark"} =>
    LET used == last_remain_time - left[current_pcb]
    IN  used <= Quantum /\ (pc \in {"preempt", "stop", "drop"} => used = Quantum)

(* Under SRTN the process put on the CPU has the least work left of all     *)
(* that are queued.                                                         *)
DispatchesShortest ==
  [][current_pcb = NULL /\ current_pcb' # NULL =>
       \A q \in QueueItems(ready_queue) : left[current_pcb'] <= left[q]]_vars

(* Under SRTN a tick is only ever used by a process with the least work     *)
(* left: the shorter arrival preempts before the next tick.                 *)
ShortestRuns ==
  [][\A p \in Procs : left'[p] # left[p] =>
       \A q \in QueueItems(ready_queue) : left[p] <= left[q]]_vars

(* The scheduler does not end while a PCB sent to it is still unread.       *)
NoneLeftBehind == pc = "exit" => inbox = <<>>

(* Whatever waits in the ready queue gets its whole runtime in the end,     *)
(* unless the scheduler crashes.                                            *)
WaitingFinishes == \A p \in Procs : Waiting(p) ~> state[p] = "finished" \/ pc = "crash"
-----------------------------------------------------------------------------
(* The inductive invariant behind the safety of HPF, on any machine.        *)

(* What the scheduler's and the process's own view of a process say of each *)
(* other.  An unset state means that it was never continued.                *)
Lifecycle(p) ==
  /\ phase[p] = "unborn" => state[p] = "unset" /\ ~InInbox(p) /\ ~Waiting(p)
  /\ InInbox(p) \/ Waiting(p) => state[p] = "unset" /\ phase[p] # "unborn"
  /\ Waiting(p) => ~InInbox(p)
  /\ state[p] = "unset" => /\ phase[p] \in {"unborn", "init", "raised"}
                           /\ psig[p] = "none"
                           /\ current_pcb # p
  /\ state[p] = "finished" => left[p] = 0 /\ current_pcb # p
  /\ state[p] \notin {"unset", "finished"} => current_pcb = p
  /\ Received(p) => Waiting(p) \/ current_pcb = p \/ state[p] = "finished"

NothingPreempted ==
  /\ pc \notin {"compare", "due", "preempt", "stop", "drop", "rotate"}
  /\ \A p \in Procs : psig[p] # "stop"

OwnSignal == "SIGUSR1" \in sigs => current_pcb # NULL /\ left[current_pcb] = 0

InboxDistinct == \A i, j \in DOMAIN inbox : inbox[i] = inbox[j] => i = j

(* Under HPF nothing is ever preempted, the one pending SIGUSR1 is the      *)
(* current process's own, and each PCB is sent once.                        *)
HPFInv ==
  TypeOK /\ NothingPreempted /\ OwnSignal /\ InboxDistinct /\ \A p \in Procs : Lifecycle(p)
-----------------------------------------------------------------------------
(* The inductive invariant behind the safety of all three algorithms on an  *)
(* orderly machine: a prompt one where, under SRTN, no process arrives      *)
(* within a tick.                                                           *)
Orderly == Prompt /\ (Algo = "SRTN" => Timing = "apart")

(* The scheduler has changed its mind about nothing: it polls, and the      *)
(* current process may run.                                                 *)
Polling == {"test", "recv", "dispatch", "check", "compare", "nomore"}

(* Where the loop is, against whether there is a current process.           *)
StepsInv ==
  /\ pc \in {"cont", "mark", "due", "preempt", "stop", "drop"} => current_pcb # NULL
  /\ pc \in {"compare", "due", "preempt", "stop", "drop", "rotate"} => Algo # "HPF"
  /\ pc \in {"rotate", "exit", "crash"} => current_pcb = NULL

(* Only the current process sees a tick, its signal is the right one, and   *)
(* nothing is decided or sent to a process while the tick is under way.     *)
TickInv ==
  /\ \A p \in Procs :
       fresh[p] => current_pcb = p /\ phase[p] = "loop" /\ ~stopped[p] /\ left[p] > 0 /\ sigs = {}
  /\ sigs # {} =>
       current_pcb # NULL /\ sigs = {IF left[current_pcb] = 0 THEN "SIGUSR1" ELSE "SIGUSR2"}
  /\ TickUnderWay =>
       /\ pc \in Polling
       /\ \A p \in Procs : psig[p] = "none"
       /\ Algo = "SRTN" => inbox = <<>> /\ ~ShorterWaiting

(* RR's ring holds nothing twice and the current process is at its front;   *)
(* SRTN's heap is keyed by what remains of each process.                    *)
QueueInv ==
  /\ Algo = "RR" =>
       /\ RingDistinct(ready_queue)
       /\ current_pcb # NULL => front(ready_queue) = current_pcb
  /\ Algo = "SRTN" =>
       /\ \A p \in QueueItems(ready_queue) : ready_queue.prio[p] = remaining_time[p]
       /\ TopLeast(ready_queue)

(* What the current process has used of its turn, and what it can still use *)
(* of it.                                                                   *)
QuantumInv ==
  Algo = "RR" /\ current_pcb # NULL /\ pc \notin {"cont", "mark"} =>
    LET used == last_remain_time - left[current_pcb]
    IN  /\ used <= Quantum
        /\ fresh[current_pcb] => used < Quantum
        /\ pc \in {"due", "preempt", "stop", "drop"} => used = Quantum

(* A process that was stopped in its run, and one that is about to be.      *)
Suspended(p) ==
  phase[p] \in {"raised", "loop"} /\ left[p] > 0 /\ psig[p] = "none" /\ stopped[p]
Stopping(p) ==
  phase[p] \in {"raised", "loop"} /\ left[p] > 0 /\ psig[p] = "stop" /\ ~stopped[p]

(* The four stages of a process: it was never scheduled, it is the current  *)
(* one, it was preempted, it has ended.                                     *)
Unscheduled(p) ==
  /\ current_pcb # p /\ ~fresh[p] /\ psig[p] = "none" /\ left[p] = Runtime[p]
  /\ phase[p] \in {"unborn", "init", "raised"}
  /\ stopped[p] <=> phase[p] = "raised"
  /\ phase[p] = "unborn" => ~InInbox(p) /\ ~Waiting(p)
  /\ Waiting(p) => phase[p] = "raised" /\ left[p] > 0 /\ ~InInbox(p)
  /\ Received(p) => Waiting(p)
OnCPU(p) ==
  /\ current_pcb = p /\ ~InInbox(p) /\ (Waiting(p) <=> Algo # "HPF")
  /\ left[p] = 0 <=> "SIGUSR1" \in sigs
  /\ pc = "cont" => Suspended(p)
  /\ pc = "drop" => Suspended(p) \/ Stopping(p)
  /\ pc \notin {"cont", "drop"} =>
       /\ ~stopped[p]
       /\ \/ psig[p] = "cont" /\ phase[p] \in {"raised", "loop"} /\ left[p] > 0
          \/ psig[p] = "none" /\ phase[p] = "loop"
          \/ psig[p] = "none" /\ phase[p] = "exited" /\ left[p] = 0
PutAside(p) ==
  /\ current_pcb # p /\ ~InInbox(p) /\ Waiting(p) /\ ~fresh[p]
  /\ Suspended(p) \/ (pc = "rotate" /\ Stopping(p))
Ended(p) ==
  /\ current_pcb # p /\ ~InInbox(p) /\ ~Waiting(p) /\ ~fresh[p]
  /\ phase[p] \in {"loop", "exited"} /\ left[p] = 0 /\ psig[p] = "none" /\ ~stopped[p]

Stage(p) ==
  /\ state[p] = "unset" => Unscheduled(p)
  /\ state[p] \in {"started", "resumed"} => OnCPU(p)
  /\ state[p] = "stopped" => PutAside(p)
  /\ state[p] = "finished" => Ended(p)

OneStopping == \A p, q \in Procs : psig[p] = "stop" /\ psig[q] = "stop" => p = q

(* On an orderly machine whatever a process, the queue and the scheduler's    *)
(* own count say of each other holds between any two steps.                 *)
PromptInv ==
  /\ TypeOK /\ InboxDistinct /\ StepsInv /\ TickInv /\ QueueInv /\ QuantumInv
  /\ CountersAgree /\ OneStopping
  /\ \A p \in Procs : Stage(p)
=============================================================================
