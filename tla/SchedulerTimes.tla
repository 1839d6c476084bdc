--------------------------- MODULE SchedulerTimes ---------------------------
(***************************************************************************)
(* The times that the scheduler records and what scheduler.log and          *)
(* scheduler.perf make of them (scheduler.c, log_event and                  *)
(* scheduler_perf_out of file_handlers.c).                                  *)
(*                                                                         *)
(* Nothing in Scheduler depends on these variables.  Each of its actions    *)
(* that writes one is conjoined here with what it writes, and the clock,    *)
(* of which Scheduler knows only whether a process has seen the last tick,  *)
(* gets its value.                                                          *)
(***************************************************************************)
EXTENDS Scheduler

CONSTANTS Arrival,     (* the arrival times of the input file               *)
          StartClock,  (* get_clk() when the scheduler starts               *)
          MaxClock     (* no idle second after this one                     *)

ASSUME ArrivalAssumption    == Arrival \in [Procs -> Nat]
ASSUME StartClockAssumption == StartClock \in Nat
ASSUME MaxClockAssumption   == MaxClock \in Nat

VARIABLES
  clock,
  now,                    (* current_time in schedule_next_process          *)
  log_start_time,
  last_process_end_time,
  idle_time,
  wait_time,              (* PCB                                            *)
  TA,                     (* the turnaround in the "finished" log line      *)
  total_wait,
  total_time              (* as given to scheduler_perf_out                 *)

runVars  == <<now, log_start_time, last_process_end_time>>
logVars  == <<wait_time, TA, total_wait>>
perfVars == <<idle_time, total_time>>
timeVars == <<clock, runVars, logVars, perfVars>>
timedVars == <<vars, timeVars>>

TimedInit ==
  /\ Init
  /\ clock = StartClock
  /\ now = 0 /\ log_start_time = 0 /\ last_process_end_time = StartClock
  /\ wait_time = [p \in Procs |-> 0]
  /\ TA = [p \in Procs |-> 0]
  /\ total_wait = 0
  /\ idle_time = 0 /\ total_time = 0
-----------------------------------------------------------------------------
(* fork_and_send, at the arrival or, from the waiting list, later.          *)
TimedSpawn(p) ==
  /\ Spawn(p)
  /\ clock >= Arrival[p]
  /\ UNCHANGED timeVars

(* The scheduler's last act is scheduler_perf_out(idle_time, get_clk()).    *)
TimedNextTurn ==
  /\ NextTurn
  /\ total_time' = IF pc' = "exit" THEN clock ELSE total_time
  /\ UNCHANGED <<clock, runVars, logVars, idle_time>>

(* What a process has waited when it is given the CPU.                      *)
WaitedSoFar_since_arrival(p) == clock - Arrival[p]
WaitedSoFar(p) ==
  IF state[p] = "unset" THEN clock - Arrival[p]
  ELSE (clock - Arrival[p]) - (Runtime[p] - remaining_time[p])

(* schedule_next_process, if this step called it.                           *)
RecordStart ==
  IF current_pcb = NULL /\ current_pcb' # NULL
  THEN /\ wait_time' = [wait_time EXCEPT ![current_pcb'] = WaitedSoFar(current_pcb')]
       /\ now' = clock
  ELSE UNCHANGED <<wait_time, now>>

IdleSpell ==
  IF current_pcb = NULL /\ ~is_empty(ready_queue) /\ clock > last_process_end_time
  THEN clock - last_process_end_time ELSE 0

TimedDispatch ==
  /\ Dispatch
  /\ idle_time' = idle_time + IdleSpell
  /\ RecordStart
  /\ UNCHANGED <<clock, log_start_time, last_process_end_time, TA, total_wait, total_time>>

RunStart_first == IF state[current_pcb] = "started" THEN now ELSE log_start_time
RunStart == now

TimedMarkStart ==
  /\ MarkStart
  /\ log_start_time' = RunStart
  /\ now' = 0
  /\ UNCHANGED <<clock, last_process_end_time, logVars, perfVars>>

TimedHandleCurrent ==
  /\ handle_current_running_process
  /\ RecordStart
  /\ UNCHANGED <<clock, log_start_time, last_process_end_time, TA, total_wait, perfVars>>

(* handle_quantum_expiration: the run ends here.                            *)
PreemptedAt_unrecorded == last_process_end_time
PreemptedAt == clock

TimedStopProcess ==
  /\ StopProcess
  /\ last_process_end_time' = PreemptedAt
  /\ UNCHANGED <<clock, now, log_start_time, logVars, perfVars>>

TimedRotateQueue ==
  /\ RotateQueue
  /\ log_start_time' = 0
  /\ UNCHANGED <<clock, now, last_process_end_time, logVars, perfVars>>

UntimedStep ==
  /\ \/ check_for_new_processes \/ ContinueProcess \/ CompareCurrent \/ ClipRemaining
     \/ TestPreempted \/ DropCurrent \/ check_no_more_processes
  /\ UNCHANGED timeVars

TimedLoop ==
  \/ TimedNextTurn \/ TimedDispatch \/ TimedMarkStart \/ TimedHandleCurrent
  \/ TimedStopProcess \/ TimedRotateQueue \/ UntimedStep

(* log_event of a finished process; of another it only prints.              *)
log_event(p) ==
  /\ TA' = [TA EXCEPT ![p] = clock - Arrival[p]]
  /\ total_wait' = total_wait + wait_time[p]

TimedTermination ==
  /\ handle_process_termination
  /\ IF current_pcb = NULL THEN UNCHANGED timeVars
     ELSE /\ last_process_end_time' = clock
          /\ log_start_time' = 0
          /\ log_event(current_pcb)
          /\ UNCHANGED <<clock, now, wait_time, perfVars>>

TimedTick == handle_process_tick /\ UNCHANGED timeVars
TimedProcess(p) == Process(p) /\ UNCHANGED timeVars
TimedSendNoMore == SendNoMore /\ UNCHANGED timeVars
-----------------------------------------------------------------------------
(* The clock.  Under "prompt" the generator announces the end as soon as    *)
(* the last process is forked, and the scheduler ends when nothing is left: *)
(* both before the next tick.                                               *)

EndSettled ==
  (\A p \in Procs : phase[p] # "unborn") =>
    /\ noMoreMsg = "read"
    /\ Alive => current_pcb # NULL \/ ~is_empty(ready_queue)

TickRunning ==
  /\ Tick
  /\ Prompt => EndSettled
  /\ clock' = clock + 1
  /\ UNCHANGED <<runVars, logVars, perfVars>>

(* A tick that no process notices: the CPU is idle.                         *)
TickIdle ==
  /\ ~\E p \in Procs : Running(p) /\ ~fresh[p]
  /\ Prompt => Settled /\ EndSettled
  /\ clock < MaxClock
  /\ clock' = clock + 1
  /\ UNCHANGED <<vars, runVars, logVars, perfVars>>
-----------------------------------------------------------------------------
TimedNext ==
  \/ TimedLoop \/ TimedTermination \/ TimedTick
  \/ \E p \in Procs : TimedSpawn(p) \/ TimedProcess(p)
  \/ TimedSendNoMore
  \/ TickRunning \/ TickIdle

TimedSpec == TimedInit /\ [][TimedNext]_timedVars

(* The fairness of Scheduler; and the end, once the last process is forked, *)
(* is announced without a further wait.                                     *)
TimedFairness ==
  /\ WF_timedVars(TimedLoop)
  /\ WF_timedVars(TimedTermination)
  /\ WF_timedVars(TimedTick)
  /\ \A p \in Procs : WF_timedVars(TimedProcess(p))
  /\ WF_timedVars(TickRunning)
  /\ WF_timedVars(TimedSendNoMore)

TimedFairSpec == TimedSpec /\ TimedFairness
-----------------------------------------------------------------------------
SumOver(f) == FoldFunction(LAMBDA a, b : a + b, 0, f)

(* PCB.h: "TA = wait_time + runtime".  The wait is computed anew at every   *)
(* dispatch from the clock and the remaining time, the turnaround from the  *)
(* clock at the end: they agree only if every second of a process was       *)
(* counted once, as waited or as worked.                                    *)
TurnaroundIsWaitPlusRuntime ==
  \A p \in Procs : state[p] = "finished" => TA[p] = wait_time[p] + Runtime[p]

(* tests.md counts the turnaround from the first dispatch: there a process  *)
(* that finishes in its first turn has its runtime as TA, however long it   *)
(* has waited.                                                              *)
TurnaroundFromStart ==
  [][handle_process_termination /\ current_pcb # NULL /\ state[current_pcb] = "started" =>
       TA'[current_pcb] = Runtime[current_pcb]]_timedVars

(* The interval that execution_log gives for a run is as long as the work   *)
(* done in it, whether the run ends by termination or by preemption.        *)
RunsLoggedExactly ==
  [][handle_process_termination \/ StopProcess =>
       clock - log_start_time = last_remain_time - remaining_time'[current_pcb]]_timedVars

(* What the two statistics are to add up to.                                *)
Worked     == SumOver([p \in Procs |-> Runtime[p] - left[p]])
WaitsAtEnd == SumOver([p \in Procs |-> IF state[p] = "finished" THEN wait_time[p] ELSE 0])

(* scheduler.perf, if no PCB was left unread (see NoneLeftBehind).  The     *)
(* time not reported as idle is the time in which some process worked, and  *)
(* the seconds on the clock when the scheduler started: total_time is the   *)
(* clock's, idle time is only counted from the start.  The waits that are   *)
(* averaged are the turnarounds less the work.                              *)
StatisticsExact ==
  pc = "exit" /\ inbox = <<>> =>
    /\ total_time - idle_time = StartClock + Worked
    /\ total_wait = SumOver([p \in Procs |-> TA[p] - Runtime[p]])

(* tests.md gives one CPU utilization of 84.38%: the 54 seconds of work in  *)
(* the input are all that is not idle of the 64 on the clock.               *)
UtilizationIsWork ==
  pc = "exit" /\ inbox = <<>> => total_time - idle_time = Worked
-----------------------------------------------------------------------------
(* The inductive invariants behind them, on an orderly machine.             *)

TimesTypeOK ==
  /\ clock \in Nat
  /\ now \in Int /\ log_start_time \in Int
  /\ wait_time \in [Procs -> Int] /\ TA \in [Procs -> Int]

(* The tick that the current process has not counted yet.                   *)
Uncounted == IF fresh[current_pcb] THEN 1 ELSE 0

(* Every second since the arrival of the current process was waited, worked *)
(* or is about to be counted as worked.                                     *)
WaitInv ==
  current_pcb # NULL =>
    clock - Arrival[current_pcb] =
      wait_time[current_pcb] + (Runtime[current_pcb] - left[current_pcb]) + Uncounted

(* So was every second since the current run began.                         *)
RunInv ==
  current_pcb # NULL =>
    IF pc \in {"cont", "mark"} THEN now = clock
    ELSE clock - log_start_time = (last_remain_time - left[current_pcb]) + Uncounted

TimesInv == PromptInv /\ TimesTypeOK /\ WaitInv /\ RunInv /\ TurnaroundIsWaitPlusRuntime

(* While there is a current process every second since the start was idle   *)
(* or worked.                                                               *)
BusyInv == current_pcb # NULL => clock = StartClock + idle_time + Worked + Uncounted

(* While there is none, every second before the end of the last run was.    *)
(* The seconds since then are added when Dispatch next finds the queue      *)
(* nonempty: there are none if another step leaves it so, or if it stays    *)
(* empty for good.                                                          *)
NothingToCome == \A p \in Procs : phase[p] # "unborn"
SpellOver ==
  \/ pc \notin {"recv", "dispatch"} /\ ~is_empty(ready_queue)
  \/ NothingToCome /\ inbox = <<>> /\ is_empty(ready_queue)
SpellInv ==
  current_pcb = NULL /\ Alive =>
    /\ last_process_end_time = StartClock + idle_time + Worked
    /\ last_process_end_time <= clock
    /\ SpellOver => last_process_end_time = clock

(* In the end every process is finished.                                    *)
EndInv ==
  pc = "exit" /\ inbox = <<>> =>
    /\ total_time = StartClock + idle_time + Worked
    /\ \A p \in Procs : state[p] = "finished"

(* The end is announced after the last fork.                                *)
AnnouncedInv ==
  /\ noMoreMsg # "unsent" => NothingToCome
  /\ no_more_processes => noMoreMsg = "read"

StatsInv ==
  /\ TimesInv /\ AnnouncedInv /\ BusyInv /\ SpellInv /\ EndInv
  /\ last_process_end_time \in Int /\ idle_time \in Int
  /\ total_wait = WaitsAtEnd
  /\ pc \in {"drop", "rotate"} => last_process_end_time = clock
=============================================================================
