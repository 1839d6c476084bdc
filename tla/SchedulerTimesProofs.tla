------------------------ MODULE SchedulerTimesProofs ------------------------
(***************************************************************************)
(* Theorems about SchedulerTimes under each of the three algorithms on an   *)
(* orderly machine.                                                         *)
(***************************************************************************)
EXTENDS SchedulerTimes, SchedulerProofs, FiniteSetTheorems, WellFoundedInduction

(* Recording times changes nothing of the simulation: every step is one of  *)
(* Scheduler's or leaves its variables alone.                               *)
LEMMA TimedStepIsStep == [TimedNext]_timedVars => [Next]_vars
<1>1. UNCHANGED timedVars \/ TickIdle => UNCHANGED vars
  BY DEF timedVars, TickIdle
<1>2. TimedLoop => SchedulerLoop
  BY DEF TimedLoop, TimedNextTurn, TimedDispatch, TimedMarkStart, TimedHandleCurrent,
     TimedStopProcess, TimedRotateQueue, UntimedStep, SchedulerLoop
<1>3. /\ TimedTermination => handle_process_termination
      /\ TimedTick => handle_process_tick
      /\ TimedSendNoMore => SendNoMore
      /\ TickRunning => Tick
      /\ \A p \in Procs : TimedSpawn(p) \/ TimedProcess(p) => Spawn(p) \/ Process(p)
  BY DEF TimedTermination, TimedTick, TimedSendNoMore, TickRunning, TimedSpawn, TimedProcess
<1> QED
  BY <1>1, <1>2, <1>3 DEF TimedNext, Next

(* Recording times keeps the invariant of the simulation.                   *)
LEMMA TimedKeepsPrompt ==
  ASSUME Orderly, PromptInv, [TimedNext]_timedVars
  PROVE  PromptInv'
BY TimedStepIsStep, PromptStep

(* Before anything has happened no time but the clock's is known.           *)
LEMMA TimesInit == TimedInit => TimesInv
<1> SUFFICES ASSUME TimedInit PROVE TimesInv
  OBVIOUS
<1>1. PromptInv
  BY PromptInit DEF TimedInit
<1>2. TimesTypeOK
  BY StartClockAssumption DEF TimedInit, TimesTypeOK
<1>3. WaitInv /\ RunInv /\ TurnaroundIsWaitPlusRuntime
  BY DEF TimedInit, Init, WaitInv, RunInv, TurnaroundIsWaitPlusRuntime
<1> QED
  BY <1>1, <1>2, <1>3 DEF TimesInv

(* A step that writes none of these times, in which a tick counted is a     *)
(* tick worked.                                                             *)
LEMMA TimesFrame ==
  ASSUME TimesInv, PromptInv',
         UNCHANGED <<clock, now, log_start_time, wait_time, TA>>,
         \A p \in Procs : state'[p] = "finished" => state[p] = "finished",
         current_pcb' # NULL =>
           /\ current_pcb' = current_pcb /\ last_remain_time' = last_remain_time
           /\ left'[current_pcb] - Uncounted' = left[current_pcb] - Uncounted
           /\ pc' \in {"cont", "mark"} <=> pc \in {"cont", "mark"}
  PROVE  TimesInv'
<1>0. TypeOK /\ TypeOK'
  BY DEF TimesInv, PromptInv
<1>1. TimesTypeOK'
  BY DEF TimesInv, TimesTypeOK
<1>2. TurnaroundIsWaitPlusRuntime'
  BY DEF TimesInv, TurnaroundIsWaitPlusRuntime
<1>3. WaitInv' /\ RunInv'
  <2> SUFFICES ASSUME current_pcb' # NULL PROVE WaitInv' /\ RunInv'
    BY DEF WaitInv, RunInv
  <2>1. PICK c \in Procs : c = current_pcb /\ current_pcb # NULL /\ current_pcb' = c
    BY <1>0 DEF TypeOK
  <2>2. /\ clock \in Int /\ now \in Int /\ log_start_time \in Int /\ wait_time[c] \in Int
        /\ Arrival[c] \in Int /\ Runtime[c] \in Int
        /\ left[c] \in Int /\ left'[c] \in Int /\ last_remain_time \in Int
        /\ Uncounted \in Int /\ Uncounted' \in Int
    BY <1>0, <2>1, ArrivalAssumption, RuntimeAssumption DEF TimesInv, TimesTypeOK, TypeOK, Uncounted
  <2>3. /\ left'[c] - Uncounted' = left[c] - Uncounted
        /\ clock - Arrival[c] = wait_time[c] + (Runtime[c] - left[c]) + Uncounted
        /\ IF pc \in {"cont", "mark"} THEN now = clock
           ELSE clock - log_start_time = (last_remain_time - left[c]) + Uncounted
    BY <2>1 DEF TimesInv, WaitInv, RunInv
  <2>4. clock' - Arrival[c] = wait_time'[c] + (Runtime[c] - left'[c]) + Uncounted'
    BY <2>2, <2>3
  <2>5. IF pc' \in {"cont", "mark"} THEN now' = clock'
        ELSE clock' - log_start_time' = (last_remain_time' - left'[c]) + Uncounted'
    <3>1. (pc' \in {"cont", "mark"} <=> pc \in {"cont", "mark"}) /\ last_remain_time' = last_remain_time
      BY <2>1
    <3>2. CASE pc \in {"cont", "mark"}
      BY <2>3, <3>1, <3>2
    <3>3. CASE pc \notin {"cont", "mark"}
      <4>0. clock - log_start_time = (last_remain_time - left[c]) + Uncounted
        BY <2>3, <3>3
      <4>1. clock - log_start_time = (last_remain_time - left'[c]) + Uncounted'
        BY <2>2, <2>3, <4>0
      <4> QED
        BY <3>1, <3>3, <4>1
    <3> QED
      BY <3>2, <3>3
  <2> QED
    BY <2>1, <2>4, <2>5 DEF WaitInv, RunInv
<1> QED
  BY <1>1, <1>2, <1>3 DEF TimesInv

(* The steps of a process: its poll counts the tick it works.               *)
LEMMA TimesProcess ==
  ASSUME TimesInv, PromptInv', NEW p \in Procs, TimedProcess(p)
  PROVE  TimesInv'
<1>0. TypeOK /\ PromptInv
  BY DEF TimesInv, PromptInv
<1>1. /\ UNCHANGED <<state, current_pcb, last_remain_time, pc>>
      /\ UNCHANGED <<clock, now, log_start_time, wait_time, TA>>
  BY DEF TimedProcess, Process, RaiseStop, TakeStop, handle_sigcont, PollTick, ExitProcess,
     schVars, pcbVars, timeVars, runVars, logVars
<1>2. ASSUME current_pcb # NULL
      PROVE  left'[current_pcb] - Uncounted' = left[current_pcb] - Uncounted
  <2>0. current_pcb \in Procs /\ left[current_pcb] \in Nat
    BY <1>0, <1>2 DEF TypeOK
  <2>1. CASE PollTick(p)
    <3>1. current_pcb = p
      BY <1>0, <2>1 DEF PollTick, PromptInv, TickInv
    <3> QED
      BY <1>0, <1>1, <2>0, <2>1, <3>1 DEF PollTick, Uncounted, TypeOK
  <2>2. CASE handle_sigcont(p)
    <3>1. ~fresh[p]
      BY <1>0, <2>2 DEF handle_sigcont, PromptInv, TickInv, TickUnderWay
    <3>2. fresh'[current_pcb] = fresh[current_pcb] /\ left' = left
      BY <1>0, <2>0, <2>2, <3>1 DEF handle_sigcont, TypeOK
    <3> QED
      BY <1>1, <3>2 DEF Uncounted
  <2>3. CASE RaiseStop(p) \/ TakeStop(p) \/ ExitProcess(p)
    BY <1>1, <2>3 DEF RaiseStop, TakeStop, ExitProcess, Uncounted
  <2> QED
    BY <2>1, <2>2, <2>3 DEF TimedProcess, Process
<1> QED
  BY <1>1, <1>2, TimesFrame

(* A tick is one second more since the arrival and since the start of the   *)
(* run, and one that the current process is to count; without a current     *)
(* process it is nobody's.                                                  *)
LEMMA TimesTick ==
  ASSUME Orderly, TimesInv, PromptInv', TickRunning \/ TickIdle
  PROVE  TimesInv'
<1>0. TypeOK /\ PromptInv
  BY DEF TimesInv, PromptInv
<1>1. Settled /\ ~TickUnderWay
  BY DEF TickRunning, TickIdle, Tick, Orderly, Settled
<1>2. /\ clock' = clock + 1 /\ UNCHANGED <<now, log_start_time, wait_time, TA>>
      /\ UNCHANGED <<phase, stopped, left, pc, current_pcb, state, last_remain_time>>
  BY DEF TickRunning, TickIdle, Tick, vars, procVars, schVars, pcbVars, runVars, logVars
<1>3. TimesTypeOK'
  BY <1>2 DEF TimesInv, TimesTypeOK
<1>4. TurnaroundIsWaitPlusRuntime'
  BY <1>2 DEF TimesInv, TurnaroundIsWaitPlusRuntime
<1>5. WaitInv' /\ RunInv'
  <2> SUFFICES ASSUME current_pcb # NULL PROVE WaitInv' /\ RunInv'
    BY <1>2 DEF WaitInv, RunInv
  <2>1. PICK c \in Procs : c = current_pcb /\ OnCPU(c)
    BY <1>0, CurrentOnCPU
  <2>2. ~fresh[c] /\ sigs = {} /\ left[c] \in Nat
    BY <1>0, <1>1, NoTick
  <2>3. pc \in Polling
    BY <1>0, <1>1 DEF Settled, Alive, PromptInv, StepsInv, Polling
  <2>4. Running(c)
    BY <1>1, <2>1, <2>2, <2>3 DEF Settled, OnCPU, Polling, Running
  <2>5. fresh'[c]
    BY <2>2, <2>4 DEF TickRunning, TickIdle, Tick
  <2>6. Uncounted = 0 /\ Uncounted' = 1
    BY <1>2, <2>1, <2>2, <2>5 DEF Uncounted
  <2>7. /\ clock \in Int /\ log_start_time \in Int /\ wait_time[c] \in Int
        /\ Arrival[c] \in Int /\ Runtime[c] \in Int /\ last_remain_time \in Int
    BY <1>0, <2>1, ArrivalAssumption, RuntimeAssumption DEF TimesInv, TimesTypeOK, TypeOK
  <2>8. /\ clock - Arrival[c] = wait_time[c] + (Runtime[c] - left[c])
        /\ clock - log_start_time = last_remain_time - left[c]
    BY <2>1, <2>2, <2>3, <2>6, <2>7 DEF TimesInv, WaitInv, RunInv, Polling
  <2>9. /\ clock' - Arrival[c] = wait_time'[c] + (Runtime[c] - left'[c]) + 1
        /\ clock' - log_start_time' = (last_remain_time' - left'[c]) + 1
    BY <1>2, <2>2, <2>7, <2>8
  <2> QED
    BY <1>2, <2>1, <2>3, <2>6, <2>9 DEF WaitInv, RunInv, Polling
<1> QED
  BY <1>3, <1>4, <1>5 DEF TimesInv

(* The wait is worked out at the dispatch from the work done so far.        *)
LEMMA TimesSchedule ==
  ASSUME TimesInv, PromptInv', current_pcb = NULL, pc \in Polling,
         NEW back \in {"check", "nomore"}, schedule_next_process(back), RecordStart,
         UNCHANGED <<procVars, remaining_time, clock, log_start_time, TA>>
  PROVE  TimesInv'
<1> USE ProcsAssumption
<1>0. TypeOK /\ PromptInv
  BY DEF TimesInv, PromptInv
<1>1. PICK c \in Procs : /\ c = front(ready_queue) /\ current_pcb' = c /\ c # NULL /\ pc' = "cont"
                         /\ c \in QueueItems(ready_queue)
  BY <1>0, ScheduleOK
<1>2. /\ state' = [state EXCEPT ![c] = IF @ = "unset" THEN "started" ELSE "resumed"]
      /\ wait_time' = [wait_time EXCEPT ![c] = WaitedSoFar(c)]
      /\ now' = clock
  BY <1>1 DEF schedule_next_process, RecordStart
<1>3. ~TickUnderWay
  BY <1>0, TickOfCurrent
<1>4. /\ ~fresh[c] /\ remaining_time[c] = left[c] /\ left[c] \in Int
      /\ clock \in Int /\ Arrival[c] \in Int /\ Runtime[c] \in Int
      /\ clock - Arrival[c] \in Int
  BY <1>0, <1>3, NoTick, ArrivalAssumption, RuntimeAssumption DEF TimesInv, TimesTypeOK
<1>5. state[c] # "finished" /\ (state[c] = "unset" => left[c] = Runtime[c])
  BY <1>0, <1>1 DEF PromptInv, Stage, Unscheduled, Ended, Waiting
<1>6. /\ WaitedSoFar(c) = (clock - Arrival[c]) - (Runtime[c] - left[c])
      /\ WaitedSoFar(c) \in Int
  BY <1>4, <1>5 DEF WaitedSoFar
<1>7. TimesTypeOK'
  BY <1>2, <1>6 DEF TimesInv, TimesTypeOK
<1>8. wait_time'[c] = WaitedSoFar(c) /\ \A p \in Procs \ {c} : wait_time'[p] = wait_time[p]
  BY <1>2 DEF TimesInv, TimesTypeOK
<1>9. WaitInv' /\ RunInv'
  BY <1>1, <1>2, <1>4, <1>6, <1>8 DEF WaitInv, RunInv, Uncounted, procVars
<1>10. TurnaroundIsWaitPlusRuntime'
  <2> SUFFICES ASSUME NEW p \in Procs, state'[p] = "finished"
               PROVE  TA'[p] = wait_time'[p] + Runtime[p]
    BY DEF TurnaroundIsWaitPlusRuntime
  <2>1. p # c /\ state[p] = "finished"
    BY <1>0, <1>2 DEF TypeOK
  <2> QED
    BY <1>8, <2>1 DEF TimesInv, TurnaroundIsWaitPlusRuntime
<1> QED
  BY <1>7, <1>9, <1>10 DEF TimesInv

(* A run starts in the log at the time of its dispatch.                     *)
LEMMA TimesMarkStart ==
  ASSUME TimesInv, PromptInv', TimedMarkStart
  PROVE  TimesInv'
<1>0. TypeOK /\ PromptInv
  BY DEF TimesInv, PromptInv
<1>1. PICK c \in Procs : c = current_pcb /\ pc = "mark"
  BY <1>0 DEF PromptInv, StepsInv, TypeOK, TimedMarkStart, MarkStart
<1>2. /\ log_start_time' = now /\ now' = 0 /\ last_remain_time' = remaining_time[c]
      /\ pc' \in {"check", "nomore"}
      /\ UNCHANGED <<clock, wait_time, TA, current_pcb, state, left, fresh>>
  BY <1>0, <1>1, ProcsAssumption
     DEF TimedMarkStart, MarkStart, RunStart, Go, logVars, procVars, pcbVars, TypeOK
<1>3. ~TickUnderWay
  BY <1>0, <1>1, TickOfCurrent DEF Polling
<1>4. ~fresh[c] /\ remaining_time[c] = left[c] /\ left[c] \in Int /\ now = clock /\ now \in Int
  BY <1>0, <1>1, <1>3, NoTick, ProcsAssumption DEF TimesInv, RunInv, TimesTypeOK
<1>5. TimesTypeOK' /\ WaitInv' /\ TurnaroundIsWaitPlusRuntime'
  BY <1>2, <1>4 DEF TimesInv, TimesTypeOK, WaitInv, TurnaroundIsWaitPlusRuntime, Uncounted
<1>6. RunInv'
  BY <1>1, <1>2, <1>4 DEF RunInv, Uncounted
<1> QED
  BY <1>5, <1>6 DEF TimesInv

(* The turnaround is taken when nothing is left of the runtime.             *)
LEMMA TimesTermination ==
  ASSUME TimesInv, PromptInv', TimedTermination
  PROVE  TimesInv'
<1> USE ProcsAssumption
<1>0. TypeOK /\ PromptInv
  BY DEF TimesInv, PromptInv
<1>1. TickUnderWay /\ "SIGUSR1" \in sigs
  BY DEF TimedTermination, handle_process_termination, TickUnderWay
<1>2. PICK c \in Procs : c = current_pcb /\ OnCPU(c)
  BY <1>0, <1>1, TickOfCurrent
<1>3. left[c] = 0 /\ ~fresh[c]
  BY <1>0, <1>1, <1>2 DEF OnCPU, PromptInv, TickInv
<1>4. /\ current_pcb' = NULL /\ state' = [state EXCEPT ![c] = "finished"]
      /\ TA' = [TA EXCEPT ![c] = clock - Arrival[c]]
      /\ log_start_time' = 0 /\ UNCHANGED <<clock, now, wait_time>>
  BY <1>2 DEF TimedTermination, handle_process_termination, log_event
<1>5. /\ clock \in Int /\ Arrival[c] \in Int /\ Runtime[c] \in Int /\ wait_time[c] \in Int
      /\ clock - Arrival[c] \in Int
  BY ArrivalAssumption, RuntimeAssumption DEF TimesInv, TimesTypeOK
<1>6. clock - Arrival[c] = wait_time[c] + Runtime[c]
  <2>1. clock - Arrival[c] = wait_time[c] + (Runtime[c] - 0) + 0
    BY <1>2, <1>3 DEF TimesInv, WaitInv, Uncounted
  <2> QED
    BY <1>5, <2>1
<1>7. TimesTypeOK' /\ WaitInv' /\ RunInv'
  BY <1>4, <1>5 DEF TimesInv, TimesTypeOK, WaitInv, RunInv
<1>8. TurnaroundIsWaitPlusRuntime'
  <2> SUFFICES ASSUME NEW p \in Procs, state'[p] = "finished"
               PROVE  TA'[p] = wait_time[p] + Runtime[p]
    BY <1>4 DEF TurnaroundIsWaitPlusRuntime
  <2>1. TA'[c] = clock - Arrival[c] /\ (p # c => TA'[p] = TA[p] /\ state'[p] = state[p])
    BY <1>0, <1>4 DEF TimesInv, TimesTypeOK, TypeOK
  <2> QED
    BY <1>6, <2>1 DEF TimesInv, TurnaroundIsWaitPlusRuntime
<1> QED
  BY <1>7, <1>8 DEF TimesInv

(* Every step keeps the accounts of the times.                              *)
LEMMA TimesStep ==
  ASSUME Orderly, TimesInv, [TimedNext]_timedVars
  PROVE  TimesInv'
<1> USE ProcsAssumption
<1>0. PromptInv /\ PromptInv' /\ TypeOK
  BY TimedKeepsPrompt DEF TimesInv, PromptInv
<1>1. CASE UNCHANGED timedVars \/ TimedSendNoMore \/ TimedTick \/ \E p \in Procs : TimedSpawn(p)
  <2>1. /\ UNCHANGED <<clock, now, log_start_time, wait_time, TA>>
        /\ UNCHANGED <<left, fresh, state, current_pcb, last_remain_time>>
        /\ pc' = pc \/ pc' = "crash"
    BY <1>1 DEF timedVars, timeVars, runVars, logVars, vars, TimedSendNoMore, SendNoMore, TimedTick,
       handle_process_tick, TimedSpawn, Spawn, Go, procVars, schVars, pcbVars
  <2>2. current_pcb' # NULL => pc' = pc
    BY <1>0, <2>1 DEF PromptInv, StepsInv
  <2> QED
    BY <1>0, <2>1, <2>2, TimesFrame DEF Uncounted
<1>2. ASSUME NEW p \in Procs, TimedProcess(p) PROVE TimesInv'
  BY <1>0, <1>2, TimesProcess
<1>3. CASE TickRunning \/ TickIdle
  BY <1>0, <1>3, TimesTick
<1>4. CASE TimedTermination
  BY <1>0, <1>4, TimesTermination
<1>5. CASE TimedLoop
  <2>1. CASE TimedNextTurn \/ TimedStopProcess
    BY <1>0, <2>1, TimesFrame DEF TimedNextTurn, NextTurn, TimedStopProcess, StopProcess, Go, Uncounted,
       runVars, logVars, procVars, schVars, pcbVars
  <2>2. CASE TimedRotateQueue
    <3>1. current_pcb' = NULL /\ UNCHANGED <<clock, now, wait_time, TA, state>> /\ log_start_time' = 0
      BY <1>0, <2>2 DEF TimedRotateQueue, RotateQueue, PromptInv, StepsInv, logVars, pcbVars
    <3> QED
      BY <1>0, <3>1 DEF TimesInv, TimesTypeOK, WaitInv, RunInv, TurnaroundIsWaitPlusRuntime
  <2>3. CASE TimedMarkStart
    BY <1>0, <2>3, TimesMarkStart
  <2>4. CASE TimedDispatch
    <3>1. CASE current_pcb = NULL /\ schedule_next_process("check")
      BY <1>0, <2>4, <3>1, TimesSchedule DEF TimedDispatch, Dispatch, Polling
    <3>2. CASE Go("check") /\ UNCHANGED <<ready_queue, current_pcb, state>>
      BY <1>0, <2>4, <3>2, TimesFrame DEF TimedDispatch, Dispatch, RecordStart, Go, Uncounted, procVars
    <3> QED
      BY <2>4, <3>1, <3>2 DEF TimedDispatch, Dispatch
  <2>5. CASE TimedHandleCurrent
    <3>1. CASE current_pcb = NULL /\ schedule_next_process("nomore")
      BY <1>0, <2>5, <3>1, TimesSchedule DEF TimedHandleCurrent, handle_current_running_process, Polling
    <3>2. CASE pc' \in {"due", "compare", "nomore"} /\ UNCHANGED <<ready_queue, current_pcb, state>>
      BY <1>0, <2>5, <3>2, TimesFrame DEF TimedHandleCurrent, handle_current_running_process,
         RecordStart, Uncounted, procVars
    <3> QED
      BY <2>5, <3>1, <3>2 DEF TimedHandleCurrent, handle_current_running_process, Go
  <2>6. CASE UntimedStep
    <3>1. UNCHANGED <<clock, now, log_start_time, wait_time, TA>>
      BY <2>6 DEF UntimedStep, timeVars, runVars, logVars
    <3>2. CASE DropCurrent
      BY <1>0, <3>1, <3>2, TimesFrame DEF DropCurrent, TypeOK
    <3>3. CASE \/ check_for_new_processes \/ CompareCurrent \/ ClipRemaining \/ TestPreempted
               \/ check_no_more_processes
      <4>1. UNCHANGED <<left, fresh, state, current_pcb, last_remain_time>>
        BY <3>3 DEF check_for_new_processes, CompareCurrent, ClipRemaining, TestPreempted,
           check_no_more_processes, procVars, schVars, pcbVars
      <4>2. pc \notin {"cont", "mark"} /\ pc' \notin {"cont", "mark"}
        BY <3>3 DEF check_for_new_processes, CompareCurrent, ClipRemaining, TestPreempted,
           check_no_more_processes, Go
      <4> QED
        BY <1>0, <3>1, <4>1, <4>2, TimesFrame DEF Uncounted
    <3>4. CASE ContinueProcess
      <4>1. UNCHANGED <<left, fresh, state, current_pcb, last_remain_time>>
        BY <3>4 DEF ContinueProcess, schVars, pcbVars
      <4>2. pc = "cont" /\ pc' = "mark"
        BY <1>0, <3>4 DEF ContinueProcess, Go, PromptInv, StepsInv
      <4> QED
        BY <1>0, <3>1, <4>1, <4>2, TimesFrame DEF Uncounted
    <3> QED
      BY <2>6, <3>2, <3>3, <3>4 DEF UntimedStep
  <2> QED
    BY <1>5, <2>1, <2>2, <2>3, <2>4, <2>5, <2>6 DEF TimedLoop
<1> QED
  BY <1>1, <1>2, <1>3, <1>4, <1>5 DEF TimedNext

(* On an orderly machine every second since the arrival of the current      *)
(* process is accounted for, after every step.                              *)
THEOREM TimesInvariant == ASSUME Orderly PROVE TimedSpec => []TimesInv
<1>1. TimedInit => TimesInv
  BY TimesInit
<1>2. TimesInv /\ [TimedNext]_timedVars => TimesInv'
  BY TimesStep
<1> QED
  BY <1>1, <1>2, PTL DEF TimedSpec

(* The turnaround in the log is the wait plus the runtime, for every        *)
(* finished process, although both are computed from different readings of  *)
(* the clock.                                                               *)
THEOREM TurnaroundExact == ASSUME Orderly PROVE TimedSpec => []TurnaroundIsWaitPlusRuntime
<1>1. TimesInv => TurnaroundIsWaitPlusRuntime
  BY DEF TimesInv
<1> QED
  BY <1>1, TimesInvariant, PTL

(* The interval that the log gives for a run is as long as the work done in *)
(* it, whether the run ends by termination or by preemption.                *)
THEOREM RunsExact == ASSUME Orderly PROVE TimedSpec => RunsLoggedExactly
<1>1. TimesInv /\ [TimedNext]_timedVars =>
        [handle_process_termination \/ StopProcess =>
           clock - log_start_time = last_remain_time - remaining_time'[current_pcb]]_timedVars
  <2> SUFFICES ASSUME TimesInv, handle_process_termination \/ StopProcess
               PROVE  clock - log_start_time = last_remain_time - remaining_time'[current_pcb]
    OBVIOUS
  <2> USE ProcsAssumption
  <2>0. TypeOK /\ PromptInv
    BY DEF TimesInv, PromptInv
  <2>1. CASE StopProcess
    <3>1. pc = "stop" /\ current_pcb # NULL /\ current_pcb \in Procs /\ remaining_time' = remaining_time
      BY <2>0, <2>1 DEF StopProcess, PromptInv, StepsInv, schVars, pcbVars, TypeOK
    <3>2. ~TickUnderWay
      BY <2>0, <3>1, TickOfCurrent DEF Polling
    <3>3. ~fresh[current_pcb] /\ remaining_time[current_pcb] = left[current_pcb] /\ left[current_pcb] \in Int
      BY <2>0, <3>1, <3>2, NoTick
    <3>4. clock - log_start_time = (last_remain_time - left[current_pcb]) + 0
      BY <3>1, <3>3 DEF TimesInv, RunInv, Uncounted
    <3> QED
      BY <2>0, <3>1, <3>3, <3>4 DEF TypeOK
  <2>2. CASE handle_process_termination
    <3>1. TickUnderWay /\ sigs # {}
      BY <2>2 DEF handle_process_termination, TickUnderWay
    <3>2. current_pcb \in Procs /\ pc \in Polling
      BY <2>0, <3>1, TickOfCurrent
    <3>3. /\ remaining_time[current_pcb] = left[current_pcb] + 1 /\ left[current_pcb] \in Int
          /\ ~fresh[current_pcb]
      <4>1. left[current_pcb] \in Int
        BY <2>0, <3>2 DEF TypeOK
      <4>2. remaining_time[current_pcb] = left[current_pcb] + 1
        BY <2>0, <3>1, <3>2 DEF PromptInv, CountersAgree
      <4>3. ~fresh[current_pcb]
        BY <2>0, <3>1, <3>2 DEF PromptInv, TickInv
      <4> QED
        BY <4>1, <4>2, <4>3
    <3>4. remaining_time'[current_pcb] = remaining_time[current_pcb] - 1
      BY <2>0, <2>2, <3>2 DEF handle_process_termination, TypeOK
    <3>5. clock - log_start_time = (last_remain_time - left[current_pcb]) + 0
      BY <3>2, <3>3 DEF TimesInv, RunInv, Uncounted, Polling
    <3> QED
      BY <2>0, <3>3, <3>4, <3>5 DEF TypeOK
  <2> QED
    BY <2>1, <2>2
<1> QED
  BY <1>1, TimesInvariant, PTL DEF TimedSpec, RunsLoggedExactly
-----------------------------------------------------------------------------
(* Sums over the processes                                                  *)

(* Induction, with a set for the predicate.                                 *)
LEMMA SetInduction ==
  ASSUME NEW S, 0 \in S, \A n \in Nat : n \in S => n + 1 \in S
  PROVE  Nat \subseteq S
<1> DEFINE T == Nat \ S
           R == {ss \in Nat \X Nat : ss[1] < ss[2]}
<1> SUFFICES ASSUME T # {} PROVE FALSE
  OBVIOUS
<1>1. IsWellFoundedOn(R, Nat)
  BY NatLessThanWellFounded DEF OpToRel
<1>2. \A s, t \in Nat : s < t => <<s, t>> \in R
  OBVIOUS
<1> HIDE DEF R
<1>3. PICK x \in T : \A y \in T : ~(<<y, x>> \in R)
  BY <1>1, WFMin
<1>4. x \in Nat /\ x # 0 /\ x - 1 \in Nat
  OBVIOUS
<1>5. x - 1 \in T
  BY <1>4
<1>6. x - 1 < x
  BY <1>4
<1> QED
  BY <1>2, <1>3, <1>4, <1>5, <1>6

(* The element that a fold takes from a set, and what it does with it.      *)
Pick(s) == CHOOSE x \in s : TRUE
SumStep(f, g, s) == IF s = {} THEN 0 ELSE f[Pick(s)] + g[s \ {Pick(s)}]

(* An element taken from a finite set leaves a smaller one.                 *)
LEMMA PickSmaller ==
  ASSUME NEW D, IsFiniteSet(D), NEW s \in SUBSET D, s # {}
  PROVE  /\ Pick(s) \in s /\ s \ {Pick(s)} \in SUBSET D
         /\ Cardinality(s) \in Nat /\ Cardinality(s \ {Pick(s)}) \in Nat
         /\ Cardinality(s) = Cardinality(s \ {Pick(s)}) + 1
<1>1. Pick(s) \in s
  BY DEF Pick
<1>2. IsFiniteSet(s) /\ IsFiniteSet(s \ {Pick(s)})
  BY FS_Subset
<1>3. Cardinality(s) \in Nat /\ Cardinality(s \ {Pick(s)}) \in Nat
  BY <1>2, FS_CardinalityType
<1>4. Cardinality(s \ {Pick(s)}) = Cardinality(s) - 1
  BY <1>1, <1>2, FS_RemoveElement
<1> QED
  BY <1>1, <1>3, <1>4

(* The recursive function that a sum is defined by exists.                  *)
LEMMA SumFunctionExists ==
  ASSUME NEW D, IsFiniteSet(D), NEW f
  PROVE  \E g : g = [s \in SUBSET D |-> SumStep(f, g, s)]
<1> DEFINE Right(g, n) == \A s \in SUBSET D : Cardinality(s) <= n => g[s] = SumStep(f, g, s)
           Exists(n) == \E g : g = [s \in SUBSET D |-> g[s]] /\ Right(g, n)
           N == {n \in Nat : Exists(n)}
<1>0. \A s \in SUBSET D : Cardinality(s) \in Nat /\ (Cardinality(s) <= 0 => s = {})
  BY FS_Subset, FS_CardinalityType, FS_EmptySet
<1>1. 0 \in N
  <2> DEFINE g == [s \in SUBSET D |-> 0]
  <2>1. g = [s \in SUBSET D |-> g[s]] /\ Right(g, 0)
    BY <1>0 DEF SumStep
  <2> QED
    BY <2>1
<1>2. ASSUME NEW n \in Nat, n \in N PROVE n + 1 \in N
  <2>1. PICK g : g = [s \in SUBSET D |-> g[s]] /\ Right(g, n)
    BY <1>2
  <2> DEFINE h == [s \in SUBSET D |-> SumStep(f, g, s)]
  <2>2. ASSUME NEW s \in SUBSET D, Cardinality(s) <= n + 1 PROVE h[s] = SumStep(f, h, s)
    <3>1. CASE s = {}
      BY <3>1 DEF SumStep
    <3>2. CASE s # {}
      <4> DEFINE t == s \ {Pick(s)}
      <4>1. t \in SUBSET D /\ Cardinality(t) <= n
        BY <1>0, <2>2, <3>2, PickSmaller
      <4>2. g[t] = SumStep(f, g, t) /\ h[t] = SumStep(f, g, t)
        BY <2>1, <4>1
      <4>3. h[s] = f[Pick(s)] + g[t] /\ SumStep(f, h, s) = f[Pick(s)] + h[t]
        BY <3>2 DEF SumStep
      <4> QED
        BY <4>2, <4>3
    <3> QED
      BY <3>1, <3>2
  <2>3. h = [s \in SUBSET D |-> h[s]] /\ Right(h, n + 1)
    BY <2>2
  <2> HIDE DEF h
  <2>4. Exists(n + 1)
    BY <2>3
  <2> HIDE DEF Exists
  <2> QED
    BY <2>4
<1>3. Cardinality(D) \in N
  <2> HIDE DEF N
  <2> QED
    BY <1>0, <1>1, <1>2, SetInduction
<1>4. PICK g : g = [s \in SUBSET D |-> g[s]] /\ Right(g, Cardinality(D))
  BY <1>3
<1>5. \A s \in SUBSET D : Cardinality(s) <= Cardinality(D)
  BY FS_Subset
<1>6. \A s \in SUBSET D : g[s] = SumStep(f, g, s)
  BY <1>4, <1>5
<1>7. g = [s \in SUBSET D |-> SumStep(f, g, s)]
  BY <1>4, <1>6
<1> QED
  BY <1>7

(* A sum is one value of that function.                                     *)
LEMMA SumRecursion ==
  ASSUME NEW D, IsFiniteSet(D), NEW f \in [D -> Int]
  PROVE  \E it : SumOver(f) = it[D] /\ \A s \in SUBSET D : it[s] = SumStep(f, it, s)
<1> DEFINE it == CHOOSE g : g = [s \in SUBSET D |-> SumStep(f, g, s)]
<1>1. SumOver(f) = it[D]
  <2>1. DOMAIN f = D
    OBVIOUS
  <2> QED
    BY <2>1 DEF SumOver, FoldFunction, FoldFunctionOnSet, MapThenFoldSet, SumStep, Pick
<1>2. it = [s \in SUBSET D |-> SumStep(f, it, s)]
  BY SumFunctionExists
<1> HIDE DEF it
<1>3. \A s \in SUBSET D : it[s] = SumStep(f, it, s)
  BY <1>2
<1> QED
  BY <1>1, <1>3

(* When two functions differ at one point, so do their sums.                *)
LEMMA SumChange ==
  ASSUME NEW D, IsFiniteSet(D), NEW f \in [D -> Int], NEW g \in [D -> Int],
         NEW p \in D, \A q \in D \ {p} : g[q] = f[q]
  PROVE  SumOver(f) \in Int /\ SumOver(g) = SumOver(f) + (g[p] - f[p])
<1>9. \A h \in [D -> Int] :
        \E it : SumOver(h) = it[D] /\ \A s \in SUBSET D : it[s] = SumStep(h, it, s)
  BY SumRecursion
<1>1. PICK F : SumOver(f) = F[D] /\ \A s \in SUBSET D : F[s] = SumStep(f, F, s)
  BY <1>9
<1>2. PICK G : SumOver(g) = G[D] /\ \A s \in SUBSET D : G[s] = SumStep(g, G, s)
  BY <1>9
<1> DEFINE d == g[p] - f[p]
           Moved(s) == F[s] \in Int /\ G[s] = F[s] + (IF p \in s THEN d ELSE 0)
           N == {n \in Nat : \A s \in SUBSET D : Cardinality(s) <= n => Moved(s)}
<1>0. \A s \in SUBSET D : Cardinality(s) \in Nat /\ (Cardinality(s) <= 0 => s = {})
  BY FS_Subset, FS_CardinalityType, FS_EmptySet
<1>3. d \in Int /\ \A q \in D : f[q] \in Int /\ g[q] \in Int
  OBVIOUS
<1>4. Moved({})
  <2>1. {} \in SUBSET D
    OBVIOUS
  <2>2. F[{}] = 0 /\ G[{}] = 0
    BY <1>1, <1>2, <2>1 DEF SumStep
  <2> QED
    BY <2>2
<1>5. 0 \in N
  BY <1>0, <1>4
<1>6. ASSUME NEW n \in Nat, n \in N PROVE n + 1 \in N
  <2> SUFFICES ASSUME NEW s \in SUBSET D, Cardinality(s) <= n + 1, s # {} PROVE Moved(s)
    <3> HIDE DEF Moved
    <3> QED
      BY <1>4
  <2> DEFINE x == Pick(s)
             t == s \ {x}
  <2>1. x \in s /\ t \in SUBSET D /\ Cardinality(t) <= n
    BY <1>0, PickSmaller
  <2>2. Moved(t)
    BY <1>6, <2>1
  <2>3. F[s] = f[x] + F[t] /\ G[s] = g[x] + G[t]
    BY <1>1, <1>2 DEF SumStep
  <2> HIDE DEF x
  <2>4. f[x] \in Int /\ g[x] \in Int /\ (x # p => g[x] = f[x])
    BY <1>3, <2>1
  <2>5. CASE x = p
    <3>1. p \in s /\ p \notin t
      BY <2>1, <2>5
    <3> HIDE DEF t
    <3>2. G[s] = F[s] + d
      BY <1>3, <2>2, <2>3, <2>4, <2>5, <3>1
    <3> QED
      BY <2>2, <2>3, <2>4, <3>1, <3>2
  <2>6. CASE x # p
    <3>1. p \in s <=> p \in t
      BY <2>6
    <3> HIDE DEF t
    <3> QED
      BY <1>3, <2>2, <2>3, <2>4, <2>6, <3>1
  <2> QED
    BY <2>5, <2>6
<1>7. Cardinality(D) \in N
  <2> HIDE DEF N
  <2> QED
    BY <1>0, <1>5, <1>6, SetInduction
<1>8. Moved(D)
  BY <1>0, <1>7
<1> QED
  BY <1>1, <1>2, <1>8

(* Nothing adds up to nothing.                                              *)
LEMMA SumOfZeros ==
  ASSUME NEW D, IsFiniteSet(D)
  PROVE  SumOver([q \in D |-> 0]) = 0
<1> DEFINE f == [q \in D |-> 0]
<1>1. PICK F : SumOver(f) = F[D] /\ \A s \in SUBSET D : F[s] = SumStep(f, F, s)
  BY SumRecursion
<1> DEFINE N == {n \in Nat : \A s \in SUBSET D : Cardinality(s) <= n => F[s] = 0}
<1>0. \A s \in SUBSET D : Cardinality(s) \in Nat /\ (Cardinality(s) <= 0 => s = {})
  BY FS_Subset, FS_CardinalityType, FS_EmptySet
<1>2. F[{}] = 0
  BY <1>1 DEF SumStep
<1>3. 0 \in N
  BY <1>0, <1>2
<1>4. ASSUME NEW n \in Nat, n \in N PROVE n + 1 \in N
  <2> SUFFICES ASSUME NEW s \in SUBSET D, Cardinality(s) <= n + 1, s # {} PROVE F[s] = 0
    BY <1>2
  <2>1. /\ Pick(s) \in D /\ s \ {Pick(s)} \in SUBSET D
        /\ Cardinality(s \ {Pick(s)}) <= n
    BY <1>0, PickSmaller
  <2>2. F[s \ {Pick(s)}] = 0
    BY <1>4, <2>1
  <2> QED
    BY <1>1, <2>1, <2>2 DEF SumStep
<1>5. Cardinality(D) \in N
  <2> HIDE DEF N
  <2> QED
    BY <1>0, <1>3, <1>4, SetInduction
<1> QED
  BY <1>0, <1>1, <1>5

(* Integers add up to an integer.                                           *)
LEMMA SumIsInteger ==
  ASSUME NEW D, IsFiniteSet(D), NEW f \in [D -> Int]
  PROVE  SumOver(f) \in Int
<1>1. CASE D = {}
  <2>1. f = [q \in D |-> 0]
    BY <1>1
  <2>2. SumOver([q \in D |-> 0]) = 0
    BY SumOfZeros
  <2> QED
    BY <2>1, <2>2
<1>2. CASE D # {}
  BY <1>2, SumChange
<1> QED
  BY <1>1, <1>2
-----------------------------------------------------------------------------
(* The statistics                                                           *)

(* An input with finitely many lines, each with a runtime.  When the last   *)
(* process to arrive has none, the scheduler drops its PCB and ends, and    *)
(* the idle seconds before that arrival are never added up.                 *)
ValidInput == IsFiniteSet(Procs) /\ \A p \in Procs : Runtime[p] > 0

(* What has been added to a queue is in it.                                 *)
LEMMA EnqueueNonempty ==
  ASSUME NEW q, QueueOK(q, Procs), NEW x \in Procs, NEW n
  PROVE  ~is_empty(enqueue(q, x, n))
<1>1. CASE Algo = "RR"
  <2> DEFINE r == InsertAt(q.ring, q.tail + 1, x)
  <2>1. q.ring \in Seq(Procs) /\ q.tail + 1 \in 1 .. Len(q.ring) + 1
    BY <1>1, LenProperties DEF QueueOK, RingOK
  <2>2. r \in Seq(Procs) /\ Len(r) = Len(q.ring) + 1 /\ Len(q.ring) \in Nat
    BY <2>1, InsertAtType, LenProperties
  <2>3. enqueue(q, x, n).ring = r
    BY <1>1 DEF enqueue, cq_enqueue
  <2> HIDE DEF r
  <2>4. 1 \in DOMAIN r
    BY <2>2
  <2> QED
    BY <1>1, <2>3, <2>4 DEF is_empty, QueueItems
<1>2. CASE Algo # "RR"
  BY <1>2 DEF is_empty, QueueItems, enqueue, pq_enqueue
<1> QED
  BY <1>1, <1>2

(* Both sums are of integers.                                               *)
LEMMA SumsOfIntegers ==
  ASSUME TimesInv
  PROVE  /\ [p \in Procs |-> Runtime[p] - left[p]] \in [Procs -> Int]
         /\ [p \in Procs |-> IF state[p] = "finished" THEN wait_time[p] ELSE 0] \in [Procs -> Int]
         /\ \A p \in Procs : Runtime[p] \in Int /\ left[p] \in Int /\ wait_time[p] \in Int
<1>1. \A p \in Procs : Runtime[p] \in Int /\ left[p] \in Int /\ wait_time[p] \in Int
  BY RuntimeAssumption DEF TimesInv, TimesTypeOK, PromptInv, TypeOK
<1> QED
  BY <1>1

(* What the sums are, and when they stay the same.                          *)
LEMMA SumsKept ==
  ASSUME ValidInput, TimesInv
  PROVE  /\ Worked \in Int /\ WaitsAtEnd \in Int
         /\ left' = left => Worked' = Worked
         /\ (\A p \in Procs : /\ state'[p] = "finished" <=> state[p] = "finished"
                              /\ state[p] = "finished" => wait_time'[p] = wait_time[p])
            => WaitsAtEnd' = WaitsAtEnd
<1>1. Worked \in Int
  <2> DEFINE f == [p \in Procs |-> Runtime[p] - left[p]]
  <2>1. f \in [Procs -> Int] /\ IsFiniteSet(Procs)
    BY SumsOfIntegers DEF ValidInput
  <2> HIDE DEF f
  <2>2. SumOver(f) \in Int
    BY <2>1, SumIsInteger
  <2> QED
    BY <2>2 DEF f, Worked
<1>2. WaitsAtEnd \in Int
  <2> DEFINE f == [p \in Procs |-> IF state[p] = "finished" THEN wait_time[p] ELSE 0]
  <2>1. f \in [Procs -> Int] /\ IsFiniteSet(Procs)
    BY SumsOfIntegers DEF ValidInput
  <2> HIDE DEF f
  <2>2. SumOver(f) \in Int
    BY <2>1, SumIsInteger
  <2> QED
    BY <2>2 DEF f, WaitsAtEnd
<1>3. ASSUME left' = left PROVE Worked' = Worked
  BY <1>3 DEF Worked
<1>4. ASSUME \A p \in Procs : /\ state'[p] = "finished" <=> state[p] = "finished"
                              /\ state[p] = "finished" => wait_time'[p] = wait_time[p]
      PROVE  WaitsAtEnd' = WaitsAtEnd
  <2>1. [p \in Procs |-> IF state'[p] = "finished" THEN wait_time'[p] ELSE 0]
          = [p \in Procs |-> IF state[p] = "finished" THEN wait_time[p] ELSE 0]
    BY <1>4
  <2> QED
    BY <2>1 DEF WaitsAtEnd
<1> QED
  BY <1>1, <1>2, <1>3, <1>4

(* A second worked by one process is one second more.                       *)
LEMMA WorkedOneMore ==
  ASSUME ValidInput, TimesInv, NEW p \in Procs, left' = [left EXCEPT ![p] = @ - 1]
  PROVE  Worked' = Worked + 1
<1> DEFINE f == [q \in Procs |-> Runtime[q] - left[q]]
           g == [q \in Procs |-> Runtime[q] - left'[q]]
<1>1. \A q \in Procs : /\ Runtime[q] \in Int /\ left[q] \in Int
                       /\ left'[q] = IF q = p THEN left[q] - 1 ELSE left[q]
  BY SumsOfIntegers DEF TimesInv, PromptInv, TypeOK
<1>2. f \in [Procs -> Int] /\ g \in [Procs -> Int] /\ IsFiniteSet(Procs)
  BY <1>1 DEF ValidInput
<1>3. (\A q \in Procs \ {p} : g[q] = f[q]) /\ g[p] - f[p] = 1
  BY <1>1
<1>4. Worked = SumOver(f) /\ Worked' = SumOver(g)
  BY DEF Worked
<1> HIDE DEF f, g
<1>5. SumOver(f) \in Int /\ SumOver(g) = SumOver(f) + (g[p] - f[p])
  BY <1>2, <1>3, SumChange
<1> QED
  BY <1>3, <1>4, <1>5

(* The wait of a process is added at its end.                               *)
LEMMA WaitsOneMore ==
  ASSUME ValidInput, TimesInv, NEW p \in Procs, state[p] # "finished",
         state' = [state EXCEPT ![p] = "finished"], wait_time' = wait_time
  PROVE  WaitsAtEnd' = WaitsAtEnd + wait_time[p]
<1> DEFINE f == [q \in Procs |-> IF state[q] = "finished" THEN wait_time[q] ELSE 0]
           g == [q \in Procs |-> IF state'[q] = "finished" THEN wait_time'[q] ELSE 0]
<1>1. \A q \in Procs : /\ wait_time[q] \in Int
                       /\ state'[q] = IF q = p THEN "finished" ELSE state[q]
  BY SumsOfIntegers DEF TimesInv, PromptInv, TypeOK
<1>2. f \in [Procs -> Int] /\ g \in [Procs -> Int] /\ IsFiniteSet(Procs)
  BY <1>1 DEF ValidInput
<1>3. (\A q \in Procs \ {p} : g[q] = f[q]) /\ g[p] - f[p] = wait_time[p]
  BY <1>1
<1>4. WaitsAtEnd = SumOver(f) /\ WaitsAtEnd' = SumOver(g)
  BY DEF WaitsAtEnd
<1> HIDE DEF f, g
<1>5. SumOver(f) \in Int /\ SumOver(g) = SumOver(f) + (g[p] - f[p])
  BY <1>2, <1>3, SumChange
<1> QED
  BY <1>3, <1>4, <1>5

(* Before anything has happened nothing is worked, waited or idle.          *)
LEMMA StatsInit == ASSUME ValidInput PROVE TimedInit => StatsInv
<1> SUFFICES ASSUME TimedInit PROVE StatsInv
  OBVIOUS
<1>1. TimesInv
  BY TimesInit
<1>2. Worked = 0
  <2>1. [p \in Procs |-> Runtime[p] - left[p]] = [p \in Procs |-> 0]
    BY RuntimeAssumption DEF TimedInit, Init
  <2> QED
    BY <2>1, SumOfZeros DEF Worked, ValidInput
<1>3. WaitsAtEnd = 0
  <2>1. [p \in Procs |-> IF state[p] = "finished" THEN wait_time[p] ELSE 0] = [p \in Procs |-> 0]
    BY DEF TimedInit, Init
  <2> QED
    BY <2>1, SumOfZeros DEF WaitsAtEnd, ValidInput
<1> QED
  BY <1>1, <1>2, <1>3, StartClockAssumption
     DEF TimedInit, Init, StatsInv, AnnouncedInv, BusyInv, SpellInv, EndInv

(* A process that was forked stays forked; only fork_and_send forks one.    *)
LEMMA ForkedForGood ==
  ASSUME TypeOK, [Next]_vars
  PROVE  /\ NothingToCome => NothingToCome'
         /\ (~\E p \in Procs : Spawn(p)) => (NothingToCome' => NothingToCome)
<1>1. ASSUME NEW p \in Procs, Spawn(p) PROVE NothingToCome => NothingToCome'
  BY <1>1 DEF Spawn, NothingToCome, TypeOK
<1>2. ASSUME NEW p \in Procs, Process(p) PROVE NothingToCome' <=> NothingToCome
  <2>1. CASE RaiseStop(p)
    BY <2>1 DEF RaiseStop, NothingToCome, TypeOK
  <2>2. CASE handle_sigcont(p)
    BY <2>2 DEF handle_sigcont, NothingToCome, TypeOK
  <2>3. CASE ExitProcess(p)
    BY <2>3 DEF ExitProcess, NothingToCome, TypeOK
  <2>4. CASE TakeStop(p) \/ PollTick(p)
    BY <2>4 DEF TakeStop, PollTick, NothingToCome
  <2> QED
    BY <1>2, <2>1, <2>2, <2>3, <2>4 DEF Process
<1>3. ASSUME phase' = phase PROVE NothingToCome' <=> NothingToCome
  BY <1>3 DEF NothingToCome
<1>4. CASE \/ SchedulerLoop \/ handle_process_termination \/ handle_process_tick
           \/ SendNoMore \/ Tick \/ UNCHANGED vars
  <2>1. phase' = phase
    BY <1>4 DEF SchedulerLoop, NextTurn, check_for_new_processes, Dispatch, ContinueProcess, MarkStart,
       handle_current_running_process, CompareCurrent, ClipRemaining, TestPreempted, StopProcess,
       DropCurrent, RotateQueue, check_no_more_processes, handle_process_termination, handle_process_tick,
       SendNoMore, Tick, vars, procVars
  <2> QED
    BY <1>3, <2>1
<1> QED
  BY <1>1, <1>2, <1>4 DEF Next

(* The announcement of the end is written only by SendNoMore, and read and  *)
(* remembered only by check_no_more_processes.                              *)
LEMMA AnnouncedStep ==
  ASSUME TypeOK, AnnouncedInv, [Next]_vars
  PROVE  AnnouncedInv'
<1>1. NothingToCome => NothingToCome'
  BY ForkedForGood
<1>2. CASE SendNoMore
  BY <1>1, <1>2 DEF SendNoMore, AnnouncedInv, NothingToCome, schVars
<1>3. CASE check_no_more_processes
  BY <1>1, <1>3 DEF check_no_more_processes, AnnouncedInv
<1>4. ASSUME UNCHANGED <<noMoreMsg, no_more_processes>> PROVE AnnouncedInv'
  BY <1>1, <1>4 DEF AnnouncedInv
<1>5. CASE \/ NextTurn \/ check_for_new_processes \/ Dispatch \/ ContinueProcess \/ MarkStart
           \/ handle_current_running_process \/ CompareCurrent \/ ClipRemaining \/ TestPreempted
           \/ StopProcess \/ DropCurrent \/ RotateQueue \/ handle_process_termination \/ handle_process_tick
           \/ Tick \/ UNCHANGED vars
  BY <1>4, <1>5 DEF NextTurn, check_for_new_processes, Dispatch, ContinueProcess, MarkStart,
     handle_current_running_process, CompareCurrent, ClipRemaining, TestPreempted, StopProcess,
     DropCurrent, RotateQueue, handle_process_termination, handle_process_tick, Tick, vars, msgVars, schVars
<1>6. ASSUME NEW p \in Procs, Spawn(p) \/ Process(p) PROVE AnnouncedInv'
  BY <1>4, <1>6 DEF Spawn, Process, RaiseStop, TakeStop, handle_sigcont, PollTick, ExitProcess,
     msgVars, schVars
<1> QED
  BY <1>2, <1>3, <1>5, <1>6 DEF Next, SchedulerLoop

(* A step that neither moves the clock nor writes a time, works a second or *)
(* changes the current process, and leaves no idle spell unfinished.        *)
LEMMA StatsQuiet ==
  ASSUME ValidInput, StatsInv, TimesInv', AnnouncedInv',
         UNCHANGED <<clock, last_process_end_time, idle_time, wait_time, total_wait, total_time>>,
         UNCHANGED <<left, fresh, state, current_pcb>>,
         current_pcb = NULL /\ Alive' => Alive /\ (SpellOver' => SpellOver \/ pc = "rotate"),
         pc' = "exit" /\ inbox' = <<>> => pc = "exit" /\ inbox = <<>>,
         pc' \in {"drop", "rotate"} => pc = pc'
  PROVE  StatsInv'
<1>1. TimesInv /\ AnnouncedInv /\ BusyInv /\ SpellInv /\ EndInv
  BY DEF StatsInv
<1>2. Worked' = Worked /\ WaitsAtEnd' = WaitsAtEnd
  BY <1>1, SumsKept
<1>3. BusyInv'
  BY <1>1, <1>2 DEF BusyInv, Uncounted
<1>4. SpellInv'
  BY <1>1, <1>2 DEF SpellInv, StatsInv
<1>5. EndInv'
  BY <1>1, <1>2 DEF EndInv
<1> QED
  BY <1>2, <1>3, <1>4, <1>5 DEF StatsInv

(* The steps of a process: one that polls a tick is the current one, and    *)
(* has worked for a second that it had not counted.                         *)
LEMMA StatsProcess ==
  ASSUME ValidInput, StatsInv, TimesInv', AnnouncedInv', NEW p \in Procs, TimedProcess(p)
  PROVE  StatsInv'
<1>0. TimesInv /\ PromptInv /\ TypeOK
  BY DEF StatsInv, TimesInv, PromptInv
<1>1. /\ UNCHANGED <<clock, last_process_end_time, idle_time, wait_time, total_wait, total_time>>
      /\ UNCHANGED <<state, current_pcb, pc, inbox, ready_queue>>
  BY DEF TimedProcess, Process, RaiseStop, TakeStop, handle_sigcont, PollTick, ExitProcess,
     schVars, pcbVars, msgVars, timeVars, runVars, logVars, perfVars
<1>2. NothingToCome' <=> NothingToCome
  <2>1. Process(p) /\ ~\E q \in Procs : Spawn(q)
    <3>1. ASSUME NEW q \in Procs, Spawn(q) PROVE FALSE
      <4>1. inbox' # inbox
        BY <1>0, <3>1 DEF Spawn, TypeOK
      <4> QED
        BY <1>1, <4>1
    <3> QED
      BY <3>1 DEF TimedProcess
  <2> QED
    BY <1>0, <2>1, ForkedForGood DEF Next
<1>3. SpellOver' <=> SpellOver
  BY <1>1, <1>2 DEF SpellOver
<1>4. CASE PollTick(p)
  <2>1. current_pcb = p /\ fresh[p] /\ ~fresh'[p] /\ p # NULL /\ left' = [left EXCEPT ![p] = @ - 1]
    BY <1>0, <1>4, ProcsAssumption DEF PollTick, PromptInv, TickInv, TypeOK
  <2>2. Worked' = Worked + 1 /\ Worked \in Int
    BY <1>0, <2>1, WorkedOneMore, SumsKept
  <2>3. WaitsAtEnd' = WaitsAtEnd
    BY <1>0, <1>1, SumsKept
  <2>4. Uncounted = 1 /\ Uncounted' = 0
    BY <1>1, <2>1 DEF Uncounted
  <2>5. clock = StartClock + idle_time + Worked + 1 /\ idle_time \in Int
    BY <2>1, <2>4 DEF StatsInv, BusyInv
  <2>6. BusyInv'
    BY <1>1, <2>2, <2>4, <2>5, StartClockAssumption DEF BusyInv
  <2>7. SpellInv' /\ EndInv'
    BY <1>0, <1>1, <2>1 DEF SpellInv, EndInv, PromptInv, StepsInv
  <2> QED
    BY <1>1, <2>3, <2>6, <2>7 DEF StatsInv
<1>5. CASE handle_sigcont(p)
  <2>1. ~fresh[p]
    BY <1>0, <1>5 DEF handle_sigcont, PromptInv, TickInv, TickUnderWay
  <2>2. fresh' = fresh /\ left' = left
    BY <1>0, <1>5, <2>1 DEF handle_sigcont, TypeOK
  <2> QED
    BY <1>1, <1>3, <2>2, StatsQuiet DEF Alive
<1>6. CASE RaiseStop(p) \/ TakeStop(p) \/ ExitProcess(p)
  <2>1. fresh' = fresh /\ left' = left
    BY <1>6 DEF RaiseStop, TakeStop, ExitProcess
  <2> QED
    BY <1>1, <1>3, <2>1, StatsQuiet DEF Alive
<1> QED
  BY <1>4, <1>5, <1>6 DEF TimedProcess, Process

(* A tick of the current process is a second it is to work.  With none, no  *)
(* tick passes while there is a process to dispatch or after the last one.  *)
LEMMA StatsTick ==
  ASSUME Orderly, ValidInput, StatsInv, TimesInv', AnnouncedInv', TickRunning \/ TickIdle
  PROVE  StatsInv'
<1>0. TimesInv /\ PromptInv /\ TypeOK
  BY DEF StatsInv, TimesInv, PromptInv
<1>1. Settled /\ EndSettled /\ ~TickUnderWay
  BY DEF TickRunning, TickIdle, Tick, Orderly, Settled
<1>2. /\ clock' = clock + 1 /\ clock \in Int
      /\ UNCHANGED <<last_process_end_time, idle_time, wait_time, total_wait, total_time>>
      /\ UNCHANGED <<left, state, current_pcb, phase, pc, inbox, ready_queue>>
  BY <1>0 DEF TickRunning, TickIdle, Tick, vars, procVars, msgVars, schVars, pcbVars, runVars,
     logVars, perfVars, TimesInv, TimesTypeOK
<1>3. Worked' = Worked /\ WaitsAtEnd' = WaitsAtEnd /\ Worked \in Int
  BY <1>0, <1>2, SumsKept
<1>4. BusyInv' /\ pc \notin {"drop", "rotate"}
  <2>1. CASE current_pcb = NULL
    <3>1. pc \notin {"drop", "rotate"}
      BY <1>0, <1>1, <2>1 DEF Settled, Alive, PromptInv, StepsInv
    <3> QED
      BY <1>2, <2>1, <3>1 DEF BusyInv
  <2>2. CASE current_pcb # NULL
    <3>1. PICK c \in Procs : c = current_pcb /\ OnCPU(c)
      BY <1>0, <2>2, CurrentOnCPU
    <3>2. ~fresh[c] /\ sigs = {} /\ left[c] \in Nat
      BY <1>0, <1>1, NoTick
    <3>3. pc \in Polling
      BY <1>0, <1>1, <2>2 DEF Settled, Alive, PromptInv, StepsInv, Polling
    <3>4. Running(c)
      BY <1>1, <3>1, <3>2, <3>3 DEF Settled, OnCPU, Polling, Running
    <3>5. fresh'[c]
      BY <3>2, <3>4 DEF TickRunning, TickIdle, Tick
    <3>6. Uncounted = 0 /\ Uncounted' = 1
      BY <1>2, <3>1, <3>2, <3>5 DEF Uncounted
    <3>7. clock = StartClock + idle_time + Worked + 0 /\ idle_time \in Int
      BY <2>2, <3>6 DEF StatsInv, BusyInv
    <3> QED
      BY <1>2, <1>3, <3>3, <3>6, <3>7, StartClockAssumption DEF BusyInv, Polling
  <2> QED
    BY <2>1, <2>2
<1>5. SpellInv'
  <2> SUFFICES ASSUME current_pcb = NULL, Alive PROVE SpellInv'
    BY <1>2 DEF SpellInv, Alive
  <2>1. is_empty(ready_queue) /\ ~NothingToCome
    BY <1>1 DEF Settled, EndSettled, NothingToCome
  <2>2. ~SpellOver'
    BY <1>2, <2>1 DEF SpellOver, NothingToCome
  <2>3. /\ last_process_end_time = StartClock + idle_time + Worked
        /\ last_process_end_time <= clock /\ last_process_end_time \in Int
    BY DEF StatsInv, SpellInv
  <2>4. last_process_end_time <= clock + 1
    BY <1>2, <2>3
  <2> QED
    BY <1>2, <1>3, <2>2, <2>3, <2>4 DEF SpellInv
<1>6. EndInv'
  BY <1>2, <1>3 DEF StatsInv, EndInv
<1> QED
  BY <1>2, <1>3, <1>4, <1>5, <1>6 DEF StatsInv

(* At a dispatch the seconds since the end of the last run are idle ones.   *)
LEMMA StatsSchedule ==
  ASSUME ValidInput, StatsInv, TimesInv', AnnouncedInv', current_pcb = NULL, pc \in Polling,
         NEW back \in {"check", "nomore"}, schedule_next_process(back), RecordStart,
         UNCHANGED <<procVars, remaining_time, clock, last_process_end_time, total_wait>>,
         idle_time' = idle_time + (clock - last_process_end_time)
  PROVE  StatsInv'
<1> USE ProcsAssumption
<1>0. TimesInv /\ PromptInv /\ TypeOK
  BY DEF StatsInv, TimesInv, PromptInv
<1>1. PICK c \in Procs : /\ c = front(ready_queue) /\ current_pcb' = c /\ c # NULL /\ pc' = "cont"
                         /\ c \in QueueItems(ready_queue)
  BY <1>0, ScheduleOK
<1>2. /\ state' = [state EXCEPT ![c] = IF @ = "unset" THEN "started" ELSE "resumed"]
      /\ wait_time' = [wait_time EXCEPT ![c] = WaitedSoFar(c)]
  BY <1>1 DEF schedule_next_process, RecordStart
<1>3. ~fresh[c] /\ Alive
  <2>1. ~TickUnderWay
    BY <1>0, TickOfCurrent
  <2> QED
    BY <1>0, <2>1, NoTick DEF Polling, Alive
<1>4. state[c] # "finished"
  BY <1>0, <1>1 DEF PromptInv, Stage, Ended, Waiting
<1>5. WaitsAtEnd' = WaitsAtEnd
  <2>1. \A p \in Procs : /\ state'[p] = "finished" <=> state[p] = "finished"
                         /\ state[p] = "finished" => wait_time'[p] = wait_time[p]
    BY <1>0, <1>2, <1>4 DEF TypeOK, TimesInv, TimesTypeOK
  <2> QED
    BY <1>0, <2>1, SumsKept
<1>6. Worked' = Worked /\ Worked \in Int
  BY <1>0, SumsKept DEF procVars
<1>7. /\ last_process_end_time = StartClock + idle_time + Worked
      /\ last_process_end_time \in Int /\ idle_time \in Int /\ clock \in Int
  BY <1>0, <1>3 DEF StatsInv, SpellInv, TimesInv, TimesTypeOK
<1>8. clock = StartClock + idle_time' + Worked + 0 /\ idle_time' \in Int
  BY <1>6, <1>7, StartClockAssumption
<1>9. Uncounted' = 0
  BY <1>1, <1>3 DEF Uncounted, procVars
<1>10. BusyInv' /\ SpellInv' /\ EndInv'
  BY <1>1, <1>6, <1>8, <1>9 DEF BusyInv, SpellInv, EndInv
<1> QED
  BY <1>1, <1>5, <1>7, <1>8, <1>10 DEF StatsInv

(* At the end of a run every second was idle or worked, and the wait of the *)
(* process is added.                                                        *)
LEMMA StatsTermination ==
  ASSUME ValidInput, StatsInv, TimesInv', AnnouncedInv', TimedTermination
  PROVE  StatsInv'
<1> USE ProcsAssumption
<1>0. TimesInv /\ PromptInv /\ TypeOK
  BY DEF StatsInv, TimesInv, PromptInv
<1>1. TickUnderWay /\ "SIGUSR1" \in sigs /\ Alive
  BY DEF TimedTermination, handle_process_termination, TickUnderWay
<1>2. PICK c \in Procs : c = current_pcb /\ OnCPU(c) /\ current_pcb # NULL
  BY <1>0, <1>1, TickOfCurrent
<1>3. ~fresh[c] /\ state[c] # "finished"
  BY <1>0, <1>1, <1>2, CurrentOnCPU DEF OnCPU, PromptInv, TickInv
<1>4. /\ current_pcb' = NULL /\ state' = [state EXCEPT ![c] = "finished"]
      /\ last_process_end_time' = clock /\ total_wait' = total_wait + wait_time[c]
      /\ UNCHANGED <<clock, wait_time, idle_time, total_time, left, pc, inbox>>
  BY <1>2 DEF TimedTermination, handle_process_termination, log_event, perfVars, procVars, msgVars
<1>5. WaitsAtEnd' = WaitsAtEnd + wait_time[c]
  BY <1>0, <1>3, <1>4, WaitsOneMore
<1>6. Worked' = Worked /\ Worked \in Int
  BY <1>0, <1>4, SumsKept
<1>7. clock = StartClock + idle_time + Worked + 0 /\ idle_time \in Int /\ clock \in Int
  BY <1>0, <1>2, <1>3 DEF StatsInv, BusyInv, Uncounted, TimesInv, TimesTypeOK
<1>8. SpellInv'
  BY <1>4, <1>6, <1>7, StartClockAssumption DEF SpellInv
<1>9. BusyInv' /\ EndInv'
  BY <1>1, <1>4 DEF BusyInv, EndInv, Alive
<1> QED
  BY <1>4, <1>5, <1>7, <1>8, <1>9 DEF StatsInv

(* A preempted run ends when the process is stopped; when the current       *)
(* process is dropped, that is still the present second.                    *)
LEMMA StatsPreemption ==
  ASSUME ValidInput, StatsInv, TimesInv', AnnouncedInv',
         TimedStopProcess \/ (DropCurrent /\ UNCHANGED timeVars)
  PROVE  StatsInv'
<1> USE ProcsAssumption
<1>0. TimesInv /\ PromptInv /\ TypeOK
  BY DEF StatsInv, TimesInv, PromptInv
<1>1. current_pcb # NULL /\ pc \in {"stop", "drop"}
  BY <1>0 DEF TimedStopProcess, StopProcess, DropCurrent, PromptInv, StepsInv
<1>2. ~TickUnderWay
  BY <1>0, <1>1, TickOfCurrent DEF Polling
<1>3. PICK c \in Procs : c = current_pcb /\ state[c] # "finished" /\ ~fresh[c]
  BY <1>0, <1>1, <1>2, CurrentOnCPU, NoTick
<1>4. UNCHANGED <<left, fresh, clock, idle_time, wait_time, total_wait, total_time>>
  BY DEF TimedStopProcess, StopProcess, DropCurrent, timeVars, procVars, logVars, perfVars
<1>5. Worked' = Worked /\ Worked \in Int
  BY <1>0, <1>4, SumsKept
<1>6. clock = StartClock + idle_time + Worked + 0 /\ idle_time \in Int /\ clock \in Int
  BY <1>0, <1>1, <1>3 DEF StatsInv, BusyInv, Uncounted, TimesInv, TimesTypeOK
<1>7. CASE TimedStopProcess
  <2>1. /\ pc' = "drop" /\ last_process_end_time' = clock
        /\ UNCHANGED <<current_pcb, state>>
    BY <1>1, <1>7 DEF TimedStopProcess, StopProcess, Go, PreemptedAt, schVars, pcbVars
  <2>2. WaitsAtEnd' = WaitsAtEnd
    BY <1>0, <1>4, <2>1, SumsKept
  <2>3. BusyInv' /\ SpellInv' /\ EndInv'
    BY <1>1, <1>4, <1>5, <2>1 DEF StatsInv, BusyInv, SpellInv, EndInv, Uncounted
  <2> QED
    BY <1>4, <1>6, <2>1, <2>2, <2>3 DEF StatsInv
<1>8. CASE DropCurrent /\ UNCHANGED timeVars
  <2>1. /\ pc = "drop" /\ pc' = "rotate" /\ current_pcb' = NULL
        /\ state' = [state EXCEPT ![c] = "stopped"]
        /\ last_process_end_time' = last_process_end_time
    BY <1>1, <1>3, <1>8 DEF DropCurrent, Go, timeVars, runVars
  <2>2. WaitsAtEnd' = WaitsAtEnd
    BY <1>0, <1>3, <1>4, <2>1, SumsKept DEF TypeOK
  <2>3. last_process_end_time = clock
    BY <2>1 DEF StatsInv
  <2>4. BusyInv' /\ SpellInv' /\ EndInv'
    BY <1>4, <1>5, <1>6, <2>1, <2>3, StartClockAssumption DEF BusyInv, SpellInv, EndInv
  <2> QED
    BY <1>4, <1>6, <2>1, <2>2, <2>3, <2>4 DEF StatsInv
<1> QED
  BY <1>7, <1>8

(* The loop ends when no process is left: then the last run ended in the    *)
(* present second, unless a PCB is still unread.                            *)
LEMMA StatsNextTurn ==
  ASSUME ValidInput, StatsInv, TimesInv', AnnouncedInv', TimedNextTurn
  PROVE  StatsInv'
<1> USE ProcsAssumption
<1>0. TimesInv /\ PromptInv /\ TypeOK /\ AnnouncedInv
  BY DEF StatsInv, TimesInv, PromptInv
<1>1. /\ pc = "test" /\ pc' \in {"recv", "exit"}
      /\ UNCHANGED <<clock, last_process_end_time, idle_time, wait_time, total_wait>>
      /\ UNCHANGED <<left, fresh, state, current_pcb, phase, inbox, ready_queue>>
      /\ total_time' = IF pc' = "exit" THEN clock ELSE total_time
  BY DEF TimedNextTurn, NextTurn, Go, runVars, logVars, procVars, msgVars, schVars, pcbVars
<1>2. CASE pc' = "recv"
  <2>1. SpellOver' => SpellOver
    BY <1>1, <1>2 DEF SpellOver, NothingToCome
  <2>2. total_time' = total_time /\ Alive
    BY <1>1, <1>2 DEF Alive
  <2> QED
    BY <1>1, <1>2, <2>1, <2>2, StatsQuiet
<1>3. CASE pc' = "exit"
  <2>1. no_more_processes /\ is_empty(ready_queue) /\ current_pcb = NULL
    BY <1>3 DEF TimedNextTurn, NextTurn, Go
  <2>2. NothingToCome
    BY <1>0, <2>1 DEF AnnouncedInv
  <2>3. Worked' = Worked /\ WaitsAtEnd' = WaitsAtEnd
    BY <1>0, <1>1, SumsKept
  <2>4. ASSUME inbox = <<>>
        PROVE  clock = StartClock + idle_time + Worked /\ \A p \in Procs : state[p] = "finished"
    <3>1. clock = StartClock + idle_time + Worked
      BY <1>1, <2>1, <2>2, <2>4 DEF StatsInv, SpellInv, SpellOver, Alive
    <3>2. ASSUME NEW p \in Procs PROVE state[p] = "finished"
      <4>1. ~Waiting(p) /\ current_pcb # p /\ Received(p)
        BY <2>1, <2>2, <2>4 DEF Waiting, is_empty, Received, InInbox, NothingToCome, ValidInput
      <4> QED
        BY <1>0, <4>1 DEF PromptInv, Stage, TypeOK, Unscheduled, OnCPU, PutAside
    <3> QED
      BY <3>1, <3>2
  <2>5. BusyInv' /\ SpellInv' /\ EndInv'
    BY <1>1, <1>3, <2>1, <2>3, <2>4 DEF BusyInv, SpellInv, EndInv, Alive
  <2> QED
    BY <1>1, <1>3, <2>3, <2>5 DEF StatsInv
<1> QED
  BY <1>1, <1>2, <1>3

(* The other steps of the scheduler's loop: none begins or ends a run, and  *)
(* none leaves the queue nonempty that Dispatch will not look at next.      *)
LEMMA StatsLoop ==
  ASSUME ValidInput, StatsInv, TimesInv', AnnouncedInv',
         \/ TimedDispatch /\ UNCHANGED <<ready_queue, current_pcb, state>>
         \/ TimedHandleCurrent /\ UNCHANGED <<ready_queue, current_pcb, state>>
         \/ TimedMarkStart \/ TimedRotateQueue
         \/ UntimedStep /\ ~DropCurrent
  PROVE  StatsInv'
<1> USE ProcsAssumption
<1>0. TimesInv /\ PromptInv /\ PromptInv' /\ TypeOK
  BY DEF StatsInv, TimesInv, PromptInv
<1>1. CASE TimedDispatch /\ UNCHANGED <<ready_queue, current_pcb, state>>
  <2>1. current_pcb # NULL \/ is_empty(ready_queue)
    <3>1. ASSUME current_pcb = NULL, schedule_next_process("check") PROVE FALSE
      <4>1. current_pcb' \in Procs
        BY <1>0, <3>1, ScheduleOK
      <4> QED
        BY <1>1, <3>1, <4>1
    <3> QED
      BY <1>1, <3>1 DEF TimedDispatch, Dispatch
  <2>2. /\ pc = "dispatch" /\ pc' = "check"
        /\ UNCHANGED <<clock, last_process_end_time, wait_time, total_wait, total_time>>
        /\ UNCHANGED <<left, fresh, phase, inbox>>
    BY <1>0, <1>1, <2>1 DEF TimedDispatch, Dispatch, Go, RecordStart, procVars, msgVars,
       schedule_next_process
  <2>3. idle_time' = idle_time
    BY <1>1, <2>1 DEF TimedDispatch, IdleSpell, StatsInv
  <2>4. current_pcb = NULL => (SpellOver' => SpellOver)
    BY <1>1, <2>1, <2>2 DEF SpellOver, NothingToCome
  <2> QED
    BY <1>1, <2>2, <2>3, <2>4, StatsQuiet DEF Alive
<1>2. CASE TimedHandleCurrent /\ UNCHANGED <<ready_queue, current_pcb, state>>
  <2>1. /\ pc = "check" /\ pc' \in {"due", "compare", "nomore", "cont"}
        /\ UNCHANGED <<clock, last_process_end_time, wait_time, total_wait, total_time, idle_time>>
        /\ UNCHANGED <<left, fresh, phase, inbox>>
    BY <1>2 DEF TimedHandleCurrent, handle_current_running_process, Go, RecordStart, procVars,
       msgVars, perfVars, schedule_next_process
  <2>2. SpellOver' => SpellOver
    BY <1>2, <2>1 DEF SpellOver, NothingToCome
  <2> QED
    BY <1>2, <2>1, <2>2, StatsQuiet DEF Alive
<1>3. CASE TimedMarkStart
  <2>1. current_pcb # NULL /\ pc = "mark"
    BY <1>0, <1>3 DEF TimedMarkStart, MarkStart, PromptInv, StepsInv
  <2>2. /\ pc' \in {"check", "nomore"}
        /\ UNCHANGED <<clock, last_process_end_time, wait_time, total_wait, total_time, idle_time>>
        /\ UNCHANGED <<left, fresh, state, current_pcb>>
    BY <1>0, <1>3, <2>1 DEF TimedMarkStart, MarkStart, Go, TypeOK, procVars, logVars, perfVars, pcbVars
  <2> QED
    BY <2>1, <2>2, StatsQuiet
<1>4. CASE TimedRotateQueue
  <2>1. /\ pc = "rotate" /\ pc' = "nomore"
        /\ UNCHANGED <<clock, last_process_end_time, wait_time, total_wait, total_time, idle_time>>
        /\ UNCHANGED <<left, fresh, state, current_pcb>>
    BY <1>4 DEF TimedRotateQueue, RotateQueue, Go, procVars, logVars, perfVars, pcbVars
  <2> QED
    BY <2>1, StatsQuiet DEF Alive
<1>5. CASE UntimedStep /\ ~DropCurrent
  <2>0. UNCHANGED <<clock, last_process_end_time, wait_time, total_wait, total_time, idle_time>>
    BY <1>5 DEF UntimedStep, timeVars, runVars, logVars, perfVars
  <2>1. CASE check_for_new_processes
    <3>1. /\ pc = "recv" /\ pc' \in {"recv", "dispatch"}
          /\ UNCHANGED <<left, fresh, phase, state, current_pcb>>
      BY <2>1 DEF check_for_new_processes, Go, procVars, pcbVars
    <3>2. SpellOver' => SpellOver
      <4>1. CASE inbox = <<>>
        BY <2>1, <3>1, <4>1 DEF check_for_new_processes, SpellOver, NothingToCome
      <4>2. CASE inbox # <<>>
        <5>1. Head(inbox) \in Procs /\ QueueOK(ready_queue, Procs)
          BY <1>0, <4>2, HeadTailProperties DEF TypeOK
        <5>2. ready_queue' = enqueue(ready_queue, Head(inbox), Key(Head(inbox)))
          BY <2>1, <4>2, <5>1 DEF check_for_new_processes, ValidInput
        <5>3. ~is_empty(ready_queue')
          BY <5>1, <5>2, EnqueueNonempty
        <5> QED
          BY <3>1, <5>3 DEF SpellOver
      <4> QED
        BY <4>1, <4>2
    <3> QED
      BY <2>0, <3>1, <3>2, StatsQuiet DEF Alive
  <2>2. CASE ContinueProcess \/ ClipRemaining \/ TestPreempted
    <3>1. current_pcb # NULL /\ pc \in {"cont", "due", "preempt"}
      BY <1>0, <2>2 DEF ContinueProcess, ClipRemaining, TestPreempted, PromptInv, StepsInv
    <3>2. /\ pc' \in {"mark", "preempt", "stop"}
          /\ UNCHANGED <<left, fresh, state, current_pcb>>
      BY <2>2, <3>1 DEF ContinueProcess, ClipRemaining, TestPreempted, Go, procVars, schVars, pcbVars
    <3> QED
      BY <2>0, <3>1, <3>2, StatsQuiet
  <2>3. CASE check_no_more_processes
    <3>1. /\ pc = "nomore" /\ pc' = "test"
          /\ UNCHANGED <<left, fresh, phase, state, current_pcb, inbox, ready_queue>>
      BY <2>3 DEF check_no_more_processes, Go, procVars, pcbVars
    <3>2. SpellOver' => SpellOver
      BY <3>1 DEF SpellOver, NothingToCome
    <3> QED
      BY <2>0, <3>1, <3>2, StatsQuiet DEF Alive
  <2>4. CASE CompareCurrent
    <3>1. /\ pc = "compare" /\ pc' \in {"crash", "due", "nomore"}
          /\ UNCHANGED <<left, fresh, phase, state, current_pcb, inbox, ready_queue>>
      BY <2>4 DEF CompareCurrent, Go, procVars, msgVars, schVars, pcbVars
    <3>2. SpellOver' => SpellOver
      BY <3>1 DEF SpellOver, NothingToCome
    <3> QED
      BY <2>0, <3>1, <3>2, StatsQuiet DEF Alive
  <2> QED
    BY <1>5, <2>1, <2>2, <2>3, <2>4 DEF UntimedStep
<1> QED
  BY <1>1, <1>2, <1>3, <1>4, <1>5

(* Every step keeps the accounts of the statistics.                         *)
LEMMA StatsStep ==
  ASSUME Orderly, ValidInput, StatsInv, [TimedNext]_timedVars
  PROVE  StatsInv'
<1> USE ProcsAssumption
<1>0. /\ TimesInv /\ TimesInv' /\ PromptInv /\ PromptInv' /\ TypeOK /\ TypeOK' /\ AnnouncedInv
      /\ [Next]_vars
  <2>1. TimesInv /\ TimesInv' /\ AnnouncedInv /\ [Next]_vars
    BY TimesStep, TimedStepIsStep DEF StatsInv
  <2> QED
    BY <2>1 DEF TimesInv, PromptInv
<1>1. AnnouncedInv'
  BY <1>0, AnnouncedStep
<1>2. CASE UNCHANGED timedVars
  <2>1. SpellOver' <=> SpellOver
    BY <1>2 DEF timedVars, vars, procVars, msgVars, schVars, SpellOver, NothingToCome
  <2> QED
    BY <1>0, <1>1, <1>2, <2>1, StatsQuiet DEF timedVars, timeVars, runVars, logVars, perfVars,
       vars, procVars, msgVars, schVars, pcbVars, Alive
<1>3. ASSUME NEW p \in Procs, TimedSpawn(p) PROVE StatsInv'
  <2>1. /\ UNCHANGED <<left, fresh, state, current_pcb, pc, ready_queue>>
        /\ UNCHANGED <<clock, last_process_end_time, wait_time, total_wait, total_time, idle_time>>
        /\ inbox' = Append(inbox, p)
    BY <1>3 DEF TimedSpawn, Spawn, timeVars, runVars, logVars, perfVars, schVars, pcbVars
  <2>2. inbox' # <<>>
    BY <1>0, <2>1 DEF TypeOK
  <2>3. SpellOver' => SpellOver
    BY <2>1, <2>2 DEF SpellOver
  <2> QED
    BY <1>0, <1>1, <2>1, <2>2, <2>3, StatsQuiet DEF Alive
<1>4. CASE TimedSendNoMore
  <2>1. /\ UNCHANGED <<left, fresh, state, current_pcb, pc, ready_queue, phase, inbox>>
        /\ UNCHANGED <<clock, last_process_end_time, wait_time, total_wait, total_time, idle_time>>
    BY <1>4 DEF TimedSendNoMore, SendNoMore, timeVars, runVars, logVars, perfVars, procVars, schVars,
       pcbVars
  <2>2. SpellOver' <=> SpellOver
    BY <2>1 DEF SpellOver, NothingToCome
  <2> QED
    BY <1>0, <1>1, <2>1, <2>2, StatsQuiet DEF Alive
<1>5. CASE TimedTick
  <2>1. current_pcb # NULL /\ pc' # "crash"
    BY <1>0, <1>5 DEF TimedTick, handle_process_tick, PromptInv, TickInv, StepsInv
  <2>2. /\ UNCHANGED <<left, fresh, state, current_pcb, pc, inbox>>
        /\ UNCHANGED <<clock, last_process_end_time, wait_time, total_wait, total_time, idle_time>>
    BY <1>5, <2>1 DEF TimedTick, handle_process_tick, timeVars, runVars, logVars, perfVars, procVars,
       msgVars
  <2> QED
    BY <1>0, <1>1, <2>1, <2>2, StatsQuiet
<1>6. ASSUME NEW p \in Procs, TimedProcess(p) PROVE StatsInv'
  BY <1>0, <1>1, <1>6, StatsProcess
<1>7. CASE TickRunning \/ TickIdle
  BY <1>0, <1>1, <1>7, StatsTick
<1>8. CASE TimedTermination
  BY <1>0, <1>1, <1>8, StatsTermination
<1>9. CASE TimedLoop
  <2>1. CASE TimedNextTurn
    BY <1>0, <1>1, <2>1, StatsNextTurn
  <2>2. CASE TimedStopProcess \/ (UntimedStep /\ DropCurrent)
    BY <1>0, <1>1, <2>2, StatsPreemption DEF UntimedStep
  <2>3. CASE TimedMarkStart \/ TimedRotateQueue \/ (UntimedStep /\ ~DropCurrent)
    BY <1>0, <1>1, <2>3, StatsLoop
  <2>4. CASE TimedDispatch
    <3>1. CASE current_pcb = NULL /\ schedule_next_process("check")
      <4>1. /\ pc \in Polling /\ Alive /\ ~is_empty(ready_queue) /\ RecordStart
            /\ UNCHANGED <<procVars, remaining_time, clock, last_process_end_time, total_wait>>
            /\ idle_time' = idle_time + IdleSpell
        BY <2>4, <3>1 DEF TimedDispatch, Dispatch, schedule_next_process, Polling, Alive
      <4>2. /\ last_process_end_time <= clock
            /\ last_process_end_time \in Int /\ clock \in Int
        BY <1>0, <3>1, <4>1 DEF StatsInv, SpellInv, TimesInv, TimesTypeOK
      <4>3. IdleSpell = clock - last_process_end_time
        BY <3>1, <4>1, <4>2 DEF IdleSpell
      <4> QED
        BY <1>0, <1>1, <3>1, <4>1, <4>3, StatsSchedule
    <3>2. CASE UNCHANGED <<ready_queue, current_pcb, state>>
      BY <1>0, <1>1, <2>4, <3>2, StatsLoop
    <3> QED
      BY <2>4, <3>1, <3>2 DEF TimedDispatch, Dispatch
  <2>5. CASE TimedHandleCurrent
    <3>1. CASE current_pcb = NULL /\ schedule_next_process("nomore")
      <4>1. /\ pc = "check" /\ ~is_empty(ready_queue) /\ RecordStart
            /\ UNCHANGED <<procVars, remaining_time, clock, last_process_end_time, total_wait, idle_time>>
        BY <2>5, <3>1 DEF TimedHandleCurrent, handle_current_running_process, schedule_next_process,
           perfVars
      <4>2. last_process_end_time = clock /\ clock \in Int /\ idle_time \in Int
        BY <1>0, <3>1, <4>1 DEF StatsInv, SpellInv, SpellOver, Alive, TimesInv, TimesTypeOK
      <4>3. idle_time' = idle_time + (clock - last_process_end_time)
        BY <4>1, <4>2
      <4> QED
        BY <1>0, <1>1, <3>1, <4>1, <4>3, StatsSchedule DEF Polling
    <3>2. CASE UNCHANGED <<ready_queue, current_pcb, state>>
      BY <1>0, <1>1, <2>5, <3>2, StatsLoop
    <3> QED
      BY <2>5, <3>1, <3>2 DEF TimedHandleCurrent, handle_current_running_process
  <2> QED
    BY <1>9, <2>1, <2>2, <2>3, <2>4, <2>5 DEF TimedLoop, UntimedStep
<1> QED
  BY <1>2, <1>3, <1>4, <1>5, <1>6, <1>7, <1>8, <1>9 DEF TimedNext

(* When the scheduler ends with no PCB unread, scheduler.perf's two sums    *)
(* are these: the total time less the idle time that Dispatch added up is   *)
(* the work of all processes and the seconds that were on the clock when    *)
(* the scheduler started, none counted twice or left out; and the waits added at each end are the turnarounds less the  *)
(* runtimes, for every algorithm and every input with no empty runtime.     *)
THEOREM StatisticsAreExact ==
  ASSUME Orderly, ValidInput
  PROVE  TimedSpec => []StatisticsExact
<1>1. TimedInit => StatsInv
  BY StatsInit
<1>2. StatsInv /\ [TimedNext]_timedVars => StatsInv'
  BY StatsStep
<1>3. StatsInv => StatisticsExact
  <2> SUFFICES ASSUME StatsInv, pc = "exit", inbox = <<>>
               PROVE  /\ total_time - idle_time = StartClock + Worked
                      /\ total_wait = SumOver([p \in Procs |-> TA[p] - Runtime[p]])
    BY DEF StatisticsExact
  <2>1. TimesInv /\ total_time = StartClock + idle_time + Worked /\ \A p \in Procs : state[p] = "finished"
    BY DEF StatsInv, EndInv
  <2>2. Worked \in Int /\ idle_time \in Int /\ \A p \in Procs : Runtime[p] \in Int /\ wait_time[p] \in Int
    BY <2>1, SumsKept, SumsOfIntegers DEF StatsInv
  <2>3. total_time - idle_time = StartClock + Worked
    BY <2>1, <2>2, StartClockAssumption
  <2>4. \A p \in Procs : TA[p] - Runtime[p] = wait_time[p]
    BY <2>1, <2>2 DEF TimesInv, TurnaroundIsWaitPlusRuntime
  <2>5. [p \in Procs |-> TA[p] - Runtime[p]]
          = [p \in Procs |-> IF state[p] = "finished" THEN wait_time[p] ELSE 0]
    BY <2>1, <2>4
  <2>6. total_wait = SumOver([p \in Procs |-> TA[p] - Runtime[p]])
    BY <2>5 DEF StatsInv, WaitsAtEnd
  <2> QED
    BY <2>3, <2>6
<1> QED
  BY <1>1, <1>2, <1>3, PTL DEF TimedSpec
=============================================================================
