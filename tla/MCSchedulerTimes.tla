-------------------------- MODULE MCSchedulerTimes --------------------------
(* Small instances of SchedulerTimes: the inputs of MCScheduler, and when   *)
(* the processes arrive.                                                    *)
EXTENDS MCScheduler, SchedulerTimes

(* The clock is 1 when the scheduler starts: each may come at any time.     *)
FromTheStart == [p \in Procs |-> 1]

(* The scheduler starts at 1 and is idle until 2.                           *)
MixedArrival == p1 :> 2 @@ p2 :> 2 @@ p3 :> 3
=============================================================================
