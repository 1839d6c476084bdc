----------------------------- MODULE MCScheduler -----------------------------
(* Small instances of Scheduler: the processes, and what the input file     *)
(* says of them.                                                            *)
EXTENDS Scheduler

CONSTANTS p1, p2, p3

(* Different runtimes, and priorities that tie.                             *)
MixedRuntime == p1 :> 3 @@ p2 :> 1 @@ p3 :> 2
MixedPriority == p1 :> 1 @@ p2 :> 0 @@ p3 :> 1

(* Two arrivals that are both shorter than what a third has left.           *)
LongRuntime == p1 :> 4 @@ p2 :> 1 @@ p3 :> 2

(* One process with a runtime of 0, which the scheduler does not accept.    *)
InvalidRuntime == p1 :> 2 @@ p2 :> 0 @@ p3 :> 1
=============================================================================
