------------------------------ MODULE MCSystem ------------------------------
(* A small instance of System.                                              *)
EXTENDS System

CONSTANTS p1, p2, p3, p4, p5

FiveProcesses == <<p1, p2, p3, p4, p5>>
MixedRuntime  == p1 :> 1 @@ p2 :> 5 @@ p3 :> 3 @@ p4 :> 1 @@ p5 :> 2
MixedPriority == p1 :> 1 @@ p2 :> 0 @@ p3 :> 1 @@ p4 :> 2 @@ p5 :> 0
MixedArrival  == p1 :> 1 @@ p2 :> 1 @@ p3 :> 2 @@ p4 :> 4 @@ p5 :> 4

(* Of 4: p3 may have to wait for p1 and p4 for p3, while p2 runs on and p5  *)
(* fits beside it.                                                          *)
MixedSizes == p1 :> 2 @@ p2 :> 1 @@ p3 :> 2 @@ p4 :> 2 @@ p5 :> 1
=============================================================================
