------------------------------ MODULE MCGenerator ------------------------------
(* Inputs for model checking the process generator. *)
EXTENDS Generator

CONSTANTS p1, p2, p3, p4, p5

FiveProcesses == <<p1, p2, p3, p4, p5>>

Sorted   == (p1 :> 0 @@ p2 :> 1 @@ p3 :> 1 @@ p4 :> 1 @@ p5 :> 2)
Unsorted == (p1 :> 1 @@ p2 :> 0 @@ p3 :> 1 @@ p4 :> 1 @@ p5 :> 2)

(* Of 8: p2 waits for p1, and p4 waits until p1 or p3 has left; then p4 may *)
(* go before p2, which still does not fit.                                  *)
MixedSizes == (p1 :> 3 @@ p2 :> 8 @@ p3 :> 4 @@ p4 :> 2 @@ p5 :> 1)
==============================================================================
