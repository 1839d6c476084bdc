-------------------------------- MODULE MapSpec --------------------------------
(***************************************************************************)
(* What hash_map.h promises its callers, with the return values that        *)
(* hash_map.c gives: 1 for a new entry, 0 for a replaced one, -1 for a      *)
(* request that changed nothing.                                            *)
(***************************************************************************)
EXTENDS Integers

CONSTANTS Keys, Values, NULL

VARIABLES
  map,       (* key -> value, or NULL                                       *)
  result     (* what the last call returned                                 *)

vars == <<map, result>>

Init ==
  /\ map = [k \in Keys |-> NULL]
  /\ result = 0

put(k, v) ==
  \/ /\ map' = [map EXCEPT ![k] = v]
     /\ result' = IF map[k] = NULL THEN 1 ELSE 0
  \/ /\ UNCHANGED map
     /\ result' = -1

Next == \E k \in Keys, v \in Values : put(k, v)

Spec == Init /\ [][Next]_vars
=============================================================================
