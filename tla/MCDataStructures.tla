--------------------------- MODULE MCDataStructures ---------------------------
(***************************************************************************)
(* Small instances of the data structures of DS/, one at a time: the ring,  *)
(* the heap, and the hash map.  The keys of the map are interchangeable, so *)
(* that the hash functions that rise with the key stand for all.            *)
(***************************************************************************)
EXTENDS CircularQueue, PriorityQueue, HashMap

VARIABLE structure       (* the one that is used                            *)

allVars == <<vars, heap_vars, hash_vars, structure>>

AllInit ==
  /\ structure \in {"ring", "heap", "map"}
  /\ Init /\ HeapInit /\ hashmap_create
  /\ \A k, l \in Keys : k < l => home[k] <= home[l]
  /\ structure # "map" => home = [k \in Keys |-> 0]

AllNext ==
  /\ UNCHANGED structure
  /\ \/ structure = "ring" /\ Next     /\ UNCHANGED <<heap_vars, hash_vars>>
     \/ structure = "heap" /\ HeapNext /\ UNCHANGED <<vars, hash_vars>>
     \/ structure = "map"  /\ HashNext /\ UNCHANGED <<vars, heap_vars>>

AllSpec == AllInit /\ [][AllNext]_allVars
=============================================================================
