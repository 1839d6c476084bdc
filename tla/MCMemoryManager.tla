---------------------------- MODULE MCMemoryManager ----------------------------
(* Any of the processes may hold any block: they are interchangeable. *)
EXTENDS MemoryManager, TLC

Symmetry == Permutations(Procs)
=============================================================================
