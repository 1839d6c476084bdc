------------------------------- MODULE Queueable -------------------------------
(* What CircularQueue and PriorityQueue both queue.                         *)
EXTENDS Pointers

CONSTANT Items     (* the objects to queue                                *)
=============================================================================
