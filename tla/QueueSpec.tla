------------------------------- MODULE QueueSpec -------------------------------
(***************************************************************************)
(* What a ready queue promises: each operation of DS/IQueue.h is one step   *)
(* with the result that module ReadyQueue gives it.  The scheduler's model  *)
(* relies on this; CircularQueue and PriorityQueue implement it.            *)
(***************************************************************************)
EXTENDS ReadyQueue

CONSTANTS Items,      (* what is queued: the scheduler's PCBs             *)
          Priorities  (* the keys they are queued with, natural numbers   *)

VARIABLE queue

Init == queue = init_queue

(* The scheduler enqueues a PCB once. *)
Enqueue(x, priority) ==
  /\ x \notin QueueItems(queue)
  /\ queue' = enqueue(queue, x, priority)

Dequeue(remove) == queue' \in dequeue(queue, remove)

ChangePriority(priority) == queue' \in change_priority(queue, priority)

Next ==
  \/ \E x \in Items, priority \in Priorities : Enqueue(x, priority)
  \/ \E remove \in BOOLEAN : Dequeue(remove)
  \/ \E priority \in Priorities : ChangePriority(priority)

Spec == Init /\ [][Next]_queue
=============================================================================
