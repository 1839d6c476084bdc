------------------------------ MODULE ReadyQueue ------------------------------
(***************************************************************************)
(* The scheduler's ready queue, as the scheduler sees it through DS/IQueue: *)
(* a circular queue under round robin and a priority queue otherwise.       *)
(*                                                                         *)
(* The circular queue is a ring of nodes with a head and a tail pointer;    *)
(* here it is the sequence of its items read from the head along `next',    *)
(* and the position of the tail in that reading.  The priority queue is the *)
(* priority of each queued item, and the item at the root of the heap: the  *)
(* order of the items below the root is left open, so a dequeue may bring   *)
(* any item of least priority to the root.                                  *)
(***************************************************************************)
EXTENDS Integers, Sequences, SequencesExt

CONSTANTS NULL,   (* the null pointer                     *)
          Algo    (* the scheduling algorithm of the run  *)

Algorithms == {"RR", "HPF", "SRTN"}
-----------------------------------------------------------------------------
(* DS/circular_queue.c *)

circular_queue == [ring |-> <<>>, tail |-> 0]

(* The new node is linked after the tail, wherever the head is. *)
cq_enqueue(q, x) == [ring |-> InsertAt(q.ring, q.tail + 1, x), tail |-> q.tail + 1]

(* Dequeue without removal: the head pointer moves on, the tail stays. *)
cq_dequeue_removes(q) ==
  IF q.ring = <<>> THEN q
  ELSE [ring |-> Tail(q.ring), tail |-> IF q.tail = 1 THEN Len(q.ring) - 1 ELSE q.tail - 1]
cq_dequeue(q) ==
  IF q.ring = <<>> THEN q
  ELSE [ring |-> Append(Tail(q.ring), Head(q.ring)),
        tail |-> IF q.tail = 1 THEN Len(q.ring) ELSE q.tail - 1]

cq_dequeue_and_remove(q) ==
  IF q.ring = <<>> THEN q
  ELSE [ring |-> Tail(q.ring),
        tail |-> IF q.tail = 1 THEN Len(q.ring) - 1 ELSE q.tail - 1]
-----------------------------------------------------------------------------
(* DS/priority_queue.c, up to the order of equal priorities below the root *)

priority_queue == [prio |-> <<>>, top |-> NULL]

Least(prio) == {i \in DOMAIN prio : \A j \in DOMAIN prio : prio[i] <= prio[j]}

(* What may be at the root of a heap that lost its root, or lowered it. *)
Roots(prio) == IF DOMAIN prio = {} THEN {NULL} ELSE Least(prio)

(* A new item climbs past its ancestors only while it is strictly smaller. *)
pq_enqueue(q, x, priority) ==
  [prio |-> [i \in DOMAIN q.prio \cup {x} |-> IF i = x THEN priority ELSE q.prio[i]],
   top  |-> IF q.top = NULL \/ priority < q.prio[q.top] THEN x ELSE q.top]

pq_dequeue_old_root(q) ==
  LET rest == Restrict(q.prio, DOMAIN q.prio \ {q.top}) IN {[prio |-> rest, top |-> q.top]}
pq_dequeue(q) ==
  LET rest == Restrict(q.prio, DOMAIN q.prio \ {q.top})
  IN  {[prio |-> rest, top |-> t] : t \in Roots(rest)}

(* pq_change_priority at index 0: the priority of whatever is at the root. *)
pq_change_priority(q, priority) ==
  IF q.top = NULL THEN {q}
  ELSE LET changed == [q.prio EXCEPT ![q.top] = priority]
       IN  {[prio |-> changed, top |-> t] :
              t \in IF q.top \in Least(changed) THEN {q.top} ELSE Least(changed)}
-----------------------------------------------------------------------------
(* DS/IQueue.c: the queue's kind follows from the algorithm (init_queue).   *)
(* Operations that change the queue are sets of possible results.           *)

init_queue == IF Algo = "RR" THEN circular_queue ELSE priority_queue

QueueItems(q) == IF Algo = "RR" THEN {q.ring[i] : i \in DOMAIN q.ring} ELSE DOMAIN q.prio

enqueue(q, x, priority) ==
  IF Algo = "RR" THEN cq_enqueue(q, x) ELSE pq_enqueue(q, x, priority)

dequeue(q, remove) ==
  IF Algo = "RR"
  THEN {IF remove THEN cq_dequeue_and_remove(q) ELSE cq_dequeue(q)}
  ELSE pq_dequeue(q)

front(q) ==
  IF Algo = "RR" THEN (IF q.ring = <<>> THEN NULL ELSE Head(q.ring)) ELSE q.top

is_empty(q) == QueueItems(q) = {}

change_priority_missing(q, priority) == {q}
change_priority(q, priority) ==
  IF Algo = "RR" THEN {q} ELSE pq_change_priority(q, priority)
-----------------------------------------------------------------------------
(* What the queue's representation keeps between operations.                *)

RingOK(q, S) ==
  /\ q.ring \in Seq(S)
  /\ q.tail \in 0 .. Len(q.ring)
  /\ q.tail = 0 <=> q.ring = <<>>

HeapOK(q, S) ==
  /\ DOMAIN q.prio \subseteq S
  /\ IF DOMAIN q.prio = {} THEN q.top = NULL ELSE q.top \in DOMAIN q.prio

QueueOK(q, S) == IF Algo = "RR" THEN RingOK(q, S) ELSE HeapOK(q, S)

RingDistinct(q) == \A i, j \in DOMAIN q.ring : q.ring[i] = q.ring[j] => i = j
TopLeast(q)     == q.top \in Roots(q.prio)
=============================================================================
