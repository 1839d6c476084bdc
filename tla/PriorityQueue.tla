----------------------------- MODULE PriorityQueue -----------------------------
(***************************************************************************)
(* DS/priority_queue.c: a binary heap in an array that doubles when it is   *)
(* full.  Priorities are stored negated, so the greatest is at index 0.     *)
(* Every turn of the loop that moves a node up is a step, and so is every   *)
(* call of pq_heapify, which moves one down.  Between the steps of an       *)
(* enqueue the scheduler's signal handlers may run: InterruptedHeapSpec.    *)
(***************************************************************************)
EXTENDS Queueable, Integers, FiniteSets

CONSTANTS Priorities, (* the priorities to queue items with               *)
          Capacity    (* the initial capacity, 100 in the code            *)

Node == [item : Items, priority : Int]

ASSUME HeapAssumption ==
  /\ Capacity \in Nat \ {0}
  /\ Priorities \subseteq Int
  /\ NULL \notin Nat \cup Items \cup Node

VARIABLES
  nodes,       (* the array, from 0: [item, priority], or NULL if unused  *)
  heap_size,   (* how many of its places are used                         *)
  heap_pc,     (* the next step of pq_enqueue, or "idle"                  *)
  parent,      (* pq_enqueue's local variable: where the new node is      *)
  heap_new,    (* the item being enqueued                                 *)
  sifted,      (* the argument of pq_heapify while it runs, or NULL       *)
  heap_handled (* the termination handler ran during this enqueue         *)

heap_vars == <<nodes, heap_size, heap_pc, parent, heap_new, sifted, heap_handled>>

HeapInit ==
  /\ nodes = [i \in 0 .. Capacity - 1 |-> NULL]
  /\ heap_size = 0
  /\ heap_pc = "idle" /\ parent = 0 /\ heap_new = NULL /\ sifted = NULL /\ heap_handled = FALSE

Used == 0 .. heap_size - 1
Queued == {nodes[i].item : i \in {j \in Used : nodes[j] # NULL}}

pq_swap(a, i, j) == [a EXCEPT ![i] = a[j], ![j] = a[i]]

(* Positive if the node at i goes before the node at j.                     *)
compare_priority(a, i, j) == a[i].priority - a[j].priority

(* What pq_heapify calls smallest: the node at i or a child, whichever goes *)
(* first.                                                                   *)
smallest(a, n, i) ==
  LET left  == 2 * i + 1
      right == 2 * i + 2
      first == IF left < n /\ compare_priority(a, left, i) > 0 THEN left ELSE i
  IN  IF right < n /\ compare_priority(a, right, first) > 0 THEN right ELSE first

(* One call of pq_heapify, the next one being its last act.                 *)
pq_heapify ==
  /\ sifted # NULL
  /\ LET child == smallest(nodes, heap_size, sifted)
     IN  IF child # sifted
         THEN nodes' = pq_swap(nodes, sifted, child) /\ sifted' = child
         ELSE sifted' = NULL /\ UNCHANGED nodes
  /\ UNCHANGED <<heap_size, heap_pc, parent, heap_new, heap_handled>>
-----------------------------------------------------------------------------
(* pq_enqueue                                                               *)

(* The array with room for one more node.                                   *)
Grown_not(a) == a
Grown(a) ==
  LET n == Cardinality(DOMAIN a)
  IN  IF heap_size < n THEN a
      ELSE [i \in 0 .. 2 * n - 1 |-> IF i < n THEN a[i] ELSE NULL]

Store(x, priority) ==
  /\ heap_pc = "idle" /\ heap_pc' = "stored" /\ sifted = NULL
  /\ x \notin Queued
  /\ nodes' = [Grown(nodes) EXCEPT ![heap_size] = [item |-> x, priority |-> -priority]]
  /\ heap_new' = x
  /\ heap_handled' = FALSE
  /\ UNCHANGED <<heap_size, parent, sifted>>

CountNode ==
  /\ heap_pc = "stored" /\ heap_pc' = "up" /\ sifted = NULL
  /\ heap_size' = heap_size + 1
  /\ parent' = heap_size
  /\ UNCHANGED <<nodes, heap_new, sifted, heap_handled>>

(* One turn of the loop that moves the new node up.                         *)
Parent(i) == (i - 1) \div 2

SiftUp ==
  /\ heap_pc = "up" /\ sifted = NULL
  /\ IF NULL \in {nodes[parent], nodes[IF parent > 0 THEN Parent(parent) ELSE 0]}
     THEN heap_pc' = "undefined" /\ UNCHANGED <<nodes, parent, heap_new>>
     ELSE IF parent > 0 /\ compare_priority(nodes, parent, Parent(parent)) > 0
     THEN /\ nodes' = pq_swap(nodes, parent, Parent(parent))
          /\ parent' = Parent(parent)
          /\ UNCHANGED <<heap_pc, heap_new>>
     ELSE /\ heap_pc' = "idle" /\ parent' = 0 /\ heap_new' = NULL
          /\ UNCHANGED nodes
  /\ UNCHANGED <<heap_size, sifted, heap_handled>>
-----------------------------------------------------------------------------
(* The other operations                                                     *)

(* The last node takes the place of the root, and pq_heapify is called on it *)
(* unless the heap is empty now.                                            *)
TakeRoot(then) ==
  IF heap_size = 0 THEN UNCHANGED <<nodes, heap_size, sifted>>
  ELSE /\ nodes' = [pq_swap(nodes, 0, heap_size - 1) EXCEPT ![heap_size - 1] = NULL]
       /\ heap_size' = heap_size - 1
       /\ sifted' = IF heap_size > 1 THEN then ELSE NULL
RemoveRoot_unsorted == TakeRoot(NULL)
RemoveRoot == TakeRoot(0)

(* At index 0, the only one the code ever passes, no node can move up.      *)
ChangeRoot_in_place(priority) ==
  /\ nodes' = IF heap_size = 0 THEN nodes ELSE [nodes EXCEPT ![0].priority = -priority]
  /\ UNCHANGED <<heap_size, sifted>>
ChangeRoot(priority) ==
  /\ nodes' = IF heap_size = 0 THEN nodes ELSE [nodes EXCEPT ![0].priority = -priority]
  /\ sifted' = IF heap_size > 0 /\ -priority < nodes[0].priority THEN 0 ELSE NULL
  /\ UNCHANGED heap_size

pq_dequeue ==
  /\ heap_pc = "idle" /\ sifted = NULL
  /\ RemoveRoot
  /\ UNCHANGED <<heap_pc, parent, heap_new, heap_handled>>

pq_change_priority(priority) ==
  /\ heap_pc = "idle" /\ sifted = NULL
  /\ ChangeRoot(priority)
  /\ UNCHANGED <<heap_pc, parent, heap_new, heap_handled>>

HeapNext ==
  \/ \E x \in Items, priority \in Priorities : Store(x, priority)
  \/ CountNode \/ SiftUp
  \/ pq_dequeue \/ pq_heapify
  \/ \E priority \in Priorities : pq_change_priority(priority)

HeapSpec == HeapInit /\ [][HeapNext]_heap_vars

(* handle_process_termination inside an enqueue, under SRTN: the current    *)
(* process, at the root, has ended.  It can end once.                       *)
HeapInterrupt ==
  /\ heap_pc \in {"stored", "up"} /\ sifted = NULL /\ ~heap_handled
  /\ heap_size > 0 /\ nodes[0].item # heap_new
  /\ RemoveRoot
  /\ heap_handled' = TRUE
  /\ UNCHANGED <<heap_pc, parent, heap_new>>

InterruptedHeapSpec == HeapInit /\ [][HeapNext \/ HeapInterrupt]_heap_vars
-----------------------------------------------------------------------------
(* The array holds a node in every place that is used and in no other, but  *)
(* for the place where a new node has been stored.                          *)
HeapTypeOK ==
  /\ DOMAIN nodes = 0 .. Cardinality(DOMAIN nodes) - 1
  /\ heap_size \in 0 .. Cardinality(DOMAIN nodes)
  /\ \A i \in DOMAIN nodes :
       nodes[i] \in IF i < heap_size \/ (heap_pc = "stored" /\ i = heap_size) THEN Node ELSE {NULL}
  /\ heap_pc \in {"idle", "stored", "up", "undefined"}
  /\ parent \in 0 .. heap_size
  /\ heap_new \in Items \cup {NULL}
  /\ sifted \in 0 .. heap_size - 1 \cup {NULL}

(* No node goes before the node above it, but for one that is moving up and *)
(* the children of one that is moving down; and meanwhile the nodes below   *)
(* the moving one are in order with the one above it.                       *)
HeapOrder ==
  \A i \in Used \ {0} :
    /\ (heap_pc = "up" => i # parent) /\ Parent(i) # sifted
         => compare_priority(nodes, i, Parent(i)) <= 0
    /\ heap_pc = "up" /\ parent > 0 /\ Parent(i) = parent
         => compare_priority(nodes, i, Parent(parent)) <= 0
    /\ sifted \notin {NULL, 0} /\ Parent(i) = sifted
         => compare_priority(nodes, i, Parent(sifted)) <= 0

(* What makes the two inductive: the new node is where the loop has it, one *)
(* node moves at a time, and no item is queued twice.                       *)
Moving ==
  /\ Cardinality(DOMAIN nodes) \in Nat \ {0}
  /\ heap_pc # "undefined"
  /\ heap_pc = "stored" => /\ heap_size < Cardinality(DOMAIN nodes)
                      /\ nodes[heap_size].item \notin Queued
                      /\ -nodes[heap_size].priority \in Priorities
  /\ IF heap_pc = "up" THEN parent < heap_size ELSE parent = 0
  /\ heap_pc # "idle" => sifted = NULL
  /\ \A i, j \in Used : nodes[i].item = nodes[j].item => i = j

HeapInv == HeapTypeOK /\ HeapOrder /\ Moving
-----------------------------------------------------------------------------
(* The heap that the scheduler's model uses.  A new node counts as soon as  *)
(* size does; it is then as good as at the root if it will get there, as is *)
(* the child that the first call of pq_heapify will bring there.            *)

Root ==
  IF heap_pc = "up" /\ compare_priority(nodes, parent, 0) > 0 THEN parent
  ELSE IF sifted = 0 THEN smallest(nodes, heap_size, 0)
  ELSE 0

Heap ==
  LET at == [x \in Queued |-> CHOOSE i \in Used : nodes[i].item = x]
  IN  [prio |-> [x \in Queued |-> -nodes[at[x]].priority],
       top  |-> IF heap_size = 0 THEN NULL ELSE nodes[Root].item]

HeapAbstract == INSTANCE QueueSpec WITH Algo <- "SRTN", queue <- Heap

(* Every operation has a result that module ReadyQueue allows it.           *)
HeapImplements == HeapAbstract!Spec
=============================================================================
