----------------------------- MODULE CircularQueue -----------------------------
(***************************************************************************)
(* DS/circular_queue.c at the level of its nodes: a ring linked both ways,  *)
(* a head, a tail and a size.  An enqueue is a sequence of steps, one per   *)
(* assignment.  The scheduler's termination handler, which removes the      *)
(* head, may run between any two of them: InterruptedSpec.                  *)
(***************************************************************************)
EXTENDS Queueable, Integers, Sequences, FiniteSets

CONSTANT Nodes         (* the addresses malloc may return                 *)

ASSUME NullAssumption == NULL \notin Nodes

VARIABLES
  head, tail, size,    (* CircularQueue                                   *)
  obj, next, prev,     (* QueueNode                                       *)
  live,                (* the nodes allocated and not freed               *)
  pc,                  (* the next step of cq_enqueue, or "idle"          *)
  node,                (* cq_enqueue's local variable                     *)
  handled              (* the handler ran during this enqueue             *)

links == <<obj, next, prev>>
vars  == <<head, tail, size, links, live, pc, node, handled>>

Init ==
  /\ head = NULL /\ tail = NULL /\ size = 0
  /\ obj  = [n \in Nodes |-> NULL]
  /\ next = [n \in Nodes |-> NULL]
  /\ prev = [n \in Nodes |-> NULL]
  /\ live = {}
  /\ pc = "idle" /\ node = NULL /\ handled = FALSE
-----------------------------------------------------------------------------
(* cq_enqueue                                                               *)

NewNode(x) ==
  /\ pc = "idle"
  /\ \A n \in live : obj[n] # x
  /\ \E n \in Nodes \ live :
       /\ node' = n
       /\ live' = live \cup {n}
       /\ obj' = [obj EXCEPT ![n] = x]
  /\ pc' = IF tail = NULL THEN "first" ELSE "next"
  /\ handled' = FALSE
  /\ UNCHANGED <<head, tail, size, next, prev>>

LinkFirst ==
  /\ pc = "first"
  /\ head' = node /\ tail' = node
  /\ next' = [next EXCEPT ![node] = node]
  /\ prev' = [prev EXCEPT ![node] = node]
  /\ pc' = "count"
  /\ UNCHANGED <<size, obj, live, node, handled>>

(* The assignments of the other branch, each through q->tail.               *)
Linking(at, then) ==
  /\ pc = at
  /\ pc' = IF tail = NULL THEN "undefined" ELSE then
  /\ UNCHANGED <<head, size, obj, live, node, handled>>

LinkNext ==
  /\ Linking("next", "prev")
  /\ next' = IF tail = NULL THEN next ELSE [next EXCEPT ![node] = next[tail]]
  /\ UNCHANGED <<tail, prev>>

LinkPrev ==
  /\ pc = "prev" /\ pc' = "headprev"
  /\ prev' = [prev EXCEPT ![node] = tail]
  /\ UNCHANGED <<head, tail, size, obj, next, live, node, handled>>

LinkHeadPrev_missing == Linking("headprev", "tailnext") /\ UNCHANGED <<tail, next, prev>>
LinkHeadPrev ==
  /\ Linking("headprev", "tailnext")
  /\ prev' = IF tail = NULL THEN prev ELSE [prev EXCEPT ![next[tail]] = node]
  /\ UNCHANGED <<tail, next>>

LinkTailNext ==
  /\ Linking("tailnext", "tail")
  /\ next' = IF tail = NULL THEN next ELSE [next EXCEPT ![tail] = node]
  /\ UNCHANGED <<tail, prev>>

MoveTail_missing ==
  /\ pc = "tail" /\ pc' = "count"
  /\ UNCHANGED <<head, tail, size, links, live, node, handled>>
MoveTail ==
  /\ pc = "tail" /\ pc' = "count"
  /\ tail' = node
  /\ UNCHANGED <<head, size, links, live, node, handled>>

Count ==
  /\ pc = "count" /\ pc' = "idle"
  /\ size' = size + 1
  /\ node' = NULL
  /\ UNCHANGED <<head, tail, links, live, handled>>
-----------------------------------------------------------------------------
(* The other operations, each one step                                      *)

cq_dequeue ==
  /\ pc = "idle"
  /\ head' = IF head = NULL THEN NULL ELSE next[head]
  /\ UNCHANGED <<tail, size, links, live, pc, node, handled>>

(* A freed node keeps nothing that may be read. *)
Freed(f, n) == [f EXCEPT ![n] = NULL]

NewTail_unchanged(n) == tail
NewTail(n) == IF n = tail THEN prev[n] ELSE tail

RemoveHead ==
  LET n == head
  IN  IF n = NULL THEN UNCHANGED <<head, tail, size, links, live>>
      ELSE /\ live' = live \ {n}
           /\ size' = size - 1
           /\ obj' = Freed(obj, n)
           /\ IF n = tail /\ n = next[tail]
              THEN /\ head' = NULL /\ tail' = NULL
                   /\ next' = Freed(next, n) /\ prev' = Freed(prev, n)
              ELSE /\ head' = next[n]
                   /\ tail' = NewTail(n)
                   /\ next' = Freed([next EXCEPT ![prev[n]] = next[n]], n)
                   /\ prev' = Freed([prev EXCEPT ![next[n]] = prev[n]], n)

cq_dequeue_and_remove ==
  /\ pc = "idle"
  /\ RemoveHead
  /\ UNCHANGED <<pc, node, handled>>

Next ==
  \/ \E x \in Items : NewNode(x)
  \/ LinkFirst \/ LinkNext \/ LinkPrev \/ LinkHeadPrev \/ LinkTailNext \/ MoveTail \/ Count
  \/ cq_dequeue \/ cq_dequeue_and_remove

Spec == Init /\ [][Next]_vars

(* handle_process_termination inside an enqueue: the current process, which *)
(* was in the ring before, has ended.  It can end once.                     *)
Interrupt ==
  /\ ~handled
  /\ pc \notin {"idle", "first", "undefined"}
  /\ head \notin {NULL, node}
  /\ RemoveHead
  /\ handled' = TRUE
  /\ UNCHANGED <<pc, node>>

InterruptedSpec == Init /\ [][Next \/ Interrupt]_vars
-----------------------------------------------------------------------------
(* s holds the nodes of S, each once, from h along nx until h comes again.  *)
IsRing(s, h, nx, S) ==
  /\ s \in [1 .. Cardinality(S) -> S]
  /\ s[1] = h
  /\ \A n \in S : \E k \in DOMAIN s : s[k] = n
  /\ \A i, j \in DOMAIN s : s[i] = s[j] => i = j
  /\ \A k \in DOMAIN s : nx[s[k]] = s[IF k = Cardinality(S) THEN 1 ELSE k + 1]

RingOf(h, nx, S) ==
  IF h = NULL THEN <<>> ELSE CHOOSE s \in [1 .. Cardinality(S) -> S] : IsRing(s, h, nx, S)

(* The nodes in the ring: a new one is in it once the tail's next leads there. *)
Linked ==
  IF pc \in {"first", "next", "prev", "headprev", "tailnext"} THEN live \ {node} ELSE live

RingNodes == RingOf(head, next, Linked)

(* Pointers are to allocated nodes: head and tail never dangle.             *)
TypeOK ==
  /\ live \subseteq Nodes
  /\ {head, tail, node} \subseteq live \cup {NULL}
  /\ size \in Nat
  /\ obj \in [Nodes -> Items \cup {NULL}]
  /\ next \in [Nodes -> Nodes \cup {NULL}]
  /\ prev \in [Nodes -> Nodes \cup {NULL}]
  /\ pc \in {"idle", "first", "next", "prev", "headprev", "tailnext", "tail", "count",
             "undefined"}
  /\ handled \in BOOLEAN

(* Between operations the ring is whole: prev undoes next, the head reaches *)
(* every allocated node, the tail is one of them, and size counts them.     *)
WellLinked ==
  pc = "idle" =>
    /\ \A n \in live : next[n] \in live /\ prev[next[n]] = n
    /\ head = NULL <=> live = {}
    /\ tail = NULL <=> live = {}
    /\ live # {} => \E s \in [1 .. Cardinality(live) -> live] : IsRing(s, head, next, live)
    /\ size = Cardinality(live)

(* What makes WellLinked inductive.  Inside an enqueue the ring is that of  *)
(* the other nodes until the tail's next is set, size is one behind, and    *)
(* the new node's links are already those it will need.                     *)
Counted ==
  /\ IsFiniteSet(live)
  /\ size = Cardinality(live) - (IF pc = "idle" THEN 0 ELSE 1)
  /\ pc = "idle" <=> node = NULL
  /\ \A m, n \in live : obj[m] \in Items /\ (obj[m] = obj[n] => m = n)

Whole ==
  /\ head = NULL <=> Linked = {}
  /\ tail = NULL <=> Linked = {}
  /\ {head, tail} \subseteq Linked \cup {NULL}
  /\ head # NULL => IsRing(RingNodes, head, next, Linked)
  /\ \A n \in Linked :
       prev[next[n]] = IF pc = "tailnext" /\ n = tail THEN node ELSE n

Linkable ==
  /\ pc # "undefined"
  /\ pc = "first" => head = NULL
  /\ pc \notin {"idle", "first"} => head # NULL
  /\ pc \in {"prev", "headprev", "tailnext"} => next[node] = next[tail]
  /\ pc \in {"headprev", "tailnext"} => prev[node] = tail
  /\ pc = "tail" => next[tail] = node /\ node # tail

RingInv == TypeOK /\ Counted /\ Whole /\ Linkable

-----------------------------------------------------------------------------
(* The ring that the scheduler's model uses: the objects from the head on,  *)
(* and where the tail, or the node about to be the tail, is among them.     *)

Ring ==
  LET last == IF pc = "tail" THEN node ELSE tail
  IN  [ring |-> [k \in DOMAIN RingNodes |-> obj[RingNodes[k]]],
       tail |-> IF head = NULL THEN 0 ELSE CHOOSE k \in DOMAIN RingNodes : RingNodes[k] = last]

Abstract == INSTANCE QueueSpec WITH Algo <- "RR", Priorities <- {0}, queue <- Ring

(* Every operation has the result that module ReadyQueue gives it.          *)
ImplementsReadyQueue == Abstract!Spec
=============================================================================
