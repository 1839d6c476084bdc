--------------------------- MODULE SchedulerProofs ---------------------------
(***************************************************************************)
(* Theorems about Scheduler, for any set of processes, any runtimes and     *)
(* priorities and any quantum: first what the operations of the ready queue *)
(* keep and change, then what holds on any machine, then what holds on an   *)
(* orderly one.                                                             *)
(***************************************************************************)
EXTENDS Scheduler, SequenceTheorems, TLAPS

-----------------------------------------------------------------------------
(* The ready queue                                                          *)

(* The ring with a node linked in after position i - 1.                     *)
LEMMA InsertAtType ==
  ASSUME NEW S, NEW s \in Seq(S), NEW i \in 1 .. Len(s) + 1, NEW e \in S
  PROVE  /\ InsertAt(s, i, e) \in Seq(S)
         /\ Len(InsertAt(s, i, e)) = Len(s) + 1
<1> DEFINE before == SubSeq(s, 1, i - 1)
           after  == SubSeq(s, i, Len(s))
<1>1. before \in Seq(S) /\ Len(before) = i - 1
  BY SubSeqProperties, ElementOfSeq, LenProperties
<1>2. after \in Seq(S) /\ Len(after) = Len(s) + 1 - i
  BY SubSeqProperties, ElementOfSeq, LenProperties
<1>3. <<e>> \in Seq(S) /\ Len(<<e>>) = 1
  OBVIOUS
<1> HIDE DEF before, after
<1>4. before \o <<e>> \in Seq(S) /\ Len(before \o <<e>>) = i
  BY <1>1, <1>3, ConcatProperties
<1>5. /\ (before \o <<e>>) \o after \in Seq(S)
      /\ Len((before \o <<e>>) \o after) = Len(before \o <<e>>) + Len(after)
  BY <1>2, <1>4, ConcatProperties
<1>6. Len(s) \in Nat /\ i \in Int
  BY LenProperties
<1>7. Len((before \o <<e>>) \o after) = Len(s) + 1
  BY SMTT(30), <1>2, <1>4, <1>5, <1>6
<1> QED
  BY <1>5, <1>7 DEF InsertAt, before, after

(* The queue of a new scheduler (init_queue) is well formed and empty.      *)
LEMMA InitQueue ==
  ASSUME NEW S
  PROVE  QueueOK(init_queue, S) /\ QueueItems(init_queue) = {}
BY DEF QueueOK, RingOK, HeapOK, init_queue, circular_queue, priority_queue, QueueItems

(* enqueue keeps the queue well formed.                                     *)
LEMMA EnqueueOK ==
  ASSUME NEW S, NULL \notin S, NEW q, QueueOK(q, S), NEW x \in S, NEW n
  PROVE  QueueOK(enqueue(q, x, n), S)
<1>1. CASE Algo = "RR"
  <2>1. q.ring \in Seq(S) /\ q.tail + 1 \in 1 .. Len(q.ring) + 1
    BY <1>1, LenProperties DEF QueueOK, RingOK
  <2>2. /\ InsertAt(q.ring, q.tail + 1, x) \in Seq(S)
        /\ Len(InsertAt(q.ring, q.tail + 1, x)) = Len(q.ring) + 1
    BY <2>1, InsertAtType
  <2> QED
    BY <1>1, <2>1, <2>2, EmptySeq DEF QueueOK, RingOK, enqueue, cq_enqueue
<1>2. CASE Algo # "RR"
  <2>1. HeapOK(pq_enqueue(q, x, n), S)
    BY <1>2 DEF QueueOK, HeapOK, pq_enqueue
  <2> QED
    BY <1>2, <2>1 DEF QueueOK, enqueue
<1> QED
  BY <1>1, <1>2

(* Every result of dequeue, with or without removal, is well formed.        *)
LEMMA DequeueOK ==
  ASSUME NEW S, NULL \notin S, NEW q, QueueOK(q, S), NEW b, NEW r \in dequeue(q, b)
  PROVE  QueueOK(r, S)
<1>1. CASE Algo = "RR"
  <2>1. CASE q.ring = <<>>
    BY <1>1, <2>1 DEF QueueOK, dequeue, cq_dequeue, cq_dequeue_and_remove
  <2>2. CASE q.ring # <<>>
    <3>1. /\ Head(q.ring) \in S /\ Tail(q.ring) \in Seq(S)
          /\ Len(Tail(q.ring)) = Len(q.ring) - 1
          /\ Len(q.ring) \in Nat \ {0}
      BY <1>1, <2>2, HeadTailProperties, EmptySeq DEF QueueOK, RingOK
    <3>2. q.tail \in 1 .. Len(q.ring)
      BY <1>1, <2>2, <3>1 DEF QueueOK, RingOK
    <3>3. RingOK(cq_dequeue_and_remove(q), S)
      <4> DEFINE rest == Tail(q.ring)
      <4>1. rest = <<>> <=> Len(rest) = 0
        <5> rest \in Seq(S)
          BY <3>1
        <5> HIDE DEF rest
        <5> QED
          BY EmptySeq
      <4>2. /\ cq_dequeue_and_remove(q).ring = rest
            /\ cq_dequeue_and_remove(q).tail = IF q.tail = 1 THEN Len(q.ring) - 1 ELSE q.tail - 1
        BY <2>2 DEF cq_dequeue_and_remove
      <4>3. rest \in Seq(S) /\ Len(rest) = Len(q.ring) - 1
        BY <3>1
      <4> HIDE DEF rest
      <4> QED
        BY <3>1, <3>2, <4>1, <4>2, <4>3 DEF RingOK
    <3>4. /\ Append(Tail(q.ring), Head(q.ring)) \in Seq(S)
          /\ Len(Append(Tail(q.ring), Head(q.ring))) = Len(q.ring)
      BY <3>1
    <3>5. RingOK(cq_dequeue(q), S)
      BY <2>2, <3>1, <3>2, <3>4, EmptySeq DEF RingOK, cq_dequeue
    <3> QED
      BY <1>1, <3>3, <3>5 DEF QueueOK, dequeue
  <2> QED
    BY <2>1, <2>2
<1>2. CASE Algo # "RR"
  <2>1. HeapOK(q, S) /\ r \in pq_dequeue(q)
    BY <1>2 DEF QueueOK, dequeue
  <2>2. HeapOK(r, S)
    BY <2>1 DEF HeapOK, pq_dequeue, Restrict, Roots, Least
  <2> QED
    BY <1>2, <2>2 DEF QueueOK
<1> QED
  BY <1>1, <1>2

(* Every result of change_priority is well formed and has the same items.   *)
LEMMA ChangePriorityOK ==
  ASSUME NEW S, NEW q, QueueOK(q, S), NEW n, NEW r \in change_priority(q, n)
  PROVE  QueueOK(r, S) /\ QueueItems(r) = QueueItems(q)
<1>1. CASE Algo = "RR"
  BY <1>1 DEF change_priority
<1>2. CASE Algo # "RR"
  <2>1. CASE q.top = NULL
    BY <1>2, <2>1 DEF change_priority, pq_change_priority
  <2>2. CASE q.top # NULL
    BY <1>2, <2>2 DEF change_priority, pq_change_priority, QueueOK, HeapOK, QueueItems, Least
  <2> QED
    BY <2>1, <2>2
<1> QED
  BY <1>1, <1>2

(* front of a queue that is not empty is one of its items.                  *)
LEMMA FrontItem ==
  ASSUME NEW S, NEW q, QueueOK(q, S), ~is_empty(q)
  PROVE  front(q) \in QueueItems(q) /\ front(q) \in S
<1>1. CASE Algo = "RR"
  <2>1. q.ring \in Seq(S) /\ q.ring # <<>>
    BY <1>1 DEF QueueOK, RingOK, is_empty, QueueItems
  <2>2. Len(q.ring) \in Nat \ {0} /\ DOMAIN q.ring = 1 .. Len(q.ring) /\ Head(q.ring) = q.ring[1]
    BY <2>1, EmptySeq, LenProperties
  <2> QED
    BY <1>1, <2>1, <2>2, HeadTailProperties DEF front, QueueItems
<1>2. CASE Algo # "RR"
  BY <1>2 DEF QueueOK, HeapOK, front, QueueItems, is_empty
<1> QED
  BY <1>1, <1>2

(* Under a priority queue, enqueue adds one item and dequeue removes the    *)
(* front one.                                                               *)
LEMMA HeapItems ==
  ASSUME NEW S, NEW q, QueueOK(q, S), Algo # "RR"
  PROVE  /\ \A x, n : QueueItems(enqueue(q, x, n)) = QueueItems(q) \cup {x}
         /\ \A r \in dequeue(q, TRUE) : QueueItems(r) = QueueItems(q) \ {front(q)}
<1>1. ASSUME NEW x, NEW n
      PROVE  QueueItems(enqueue(q, x, n)) = QueueItems(q) \cup {x}
  BY DEF enqueue, pq_enqueue, QueueItems
<1>2. ASSUME NEW r \in dequeue(q, TRUE)
      PROVE  QueueItems(r) = QueueItems(q) \ {front(q)}
  <2>1. PICK t \in Roots(Restrict(q.prio, DOMAIN q.prio \ {q.top})) :
          r = [prio |-> Restrict(q.prio, DOMAIN q.prio \ {q.top}), top |-> t]
    BY <1>2 DEF dequeue, pq_dequeue
  <2>2. DOMAIN r.prio = DOMAIN q.prio \ {q.top}
    BY <2>1 DEF Restrict
  <2> QED
    BY <2>2 DEF QueueItems, front
<1> QED
  BY <1>1, <1>2

(* The items of InsertAt: those before position i, the new one, those after. *)
LEMMA InsertAtItems ==
  ASSUME NEW S, NEW s \in Seq(S), NEW i \in 1 .. Len(s) + 1, NEW e \in S
  PROVE  \A j \in 1 .. Len(s) + 1 :
           InsertAt(s, i, e)[j] = IF j < i THEN s[j] ELSE IF j = i THEN e ELSE s[j - 1]
<1> DEFINE before == SubSeq(s, 1, i - 1)
           after  == SubSeq(s, i, Len(s))
<1>0. Len(s) \in Nat /\ DOMAIN s = 1 .. Len(s)
  BY LenProperties
<1>1. before \in Seq(S) /\ Len(before) = i - 1 /\ \A j \in 1 .. i - 1 : before[j] = s[j]
  BY <1>0, SubSeqProperties, ElementOfSeq
<1>2. /\ after \in Seq(S) /\ Len(after) = Len(s) + 1 - i
      /\ \A j \in 1 .. Len(s) + 1 - i : after[j] = s[i + j - 1]
  BY <1>0, SubSeqProperties, ElementOfSeq
<1>3. InsertAt(s, i, e) = (before \o <<e>>) \o after
  BY DEF InsertAt
<1> HIDE DEF before, after
<1>4. <<e>> \in Seq(S) /\ Len(<<e>>) = 1 /\ <<e>>[1] = e
  OBVIOUS
<1>5. /\ before \o <<e>> \in Seq(S) /\ Len(before \o <<e>>) = i
      /\ \A j \in 1 .. i : (before \o <<e>>)[j] = IF j < i THEN s[j] ELSE e
  BY <1>0, <1>1, <1>4, ConcatProperties
<1> DEFINE front_part == before \o <<e>>
<1>6. \A j \in 1 .. Len(s) + 1 :
        (front_part \o after)[j] = IF j <= i THEN front_part[j] ELSE after[j - i]
  <2> HIDE DEF front_part
  <2> QED
    BY <1>0, <1>2, <1>5, ConcatProperties DEF front_part
<1> SUFFICES ASSUME NEW j \in 1 .. Len(s) + 1
             PROVE  InsertAt(s, i, e)[j] = IF j < i THEN s[j] ELSE IF j = i THEN e ELSE s[j - 1]
  OBVIOUS
<1>7. InsertAt(s, i, e)[j] = IF j <= i THEN front_part[j] ELSE after[j - i]
  BY <1>3, <1>6
<1>8. CASE j <= i
  BY <1>5, <1>7, <1>8
<1>9. CASE j > i
  <2>1. j - i \in 1 .. Len(s) + 1 - i /\ i + (j - i) - 1 = j - 1
    BY <1>0, <1>9
  <2> QED
    BY <1>0, <1>2, <1>7, <1>9, <2>1
<1> QED
  BY <1>0, <1>8, <1>9

(* The items of a ring and its front, by position.                          *)
LEMMA RingFacts ==
  ASSUME NEW S, NEW q, Algo = "RR", QueueOK(q, S)
  PROVE  /\ q.ring \in Seq(S) /\ Len(q.ring) \in Nat /\ DOMAIN q.ring = 1 .. Len(q.ring)
         /\ QueueItems(q) = {q.ring[i] : i \in 1 .. Len(q.ring)}
         /\ is_empty(q) <=> Len(q.ring) = 0
         /\ is_empty(q) <=> q.ring = <<>>
         /\ ~is_empty(q) => front(q) = q.ring[1] /\ q.tail \in 1 .. Len(q.ring)
<1>1. /\ q.ring \in Seq(S) /\ Len(q.ring) \in Nat /\ DOMAIN q.ring = 1 .. Len(q.ring)
      /\ q.ring = <<>> <=> Len(q.ring) = 0
  BY EmptySeq, LenProperties DEF QueueOK, RingOK
<1>2. QueueItems(q) = {q.ring[i] : i \in 1 .. Len(q.ring)}
  BY <1>1 DEF QueueItems
<1>3. is_empty(q) <=> Len(q.ring) = 0
  <2>1. CASE Len(q.ring) = 0
    BY <1>1, <1>2, <2>1 DEF is_empty
  <2>2. CASE Len(q.ring) # 0
    <3>1. q.ring[1] \in QueueItems(q)
      BY <1>1, <1>2, <2>2
    <3> QED
      BY <2>2, <3>1 DEF is_empty
  <2> QED
    BY <2>1, <2>2
<1>4. ~is_empty(q) => front(q) = q.ring[1] /\ q.tail \in 1 .. Len(q.ring)
  BY <1>1, <1>3, HeadTailProperties DEF front, QueueOK, RingOK
<1> QED
  BY <1>1, <1>2, <1>3, <1>4

(* Enqueueing a process the ring does not hold adds it, leaves the others   *)
(* once each, and leaves the front where it is.                             *)
LEMMA RingEnqueue ==
  ASSUME NEW S, NULL \notin S, NEW q, Algo = "RR", QueueOK(q, S), RingDistinct(q),
         NEW x \in S, x \notin QueueItems(q), NEW n
  PROVE  /\ QueueItems(enqueue(q, x, n)) = QueueItems(q) \cup {x}
         /\ RingDistinct(enqueue(q, x, n))
         /\ ~is_empty(q) => front(enqueue(q, x, n)) = front(q)
<1> DEFINE r == enqueue(q, x, n)
           L == Len(q.ring)
           k == q.tail + 1
<1>1. /\ q.ring \in Seq(S) /\ L \in Nat /\ DOMAIN q.ring = 1 .. L
      /\ QueueItems(q) = {q.ring[i] : i \in 1 .. L}
      /\ ~is_empty(q) => front(q) = q.ring[1] /\ q.tail \in 1 .. L
  BY RingFacts
<1>2. k \in 1 .. L + 1
  BY <1>1 DEF QueueOK, RingOK
<1>3. r.ring = InsertAt(q.ring, k, x) /\ QueueOK(r, S)
  BY EnqueueOK DEF enqueue, cq_enqueue
<1>4. Len(r.ring) = L + 1
  BY <1>1, <1>2, <1>3, InsertAtType
<1>5. \A j \in 1 .. L + 1 : r.ring[j] = IF j < k THEN q.ring[j] ELSE IF j = k THEN x ELSE q.ring[j - 1]
  BY <1>1, <1>2, <1>3, InsertAtItems
<1>6. /\ DOMAIN r.ring = 1 .. L + 1 /\ QueueItems(r) = {r.ring[i] : i \in 1 .. L + 1}
      /\ front(r) = r.ring[1]
  BY <1>1, <1>3, <1>4, RingFacts
<1> HIDE DEF r, L, k
<1>7. QueueItems(r) = QueueItems(q) \cup {x}
  <2>1. ASSUME NEW j \in 1 .. L + 1 PROVE r.ring[j] \in QueueItems(q) \cup {x}
    BY <1>1, <1>2, <1>5
  <2>2. x \in QueueItems(r)
    BY <1>2, <1>5, <1>6
  <2>3. ASSUME NEW j \in 1 .. L PROVE q.ring[j] \in QueueItems(r)
    <3>1. CASE j < k
      BY <1>1, <1>2, <1>5, <1>6, <3>1
    <3>2. CASE j >= k
      <4>1. j + 1 \in 1 .. L + 1 /\ r.ring[j + 1] = q.ring[j]
        BY <1>1, <1>2, <1>5, <3>2
      <4> QED
        BY <1>6, <4>1
    <3> QED
      BY <1>1, <1>2, <3>1, <3>2
  <2> QED
    BY <1>1, <1>6, <2>1, <2>2, <2>3
<1>8. RingDistinct(r)
  <2>1. \A j \in 1 .. L : q.ring[j] # x
    BY <1>1
  <2>2. \A i, j \in 1 .. L : q.ring[i] = q.ring[j] => i = j
    BY <1>1 DEF RingDistinct
  <2> SUFFICES ASSUME NEW i \in 1 .. L + 1, NEW j \in 1 .. L + 1, r.ring[i] = r.ring[j]
               PROVE  i = j
    BY <1>6 DEF RingDistinct
  <2> QED
    BY <1>1, <1>2, <1>5, <2>1, <2>2
<1>9. ~is_empty(q) => front(r) = front(q)
  BY <1>1, <1>5, <1>6 DEF k
<1> QED
  BY <1>7, <1>8, <1>9 DEF r

(* Dequeueing from the ring: with removal the front leaves it, without the  *)
(* ring holds what it held.                                                 *)
LEMMA RingDequeue ==
  ASSUME NEW S, NULL \notin S, NEW q, Algo = "RR", QueueOK(q, S), RingDistinct(q)
  PROVE  /\ \A r \in dequeue(q, TRUE) :
              RingDistinct(r) /\ QueueItems(r) = QueueItems(q) \ {front(q)}
         /\ \A r \in dequeue(q, FALSE) : RingDistinct(r) /\ QueueItems(r) = QueueItems(q)
<1> DEFINE L == Len(q.ring)
<1>1. /\ q.ring \in Seq(S) /\ L \in Nat /\ DOMAIN q.ring = 1 .. L
      /\ QueueItems(q) = {q.ring[i] : i \in 1 .. L}
      /\ is_empty(q) <=> L = 0
      /\ is_empty(q) <=> q.ring = <<>>
      /\ ~is_empty(q) => front(q) = q.ring[1] /\ q.tail \in 1 .. L
  BY RingFacts
<1>2. \A i, j \in 1 .. L : q.ring[i] = q.ring[j] => i = j
  BY <1>1 DEF RingDistinct
<1>3. CASE is_empty(q)
  BY <1>1, <1>3 DEF dequeue, cq_dequeue, cq_dequeue_and_remove, is_empty
<1>4. CASE ~is_empty(q)
  <2>0. L \in Nat \ {0} /\ q.ring # <<>>
    BY <1>1, <1>4
  <2>1. /\ Tail(q.ring) \in Seq(S) /\ Len(Tail(q.ring)) = L - 1
        /\ \A i \in 1 .. L - 1 : Tail(q.ring)[i] = q.ring[i + 1]
        /\ Head(q.ring) = q.ring[1] /\ Head(q.ring) \in S
    BY <1>1, <2>0, HeadTailProperties
  <2>2. /\ Append(Tail(q.ring), Head(q.ring)) \in Seq(S)
        /\ Len(Append(Tail(q.ring), Head(q.ring))) = L
        /\ \A i \in 1 .. L - 1 : Append(Tail(q.ring), Head(q.ring))[i] = q.ring[i + 1]
        /\ Append(Tail(q.ring), Head(q.ring))[L] = q.ring[1]
    <3> DEFINE rest == Tail(q.ring)
               h == Head(q.ring)
    <3>1. rest \in Seq(S) /\ Len(rest) = L - 1 /\ h \in S /\ L \in Nat \ {0}
      BY <2>0, <2>1
    <3> HIDE DEF rest, h, L
    <3>2. /\ Append(rest, h) \in Seq(S) /\ Len(Append(rest, h)) = L
          /\ \A i \in 1 .. L - 1 : Append(rest, h)[i] = rest[i]
          /\ Append(rest, h)[L] = h
      BY <3>1, AppendProperties
    <3> QED
      BY <2>1, <3>2 DEF rest, h
  <2>3. ASSUME NEW r \in dequeue(q, TRUE)
        PROVE  RingDistinct(r) /\ QueueItems(r) = QueueItems(q) \ {front(q)}
    <3>0. QueueOK(r, S)
      BY DequeueOK
    <3>1. r.ring = Tail(q.ring) /\ QueueOK(r, S)
      BY <2>0, <3>0 DEF dequeue, cq_dequeue_and_remove
    <3>2. DOMAIN r.ring = 1 .. L - 1 /\ QueueItems(r) = {r.ring[i] : i \in 1 .. L - 1}
      BY <2>1, <3>1, RingFacts
    <3>3. \A i \in 1 .. L - 1 : r.ring[i] = q.ring[i + 1]
      BY <2>1, <3>1
    <3> HIDE DEF L
    <3>4. RingDistinct(r)
      BY <1>2, <2>0, <3>2, <3>3 DEF RingDistinct
    <3>5. ASSUME NEW i \in 1 .. L, i # 1 PROVE q.ring[i] \in QueueItems(r)
      <4>1. i - 1 \in 1 .. L - 1 /\ q.ring[i] = r.ring[i - 1]
        BY <2>0, <3>3, <3>5
      <4> QED
        BY <3>2, <4>1
    <3>6. ASSUME NEW i \in 1 .. L - 1 PROVE r.ring[i] \in QueueItems(q) \ {q.ring[1]}
      <4>1. i + 1 \in 1 .. L /\ 1 \in 1 .. L /\ i + 1 # 1
        BY <2>0
      <4> QED
        BY <1>1, <1>2, <3>3, <4>1
    <3> QED
      BY ZenonT(40), <1>1, <1>4, <3>2, <3>4, <3>5, <3>6
  <2>4. ASSUME NEW r \in dequeue(q, FALSE)
        PROVE  RingDistinct(r) /\ QueueItems(r) = QueueItems(q)
    <3>1. r.ring = Append(Tail(q.ring), Head(q.ring)) /\ QueueOK(r, S)
      BY <2>0, DequeueOK DEF dequeue, cq_dequeue
    <3>2. DOMAIN r.ring = 1 .. L /\ QueueItems(r) = {r.ring[i] : i \in 1 .. L}
      BY <2>2, <3>1, RingFacts
    <3>3. \A i \in 1 .. L : r.ring[i] = IF i = L THEN q.ring[1] ELSE q.ring[i + 1]
      BY <2>0, <2>2, <3>1
    <3> HIDE DEF L
    <3>4. RingDistinct(r)
      <4> SUFFICES ASSUME NEW i \in 1 .. L, NEW j \in 1 .. L, r.ring[i] = r.ring[j]
                   PROVE  i = j
        BY <3>2 DEF RingDistinct
      <4> DEFINE at(m) == IF m = L THEN 1 ELSE m + 1
      <4>1. at(i) \in 1 .. L /\ at(j) \in 1 .. L /\ q.ring[at(i)] = q.ring[at(j)]
        BY <2>0, <3>3
      <4>2. at(i) = at(j)
        BY <1>2, <4>1
      <4> QED
        BY <2>0, <4>2
    <3>5. ASSUME NEW i \in 1 .. L PROVE q.ring[i] \in QueueItems(r)
      <4>1. CASE i = 1
        BY <2>0, <3>2, <3>3, <4>1
      <4>2. CASE i # 1
        <5>1. i - 1 \in 1 .. L /\ r.ring[i - 1] = q.ring[i]
          BY <2>0, <3>3, <4>2
        <5> QED
          BY <3>2, <5>1
      <4> QED
        BY <4>1, <4>2
    <3>6. ASSUME NEW i \in 1 .. L PROVE r.ring[i] \in QueueItems(q)
      <4>1. CASE i = L
        BY <1>1, <2>0, <3>3, <4>1
      <4>2. CASE i # L
        <5>1. i + 1 \in 1 .. L
          BY <2>0, <4>2
        <5> QED
          BY <1>1, <3>3, <4>2, <5>1
      <4> QED
        BY <4>1, <4>2
    <3> QED
      BY ZenonT(40), <1>1, <3>2, <3>4, <3>5, <3>6
  <2> QED
    BY <2>3, <2>4
<1> QED
  BY <1>3, <1>4

(* A priority queue whose root has the least priority keeps it so; the     *)
(* priorities of the other items stay as they are.                          *)
LEMMA HeapEnqueue ==
  ASSUME NEW S, NULL \notin S, NEW q, Algo # "RR", QueueOK(q, S), TopLeast(q),
         \A i \in QueueItems(q) : q.prio[i] \in Int,
         NEW x \in S, x \notin QueueItems(q), NEW n \in Int
  PROVE  /\ TopLeast(enqueue(q, x, n))
         /\ enqueue(q, x, n).prio[x] = n
         /\ \A i \in QueueItems(q) : enqueue(q, x, n).prio[i] = q.prio[i]
         /\ ~is_empty(q) => front(enqueue(q, x, n)) = IF n < q.prio[front(q)] THEN x ELSE front(q)
<1> DEFINE r == enqueue(q, x, n)
<1>1. /\ r.prio = [i \in DOMAIN q.prio \cup {x} |-> IF i = x THEN n ELSE q.prio[i]]
      /\ r.top = IF q.top = NULL \/ n < q.prio[q.top] THEN x ELSE q.top
  BY DEF enqueue, pq_enqueue
<1>2. QueueItems(q) = DOMAIN q.prio /\ front(q) = q.top /\ front(r) = r.top
  BY DEF QueueItems, front
<1>3. IF DOMAIN q.prio = {} THEN q.top = NULL
                            ELSE q.top # NULL /\ q.top \in Least(q.prio)
  BY DEF TopLeast, Roots, QueueOK, HeapOK
<1> HIDE DEF r
<1>4. DOMAIN r.prio = DOMAIN q.prio \cup {x}
  BY <1>1
<1>5. r.top \in Least(r.prio)
  BY <1>1, <1>2, <1>3, <1>4 DEF Least
<1>6. TopLeast(r)
  BY <1>4, <1>5 DEF TopLeast, Roots
<1>7. r.prio[x] = n /\ \A i \in QueueItems(q) : r.prio[i] = q.prio[i]
  BY <1>1, <1>2
<1>8. ~is_empty(q) => front(r) = IF n < q.prio[front(q)] THEN x ELSE front(q)
  BY <1>1, <1>2, <1>3 DEF is_empty
<1> QED
  BY <1>6, <1>7, <1>8 DEF r

(* Taking the root out of a priority queue brings an item of least priority *)
(* to the root.                                                             *)
LEMMA HeapDequeue ==
  ASSUME NEW S, NEW q, Algo # "RR", QueueOK(q, S), NEW r \in dequeue(q, TRUE)
  PROVE  TopLeast(r) /\ \A i \in QueueItems(r) : r.prio[i] = q.prio[i]
<1> DEFINE rest == Restrict(q.prio, DOMAIN q.prio \ {q.top})
<1>1. PICK t \in Roots(rest) : r = [prio |-> rest, top |-> t]
  BY DEF dequeue, pq_dequeue
<1>2. rest = [i \in DOMAIN q.prio \ {q.top} |-> q.prio[i]]
  BY DEF Restrict
<1> HIDE DEF rest
<1> QED
  BY <1>1, <1>2 DEF TopLeast, QueueItems

(* Lowering the priority of the root of a priority queue leaves it there.   *)
LEMMA HeapChangePriority ==
  ASSUME NEW S, NULL \notin S, NEW q, Algo # "RR", QueueOK(q, S), TopLeast(q), ~is_empty(q),
         \A i \in QueueItems(q) : q.prio[i] \in Int,
         NEW n \in Int, n <= q.prio[front(q)], NEW r \in change_priority(q, n)
  PROVE  /\ TopLeast(r) /\ front(r) = front(q)
         /\ r.prio[front(q)] = n
         /\ \A i \in QueueItems(q) \ {front(q)} : r.prio[i] = q.prio[i]
<1> DEFINE changed == [q.prio EXCEPT ![q.top] = n]
<1>1. q.top # NULL /\ q.top \in DOMAIN q.prio /\ q.top \in Least(q.prio)
  BY DEF TopLeast, Roots, is_empty, QueueItems, QueueOK, HeapOK, Least
<1>2. r \in {[prio |-> changed, top |-> t] :
              t \in IF q.top \in Least(changed) THEN {q.top} ELSE Least(changed)}
  BY <1>1 DEF change_priority, pq_change_priority
<1>3. /\ DOMAIN changed = DOMAIN q.prio
      /\ changed[q.top] = n
      /\ \A i \in DOMAIN q.prio \ {q.top} : changed[i] = q.prio[i]
  BY <1>1
<1> HIDE DEF changed
<1>4. q.top \in Least(changed)
  BY <1>1, <1>3 DEF Least, QueueItems, front
<1>5. r = [prio |-> changed, top |-> q.top]
  BY <1>2, <1>4
<1> QED
  BY <1>1, <1>3, <1>4, <1>5 DEF TopLeast, Roots, QueueItems, front
-----------------------------------------------------------------------------
(* Any machine                                                              *)

(* schedule_next_process takes a process from a queue that is not empty and *)
(* leaves the queue well formed.                                            *)
LEMMA ScheduleOK ==
  ASSUME TypeOK, NEW back \in {"check", "nomore"}, schedule_next_process(back)
  PROVE  /\ front(ready_queue) \in Procs
         /\ front(ready_queue) \in QueueItems(ready_queue)
         /\ current_pcb' = front(ready_queue)
         /\ QueueOK(ready_queue', Procs)
         /\ state' \in [Procs -> {"unset", "started", "resumed", "stopped", "finished"}]
         /\ pc' = "cont" /\ ret' = back
<1>1. QueueOK(ready_queue, Procs) /\ ~is_empty(ready_queue)
  BY DEF TypeOK, schedule_next_process
<1>2. front(ready_queue) \in Procs /\ front(ready_queue) \in QueueItems(ready_queue)
  BY <1>1, FrontItem
<1>3. QueueOK(ready_queue', Procs)
  <2>1. CASE Algo = "HPF"
    BY <1>1, <2>1, DequeueOK, ProcsAssumption DEF schedule_next_process
  <2>2. CASE Algo # "HPF"
    BY <1>1, <2>2 DEF schedule_next_process
  <2> QED
    BY <2>1, <2>2
<1> QED
  BY <1>2, <1>3 DEF TypeOK, schedule_next_process

(* run_scheduler starts, with nothing forked, in a well-typed state.        *)
LEMMA TypeInit == Init => TypeOK
<1> SUFFICES ASSUME Init PROVE TypeOK
  OBVIOUS
<1>1. QueueOK(ready_queue, Procs)
  BY InitQueue DEF Init
<1>2. inbox \in Seq(Procs)
  BY EmptySeq DEF Init
<1>3. Runtime \in [Procs -> Nat] /\ Runtime \in [Procs -> Int]
  BY RuntimeAssumption
<1>4. /\ stopped \in [Procs -> BOOLEAN]
      /\ fresh \in [Procs -> BOOLEAN]
      /\ no_more_processes \in BOOLEAN
  BY DEF Init
<1>5. /\ phase \in [Procs -> {"unborn", "init", "raised", "loop", "exited"}]
      /\ psig \in [Procs -> {"none", "stop", "cont"}]
      /\ state \in [Procs -> {"unset", "started", "resumed", "stopped", "finished"}]
  BY DEF Init
<1>6. left \in [Procs -> Nat] /\ remaining_time \in [Procs -> Int]
  BY <1>3 DEF Init
<1> QED
  BY <1>1, <1>2, <1>4, <1>5, <1>6 DEF Init, TypeOK, Steps

(* No step of the scheduler, its handlers, a process, the generator or the  *)
(* clock breaks a type.                                                     *)
LEMMA TypeStep == TypeOK /\ [Next]_vars => TypeOK'
<1> SUFFICES ASSUME TypeOK, [Next]_vars PROVE TypeOK'
  OBVIOUS
<1>1. CASE UNCHANGED vars
  BY <1>1 DEF TypeOK, vars, procVars, msgVars, schVars, pcbVars
<1>2. ASSUME NEW p \in Procs, Spawn(p) PROVE TypeOK'
  BY <1>2 DEF TypeOK, Spawn, schVars, pcbVars
<1>3. ASSUME NEW p \in Procs, Process(p) PROVE TypeOK'
  <2>1. CASE RaiseStop(p)
    BY <2>1 DEF TypeOK, RaiseStop, msgVars, schVars, pcbVars
  <2>2. CASE TakeStop(p)
    BY <2>2 DEF TypeOK, TakeStop, msgVars, schVars, pcbVars
  <2>3. CASE handle_sigcont(p)
    BY <2>3 DEF TypeOK, handle_sigcont, msgVars, schVars, pcbVars
  <2>4. CASE PollTick(p)
    BY <2>4 DEF TypeOK, PollTick, TickSignal, msgVars, schVars, pcbVars
  <2>5. CASE ExitProcess(p)
    BY <2>5 DEF TypeOK, ExitProcess, msgVars, schVars, pcbVars
  <2> QED
    BY <1>3, <2>1, <2>2, <2>3, <2>4, <2>5 DEF Process
<1>4. CASE SendNoMore
  BY <1>4 DEF TypeOK, SendNoMore, procVars, schVars, pcbVars
<1>5. CASE Tick
  BY <1>5 DEF TypeOK, Tick, Running, msgVars, schVars, pcbVars
<1>6. CASE SchedulerLoop
  <2>1. CASE NextTurn
    BY <1>6, <2>1 DEF TypeOK, NextTurn, Go, Steps, procVars, msgVars, schVars, pcbVars
  <2>2. CASE check_for_new_processes
    <3>1. CASE inbox = <<>>
      BY <2>2, <3>1 DEF TypeOK, check_for_new_processes, Go, Steps, procVars, pcbVars
    <3>2. CASE inbox # <<>>
      <4>1. Head(inbox) \in Procs /\ Tail(inbox) \in Seq(Procs)
        BY <3>2, HeadTailProperties DEF TypeOK
      <4>2. QueueOK(ready_queue', Procs)
        BY <2>2, <3>2, <4>1, EnqueueOK, ProcsAssumption DEF TypeOK, check_for_new_processes
      <4>3. pc' \in Steps /\ ret' = ret /\ inbox' = Tail(inbox)
        BY <2>2, <3>2 DEF check_for_new_processes, Go, Steps
      <4> QED
        BY <2>2, <4>1, <4>2, <4>3 DEF TypeOK, check_for_new_processes, procVars, pcbVars
    <3> QED
      BY <3>1, <3>2
  <2>3. CASE Dispatch
    <3>1. CASE schedule_next_process("check")
      BY <2>3, <3>1, ScheduleOK DEF TypeOK, Dispatch, Steps, procVars, msgVars
    <3>2. CASE ~schedule_next_process("check")
      BY <2>3, <3>2 DEF TypeOK, Dispatch, Go, Steps, procVars, msgVars
    <3> QED
      BY <3>1, <3>2
  <2>4. CASE ContinueProcess
    BY <2>4 DEF TypeOK, ContinueProcess, kill_SIGCONT, Go, Steps, msgVars, schVars, pcbVars
  <2>5. CASE MarkStart
    BY <2>5 DEF TypeOK, MarkStart, Go, Steps, procVars, msgVars, pcbVars
  <2>6. CASE handle_current_running_process
    <3>1. CASE schedule_next_process("nomore")
      BY <2>6, <3>1, ScheduleOK DEF TypeOK, handle_current_running_process, Steps, procVars, msgVars
    <3>2. CASE ~schedule_next_process("nomore")
      BY <2>6, <3>2 DEF TypeOK, handle_current_running_process, Go, Steps, procVars, msgVars
    <3> QED
      BY <3>1, <3>2
  <2>7. CASE ClipRemaining
    BY <2>7, QuantumAssumption DEF TypeOK, ClipRemaining, QuantumEnd, Go, Steps, procVars, msgVars
  <2>8. CASE TestPreempted
    BY <2>8 DEF TypeOK, TestPreempted, Go, Steps, procVars, msgVars, schVars, pcbVars
  <2>9. CASE StopProcess
    BY <2>9 DEF TypeOK, StopProcess, kill_SIGSTOP, Go, Steps, msgVars, schVars, pcbVars
  <2>10. CASE DropCurrent
    BY <2>10 DEF TypeOK, DropCurrent, Go, Steps, procVars, msgVars
  <2>11. CASE RotateQueue
    <3>1. QueueOK(ready_queue', Procs)
      BY <2>11, DequeueOK, ProcsAssumption DEF TypeOK, RotateQueue
    <3> QED
      BY <2>11, <3>1 DEF TypeOK, RotateQueue, Go, Steps, procVars, msgVars, pcbVars
  <2>12. CASE check_no_more_processes
    BY <2>12 DEF TypeOK, check_no_more_processes, Go, Steps, procVars, pcbVars
  <2>13. CASE CompareCurrent
    BY <2>13 DEF TypeOK, CompareCurrent, Go, Steps, procVars, msgVars, schVars, pcbVars
  <2> QED
    BY <1>6, <2>1, <2>2, <2>3, <2>4, <2>5, <2>6, <2>7, <2>8, <2>9, <2>10, <2>11, <2>12, <2>13
       DEF SchedulerLoop
<1>7. CASE handle_process_termination
  <2>1. QueueOK(ready_queue', Procs)
    BY <1>7, DequeueOK, ProcsAssumption DEF TypeOK, handle_process_termination
  <2>2. CASE current_pcb = NULL
    BY <1>7, <2>1, <2>2 DEF TypeOK, handle_process_termination, Go, Steps, procVars, msgVars, pcbVars
  <2>3. CASE current_pcb # NULL
    BY <1>7, <2>1, <2>3 DEF TypeOK, handle_process_termination, procVars, msgVars
  <2> QED
    BY <2>2, <2>3
<1>8. CASE handle_process_tick
  <2>1. QueueOK(ready_queue', Procs)
    BY <1>8, ChangePriorityOK DEF TypeOK, handle_process_tick
  <2> QED
    BY <1>8, <2>1 DEF TypeOK, handle_process_tick, Go, Steps, procVars, msgVars
<1> QED
  BY <1>1, <1>2, <1>3, <1>4, <1>5, <1>6, <1>7, <1>8 DEF Next

(* Every variable of the simulation keeps its type, under every algorithm:  *)
(* in particular the ready queue stays well formed through every operation  *)
(* of the loop and of the handlers.                                         *)
THEOREM TypeCorrect == Spec => []TypeOK
<1>1. Init => TypeOK
  BY TypeInit
<1>2. TypeOK /\ [Next]_vars => TypeOK'
  BY TypeStep
<1> QED
  BY <1>1, <1>2, PTL DEF Spec
-----------------------------------------------------------------------------
(* Highest priority first                                                   *)

(* Nobody but the current process can have work left and be running.        *)
LEMMA RunningIsCurrent ==
  ASSUME HPFInv, NEW p \in Procs, phase[p] \notin {"unborn", "init", "raised"}, left[p] # 0
  PROVE  current_pcb = p
BY DEF HPFInv, Lifecycle

(* Receiving the PCB at the head of the inbox takes it out of the inbox.    *)
LEMMA InboxTail ==
  ASSUME TypeOK, InboxDistinct, inbox # <<>>, inbox' = Tail(inbox)
  PROVE  /\ Head(inbox) \in Procs
         /\ InboxDistinct'
         /\ \A p : InInbox(p)' <=> InInbox(p) /\ p # Head(inbox)
         /\ InInbox(Head(inbox))
<1>1. /\ inbox \in Seq(Procs) /\ Len(inbox) \in Nat \ {0} /\ DOMAIN inbox = 1 .. Len(inbox)
      /\ Head(inbox) = inbox[1] /\ inbox[1] \in Procs
  BY EmptySeq, LenProperties, HeadTailProperties DEF TypeOK
<1>2. /\ DOMAIN inbox' = 1 .. Len(inbox) - 1
      /\ \A i \in 1 .. Len(inbox) - 1 : inbox'[i] = inbox[i + 1]
  BY <1>1, HeadTailProperties, LenProperties
<1>3. InboxDistinct'
  BY <1>1, <1>2 DEF InboxDistinct
<1>4. ASSUME NEW p PROVE InInbox(p)' <=> InInbox(p) /\ p # inbox[1]
  <2>1. ASSUME NEW i \in 1 .. Len(inbox), inbox[i] = p, p # inbox[1]
        PROVE  i - 1 \in DOMAIN inbox' /\ inbox'[i - 1] = p
    BY <1>1, <1>2, <2>1
  <2>2. ASSUME NEW i \in DOMAIN inbox', inbox'[i] = p
        PROVE  i + 1 \in DOMAIN inbox /\ inbox[i + 1] = p /\ i + 1 # 1
    BY <1>1, <1>2, <2>2
  <2>3. ASSUME InInbox(p), p # inbox[1] PROVE InInbox(p)'
    BY <1>1, <2>1, <2>3 DEF InInbox
  <2>4. ASSUME InInbox(p)' PROVE InInbox(p) /\ p # inbox[1]
    <3>1. PICK i \in DOMAIN inbox' : inbox'[i] = p
      BY <2>4 DEF InInbox
    <3>2. i + 1 \in DOMAIN inbox /\ inbox[i + 1] = p /\ i + 1 # 1
      BY <2>2, <3>1
    <3> QED
      BY <1>1, <3>2 DEF InInbox, InboxDistinct
  <2> QED
    BY <2>3, <2>4
<1> QED
  BY <1>1, <1>3, <1>4 DEF InInbox

(* A step of the CPU, the clock or a process that leaves the messages, the  *)
(* queue and the PCBs alone keeps every process's lifecycle, if it keeps    *)
(* what an unset and a finished state promise.                              *)
LEMMA LifecycleKept ==
  ASSUME HPFInv, UNCHANGED <<inbox, ready_queue, current_pcb, state>>, NEW p \in Procs,
         phase'[p] = "unborn" <=> phase[p] = "unborn",
         state[p] = "unset" => phase'[p] \in {"unborn", "init", "raised"} /\ psig'[p] = "none",
         left'[p] = left[p] \/ (left'[p] = left[p] - 1 /\ state[p] # "finished")
  PROVE  Lifecycle(p)'
BY DEF HPFInv, Lifecycle, InInbox, Waiting, Received

(* A step that changes nothing a lifecycle speaks of keeps it.              *)
LEMMA LifecycleUnchanged ==
  ASSUME HPFInv, UNCHANGED <<inbox, ready_queue, current_pcb, state>>, NEW p \in Procs,
         phase'[p] = phase[p], psig'[p] = psig[p], left'[p] = left[p]
  PROVE  Lifecycle(p)'
<1>1. state[p] = "unset" => phase[p] \in {"unborn", "init", "raised"} /\ psig[p] = "none"
  BY DEF HPFInv, Lifecycle
<1> QED
  BY <1>1, LifecycleKept

(* What dispatching the process at the front of the queue does to them all. *)
LEMMA DispatchKeeps ==
  ASSUME Algo = "HPF", HPFInv, NEW back \in {"check", "nomore"}, schedule_next_process(back),
         current_pcb = NULL, UNCHANGED <<procVars, inbox, sigs>>
  PROVE  NothingPreempted' /\ OwnSignal' /\ InboxDistinct' /\ \A p \in Procs : Lifecycle(p)'
<1>0. PICK c \in Procs : c = front(ready_queue)
  BY ScheduleOK DEF HPFInv
<1>1. /\ c \in Procs /\ Waiting(c) /\ current_pcb' = c /\ pc' = "cont"
      /\ state' \in [Procs -> {"unset", "started", "resumed", "stopped", "finished"}]
  BY <1>0, ScheduleOK DEF HPFInv, Waiting
<1>2. QueueItems(ready_queue') = QueueItems(ready_queue) \ {c}
  BY <1>0, HeapItems DEF HPFInv, TypeOK, schedule_next_process
<1>3. /\ state[c] = "unset" /\ phase[c] # "unborn" /\ ~InInbox(c)
      /\ state'[c] = "started"
      /\ \A p \in Procs \ {c} : state'[p] = state[p]
  BY <1>0, <1>1 DEF HPFInv, Lifecycle, TypeOK, schedule_next_process
<1>4. NothingPreempted' /\ OwnSignal' /\ InboxDistinct'
  BY <1>1 DEF HPFInv, NothingPreempted, OwnSignal, InboxDistinct, procVars
<1>5. Lifecycle(c)'
  <2>1. ~Waiting(c)' /\ ~InInbox(c)' /\ phase'[c] # "unborn" /\ state'[c] = "started" /\ current_pcb' = c
    BY <1>1, <1>2, <1>3 DEF Waiting, InInbox, procVars
  <2> QED
    BY <2>1 DEF Lifecycle
<1>6. ASSUME NEW p \in Procs \ {c} PROVE Lifecycle(p)'
  <2>1. current_pcb # p /\ current_pcb' # p
    BY <1>1, ProcsAssumption
  <2>2. Waiting(p)' <=> Waiting(p)
    BY <1>2 DEF Waiting
  <2>3. /\ InInbox(p)' <=> InInbox(p)
        /\ Received(p)' <=> Received(p)
    BY DEF InInbox, Received, procVars
  <2> QED
    BY <1>3, <2>1, <2>2, <2>3 DEF HPFInv, Lifecycle, procVars
<1>7. \A p \in Procs : Lifecycle(p)'
  BY <1>5, <1>6
<1> QED
  BY <1>4, <1>7

(* Every step keeps the invariant of HPF: one case per action, and per      *)
(* action what it does to each process's lifecycle.                         *)
LEMMA HPFStep ==
  ASSUME Algo = "HPF", HPFInv, [Next]_vars
  PROVE  HPFInv'
<1> DEFINE Goal == NothingPreempted' /\ OwnSignal' /\ InboxDistinct' /\ \A p \in Procs : Lifecycle(p)'
<1> USE ProcsAssumption
<1>0. TypeOK /\ TypeOK'
  BY TypeStep DEF HPFInv
<1> SUFFICES Goal
  BY <1>0 DEF HPFInv
<1>1. CASE UNCHANGED vars \/ SendNoMore \/ Tick
  <2>1. UNCHANGED <<phase, psig, left, inbox, ready_queue, current_pcb, state, pc, sigs>>
    BY <1>1 DEF vars, SendNoMore, Tick, procVars, schVars, pcbVars, msgVars
  <2>2. \A p \in Procs : Lifecycle(p)'
    BY <2>1, LifecycleUnchanged
  <2>3. NothingPreempted' /\ OwnSignal' /\ InboxDistinct'
    BY <2>1 DEF HPFInv, NothingPreempted, OwnSignal, InboxDistinct
  <2> QED
    BY <2>2, <2>3
<1>2. ASSUME NEW p \in Procs, Spawn(p) PROVE Goal
  <2>1. /\ phase[p] = "unborn" /\ phase' = [phase EXCEPT ![p] = "init"]
        /\ inbox' = Append(inbox, p) /\ inbox \in Seq(Procs) /\ ~InInbox(p)
    BY <1>0, <1>2 DEF Spawn, TypeOK, HPFInv, Lifecycle
  <2>2. /\ Len(inbox) \in Nat /\ DOMAIN inbox = 1 .. Len(inbox)
        /\ DOMAIN inbox' = 1 .. Len(inbox) + 1
        /\ inbox'[Len(inbox) + 1] = p
        /\ \A i \in 1 .. Len(inbox) : inbox'[i] = inbox[i]
    BY <2>1, LenProperties
  <2>3. \A q : InInbox(q)' <=> InInbox(q) \/ q = p
    BY <2>2 DEF InInbox
  <2>4. InboxDistinct'
    BY <2>1, <2>2 DEF HPFInv, InboxDistinct, InInbox
  <2>5. NothingPreempted' /\ OwnSignal'
    BY <1>2 DEF HPFInv, NothingPreempted, OwnSignal, Spawn, schVars
  <2>6. ASSUME NEW q \in Procs PROVE Lifecycle(q)'
    BY <1>0, <1>2, <2>1, <2>3 DEF HPFInv, Lifecycle, Waiting, Received, Spawn, TypeOK, schVars, pcbVars
  <2> QED
    BY <2>4, <2>5, <2>6
<1>3. ASSUME NEW p \in Procs, Process(p) PROVE Goal
  <2>1. UNCHANGED <<inbox, ready_queue, current_pcb, state, pc>>
    BY <1>3 DEF Process, RaiseStop, TakeStop, handle_sigcont, PollTick, TickSignal, ExitProcess,
                msgVars, schVars, pcbVars
  <2>2. psig[p] # "stop" /\ psig'[p] \in {psig[p], "none"}
    BY <1>0, <1>3 DEF HPFInv, NothingPreempted, TypeOK, Process, RaiseStop, TakeStop,
                handle_sigcont, PollTick, TickSignal, ExitProcess
  <2>3. \A q \in Procs \ {p} : phase'[q] = phase[q] /\ psig'[q] = psig[q] /\ left'[q] = left[q]
    BY SMTT(30), <1>0, <1>3 DEF TypeOK, Process, RaiseStop, TakeStop, handle_sigcont, PollTick, TickSignal, ExitProcess
  <2>4. /\ phase'[p] = "unborn" <=> phase[p] = "unborn"
        /\ state[p] = "unset" => phase'[p] \in {"unborn", "init", "raised"} /\ psig'[p] = "none"
        /\ left'[p] = left[p] \/ (left'[p] = left[p] - 1 /\ state[p] # "finished")
    <3>1. state[p] = "unset" => phase[p] \in {"unborn", "init", "raised"} /\ psig[p] = "none"
      BY DEF HPFInv, Lifecycle
    <3>2. state[p] = "finished" => left[p] = 0
      BY DEF HPFInv, Lifecycle
    <3>3. CASE RaiseStop(p)
      BY <1>0, <3>1, <3>3 DEF TypeOK, RaiseStop
    <3>4. CASE TakeStop(p)
      BY <2>2, <3>4 DEF TakeStop
    <3>5. CASE handle_sigcont(p)
      BY <1>0, <3>1, <3>5 DEF TypeOK, handle_sigcont
    <3>6. CASE PollTick(p)
      BY <1>0, <3>1, <3>2, <3>6 DEF TypeOK, PollTick
    <3>7. CASE ExitProcess(p)
      BY <1>0, <3>1, <3>7 DEF TypeOK, ExitProcess
    <3> QED
      BY <1>3, <3>3, <3>4, <3>5, <3>6, <3>7 DEF Process
  <2>5. ASSUME NEW q \in Procs PROVE Lifecycle(q)'
    <3>1. CASE q = p
      BY <2>1, <2>4, <3>1, LifecycleKept
    <3>2. CASE q # p
      BY <2>1, <2>3, <3>2, LifecycleUnchanged
    <3> QED
      BY <3>1, <3>2
  <2>6. NothingPreempted' /\ InboxDistinct'
    BY <2>1, <2>2, <2>3 DEF HPFInv, NothingPreempted, InboxDistinct
  <2>7. OwnSignal'
    <3>1. CASE PollTick(p)
      <4>1. phase[p] = "loop" /\ left[p] # 0
        BY <3>1 DEF PollTick
      <4>2. current_pcb = p
        BY <4>1, RunningIsCurrent
      <4> QED
        BY <1>0, <2>1, <3>1, <4>2 DEF HPFInv, OwnSignal, TypeOK, PollTick, TickSignal
    <3>2. CASE ~PollTick(p)
      BY <1>3, <2>1, <3>2 DEF HPFInv, OwnSignal, Process, RaiseStop, TakeStop, handle_sigcont, ExitProcess
    <3> QED
      BY <3>1, <3>2
  <2> QED
    BY <2>5, <2>6, <2>7
<1>4. CASE SchedulerLoop
  <2>1. CASE NextTurn \/ MarkStart \/ check_no_more_processes
    <3>1. UNCHANGED <<phase, psig, left, inbox, ready_queue, current_pcb, state, sigs>>
      BY <2>1 DEF NextTurn, MarkStart, check_no_more_processes, procVars, msgVars, schVars, pcbVars
    <3>2. pc' \in {"recv", "exit", "crash", "check", "nomore", "test"}
      BY <1>0, <2>1 DEF TypeOK, NextTurn, MarkStart, check_no_more_processes, Go
    <3>3. \A p \in Procs : Lifecycle(p)'
      BY <3>1, LifecycleUnchanged
    <3>4. NothingPreempted' /\ OwnSignal' /\ InboxDistinct'
      BY <3>1, <3>2 DEF HPFInv, NothingPreempted, OwnSignal, InboxDistinct
    <3> QED
      BY <3>3, <3>4
  <2>2. CASE check_for_new_processes
    <3>1. UNCHANGED <<phase, psig, left, current_pcb, state, sigs>> /\ pc' \in {"recv", "dispatch"}
      BY <2>2 DEF check_for_new_processes, Go, procVars, pcbVars
    <3>2. NothingPreempted' /\ OwnSignal'
      BY <3>1 DEF HPFInv, NothingPreempted, OwnSignal
    <3>3. CASE inbox = <<>>
      <4>1. UNCHANGED <<inbox, ready_queue>>
        BY <2>2, <3>3 DEF check_for_new_processes
      <4>2. \A p \in Procs : Lifecycle(p)'
        BY <3>1, <4>1, LifecycleUnchanged
      <4> QED
        BY <3>2, <4>1, <4>2 DEF HPFInv, InboxDistinct
    <3>4. CASE inbox # <<>>
      <4> DEFINE h == Head(inbox)
      <4>1. inbox' = Tail(inbox)
        BY <2>2, <3>4 DEF check_for_new_processes
      <4>2. /\ h \in Procs /\ InboxDistinct' /\ InInbox(h)
            /\ \A p : InInbox(p)' <=> InInbox(p) /\ p # h
        BY <1>0, <3>4, <4>1, InboxTail DEF HPFInv
      <4>3. /\ state[h] = "unset" /\ phase[h] # "unborn" /\ current_pcb # h /\ ~Waiting(h)
        BY <4>2 DEF HPFInv, Lifecycle
      <4>4. \A p : Waiting(p)' <=> Waiting(p) \/ (p = h /\ Runtime[h] > 0)
        <5>1. CASE Runtime[h] > 0
          <6>1. ready_queue' = enqueue(ready_queue, h, Key(h))
            BY <2>2, <3>4, <5>1 DEF check_for_new_processes
          <6>2. QueueItems(ready_queue') = QueueItems(ready_queue) \cup {h}
            BY <1>0, <6>1, HeapItems DEF TypeOK
          <6> QED
            BY <5>1, <6>2 DEF Waiting
        <5>2. CASE ~(Runtime[h] > 0)
          BY <2>2, <3>4, <5>2 DEF check_for_new_processes, Waiting
        <5> QED
          BY <5>1, <5>2
      <4> HIDE DEF h
      <4>5. ASSUME NEW p \in Procs PROVE Lifecycle(p)'
        BY <3>1, <4>2, <4>3, <4>4 DEF HPFInv, Lifecycle, Received
      <4> QED
        BY <3>2, <4>2, <4>5
    <3> QED
      BY <3>3, <3>4
  <2>3. CASE Dispatch \/ handle_current_running_process
    <3>1. UNCHANGED <<procVars, inbox, sigs>>
      BY <2>3 DEF Dispatch, handle_current_running_process, msgVars
    <3>2. CASE current_pcb = NULL /\ schedule_next_process("check")
      BY <3>1, <3>2, DispatchKeeps
    <3>3. CASE current_pcb = NULL /\ schedule_next_process("nomore")
      BY <3>1, <3>3, DispatchKeeps
    <3>4. CASE /\ UNCHANGED <<ready_queue, current_pcb, state>>
               /\ pc' \in {"check", "nomore"}
      <4>1. \A p \in Procs : Lifecycle(p)'
        BY <3>1, <3>4, LifecycleUnchanged DEF procVars
      <4> QED
        BY <3>1, <3>4, <4>1 DEF HPFInv, NothingPreempted, OwnSignal, InboxDistinct, procVars
    <3> QED
      BY <2>3, <3>2, <3>3, <3>4 DEF Dispatch, handle_current_running_process, ShorterWaiting, Go
  <2>4. CASE ContinueProcess
    <3>1. UNCHANGED <<phase, left, inbox, ready_queue, current_pcb, state, sigs>>
          /\ pc' \in {"mark", "crash"}
      BY <2>4 DEF ContinueProcess, Go, msgVars, schVars, pcbVars
    <3>2. \A p \in Procs : psig'[p] = psig[p] \/ (psig'[p] = "cont" /\ p = current_pcb)
      BY <1>0, <2>4 DEF TypeOK, ContinueProcess, kill_SIGCONT
    <3>3. NothingPreempted' /\ OwnSignal' /\ InboxDistinct'
      BY <3>1, <3>2 DEF HPFInv, NothingPreempted, OwnSignal, InboxDistinct
    <3>4. ASSUME NEW p \in Procs PROVE Lifecycle(p)'
      <4>1. state[p] = "unset" => /\ phase[p] \in {"unborn", "init", "raised"}
                                 /\ psig[p] = "none" /\ current_pcb # p
        BY DEF HPFInv, Lifecycle
      <4> QED
        BY <3>1, <3>2, <4>1, LifecycleKept
    <3> QED
      BY <3>3, <3>4
  <2>5. ~(CompareCurrent \/ ClipRemaining \/ TestPreempted \/ StopProcess \/ DropCurrent \/ RotateQueue)
    BY DEF HPFInv, NothingPreempted, CompareCurrent, ClipRemaining, TestPreempted, StopProcess,
           DropCurrent, RotateQueue
  <2> QED
    BY <1>4, <2>1, <2>2, <2>3, <2>4, <2>5 DEF SchedulerLoop
<1>5. CASE handle_process_termination
  <2>1. UNCHANGED <<phase, psig, left, inbox, ready_queue>> /\ "SIGUSR1" \in sigs /\ sigs' = {}
    BY <1>0, <1>5 DEF handle_process_termination, DequeuesAtTermination, TypeOK, procVars, msgVars
  <2>2. current_pcb \in Procs /\ left[current_pcb] = 0
    BY <1>0, <2>1 DEF HPFInv, OwnSignal, TypeOK
  <2>3. /\ current_pcb' = NULL /\ pc' = pc
        /\ state' = [state EXCEPT ![current_pcb] = "finished"]
    BY <1>5, <2>2 DEF handle_process_termination
  <2>4. NothingPreempted' /\ OwnSignal' /\ InboxDistinct'
    BY <2>1, <2>3 DEF HPFInv, NothingPreempted, OwnSignal, InboxDistinct
  <2>5. ASSUME NEW p \in Procs PROVE Lifecycle(p)'
    <3>1. (InInbox(p)' <=> InInbox(p)) /\ (Waiting(p)' <=> Waiting(p)) /\ (Received(p)' <=> Received(p))
      BY <2>1 DEF InInbox, Waiting, Received
    <3>2. current_pcb' # p
      BY <2>3
    <3>3. CASE p = current_pcb
      <4>1. state'[p] = "finished"
        BY <1>0, <2>3, <3>3 DEF TypeOK
      <4>2. phase[p] # "unborn" /\ ~InInbox(p) /\ ~Waiting(p)
        BY <3>3 DEF HPFInv, Lifecycle
      <4> QED
        BY <2>1, <2>2, <3>1, <3>2, <3>3, <4>1, <4>2 DEF Lifecycle
    <3>4. CASE p # current_pcb
      <4>1. state'[p] = state[p]
        BY <1>0, <2>3, <3>4 DEF TypeOK
      <4> QED
        BY <2>1, <3>1, <3>2, <3>4, <4>1 DEF HPFInv, Lifecycle
    <3> QED
      BY <3>3, <3>4
  <2> QED
    BY <2>4, <2>5
<1>6. CASE handle_process_tick
  <2>1. /\ UNCHANGED <<phase, psig, left, inbox, ready_queue, current_pcb, state>>
        /\ sigs' \subseteq sigs /\ pc' \in {pc, "crash"}
    BY <1>6 DEF handle_process_tick, Go, procVars, msgVars
  <2>2. \A p \in Procs : Lifecycle(p)'
    BY <2>1, LifecycleUnchanged
  <2>3. NothingPreempted' /\ OwnSignal' /\ InboxDistinct'
    BY <2>1 DEF HPFInv, NothingPreempted, OwnSignal, InboxDistinct
  <2> QED
    BY <2>2, <2>3
<1> QED
  BY <1>1, <1>2, <1>3, <1>4, <1>5, <1>6 DEF Next

(* The invariant of HPF holds when nothing has been forked yet.             *)
LEMMA HPFInit == Init => HPFInv
<1> SUFFICES ASSUME Init PROVE HPFInv
  OBVIOUS
<1>1. TypeOK
  BY TypeInit
<1>2. QueueItems(ready_queue) = {}
  BY InitQueue DEF Init
<1>3. ASSUME NEW p \in Procs PROVE Lifecycle(p)
  BY <1>2, ProcsAssumption DEF Init, Lifecycle, InInbox, Waiting, Received
<1> QED
  BY <1>1, <1>3 DEF Init, HPFInv, NothingPreempted, OwnSignal, InboxDistinct

(* The invariant of HPF holds on any machine, however its steps interleave. *)
THEOREM HPFInvariant == ASSUME Algo = "HPF" PROVE Spec => []HPFInv
<1>1. Init => HPFInv
  BY HPFInit
<1>2. HPFInv /\ [Next]_vars => HPFInv'
  BY HPFStep
<1> QED
  BY <1>1, <1>2, PTL DEF Spec

(* Under HPF no two processes that have work left run at the same time.     *)
THEOREM HPFOneAtATime == ASSUME Algo = "HPF" PROVE Spec => []OneAtATime
<1>1. HPFInv => OneAtATime
  <2> SUFFICES ASSUME HPFInv, NEW p \in Procs, NEW q \in Procs,
                      Running(p), left[p] > 0, Running(q), left[q] > 0
               PROVE  p = q
    BY DEF OneAtATime
  <2>1. phase[p] = "loop" /\ left[p] # 0 /\ phase[q] = "loop" /\ left[q] # 0
    BY DEF Running
  <2>2. current_pcb = p /\ current_pcb = q
    BY <2>1, RunningIsCurrent
  <2> QED
    BY <2>2
<1> QED
  BY <1>1, HPFInvariant, PTL

(* Under HPF the scheduler marks a process finished only when the process   *)
(* has used its whole runtime.                                              *)
THEOREM HPFFinishedMeansDone == ASSUME Algo = "HPF" PROVE Spec => []FinishedMeansDone
<1>1. HPFInv => FinishedMeansDone
  BY DEF HPFInv, Lifecycle, FinishedMeansDone
<1> QED
  BY <1>1, HPFInvariant, PTL

(* Under HPF every process whose PCB was accepted is queued or current      *)
(* exactly until it is finished.                                            *)
THEOREM HPFNothingLost == ASSUME Algo = "HPF" PROVE Spec => []NothingLost
<1>1. HPFInv => NothingLost
  BY DEF HPFInv, Lifecycle, NothingLost
<1> QED
  BY <1>1, HPFInvariant, PTL
-----------------------------------------------------------------------------
(* An orderly machine                                                       *)

(* What an orderly machine promises, as Scheduler's guards use it.          *)
LEMMA OrderlyTiming ==
  ASSUME Orderly
  PROVE  Prompt /\ (Algo = "SRTN" => Timing = "apart")
BY DEF Orderly

(* The current process is in the stage of a process on the CPU.             *)
LEMMA CurrentOnCPU ==
  ASSUME PromptInv, current_pcb # NULL
  PROVE  current_pcb \in Procs /\ OnCPU(current_pcb) /\ state[current_pcb] \in {"started", "resumed"}
<1>1. current_pcb \in Procs /\ TypeOK /\ Stage(current_pcb)
  BY DEF PromptInv, TypeOK
<1> QED
  BY <1>1 DEF Stage, TypeOK, Unscheduled, PutAside, Ended

(* While a tick is under way the current process is the one that sees it or *)
(* has signalled it.                                                        *)
LEMMA TickOfCurrent ==
  ASSUME PromptInv, TickUnderWay
  PROVE  current_pcb \in Procs /\ OnCPU(current_pcb) /\ pc \in Polling
<1>1. current_pcb # NULL
  BY ProcsAssumption DEF PromptInv, TickInv, TickUnderWay
<1> QED
  BY <1>1, CurrentOnCPU DEF PromptInv, TickInv

(* With no tick under way the scheduler's counts are the processes' own.    *)
LEMMA NoTick ==
  ASSUME PromptInv, ~TickUnderWay, NEW p \in Procs
  PROVE  sigs = {} /\ ~fresh[p] /\ remaining_time[p] = left[p] /\ left[p] \in Nat
<1>1. TypeOK /\ TickInv /\ CountersAgree
  BY DEF PromptInv
<1>2. sigs = {} /\ ~fresh[p]
  BY <1>1 DEF TickInv, TickUnderWay
<1>3. left[p] \in Nat
  BY <1>1 DEF TypeOK
<1>4. remaining_time[p] = left[p] + 0
  BY <1>1, <1>2 DEF CountersAgree
<1> QED
  BY <1>2, <1>3, <1>4

(* The invariant holds when nothing has been forked yet.                    *)
LEMMA PromptInit == Init => PromptInv
<1> SUFFICES ASSUME Init PROVE PromptInv
  OBVIOUS
<1> USE ProcsAssumption, RuntimeAssumption
<1>1. TypeOK
  BY TypeInit
<1>2. QueueItems(ready_queue) = {} /\ (Algo # "RR" => ready_queue = priority_queue)
      /\ (Algo = "RR" => ready_queue = circular_queue)
  BY InitQueue DEF Init, init_queue
<1>3. InboxDistinct /\ StepsInv /\ TickInv /\ QuantumInv /\ OneStopping
  BY DEF Init, InboxDistinct, StepsInv, TickInv, TickUnderWay, QuantumInv, OneStopping
<1>4. QueueInv
  BY <1>2 DEF Init, QueueInv, RingDistinct, TopLeast, Roots, circular_queue, priority_queue
<1>5. CountersAgree
  BY DEF Init, CountersAgree
<1>6. ASSUME NEW p \in Procs PROVE Stage(p)
  BY <1>2 DEF Init, Stage, Unscheduled, InInbox, Waiting, Received
<1> QED
  BY <1>1, <1>3, <1>4, <1>5, <1>6 DEF PromptInv
-----------------------------------------------------------------------------
(* The generator, the clock and the processes                               *)

(* Forking a process and sending its PCB.                                   *)
LEMMA PromptSpawn ==
  ASSUME Orderly, PromptInv, NEW p \in Procs, Spawn(p), TypeOK'
  PROVE  PromptInv'
<1> USE ProcsAssumption
<1>0. TypeOK
  BY DEF PromptInv
<1>1. /\ phase[p] = "unborn" /\ phase' = [phase EXCEPT ![p] = "init"]
      /\ inbox' = Append(inbox, p) /\ inbox \in Seq(Procs)
  BY <1>0 DEF Spawn, TypeOK
<1>2. Unscheduled(p) /\ state[p] = "unset" /\ ~InInbox(p) /\ ~Waiting(p)
  BY <1>0, <1>1 DEF PromptInv, Stage, TypeOK, OnCPU, PutAside, Ended, Unscheduled, Suspended, Stopping
<1>3. /\ Len(inbox) \in Nat /\ DOMAIN inbox = 1 .. Len(inbox)
      /\ DOMAIN inbox' = 1 .. Len(inbox) + 1
      /\ inbox'[Len(inbox) + 1] = p
      /\ \A i \in 1 .. Len(inbox) : inbox'[i] = inbox[i]
  BY <1>1, LenProperties
<1>4. \A q : InInbox(q)' <=> InInbox(q) \/ q = p
  BY <1>3 DEF InInbox
<1>5. InboxDistinct'
  BY <1>2, <1>3 DEF PromptInv, InboxDistinct, InInbox
<1>6. UNCHANGED <<stopped, psig, left, fresh, sigs, pc, ret, schVars>>
  BY DEF Spawn
<1>7. StepsInv' /\ QueueInv' /\ QuantumInv' /\ CountersAgree' /\ OneStopping'
  BY <1>6 DEF PromptInv, StepsInv, QueueInv, QuantumInv, CountersAgree, OneStopping,
     schVars, pcbVars
<1>8. TickInv'
  <2>1. TickUnderWay' <=> TickUnderWay
    BY <1>0, <1>1, <1>2, <1>6 DEF TickUnderWay, Unscheduled, TypeOK
  <2>2. Algo = "SRTN" => ~TickUnderWay
    BY DEF Spawn, Orderly
  <2> QED
    BY <1>0, <1>1, <1>2, <1>6, <2>1, <2>2
       DEF PromptInv, TickInv, Unscheduled, TypeOK, schVars
<1>9. ASSUME NEW q \in Procs PROVE Stage(q)'
  <2>1. (Waiting(q)' <=> Waiting(q)) /\ state' = state /\ (OnCPU(q) => q # p)
    BY <1>2, <1>6 DEF Waiting, schVars, pcbVars, OnCPU, Unscheduled
  <2>2. CASE q = p
    BY <1>0, <1>1, <1>2, <1>4, <1>6, <2>1, <2>2
       DEF Stage, Unscheduled, Received, TypeOK, schVars, pcbVars
  <2>3. CASE q # p
    <3>1. phase'[q] = phase[q] /\ (InInbox(q)' <=> InInbox(q)) /\ (Received(q)' <=> Received(q))
      BY <1>0, <1>1, <1>4, <2>3 DEF TypeOK, Received
    <3> QED
      BY <1>6, <2>1, <3>1 DEF PromptInv, Stage, Unscheduled, OnCPU, PutAside, Ended, Suspended,
         Stopping, schVars, pcbVars
  <2> QED
    BY <2>2, <2>3
<1> QED
  BY <1>5, <1>7, <1>8, <1>9 DEF PromptInv

(* A process that a step does not touch stays in its stage, as long as the  *)
(* scheduler's loop does not come to or leave a step that tells of it.      *)
LEMMA StageFrame ==
  ASSUME NEW q \in Procs, Stage(q),
         phase'[q] = phase[q], stopped'[q] = stopped[q], psig'[q] = psig[q],
         left'[q] = left[q], fresh'[q] = fresh[q], state'[q] = state[q],
         InInbox(q)' <=> InInbox(q), Waiting(q)' <=> Waiting(q),
         current_pcb' = q <=> current_pcb = q,
         current_pcb = q => /\ "SIGUSR1" \in sigs' <=> "SIGUSR1" \in sigs
                            /\ pc' = pc \/ {pc, pc'} \cap {"cont", "drop"} = {},
         psig[q] = "stop" /\ current_pcb # q => pc' = "rotate"
  PROVE  Stage(q)'
<1>1. phase'[q] # "unborn" /\ Received(q)' => phase[q] # "unborn" /\ Received(q)
  BY DEF Received
<1>2. Unscheduled(q) => Unscheduled(q)'
  BY <1>1 DEF Unscheduled, Received
<1>3. OnCPU(q) => OnCPU(q)'
  BY DEF OnCPU, Suspended, Stopping
<1>4. PutAside(q) => PutAside(q)'
  BY DEF PutAside, Suspended, Stopping
<1>5. Ended(q) => Ended(q)'
  BY DEF Ended
<1> QED
  BY <1>2, <1>3, <1>4, <1>5 DEF Stage

(* A SIGSTOP is on its way only to the process being preempted.             *)
LEMMA StopOnItsWay ==
  ASSUME PromptInv, NEW p \in Procs, psig[p] = "stop"
  PROVE  \/ OnCPU(p) /\ pc = "drop" /\ Stopping(p)
         \/ PutAside(p) /\ pc = "rotate" /\ Stopping(p)
BY DEF PromptInv, TypeOK, Stage, Unscheduled, OnCPU, PutAside, Ended, Suspended, Stopping

(* A step of one process that uses no tick and sends no signal: all that is *)
(* to show is that this process is in a stage again.                        *)
LEMMA QuietProcess ==
  ASSUME PromptInv, TypeOK', NEW p \in Procs, Stage(p)',
         UNCHANGED <<left, sigs, msgVars, pc, ret, schVars>>,
         \A q \in Procs \ {p} : /\ phase'[q] = phase[q] /\ stopped'[q] = stopped[q]
                                /\ psig'[q] = psig[q] /\ fresh'[q] = fresh[q],
         psig'[p] \in {psig[p], "none"},
         fresh'[p] => fresh[p] /\ phase'[p] = "loop" /\ ~stopped'[p]
  PROVE  PromptInv'
<1> USE ProcsAssumption
<1>0. TypeOK
  BY DEF PromptInv
<1>1. StepsInv' /\ QueueInv' /\ CountersAgree' /\ InboxDistinct'
  BY DEF PromptInv, StepsInv, QueueInv, CountersAgree, InboxDistinct, schVars, pcbVars, msgVars
<1>2. QuantumInv'
  <2>1. current_pcb # NULL /\ fresh'[current_pcb] => fresh[current_pcb]
    BY <1>0 DEF TypeOK
  <2> QED
    BY <2>1 DEF PromptInv, QuantumInv, schVars
<1>3. OneStopping'
  BY DEF PromptInv, OneStopping
<1>4. TickInv'
  <2>1. \A q \in Procs : fresh'[q] => fresh[q] /\ phase'[q] = "loop" /\ ~stopped'[q]
    BY DEF PromptInv, TickInv
  <2>2. TickUnderWay' => TickUnderWay
    BY <2>1 DEF TickUnderWay, PromptInv, TickInv
  <2> QED
    BY <1>0, <2>1, <2>2 DEF PromptInv, TickInv, TypeOK, ShorterWaiting, schVars, msgVars
<1>5. ASSUME NEW q \in Procs PROVE Stage(q)'
  <2>1. /\ Waiting(q)' <=> Waiting(q)
        /\ InInbox(q)' <=> InInbox(q)
        /\ UNCHANGED <<state, current_pcb>>
    BY DEF Waiting, InInbox, schVars, pcbVars, msgVars
  <2>2. CASE q # p
    <3>1. psig[q] = "stop" /\ current_pcb # q => pc' = "rotate"
      BY StopOnItsWay DEF OnCPU
    <3> QED
      BY <2>1, <2>2, <3>1, StageFrame DEF PromptInv
  <2> QED
    BY <2>2
<1> QED
  BY <1>1, <1>2, <1>3, <1>4, <1>5 DEF PromptInv

(* A process that comes to raise(SIGSTOP) was never scheduled.              *)
LEMMA PromptRaiseStop ==
  ASSUME PromptInv, NEW p \in Procs, RaiseStop(p), TypeOK'
  PROVE  PromptInv'
<1>0. TypeOK
  BY DEF PromptInv
<1>1. Unscheduled(p) /\ state[p] = "unset" /\ phase[p] = "init"
  BY <1>0 DEF PromptInv, Stage, TypeOK, OnCPU, PutAside, Ended, Suspended, Stopping, RaiseStop
<1>2. Stage(p)'
  BY <1>0, <1>1 DEF RaiseStop, Stage, Unscheduled, Received, InInbox, Waiting, TypeOK,
     schVars, pcbVars, msgVars
<1> QED
  BY <1>0, <1>1, <1>2, QuietProcess DEF RaiseStop, Unscheduled, TypeOK

(* A process takes a SIGSTOP only when it is being preempted.               *)
LEMMA PromptTakeStop ==
  ASSUME PromptInv, NEW p \in Procs, TakeStop(p), TypeOK'
  PROVE  PromptInv'
<1>0. TypeOK
  BY DEF PromptInv
<1>1. \/ OnCPU(p) /\ pc = "drop" /\ Stopping(p)
      \/ PutAside(p) /\ pc = "rotate" /\ Stopping(p)
  BY StopOnItsWay DEF TakeStop
<1>2. /\ phase' = phase /\ left' = left /\ psig'[p] = "none" /\ stopped'[p]
      /\ state' = state /\ pc' = pc /\ sigs' = sigs /\ current_pcb' = current_pcb /\ fresh' = fresh
      /\ InInbox(p)' <=> InInbox(p)
      /\ Waiting(p)' <=> Waiting(p)
  BY <1>0 DEF TakeStop, TypeOK, InInbox, Waiting, schVars, pcbVars, msgVars
<1>3. Suspended(p)'
  BY <1>1, <1>2 DEF Suspended, Stopping
<1>4. ~fresh[p]
  BY <1>1 DEF PromptInv, TickInv, TickUnderWay, Polling
<1>5. Stage(p)'
  BY <1>0, <1>1, <1>2, <1>3 DEF PromptInv, Stage, OnCPU, PutAside, Unscheduled, Ended, Stopping
<1> QED
  BY <1>0, <1>2, <1>4, <1>5, QuietProcess DEF TakeStop, TypeOK

(* A process takes a SIGCONT when it is current and no tick is under way.   *)
LEMMA PromptSigcont ==
  ASSUME PromptInv, NEW p \in Procs, handle_sigcont(p), TypeOK'
  PROVE  PromptInv'
<1>0. TypeOK
  BY DEF PromptInv
<1>1. OnCPU(p) /\ pc \notin {"cont", "drop"} /\ phase[p] \in {"raised", "loop"} /\ left[p] > 0
  BY <1>0 DEF PromptInv, Stage, TypeOK, Unscheduled, OnCPU, PutAside, Ended, Suspended, Stopping,
     handle_sigcont
<1>2. /\ phase'[p] = "loop" /\ left' = left /\ psig'[p] = "none" /\ stopped' = stopped
      /\ state' = state /\ pc' = pc /\ sigs' = sigs /\ current_pcb' = current_pcb /\ ~fresh'[p]
      /\ InInbox(p)' <=> InInbox(p)
      /\ Waiting(p)' <=> Waiting(p)
  BY <1>0, <1>1 DEF handle_sigcont, TypeOK, InInbox, Waiting, schVars, pcbVars, msgVars
<1>3. OnCPU(p)'
  BY <1>1, <1>2 DEF OnCPU
<1>4. Stage(p)'
  BY <1>0, <1>1, <1>2, <1>3 DEF PromptInv, Stage, OnCPU, PutAside, Unscheduled, Ended
<1> QED
  BY <1>0, <1>2, <1>4, QuietProcess DEF handle_sigcont, TypeOK

(* A process that ends has used its whole runtime, whether the scheduler    *)
(* knows it already or not.                                                 *)
LEMMA PromptExit ==
  ASSUME PromptInv, NEW p \in Procs, ExitProcess(p), TypeOK'
  PROVE  PromptInv'
<1>0. TypeOK
  BY DEF PromptInv
<1>1. /\ phase[p] = "loop" /\ ~stopped[p] /\ left[p] = 0 /\ psig[p] = "none" /\ ~fresh[p]
      /\ OnCPU(p) \/ Ended(p)
  BY SMTT(30), <1>0 DEF PromptInv, Stage, TypeOK, Unscheduled, OnCPU, PutAside, Ended, Suspended, Stopping,
     ExitProcess, TickInv
<1>2. /\ phase'[p] = "exited" /\ left' = left /\ psig' = psig /\ stopped' = stopped
      /\ state' = state /\ pc' = pc /\ sigs' = sigs /\ current_pcb' = current_pcb /\ fresh' = fresh
      /\ InInbox(p)' <=> InInbox(p)
      /\ Waiting(p)' <=> Waiting(p)
  BY <1>0, <1>1 DEF ExitProcess, TypeOK, InInbox, Waiting, schVars, pcbVars, msgVars
<1>3. Stage(p)'
  BY <1>0, <1>1, <1>2 DEF PromptInv, Stage, OnCPU, PutAside, Unscheduled, Ended, Suspended, Stopping
<1> QED
  BY <1>0, <1>1, <1>2, <1>3, QuietProcess DEF ExitProcess, TypeOK

(* The poll that sees a tick: the current process's, and its signal is the  *)
(* last one exactly when its runtime is used up.                            *)
LEMMA PromptPollTick ==
  ASSUME PromptInv, NEW p \in Procs, PollTick(p), TypeOK'
  PROVE  PromptInv'
<1> USE ProcsAssumption
<1>0. TypeOK
  BY DEF PromptInv
<1>1. current_pcb = p /\ sigs = {} /\ TickUnderWay /\ pc \in Polling
  BY DEF PollTick, PromptInv, TickInv, TickUnderWay
<1>2. /\ left' = [left EXCEPT ![p] = @ - 1] /\ left[p] > 0 /\ left[p] \in Nat
      /\ fresh' = [fresh EXCEPT ![p] = FALSE]
      /\ sigs' = {IF left'[p] = 0 THEN "SIGUSR1" ELSE "SIGUSR2"}
      /\ UNCHANGED <<phase, stopped, psig, msgVars, pc, ret, schVars>>
  BY <1>0, <1>1 DEF PollTick, TickSignal, TypeOK, Alive, Polling
<1>3. TickUnderWay'
  BY <1>2 DEF TickUnderWay
<1>4. StepsInv' /\ QueueInv' /\ OneStopping' /\ InboxDistinct'
  BY <1>2 DEF PromptInv, StepsInv, QueueInv, OneStopping, InboxDistinct, schVars, pcbVars, msgVars
<1>5. CountersAgree'
  BY <1>0, <1>1, <1>2 DEF PromptInv, CountersAgree, TypeOK, schVars, pcbVars
<1>6. QuantumInv'
  <2>1. /\ last_remain_time' = last_remain_time /\ last_remain_time \in Int
        /\ current_pcb' = p /\ pc' = pc /\ left'[p] = left[p] - 1 /\ ~fresh'[p]
    BY <1>0, <1>1, <1>2 DEF TypeOK, schVars
  <2>2. Algo = "RR" => last_remain_time - left[p] < Quantum
    BY <1>1 DEF PromptInv, QuantumInv, Polling, PollTick
  <2> QED
    BY <1>1, <1>2, <2>1, <2>2, QuantumAssumption DEF QuantumInv, Polling
<1>7. TickInv'
  BY <1>0, <1>1, <1>2 DEF PromptInv, TickInv, TypeOK, ShorterWaiting, schVars, msgVars
<1>8. ASSUME NEW q \in Procs PROVE Stage(q)'
  <2>1. /\ Waiting(q)' <=> Waiting(q)
        /\ InInbox(q)' <=> InInbox(q)
        /\ UNCHANGED <<state, current_pcb>>
    BY <1>2 DEF Waiting, InInbox, schVars, pcbVars, msgVars
  <2>2. CASE q = p
    <3>1. OnCPU(p) /\ state[p] \in {"started", "resumed"}
      BY <1>1, CurrentOnCPU
    <3>2. phase[p] = "loop" /\ psig[p] = "none"
      BY <1>1 DEF PollTick, PromptInv, TickInv
    <3>3. OnCPU(p)'
      BY <1>0, <1>1, <1>2, <2>1, <2>2, <3>1, <3>2 DEF OnCPU, TypeOK, Polling
    <3> QED
      BY <2>1, <2>2, <3>1, <3>3 DEF Stage
  <2>3. CASE q # p
    <3>1. psig[q] = "stop" /\ current_pcb # q => pc' = "rotate"
      BY <1>2, StopOnItsWay DEF OnCPU
    <3>2. left'[q] = left[q] /\ fresh'[q] = fresh[q]
      BY <1>0, <1>2, <2>3 DEF TypeOK
    <3> QED
      BY <1>1, <1>2, <2>1, <2>3, <3>1, <3>2, StageFrame DEF PromptInv
  <2> QED
    BY <2>2, <2>3
<1> QED
  BY <1>4, <1>5, <1>6, <1>7, <1>8 DEF PromptInv

(* A clock tick comes when all that the last one caused is done: it is the  *)
(* current process, in its loop, that sees it.                              *)
LEMMA PromptTick ==
  ASSUME Orderly, PromptInv, Tick, TypeOK'
  PROVE  PromptInv'
<1> USE ProcsAssumption
<1>0. TypeOK
  BY DEF PromptInv
<1>1. Settled /\ ~TickUnderWay /\ sigs = {}
  BY DEF Tick, Orderly, Settled, TickUnderWay
<1>2. ASSUME NEW q \in Procs, Running(q)
      PROVE  current_pcb = q /\ OnCPU(q) /\ left[q] > 0 /\ phase[q] = "loop" /\ ~stopped[q]
  BY <1>0, <1>1, <1>2 DEF Running, Settled, PromptInv, Stage, TypeOK, Unscheduled, PutAside, Ended,
     Suspended, Stopping, OnCPU
<1>3. PICK p \in Procs : Running(p)
  BY DEF Tick
<1>4. /\ current_pcb = p /\ OnCPU(p) /\ left[p] > 0 /\ phase[p] = "loop" /\ ~stopped[p]
      /\ fresh' = [q \in Procs |-> fresh[q] \/ Running(q)]
      /\ \A q \in Procs : fresh[q] \/ Running(q) => q = p
      /\ UNCHANGED <<phase, stopped, psig, left, msgVars, sigs, pc, ret, schVars>>
  BY <1>2, <1>3 DEF Tick, PromptInv, TickInv
<1>5. pc \in Polling /\ ~QuantumExpired /\ ~ShorterWaiting
  BY <1>1, <1>4 DEF Settled, Alive, PromptInv, StepsInv, Polling
<1>6. StepsInv' /\ QueueInv' /\ CountersAgree' /\ OneStopping' /\ InboxDistinct'
  BY <1>4 DEF PromptInv, StepsInv, QueueInv, CountersAgree, OneStopping, InboxDistinct,
     schVars, pcbVars, msgVars
<1>7. QuantumInv'
  <2>1. Algo = "RR" => last_remain_time - left[p] < Quantum
    <3>1. remaining_time[p] = left[p] /\ left[p] \in Int /\ last_remain_time \in Int
      BY <1>0, <1>1 DEF PromptInv, CountersAgree, TypeOK
    <3> QED
      BY <1>4, <1>5, <3>1, QuantumAssumption DEF QuantumExpired, QuantumEnd
  <2>2. last_remain_time' = last_remain_time /\ left'[p] = left[p] /\ current_pcb' = p /\ pc' = pc
    BY <1>4 DEF schVars
  <2>3. left[p] \in Int /\ last_remain_time \in Int
    BY <1>0 DEF TypeOK
  <2> QED
    BY <1>5, <2>1, <2>2, <2>3, QuantumAssumption DEF QuantumInv, Polling
<1>8. TickInv'
  BY <1>0, <1>1, <1>4, <1>5 DEF TickInv, Settled, TypeOK, ShorterWaiting, schVars, msgVars
<1>9. ASSUME NEW q \in Procs PROVE Stage(q)'
  <2>1. /\ Waiting(q)' <=> Waiting(q)
        /\ InInbox(q)' <=> InInbox(q)
        /\ UNCHANGED <<state, current_pcb>>
    BY <1>4 DEF Waiting, InInbox, schVars, pcbVars, msgVars
  <2>2. CASE q = p
    <3>1. OnCPU(p) /\ state[p] \in {"started", "resumed"}
      BY <1>4, CurrentOnCPU
    <3>2. OnCPU(p)'
      BY <1>4, <2>1, <2>2, <3>1 DEF OnCPU, Suspended, Stopping
    <3> QED
      BY <2>1, <2>2, <3>1, <3>2 DEF Stage
  <2>3. CASE q # p
    <3>1. psig[q] # "stop"
      BY <1>1 DEF Settled
    <3>2. fresh'[q] = fresh[q]
      BY <1>0, <1>4, <2>3 DEF TypeOK
    <3> QED
      BY <1>4, <2>1, <2>3, <3>1, <3>2, StageFrame DEF PromptInv
  <2> QED
    BY <2>2, <2>3
<1> QED
  BY <1>6, <1>7, <1>8, <1>9 DEF PromptInv
-----------------------------------------------------------------------------
(* The scheduler's loop                                                     *)

(* A step that moves the loop on and changes nothing of the processes, the  *)
(* inbox, the queue or a PCB.                                               *)
LEMMA QuietLoop ==
  ASSUME PromptInv, TypeOK', StepsInv', QuantumInv',
         UNCHANGED <<procVars, inbox, sigs, ready_queue, current_pcb, remaining_time, state>>,
         TickUnderWay => pc' \in Polling,
         pc' = pc \/ {pc, pc'} \cap {"cont", "drop", "rotate"} = {}
  PROVE  PromptInv'
<1>1. QueueInv' /\ CountersAgree' /\ OneStopping' /\ InboxDistinct'
  BY DEF PromptInv, QueueInv, CountersAgree, OneStopping, InboxDistinct, procVars
<1>2. TickInv'
  <2>1. TickUnderWay' <=> TickUnderWay
    BY DEF TickUnderWay, procVars
  <2> QED
    BY <2>1 DEF PromptInv, TickInv, ShorterWaiting, procVars
<1>3. ASSUME NEW q \in Procs PROVE Stage(q)'
  <2>1. /\ Waiting(q)' <=> Waiting(q)
        /\ InInbox(q)' <=> InInbox(q)
    BY DEF Waiting, InInbox
  <2>2. psig[q] = "stop" /\ current_pcb # q => pc' = "rotate"
    BY StopOnItsWay DEF OnCPU
  <2> QED
    BY <2>1, <2>2, StageFrame DEF PromptInv, procVars
<1> QED
  BY <1>1, <1>2, <1>3 DEF PromptInv

(* The steps that only poll, and the generator's end message.               *)
LEMMA PromptPolls ==
  ASSUME PromptInv, TypeOK',
         \/ UNCHANGED vars \/ SendNoMore \/ NextTurn \/ check_no_more_processes
         \/ check_for_new_processes /\ inbox = <<>>
  PROVE  PromptInv'
<1> USE ProcsAssumption
<1>1. /\ UNCHANGED <<procVars, inbox, sigs, ready_queue, current_pcb, remaining_time, state>>
      /\ last_remain_time' = last_remain_time
      /\ pc' = pc \/ (pc \in Polling /\ pc' \in {"test", "recv", "dispatch", "exit"})
      /\ pc' = "exit" => pc = "exit" \/ current_pcb = NULL
  BY DEF vars, SendNoMore, NextTurn, check_no_more_processes, check_for_new_processes, Go, Polling,
     procVars, msgVars, schVars, pcbVars
<1>2. StepsInv' /\ QuantumInv'
  BY <1>1 DEF PromptInv, StepsInv, QuantumInv, Polling, procVars
<1>3. TickUnderWay => current_pcb # NULL /\ pc \in Polling
  BY TickOfCurrent, ProcsAssumption
<1>4. TickUnderWay => pc' \in Polling
  BY <1>1, <1>3 DEF Polling
<1> QED
  BY <1>1, <1>2, <1>4, QuietLoop DEF Polling

(* A turn starts with nothing used of its quantum.                          *)
LEMMA PromptMarkStart ==
  ASSUME PromptInv, MarkStart, TypeOK'
  PROVE  PromptInv'
<1> USE ProcsAssumption
<1>0. TypeOK
  BY DEF PromptInv
<1>1. /\ UNCHANGED <<procVars, inbox, sigs, ready_queue, current_pcb, remaining_time, state>>
      /\ current_pcb \in Procs /\ last_remain_time' = remaining_time[current_pcb]
      /\ pc = "mark" /\ pc' \in {"check", "nomore"}
  BY <1>0 DEF MarkStart, Go, PromptInv, StepsInv, TypeOK, procVars, msgVars, pcbVars
<1>2. ~TickUnderWay
  BY <1>1, TickOfCurrent DEF Polling
<1>3. QuantumInv'
  <2>1. last_remain_time' = left[current_pcb] /\ left[current_pcb] \in Nat /\ ~fresh[current_pcb]
    BY <1>1, <1>2, NoTick
  <2> QED
    BY <1>1, <2>1, QuantumAssumption DEF QuantumInv, procVars
<1>4. StepsInv'
  BY <1>1 DEF StepsInv
<1> QED
  BY <1>1, <1>2, <1>3, <1>4, QuietLoop

(* With another process at the front SRTN decides to preempt the current    *)
(* one once no tick is under way; otherwise the comparison is still to come *)
(* or there is nothing to compare.                                          *)
LEMMA PromptDecide ==
  ASSUME Orderly, PromptInv, handle_current_running_process, TypeOK',
         UNCHANGED <<ready_queue, current_pcb, state>>, pc' \in {"due", "compare", "nomore"}
  PROVE  PromptInv'
<1> USE ProcsAssumption
<1>1. /\ UNCHANGED <<procVars, inbox, sigs, ready_queue, current_pcb, remaining_time, state>>
      /\ last_remain_time' = last_remain_time /\ pc = "check"
      /\ pc' = "due" => ShorterWaiting /\ ~TickUnderWay
      /\ pc' = "compare" => Algo # "HPF"
  BY DEF handle_current_running_process, schedule_next_process, Go, Orderly, msgVars
<1>2. StepsInv'
  BY <1>1 DEF PromptInv, StepsInv, ShorterWaiting
<1>3. QuantumInv'
  BY <1>1 DEF PromptInv, QuantumInv, ShorterWaiting, procVars
<1> QED
  BY <1>1, <1>2, <1>3, QuietLoop DEF Polling

(* The second load of current_pcb.  If the process has ended since the      *)
(* first, there is no current process and no tick under way; if it has not, *)
(* RR decides to preempt it exactly when its quantum is used up, so that    *)
(* there is nothing to clip.                                                *)
LEMMA PromptCompare ==
  ASSUME PromptInv, CompareCurrent, TypeOK'
  PROVE  PromptInv'
<1> USE ProcsAssumption
<1>0. TypeOK
  BY DEF PromptInv
<1>1. /\ UNCHANGED <<procVars, inbox, sigs, ready_queue, current_pcb, remaining_time, state>>
      /\ last_remain_time' = last_remain_time /\ pc = "compare" /\ Algo # "HPF"
      /\ IF current_pcb = NULL THEN pc' = "crash"
         ELSE pc' = IF QuantumExpired THEN "due" ELSE "nomore"
  BY DEF CompareCurrent, Go, PromptInv, StepsInv, msgVars, schVars, pcbVars
<1>2. current_pcb = NULL => ~TickUnderWay
  BY TickOfCurrent
<1>3. pc' = "due" =>
        /\ ~TickUnderWay /\ current_pcb # NULL
        /\ last_remain_time - left[current_pcb] = Quantum
  <2> SUFFICES ASSUME pc' = "due"
               PROVE  /\ ~TickUnderWay /\ current_pcb # NULL
                      /\ last_remain_time - left[current_pcb] = Quantum
    OBVIOUS
  <2>1. /\ Algo = "RR" /\ current_pcb \in Procs
        /\ remaining_time[current_pcb] <= last_remain_time - Quantum
    BY <1>0, <1>1 DEF QuantumExpired, QuantumEnd, TypeOK
  <2>2. /\ last_remain_time \in Int /\ left[current_pcb] \in Int
        /\ remaining_time[current_pcb] = left[current_pcb] + IF sigs # {} THEN 1 ELSE 0
        /\ last_remain_time - left[current_pcb] <= Quantum
        /\ fresh[current_pcb] => last_remain_time - left[current_pcb] < Quantum
    BY <1>0, <1>1, <2>1 DEF PromptInv, CountersAgree, QuantumInv, TypeOK
  <2>3. sigs = {} /\ ~fresh[current_pcb] /\ last_remain_time - left[current_pcb] = Quantum
    BY <2>1, <2>2, QuantumAssumption
  <2>4. ~TickUnderWay
    BY <2>3 DEF TickUnderWay, PromptInv, TickInv
  <2> QED
    BY <2>1, <2>3, <2>4
<1>4. StepsInv'
  BY <1>1, <1>3 DEF StepsInv
<1>5. QuantumInv'
  BY <1>1, <1>3 DEF PromptInv, QuantumInv, procVars
<1> QED
  BY <1>1, <1>2, <1>3, <1>4, <1>5, QuietLoop DEF Polling

(* Setting the remaining time back to what the quantum left of it, and the  *)
(* test that follows, change nothing on an orderly machine.                 *)
LEMMA PromptClip ==
  ASSUME PromptInv, ClipRemaining \/ TestPreempted, TypeOK'
  PROVE  PromptInv'
<1> USE ProcsAssumption
<1>0. TypeOK /\ current_pcb \in Procs /\ pc \in {"due", "preempt"}
  BY DEF PromptInv, StepsInv, TypeOK, ClipRemaining, TestPreempted
<1>1. ~TickUnderWay
  BY <1>0, TickOfCurrent DEF Polling
<1>2. ClipRemaining /\ Algo = "RR" => remaining_time[current_pcb] = QuantumEnd
  <2>1. /\ remaining_time[current_pcb] = left[current_pcb]
        /\ left[current_pcb] \in Int /\ last_remain_time \in Int
        /\ Algo = "RR" => last_remain_time - left[current_pcb] = Quantum
    BY <1>0, <1>1, NoTick DEF PromptInv, QuantumInv, TypeOK
  <2> QED
    BY <2>1, QuantumAssumption DEF QuantumEnd
<1>3. /\ UNCHANGED <<procVars, inbox, sigs, ready_queue, current_pcb, remaining_time, state>>
      /\ last_remain_time' = last_remain_time /\ pc' \in {"preempt", "stop"}
  BY <1>0, <1>2 DEF ClipRemaining, TestPreempted, Go, TypeOK, procVars, msgVars, schVars, pcbVars
<1>4. StepsInv' /\ QuantumInv'
  BY <1>0, <1>3 DEF PromptInv, StepsInv, QuantumInv, procVars
<1> QED
  BY <1>0, <1>1, <1>3, <1>4, QuietLoop

(* Reading a PCB: it is that of a process that raised SIGSTOP and was never *)
(* scheduled, and it is queued behind or beside what was there.             *)
LEMMA PromptReceive ==
  ASSUME Orderly, PromptInv, check_for_new_processes, inbox # <<>>, TypeOK'
  PROVE  PromptInv'
<1> USE ProcsAssumption
<1> DEFINE h == Head(inbox)
<1>0. TypeOK /\ QueueOK(ready_queue, Procs)
  BY DEF PromptInv, TypeOK
<1>1. /\ UNCHANGED <<procVars, sigs, current_pcb, remaining_time, state, last_remain_time>>
      /\ pc = "recv" /\ pc' \in {"recv", "dispatch"} /\ inbox' = Tail(inbox)
      /\ phase[h] # "init"
      /\ IF Runtime[h] > 0 THEN ready_queue' = enqueue(ready_queue, h, Key(h))
                           ELSE ready_queue' = ready_queue
  BY DEF check_for_new_processes, Go, Orderly, pcbVars
<1>2. /\ h \in Procs /\ InboxDistinct' /\ InInbox(h)
      /\ \A p : InInbox(p)' <=> InInbox(p) /\ p # h
  BY <1>0, <1>1, InboxTail DEF PromptInv
<1> HIDE DEF h
<1>3. /\ Unscheduled(h) /\ state[h] = "unset" /\ phase[h] = "raised" /\ ~Waiting(h)
      /\ left[h] = Runtime[h] /\ Runtime[h] \in Nat
  BY <1>0, <1>1, <1>2, RuntimeAssumption
     DEF PromptInv, TypeOK, Stage, OnCPU, PutAside, Ended, Unscheduled
<1>4. \A p : Waiting(p)' <=> Waiting(p) \/ (p = h /\ Runtime[h] > 0)
  <2>1. CASE Runtime[h] > 0
    <3>1. QueueItems(ready_queue') = QueueItems(ready_queue) \cup {h}
      <4>1. CASE Algo = "RR"
        BY <1>0, <1>1, <1>2, <1>3, <2>1, <4>1, RingEnqueue DEF PromptInv, QueueInv, Waiting
      <4>2. CASE Algo # "RR"
        <5>1. ready_queue' = enqueue(ready_queue, h, Key(h))
          BY <1>1, <2>1
        <5> QED
          BY <1>0, <4>2, <5>1, HeapItems
      <4> QED
        BY <4>1, <4>2
    <3> QED
      BY <2>1, <3>1 DEF Waiting
  <2>2. CASE ~(Runtime[h] > 0)
    BY <1>1, <2>2 DEF Waiting
  <2> QED
    BY <2>1, <2>2
<1>5. QueueInv'
  <2>1. CASE ~(Runtime[h] > 0)
    BY <1>1, <2>1 DEF PromptInv, QueueInv
  <2>2. CASE Runtime[h] > 0 /\ Algo = "RR"
    <3>1. current_pcb # NULL => ~is_empty(ready_queue)
      BY <2>2, CurrentOnCPU DEF OnCPU, Waiting, is_empty
    <3> QED
      BY <1>0, <1>1, <1>2, <1>3, <2>2, <3>1, RingEnqueue DEF PromptInv, QueueInv, Waiting
  <2>3. CASE Runtime[h] > 0 /\ Algo = "SRTN"
    <3>1. /\ ready_queue' = enqueue(ready_queue, h, remaining_time[h])
          /\ \A p \in QueueItems(ready_queue) : ready_queue.prio[p] = remaining_time[p]
          /\ TopLeast(ready_queue)
      BY <1>1, <2>3 DEF PromptInv, QueueInv, Key
    <3>2. /\ h \notin QueueItems(ready_queue)
          /\ QueueItems(ready_queue) \subseteq Procs
          /\ \A p \in Procs : remaining_time[p] \in Int
      BY <1>0, <1>3, <2>3 DEF TypeOK, Waiting, QueueItems, QueueOK, HeapOK
    <3>3. \A p \in QueueItems(ready_queue) : ready_queue.prio[p] \in Int
      BY <3>1, <3>2
    <3>4. /\ TopLeast(ready_queue')
          /\ ready_queue'.prio[h] = remaining_time[h]
          /\ \A p \in QueueItems(ready_queue) : ready_queue'.prio[p] = ready_queue.prio[p]
      BY <1>0, <1>2, <2>3, <3>1, <3>2, <3>3, HeapEnqueue
    <3>5. QueueItems(ready_queue') = QueueItems(ready_queue) \cup {h}
      BY <1>0, <2>3, <3>1, HeapItems
    <3> QED
      BY <1>1, <2>3, <3>1, <3>4, <3>5 DEF QueueInv
  <2>4. CASE Algo = "HPF"
    BY <2>4 DEF QueueInv
  <2> QED
    BY <2>1, <2>2, <2>3, <2>4, AlgoAssumption DEF Algorithms
<1>6. StepsInv' /\ QuantumInv' /\ CountersAgree' /\ OneStopping'
  BY <1>1 DEF PromptInv, StepsInv, QuantumInv, CountersAgree, OneStopping, procVars
<1>7. TickInv'
  <2>1. TickUnderWay' <=> TickUnderWay
    BY <1>1 DEF TickUnderWay, procVars
  <2> QED
    BY <1>1, <2>1 DEF PromptInv, TickInv, Polling, procVars
<1>8. ASSUME NEW q \in Procs PROVE Stage(q)'
  <2>1. CASE q = h
    BY <1>1, <1>2, <1>3, <1>4, <2>1 DEF Stage, Unscheduled, Received, procVars
  <2>2. CASE q # h
    <3>1. (InInbox(q)' <=> InInbox(q)) /\ (Waiting(q)' <=> Waiting(q))
      BY <1>2, <1>4, <2>2
    <3>2. psig[q] # "stop"
      BY <1>1, StopOnItsWay
    <3> QED
      BY <1>1, <3>1, <3>2, StageFrame DEF PromptInv, procVars
  <2> QED
    BY <2>1, <2>2
<1> QED
  BY <1>2, <1>5, <1>6, <1>7, <1>8 DEF PromptInv

(* Scheduling the process at the front: it is stopped and has work left.    *)
LEMMA PromptSchedule ==
  ASSUME PromptInv, current_pcb = NULL, pc \in Polling, TypeOK',
         NEW back \in {"check", "nomore"}, schedule_next_process(back),
         UNCHANGED <<procVars, inbox, sigs, remaining_time>>
  PROVE  PromptInv'
<1> USE ProcsAssumption
<1>0. TypeOK /\ QueueOK(ready_queue, Procs)
  BY DEF PromptInv, TypeOK
<1>1. PICK c \in Procs : c = front(ready_queue)
  BY <1>0, ScheduleOK
<1>2. Waiting(c) /\ current_pcb' = c /\ pc' = "cont"
  BY <1>0, <1>1, ScheduleOK DEF Waiting
<1>3. /\ state' = [state EXCEPT ![c] = IF @ = "unset" THEN "started" ELSE "resumed"]
      /\ IF Algo = "HPF" THEN ready_queue' \in dequeue(ready_queue, TRUE)
                         ELSE ready_queue' = ready_queue
  BY <1>1 DEF schedule_next_process
<1>4. ~TickUnderWay
  BY TickOfCurrent
<1>5. sigs = {} /\ \A p \in Procs : ~fresh[p] /\ psig[p] # "stop"
  BY <1>4, NoTick, StopOnItsWay DEF Polling
<1>6. Suspended(c) /\ ~InInbox(c)
  BY <1>0, <1>2, <1>5 DEF PromptInv, TypeOK, Stage, Unscheduled, OnCPU, PutAside, Ended, Suspended,
     Stopping
<1>7. \A p : Waiting(p)' <=> Waiting(p) /\ (Algo = "HPF" => p # c)
  <2>1. CASE Algo = "HPF"
    <3>1. QueueItems(ready_queue') = QueueItems(ready_queue) \ {c}
      BY <1>0, <1>1, <1>3, <2>1, HeapItems
    <3> QED
      BY <2>1, <3>1 DEF Waiting
  <2>2. CASE Algo # "HPF"
    BY <1>3, <2>2 DEF Waiting
  <2> QED
    BY <2>1, <2>2
<1>8. StepsInv' /\ QuantumInv' /\ CountersAgree' /\ OneStopping' /\ InboxDistinct'
  BY <1>2, <1>5 DEF PromptInv, StepsInv, QuantumInv, CountersAgree, OneStopping, InboxDistinct, procVars
<1>9. QueueInv'
  BY <1>1, <1>2, <1>3 DEF PromptInv, QueueInv
<1>10. TickInv'
  BY <1>4, <1>5 DEF TickInv, TickUnderWay, procVars
<1>11. ASSUME NEW q \in Procs PROVE Stage(q)'
  <2>1. InInbox(q)' <=> InInbox(q)
    BY DEF InInbox
  <2>2. CASE q = c
    <3>1. OnCPU(c)'
      BY <1>2, <1>5, <1>6, <1>7, <2>1, <2>2 DEF OnCPU, Suspended, procVars
    <3>2. state'[c] \in {"started", "resumed"}
      BY <1>0, <1>3 DEF TypeOK
    <3> QED
      BY <2>2, <3>1, <3>2 DEF Stage
  <2>3. CASE q # c
    <3>1. state'[q] = state[q] /\ (Waiting(q)' <=> Waiting(q))
      BY <1>0, <1>3, <1>7, <2>3 DEF TypeOK
    <3> QED
      BY <1>2, <1>5, <2>1, <2>3, <3>1, StageFrame DEF PromptInv, procVars
  <2> QED
    BY <2>2, <2>3
<1> QED
  BY <1>8, <1>9, <1>10, <1>11 DEF PromptInv

(* Continuing the process just scheduled.                                   *)
LEMMA PromptContinue ==
  ASSUME PromptInv, ContinueProcess, TypeOK'
  PROVE  PromptInv'
<1> USE ProcsAssumption
<1>0. TypeOK
  BY DEF PromptInv
<1>1. PICK c \in Procs : c = current_pcb /\ pc = "cont"
  BY <1>0 DEF PromptInv, StepsInv, TypeOK, ContinueProcess
<1>2. OnCPU(c) /\ Suspended(c) /\ state[c] \in {"started", "resumed"}
  BY <1>1, CurrentOnCPU DEF OnCPU
<1>3. /\ stopped' = [stopped EXCEPT ![c] = FALSE] /\ psig' = [psig EXCEPT ![c] = "cont"]
      /\ pc' = "mark" /\ UNCHANGED <<phase, left, fresh, msgVars, sigs, schVars>>
  BY <1>1, <1>2 DEF ContinueProcess, kill_SIGCONT, Suspended, Go
<1>4. ~TickUnderWay
  BY <1>1, TickOfCurrent DEF Polling
<1>5. sigs = {} /\ \A p \in Procs : ~fresh[p] /\ psig[p] # "stop"
  BY <1>1, <1>4, NoTick, StopOnItsWay
<1>6. /\ psig'[c] = "cont" /\ ~stopped'[c]
      /\ \A p \in Procs \ {c} : psig'[p] = psig[p] /\ stopped'[p] = stopped[p]
  BY <1>0, <1>3 DEF TypeOK
<1>7. OneStopping'
  BY <1>5, <1>6 DEF OneStopping
<1>8. StepsInv' /\ QuantumInv' /\ QueueInv' /\ CountersAgree' /\ InboxDistinct'
  BY <1>1, <1>3 DEF PromptInv, StepsInv, QuantumInv, QueueInv, CountersAgree, InboxDistinct,
     schVars, pcbVars, msgVars
<1>9. TickInv'
  BY <1>3, <1>5 DEF TickInv, TickUnderWay
<1>10. ASSUME NEW q \in Procs PROVE Stage(q)'
  <2>1. /\ Waiting(q)' <=> Waiting(q)
        /\ InInbox(q)' <=> InInbox(q)
        /\ UNCHANGED <<state, current_pcb>>
    BY <1>3 DEF Waiting, InInbox, schVars, pcbVars, msgVars
  <2>2. CASE q = c
    <3>1. OnCPU(c)'
      BY <1>2, <1>3, <1>6, <2>1, <2>2 DEF OnCPU, Suspended
    <3> QED
      BY <1>2, <2>1, <2>2, <3>1 DEF Stage
  <2>3. CASE q # c
    BY <1>1, <1>3, <1>5, <1>6, <2>1, <2>3, StageFrame DEF PromptInv
  <2> QED
    BY <2>2, <2>3
<1> QED
  BY <1>7, <1>8, <1>9, <1>10 DEF PromptInv

(* Stopping the process being preempted: it has not ended, and whatever it  *)
(* was doing it is now on its way to a stop.                                *)
LEMMA PromptStop ==
  ASSUME PromptInv, StopProcess, TypeOK'
  PROVE  PromptInv'
<1> USE ProcsAssumption
<1>0. TypeOK
  BY DEF PromptInv
<1>1. PICK c \in Procs : c = current_pcb /\ pc = "stop"
  BY <1>0 DEF PromptInv, StepsInv, TypeOK, StopProcess
<1>2. ~TickUnderWay
  BY <1>1, TickOfCurrent DEF Polling
<1>3. sigs = {} /\ \A p \in Procs : ~fresh[p] /\ psig[p] # "stop"
  BY <1>1, <1>2, NoTick, StopOnItsWay
<1>4. /\ OnCPU(c) /\ state[c] \in {"started", "resumed"}
      /\ phase[c] \in {"raised", "loop"} /\ left[c] > 0 /\ ~stopped[c]
  <2>1. OnCPU(c) /\ state[c] \in {"started", "resumed"} /\ left[c] \in Nat
    BY <1>0, <1>1, CurrentOnCPU DEF TypeOK
  <2> QED
    BY <1>1, <1>3, <2>1 DEF OnCPU
<1>5. /\ psig' = [psig EXCEPT ![c] = "stop"] /\ pc' = "drop"
      /\ UNCHANGED <<phase, stopped, left, fresh, msgVars, sigs, schVars>>
  BY <1>1, <1>4 DEF StopProcess, kill_SIGSTOP, Go
<1>6. psig'[c] = "stop" /\ \A p \in Procs \ {c} : psig'[p] = psig[p]
  BY <1>0, <1>5 DEF TypeOK
<1>7. OneStopping'
  BY <1>3, <1>6 DEF OneStopping
<1>8. StepsInv' /\ QuantumInv' /\ QueueInv' /\ CountersAgree' /\ InboxDistinct'
  BY <1>1, <1>5 DEF PromptInv, StepsInv, QuantumInv, QueueInv, CountersAgree, InboxDistinct,
     schVars, pcbVars, msgVars
<1>9. TickInv'
  BY <1>3, <1>5 DEF TickInv, TickUnderWay
<1>10. ASSUME NEW q \in Procs PROVE Stage(q)'
  <2>1. /\ Waiting(q)' <=> Waiting(q)
        /\ InInbox(q)' <=> InInbox(q)
        /\ UNCHANGED <<state, current_pcb>>
    BY <1>5 DEF Waiting, InInbox, schVars, pcbVars, msgVars
  <2>2. CASE q = c
    <3>1. OnCPU(c)'
      BY <1>4, <1>5, <1>6, <2>1, <2>2 DEF OnCPU, Stopping
    <3> QED
      BY <1>4, <2>1, <2>2, <3>1 DEF Stage
  <2>3. CASE q # c
    BY <1>1, <1>3, <1>5, <1>6, <2>1, <2>3, StageFrame DEF PromptInv
  <2> QED
    BY <2>2, <2>3
<1> QED
  BY <1>7, <1>8, <1>9, <1>10 DEF PromptInv

(* The preempted process is put aside, still in the queue.                  *)
LEMMA PromptDrop ==
  ASSUME PromptInv, DropCurrent, TypeOK'
  PROVE  PromptInv'
<1> USE ProcsAssumption
<1>0. TypeOK
  BY DEF PromptInv
<1>1. PICK c \in Procs : c = current_pcb /\ pc = "drop"
  BY <1>0 DEF PromptInv, StepsInv, TypeOK, DropCurrent
<1>2. ~TickUnderWay
  BY <1>1, TickOfCurrent DEF Polling
<1>3. sigs = {} /\ \A p \in Procs : ~fresh[p] /\ (psig[p] = "stop" => p = c)
  BY <1>1, <1>2, NoTick, StopOnItsWay DEF OnCPU
<1>4. OnCPU(c) /\ (Suspended(c) \/ Stopping(c)) /\ Algo # "HPF"
  BY <1>1, CurrentOnCPU DEF OnCPU, PromptInv, StepsInv
<1>5. /\ state' = [state EXCEPT ![c] = "stopped"] /\ pc' = "rotate" /\ current_pcb' = NULL
      /\ UNCHANGED <<procVars, msgVars, sigs, ready_queue, remaining_time>>
  BY <1>1 DEF DropCurrent, Go
<1>6. StepsInv' /\ QuantumInv' /\ QueueInv' /\ CountersAgree' /\ InboxDistinct' /\ OneStopping'
  BY <1>1, <1>3, <1>4, <1>5 DEF PromptInv, StepsInv, QuantumInv, QueueInv, CountersAgree, InboxDistinct,
     OneStopping, procVars, msgVars
<1>7. TickInv'
  BY <1>3, <1>5 DEF TickInv, TickUnderWay, procVars
<1>8. ASSUME NEW q \in Procs PROVE Stage(q)'
  <2>1. /\ Waiting(q)' <=> Waiting(q)
        /\ InInbox(q)' <=> InInbox(q)
    BY <1>5 DEF Waiting, InInbox, msgVars
  <2>2. CASE q = c
    <3>1. PutAside(c)'
      BY <1>3, <1>4, <1>5, <2>1, <2>2 DEF OnCPU, PutAside, Suspended, Stopping, procVars
    <3>2. state'[c] = "stopped"
      BY <1>0, <1>5 DEF TypeOK
    <3> QED
      BY <2>2, <3>1, <3>2 DEF Stage
  <2>3. CASE q # c
    <3>1. state'[q] = state[q]
      BY <1>0, <1>5, <2>3 DEF TypeOK
    <3> QED
      BY <1>1, <1>3, <1>5, <2>1, <2>3, <3>1, StageFrame DEF PromptInv, procVars
  <2> QED
    BY <2>2, <2>3
<1> QED
  BY <1>6, <1>7, <1>8 DEF PromptInv

(* By the time the queue is rotated the preempted process has stopped.      *)
LEMMA PromptRotate ==
  ASSUME Orderly, PromptInv, RotateQueue, TypeOK'
  PROVE  PromptInv'
<1> USE ProcsAssumption
<1>0. TypeOK /\ QueueOK(ready_queue, Procs)
  BY DEF PromptInv, TypeOK
<1>1. /\ pc = "rotate" /\ pc' = "nomore" /\ current_pcb = NULL
      /\ \A p \in Procs : psig[p] # "stop"
      /\ IF Algo = "RR" THEN ready_queue' \in dequeue(ready_queue, FALSE)
                        ELSE ready_queue' = ready_queue
      /\ UNCHANGED <<procVars, msgVars, sigs, current_pcb, remaining_time, state>>
  BY DEF PromptInv, StepsInv, RotateQueue, Go, Orderly, pcbVars
<1>2. QueueItems(ready_queue') = QueueItems(ready_queue) /\ QueueInv'
  <2>1. CASE Algo = "RR"
    <3>1. RingDistinct(ready_queue') /\ QueueItems(ready_queue') = QueueItems(ready_queue)
      BY <1>0, <1>1, <2>1, RingDequeue DEF PromptInv, QueueInv
    <3> QED
      BY <1>1, <2>1, <3>1 DEF QueueInv
  <2>2. CASE Algo # "RR"
    BY <1>1, <2>2 DEF PromptInv, QueueInv
  <2> QED
    BY <2>1, <2>2
<1>3. ~TickUnderWay
  BY <1>1, TickOfCurrent DEF Polling
<1>4. sigs = {} /\ \A p \in Procs : ~fresh[p]
  BY <1>3, NoTick DEF TickUnderWay
<1>5. StepsInv' /\ QuantumInv' /\ CountersAgree' /\ InboxDistinct' /\ OneStopping'
  BY <1>1 DEF PromptInv, StepsInv, QuantumInv, CountersAgree, InboxDistinct, OneStopping, procVars,
     msgVars
<1>6. TickInv'
  BY <1>1, <1>4 DEF TickInv, TickUnderWay, procVars
<1>7. ASSUME NEW q \in Procs PROVE Stage(q)'
  <2>1. /\ Waiting(q)' <=> Waiting(q)
        /\ InInbox(q)' <=> InInbox(q)
    BY <1>1, <1>2 DEF Waiting, InInbox, msgVars
  <2> QED
    BY <1>1, <2>1, StageFrame DEF PromptInv, procVars
<1> QED
  BY <1>2, <1>5, <1>6, <1>7 DEF PromptInv
-----------------------------------------------------------------------------
(* The scheduler's signal handlers                                          *)

(* When a tick's signal is pending the current process is at the front of   *)
(* the queue, but for HPF.                                                  *)
LEMMA FrontIsCurrent ==
  ASSUME PromptInv, TickUnderWay, Algo # "HPF"
  PROVE  front(ready_queue) = current_pcb /\ ~is_empty(ready_queue)
<1>1. current_pcb \in Procs /\ OnCPU(current_pcb) /\ current_pcb # NULL
  BY TickOfCurrent, ProcsAssumption
<1>2. ~is_empty(ready_queue)
  BY <1>1 DEF OnCPU, Waiting, is_empty
<1>3. QueueOK(ready_queue, Procs)
  BY DEF PromptInv, TypeOK
<1>4. front(ready_queue) # NULL
  BY <1>2, <1>3, FrontItem, ProcsAssumption
<1>5. CASE Algo = "RR"
  BY <1>1, <1>2, <1>5 DEF PromptInv, QueueInv
<1>6. CASE Algo = "SRTN"
  BY <1>1, <1>2, <1>4, <1>6 DEF PromptInv, TickInv, ShorterWaiting
<1> QED
  BY <1>5, <1>6, AlgoAssumption DEF Algorithms

(* The termination signal is the current process's, and the process taken   *)
(* out of the queue is that process.                                        *)
LEMMA PromptTermination ==
  ASSUME PromptInv, handle_process_termination, TypeOK'
  PROVE  PromptInv'
<1> USE ProcsAssumption
<1>0. TypeOK /\ QueueOK(ready_queue, Procs)
  BY DEF PromptInv, TypeOK
<1>1. TickUnderWay /\ sigs = {"SIGUSR1"} /\ sigs' = {}
  BY DEF handle_process_termination, TickUnderWay
<1>2. PICK c \in Procs : c = current_pcb /\ OnCPU(c) /\ pc \in Polling
  BY <1>1, TickOfCurrent
<1>3. /\ left[c] = 0 /\ left[c] \in Nat /\ remaining_time[c] = 1
      /\ \A p \in Procs : ~fresh[p] /\ psig[p] # "stop" /\ (p # c => remaining_time[p] = left[p])
  <2>1. left[c] = 0 /\ left[c] \in Nat
    BY <1>0, <1>1, <1>2 DEF OnCPU, TypeOK
  <2>2. remaining_time[c] = 1
    BY <1>1, <1>2, <2>1 DEF PromptInv, CountersAgree
  <2>3. ASSUME NEW p \in Procs PROVE ~fresh[p] /\ psig[p] # "stop"
    BY <1>1, <1>2, StopOnItsWay DEF PromptInv, TickInv, Polling
  <2>4. ASSUME NEW p \in Procs, p # c PROVE remaining_time[p] = left[p]
    <3>1. remaining_time[p] = left[p] + 0 /\ left[p] \in Nat
      BY <1>0, <1>2, <2>4 DEF PromptInv, CountersAgree, TypeOK
    <3> QED
      BY <3>1
  <2> QED
    BY <2>1, <2>2, <2>3, <2>4
<1>4. /\ IF Algo # "HPF" THEN ready_queue' \in dequeue(ready_queue, TRUE)
                         ELSE ready_queue' = ready_queue
      /\ remaining_time' = [remaining_time EXCEPT ![c] = @ - 1]
      /\ state' = [state EXCEPT ![c] = "finished"]
      /\ current_pcb' = NULL
      /\ UNCHANGED <<procVars, msgVars, pc>>
  BY <1>2 DEF handle_process_termination, DequeuesAtTermination
<1>5. Algo # "HPF" => front(ready_queue) = c
  BY <1>1, <1>2, FrontIsCurrent
<1>6. Algo # "HPF" => QueueItems(ready_queue') = QueueItems(ready_queue) \ {c}
  <2>1. CASE Algo = "RR"
    BY <1>0, <1>4, <1>5, <2>1, RingDequeue DEF PromptInv, QueueInv
  <2>2. CASE Algo = "SRTN"
    BY <1>0, <1>4, <1>5, <2>2, HeapItems
  <2> QED
    BY <2>1, <2>2, AlgoAssumption DEF Algorithms
<1>7. ~Waiting(c)' /\ \A p : p # c => (Waiting(p)' <=> Waiting(p))
  <2>1. CASE Algo = "HPF"
    BY <1>2, <1>4, <2>1 DEF OnCPU, Waiting
  <2>2. CASE Algo # "HPF"
    BY <1>6, <2>2 DEF Waiting
  <2> QED
    BY <2>1, <2>2
<1>8. QueueInv'
  <2>1. CASE Algo = "RR"
    BY <1>0, <1>4, <2>1, RingDequeue DEF PromptInv, QueueInv
  <2>2. CASE Algo = "SRTN"
    <3>1. TopLeast(ready_queue') /\ \A i \in QueueItems(ready_queue') : ready_queue'.prio[i] = ready_queue.prio[i]
      BY <1>0, <1>4, <2>2, HeapDequeue
    <3>2. \A i \in QueueItems(ready_queue') : ready_queue.prio[i] = remaining_time[i] /\ i # c /\ i \in Procs
      BY <1>0, <1>6, <2>2 DEF PromptInv, QueueInv, QueueItems, QueueOK, HeapOK
    <3>3. \A i \in Procs \ {c} : remaining_time'[i] = remaining_time[i]
      BY <1>0, <1>4 DEF TypeOK
    <3> QED
      BY <2>2, <3>1, <3>2, <3>3 DEF QueueInv
  <2>3. CASE Algo = "HPF"
    BY <2>3 DEF QueueInv
  <2> QED
    BY <2>1, <2>2, <2>3, AlgoAssumption DEF Algorithms
<1>9. CountersAgree'
  <2> SUFFICES ASSUME NEW p \in Procs PROVE remaining_time'[p] = left'[p] + 0
    BY <1>1 DEF CountersAgree
  <2> QED
    BY <1>0, <1>3, <1>4 DEF TypeOK, procVars
<1>10. StepsInv' /\ QuantumInv' /\ InboxDistinct' /\ OneStopping'
  BY <1>2, <1>4 DEF PromptInv, StepsInv, QuantumInv, InboxDistinct, OneStopping, Polling, procVars, msgVars
<1>11. TickInv'
  BY <1>1, <1>3, <1>4 DEF TickInv, TickUnderWay, procVars
<1>12. ASSUME NEW q \in Procs PROVE Stage(q)'
  <2>1. InInbox(q)' <=> InInbox(q)
    BY <1>4 DEF InInbox, msgVars
  <2>2. CASE q = c
    <3>1. Ended(c)'
      BY <1>2, <1>3, <1>4, <1>7, <2>1, <2>2 DEF OnCPU, Ended, Polling, procVars
    <3>2. state'[c] = "finished"
      BY <1>0, <1>4 DEF TypeOK
    <3> QED
      BY <2>2, <3>1, <3>2 DEF Stage
  <2>3. CASE q # c
    <3>1. state'[q] = state[q] /\ (Waiting(q)' <=> Waiting(q))
      BY <1>0, <1>4, <1>7, <2>3 DEF TypeOK
    <3> QED
      BY <1>2, <1>3, <1>4, <2>1, <2>3, <3>1, StageFrame DEF PromptInv, procVars
  <2> QED
    BY <2>2, <2>3
<1> QED
  BY <1>8, <1>9, <1>10, <1>11, <1>12 DEF PromptInv

(* The tick's signal brings the scheduler's count of the current process    *)
(* down to the process's own, and under SRTN the key of the heap with it.   *)
LEMMA PromptTickSignal ==
  ASSUME PromptInv, handle_process_tick, TypeOK'
  PROVE  PromptInv'
<1> USE ProcsAssumption
<1>0. TypeOK /\ QueueOK(ready_queue, Procs)
  BY DEF PromptInv, TypeOK
<1>1. TickUnderWay /\ "SIGUSR2" \in sigs
  BY DEF handle_process_tick, TickUnderWay
<1>2. PICK c \in Procs : c = current_pcb /\ OnCPU(c) /\ pc \in Polling
  BY <1>1, TickOfCurrent
<1>3. /\ sigs = {"SIGUSR2"} /\ sigs' = {}
      /\ \A p \in Procs : ~fresh[p] /\ psig[p] # "stop"
  <2>1. sigs = {"SIGUSR2"}
    BY <1>1 DEF PromptInv, TickInv
  <2>2. ASSUME NEW p \in Procs PROVE ~fresh[p] /\ psig[p] # "stop"
    BY <1>1, <1>2, StopOnItsWay DEF PromptInv, TickInv, Polling
  <2> QED
    BY <2>1, <2>2 DEF handle_process_tick
<1>4. /\ remaining_time' = [remaining_time EXCEPT ![c] = @ - 1]
      /\ IF Algo = "SRTN" THEN ready_queue' \in change_priority(ready_queue, remaining_time[c] - 1)
                          ELSE ready_queue' = ready_queue
      /\ UNCHANGED <<procVars, msgVars, pc, current_pcb, state, last_remain_time>>
  BY <1>2 DEF handle_process_tick
<1>5. /\ remaining_time'[c] = remaining_time[c] - 1 /\ remaining_time[c] \in Int
      /\ \A p \in Procs \ {c} : remaining_time'[p] = remaining_time[p]
  BY <1>0, <1>4 DEF TypeOK
<1>6. CountersAgree'
  <2>1. /\ \A p \in Procs : left[p] \in Nat
        /\ remaining_time[c] = left[c] + 1
        /\ \A p \in Procs \ {c} : remaining_time[p] = left[p] + 0
    BY <1>0, <1>2, <1>3 DEF PromptInv, CountersAgree, TypeOK
  <2> SUFFICES ASSUME NEW p \in Procs PROVE remaining_time'[p] = left'[p] + 0
    BY <1>3 DEF CountersAgree
  <2> QED
    BY <1>4, <1>5, <2>1 DEF procVars
<1>7. QueueItems(ready_queue') = QueueItems(ready_queue)
  BY <1>0, <1>4, ChangePriorityOK
<1>8. QueueInv'
  <2>1. CASE Algo = "RR"
    BY <1>4, <2>1 DEF PromptInv, QueueInv
  <2>2. CASE Algo = "SRTN"
    <3>1. /\ front(ready_queue) = c /\ ~is_empty(ready_queue) /\ c \in QueueItems(ready_queue)
          /\ TopLeast(ready_queue)
          /\ \A i \in QueueItems(ready_queue) :
               i \in Procs /\ ready_queue.prio[i] = remaining_time[i] /\ ready_queue.prio[i] \in Int
      <4>1. front(ready_queue) = c /\ ~is_empty(ready_queue)
        BY <1>1, <1>2, <2>2, FrontIsCurrent
      <4>2. front(ready_queue) \in QueueItems(ready_queue)
        BY <1>0, <4>1, FrontItem
      <4>3. /\ TopLeast(ready_queue)
            /\ \A i \in QueueItems(ready_queue) : ready_queue.prio[i] = remaining_time[i]
        BY <2>2 DEF PromptInv, QueueInv
      <4>4. \A i \in QueueItems(ready_queue) : i \in Procs /\ remaining_time[i] \in Int
        BY <1>0, <2>2 DEF QueueItems, QueueOK, HeapOK, TypeOK
      <4> QED
        BY <4>1, <4>2, <4>3, <4>4
    <3>2. remaining_time[c] - 1 \in Int /\ remaining_time[c] - 1 <= ready_queue.prio[c]
      BY <1>5, <3>1
    <3>3. ready_queue' \in change_priority(ready_queue, remaining_time[c] - 1)
      BY <1>4, <2>2
    <3>4. /\ TopLeast(ready_queue')
          /\ ready_queue'.prio[c] = remaining_time[c] - 1
          /\ \A i \in QueueItems(ready_queue) \ {c} : ready_queue'.prio[i] = ready_queue.prio[i]
      BY <1>0, <2>2, <3>1, <3>2, <3>3, HeapChangePriority
    <3> QED
      BY <1>5, <1>7, <2>2, <3>1, <3>4 DEF QueueInv
  <2>3. CASE Algo = "HPF"
    BY <2>3 DEF QueueInv
  <2> QED
    BY <2>1, <2>2, <2>3, AlgoAssumption DEF Algorithms
<1>9. StepsInv' /\ QuantumInv' /\ InboxDistinct' /\ OneStopping'
  BY <1>2, <1>4 DEF PromptInv, StepsInv, QuantumInv, InboxDistinct, OneStopping, Polling, procVars, msgVars
<1>10. TickInv'
  BY <1>3, <1>4 DEF TickInv, TickUnderWay, procVars
<1>11. ASSUME NEW q \in Procs PROVE Stage(q)'
  <2>1. (InInbox(q)' <=> InInbox(q)) /\ (Waiting(q)' <=> Waiting(q))
    BY <1>4, <1>7 DEF InInbox, Waiting, msgVars
  <2>2. "SIGUSR1" \notin sigs /\ "SIGUSR1" \notin sigs'
    BY <1>3
  <2> QED
    BY <1>3, <1>4, <2>1, <2>2, StageFrame DEF PromptInv, procVars
<1> QED
  BY <1>6, <1>8, <1>9, <1>10, <1>11 DEF PromptInv
-----------------------------------------------------------------------------
(* The invariant and what follows from it                                   *)

(* Every step of every action keeps the invariant.                          *)
LEMMA PromptStep ==
  ASSUME Orderly, PromptInv, [Next]_vars
  PROVE  PromptInv'
<1>0. TypeOK'
  BY TypeStep DEF PromptInv
<1>1. CASE UNCHANGED vars \/ SendNoMore
  BY <1>0, <1>1, PromptPolls
<1>2. ASSUME NEW p \in Procs, Spawn(p) PROVE PromptInv'
  BY <1>0, <1>2, PromptSpawn
<1>3. ASSUME NEW p \in Procs, Process(p) PROVE PromptInv'
  BY <1>0, <1>3, PromptRaiseStop, PromptTakeStop, PromptSigcont, PromptPollTick, PromptExit DEF Process
<1>4. CASE Tick
  BY <1>0, <1>4, PromptTick
<1>5. CASE SchedulerLoop
  <2>1. CASE NextTurn \/ check_no_more_processes
    BY <1>0, <2>1, PromptPolls
  <2>2. CASE check_for_new_processes
    BY <1>0, <2>2, PromptPolls, PromptReceive
  <2>3. CASE Dispatch
    <3>1. CASE current_pcb = NULL /\ schedule_next_process("check")
      BY <1>0, <2>3, <3>1, PromptSchedule DEF Dispatch, Polling, msgVars
    <3>2. CASE /\ current_pcb # NULL \/ is_empty(ready_queue)
               /\ Go("check")
               /\ UNCHANGED <<ready_queue, current_pcb, state>>
      <4>1. /\ UNCHANGED <<procVars, inbox, sigs, ready_queue, current_pcb, remaining_time, state>>
            /\ last_remain_time' = last_remain_time /\ pc = "dispatch" /\ pc' = "check"
        BY <2>3, <3>2 DEF Dispatch, Go, msgVars
      <4>2. StepsInv' /\ QuantumInv'
        BY <4>1 DEF PromptInv, StepsInv, QuantumInv, procVars
      <4> QED
        BY <1>0, <4>1, <4>2, QuietLoop DEF Polling
    <3> QED
      BY <2>3, <3>1, <3>2 DEF Dispatch
  <2>4. CASE ContinueProcess
    BY <1>0, <2>4, PromptContinue
  <2>5. CASE MarkStart
    BY <1>0, <2>5, PromptMarkStart
  <2>6. CASE handle_current_running_process
    <3>1. CASE current_pcb = NULL /\ schedule_next_process("nomore")
      BY <1>0, <2>6, <3>1, PromptSchedule DEF handle_current_running_process, Polling, msgVars
    <3>2. CASE UNCHANGED <<ready_queue, current_pcb, state>> /\ pc' \in {"due", "compare", "nomore"}
      BY <1>0, <2>6, <3>2, PromptDecide
    <3> QED
      BY <2>6, <3>1, <3>2 DEF handle_current_running_process, Go
  <2>7. CASE ClipRemaining \/ TestPreempted
    BY <1>0, <2>7, PromptClip
  <2>8. CASE StopProcess
    BY <1>0, <2>8, PromptStop
  <2>9. CASE DropCurrent
    BY <1>0, <2>9, PromptDrop
  <2>10. CASE RotateQueue
    BY <1>0, <2>10, PromptRotate
  <2>11. CASE CompareCurrent
    BY <1>0, <2>11, PromptCompare
  <2> QED
    BY <1>5, <2>1, <2>2, <2>3, <2>4, <2>5, <2>6, <2>7, <2>8, <2>9, <2>10, <2>11 DEF SchedulerLoop
<1>6. CASE handle_process_termination
  BY <1>0, <1>6, PromptTermination
<1>7. CASE handle_process_tick
  BY <1>0, <1>7, PromptTickSignal
<1> QED
  BY <1>1, <1>2, <1>3, <1>4, <1>5, <1>6, <1>7 DEF Next

(* On an orderly machine the processes, the queue, the signals and the      *)
(* scheduler's counts agree after every step, under all three algorithms.   *)
THEOREM PromptInvariant == ASSUME Orderly PROVE Spec => []PromptInv
<1>1. Init => PromptInv
  BY PromptInit
<1>2. PromptInv /\ [Next]_vars => PromptInv'
  BY PromptStep
<1> QED
  BY <1>1, <1>2, PTL DEF Spec

(* No two processes that have work left run at the same time, although one  *)
(* is stopped and the next continued in separate kill calls.                *)
THEOREM PromptOneAtATime == ASSUME Orderly PROVE Spec => []OneAtATime
<1>1. PromptInv => OneAtATime
  <2> SUFFICES ASSUME PromptInv, NEW p \in Procs, NEW q \in Procs,
                      Running(p), left[p] > 0, Running(q), left[q] > 0
               PROVE  p = q
    BY DEF OneAtATime
  <2>1. ASSUME NEW r \in Procs, Running(r), left[r] > 0
        PROVE  current_pcb = r \/ (psig[r] = "stop" /\ pc = "rotate")
    <3>1. Unscheduled(r) \/ OnCPU(r) \/ PutAside(r) \/ Ended(r)
      BY DEF PromptInv, TypeOK, Stage
    <3>2. ~Unscheduled(r) /\ ~Ended(r) /\ ~Suspended(r)
      BY <2>1 DEF Running, Unscheduled, Ended, Suspended
    <3> QED
      BY <3>1, <3>2 DEF OnCPU, PutAside, Stopping
  <2>2. pc = "rotate" => current_pcb = NULL
    BY DEF PromptInv, StepsInv
  <2>3. current_pcb = p \/ (psig[p] = "stop" /\ pc = "rotate")
    BY <2>1
  <2>4. current_pcb = q \/ (psig[q] = "stop" /\ pc = "rotate")
    BY <2>1
  <2> QED
    BY <2>2, <2>3, <2>4, ProcsAssumption DEF PromptInv, OneStopping
<1> QED
  BY <1>1, PromptInvariant, PTL

(* A process whose PCB was accepted is queued or current exactly until it   *)
(* is finished.                                                             *)
THEOREM PromptNothingLost == ASSUME Orderly PROVE Spec => []NothingLost
<1>1. PromptInv => NothingLost
  <2> SUFFICES ASSUME PromptInv, NEW p \in Procs, Received(p)
               PROVE  state[p] = "finished" <=> ~(Waiting(p) \/ current_pcb = p)
    BY DEF NothingLost
  <2> QED
    BY DEF PromptInv, TypeOK, Stage, Unscheduled, OnCPU, PutAside, Ended, Received
<1> QED
  BY <1>1, PromptInvariant, PTL

(* The scheduler marks a process finished only when that process has used   *)
(* its whole runtime, although SIGUSR1 does not say who sent it.            *)
THEOREM PromptFinishedMeansDone == ASSUME Orderly PROVE Spec => []FinishedMeansDone
<1>1. PromptInv => FinishedMeansDone
  BY DEF PromptInv, Stage, Ended, FinishedMeansDone
<1> QED
  BY <1>1, PromptInvariant, PTL

(* The scheduler faults nowhere but at line 197's second load: no handler   *)
(* runs without a current process, and none is lost between its dispatch    *)
(* and its start, or between the decision to preempt it and its stop.       *)
THEOREM PromptCrashesOnlyInCompare == ASSUME Orderly PROVE Spec => CrashesOnlyInCompare
<1>1. PromptInv /\ [Next]_vars => [pc # "crash" /\ pc' = "crash" => CompareCurrent]_vars
  <2> SUFFICES ASSUME PromptInv, Next, pc # "crash", pc' = "crash"
               PROVE  CompareCurrent
    OBVIOUS
  <2>1. SchedulerLoop \/ handle_process_termination \/ handle_process_tick
    BY DEF Next, Spawn, Process, RaiseStop, TakeStop, handle_sigcont, PollTick, ExitProcess,
       SendNoMore, Tick
  <2>2. ~handle_process_termination /\ ~handle_process_tick
    BY DEF PromptInv, TickInv, handle_process_termination, handle_process_tick
  <2>3. ~ContinueProcess /\ ~MarkStart
    BY DEF PromptInv, StepsInv, TypeOK, ContinueProcess, MarkStart, Go
  <2>4. ~ClipRemaining /\ ~TestPreempted /\ ~StopProcess /\ ~DropCurrent /\ ~RotateQueue
    BY DEF PromptInv, StepsInv, ClipRemaining, TestPreempted, StopProcess, DropCurrent,
       RotateQueue, Go
  <2>5. ~NextTurn /\ ~check_for_new_processes /\ ~check_no_more_processes
    BY DEF NextTurn, check_for_new_processes, check_no_more_processes, Go
  <2>6. ~Dispatch /\ ~handle_current_running_process
    BY DEF Dispatch, handle_current_running_process, schedule_next_process, Go
  <2> QED
    BY <2>1, <2>2, <2>3, <2>4, <2>5, <2>6 DEF SchedulerLoop
<1> QED
  BY <1>1, PromptInvariant, PTL DEF Spec, CrashesOnlyInCompare

(* The scheduler's count of what remains of a process is that process's own *)
(* count, but for the signal on its way.                                    *)
THEOREM PromptCountersAgree == ASSUME Orderly PROVE Spec => []CountersAgree
<1>1. PromptInv => CountersAgree
  BY DEF PromptInv
<1> QED
  BY <1>1, PromptInvariant, PTL

(* Under RR no turn exceeds the quantum and a turn cut short has used all   *)
(* of it.                                                                   *)
THEOREM RRQuantumExact == ASSUME Algo = "RR", Prompt PROVE Spec => []QuantumExact
<1>1. PromptInv => QuantumExact
  BY DEF PromptInv, QuantumInv, QuantumExact
<1>2. Orderly
  BY DEF Orderly
<1> QED
  BY <1>1, <1>2, PromptInvariant, PTL

(* With no tick under way the root of SRTN's heap has the least work left   *)
(* of all that are queued, by the processes' own counts.                    *)
LEMMA FrontIsShortest ==
  ASSUME PromptInv, Algo = "SRTN", sigs = {}, NEW q \in QueueItems(ready_queue)
  PROVE  front(ready_queue) \in Procs /\ left[front(ready_queue)] <= left[q]
<1>1. /\ QueueOK(ready_queue, Procs) /\ ~is_empty(ready_queue)
      /\ \A p \in QueueItems(ready_queue) : p \in Procs /\ ready_queue.prio[p] = remaining_time[p]
      /\ TopLeast(ready_queue)
  BY DEF PromptInv, TypeOK, QueueInv, QueueOK, HeapOK, QueueItems, is_empty
<1>2. \A p \in Procs : remaining_time[p] = left[p]
  <2> SUFFICES ASSUME NEW p \in Procs PROVE remaining_time[p] = left[p]
    OBVIOUS
  <2>1. remaining_time[p] = left[p] + 0 /\ left[p] \in Nat
    BY DEF PromptInv, CountersAgree, TypeOK
  <2> QED
    BY <2>1
<1>3. front(ready_queue) \in Least(ready_queue.prio)
  BY <1>1 DEF TopLeast, Roots, QueueItems, front, is_empty
<1>4. front(ready_queue) \in QueueItems(ready_queue) /\ front(ready_queue) \in Procs
  BY <1>1, FrontItem
<1>5. ready_queue.prio[front(ready_queue)] <= ready_queue.prio[q]
  BY <1>3 DEF Least, QueueItems
<1> QED
  BY <1>1, <1>2, <1>4, <1>5

(* Under SRTN the process put on the CPU has the least work left of all     *)
(* that are queued.                                                         *)
THEOREM SRTNDispatchesShortest ==
  ASSUME Algo = "SRTN", Timing = "apart" PROVE Spec => DispatchesShortest
<1>0. Orderly
  BY DEF Orderly, Prompt
<1>1. PromptInv /\ [Next]_vars =>
        [current_pcb = NULL /\ current_pcb' # NULL =>
           \A q \in QueueItems(ready_queue) : left[current_pcb'] <= left[q]]_vars
  <2> SUFFICES ASSUME PromptInv, Next, current_pcb = NULL, current_pcb' # NULL,
                      NEW q \in QueueItems(ready_queue)
               PROVE  left[current_pcb'] <= left[q]
    OBVIOUS
  <2>1. current_pcb' = front(ready_queue)
    <3>1. SchedulerLoop
      BY DEF Next, handle_process_termination, handle_process_tick, Spawn, Process, RaiseStop,
         TakeStop, handle_sigcont, PollTick, ExitProcess, SendNoMore, Tick, schVars
    <3>2. Dispatch \/ handle_current_running_process
      BY <3>1 DEF SchedulerLoop, NextTurn, check_for_new_processes, ContinueProcess, MarkStart,
         CompareCurrent, ClipRemaining, TestPreempted, StopProcess, DropCurrent, RotateQueue,
         check_no_more_processes, schVars
    <3> QED
      BY <3>2 DEF Dispatch, handle_current_running_process, schedule_next_process
  <2>2. sigs = {}
    BY DEF PromptInv, TickInv
  <2> QED
    BY <2>1, <2>2, FrontIsShortest
<1> QED
  BY <1>0, <1>1, PromptInvariant, PTL DEF Spec, DispatchesShortest

(* Under SRTN a tick is only ever used by a process with the least work     *)
(* left: a shorter arrival preempts before the next tick.                   *)
THEOREM SRTNShortestRuns ==
  ASSUME Algo = "SRTN", Timing = "apart" PROVE Spec => ShortestRuns
<1>0. Orderly
  BY DEF Orderly, Prompt
<1>1. PromptInv /\ [Next]_vars =>
        [\A p \in Procs : left'[p] # left[p] =>
           \A q \in QueueItems(ready_queue) : left[p] <= left[q]]_vars
  <2> SUFFICES ASSUME PromptInv, Next, NEW p \in Procs, left'[p] # left[p],
                      NEW q \in QueueItems(ready_queue)
               PROVE  left[p] <= left[q]
    OBVIOUS
  <2>1. PICK r \in Procs : PollTick(r)
    <3>1. \E r \in Procs : Spawn(r) \/ Process(r)
      BY DEF Next, SchedulerLoop, NextTurn, check_for_new_processes, Dispatch, ContinueProcess, MarkStart,
         handle_current_running_process, CompareCurrent, ClipRemaining, TestPreempted, StopProcess,
         DropCurrent, RotateQueue, check_no_more_processes, handle_process_termination, handle_process_tick,
         SendNoMore, Tick, procVars
    <3> QED
      BY <3>1 DEF Spawn, Process, RaiseStop, TakeStop, handle_sigcont, ExitProcess
  <2>2. r = p
    BY <2>1 DEF PollTick, PromptInv, TypeOK
  <2>3. current_pcb = p /\ sigs = {} /\ TickUnderWay
    BY <2>1, <2>2 DEF PollTick, PromptInv, TickInv, TickUnderWay
  <2>4. front(ready_queue) = p
    BY <2>3, FrontIsCurrent
  <2> QED
    BY <2>3, <2>4, FrontIsShortest
<1> QED
  BY <1>0, <1>1, PromptInvariant, PTL DEF Spec, ShortestRuns
=============================================================================
