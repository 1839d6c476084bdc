----------------------------- MODULE QueueProofs -----------------------------
(***************************************************************************)
(* The two queues keep their form and do what module ReadyQueue says of     *)
(* them, whatever is queued: first the linked ring of CircularQueue, for    *)
(* every number of nodes, then the heap of PriorityQueue, for every initial *)
(* capacity.                                                                *)
(***************************************************************************)
EXTENDS CircularQueue, PriorityQueue, SequencesExt, FiniteSetTheorems,
        SequenceTheorems, WellFoundedInduction, TLAPS

(* Induction, with a set for the predicate.                                 *)
LEMMA SetInduction ==
  ASSUME NEW S, 0 \in S, \A n \in Nat : n \in S => n + 1 \in S
  PROVE  Nat \subseteq S
<1> DEFINE T == Nat \ S
           R == {ss \in Nat \X Nat : ss[1] < ss[2]}
<1> SUFFICES ASSUME T # {} PROVE FALSE
  OBVIOUS
<1>1. IsWellFoundedOn(R, Nat)
  BY NatLessThanWellFounded DEF OpToRel
<1>2. \A s, t \in Nat : s < t => <<s, t>> \in R
  OBVIOUS
<1> HIDE DEF R
<1>3. PICK x \in T : \A y \in T : ~(<<y, x>> \in R)
  BY <1>1, WFMin
<1>4. x \in Nat /\ x # 0 /\ x - 1 \in Nat
  OBVIOUS
<1>5. x - 1 \in T
  BY <1>4
<1>6. x - 1 < x
  BY <1>4
<1> QED
  BY <1>2, <1>3, <1>4, <1>5, <1>6

(* A set of naturals that is not empty has a least element.                 *)
LEMMA LeastElement ==
  ASSUME NEW S, S \subseteq Nat, S # {}
  PROVE  \E m \in S : \A s \in S : m <= s
<1> DEFINE R == {ss \in Nat \X Nat : ss[1] < ss[2]}
<1>1. IsWellFoundedOn(R, Nat)
  BY NatLessThanWellFounded DEF OpToRel
<1>2. \A s, t \in Nat : s < t => <<s, t>> \in R
  OBVIOUS
<1> HIDE DEF R
<1>3. PICK m \in S : \A s \in S : ~(<<s, m>> \in R)
  BY <1>1, WFMin
<1>4. ASSUME NEW s \in S PROVE m <= s
  <2>1. s \in Nat /\ m \in Nat /\ ~(s < m)
    BY <1>2, <1>3
  <2> QED
    BY <2>1
<1> QED
  BY <1>4
-----------------------------------------------------------------------------
(* Rings                                                                    *)

(* A set that is not empty has a positive number of members.                *)
LEMMA RingSize ==
  ASSUME NEW S, IsFiniteSet(S)
  PROVE  /\ Cardinality(S) \in Nat
         /\ S # {} => Cardinality(S) >= 1
<1>1. Cardinality(S) \in Nat /\ (Cardinality(S) = 0 <=> S = {})
  BY FS_CardinalityType, FS_EmptySet
<1> QED
  BY <1>1

(* The order of a ring follows from where it starts.                        *)
LEMMA RingUnique ==
  ASSUME NEW S, IsFiniteSet(S), NEW h, NEW nx,
         NEW s, IsRing(s, h, nx, S), NEW t, IsRing(t, h, nx, S)
  PROVE  s = t
<1> DEFINE N == Cardinality(S)
           T == {k \in Nat : k + 1 \in 1 .. N => s[k + 1] = t[k + 1]}
<1>1. N \in Nat
  BY FS_CardinalityType
<1>2. s \in [1 .. N -> S] /\ t \in [1 .. N -> S] /\ s[1] = t[1]
  BY DEF IsRing
<1>3. \A k \in 1 .. N : /\ nx[s[k]] = s[IF k = N THEN 1 ELSE k + 1]
                        /\ nx[t[k]] = t[IF k = N THEN 1 ELSE k + 1]
  BY <1>2 DEF IsRing
<1> HIDE DEF N
<1>4. 0 \in T
  BY <1>2
<1>5. ASSUME NEW n \in Nat, n \in T PROVE n + 1 \in T
  <2> SUFFICES ASSUME n + 2 \in 1 .. N PROVE s[n + 2] = t[n + 2]
    OBVIOUS
  <2>1. n + 1 \in 1 .. N /\ n + 1 # N /\ (n + 1) + 1 = n + 2
    BY <1>1
  <2>2. s[n + 1] = t[n + 1]
    BY <1>5, <2>1
  <2> QED
    BY <1>3, <2>1, <2>2
<1> HIDE DEF T
<1>6. Nat \subseteq T
  BY <1>4, <1>5, SetInduction
<1>7. ASSUME NEW k \in 1 .. N PROVE s[k] = t[k]
  <2>1. k - 1 \in Nat /\ (k - 1) + 1 = k
    BY <1>1
  <2> QED
    BY <1>6, <2>1 DEF T
<1>8. s = [k \in 1 .. N |-> s[k]] /\ t = [k \in 1 .. N |-> t[k]]
  BY <1>2
<1>9. [k \in 1 .. N |-> s[k]] = [k \in 1 .. N |-> t[k]]
  BY <1>7
<1> QED
  BY <1>8, <1>9

(* The ring of a node that is not NULL is the one sequence there is.        *)
LEMMA RingOfIs ==
  ASSUME NEW S, IsFiniteSet(S), NEW h, h # NULL, NEW nx, NEW s, IsRing(s, h, nx, S)
  PROVE  RingOf(h, nx, S) = s
<1> DEFINE r == CHOOSE x \in [1 .. Cardinality(S) -> S] : IsRing(x, h, nx, S)
<1>1. s \in [1 .. Cardinality(S) -> S]
  BY DEF IsRing
<1>2. IsRing(r, h, nx, S)
  BY <1>1
<1>3. RingOf(h, nx, S) = r
  BY DEF RingOf
<1> HIDE DEF r
<1> QED
  BY <1>2, <1>3, RingUnique

(* A ring depends on the links of its own nodes only.                       *)
LEMMA SameRing ==
  ASSUME NEW S, NEW h, NEW nx, NEW nx2, \A n \in S : nx2[n] = nx[n],
         NEW s, IsRing(s, h, nx, S)
  PROVE  IsRing(s, h, nx2, S)
<1>1. \A k \in DOMAIN s : s[k] \in S
  BY DEF IsRing
<1> QED
  BY <1>1 DEF IsRing

(* A ring, with its length given.                                           *)
LEMMA RingBy ==
  ASSUME NEW S, NEW N, N = Cardinality(S), NEW h, NEW nx, NEW s, s \in [1 .. N -> S],
         s[1] = h,
         \A n \in S : \E k \in 1 .. N : s[k] = n,
         \A i, j \in 1 .. N : s[i] = s[j] => i = j,
         \A k \in 1 .. N : nx[s[k]] = s[IF k = N THEN 1 ELSE k + 1]
  PROVE  IsRing(s, h, nx, S)
<1>1. DOMAIN s = 1 .. N
  OBVIOUS
<1> QED
  BY <1>1 DEF IsRing

(* The ring with a node linked in after position k, as cq_enqueue links it. *)
Inserted(s, k, n) ==
  [j \in 1 .. Len(s) + 1 |-> IF j <= k THEN s[j] ELSE IF j = k + 1 THEN n ELSE s[j - 1]]

(* With its links set as cq_enqueue sets them, the longer list is a ring.   *)
LEMMA RingInsert ==
  ASSUME NEW S, IsFiniteSet(S), NEW h, NEW nx, NEW s, IsRing(s, h, nx, S),
         NEW k \in DOMAIN s, NEW n, n \notin S, NEW nx2,
         \A m \in S \ {s[k]} : nx2[m] = nx[m],
         nx2[s[k]] = n, nx2[n] = nx[s[k]]
  PROVE  /\ IsRing(Inserted(s, k, n), h, nx2, S \cup {n})
         /\ Len(s) = Cardinality(S)
         /\ Cardinality(S \cup {n}) = Cardinality(S) + 1
<1> DEFINE N == Cardinality(S)
           u == [j \in 1 .. N + 1 |-> IF j <= k THEN s[j] ELSE IF j = k + 1 THEN n ELSE s[j - 1]]
<1>1. N \in Nat /\ Cardinality(S \cup {n}) = N + 1
  BY FS_CardinalityType, FS_AddElement
<1>2. /\ s \in [1 .. N -> S] /\ s[1] = h
      /\ \A m \in S : \E i \in 1 .. N : s[i] = m
      /\ \A i, j \in 1 .. N : s[i] = s[j] => i = j
      /\ \A i \in 1 .. N : nx[s[i]] = s[IF i = N THEN 1 ELSE i + 1]
  BY DEF IsRing
<1> HIDE DEF N
<1>3. Len(s) = N
  BY <1>1, <1>2
<1>4. Inserted(s, k, n) = u
  BY <1>3 DEF Inserted
<1>5. k \in 1 .. N
  BY <1>2
<1>6. u \in [1 .. N + 1 -> S \cup {n}]
  <2> SUFFICES ASSUME NEW j \in 1 .. N + 1
               PROVE  (IF j <= k THEN s[j] ELSE IF j = k + 1 THEN n ELSE s[j - 1]) \in S \cup {n}
    OBVIOUS
  <2>1. j <= k => j \in 1 .. N
    BY <1>1, <1>5
  <2>2. j > k /\ j # k + 1 => j - 1 \in 1 .. N
    BY <1>1, <1>5
  <2> QED
    BY <1>1, <1>2, <1>5, <2>1, <2>2
<1>7. u[1] = h
  BY <1>1, <1>2, <1>5
<1>8. ASSUME NEW m \in S \cup {n} PROVE \E j \in 1 .. N + 1 : u[j] = m
  <2>1. CASE m = n
    <3>1. k + 1 \in 1 .. N + 1 /\ ~(k + 1 <= k)
      BY <1>1, <1>5
    <3> QED
      BY <2>1, <3>1
  <2>2. CASE m \in S
    <3>1. PICK i \in 1 .. N : s[i] = m
      BY <1>2, <2>2
    <3>2. CASE i <= k
      <4>1. i \in 1 .. N + 1 /\ u[i] = s[i]
        BY <1>1, <1>5, <3>2
      <4> QED
        BY <3>1, <4>1
    <3>3. CASE i > k
      <4>1. i + 1 \in 1 .. N + 1 /\ ~(i + 1 <= k) /\ i + 1 # k + 1 /\ (i + 1) - 1 = i
        BY <1>1, <1>5, <3>3
      <4>2. u[i + 1] = s[i]
        BY <4>1
      <4> QED
        BY <3>1, <4>1, <4>2
    <3> QED
      BY <1>5, <3>2, <3>3
  <2> QED
    BY <2>1, <2>2
<1>9. ASSUME NEW i \in 1 .. N + 1, NEW j \in 1 .. N + 1, u[i] = u[j] PROVE i = j
  <2> DEFINE old(q) == IF q <= k THEN q ELSE q - 1
  <2>1. \A q \in 1 .. N + 1 : q # k + 1 => old(q) \in 1 .. N /\ u[q] = s[old(q)]
    BY <1>1, <1>5
  <2>2. u[k + 1] = n
    BY <1>1, <1>5
  <2>3. \A q \in 1 .. N + 1 : q # k + 1 => u[q] # n
    BY <1>2, <2>1
  <2>4. CASE i = k + 1 \/ j = k + 1
    BY <1>9, <2>2, <2>3, <2>4
  <2>5. CASE i # k + 1 /\ j # k + 1
    <3>1. old(i) = old(j)
      <4> HIDE DEF old, u
      <4> QED
        BY <1>2, <1>9, <2>1, <2>5
    <3> QED
      BY <1>1, <1>5, <2>5, <3>1
  <2> QED
    BY <2>4, <2>5
<1>10. ASSUME NEW j \in 1 .. N + 1
       PROVE  nx2[u[j]] = u[IF j = N + 1 THEN 1 ELSE j + 1]
  <2>1. \A i \in 1 .. N : i # k => nx2[s[i]] = s[IF i = N THEN 1 ELSE i + 1]
    BY <1>2, <1>5
  <2>2. u[k + 1] = n /\ u[k] = s[k]
    BY <1>1, <1>5
  <2>3. CASE j = k
    <3>1. (IF j = N + 1 THEN 1 ELSE j + 1) = k + 1
      BY <1>1, <1>5, <2>3
    <3> QED
      BY <2>2, <2>3, <3>1
  <2>4. CASE j = k + 1
    <3>1. nx2[u[j]] = s[IF k = N THEN 1 ELSE k + 1]
      BY <1>2, <1>5, <2>2, <2>4
    <3>2. CASE k = N
      <4>1. (IF j = N + 1 THEN 1 ELSE j + 1) = 1
        BY <1>1, <1>5, <2>4, <3>2
      <4> QED
        BY <1>2, <1>7, <3>1, <3>2, <4>1
    <3>3. CASE k # N
      <4>1. /\ (IF j = N + 1 THEN 1 ELSE j + 1) = k + 2
            /\ k + 2 \in 1 .. N + 1 /\ ~(k + 2 <= k) /\ k + 2 # k + 1 /\ (k + 2) - 1 = k + 1
        BY <1>1, <1>5, <2>4, <3>3
      <4>2. u[k + 2] = s[k + 1]
        BY <4>1
      <4> QED
        BY <3>1, <3>3, <4>1, <4>2
    <3> QED
      BY <3>2, <3>3
  <2>5. CASE j < k
    <3>1. j \in 1 .. N /\ j # N /\ j # N + 1 /\ u[j] = s[j] /\ u[j + 1] = s[j + 1]
      BY <1>1, <1>5, <2>5
    <3> QED
      BY <2>1, <2>5, <3>1
  <2>6. CASE j > k + 1
    <3>1. j - 1 \in 1 .. N /\ j - 1 # k /\ u[j] = s[j - 1] /\ (j - 1 = N <=> j = N + 1)
      BY <1>1, <1>5, <2>6
    <3>2. nx2[u[j]] = s[IF j = N + 1 THEN 1 ELSE j]
      BY <1>1, <2>1, <3>1
    <3>3. j # N + 1 => u[j + 1] = s[j]
      BY <1>1, <1>5, <2>6
    <3> QED
      BY <1>2, <1>7, <3>2, <3>3
  <2> QED
    BY <1>5, <2>3, <2>4, <2>5, <2>6
<1> HIDE DEF u
<1>11. IsRing(u, h, nx2, S \cup {n})
  BY <1>1, <1>6, <1>7, <1>8, <1>9, <1>10, RingBy
<1> QED
  BY <1>1, <1>3, <1>4, <1>11 DEF N

(* The ring read from its second node: cq_dequeue moves the head on.        *)
Turned(s) == [j \in 1 .. Len(s) |-> IF j = Len(s) THEN s[1] ELSE s[j + 1]]

(* Moving the head on leaves the ring a ring, one place further round.      *)
LEMMA RingTurn ==
  ASSUME NEW S, IsFiniteSet(S), S # {}, NEW h, NEW nx, NEW s, IsRing(s, h, nx, S)
  PROVE  /\ IsRing(Turned(s), nx[h], nx, S)
         /\ Len(s) = Cardinality(S)
<1> DEFINE N == Cardinality(S)
           u == [j \in 1 .. N |-> IF j = N THEN s[1] ELSE s[j + 1]]
<1>1. N \in Nat /\ N >= 1
  BY RingSize
<1>2. /\ s \in [1 .. N -> S] /\ s[1] = h
      /\ \A m \in S : \E i \in 1 .. N : s[i] = m
      /\ \A i, j \in 1 .. N : s[i] = s[j] => i = j
      /\ \A i \in 1 .. N : nx[s[i]] = s[IF i = N THEN 1 ELSE i + 1]
  BY DEF IsRing
<1>0. N = Cardinality(S)
  OBVIOUS
<1> HIDE DEF N
<1>3. Len(s) = N
  BY <1>1, <1>2
<1>4. Turned(s) = u
  BY <1>3 DEF Turned
<1>5. u \in [1 .. N -> S]
  BY <1>1, <1>2
<1>6. u[1] = nx[h]
  BY <1>1, <1>2
<1>7. ASSUME NEW m \in S PROVE \E j \in 1 .. N : u[j] = m
  <2>1. PICK i \in 1 .. N : s[i] = m
    BY <1>2
  <2>2. CASE i = 1
    BY <1>1, <2>1, <2>2
  <2>3. CASE i # 1
    <3>1. i - 1 \in 1 .. N /\ i - 1 # N /\ (i - 1) + 1 = i
      BY <1>1, <2>3
    <3>2. u[i - 1] = s[i]
      BY <3>1
    <3> QED
      BY <2>1, <3>1, <3>2
  <2> QED
    BY <2>2, <2>3
<1>8. ASSUME NEW i \in 1 .. N, NEW j \in 1 .. N, u[i] = u[j] PROVE i = j
  <2> DEFINE old(q) == IF q = N THEN 1 ELSE q + 1
  <2>1. \A q \in 1 .. N : old(q) \in 1 .. N /\ u[q] = s[old(q)]
    BY <1>1
  <2>2. old(i) = old(j)
    <3> HIDE DEF old, u
    <3> QED
      BY <1>2, <1>8, <2>1
  <2> QED
    BY <1>1, <2>2
<1>9. ASSUME NEW j \in 1 .. N PROVE nx[u[j]] = u[IF j = N THEN 1 ELSE j + 1]
  <2>1. CASE j = N
    BY <1>1, <1>2, <1>6, <2>1
  <2>2. CASE j # N
    <3>1. j + 1 \in 1 .. N /\ u[j] = s[j + 1]
      BY <1>1, <2>2
    <3>2. nx[u[j]] = s[IF j + 1 = N THEN 1 ELSE (j + 1) + 1]
      BY <1>2, <3>1
    <3>3. u[j + 1] = IF j + 1 = N THEN s[1] ELSE s[(j + 1) + 1]
      BY <3>1
    <3> QED
      BY <2>2, <3>2, <3>3
  <2> QED
    BY <2>1, <2>2
<1> HIDE DEF u
<1>10. IsRing(u, nx[h], nx, S)
  <2>1. \A m \in S : \E j \in 1 .. N : u[j] = m
    BY <1>7
  <2>2. \A i, j \in 1 .. N : u[i] = u[j] => i = j
    BY <1>8
  <2>3. \A j \in 1 .. N : nx[u[j]] = u[IF j = N THEN 1 ELSE j + 1]
    BY <1>9
  <2>4. DOMAIN u = 1 .. N
    BY <1>5
  <2> QED
    BY <1>0, <1>5, <1>6, <2>1, <2>2, <2>3, <2>4 DEF IsRing
<1> QED
  BY <1>0, <1>3, <1>4, <1>10

(* nx2 is nx but that the last node skips the first.                        *)
Skips(nx, nx2, S, h, last) ==
  /\ nx[last] = h /\ nx2[last] = nx[h]
  /\ \A m \in S \ {h, last} : nx2[m] = nx[m]

(* The ring without its first node.                                         *)
Shortened(s) == [j \in 1 .. Len(s) - 1 |-> s[j + 1]]

(* With the first node skipped, the shorter list is a ring.                 *)
LEMMA RingRemove ==
  ASSUME NEW S, IsFiniteSet(S), NEW h, h \in S, S # {h},
         NEW nx, NEW s, IsRing(s, h, nx, S),
         NEW last \in S, NEW nx2, Skips(nx, nx2, S, h, last)
  PROVE  /\ IsRing(Shortened(s), nx[h], nx2, S \ {h})
         /\ Len(s) = Cardinality(S) /\ Cardinality(S) >= 2
         /\ Cardinality(S \ {h}) = Cardinality(S) - 1
         /\ last = s[Cardinality(S)]
<1> DEFINE N == Cardinality(S)
           u == [j \in 1 .. N - 1 |-> s[j + 1]]
<1>1. N \in Nat /\ N - 1 = Cardinality(S \ {h}) /\ N - 1 >= 1
  <2>1. IsFiniteSet(S \ {h}) /\ Cardinality(S \ {h}) = N - 1 /\ S \ {h} # {}
    BY FS_RemoveElement
  <2> QED
    BY <2>1, RingSize
<1>2. /\ s \in [1 .. N -> S] /\ s[1] = h
      /\ \A m \in S : \E i \in 1 .. N : s[i] = m
      /\ \A i, j \in 1 .. N : s[i] = s[j] => i = j
      /\ \A i \in 1 .. N : nx[s[i]] = s[IF i = N THEN 1 ELSE i + 1]
  BY DEF IsRing
<1>0. /\ N = Cardinality(S)
      /\ nx[last] = h /\ nx2[last] = nx[h] /\ \A m \in S \ {h, last} : nx2[m] = nx[m]
  BY DEF Skips
<1> HIDE DEF N
<1>3. Len(s) = N
  BY <1>1, <1>2
<1>4. Shortened(s) = u
  BY <1>3 DEF Shortened
<1>5. last = s[N]
  <2>1. PICK i \in 1 .. N : s[i] = last
    BY <1>2
  <2>2. s[IF i = N THEN 1 ELSE i + 1] = s[1]
    BY <1>0, <1>2, <2>1
  <2>3. i = N
    BY <1>1, <1>2, <2>2
  <2> QED
    BY <2>1, <2>3
<1>6. u \in [1 .. N - 1 -> S \ {h}]
  <2> SUFFICES ASSUME NEW j \in 1 .. N - 1 PROVE s[j + 1] \in S \ {h}
    OBVIOUS
  <2>1. j + 1 \in 1 .. N /\ j + 1 # 1 /\ 1 \in 1 .. N
    BY <1>1
  <2> QED
    BY <1>2, <2>1
<1>7. u[1] = nx[h]
  BY <1>1, <1>2
<1>8. ASSUME NEW m \in S \ {h} PROVE \E j \in 1 .. N - 1 : u[j] = m
  <2>1. PICK i \in 1 .. N : s[i] = m
    BY <1>2
  <2>2. i # 1
    BY <1>2, <2>1
  <2>3. i - 1 \in 1 .. N - 1 /\ (i - 1) + 1 = i
    BY <1>1, <2>2
  <2>4. u[i - 1] = s[i]
    BY <2>3
  <2> QED
    BY <2>1, <2>3, <2>4
<1>9. ASSUME NEW i \in 1 .. N - 1, NEW j \in 1 .. N - 1, u[i] = u[j] PROVE i = j
  <2>1. i + 1 \in 1 .. N /\ j + 1 \in 1 .. N /\ s[i + 1] = s[j + 1]
    BY <1>1, <1>9
  <2>2. i + 1 = j + 1
    BY <1>2, <2>1
  <2> QED
    BY <1>1, <2>2
<1>10. ASSUME NEW j \in 1 .. N - 1 PROVE nx2[u[j]] = u[IF j = N - 1 THEN 1 ELSE j + 1]
  <2>1. j + 1 \in 1 .. N /\ j + 1 # 1 /\ 1 \in 1 .. N /\ N \in 1 .. N /\ u[j] = s[j + 1]
    BY <1>1
  <2>2. CASE j = N - 1
    <3>1. j + 1 = N
      BY <1>1, <2>2
    <3> QED
      BY <1>0, <1>5, <1>7, <2>1, <2>2, <3>1
  <2>3. CASE j # N - 1
    <3>1. j + 1 # N /\ j + 1 \in 1 .. N - 1
      BY <1>1, <2>3
    <3>2. s[j + 1] # h /\ s[j + 1] # last /\ s[j + 1] \in S
      BY <1>2, <1>5, <2>1, <3>1
    <3>3. nx2[u[j]] = s[(j + 1) + 1]
      BY <1>0, <1>2, <2>1, <3>1, <3>2
    <3>4. u[j + 1] = s[(j + 1) + 1]
      BY <3>1
    <3> QED
      BY <2>3, <3>3, <3>4
  <2> QED
    BY <2>2, <2>3
<1> HIDE DEF u
<1>11. IsRing(u, nx[h], nx2, S \ {h})
  BY <1>1, <1>6, <1>7, <1>8, <1>9, <1>10, RingBy
<1>12. N >= 2
  BY <1>1
<1> QED
  BY <1>0, <1>1, <1>3, <1>4, <1>5, <1>11, <1>12

(* The ring of a single node.                                               *)
LEMMA RingOne ==
  ASSUME NEW n, NEW nx, nx[n] = n
  PROVE  /\ IsRing(<<n>>, n, nx, {n})
         /\ Cardinality({n}) = 1
<1>1. Cardinality({n}) = 1
  BY FS_Singleton
<1>2. <<n>> \in [1 .. 1 -> {n}] /\ <<n>>[1] = n
  OBVIOUS
<1>3. DOMAIN <<n>> = 1 .. 1 /\ \A k \in 1 .. 1 : k = 1
  OBVIOUS
<1>4. \A m \in {n} : \E k \in 1 .. 1 : <<n>>[k] = m
  OBVIOUS
<1> QED
  BY <1>1, <1>2, <1>3, <1>4 DEF IsRing

(* Along a ring every node has one before it and one after it.              *)
LEMMA RingLinks ==
  ASSUME NEW S, IsFiniteSet(S), S # {}, NEW h, NEW nx, NEW s, IsRing(s, h, nx, S)
  PROVE  /\ h \in S
         /\ \A n \in S : nx[n] \in S
         /\ \A n \in S : \E m \in S : nx[m] = n
         /\ \A m, n \in S : nx[m] = nx[n] => m = n
         /\ nx[h] = h => S = {h}
<1> DEFINE N == Cardinality(S)
           after(i) == IF i = N THEN 1 ELSE i + 1
<1>1. N \in Nat /\ N >= 1
  BY RingSize
<1>2. /\ s \in [1 .. N -> S] /\ s[1] = h
      /\ \A m \in S : \E i \in 1 .. N : s[i] = m
      /\ \A i, j \in 1 .. N : s[i] = s[j] => i = j
      /\ \A i \in 1 .. N : nx[s[i]] = s[after(i)]
  BY DEF IsRing
<1> HIDE DEF N
<1>3. \A i \in 1 .. N : after(i) \in 1 .. N
  BY <1>1
<1>4. \A i, j \in 1 .. N : after(i) = after(j) => i = j
  BY <1>1
<1>5. \A i \in 1 .. N : \E j \in 1 .. N : after(j) = i
  <2> SUFFICES ASSUME NEW i \in 1 .. N PROVE \E j \in 1 .. N : after(j) = i
    OBVIOUS
  <2>1. CASE i = 1
    BY <1>1, <2>1
  <2>2. CASE i # 1
    <3>1. i - 1 \in 1 .. N /\ after(i - 1) = i
      BY <1>1, <2>2
    <3> QED
      BY <3>1
  <2> QED
    BY <2>1, <2>2
<1>6. after(1) = 1 => N = 1
  BY <1>1
<1>7. 1 \in 1 .. N
  BY <1>1
<1> HIDE DEF after
<1>8. nx[h] = h => S = {h}
  <2> SUFFICES ASSUME nx[h] = h, NEW m \in S PROVE m = h
    BY <1>2, <1>7
  <2>1. after(1) = 1
    BY <1>2, <1>3, <1>7
  <2>2. PICK i \in 1 .. N : s[i] = m
    BY <1>2
  <2>3. i = 1
    BY <1>6, <2>1
  <2> QED
    BY <1>2, <2>2, <2>3
<1>9. \A n \in S : nx[n] \in S
  BY <1>2, <1>3
<1>10. ASSUME NEW n \in S PROVE \E m \in S : nx[m] = n
  <2>1. PICK i \in 1 .. N : s[i] = n
    BY <1>2
  <2>2. PICK j \in 1 .. N : after(j) = i
    BY <1>5
  <2> QED
    BY <1>2, <2>1, <2>2
<1>11. ASSUME NEW m \in S, NEW n \in S, nx[m] = nx[n] PROVE m = n
  <2>1. PICK i \in 1 .. N : s[i] = m
    BY <1>2
  <2>2. PICK j \in 1 .. N : s[j] = n
    BY <1>2
  <2>3. after(i) = after(j)
    BY <1>2, <1>3, <1>11, <2>1, <2>2
  <2> QED
    BY <1>4, <2>1, <2>2, <2>3
<1> QED
  BY <1>2, <1>7, <1>8, <1>9, <1>10, <1>11
-----------------------------------------------------------------------------
(* The ring of the queue                                                    *)

(* What the invariant says of a queue that is not empty.                    *)
LEMMA RingFacts ==
  ASSUME RingInv, head # NULL
  PROVE  /\ IsFiniteSet(Linked) /\ Linked \subseteq live /\ live \subseteq Nodes
         /\ Linked # {} /\ head \in Linked /\ tail \in Linked
         /\ IsRing(RingNodes, head, next, Linked)
         /\ \A n \in Linked : next[n] \in Linked
         /\ \A n \in Linked : \E m \in Linked : next[m] = n
         /\ \A m, n \in Linked : next[m] = next[n] => m = n
         /\ next[head] = head => Linked = {head}
<1>1. Linked \subseteq live /\ live \subseteq Nodes /\ IsFiniteSet(live)
  BY DEF RingInv, TypeOK, Counted, Linked
<1>2. IsFiniteSet(Linked)
  BY <1>1, FS_Subset
<1>3. Linked # {} /\ head \in Linked /\ tail \in Linked /\ IsRing(RingNodes, head, next, Linked)
  BY DEF RingInv, Whole
<1> QED
  BY <1>1, <1>2, <1>3, RingLinks

(* The node that is being linked is allocated, and not in the ring yet.     *)
LEMMA NodeFacts ==
  ASSUME RingInv
  PROVE  /\ pc # "idle" => node \in live
         /\ pc \in {"first", "next", "prev", "headprev", "tailnext"}
              => node \notin Linked /\ live = Linked \cup {node} /\ node \in Nodes
         /\ pc \notin {"first", "next", "prev", "headprev", "tailnext"} => Linked = live
         /\ NULL \notin Linked
<1>1. pc # "idle" => node \in live
  BY DEF RingInv, TypeOK, Counted
<1>2. live \subseteq Nodes
  BY DEF RingInv, TypeOK
<1> QED
  BY <1>1, <1>2, NullAssumption DEF RingInv, Counted, Linked

-----------------------------------------------------------------------------
(* The invariant, action by action, and what each does to the ring          *)

(* The ring after a step, from the sequence that turns out to be it.        *)
LEMMA NextRing ==
  ASSUME IsFiniteSet(Linked'), head' # NULL, NEW s, IsRing(s, head', next', Linked')
  PROVE  RingNodes' = s
<1> QED
  BY RingOfIs DEF RingNodes

(* A step that leaves the head, the linked nodes and their links alone      *)
(* leaves the ring as it was.                                               *)
LEMMA SameNodes ==
  ASSUME RingInv, head' = head, Linked' = Linked, \A n \in Linked : next'[n] = next[n]
  PROVE  /\ RingNodes' = RingNodes
         /\ head # NULL => IsRing(RingNodes', head', next', Linked')
<1>1. CASE head = NULL
  BY <1>1 DEF RingNodes, RingOf
<1>2. CASE head # NULL
  <2>1. IsFiniteSet(Linked) /\ IsRing(RingNodes, head, next, Linked)
    BY <1>2, RingFacts
  <2>2. IsRing(RingNodes, head, next', Linked)
    BY <2>1, SameRing
  <2>3. RingNodes' = RingNodes
    BY <1>2, <2>1, <2>2, NextRing
  <2> QED
    BY <2>2, <2>3
<1> QED
  BY <1>1, <1>2

(* A node that has only been allocated is not in the ring.                  *)
LEMMA NewNodeStep ==
  ASSUME RingInv, NEW x \in Items, NewNode(x)
  PROVE  RingInv' /\ RingNodes' = RingNodes /\ Linked' = Linked
<1>1. PICK n \in Nodes \ live : /\ node' = n /\ live' = live \cup {n}
                              /\ obj' = [obj EXCEPT ![n] = x]
  BY DEF NewNode
<1>2. /\ pc = "idle" /\ \A m \in live : obj[m] # x
      /\ pc' = IF tail = NULL THEN "first" ELSE "next"
      /\ UNCHANGED <<head, tail, size, next, prev>> /\ handled' = FALSE
  BY DEF NewNode
<1>3. TypeOK /\ Counted /\ Whole /\ Linkable
  BY DEF RingInv
<1>4. Linked = live /\ Linked' = live /\ live \subseteq Nodes
  BY <1>1, <1>2, <1>3 DEF Linked, TypeOK
<1>5. TypeOK'
  BY <1>1, <1>2, <1>3 DEF TypeOK
<1>6. Counted'
  <2>1. IsFiniteSet(live') /\ Cardinality(live') = Cardinality(live) + 1
    BY <1>1, <1>3, FS_AddElement DEF Counted
  <2>2. Cardinality(live) \in Nat
    BY <1>3, FS_CardinalityType DEF Counted
  <2>3. size' = Cardinality(live') - 1
    BY <1>2, <1>3, <2>1, <2>2 DEF Counted
  <2>4. pc' # "idle" /\ node' # NULL
    BY <1>1, <1>2, NullAssumption
  <2>5. \A m, k \in live' : obj'[m] \in Items /\ (obj'[m] = obj'[k] => m = k)
    BY <1>1, <1>2, <1>3, <1>4 DEF Counted, TypeOK
  <2> QED
    BY <2>1, <2>3, <2>4, <2>5 DEF Counted
<1>7. RingNodes' = RingNodes /\ (head # NULL => IsRing(RingNodes', head', next', Linked'))
  BY <1>2, <1>4, SameNodes
<1>8. Whole'
  BY <1>2, <1>3, <1>4, <1>7 DEF Whole
<1>9. Linkable'
  BY <1>2, <1>3 DEF Linkable, Whole
<1> QED
  BY <1>4, <1>5, <1>6, <1>7, <1>8, <1>9 DEF RingInv

(* The first node is a ring of its own.                                     *)
LEMMA LinkFirstStep ==
  ASSUME RingInv, LinkFirst
  PROVE  /\ RingInv'
         /\ head = NULL /\ head' = node /\ tail' = node /\ pc' = "count" /\ UNCHANGED obj
         /\ node \in live /\ RingNodes' = <<node>>
<1>1. TypeOK /\ Counted /\ Whole /\ Linkable
  BY DEF RingInv
<1>2. /\ pc = "first" /\ head = NULL /\ Linked = {} /\ live = {node} /\ node \in Nodes
      /\ live' = live /\ Linked' = {node}
  BY <1>1, NodeFacts DEF LinkFirst, Linkable, Whole, Linked
<1>3. next'[node] = node /\ prev'[node] = node
  BY <1>1, <1>2 DEF LinkFirst, TypeOK
<1>4. IsRing(<<node>>, node, next', {node}) /\ IsFiniteSet({node})
  BY <1>3, RingOne, FS_Singleton
<1>5. node # NULL
  BY <1>2, NullAssumption
<1>6. RingNodes' = <<node>> /\ IsRing(RingNodes', head', next', Linked')
  BY <1>2, <1>4, <1>5, NextRing DEF LinkFirst
<1>7. TypeOK'
  BY <1>1, <1>2 DEF LinkFirst, TypeOK
<1>8. Counted'
  BY <1>1, <1>2 DEF LinkFirst, Counted
<1>9. Whole'
  BY <1>2, <1>3, <1>5, <1>6 DEF LinkFirst, Whole
<1>10. Linkable'
  BY <1>5 DEF LinkFirst, Linkable
<1> QED
  BY <1>2, <1>6, <1>7, <1>8, <1>9, <1>10 DEF RingInv, LinkFirst

(* The new node's next is set, which nobody follows yet.                    *)
LEMMA LinkNextStep ==
  ASSUME RingInv, LinkNext
  PROVE  RingInv' /\ RingNodes' = RingNodes /\ Linked' = Linked /\ UNCHANGED <<head, tail, obj>>
<1>1. TypeOK /\ Counted /\ Whole /\ Linkable
  BY DEF RingInv
<1>2. pc = "next" /\ head # NULL
  BY <1>1 DEF LinkNext, Linking, Linkable
<1>3. tail \in Linked /\ tail # NULL /\ next[tail] \in Linked /\ live \subseteq Nodes /\ Linked \subseteq live
  BY <1>2, RingFacts, NodeFacts
<1>4. node \notin Linked /\ node \in Nodes
  BY <1>2, NodeFacts
<1>5. /\ pc' = "prev" /\ UNCHANGED <<head, tail, size, obj, prev, live, node, handled>>
      /\ next' = [next EXCEPT ![node] = next[tail]]
  BY <1>3 DEF LinkNext, Linking
<1>6. Linked' = Linked
  BY <1>2, <1>5 DEF Linked
<1>7. \A n \in Linked : next'[n] = next[n]
  BY <1>1, <1>4, <1>5 DEF TypeOK
<1>8. RingNodes' = RingNodes /\ IsRing(RingNodes', head', next', Linked')
  BY <1>2, <1>5, <1>6, <1>7, SameNodes
<1>9. TypeOK'
  BY <1>1, <1>3, <1>5 DEF TypeOK
<1>10. Counted'
  BY <1>1, <1>2, <1>5 DEF Counted
<1>11. Whole'
  BY <1>1, <1>2, <1>5, <1>6, <1>7, <1>8 DEF Whole
<1>12. Linkable'
  BY <1>1, <1>2, <1>3, <1>4, <1>5 DEF Linkable, TypeOK
<1> QED
  BY <1>5, <1>6, <1>8, <1>9, <1>10, <1>11, <1>12 DEF RingInv

(* The new node's prev is set, which nobody follows yet.                    *)
LEMMA LinkPrevStep ==
  ASSUME RingInv, LinkPrev
  PROVE  RingInv' /\ RingNodes' = RingNodes /\ Linked' = Linked /\ UNCHANGED <<head, tail, obj>>
<1>1. TypeOK /\ Counted /\ Whole /\ Linkable
  BY DEF RingInv
<1>2. pc = "prev" /\ head # NULL
  BY <1>1 DEF LinkPrev, Linkable
<1>3. /\ tail \in Linked /\ Linked \subseteq live /\ live \subseteq Nodes
      /\ \A n \in Linked : next[n] \in Linked
  BY <1>2, RingFacts
<1>4. node \notin Linked /\ node \in Nodes
  BY <1>2, NodeFacts
<1>5. /\ pc' = "headprev" /\ UNCHANGED <<head, tail, size, obj, next, live, node, handled>>
      /\ prev' = [prev EXCEPT ![node] = tail]
  BY DEF LinkPrev
<1>6. Linked' = Linked
  BY <1>2, <1>5 DEF Linked
<1>7. RingNodes' = RingNodes /\ IsRing(RingNodes', head', next', Linked')
  BY <1>2, <1>5, <1>6, SameNodes
<1>8. TypeOK'
  BY <1>1, <1>3, <1>5 DEF TypeOK
<1>9. Counted'
  BY <1>1, <1>2, <1>5 DEF Counted
<1>10. \A n \in Linked : prev'[next[n]] = n
  <2>1. \A n \in Linked : prev[next[n]] = n
    BY <1>1, <1>2 DEF Whole
  <2> QED
    BY <1>1, <1>3, <1>4, <1>5, <2>1 DEF TypeOK
<1>11. Whole'
  BY <1>1, <1>2, <1>5, <1>6, <1>7, <1>10 DEF Whole
<1>12. Linkable'
  BY <1>1, <1>2, <1>4, <1>5 DEF Linkable, TypeOK
<1> QED
  BY <1>5, <1>6, <1>7, <1>8, <1>9, <1>11, <1>12 DEF RingInv

(* The prev of the node after the tail now leads to the new node.           *)
LEMMA LinkHeadPrevStep ==
  ASSUME RingInv, LinkHeadPrev
  PROVE  RingInv' /\ RingNodes' = RingNodes /\ Linked' = Linked /\ UNCHANGED <<head, tail, obj>>
<1>1. TypeOK /\ Counted /\ Whole /\ Linkable
  BY DEF RingInv
<1>2. pc = "headprev" /\ head # NULL
  BY <1>1 DEF LinkHeadPrev, Linking, Linkable
<1>3. /\ tail \in Linked /\ tail # NULL /\ Linked \subseteq live /\ live \subseteq Nodes
      /\ \A n \in Linked : next[n] \in Linked
      /\ \A m, n \in Linked : next[m] = next[n] => m = n
  BY <1>2, RingFacts, NodeFacts
<1>4. node \notin Linked /\ node \in Nodes
  BY <1>2, NodeFacts
<1>5. /\ pc' = "tailnext" /\ UNCHANGED <<head, tail, size, obj, next, live, node, handled>>
      /\ prev' = [prev EXCEPT ![next[tail]] = node]
  BY <1>3 DEF LinkHeadPrev, Linking
<1>6. Linked' = Linked
  BY <1>2, <1>5 DEF Linked
<1>7. RingNodes' = RingNodes /\ IsRing(RingNodes', head', next', Linked')
  BY <1>2, <1>5, <1>6, SameNodes
<1>8. TypeOK'
  BY <1>1, <1>4, <1>5 DEF TypeOK
<1>9. Counted'
  BY <1>1, <1>2, <1>5 DEF Counted
<1>10. \A n \in Linked : prev'[next[n]] = IF n = tail THEN node ELSE n
  <2>1. \A n \in Linked : prev[next[n]] = n
    BY <1>1, <1>2 DEF Whole
  <2>2. \A n \in Linked : prev'[next[n]] = IF next[n] = next[tail] THEN node ELSE prev[next[n]]
    BY <1>1, <1>3, <1>5 DEF TypeOK
  <2> QED
    BY <1>3, <2>1, <2>2
<1>11. Whole'
  BY <1>1, <1>2, <1>5, <1>6, <1>7, <1>10 DEF Whole
<1>12. prev'[node] = tail
  <2>1. prev[node] = tail /\ next[tail] # node
    BY <1>1, <1>2, <1>3, <1>4 DEF Linkable
  <2> QED
    BY <1>1, <1>4, <1>5, <2>1 DEF TypeOK
<1>13. Linkable'
  BY <1>1, <1>2, <1>5, <1>12 DEF Linkable
<1> QED
  BY <1>5, <1>6, <1>7, <1>8, <1>9, <1>11, <1>13 DEF RingInv

(* The tail's next is set: the new node is in the ring, after the tail.     *)
LEMMA LinkTailNextStep ==
  ASSUME RingInv, LinkTailNext
  PROVE  /\ RingInv'
         /\ pc = "tailnext" /\ pc' = "tail" /\ head # NULL /\ UNCHANGED <<head, tail, obj, node>>
         /\ node \in live /\ node \notin Linked /\ tail \in Linked /\ live = Linked \cup {node}
         /\ \E k \in DOMAIN RingNodes : /\ RingNodes[k] = tail
                                       /\ RingNodes' = Inserted(RingNodes, k, node)
<1>1. TypeOK /\ Counted /\ Whole /\ Linkable
  BY DEF RingInv
<1>2. pc = "tailnext" /\ head # NULL
  BY <1>1 DEF LinkTailNext, Linking, Linkable
<1>3. /\ tail \in Linked /\ tail # NULL /\ Linked \subseteq live /\ live \subseteq Nodes
      /\ IsFiniteSet(Linked) /\ IsRing(RingNodes, head, next, Linked)
      /\ \A n \in Linked : next[n] \in Linked
  BY <1>2, RingFacts, NodeFacts
<1>4. node \notin Linked /\ node \in Nodes /\ live = Linked \cup {node} /\ node \in live
  BY <1>2, NodeFacts
<1>5. /\ pc' = "tail" /\ UNCHANGED <<head, tail, size, obj, prev, live, node, handled>>
      /\ next' = [next EXCEPT ![tail] = node]
  BY <1>3 DEF LinkTailNext, Linking
<1>6. Linked' = Linked \cup {node} /\ IsFiniteSet(Linked')
  <2>1. Linked' = live
    BY <1>5 DEF Linked
  <2> QED
    BY <1>1, <1>4, <2>1 DEF Counted
<1>7. /\ next'[tail] = node /\ next'[node] = next[tail]
      /\ \A n \in Linked \ {tail} : next'[n] = next[n]
  <2>1. next[node] = next[tail]
    BY <1>1, <1>2 DEF Linkable
  <2> QED
    BY <1>1, <1>3, <1>4, <1>5, <2>1 DEF TypeOK
<1>8. PICK k \in DOMAIN RingNodes : RingNodes[k] = tail
  BY <1>3 DEF IsRing
<1>9. IsRing(Inserted(RingNodes, k, node), head', next', Linked')
  <2>1. /\ next'[RingNodes[k]] = node /\ next'[node] = next[RingNodes[k]]
        /\ \A m \in Linked \ {RingNodes[k]} : next'[m] = next[m]
    BY <1>7, <1>8
  <2>2. IsRing(Inserted(RingNodes, k, node), head, next', Linked \cup {node})
    BY <1>3, <1>4, <1>8, <2>1, RingInsert
  <2> QED
    BY <1>5, <1>6, <2>2
<1>10. RingNodes' = Inserted(RingNodes, k, node)
  BY <1>2, <1>5, <1>6, <1>9, NextRing
<1>11. TypeOK'
  BY <1>1, <1>3, <1>4, <1>5 DEF TypeOK
<1>12. Counted'
  BY <1>1, <1>2, <1>5 DEF Counted
<1>13. ASSUME NEW n \in Linked' PROVE prev'[next'[n]] = n
  <2>1. \A m \in Linked : prev[next[m]] = IF m = tail THEN node ELSE m
    BY <1>1, <1>2 DEF Whole
  <2>2. prev[node] = tail
    BY <1>1, <1>2 DEF Linkable
  <2> QED
    BY <1>3, <1>5, <1>6, <1>7, <2>1, <2>2
<1>14. Whole'
  <2>1. {head', tail'} \subseteq Linked' \cup {NULL} /\ Linked' # {} /\ head' # NULL /\ tail' # NULL
    BY <1>1, <1>2, <1>3, <1>5, <1>6 DEF Whole
  <2> QED
    BY <1>5, <1>9, <1>10, <1>13, <2>1 DEF Whole
<1>15. Linkable'
  BY <1>2, <1>3, <1>4, <1>5, <1>7 DEF Linkable
<1> QED
  BY <1>2, <1>3, <1>4, <1>5, <1>8, <1>10, <1>11, <1>12, <1>14, <1>15 DEF RingInv

(* The tail moves to the new node, and the ring stays.                      *)
LEMMA MoveTailStep ==
  ASSUME RingInv, MoveTail
  PROVE  /\ RingInv' /\ RingNodes' = RingNodes
         /\ pc = "tail" /\ pc' = "count" /\ tail' = node /\ UNCHANGED <<head, obj>>
<1>1. TypeOK /\ Counted /\ Whole /\ Linkable
  BY DEF RingInv
<1>2. /\ pc = "tail" /\ head # NULL /\ pc' = "count" /\ tail' = node
      /\ UNCHANGED <<head, size, obj, next, prev, live, node, handled>>
  BY <1>1 DEF MoveTail, links, Linkable
<1>3. Linked = live /\ Linked' = live /\ node \in live
  BY <1>2, NodeFacts DEF Linked
<1>4. RingNodes' = RingNodes /\ IsRing(RingNodes', head', next', Linked')
  BY <1>2, <1>3, SameNodes
<1>5. TypeOK'
  BY <1>1, <1>2 DEF TypeOK
<1>6. Counted'
  BY <1>1, <1>2 DEF Counted
<1>7. node # NULL
  BY <1>1, <1>3, NullAssumption DEF TypeOK
<1>8. Whole'
  BY <1>1, <1>2, <1>3, <1>4, <1>7 DEF Whole
<1>9. Linkable'
  BY <1>2 DEF Linkable
<1> QED
  BY <1>2, <1>4, <1>5, <1>6, <1>8, <1>9 DEF RingInv

(* size counts the new node, and the ring stays.                            *)
LEMMA CountStep ==
  ASSUME RingInv, Count
  PROVE  RingInv' /\ RingNodes' = RingNodes /\ Linked' = Linked /\ UNCHANGED <<head, tail, obj>>
<1>1. TypeOK /\ Counted /\ Whole /\ Linkable
  BY DEF RingInv
<1>2. /\ pc = "count" /\ head # NULL /\ pc' = "idle" /\ size' = size + 1 /\ node' = NULL
      /\ UNCHANGED <<head, tail, obj, next, prev, live, handled>>
  BY <1>1 DEF Count, links, Linkable
<1>3. Linked = live /\ Linked' = live
  BY <1>2 DEF Linked
<1>4. RingNodes' = RingNodes /\ IsRing(RingNodes', head', next', Linked')
  BY <1>2, <1>3, SameNodes
<1>5. TypeOK'
  BY <1>1, <1>2 DEF TypeOK
<1>6. Counted'
  <2>1. Cardinality(live) \in Nat
    BY <1>1, FS_CardinalityType DEF Counted
  <2> QED
    BY <1>1, <1>2, <2>1 DEF Counted
<1>7. Whole'
  BY <1>1, <1>2, <1>3, <1>4 DEF Whole
<1>8. Linkable'
  BY <1>2 DEF Linkable
<1> QED
  BY <1>2, <1>3, <1>4, <1>5, <1>6, <1>7, <1>8 DEF RingInv

(* A dequeue moves the head on.                                             *)
LEMMA DequeueStep ==
  ASSUME RingInv, cq_dequeue
  PROVE  /\ RingInv' /\ pc = "idle" /\ pc' = "idle" /\ UNCHANGED <<tail, obj>>
         /\ head = NULL => head' = NULL /\ RingNodes' = RingNodes
         /\ head # NULL => head' # NULL /\ RingNodes' = Turned(RingNodes)
<1>1. TypeOK /\ Counted /\ Whole /\ Linkable
  BY DEF RingInv
<1>2. /\ pc = "idle" /\ head' = IF head = NULL THEN NULL ELSE next[head]
      /\ UNCHANGED <<tail, size, obj, next, prev, live, pc, node, handled>>
  BY DEF cq_dequeue, links
<1>3. Linked = live /\ Linked' = live /\ NULL \notin live
  BY <1>2, NodeFacts DEF Linked
<1>4. Counted'
  BY <1>1, <1>2 DEF Counted
<1>5. Linkable'
  BY <1>1, <1>2 DEF Linkable
<1>6. CASE head = NULL
  <2>1. head' = head
    BY <1>2, <1>6
  <2>2. RingNodes' = RingNodes
    BY <1>2, <1>3, <2>1, SameNodes
  <2>3. TypeOK'
    BY <1>1, <1>2, <2>1 DEF TypeOK
  <2>4. Whole'
    BY <1>1, <1>2, <1>3, <1>6, <2>1, <2>2 DEF Whole
  <2> QED
    BY <1>2, <1>4, <1>5, <1>6, <2>1, <2>2, <2>3, <2>4 DEF RingInv
<1>7. CASE head # NULL
  <2>1. /\ Linked # {} /\ IsFiniteSet(Linked) /\ head \in Linked /\ next[head] \in Linked
        /\ IsRing(RingNodes, head, next, Linked)
    BY <1>7, RingFacts
  <2>2. IsRing(Turned(RingNodes), head', next', Linked')
    BY <1>2, <1>3, <1>7, <2>1, RingTurn
  <2>3. head' # NULL /\ head' \in live
    BY <1>2, <1>3, <1>7, <2>1
  <2>4. RingNodes' = Turned(RingNodes)
    BY <1>3, <2>1, <2>2, <2>3, NextRing
  <2>5. TypeOK'
    BY <1>1, <1>2, <2>3 DEF TypeOK
  <2>6. Whole'
    BY <1>1, <1>2, <1>3, <1>7, <2>2, <2>3, <2>4 DEF Whole
  <2> QED
    BY <1>2, <1>4, <1>5, <1>7, <2>3, <2>4, <2>5, <2>6 DEF RingInv
<1> QED
  BY <1>6, <1>7

(* A removal takes the head out of the ring and frees it.                   *)
LEMMA RemoveStep ==
  ASSUME RingInv, cq_dequeue_and_remove
  PROVE  /\ RingInv' /\ pc = "idle" /\ pc' = "idle"
         /\ head = NULL => head' = NULL /\ RingNodes' = RingNodes
         /\ head # NULL =>
              /\ live' = live \ {head}
              /\ \A n \in live' : obj'[n] = obj[n]
              /\ live = {head} => head' = NULL
              /\ live # {head} =>
                   /\ head' # NULL /\ RingNodes' = Shortened(RingNodes)
                   /\ tail' = IF tail = head THEN RingNodes[Len(RingNodes)] ELSE tail
<1>1. TypeOK /\ Counted /\ Whole /\ Linkable
  BY DEF RingInv
<1>2. pc = "idle" /\ UNCHANGED <<pc, node, handled>> /\ RemoveHead
  BY DEF cq_dequeue_and_remove
<1>3. Linked = live /\ Linked' = live' /\ NULL \notin live
  BY <1>2, NodeFacts DEF Linked
<1>4. Linkable'
  BY <1>1, <1>2 DEF Linkable
<1>5. CASE head = NULL
  <2>1. UNCHANGED <<head, tail, size, obj, next, prev, live, pc, node, handled>>
    BY <1>2, <1>5 DEF RemoveHead, links
  <2>2. RingNodes' = RingNodes
    BY <1>3, <2>1, SameNodes
  <2>3. RingInv'
    BY <1>1, <1>3, <1>4, <1>5, <2>1, <2>2 DEF RingInv, TypeOK, Counted, Whole
  <2> QED
    BY <1>2, <1>5, <2>1, <2>2, <2>3
<1>6. CASE head # NULL
  <2>1. /\ live # {} /\ IsFiniteSet(live) /\ head \in live /\ tail \in live
        /\ live \subseteq Nodes
        /\ IsRing(RingNodes, head, next, live)
        /\ \A n \in live : next[n] \in live
        /\ \A n \in live : \E m \in live : next[m] = n
        /\ \A m, n \in live : next[m] = next[n] => m = n
        /\ next[head] = head => live = {head}
    BY <1>3, <1>6, RingFacts
  <2>2. \A n \in live : prev[next[n]] = n
    BY <1>1, <1>2, <1>3 DEF Whole
  <2>3. PICK last \in live : next[last] = head
    BY <2>1
  <2>4. prev[head] = last
    BY <2>2, <2>3
  <2>5. live' = live \ {head} /\ size' = size - 1 /\ obj' = [obj EXCEPT ![head] = NULL]
    BY <1>2, <1>6 DEF RemoveHead, Freed
  <2>6. /\ IsFiniteSet(live') /\ Cardinality(live') = Cardinality(live) - 1
        /\ Cardinality(live) \in Nat /\ Cardinality(live') \in Nat
    BY <2>1, <2>5, FS_RemoveElement, FS_CardinalityType
  <2>7. \A n \in live' : obj'[n] = obj[n]
    BY <1>1, <2>1, <2>5 DEF TypeOK
  <2>8. Counted'
    <3>1. size' = Cardinality(live')
      BY <1>1, <1>2, <2>5, <2>6 DEF Counted
    <3>2. \A m, n \in live' : obj'[m] \in Items /\ (obj'[m] = obj'[n] => m = n)
      BY <1>1, <2>5, <2>7 DEF Counted
    <3>3. pc' = "idle" /\ node' = NULL
      BY <1>1, <1>2 DEF Counted
    <3>4. size' = Cardinality(live') - (IF pc' = "idle" THEN 0 ELSE 1)
      BY <2>6, <3>1, <3>3
    <3> QED
      BY <2>6, <3>2, <3>3, <3>4 DEF Counted
  <2>9. CASE live = {head}
    <3>1. tail = head /\ next[tail] = head
      BY <2>1, <2>9
    <3>2. head' = NULL /\ tail' = NULL /\ live' = {}
          /\ next' = [next EXCEPT ![head] = NULL] /\ prev' = [prev EXCEPT ![head] = NULL]
      BY <1>2, <1>6, <2>5, <2>9, <3>1 DEF RemoveHead, Freed
    <3>3. TypeOK'
      BY <1>1, <1>2, <2>1, <2>5, <2>6, <2>8, <3>2 DEF TypeOK, Counted
    <3>4. Whole'
      BY <1>3, <3>2 DEF Whole
    <3> QED
      BY <1>2, <1>4, <1>6, <2>5, <2>7, <2>8, <2>9, <3>2, <3>3, <3>4 DEF RingInv
  <2>10. CASE live # {head}
    <3>1. last # head /\ next[head] # head /\ ~(head = tail /\ head = next[tail])
      BY <2>1, <2>3, <2>10
    <3>2. /\ head' = next[head] /\ tail' = IF head = tail THEN last ELSE tail
          /\ next' = [[next EXCEPT ![last] = next[head]] EXCEPT ![head] = NULL]
          /\ prev' = [[prev EXCEPT ![next[head]] = last] EXCEPT ![head] = NULL]
      BY <1>2, <1>6, <2>4, <3>1 DEF RemoveHead, Freed, NewTail
    <3>3. next'[last] = next[head] /\ \A m \in live \ {head, last} : next'[m] = next[m]
      BY <1>1, <2>1, <3>1, <3>2 DEF TypeOK
    <3>4. prev'[next[head]] = last /\ \A m \in live \ {head, next[head]} : prev'[m] = prev[m]
      BY <1>1, <2>1, <3>1, <3>2 DEF TypeOK
    <3>5. /\ IsRing(Shortened(RingNodes), head', next', live')
          /\ Len(RingNodes) = Cardinality(live) /\ last = RingNodes[Cardinality(live)]
      <4>1. /\ IsRing(Shortened(RingNodes), next[head], next', live \ {head})
            /\ Len(RingNodes) = Cardinality(live) /\ last = RingNodes[Cardinality(live)]
        <5>1. IsFiniteSet(live) /\ head \in live /\ IsRing(RingNodes, head, next, live)
          BY <2>1
        <5>2. Skips(next, next', live, head, last)
          BY <2>3, <3>3 DEF Skips
        <5> QED
          BY <2>10, <5>1, <5>2, RingRemove
      <4> QED
        BY <2>5, <3>2, <4>1
    <3>6. head' \in live' /\ head' # NULL /\ tail' \in live' /\ tail' # NULL
      BY <1>3, <2>1, <2>5, <3>1, <3>2
    <3>7. RingNodes' = Shortened(RingNodes)
      BY <1>3, <2>6, <3>5, <3>6, NextRing
    <3>8. TypeOK'
      <4>1. next' \in [Nodes -> Nodes \cup {NULL}] /\ prev' \in [Nodes -> Nodes \cup {NULL}]
        BY <1>1, <2>1, <3>2 DEF TypeOK
      <4>2. size' \in Nat
        BY <1>2, <2>6, <2>8 DEF Counted
      <4>3. obj' \in [Nodes -> Items \cup {NULL}]
        BY <1>1, <2>5 DEF TypeOK
      <4>4. node' = NULL /\ live' \subseteq Nodes
        BY <1>1, <1>2, <2>1, <2>5 DEF Counted
      <4> QED
        BY <1>1, <1>2, <3>6, <4>1, <4>2, <4>3, <4>4 DEF TypeOK
    <3>9. ASSUME NEW n \in live' PROVE prev'[next'[n]] = n
      <4>1. CASE n = last
        BY <3>3, <3>4, <4>1
      <4>2. CASE n # last
        <5>1. n \in live /\ n # head /\ next'[n] = next[n]
          BY <2>5, <3>3, <4>2
        <5>2. next[n] \in live /\ next[n] # head /\ next[n] # next[head]
          BY <2>1, <2>3, <4>2, <5>1
        <5> QED
          BY <2>2, <3>4, <5>1, <5>2
      <4> QED
        BY <4>1, <4>2
    <3>10. Whole'
      <4>1. \A n \in Linked' : prev'[next'[n]] = IF pc' = "tailnext" /\ n = tail' THEN node' ELSE n
        BY <1>2, <1>3, <3>9
      <4> QED
        BY <1>3, <3>5, <3>6, <3>7, <4>1 DEF Whole
    <3> QED
      BY <1>2, <1>4, <1>6, <2>5, <2>7, <2>8, <2>10, <3>2, <3>5, <3>6, <3>7, <3>8, <3>10 DEF RingInv
  <2> QED
    BY <2>9, <2>10
<1> QED
  BY <1>5, <1>6

(* The empty queue is whole.                                                *)
LEMMA RingInit == Init => RingInv
<1> SUFFICES ASSUME Init PROVE RingInv
  OBVIOUS
<1>1. /\ head = NULL /\ tail = NULL /\ size = 0 /\ live = {} /\ pc = "idle" /\ node = NULL
      /\ handled = FALSE
      /\ obj = [n \in Nodes |-> NULL] /\ next = [n \in Nodes |-> NULL]
      /\ prev = [n \in Nodes |-> NULL]
  BY DEF Init
<1>2. TypeOK
  BY <1>1 DEF TypeOK
<1>3. Counted
  <2>1. IsFiniteSet({}) /\ Cardinality({}) = 0
    BY FS_EmptySet
  <2> QED
    BY <1>1, <2>1 DEF Counted
<1>4. Whole
  BY <1>1 DEF Whole, Linked
<1>5. Linkable
  BY <1>1 DEF Linkable
<1> QED
  BY <1>2, <1>3, <1>4, <1>5 DEF RingInv

(* A step that changes nothing keeps the ring.                              *)
LEMMA RingSame ==
  ASSUME RingInv, UNCHANGED vars
  PROVE  RingInv' /\ Ring' = Ring
<1>1. UNCHANGED <<head, tail, size, obj, next, prev, live, pc, node, handled>>
  BY DEF vars, links
<1>2. Linked' = Linked
  BY <1>1 DEF Linked
<1>3. RingNodes' = RingNodes
  BY <1>1, <1>2 DEF RingNodes
<1> QED
  BY <1>1, <1>2, <1>3 DEF RingInv, TypeOK, Counted, Whole, Linkable, Ring

(* Every step keeps the ring whole.                                         *)
LEMMA RingNext == RingInv /\ [Next]_vars => RingInv'
<1> SUFFICES ASSUME RingInv, [Next]_vars PROVE RingInv'
  OBVIOUS
<1>1. CASE \E x \in Items : NewNode(x)
  BY <1>1, NewNodeStep
<1>2. CASE LinkFirst
  BY <1>2, LinkFirstStep
<1>3. CASE LinkNext
  BY <1>3, LinkNextStep
<1>4. CASE LinkPrev
  BY <1>4, LinkPrevStep
<1>5. CASE LinkHeadPrev
  BY <1>5, LinkHeadPrevStep
<1>6. CASE LinkTailNext
  BY <1>6, LinkTailNextStep
<1>7. CASE MoveTail
  BY <1>7, MoveTailStep
<1>8. CASE Count
  BY <1>8, CountStep
<1>9. CASE cq_dequeue
  BY <1>9, DequeueStep
<1>10. CASE cq_dequeue_and_remove
  BY <1>10, RemoveStep
<1>11. CASE UNCHANGED vars
  BY <1>11, RingSame
<1> QED
  BY <1>1, <1>2, <1>3, <1>4, <1>5, <1>6, <1>7, <1>8, <1>9, <1>10, <1>11 DEF Next

(* cq_enqueue, cq_dequeue and cq_dequeue_and_remove, step by step: no step  *)
(* reads a NULL tail, and what each leaves is a ring, or a ring with a node *)
(* that is half linked.                                                     *)
THEOREM RingInvariant == Spec => []RingInv
<1> QED
  BY RingInit, RingNext, PTL DEF Spec

(* Pointers are to allocated nodes at every step of cq_enqueue, and after   *)
(* every removal of cq_dequeue_and_remove.                                  *)
THEOREM RingTypeCorrect == Spec => []TypeOK
<1>1. RingInv => TypeOK
  BY DEF RingInv
<1> QED
  BY <1>1, RingInvariant, PTL

(* Between operations the ring is whole, for every number of nodes.         *)
THEOREM RingWellLinked == Spec => []WellLinked
<1>1. ASSUME RingInv PROVE WellLinked
  <2> SUFFICES ASSUME pc = "idle"
               PROVE  /\ \A n \in live : next[n] \in live /\ prev[next[n]] = n
                      /\ head = NULL <=> live = {}
                      /\ tail = NULL <=> live = {}
                      /\ live # {} => \E s \in [1 .. Cardinality(live) -> live] :
                                        IsRing(s, head, next, live)
                      /\ size = Cardinality(live)
    BY DEF WellLinked
  <2>1. Linked = live
    BY DEF Linked
  <2>2. (head = NULL <=> live = {}) /\ (tail = NULL <=> live = {})
    BY <1>1, <2>1 DEF RingInv, Whole
  <2>3. \A n \in live : prev[next[n]] = n
    BY <1>1, <2>1 DEF RingInv, Whole
  <2>4. IsFiniteSet(live) /\ size = Cardinality(live) - 0
    BY <1>1 DEF RingInv, Counted
  <2>5. size = Cardinality(live)
    BY <2>4, FS_CardinalityType
  <2>6. CASE head = NULL
    BY <2>2, <2>3, <2>5, <2>6
  <2>7. CASE head # NULL
    <3>1. (\A n \in live : next[n] \in live) /\ IsRing(RingNodes, head, next, live)
      BY <1>1, <2>1, <2>7, RingFacts
    <3>2. RingNodes \in [1 .. Cardinality(live) -> live]
      BY <3>1 DEF IsRing
    <3> QED
      BY <2>2, <2>3, <2>5, <3>1, <3>2
  <2> QED
    BY <2>6, <2>7
<1> QED
  BY <1>1, RingInvariant, PTL
-----------------------------------------------------------------------------
(* The promise of module QueueSpec                                          *)

(* InsertAt is what linking a node in does to the sequence.                 *)
LEMMA InsertAtType ==
  ASSUME NEW S, NEW s \in Seq(S), NEW i \in 1 .. Len(s) + 1, NEW e \in S
  PROVE  /\ InsertAt(s, i, e) \in Seq(S)
         /\ Len(InsertAt(s, i, e)) = Len(s) + 1
<1> DEFINE before == SubSeq(s, 1, i - 1)
           after  == SubSeq(s, i, Len(s))
<1>1. before \in Seq(S) /\ Len(before) = i - 1
  BY SubSeqProperties, ElementOfSeq, LenProperties
<1>2. after \in Seq(S) /\ Len(after) = Len(s) + 1 - i
  BY SubSeqProperties, ElementOfSeq, LenProperties
<1>3. <<e>> \in Seq(S) /\ Len(<<e>>) = 1
  OBVIOUS
<1> HIDE DEF before, after
<1>4. before \o <<e>> \in Seq(S) /\ Len(before \o <<e>>) = i
  BY <1>1, <1>3, ConcatProperties
<1>5. /\ (before \o <<e>>) \o after \in Seq(S)
      /\ Len((before \o <<e>>) \o after) = Len(before \o <<e>>) + Len(after)
  BY <1>2, <1>4, ConcatProperties
<1>6. Len(s) \in Nat /\ i \in Int
  BY LenProperties
<1>7. Len((before \o <<e>>) \o after) = Len(s) + 1
  BY SMTT(30), <1>2, <1>4, <1>5, <1>6
<1> QED
  BY <1>5, <1>7 DEF InsertAt, before, after

(* What is where after an insertion.                                        *)
LEMMA InsertAtItems ==
  ASSUME NEW S, NEW s \in Seq(S), NEW i \in 1 .. Len(s) + 1, NEW e \in S
  PROVE  \A j \in 1 .. Len(s) + 1 :
           InsertAt(s, i, e)[j] = IF j < i THEN s[j] ELSE IF j = i THEN e ELSE s[j - 1]
<1> DEFINE before == SubSeq(s, 1, i - 1)
           after  == SubSeq(s, i, Len(s))
<1>0. Len(s) \in Nat /\ DOMAIN s = 1 .. Len(s)
  BY LenProperties
<1>1. before \in Seq(S) /\ Len(before) = i - 1 /\ \A j \in 1 .. i - 1 : before[j] = s[j]
  BY <1>0, SubSeqProperties, ElementOfSeq
<1>2. /\ after \in Seq(S) /\ Len(after) = Len(s) + 1 - i
      /\ \A j \in 1 .. Len(s) + 1 - i : after[j] = s[i + j - 1]
  BY <1>0, SubSeqProperties, ElementOfSeq
<1>3. InsertAt(s, i, e) = (before \o <<e>>) \o after
  BY DEF InsertAt
<1> HIDE DEF before, after
<1>4. <<e>> \in Seq(S) /\ Len(<<e>>) = 1 /\ <<e>>[1] = e
  OBVIOUS
<1>5. /\ before \o <<e>> \in Seq(S) /\ Len(before \o <<e>>) = i
      /\ \A j \in 1 .. i : (before \o <<e>>)[j] = IF j < i THEN s[j] ELSE e
  BY <1>0, <1>1, <1>4, ConcatProperties
<1> DEFINE front_part == before \o <<e>>
<1>6. \A j \in 1 .. Len(s) + 1 :
        (front_part \o after)[j] = IF j <= i THEN front_part[j] ELSE after[j - i]
  <2> HIDE DEF front_part
  <2> QED
    BY <1>0, <1>2, <1>5, ConcatProperties DEF front_part
<1> SUFFICES ASSUME NEW j \in 1 .. Len(s) + 1
             PROVE  InsertAt(s, i, e)[j] = IF j < i THEN s[j] ELSE IF j = i THEN e ELSE s[j - 1]
  OBVIOUS
<1>7. InsertAt(s, i, e)[j] = IF j <= i THEN front_part[j] ELSE after[j - i]
  BY <1>3, <1>6
<1>8. CASE j <= i
  BY <1>5, <1>7, <1>8
<1>9. CASE j > i
  <2>1. j - i \in 1 .. Len(s) + 1 - i /\ i + (j - i) - 1 = j - 1
    BY <1>0, <1>9
  <2> QED
    BY <1>0, <1>2, <1>7, <1>9, <2>1
<1> QED
  BY <1>0, <1>8, <1>9

(* What is queued, by place in the ring, and where the tail is.             *)
LEMMA RingIs ==
  RingInv /\ head # NULL =>
    \A k \in DOMAIN RingNodes :
      RingNodes[k] = (IF pc = "tail" THEN node ELSE tail) =>
        Ring = [ring |-> [j \in DOMAIN RingNodes |-> obj[RingNodes[j]]], tail |-> k]
<1> SUFFICES ASSUME RingInv, head # NULL, NEW k \in DOMAIN RingNodes,
                    RingNodes[k] = (IF pc = "tail" THEN node ELSE tail)
             PROVE  Ring = [ring |-> [j \in DOMAIN RingNodes |-> obj[RingNodes[j]]], tail |-> k]
  OBVIOUS
<1> DEFINE last == IF pc = "tail" THEN node ELSE tail
           place == CHOOSE j \in DOMAIN RingNodes : RingNodes[j] = last
<1>1. \A i, j \in DOMAIN RingNodes : RingNodes[i] = RingNodes[j] => i = j
  BY RingFacts DEF IsRing
<1>2. place \in DOMAIN RingNodes /\ RingNodes[place] = last
  OBVIOUS
<1>3. place = k
  BY <1>1, <1>2
<1>4. Ring = [ring |-> [j \in DOMAIN RingNodes |-> obj[RingNodes[j]]], tail |-> place]
  BY DEF Ring
<1> QED
  BY <1>3, <1>4

(* What an empty queue looks like to the promise.                           *)
LEMMA RingEmpty == head = NULL => Ring = [ring |-> <<>>, tail |-> 0]
<1> SUFFICES ASSUME head = NULL PROVE Ring = [ring |-> <<>>, tail |-> 0]
  OBVIOUS
<1>1. RingNodes = <<>>
  BY DEF RingNodes, RingOf
<1>2. [k \in DOMAIN RingNodes |-> obj[RingNodes[k]]] = <<>>
  BY <1>1
<1> QED
  BY <1>2 DEF Ring

(* The sequence of what is queued.                                          *)
Objects(s, o) == [j \in DOMAIN s |-> o[s[j]]]

(* The objects of the ring are a sequence, as long as the ring.             *)
LEMMA ObjectsSeq ==
  ASSUME RingInv, head # NULL
  PROVE  /\ Cardinality(Linked) \in Nat /\ Cardinality(Linked) >= 1
         /\ RingNodes \in [1 .. Cardinality(Linked) -> Linked]
         /\ Len(RingNodes) = Cardinality(Linked)
         /\ Objects(RingNodes, obj) \in Seq(Items)
         /\ Len(Objects(RingNodes, obj)) = Cardinality(Linked)
         /\ Objects(RingNodes, obj) # <<>>
         /\ \A j \in 1 .. Cardinality(Linked) : Objects(RingNodes, obj)[j] = obj[RingNodes[j]]
         /\ \E k \in DOMAIN RingNodes : RingNodes[k] = (IF pc = "tail" THEN node ELSE tail)
<1> DEFINE N == Cardinality(Linked)
<1>1. /\ IsFiniteSet(Linked) /\ Linked # {} /\ Linked \subseteq live /\ tail \in Linked
      /\ IsRing(RingNodes, head, next, Linked)
  BY RingFacts
<1>2. N \in Nat /\ N >= 1
  BY <1>1, RingSize
<1>3. RingNodes \in [1 .. N -> Linked]
  BY <1>1 DEF IsRing
<1>4. \A n \in Linked : \E k \in DOMAIN RingNodes : RingNodes[k] = n
  BY <1>1 DEF IsRing
<1>5. \A n \in live : obj[n] \in Items
  BY DEF RingInv, Counted
<1> HIDE DEF N
<1>6. Len(RingNodes) = N
  BY <1>2, <1>3
<1>7. Objects(RingNodes, obj) \in [1 .. N -> Items]
  BY <1>1, <1>3, <1>5 DEF Objects
<1>8. Objects(RingNodes, obj) \in Seq(Items) /\ Len(Objects(RingNodes, obj)) = N
  BY <1>2, <1>7
<1>9. \A j \in 1 .. N : Objects(RingNodes, obj)[j] = obj[RingNodes[j]]
  BY <1>3 DEF Objects
<1>10. pc = "tail" => node \in Linked
  BY NodeFacts DEF Linked
<1>11. Objects(RingNodes, obj) # <<>>
  BY <1>2, <1>8
<1> QED
  BY <1>1, <1>2, <1>3, <1>4, <1>6, <1>8, <1>9, <1>10, <1>11 DEF N

(* The ring after a step, by its nodes and the place of its tail.           *)
LEMMA NextRingIs ==
  ASSUME RingInv', head' # NULL, NEW at \in DOMAIN RingNodes',
         RingNodes'[at] = (IF pc' = "tail" THEN node' ELSE tail')
  PROVE  Ring' = [ring |-> Objects(RingNodes', obj'), tail |-> at]
<1>1. (RingInv /\ head # NULL =>
         \A k \in DOMAIN RingNodes :
           RingNodes[k] = (IF pc = "tail" THEN node ELSE tail) =>
             Ring = [ring |-> [j \in DOMAIN RingNodes |-> obj[RingNodes[j]]], tail |-> k])'
  BY RingIs, PTL
<1> QED
  BY <1>1 DEF Objects

(* Steps that the promise does not see.                                     *)
LEMMA SameView ==
  ASSUME RingInv, RingInv', head' = head, RingNodes' = RingNodes,
         \A n \in Linked : obj'[n] = obj[n],
         (IF pc' = "tail" THEN node' ELSE tail') = (IF pc = "tail" THEN node ELSE tail)
  PROVE  Ring' = Ring
<1>1. CASE head = NULL
  BY <1>1 DEF Ring, RingNodes, RingOf
<1>2. CASE head # NULL
  <2>1. /\ RingNodes \in [1 .. Cardinality(Linked) -> Linked]
        /\ \E k \in DOMAIN RingNodes : RingNodes[k] = (IF pc = "tail" THEN node ELSE tail)
    BY <1>2, ObjectsSeq
  <2>2. [k \in DOMAIN RingNodes' |-> obj'[RingNodes'[k]]] =
          [k \in DOMAIN RingNodes |-> obj[RingNodes[k]]]
    BY <2>1
  <2>3. PICK at \in DOMAIN RingNodes : RingNodes[at] = (IF pc = "tail" THEN node ELSE tail)
    BY <2>1
  <2>4. Ring = [ring |-> [j \in DOMAIN RingNodes |-> obj[RingNodes[j]]], tail |-> at]
    BY <1>2, <2>3, RingIs
  <2>5. at \in DOMAIN RingNodes' /\ RingNodes'[at] = (IF pc' = "tail" THEN node' ELSE tail')
    BY <2>3
  <2>6. Ring' = [ring |-> Objects(RingNodes', obj'), tail |-> at]
    BY <1>2, <2>5, NextRingIs
  <2> QED
    BY <2>2, <2>4, <2>6 DEF Objects
<1> QED
  BY <1>1, <1>2

(* N members of S in a row, and what holds items.                          *)
Listing(s, N, S) == N \in Nat /\ s \in [1 .. N -> S]
HoldItems(o, S)  == \A m \in S : o[m] \in Items

(* InsertAt in the queue of objects is linking the node into the ring.      *)
LEMMA InsertObjects ==
  ASSUME NEW N, NEW S, NEW s, Listing(s, N, S), NEW k \in DOMAIN s,
         NEW n, NEW o, HoldItems(o, S \cup {n})
  PROVE  /\ Abstract!InsertAt(Objects(s, o), k + 1, o[n]) = Objects(Inserted(s, k, n), o)
         /\ k + 1 \in DOMAIN Inserted(s, k, n) /\ Inserted(s, k, n)[k + 1] = n
<1> DEFINE q == Objects(s, o)
           u == [j \in 1 .. N + 1 |-> IF j <= k THEN s[j] ELSE IF j = k + 1 THEN n ELSE s[j - 1]]
           r == InsertAt(q, k + 1, o[n])
<1>0. /\ N \in Nat /\ s \in [1 .. N -> S] /\ k \in 1 .. N
      /\ (\A m \in S : o[m] \in Items) /\ o[n] \in Items
  BY DEF HoldItems, Listing
<1>1. q \in [1 .. N -> Items] /\ \A j \in 1 .. N : q[j] = o[s[j]]
  BY <1>0 DEF Objects
<1>2. q \in Seq(Items) /\ Len(q) = N /\ Len(s) = N
  BY <1>0, <1>1
<1>3. Inserted(s, k, n) = u
  BY <1>2 DEF Inserted
<1> HIDE DEF q, r, u
<1>4. k + 1 \in 1 .. Len(q) + 1 /\ q \in Seq(Items) /\ o[n] \in Items
  BY <1>0, <1>2
<1>5. r \in Seq(Items) /\ Len(r) = N + 1
  <2>1. /\ InsertAt(q, k + 1, o[n]) \in Seq(Items)
        /\ Len(InsertAt(q, k + 1, o[n])) = Len(q) + 1
    BY Zenon, <1>4, InsertAtType
  <2> QED
    BY <1>2, <2>1 DEF r
<1>6. \A j \in 1 .. N + 1 : r[j] = IF j < k + 1 THEN q[j] ELSE IF j = k + 1 THEN o[n] ELSE q[j - 1]
  BY <1>0, <1>2, <1>4, InsertAtItems DEF r
<1> USE DEF u
<1>7. ASSUME NEW j \in 1 .. N + 1 PROVE r[j] = o[u[j]]
  <2>1. CASE j <= k
    <3>1. j \in 1 .. N /\ j < k + 1
      BY <1>0, <2>1
    <3> QED
      BY <1>1, <1>6, <2>1, <3>1
  <2>2. CASE j = k + 1
    <3>1. ~(j < k + 1) /\ ~(j <= k)
      BY <1>0, <2>2
    <3> QED
      BY <1>6, <2>2, <3>1
  <2>3. CASE j > k + 1
    <3>1. j - 1 \in 1 .. N /\ ~(j < k + 1) /\ j # k + 1 /\ ~(j <= k)
      BY <1>0, <2>3
    <3> QED
      BY <1>1, <1>6, <3>1
  <2> QED
    BY <1>0, <2>1, <2>2, <2>3
<1>8. r = [j \in 1 .. N + 1 |-> r[j]]
  BY <1>5
<1>9. DOMAIN u = 1 .. N + 1 /\ k + 1 \in 1 .. N + 1 /\ u[k + 1] = n
  BY <1>0
<1> HIDE DEF u
<1>10. r = Objects(u, o)
  BY <1>7, <1>8, <1>9 DEF Objects
<1>11. Abstract!InsertAt(q, k + 1, o[n]) = r
  BY DEF Abstract!InsertAt, InsertAt, r
<1> QED
  BY <1>3, <1>9, <1>10, <1>11 DEF q

(* The objects of the ring turned, and shortened.                           *)
LEMMA TurnObjects ==
  ASSUME NEW N, NEW S, NEW s, Listing(s, N, S), N >= 1, NEW o, HoldItems(o, S)
  PROVE  /\ Append(Tail(Objects(s, o)), Head(Objects(s, o))) = Objects(Turned(s), o)
         /\ Tail(Objects(s, o)) = Objects(Shortened(s), o)
<1> DEFINE q == Objects(s, o)
           u == [j \in 1 .. N |-> IF j = N THEN s[1] ELSE s[j + 1]]
           v == [j \in 1 .. N - 1 |-> s[j + 1]]
           r == Append(Tail(q), Head(q))
<1>0. N \in Nat /\ s \in [1 .. N -> S]
  BY DEF Listing
<1>1. q \in [1 .. N -> Items] /\ \A j \in 1 .. N : q[j] = o[s[j]]
  BY <1>0 DEF Objects, HoldItems
<1>2. q \in Seq(Items) /\ Len(q) = N /\ Len(s) = N /\ q # <<>>
  BY <1>0, <1>1
<1>3. Turned(s) = u /\ Shortened(s) = v
  BY <1>2 DEF Turned, Shortened
<1> HIDE DEF q
<1>4. /\ Tail(q) \in Seq(Items) /\ Len(Tail(q)) = N - 1
      /\ \A j \in 1 .. N - 1 : Tail(q)[j] = q[j + 1]
      /\ Head(q) = q[1] /\ Head(q) \in Items
  BY <1>2, HeadTailProperties
<1>5. Tail(q) = [j \in 1 .. N - 1 |-> Tail(q)[j]]
  <2> DEFINE x == Tail(q)
  <2> HIDE DEF x
  <2>1. x \in Seq(Items) /\ Len(x) = N - 1
    BY <1>4 DEF x
  <2>2. x = [j \in 1 .. N - 1 |-> x[j]]
    BY <2>1
  <2> QED
    BY <2>2 DEF x
<1>6. \A j \in 1 .. N - 1 : j + 1 \in 1 .. N /\ j \in 1 .. N /\ j # N
  BY <1>0
<1>7. \A j \in 1 .. N - 1 : Tail(q)[j] = o[v[j]]
  BY <1>1, <1>4, <1>6
<1>8. r \in Seq(Items) /\ Len(r) = N /\ r[N] = Head(q) /\ \A j \in 1 .. N - 1 : r[j] = Tail(q)[j]
  <2> DEFINE x == Tail(q)
             y == Head(q)
  <2> HIDE DEF x, y
  <2>1. x \in Seq(Items) /\ Len(x) = N - 1 /\ y \in Items
    BY <1>4 DEF x, y
  <2>2. /\ Append(x, y) \in Seq(Items) /\ Len(Append(x, y)) = N /\ Append(x, y)[N] = y
        /\ \A j \in 1 .. N - 1 : Append(x, y)[j] = x[j]
    BY <1>0, <2>1, AppendProperties
  <2> QED
    BY <2>2 DEF x, y
<1> HIDE DEF r
<1>9. \A j \in 1 .. N : r[j] = o[u[j]]
  <2> SUFFICES ASSUME NEW j \in 1 .. N PROVE r[j] = o[u[j]]
    OBVIOUS
  <2>1. CASE j = N
    BY <1>1, <1>4, <1>8, <2>1
  <2>2. CASE j # N
    <3>1. j \in 1 .. N - 1 /\ u[j] = v[j]
      BY <1>0, <2>2
    <3> QED
      BY <1>7, <1>8, <3>1
  <2> QED
    BY <2>1, <2>2
<1>10. r = [j \in 1 .. N |-> r[j]]
  BY <1>8
<1>11. DOMAIN u = 1 .. N /\ DOMAIN v = 1 .. N - 1
  OBVIOUS
<1> HIDE DEF u, v
<1>12. r = Objects(u, o)
  BY <1>9, <1>10, <1>11 DEF Objects
<1>13. Tail(q) = Objects(v, o)
  BY <1>5, <1>7, <1>11 DEF Objects
<1> QED
  BY <1>3, <1>12, <1>13 DEF q, r

(* cq_enqueue is one step of the promise: the one that puts the new node in *)
(* the ring.                                                                *)
LEMMA EnqueueSeen ==
  ASSUME RingInv, LinkTailNext
  PROVE  Abstract!Next
<1>1. /\ RingInv' /\ pc = "tailnext" /\ pc' = "tail" /\ head # NULL
      /\ UNCHANGED <<head, tail, obj, node>>
      /\ node \in live /\ node \notin Linked /\ live = Linked \cup {node}
  BY LinkTailNextStep
<1>2. PICK k \in DOMAIN RingNodes : /\ RingNodes[k] = tail
                                 /\ RingNodes' = Inserted(RingNodes, k, node)
  BY LinkTailNextStep
<1> DEFINE N == Cardinality(Linked)
           x == obj[node]
<1>3. /\ N \in Nat /\ N >= 1 /\ RingNodes \in [1 .. N -> Linked]
      /\ \A j \in 1 .. N : Objects(RingNodes, obj)[j] = obj[RingNodes[j]]
      /\ Len(Objects(RingNodes, obj)) = N /\ Objects(RingNodes, obj) \in Seq(Items)
  BY <1>1, ObjectsSeq
<1>4. x \in Items /\ \A m \in Linked : obj[m] \in Items /\ obj[m] # x
  BY <1>1 DEF RingInv, Counted
<1> HIDE DEF N
<1>5. Ring = [ring |-> Objects(RingNodes, obj), tail |-> k]
  BY <1>1, <1>2, RingIs DEF Objects
<1>6. x \notin Abstract!QueueItems(Ring)
  BY <1>3, <1>4, <1>5 DEF Abstract!QueueItems
<1>7. k \in 1 .. N
  BY <1>3
<1>8. /\ Abstract!InsertAt(Objects(RingNodes, obj), k + 1, x) = Objects(RingNodes', obj)
      /\ k + 1 \in DOMAIN RingNodes' /\ RingNodes'[k + 1] = node
  <2>1. /\ Abstract!InsertAt(Objects(RingNodes, obj), k + 1, obj[node])
             = Objects(Inserted(RingNodes, k, node), obj)
        /\ k + 1 \in DOMAIN Inserted(RingNodes, k, node)
        /\ Inserted(RingNodes, k, node)[k + 1] = node
    <3>1. HoldItems(obj, Linked \cup {node})
      BY <1>4 DEF HoldItems
    <3>2. Listing(RingNodes, N, Linked)
      BY <1>3 DEF Listing
    <3> QED
      BY <3>1, <3>2, InsertObjects
  <2> QED
    BY <1>2, <2>1
<1>9. Ring' = [ring |-> Objects(RingNodes', obj'), tail |-> k + 1]
  BY <1>1, <1>8, NextRingIs
<1>10. Ring' = Abstract!cq_enqueue(Ring, x)
  BY <1>1, <1>5, <1>8, <1>9 DEF Abstract!cq_enqueue
<1> QED
  BY <1>4, <1>6, <1>10 DEF Abstract!Next, Abstract!Enqueue, Abstract!enqueue

(* The first node of an empty queue is queued when it is linked.            *)
LEMMA FirstSeen ==
  ASSUME RingInv, LinkFirst
  PROVE  Abstract!Next
<1>1. /\ RingInv' /\ head = NULL /\ head' = node /\ tail' = node /\ pc' = "count" /\ UNCHANGED obj
      /\ node \in live /\ RingNodes' = <<node>>
  BY LinkFirstStep
<1> DEFINE x == obj[node]
<1>2. x \in Items /\ head' # NULL
  BY <1>1, NullAssumption DEF RingInv, Counted, TypeOK
<1>3. Ring = [ring |-> <<>>, tail |-> 0]
  BY <1>1, RingEmpty
<1>4. Objects(RingNodes', obj') = <<x>>
  BY <1>1 DEF Objects
<1>5. Ring' = [ring |-> <<x>>, tail |-> 1]
  <2>1. 1 \in DOMAIN RingNodes' /\ RingNodes'[1] = node
    BY <1>1
  <2>2. Ring' = [ring |-> Objects(RingNodes', obj'), tail |-> 1]
    BY <1>1, <1>2, <2>1, NextRingIs
  <2> QED
    BY <1>4, <2>2
<1> HIDE DEF x
<1>6. x \notin Abstract!QueueItems(Ring)
  BY <1>3 DEF Abstract!QueueItems
<1>7. Abstract!InsertAt(<<>>, 1, x) = <<x>>
  <2> DEFINE none == <<>>
             r == InsertAt(none, 1, x)
  <2>0. Len(none) = 0
    OBVIOUS
  <2>1. none \in Seq(Items) /\ 1 \in 1 .. Len(none) + 1 /\ x \in Items
    BY <1>2
  <2> HIDE DEF none
  <2>2. r \in Seq(Items) /\ Len(r) = Len(none) + 1
    BY <2>1, InsertAtType
  <2>3. \A j \in 1 .. Len(none) + 1 :
          r[j] = IF j < 1 THEN none[j] ELSE IF j = 1 THEN x ELSE none[j - 1]
    BY <2>1, InsertAtItems
  <2> HIDE DEF r
  <2>4. r \in Seq(Items) /\ Len(r) = 1 /\ r[1] = x
    BY <2>0, <2>2, <2>3
  <2>5. r = <<x>>
    BY <2>4
  <2>6. Abstract!InsertAt(none, 1, x) = r
    BY DEF Abstract!InsertAt, InsertAt, r
  <2> QED
    BY <2>5, <2>6 DEF none
<1>8. Ring' = Abstract!cq_enqueue(Ring, x)
  BY <1>3, <1>5, <1>7 DEF Abstract!cq_enqueue
<1> QED
  BY <1>2, <1>6, <1>8 DEF Abstract!Next, Abstract!Enqueue, Abstract!enqueue

(* What a dequeue of the promise may do.                                    *)
LEMMA DequeuePromise ==
  /\ Ring' = Abstract!cq_dequeue(Ring) => Abstract!Next
  /\ Ring' = Abstract!cq_dequeue_and_remove(Ring) => Abstract!Next
<1>1. Abstract!dequeue(Ring, FALSE) = {Abstract!cq_dequeue(Ring)}
  BY DEF Abstract!dequeue
<1>2. Abstract!dequeue(Ring, TRUE) = {Abstract!cq_dequeue_and_remove(Ring)}
  BY DEF Abstract!dequeue
<1> QED
  BY <1>1, <1>2 DEF Abstract!Next, Abstract!Dequeue

(* A dequeue is the one promised.                                           *)
LEMMA DequeueSeen ==
  ASSUME RingInv, cq_dequeue
  PROVE  Abstract!Next \/ Ring' = Ring
<1>1. /\ RingInv' /\ pc = "idle" /\ pc' = "idle" /\ UNCHANGED <<tail, obj>>
      /\ head = NULL => head' = NULL /\ RingNodes' = RingNodes
      /\ head # NULL => head' # NULL /\ RingNodes' = Turned(RingNodes)
  BY DequeueStep
<1>2. CASE head = NULL
  BY <1>1, <1>2, SameView
<1>3. CASE head # NULL
  <2> DEFINE N == Cardinality(Linked)
             q == Objects(RingNodes, obj)
  <2>1. /\ N \in Nat /\ N >= 1 /\ RingNodes \in [1 .. N -> Linked] /\ Len(RingNodes) = N
        /\ q \in Seq(Items) /\ Len(q) = N /\ q # <<>>
        /\ \E k \in DOMAIN RingNodes : RingNodes[k] = tail
    BY <1>1, <1>3, ObjectsSeq
  <2>2. HoldItems(obj, Linked) /\ Listing(RingNodes, N, Linked)
    BY <2>1 DEF HoldItems, Listing, RingInv, Counted, Linked
  <2>3. PICK k \in DOMAIN RingNodes : RingNodes[k] = tail
    BY <2>1
  <2> HIDE DEF N, q
  <2>4. Ring = [ring |-> q, tail |-> k]
    BY <1>1, <1>3, <2>3, RingIs DEF Objects, q
  <2>5. Append(Tail(q), Head(q)) = Objects(Turned(RingNodes), obj)
    BY <2>1, <2>2, TurnObjects DEF q
  <2> DEFINE to == IF k = 1 THEN N ELSE k - 1
  <2>6. k \in 1 .. N
    BY <2>1
  <2>7. to \in DOMAIN RingNodes' /\ RingNodes'[to] = tail
    BY <1>1, <1>3, <2>1, <2>3, <2>6 DEF Turned
  <2>8. Ring' = [ring |-> Objects(RingNodes', obj'), tail |-> to]
    BY <1>1, <1>3, <2>7, NextRingIs
  <2>9. Abstract!cq_dequeue(Ring) = [ring |-> Append(Tail(q), Head(q)), tail |-> to]
    BY <2>1, <2>4 DEF Abstract!cq_dequeue
  <2>10. Ring' = Abstract!cq_dequeue(Ring)
    BY <1>1, <1>3, <2>5, <2>8, <2>9
  <2> QED
    BY <2>10, DequeuePromise
<1> QED
  BY <1>2, <1>3

(* A removal is the one promised.                                           *)
LEMMA RemoveSeen ==
  ASSUME RingInv, cq_dequeue_and_remove
  PROVE  Abstract!Next
<1>1. /\ RingInv' /\ pc = "idle" /\ pc' = "idle"
      /\ head = NULL => head' = NULL /\ RingNodes' = RingNodes
      /\ head # NULL =>
           /\ live' = live \ {head}
           /\ \A n \in live' : obj'[n] = obj[n]
           /\ live = {head} => head' = NULL
           /\ live # {head} =>
                /\ head' # NULL /\ RingNodes' = Shortened(RingNodes)
                /\ tail' = IF tail = head THEN RingNodes[Len(RingNodes)] ELSE tail
  BY RemoveStep
<1> SUFFICES Ring' = Abstract!cq_dequeue_and_remove(Ring)
  BY DequeuePromise
<1>2. CASE head = NULL
  <2>1. Ring = [ring |-> <<>>, tail |-> 0] /\ Ring' = [ring |-> <<>>, tail |-> 0]
    <3>1. (head = NULL => Ring = [ring |-> <<>>, tail |-> 0])'
      BY RingEmpty, PTL
    <3> QED
      BY <1>1, <1>2, <3>1, RingEmpty
  <2> QED
    BY <2>1 DEF Abstract!cq_dequeue_and_remove
<1>3. CASE head # NULL
  <2> DEFINE N == Cardinality(Linked)
             q == Objects(RingNodes, obj)
  <2>1. /\ N \in Nat /\ N >= 1 /\ RingNodes \in [1 .. N -> Linked] /\ Len(RingNodes) = N
        /\ q \in Seq(Items) /\ Len(q) = N /\ q # <<>>
        /\ \E k \in DOMAIN RingNodes : RingNodes[k] = tail
    BY <1>1, <1>3, ObjectsSeq
  <2>2. HoldItems(obj, Linked) /\ Listing(RingNodes, N, Linked)
    BY <2>1 DEF HoldItems, Listing, RingInv, Counted, Linked
  <2>3. PICK k \in DOMAIN RingNodes : RingNodes[k] = tail
    BY <2>1
  <2>4. /\ Linked = live /\ RingNodes[1] = head
        /\ \A i, j \in DOMAIN RingNodes : RingNodes[i] = RingNodes[j] => i = j
    BY <1>1, <1>3, RingFacts DEF Linked, IsRing
  <2>5. live = {head} => N = 1
    BY <2>4, FS_Singleton
  <2> HIDE DEF N, q
  <2>6. Ring = [ring |-> q, tail |-> k]
    BY <1>1, <1>3, <2>3, RingIs DEF Objects, q
  <2>7. Tail(q) = Objects(Shortened(RingNodes), obj)
    BY <2>1, <2>2, TurnObjects DEF q
  <2>8. k \in 1 .. N /\ (k = 1 <=> tail = head)
    BY <2>1, <2>3, <2>4
  <2> DEFINE to == IF k = 1 THEN N - 1 ELSE k - 1
  <2>9. Abstract!cq_dequeue_and_remove(Ring) = [ring |-> Tail(q), tail |-> to]
    BY <2>1, <2>6 DEF Abstract!cq_dequeue_and_remove
  <2>10. CASE live = {head}
    <3>1. N = 1 /\ k = 1
      BY <2>5, <2>8, <2>10
    <3>2. Shortened(RingNodes) = <<>>
      BY <2>1, <3>1 DEF Shortened
    <3>3. Tail(q) = <<>>
      BY <2>7, <3>2 DEF Objects
    <3>4. (head = NULL => Ring = [ring |-> <<>>, tail |-> 0])'
      BY RingEmpty, PTL
    <3> QED
      BY <1>1, <1>3, <2>9, <2>10, <3>1, <3>3, <3>4
  <2>11. CASE live # {head}
    <3>1. /\ head' # NULL /\ RingNodes' = Shortened(RingNodes) /\ live' = live \ {head}
          /\ \A n \in live' : obj'[n] = obj[n]
          /\ tail' = IF tail = head THEN RingNodes[N] ELSE tail
      BY <1>1, <1>3, <2>1, <2>11
    <3>2. N # 1
      <4>1. \E n \in live : n # head
        BY <1>3, <2>4, <2>11, RingFacts
      <4>2. PICK n \in live : n # head
        BY <4>1
      <4>3. PICK j \in DOMAIN RingNodes : RingNodes[j] = n
        BY <1>3, <2>4, RingFacts DEF IsRing
      <4> QED
        BY <2>1, <2>4, <4>2, <4>3
    <3>3. to \in DOMAIN RingNodes' /\ RingNodes'[to] = tail'
      BY <2>1, <2>3, <2>8, <3>1, <3>2 DEF Shortened
    <3>4. Ring' = [ring |-> Objects(RingNodes', obj'), tail |-> to]
      BY <1>1, <3>1, <3>3, NextRingIs
    <3>5. ASSUME NEW j \in DOMAIN RingNodes' PROVE RingNodes'[j] \in live'
      <4>1. /\ j + 1 \in 1 .. N /\ 1 \in 1 .. N /\ j + 1 # 1
            /\ RingNodes'[j] = RingNodes[j + 1]
        BY <2>1, <3>1 DEF Shortened
      <4>2. RingNodes[j + 1] \in live /\ RingNodes[j + 1] # head
        BY <2>1, <2>4, <4>1
      <4> QED
        BY <3>1, <4>1, <4>2
    <3>6. Objects(RingNodes', obj') = Objects(RingNodes', obj)
      BY <3>1, <3>5 DEF Objects
    <3> QED
      BY <2>7, <2>9, <3>1, <3>4, <3>6
  <2> QED
    BY <2>10, <2>11
<1> QED
  BY <1>2, <1>3

(* Every step is one that the promise allows, or one that it does not see.  *)
LEMMA RingStepSeen == RingInv /\ [Next]_vars => [Abstract!Next]_Ring
<1> SUFFICES ASSUME RingInv, [Next]_vars PROVE Abstract!Next \/ Ring' = Ring
  OBVIOUS
<1>1. ASSUME NEW x \in Items, NewNode(x) PROVE Ring' = Ring
  <2>1. RingInv' /\ RingNodes' = RingNodes
    BY <1>1, NewNodeStep
  <2>2. UNCHANGED <<head, tail>> /\ pc # "tail" /\ pc' # "tail"
    BY <1>1 DEF NewNode
  <2>3. \A n \in Linked : obj'[n] = obj[n]
    BY <1>1 DEF NewNode, RingInv, TypeOK, Linked
  <2> QED
    BY <2>1, <2>2, <2>3, SameView
<1>2. CASE LinkNext
  BY <1>2, LinkNextStep, SameView DEF LinkNext, Linking
<1>3. CASE LinkPrev
  BY <1>3, LinkPrevStep, SameView DEF LinkPrev
<1>4. CASE LinkHeadPrev
  BY <1>4, LinkHeadPrevStep, SameView DEF LinkHeadPrev, Linking
<1>5. CASE MoveTail
  BY <1>5, MoveTailStep, SameView
<1>6. CASE Count
  BY <1>6, CountStep, SameView DEF Count
<1>7. CASE UNCHANGED vars
  BY <1>7, RingSame
<1> QED
  BY <1>1, <1>2, <1>3, <1>4, <1>5, <1>6, <1>7, FirstSeen, EnqueueSeen, DequeueSeen, RemoveSeen
     DEF Next

(* The queue starts as promised.                                            *)
LEMMA RingInitSeen == Init => Abstract!Init
<1>1. Abstract!init_queue = [ring |-> <<>>, tail |-> 0]
  BY DEF Abstract!init_queue, Abstract!circular_queue
<1> QED
  BY <1>1, RingEmpty DEF Init, Abstract!Init

(* The linked ring implements the sequence and the position of its tail     *)
(* that the scheduler's model uses: each call has the result that module    *)
(* ReadyQueue gives it, for every number of nodes and whatever is queued.   *)
THEOREM RingImplementsReadyQueue == Spec => ImplementsReadyQueue
<1> QED
  BY RingInitSeen, RingStepSeen, RingInvariant, PTL DEF Spec, ImplementsReadyQueue, Abstract!Spec
-----------------------------------------------------------------------------
(* Places of an array                                                       *)

(* The places above and below a place of the array.                         *)
LEMMA ParentFacts ==
  ASSUME NEW i \in Nat, i > 0
  PROVE  /\ Parent(i) \in Nat /\ Parent(i) < i
         /\ \A p \in Nat : Parent(i) = p <=> i = 2 * p + 1 \/ i = 2 * p + 2
<1> QED
  BY DEF Parent

(* What pq_swap does.                                                       *)
LEMMA SwapFacts ==
  ASSUME NEW a, NEW i \in DOMAIN a, NEW j \in DOMAIN a
  PROVE  /\ DOMAIN pq_swap(a, i, j) = DOMAIN a
         /\ pq_swap(a, i, j)[i] = a[j] /\ pq_swap(a, i, j)[j] = a[i]
         /\ \A k \in DOMAIN a : k # i /\ k # j => pq_swap(a, i, j)[k] = a[k]
<1> QED
  BY DEF pq_swap

(* A bound that every place has from its own value or from an earlier place *)
(* is a bound of all.                                                       *)
LEMMA Bound ==
  ASSUME NEW n \in Nat, NEW f, \A i \in 0 .. n - 1 : f[i] \in Int,
         NEW D \in SUBSET (0 .. n - 1), NEW m \in Int,
         \A i \in D : f[i] <= m \/ \E j \in D : j < i /\ f[i] <= f[j]
  PROVE  \A i \in D : f[i] <= m
<1> DEFINE S == {i \in D : ~(f[i] <= m)}
<1> SUFFICES ASSUME S # {} PROVE FALSE
  OBVIOUS
<1>0. D \subseteq 0 .. n - 1
  OBVIOUS
<1>1. S \subseteq Nat
  <2>1. 0 .. n - 1 \subseteq Nat /\ S \subseteq D
    OBVIOUS
  <2> HIDE DEF S
  <2> QED
    BY <1>0, <2>1
<1> HIDE DEF S
<1>2. PICK i \in S : \A s \in S : i <= s
  BY <1>1, LeastElement
<1>3. i \in D /\ ~(f[i] <= m)
  BY DEF S
<1>4. PICK j \in D : j < i /\ f[i] <= f[j]
  BY <1>3
<1>5. j \in S
  <2>1. f[i] \in Int /\ f[j] \in Int
    BY <1>0, <1>3
  <2> QED
    BY <1>3, <1>4, <2>1 DEF S
<1>6. i <= j /\ i \in Nat /\ j \in Nat
  BY <1>1, <1>2, <1>5
<1> QED
  BY <1>4, <1>6

-----------------------------------------------------------------------------
(* The heap                                                                 *)

(* What is in the places that are used.                                     *)
LEMMA HeapFacts ==
  ASSUME HeapInv
  PROVE  /\ Cardinality(DOMAIN nodes) \in Nat \ {0}
         /\ DOMAIN nodes = 0 .. Cardinality(DOMAIN nodes) - 1
         /\ heap_size \in Nat /\ heap_size <= Cardinality(DOMAIN nodes)
         /\ Used = 0 .. heap_size - 1 /\ Used \subseteq DOMAIN nodes
         /\ \A i \in Used : nodes[i] \in Node /\ nodes[i] # NULL
         /\ \A i \in Used : nodes[i].priority \in Int /\ nodes[i].item \in Items
         /\ Queued = {nodes[i].item : i \in Used}
         /\ \A i, j \in Used : nodes[i].item = nodes[j].item => i = j
<1>1. /\ Cardinality(DOMAIN nodes) \in Nat \ {0}
      /\ \A i, j \in Used : nodes[i].item = nodes[j].item => i = j
  BY DEF HeapInv, Moving
<1>2. /\ DOMAIN nodes = 0 .. Cardinality(DOMAIN nodes) - 1
      /\ heap_size \in 0 .. Cardinality(DOMAIN nodes)
      /\ \A i \in DOMAIN nodes :
           nodes[i] \in IF i < heap_size \/ (heap_pc = "stored" /\ i = heap_size) THEN Node ELSE {NULL}
  BY DEF HeapInv, HeapTypeOK
<1> DEFINE C == Cardinality(DOMAIN nodes)
<1> HIDE DEF C
<1>3. /\ C \in Nat \ {0} /\ DOMAIN nodes = 0 .. C - 1 /\ heap_size \in 0 .. C
  BY <1>1, <1>2 DEF C
<1>4. heap_size \in Nat /\ heap_size <= C /\ Used = 0 .. heap_size - 1 /\ Used \subseteq DOMAIN nodes
  BY <1>3 DEF Used
<1>5. ASSUME NEW i \in Used PROVE nodes[i] \in Node
  <2>1. i \in DOMAIN nodes /\ i < heap_size
    BY <1>3, <1>4
  <2> QED
    BY <1>2, <2>1
<1>6. NULL \notin Node
  BY HeapAssumption
<1>7. \A i \in Used : nodes[i] # NULL
  BY <1>5, <1>6
<1>8. \A i \in Used : nodes[i].priority \in Int /\ nodes[i].item \in Items
  BY <1>5 DEF Node
<1>9. Queued = {nodes[i].item : i \in Used}
  BY <1>7 DEF Queued
<1> QED
  BY <1>1, <1>3, <1>4, <1>5, <1>7, <1>8, <1>9 DEF C

(* What pq_heapify finds: the first of a node and its children.             *)
LEMMA SmallestFacts ==
  ASSUME NEW a, NEW n \in Nat, NEW i \in 0 .. n - 1,
         \A j \in 0 .. n - 1 : a[j].priority \in Int
  PROVE  /\ smallest(a, n, i) \in 0 .. n - 1
         /\ smallest(a, n, i) \in {i, 2 * i + 1, 2 * i + 2}
         /\ a[i].priority <= a[smallest(a, n, i)].priority
         /\ \A j \in 1 .. n - 1 : Parent(j) = i => a[j].priority <= a[smallest(a, n, i)].priority
         /\ smallest(a, n, i) # i => /\ a[i].priority < a[smallest(a, n, i)].priority
                                    /\ smallest(a, n, i) > i
                                    /\ Parent(smallest(a, n, i)) = i
<1> DEFINE left   == 2 * i + 1
           right  == 2 * i + 2
           first  == IF left < n /\ a[left].priority - a[i].priority > 0 THEN left ELSE i
           second == IF right < n /\ a[right].priority - a[first].priority > 0 THEN right ELSE first
<1>1. smallest(a, n, i) = second
  BY DEF smallest, compare_priority
<1>2. left \in Nat /\ right \in Nat /\ left > i /\ right > i /\ i \in Nat
      /\ (left < n => left \in 0 .. n - 1) /\ (right < n => right \in 0 .. n - 1)
  OBVIOUS
<1>3. /\ first \in {i, left} /\ first \in 0 .. n - 1 /\ a[i].priority <= a[first].priority
      /\ left < n => a[left].priority <= a[first].priority
      /\ first # i => a[i].priority < a[first].priority
  <2> HIDE DEF left, right
  <2> QED
    BY <1>2
<1>4. /\ second \in {i, left, right} /\ second \in 0 .. n - 1
      /\ a[first].priority <= a[second].priority
      /\ right < n => a[right].priority <= a[second].priority
      /\ second # first => a[first].priority < a[second].priority
  <2> HIDE DEF left, right, first
  <2> QED
    BY <1>2, <1>3
<1>5. /\ a[i].priority \in Int /\ a[first].priority \in Int /\ a[second].priority \in Int
      /\ left < n => a[left].priority \in Int
  <2> HIDE DEF left, right, first, second
  <2> QED
    BY <1>2, <1>3, <1>4
<1>6. ASSUME NEW j \in 1 .. n - 1, Parent(j) = i PROVE a[j].priority <= a[second].priority
  <2>1. j = left \/ j = right
    BY <1>6, ParentFacts
  <2>2. j < n
    OBVIOUS
  <2> HIDE DEF left, right, first, second
  <2> QED
    BY <1>3, <1>4, <1>5, <2>1, <2>2
<1>7. /\ Parent(left) = i /\ Parent(right) = i
  BY <1>2, ParentFacts
<1>8. second # i => a[i].priority < a[second].priority /\ second > i /\ Parent(second) = i
  <2> HIDE DEF left, right, first, second
  <2> QED
    BY <1>2, <1>3, <1>4, <1>5, <1>7
<1>9. a[i].priority <= a[second].priority
  <2> HIDE DEF left, right, first, second
  <2> QED
    BY <1>3, <1>4, <1>5
<1>10. second \in {i, 2 * i + 1, 2 * i + 2}
  <2> HIDE DEF first, second
  <2> QED
    BY <1>4
<1> HIDE DEF left, right, first, second
<1> QED
  BY <1>1, <1>4, <1>6, <1>8, <1>9, <1>10

(* No node goes before the one at the root, but for one that is moving up.  *)
LEMMA RootFirst ==
  ASSUME HeapInv, sifted = NULL,
         NEW i \in Used, heap_pc = "up" => i # parent
  PROVE  nodes[i].priority <= nodes[0].priority
<1> DEFINE f == [j \in Used |-> nodes[j].priority]
           D == {j \in Used : heap_pc = "up" => j # parent}
<1>1. /\ heap_size \in Nat /\ Used = 0 .. heap_size - 1
      /\ \A j \in Used : nodes[j].priority \in Int
  BY HeapFacts
<1>2. 0 \in Used
  BY <1>1
<1>3. \A j \in 0 .. heap_size - 1 : f[j] \in Int /\ f[j] = nodes[j].priority
  BY <1>1
<1>4. f[0] \in Int /\ D \in SUBSET (0 .. heap_size - 1)
  BY <1>1, <1>2
<1>5. ASSUME NEW j \in D PROVE f[j] <= f[0] \/ \E k \in D : k < j /\ f[j] <= f[k]
  <2> HIDE DEF f
  <2>1. CASE j = 0
    BY <1>4, <2>1
  <2>2. CASE j # 0
    <3>1. j \in Nat /\ j > 0 /\ j \in Used /\ j < heap_size /\ (heap_pc = "up" => j # parent)
      BY <1>1, <2>2
    <3>2. Parent(j) \in Nat /\ Parent(j) < j
      BY <3>1, ParentFacts
    <3>3. Parent(j) \in Used
      BY <1>1, <3>1, <3>2
    <3>4. Parent(j) # sifted
      BY <3>2, HeapAssumption
    <3>5. compare_priority(nodes, j, Parent(j)) <= 0
      BY <2>2, <3>1, <3>4 DEF HeapInv, HeapOrder
    <3>6. f[j] <= f[Parent(j)]
      BY <1>1, <1>3, <3>1, <3>3, <3>5 DEF compare_priority
    <3>7. CASE ~(heap_pc = "up" /\ Parent(j) = parent)
      BY <3>2, <3>3, <3>6, <3>7
    <3>8. CASE heap_pc = "up" /\ Parent(j) = parent /\ parent = 0
      BY <3>6, <3>8
    <3>9. CASE heap_pc = "up" /\ Parent(j) = parent /\ parent # 0
      <4>1. parent \in Nat /\ parent > 0 /\ parent < j
        BY <3>2, <3>9
      <4>2. Parent(parent) \in Nat /\ Parent(parent) < parent
        BY <4>1, ParentFacts
      <4>3. Parent(parent) \in Used /\ Parent(parent) # parent /\ Parent(parent) < j
        BY <1>1, <3>1, <4>1, <4>2
      <4>4. compare_priority(nodes, j, Parent(parent)) <= 0
        BY <2>2, <3>1, <3>9, <4>1 DEF HeapInv, HeapOrder
      <4>5. f[j] <= f[Parent(parent)]
        BY <1>1, <1>3, <3>1, <4>3, <4>4 DEF compare_priority
      <4> QED
        BY <4>3, <4>5
    <3> QED
      BY <3>7, <3>8, <3>9
  <2> QED
    BY <2>1, <2>2
<1>6. i \in D
  OBVIOUS
<1> HIDE DEF f, D
<1>7. f[i] <= f[0]
  BY <1>1, <1>3, <1>4, <1>5, <1>6, Bound
<1> QED
  BY <1>1, <1>2, <1>3, <1>7

(* The same while a node moves down: it is then the only one that may have  *)
(* to go after others, and what the first call brings to the root is first. *)
LEMMA RootFirstDown ==
  ASSUME HeapInv, sifted = 0, NEW i \in Used
  PROVE  nodes[i].priority <= nodes[smallest(nodes, heap_size, 0)].priority
<1> DEFINE f == [j \in Used |-> nodes[j].priority]
           D == Used
           c == smallest(nodes, heap_size, 0)
<1>1. /\ heap_size \in Nat /\ Used = 0 .. heap_size - 1
      /\ \A j \in Used : nodes[j].priority \in Int
      /\ heap_pc # "up"
  BY HeapFacts, HeapAssumption DEF HeapInv, Moving
<1>2. 0 \in 0 .. heap_size - 1
  BY <1>1
<1>3. \A j \in 0 .. heap_size - 1 : f[j] \in Int /\ f[j] = nodes[j].priority
  BY <1>1
<1>4. /\ c \in 0 .. heap_size - 1 /\ nodes[0].priority <= nodes[c].priority
      /\ \A j \in 1 .. heap_size - 1 : Parent(j) = 0 => nodes[j].priority <= nodes[c].priority
  BY <1>1, <1>2, SmallestFacts
<1> HIDE DEF c, f
<1>5. ASSUME NEW j \in D PROVE f[j] <= f[c] \/ \E k \in D : k < j /\ f[j] <= f[k]
  <2>1. CASE j = 0
    BY <1>2, <1>3, <1>4, <2>1
  <2>2. CASE j # 0
    <3>1. j \in 1 .. heap_size - 1 /\ j \in Nat /\ j > 0
      BY <1>1, <2>2
    <3>2. Parent(j) \in Nat /\ Parent(j) < j
      BY <3>1, ParentFacts
    <3>3. CASE Parent(j) = 0
      BY <1>1, <1>3, <1>4, <3>1, <3>3
    <3>4. CASE Parent(j) # 0
      <4>1. Parent(j) \in Used
        BY <1>1, <3>1, <3>2
      <4>2. compare_priority(nodes, j, Parent(j)) <= 0
        BY <1>1, <2>2, <3>4 DEF HeapInv, HeapOrder
      <4>3. f[j] <= f[Parent(j)]
        BY <1>1, <1>3, <4>1, <4>2 DEF compare_priority
      <4> QED
        BY <3>2, <4>1, <4>3
    <3> QED
      BY <3>3, <3>4
  <2> QED
    BY <2>1, <2>2
<1>6. D \in SUBSET (0 .. heap_size - 1) /\ f[c] \in Int /\ i \in D
  BY <1>1, <1>3, <1>4
<1>7. f[i] <= f[c]
  <2> HIDE DEF D
  <2> QED
    BY <1>1, <1>3, <1>5, <1>6, Bound
<1> QED
  BY <1>1, <1>3, <1>4, <1>7 DEF c

-----------------------------------------------------------------------------
(* The invariant, action by action                                          *)

(* The length of the array.                                                 *)
LEMMA HeapTyped ==
  ASSUME NEW a, NEW n \in Nat, DOMAIN a = 0 .. n - 1
  PROVE  Cardinality(DOMAIN a) = n
BY FS_Interval, 0 \in Int, n - 1 \in Int

(* Storing the new node, in the array or in one that has grown.             *)
LEMMA HeapStoreStep ==
  ASSUME HeapInv, NEW x \in Items, NEW priority \in Priorities, Store(x, priority)
  PROVE  /\ HeapInv' /\ UNCHANGED <<heap_size, sifted>> /\ sifted = NULL
         /\ heap_pc = "idle" /\ heap_pc' = "stored"
         /\ \A i \in Used : nodes'[i] = nodes[i]
<1> DEFINE C == Cardinality(DOMAIN nodes)
           new_node == [item |-> x, priority |-> -priority]
           E == IF heap_size < C THEN C ELSE 2 * C
<1>1. /\ heap_pc = "idle" /\ heap_pc' = "stored" /\ sifted = NULL /\ x \notin Queued
      /\ nodes' = [Grown(nodes) EXCEPT ![heap_size] = new_node] /\ heap_new' = x
      /\ UNCHANGED <<heap_size, parent, sifted>>
  BY DEF Store
<1>2. /\ C \in Nat \ {0} /\ DOMAIN nodes = 0 .. C - 1 /\ heap_size \in Nat /\ heap_size <= C
      /\ Used = 0 .. heap_size - 1
      /\ \A i, j \in Used : nodes[i].item = nodes[j].item => i = j
  BY HeapFacts
<1>3. /\ \A i \in DOMAIN nodes : nodes[i] \in IF i < heap_size THEN Node ELSE {NULL}
      /\ parent \in 0 .. heap_size /\ heap_new \in Items \cup {NULL}
  BY <1>1 DEF HeapInv, HeapTypeOK
<1> HIDE DEF C
<1>4. E \in Nat \ {0} /\ heap_size < E /\ C <= E
  BY <1>2
<1>5. /\ DOMAIN Grown(nodes) = 0 .. E - 1
      /\ \A i \in 0 .. E - 1 : Grown(nodes)[i] = IF i < C THEN nodes[i] ELSE NULL
  <2>1. CASE heap_size < C
    BY <1>2, <2>1 DEF Grown, C
  <2>2. CASE ~(heap_size < C)
    <3>1. Grown(nodes) = [i \in 0 .. 2 * C - 1 |-> IF i < C THEN nodes[i] ELSE NULL]
      BY <2>2 DEF Grown, C
    <3> QED
      BY <2>2, <3>1
  <2> QED
    BY <2>1, <2>2
<1>6. /\ DOMAIN nodes' = 0 .. E - 1
      /\ nodes'[heap_size] = new_node
      /\ \A i \in 0 .. E - 1 : i # heap_size => nodes'[i] = IF i < C THEN nodes[i] ELSE NULL
  BY <1>1, <1>2, <1>4, <1>5
<1> HIDE DEF E
<1>7. Cardinality(DOMAIN nodes') = E
  BY <1>4, <1>6, HeapTyped
<1>8. new_node \in Node
  <2>1. priority \in Int
    BY HeapAssumption
  <2>2. -priority \in Int
    BY <2>1
  <2> QED
    BY <2>2 DEF Node
<1>9. \A i \in Used : nodes'[i] = nodes[i] /\ i # heap_size /\ i < heap_size
  BY <1>2, <1>4, <1>6
<1>10. HeapTypeOK'
  <2>1. \A i \in DOMAIN nodes' :
          nodes'[i] \in IF i < heap_size' \/ (heap_pc' = "stored" /\ i = heap_size') THEN Node ELSE {NULL}
    <3> SUFFICES ASSUME NEW i \in 0 .. E - 1
                 PROVE  nodes'[i] \in IF i < heap_size \/ i = heap_size THEN Node ELSE {NULL}
      BY <1>1, <1>6
    <3>1. CASE i = heap_size
      BY <1>6, <1>8, <3>1
    <3>2. CASE i # heap_size /\ i < C
      BY <1>2, <1>3, <1>6, <3>2
    <3>3. CASE i # heap_size /\ ~(i < C)
      BY <1>2, <1>4, <1>6, <3>3
    <3> QED
      BY <3>1, <3>2, <3>3
  <2>2. heap_size' \in 0 .. E /\ parent' \in 0 .. heap_size' /\ heap_new' \in Items \cup {NULL}
    BY <1>1, <1>2, <1>3, <1>4
  <2> QED
    BY <1>1, <1>6, <1>7, <2>1, <2>2 DEF HeapTypeOK
<1>11. HeapOrder'
  <2> SUFFICES ASSUME NEW i \in Used \ {0}
               PROVE  compare_priority(nodes', i, Parent(i)) <= 0
    BY <1>1 DEF HeapOrder, Used
  <2>1. i \in Nat /\ i > 0 /\ i < heap_size
    BY <1>2
  <2>2. Parent(i) \in Nat /\ Parent(i) < i
    BY <2>1, ParentFacts
  <2>3. Parent(i) \in Used
    BY <1>2, <2>1, <2>2
  <2>4. Parent(i) # sifted
    BY <1>1, <2>2, HeapAssumption
  <2>5. compare_priority(nodes, i, Parent(i)) <= 0
    BY <1>1, <2>4 DEF HeapInv, HeapOrder
  <2> QED
    BY <1>9, <2>3, <2>5 DEF compare_priority
<1>12. Moving'
  <2>1. Queued' = Queued
    <3>1. Used' = Used
      BY <1>1 DEF Used
    <3>2. Queued' = {nodes'[i].item : i \in {j \in Used : nodes'[j] # NULL}}
      BY <3>1 DEF Queued
    <3> QED
      BY <1>9, <3>2 DEF Queued
  <2>2. -nodes'[heap_size].priority \in Priorities
    <3>1. priority \in Int
      BY HeapAssumption
    <3>2. new_node.priority = -priority
      OBVIOUS
    <3>3. -(-priority) = priority
      BY <3>1
    <3> HIDE DEF new_node
    <3> QED
      BY <1>6, <3>2, <3>3
  <2>3. \A i, j \in Used' : nodes'[i].item = nodes'[j].item => i = j
    BY <1>1, <1>2, <1>9 DEF Used
  <2>4. parent' = 0
    BY <1>1 DEF HeapInv, Moving
  <2> QED
    BY <1>1, <1>4, <1>6, <1>7, <2>1, <2>2, <2>3, <2>4 DEF Moving
<1> QED
  BY <1>1, <1>9, <1>10, <1>11, <1>12 DEF HeapInv

(* The new node is counted: it is the one that may move up.                 *)
LEMMA HeapCountStep ==
  ASSUME HeapInv, CountNode
  PROVE  /\ HeapInv' /\ heap_size' = heap_size + 1 /\ parent' = heap_size
         /\ heap_pc = "stored" /\ heap_pc' = "up"
         /\ UNCHANGED <<nodes, sifted>> /\ sifted = NULL
         /\ nodes[heap_size] \in Node
<1> DEFINE C == Cardinality(DOMAIN nodes)
<1>1. /\ heap_pc = "stored" /\ heap_pc' = "up" /\ sifted = NULL
      /\ heap_size' = heap_size + 1 /\ parent' = heap_size
      /\ UNCHANGED <<nodes, heap_new, sifted>>
  BY DEF CountNode
<1>2. /\ C \in Nat \ {0} /\ DOMAIN nodes = 0 .. C - 1 /\ heap_size \in Nat /\ heap_size <= C
      /\ Used = 0 .. heap_size - 1 /\ Queued = {nodes[i].item : i \in Used}
      /\ \A i, j \in Used : nodes[i].item = nodes[j].item => i = j
  BY HeapFacts
<1>3. /\ \A i \in DOMAIN nodes : nodes[i] \in IF i < heap_size \/ i = heap_size THEN Node ELSE {NULL}
      /\ heap_new \in Items \cup {NULL}
  BY <1>1 DEF HeapInv, HeapTypeOK
<1>4. heap_size < C /\ nodes[heap_size].item \notin Queued
  BY <1>1 DEF HeapInv, Moving
<1>5. nodes[heap_size] \in Node
  BY <1>2, <1>3, <1>4
<1>6. HeapTypeOK'
  <2> HIDE DEF C
  <2>1. \A i \in DOMAIN nodes : nodes[i] \in IF i < heap_size + 1 THEN Node ELSE {NULL}
    BY <1>2, <1>3
  <2>2. heap_size + 1 \in 0 .. C /\ heap_size \in 0 .. heap_size + 1
    BY <1>2, <1>4
  <2> QED
    BY <1>1, <1>2, <1>3, <2>1, <2>2 DEF HeapTypeOK, C
<1>7. HeapOrder'
  <2> SUFFICES ASSUME NEW i \in Used' \ {0}
               PROVE  /\ i # heap_size => compare_priority(nodes, i, Parent(i)) <= 0
                      /\ Parent(i) # heap_size
    BY <1>1 DEF HeapOrder
  <2>1. i \in Nat /\ i > 0 /\ i <= heap_size
    BY <1>1, <1>2 DEF Used
  <2>2. Parent(i) \in Nat /\ Parent(i) < i
    BY <2>1, ParentFacts
  <2>3. Parent(i) # sifted
    BY <1>1, <2>2, HeapAssumption
  <2>4. i # heap_size => i \in Used \ {0}
    BY <1>2, <2>1
  <2> QED
    BY <1>1, <1>2, <2>1, <2>2, <2>3, <2>4 DEF HeapInv, HeapOrder
<1>8. Moving'
  <2>1. \A i \in Used' : i \in Used \/ i = heap_size
    BY <1>1, <1>2 DEF Used
  <2>2. \A i, j \in Used' : nodes[i].item = nodes[j].item => i = j
    BY <1>2, <1>4, <2>1
  <2>3. heap_size < heap_size + 1
    BY <1>2
  <2> QED
    BY <1>1, <1>2, <2>2, <2>3 DEF Moving, C
<1> QED
  BY <1>1, <1>5, <1>6, <1>7, <1>8 DEF HeapInv

(* Swapping two used places leaves the array well formed.                   *)
LEMMA SwapUsed ==
  ASSUME HeapInv, heap_pc # "stored", NEW k \in Used, NEW c \in Used
  PROVE  /\ DOMAIN pq_swap(nodes, k, c) = DOMAIN nodes
         /\ pq_swap(nodes, k, c)[k] = nodes[c] /\ pq_swap(nodes, k, c)[c] = nodes[k]
         /\ \A i \in DOMAIN nodes : i # k /\ i # c => pq_swap(nodes, k, c)[i] = nodes[i]
         /\ \A i \in DOMAIN nodes :
              pq_swap(nodes, k, c)[i] \in IF i < heap_size THEN Node ELSE {NULL}
         /\ \A i, j \in Used :
              pq_swap(nodes, k, c)[i].item = pq_swap(nodes, k, c)[j].item => i = j
<1> DEFINE b == pq_swap(nodes, k, c)
<1>1. /\ Used \subseteq DOMAIN nodes /\ heap_size \in Nat /\ Used = 0 .. heap_size - 1
      /\ \A i \in Used : nodes[i] \in Node
      /\ \A i, j \in Used : nodes[i].item = nodes[j].item => i = j
  BY HeapFacts
<1>2. /\ DOMAIN b = DOMAIN nodes /\ b[k] = nodes[c] /\ b[c] = nodes[k]
      /\ \A i \in DOMAIN nodes : i # k /\ i # c => b[i] = nodes[i]
  <2>1. k \in DOMAIN nodes /\ c \in DOMAIN nodes
    BY <1>1
  <2> QED
    BY <2>1, SwapFacts
<1> HIDE DEF b
<1>3. \A i \in DOMAIN nodes : nodes[i] \in IF i < heap_size THEN Node ELSE {NULL}
  BY DEF HeapInv, HeapTypeOK
<1>4. ASSUME NEW i \in DOMAIN nodes PROVE b[i] \in IF i < heap_size THEN Node ELSE {NULL}
  <2>1. k < heap_size /\ c < heap_size
    BY <1>1
  <2> QED
    BY <1>1, <1>2, <1>3, <2>1
<1>5. ASSUME NEW i \in Used, NEW j \in Used, b[i].item = b[j].item PROVE i = j
  <2> DEFINE from(q) == IF q = k THEN c ELSE IF q = c THEN k ELSE q
  <2>1. \A q \in Used : from(q) \in Used /\ b[q] = nodes[from(q)]
    BY <1>1, <1>2
  <2>2. from(i) = from(j)
    <3> HIDE DEF from
    <3> QED
      BY <1>1, <1>5, <2>1
  <2> QED
    BY <2>2
<1> QED
  BY <1>2, <1>4, <1>5 DEF b

(* A turn of the loop moves the new node up or leaves it where it belongs.  *)
LEMMA HeapSiftUpStep ==
  ASSUME HeapInv, SiftUp
  PROVE  /\ HeapInv' /\ UNCHANGED <<heap_size, sifted>> /\ sifted = NULL
         /\ heap_pc = "up" /\ parent \in Used
         /\ \/ /\ parent > 0 /\ heap_pc' = "up" /\ parent' = Parent(parent) /\ parent' \in Used
               /\ nodes' = pq_swap(nodes, parent, parent')
               /\ nodes[parent'].priority < nodes[parent].priority
            \/ /\ nodes' = nodes /\ heap_pc' = "idle"
               /\ parent = 0 \/ nodes[parent].priority <= nodes[Parent(parent)].priority
<1>1. /\ Cardinality(DOMAIN nodes) \in Nat \ {0} /\ heap_size \in Nat
      /\ Used \subseteq DOMAIN nodes /\ Used = 0 .. heap_size - 1
      /\ \A i \in Used : nodes[i] # NULL /\ nodes[i].priority \in Int
      /\ \A i, j \in Used : nodes[i].item = nodes[j].item => i = j
  BY HeapFacts
<1>2. /\ heap_pc = "up" /\ sifted = NULL /\ parent \in Nat /\ parent < heap_size
      /\ parent \in Used /\ 0 \in Used
  <2>1. heap_pc = "up" /\ sifted = NULL /\ parent < heap_size /\ parent \in 0 .. heap_size
    BY DEF SiftUp, HeapInv, Moving, HeapTypeOK
  <2> QED
    BY <1>1, <2>1
<1> DEFINE k == parent
           q == Parent(parent)
<1>3. k > 0 => q \in Nat /\ q < k /\ q \in Used
  <2> SUFFICES ASSUME k > 0 PROVE q \in Nat /\ q < k /\ q \in Used
    OBVIOUS
  <2>1. q \in Nat /\ q < k
    BY <1>2, ParentFacts
  <2> HIDE DEF q
  <2> QED
    BY <1>1, <1>2, <2>1
<1>4. NULL \notin {nodes[parent], nodes[IF parent > 0 THEN Parent(parent) ELSE 0]}
  BY <1>1, <1>2, <1>3
<1>5. UNCHANGED <<heap_size, sifted>>
  BY DEF SiftUp
<1>6. CASE k > 0 /\ compare_priority(nodes, k, q) > 0
  <2>1. nodes' = pq_swap(nodes, k, q) /\ parent' = q /\ heap_pc' = "up" /\ heap_new' = heap_new
    BY <1>2, <1>4, <1>6 DEF SiftUp
  <2>2. nodes[q].priority < nodes[k].priority
    BY <1>1, <1>2, <1>3, <1>6 DEF compare_priority
  <2>3. /\ DOMAIN nodes' = DOMAIN nodes /\ nodes'[k] = nodes[q] /\ nodes'[q] = nodes[k]
        /\ \A i \in DOMAIN nodes : i # k /\ i # q => nodes'[i] = nodes[i]
        /\ \A i \in DOMAIN nodes : nodes'[i] \in IF i < heap_size THEN Node ELSE {NULL}
        /\ \A i, j \in Used : nodes'[i].item = nodes'[j].item => i = j
    BY <1>2, <1>3, <1>6, <2>1, SwapUsed
  <2>4. HeapTypeOK'
    <3>1. parent' \in 0 .. heap_size'
      BY <1>1, <1>2, <1>3, <1>5, <1>6, <2>1
    <3> QED
      BY <1>2, <1>5, <2>1, <2>3, <3>1 DEF HeapInv, HeapTypeOK
  <2>5. Moving'
    BY <1>1, <1>2, <1>3, <1>5, <1>6, <2>1, <2>3 DEF Moving, Used
  <2> DEFINE p(i) == nodes[i].priority
             r(i) == nodes'[i].priority
  <2>6. /\ r(k) = p(q) /\ r(q) = p(k) /\ p(q) < p(k)
        /\ \A i \in Used : i # k /\ i # q => r(i) = p(i)
    BY <1>1, <2>2, <2>3
  <2>7. ASSUME NEW i \in Used \ {0}
        PROVE  /\ i # k => p(i) <= p(Parent(i))
               /\ Parent(i) = k => p(i) <= p(q)
               /\ i \in Nat /\ Parent(i) \in Used /\ Parent(i) < i
    <3>1. i \in Nat /\ i > 0 /\ i < heap_size
      BY <1>1
    <3>2. Parent(i) \in Nat /\ Parent(i) < i
      BY <3>1, ParentFacts
    <3>3. Parent(i) \in Used /\ Parent(i) # sifted
      BY <1>1, <1>2, <3>1, <3>2, HeapAssumption
    <3>4. i # k => compare_priority(nodes, i, Parent(i)) <= 0
      BY <1>2, <3>3 DEF HeapInv, HeapOrder
    <3>5. Parent(i) = k => compare_priority(nodes, i, q) <= 0
      BY <1>2, <1>6 DEF HeapInv, HeapOrder
    <3> QED
      BY <1>1, <1>2, <1>3, <1>6, <3>1, <3>2, <3>3, <3>4, <3>5 DEF compare_priority
  <2>8. \A i \in Used : p(i) \in Int /\ r(i) \in Int
    BY <1>1, <1>2, <1>3, <1>6, <2>6
  <2>9. ASSUME NEW i \in Used \ {0}
        PROVE  /\ i # q => r(i) <= r(Parent(i))
               /\ q > 0 /\ Parent(i) = q => r(i) <= r(Parent(q))
    <3>1. Parent(k) = q /\ q # k /\ q \in Used /\ k \in Used
      BY <1>2, <1>3, <1>6
    <3>2. q > 0 => /\ Parent(q) \in Used /\ Parent(q) < q /\ p(q) <= p(Parent(q))
                  /\ r(Parent(q)) = p(Parent(q))
      <4> SUFFICES ASSUME q > 0 PROVE /\ Parent(q) \in Used /\ Parent(q) < q /\ p(q) <= p(Parent(q))
                                      /\ r(Parent(q)) = p(Parent(q))
        OBVIOUS
      <4>1. q \in Used \ {0}
        BY <3>1
      <4>2. Parent(q) \in Used /\ Parent(q) < q /\ p(q) <= p(Parent(q))
        BY <2>7, <3>1, <4>1
      <4>3. Parent(q) # q /\ Parent(q) # k
        BY <1>1, <1>2, <1>3, <1>6, <4>2
      <4> QED
        BY <2>6, <4>2, <4>3
    <3> HIDE DEF p, r, k, q
    <3>3. i \in Used /\ Parent(i) \in Used /\ Parent(i) # i
      <4>1. i \in Nat /\ Parent(i) < i /\ Parent(i) \in Used
        BY <2>7
      <4>2. Parent(i) \in Nat
        BY <1>1, <4>1
      <4> QED
        BY <4>1, <4>2
    <3>4. i # q => r(i) <= r(Parent(i))
      <4>1. CASE i = k
        BY <2>6, <2>8, <3>1, <4>1
      <4>2. CASE i # k /\ i # q /\ Parent(i) = k
        BY <2>6, <2>7, <2>8, <3>1, <3>3, <4>2
      <4>3. CASE i # k /\ i # q /\ Parent(i) = q
        BY <2>6, <2>7, <2>8, <3>1, <3>3, <4>3
      <4>4. CASE i # k /\ i # q /\ Parent(i) # k /\ Parent(i) # q
        BY <2>6, <2>7, <3>3, <4>4
      <4> QED
        BY <4>1, <4>2, <4>3, <4>4
    <3>5. q > 0 /\ Parent(i) = q => r(i) <= r(Parent(q))
      <4> SUFFICES ASSUME q > 0, Parent(i) = q PROVE r(i) <= r(Parent(q))
        OBVIOUS
      <4>1. CASE i = k
        BY <2>6, <2>8, <3>1, <3>2, <4>1
      <4>2. CASE i # k
        <5>1. r(i) = p(i) /\ p(i) <= p(q)
          BY <2>6, <2>7, <3>3, <4>2
        <5> QED
          BY <2>8, <3>1, <3>2, <3>3, <5>1
      <4> QED
        BY <4>1, <4>2
    <3> QED
      BY <3>4, <3>5
  <2>10. HeapOrder'
    <3> SUFFICES ASSUME NEW i \in Used \ {0}
                 PROVE  /\ i # q => compare_priority(nodes', i, Parent(i)) <= 0
                        /\ q > 0 /\ Parent(i) = q => compare_priority(nodes', i, Parent(q)) <= 0
      BY <1>2, <1>5, <2>1 DEF HeapOrder, Used
    <3>1. i \in Used /\ Parent(i) \in Used
      BY <2>7
    <3>2. q > 0 => Parent(q) \in Used
      BY <1>3, <1>6, <2>7
    <3> HIDE DEF q
    <3> QED
      BY <2>8, <2>9, <3>1, <3>2 DEF compare_priority
  <2> QED
    BY <1>2, <1>3, <1>5, <1>6, <2>1, <2>2, <2>4, <2>5, <2>10 DEF HeapInv
<1>7. CASE ~(k > 0 /\ compare_priority(nodes, k, q) > 0)
  <2>1. nodes' = nodes /\ parent' = 0 /\ heap_pc' = "idle" /\ heap_new' = NULL
    BY <1>2, <1>4, <1>7 DEF SiftUp
  <2>2. k = 0 \/ nodes[k].priority <= nodes[q].priority
    BY <1>1, <1>2, <1>3, <1>7 DEF compare_priority
  <2>3. HeapTypeOK'
    BY <1>1, <1>2, <1>5, <2>1 DEF HeapInv, HeapTypeOK
  <2>4. Moving'
    BY <1>1, <1>2, <1>5, <2>1 DEF Moving, Used
  <2>5. HeapOrder'
    <3> SUFFICES ASSUME NEW i \in Used \ {0}, Parent(i) # NULL
                 PROVE  compare_priority(nodes, i, Parent(i)) <= 0
      BY <1>2, <1>5, <2>1 DEF HeapOrder, Used
    <3>1. i # k => compare_priority(nodes, i, Parent(i)) <= 0
      BY <1>2 DEF HeapInv, HeapOrder
    <3>2. i = k => compare_priority(nodes, i, Parent(i)) <= 0
      BY <1>1, <1>2, <1>3, <2>2 DEF compare_priority
    <3> QED
      BY <3>1, <3>2
  <2> QED
    BY <1>2, <1>5, <2>1, <2>2, <2>3, <2>4, <2>5 DEF HeapInv
<1> QED
  BY <1>6, <1>7

(* A dequeue brings the last node to the root, whence it may move down.     *)
LEMMA HeapDequeueStep ==
  ASSUME HeapInv, pq_dequeue
  PROVE  /\ HeapInv' /\ sifted = NULL /\ heap_pc = "idle" /\ heap_pc' = "idle"
         /\ heap_size = 0 => UNCHANGED <<nodes, heap_size, sifted>>
         /\ heap_size > 0 => /\ heap_size' = heap_size - 1
                             /\ sifted' = IF heap_size > 1 THEN 0 ELSE NULL
                             /\ \A i \in Used' : nodes'[i] = nodes[IF i = 0 THEN heap_size - 1 ELSE i]
<1> DEFINE C == Cardinality(DOMAIN nodes)
           last == heap_size - 1
           b == pq_swap(nodes, 0, last)
<1>1. heap_pc = "idle" /\ sifted = NULL /\ RemoveRoot /\ UNCHANGED <<heap_pc, parent, heap_new>>
  BY DEF pq_dequeue
<1>2. /\ C \in Nat \ {0} /\ DOMAIN nodes = 0 .. C - 1 /\ heap_size \in Nat /\ heap_size <= C
      /\ Used = 0 .. heap_size - 1 /\ Used \subseteq DOMAIN nodes
      /\ \A i \in Used : nodes[i].priority \in Int
  BY HeapFacts
<1>3. parent = 0 /\ heap_new \in Items \cup {NULL}
  BY <1>1 DEF HeapInv, Moving, HeapTypeOK
<1>4. CASE heap_size = 0
  <2>1. UNCHANGED <<nodes, heap_size, sifted>>
    BY <1>1, <1>4 DEF RemoveRoot, TakeRoot
  <2>2. HeapInv'
    BY <1>1, <2>1 DEF HeapInv, HeapTypeOK, HeapOrder, Moving, Used, Queued
  <2> QED
    BY <1>1, <1>4, <2>1, <2>2
<1>5. CASE heap_size # 0
  <2>1. /\ nodes' = [b EXCEPT ![last] = NULL] /\ heap_size' = last
        /\ sifted' = IF heap_size > 1 THEN 0 ELSE NULL
    BY <1>1, <1>5 DEF RemoveRoot, TakeRoot
  <2>2. last \in Nat /\ last < heap_size /\ last \in Used /\ 0 \in Used
    BY <1>2, <1>5
  <2>3. /\ DOMAIN b = DOMAIN nodes /\ b[0] = nodes[last] /\ b[last] = nodes[0]
        /\ \A i \in DOMAIN nodes : i # 0 /\ i # last => b[i] = nodes[i]
        /\ \A i \in DOMAIN nodes : b[i] \in IF i < heap_size THEN Node ELSE {NULL}
        /\ \A i, j \in Used : b[i].item = b[j].item => i = j
    BY <1>1, <2>2, SwapUsed
  <2> HIDE DEF b
  <2>4. /\ DOMAIN nodes' = DOMAIN nodes /\ nodes'[last] = NULL
        /\ \A i \in DOMAIN nodes : i # last => nodes'[i] = b[i]
    BY <1>2, <2>1, <2>2, <2>3
  <2>5. Used' = 0 .. last - 1 /\ Used' \subseteq Used /\ last \notin Used'
    BY <1>2, <2>1, <2>2 DEF Used
  <2>6. ASSUME NEW i \in Used' PROVE nodes'[i] = nodes[IF i = 0 THEN last ELSE i]
    <3>1. i \in DOMAIN nodes /\ i # last
      BY <1>2, <2>5
    <3> HIDE DEF last
    <3> QED
      BY <2>3, <2>4, <3>1
  <2>7. HeapTypeOK'
    <3>1. ASSUME NEW i \in DOMAIN nodes
          PROVE  nodes'[i] \in IF i < last THEN Node ELSE {NULL}
      <4>1. CASE i = last
        BY <2>2, <2>4, <4>1
      <4>2. CASE i # last
        <5>1. i < last <=> i < heap_size
          BY <1>2, <2>2, <4>2
        <5> QED
          BY <2>3, <2>4, <4>2, <5>1
      <4> QED
        BY <4>1, <4>2
    <3>2. /\ last \in 0 .. C /\ 0 \in 0 .. last
          /\ sifted' \in 0 .. last - 1 \cup {NULL}
      BY <1>2, <2>1, <2>2
    <3> QED
      BY <1>1, <1>2, <1>3, <2>1, <2>4, <3>1, <3>2 DEF HeapTypeOK, C
  <2>8. HeapOrder'
    <3> SUFFICES ASSUME NEW i \in Used' \ {0}
                 PROVE  Parent(i) # 0 => compare_priority(nodes', i, Parent(i)) <= 0
      <4>1. sifted' # NULL => sifted' = 0
        BY <2>1
      <4>2. Used' \ {0} # {} => sifted' = 0
        BY <1>2, <2>1, <2>2, <2>5
      <4> QED
        BY <1>1, <4>1, <4>2 DEF HeapOrder
    <3>1. i \in Nat /\ i > 0 /\ i < last
      BY <2>2, <2>5
    <3>2. Parent(i) \in Nat /\ Parent(i) < i
      BY <3>1, ParentFacts
    <3>3. Parent(i) \in Used' /\ i \in Used \ {0} /\ Parent(i) # NULL
      BY <2>2, <2>5, <3>1, <3>2, HeapAssumption
    <3>4. compare_priority(nodes, i, Parent(i)) <= 0
      BY <1>1, <3>3 DEF HeapInv, HeapOrder
    <3> QED
      BY <2>6, <3>3, <3>4 DEF compare_priority
  <2>9. Moving'
    <3>1. \A i, j \in Used' : nodes'[i].item = nodes'[j].item => i = j
      <4>1. \A i \in Used' : i \in Used /\ i \in DOMAIN nodes /\ nodes'[i] = b[i]
        BY <1>2, <2>4, <2>5
      <4> QED
        BY <2>3, <4>1
    <3> QED
      BY <1>1, <1>2, <1>3, <2>4, <3>1 DEF Moving, C
  <2>10. heap_size > 0
    BY <1>2, <1>5
  <2> QED
    BY <1>1, <2>1, <2>6, <2>7, <2>8, <2>9, <2>10 DEF HeapInv
<1> QED
  BY <1>4, <1>5

(* A new priority at the root: if it is lower, the root may move down.      *)
LEMMA HeapChangeStep ==
  ASSUME HeapInv, NEW priority \in Priorities, pq_change_priority(priority)
  PROVE  /\ HeapInv' /\ sifted = NULL /\ heap_pc = "idle" /\ heap_pc' = "idle"
         /\ heap_size' = heap_size
         /\ heap_size = 0 => UNCHANGED <<nodes, sifted>>
         /\ heap_size > 0 => /\ sifted' = IF -priority < nodes[0].priority THEN 0 ELSE NULL
                             /\ \A i \in Used : /\ nodes'[i].item = nodes[i].item
                                                  /\ nodes'[i].priority =
                                                       IF i = 0 THEN -priority ELSE nodes[i].priority
<1> DEFINE C == Cardinality(DOMAIN nodes)
<1>1. heap_pc = "idle" /\ sifted = NULL /\ ChangeRoot(priority) /\ UNCHANGED <<heap_pc, parent, heap_new>>
  BY DEF pq_change_priority
<1>2. /\ C \in Nat \ {0} /\ DOMAIN nodes = 0 .. C - 1 /\ heap_size \in Nat /\ heap_size <= C
      /\ Used = 0 .. heap_size - 1 /\ Used \subseteq DOMAIN nodes
      /\ \A i \in Used : nodes[i] \in Node /\ nodes[i].priority \in Int
      /\ \A i, j \in Used : nodes[i].item = nodes[j].item => i = j
  BY HeapFacts
<1>3. parent = 0 /\ heap_new \in Items \cup {NULL}
  BY <1>1 DEF HeapInv, Moving, HeapTypeOK
<1>4. CASE heap_size = 0
  <2>1. UNCHANGED <<nodes, heap_size, sifted>>
    BY <1>1, <1>2, <1>4 DEF ChangeRoot
  <2>2. HeapInv'
    BY <1>1, <2>1 DEF HeapInv, HeapTypeOK, HeapOrder, Moving, Used, Queued
  <2> QED
    BY <1>1, <1>4, <2>1, <2>2
<1>5. CASE heap_size # 0
  <2>1. /\ nodes' = [nodes EXCEPT ![0].priority = -priority] /\ heap_size' = heap_size
        /\ sifted' = IF -priority < nodes[0].priority THEN 0 ELSE NULL
    BY <1>1, <1>2, <1>5 DEF ChangeRoot
  <2>2. /\ 0 \in Used /\ 0 \in DOMAIN nodes /\ nodes[0] \in Node /\ heap_size > 0
        /\ priority \in Int /\ -priority \in Int
    <3>1. 0 \in Used /\ heap_size > 0
      BY <1>2, <1>5
    <3>2. priority \in Int
      BY HeapAssumption
    <3> QED
      BY <1>2, <3>1, <3>2
  <2>3. /\ DOMAIN nodes' = DOMAIN nodes
        /\ \A i \in DOMAIN nodes : i # 0 => nodes'[i] = nodes[i]
        /\ nodes'[0] \in Node /\ nodes'[0].item = nodes[0].item
        /\ nodes'[0].priority = -priority
    BY <2>1, <2>2 DEF Node
  <2>4. \A i \in Used : /\ nodes'[i].item = nodes[i].item
                          /\ nodes'[i].priority =
                               IF i = 0 THEN -priority ELSE nodes[i].priority
    BY <1>2, <2>3
  <2>5. HeapTypeOK'
    <3>1. \A i \in DOMAIN nodes : nodes[i] \in IF i < heap_size THEN Node ELSE {NULL}
      BY <1>1 DEF HeapInv, HeapTypeOK
    <3>2. \A i \in DOMAIN nodes : nodes'[i] \in IF i < heap_size THEN Node ELSE {NULL}
      BY <2>2, <2>3, <3>1
    <3>3. sifted' \in 0 .. heap_size - 1 \cup {NULL} /\ 0 \in 0 .. heap_size /\ heap_size \in 0 .. C
      BY <1>2, <2>1, <2>2
    <3> QED
      BY <1>1, <1>2, <1>3, <2>1, <2>3, <3>2, <3>3 DEF HeapTypeOK, C
  <2>6. HeapOrder'
    <3> SUFFICES ASSUME NEW i \in Used \ {0}, Parent(i) # sifted'
                 PROVE  compare_priority(nodes', i, Parent(i)) <= 0
      BY <1>1, <2>1 DEF HeapOrder, Used
    <3>1. i \in Nat /\ i > 0 /\ i < heap_size
      BY <1>2
    <3>2. Parent(i) \in Nat /\ Parent(i) < i
      BY <3>1, ParentFacts
    <3>3. Parent(i) \in Used /\ Parent(i) # NULL
      BY <1>2, <3>1, <3>2, HeapAssumption
    <3>4. compare_priority(nodes, i, Parent(i)) <= 0
      BY <1>1, <3>3 DEF HeapInv, HeapOrder
    <3>5. nodes[i].priority <= nodes[Parent(i)].priority
      BY <1>2, <3>3, <3>4 DEF compare_priority
    <3>6. CASE Parent(i) # 0
      BY <2>4, <3>3, <3>4, <3>6 DEF compare_priority
    <3>7. CASE Parent(i) = 0
      <4>1. nodes[0].priority <= -priority
        <5>1. ~(-priority < nodes[0].priority)
          BY <2>1, <3>7
        <5>2. nodes[0].priority \in Int /\ -priority \in Int
          BY <1>2, <2>2
        <5> QED
          BY <5>1, <5>2
      <4>2. nodes[i].priority \in Int /\ nodes[0].priority \in Int /\ -priority \in Int
        BY <1>2, <2>2
      <4>3. nodes[i].priority <= -priority
        BY <3>5, <3>7, <4>1, <4>2
      <4>4. nodes'[i].priority = nodes[i].priority /\ nodes'[Parent(i)].priority = -priority
        BY <2>2, <2>4, <3>7
      <4> QED
        BY <4>2, <4>3, <4>4 DEF compare_priority
    <3> QED
      BY <3>6, <3>7
  <2>7. Moving'
    <3>1. \A i, j \in Used' : nodes'[i].item = nodes'[j].item => i = j
      BY <1>2, <2>1, <2>4 DEF Used
    <3> QED
      BY <1>1, <1>2, <1>3, <2>3, <3>1 DEF Moving, C
  <2> QED
    BY <1>1, <2>1, <2>2, <2>4, <2>5, <2>6, <2>7 DEF HeapInv
<1> QED
  BY <1>4, <1>5

(* A call of pq_heapify moves the node down or leaves it where it belongs.  *)
LEMMA HeapifyStep ==
  ASSUME HeapInv, pq_heapify
  PROVE  /\ HeapInv' /\ UNCHANGED <<heap_size, heap_pc, parent>> /\ heap_pc = "idle"
         /\ sifted \in Used
         /\ \/ /\ sifted' = smallest(nodes, heap_size, sifted) /\ sifted' \in Used /\ sifted' > sifted
               /\ nodes' = pq_swap(nodes, sifted, sifted')
            \/ /\ sifted' = NULL /\ nodes' = nodes
               /\ smallest(nodes, heap_size, sifted) = sifted
<1> DEFINE k == sifted
           c == smallest(nodes, heap_size, k)
           p(i) == nodes[i].priority
           r(i) == nodes'[i].priority
<1>1. /\ Cardinality(DOMAIN nodes) \in Nat \ {0} /\ heap_size \in Nat
      /\ Used \subseteq DOMAIN nodes /\ Used = 0 .. heap_size - 1
      /\ \A i \in Used : p(i) \in Int
      /\ \A i, j \in Used : nodes[i].item = nodes[j].item => i = j
  BY HeapFacts
<1>2. /\ sifted # NULL /\ k \in Used /\ k \in 0 .. heap_size - 1 /\ k \in Nat
      /\ heap_pc = "idle" /\ parent = 0
      /\ UNCHANGED <<heap_size, heap_pc, parent, heap_new>>
  <2>1. sifted # NULL /\ UNCHANGED <<heap_size, heap_pc, parent, heap_new>>
    BY DEF pq_heapify
  <2>2. sifted \in 0 .. heap_size - 1 /\ heap_pc = "idle" /\ parent = 0
    BY <2>1 DEF HeapInv, HeapTypeOK, Moving
  <2> QED
    BY <1>1, <2>1, <2>2
<1>3. /\ c \in 0 .. heap_size - 1 /\ p(k) <= p(c)
      /\ \A j \in 1 .. heap_size - 1 : Parent(j) = k => p(j) <= p(c)
      /\ c # k => p(k) < p(c) /\ c > k /\ Parent(c) = k
  BY <1>1, <1>2, SmallestFacts
<1>4. ASSUME NEW i \in Used \ {0}
      PROVE  /\ Parent(i) # k => p(i) <= p(Parent(i))
             /\ k # 0 /\ Parent(i) = k => p(i) <= p(Parent(k))
             /\ i \in 1 .. heap_size - 1 /\ i \in Nat /\ Parent(i) \in Nat
             /\ Parent(i) \in Used /\ Parent(i) < i
  <2>1. i \in Nat /\ i > 0 /\ i < heap_size
    BY <1>1
  <2>2. Parent(i) \in Nat /\ Parent(i) < i
    BY <2>1, ParentFacts
  <2>3. Parent(i) \in Used
    BY <1>1, <2>1, <2>2
  <2>4. Parent(i) # k => compare_priority(nodes, i, Parent(i)) <= 0
    BY <1>2 DEF HeapInv, HeapOrder
  <2>5. k # 0 /\ Parent(i) = k => compare_priority(nodes, i, Parent(k)) <= 0
    BY <1>2 DEF HeapInv, HeapOrder
  <2>6. k # 0 => Parent(k) \in Used
    <3> SUFFICES ASSUME k # 0 PROVE Parent(k) \in Used
      OBVIOUS
    <3>1. Parent(k) \in Nat /\ Parent(k) < k
      BY <1>2, ParentFacts
    <3> QED
      BY <1>1, <1>2, <3>1
  <2> QED
    BY <1>1, <2>1, <2>2, <2>3, <2>4, <2>5, <2>6 DEF compare_priority
<1>5. CASE c # k
  <2>1. nodes' = pq_swap(nodes, k, c) /\ sifted' = c
    BY <1>2, <1>5 DEF pq_heapify
  <2>2. c \in Used /\ c \in Nat /\ c > k /\ Parent(c) = k /\ p(k) < p(c) /\ c # 0
    BY <1>1, <1>2, <1>3, <1>5
  <2>3. /\ DOMAIN nodes' = DOMAIN nodes /\ nodes'[k] = nodes[c] /\ nodes'[c] = nodes[k]
        /\ \A i \in DOMAIN nodes : i # k /\ i # c => nodes'[i] = nodes[i]
        /\ \A i \in DOMAIN nodes : nodes'[i] \in IF i < heap_size THEN Node ELSE {NULL}
        /\ \A i, j \in Used : nodes'[i].item = nodes'[j].item => i = j
    BY <1>2, <2>1, <2>2, SwapUsed
  <2>4. HeapTypeOK'
    BY <1>2, <1>3, <2>1, <2>3 DEF HeapInv, HeapTypeOK
  <2>5. Moving'
    BY <1>1, <1>2, <2>3 DEF Moving, Used
  <2>6. /\ r(k) = p(c) /\ r(c) = p(k)
        /\ \A i \in Used : i # k /\ i # c => r(i) = p(i)
    BY <1>1, <2>3
  <2>7. \A i \in Used : p(i) \in Int /\ r(i) \in Int
    BY <1>1, <1>2, <2>2, <2>6
  <2>8. ASSUME NEW i \in Used \ {0}
        PROVE  /\ Parent(i) # c => r(i) <= r(Parent(i))
               /\ Parent(i) = c => r(i) <= r(k)
    <3> HIDE DEF p, r, k, c
    <3>1. i \in Used /\ Parent(i) \in Used /\ Parent(i) # i
      BY <1>4
    <3>2. CASE Parent(i) = c
      <4>1. i # c /\ i # k
        BY <1>2, <1>4, <2>2, <3>2
      <4>2. p(i) <= p(c)
        BY <1>4, <2>2, <3>2
      <4> QED
        BY <2>2, <2>6, <2>7, <3>2, <4>1, <4>2, <1>2
    <3>3. CASE Parent(i) = k
      <4>1. i # k /\ p(i) <= p(c)
        BY <1>3, <1>4, <3>1, <3>3
      <4>2. CASE i = c
        BY <1>2, <2>2, <2>6, <2>7, <3>3, <4>2
      <4>3. CASE i # c
        BY <2>2, <2>6, <2>7, <3>1, <3>3, <4>1, <4>3
      <4> QED
        BY <4>2, <4>3, <2>2, <3>3
    <3>4. CASE Parent(i) # k /\ Parent(i) # c
      <4>1. p(i) <= p(Parent(i)) /\ r(Parent(i)) = p(Parent(i))
        BY <1>4, <2>6, <3>1, <3>4
      <4>2. CASE i = k
        <5>1. k # 0
          BY <4>2
        <5>2. Parent(c) = k /\ c \in Used \ {0}
          BY <2>2
        <5>3. p(c) <= p(Parent(k))
          BY <1>4, <5>1, <5>2
        <5> QED
          BY <2>6, <3>4, <4>1, <4>2, <5>3
      <4>3. CASE i # k
        <5>1. i # c
          BY <2>2, <3>4
        <5> QED
          BY <2>6, <3>1, <3>4, <4>1, <4>3, <5>1
      <4> QED
        BY <4>2, <4>3, <3>4
    <3> QED
      BY <3>2, <3>3, <3>4
  <2>9. HeapOrder'
    <3>1. ASSUME NEW i \in Used \ {0}
          PROVE  /\ Parent(i) # c => compare_priority(nodes', i, Parent(i)) <= 0
                 /\ Parent(i) = c => compare_priority(nodes', i, k) <= 0
      <4>1. i \in Used /\ Parent(i) \in Used
        BY <1>4
      <4>2. /\ Parent(i) # c => r(i) <= r(Parent(i))
            /\ Parent(i) = c => r(i) <= r(k)
        BY <2>8
      <4>3. r(i) \in Int /\ r(Parent(i)) \in Int /\ r(k) \in Int
        BY <1>2, <2>7, <4>1
      <4> HIDE DEF k, c
      <4> QED
        BY <4>2, <4>3 DEF compare_priority
    <3>2. Used' = Used /\ heap_pc' = "idle" /\ sifted' = c /\ Parent(c) = k
      BY <1>2, <2>1, <2>2 DEF Used
    <3> HIDE DEF k, c
    <3> QED
      BY <3>1, <3>2 DEF HeapOrder
  <2> QED
    BY <1>2, <2>1, <2>2, <2>4, <2>5, <2>9 DEF HeapInv
<1>6. CASE c = k
  <2>1. nodes' = nodes /\ sifted' = NULL
    BY <1>2, <1>6 DEF pq_heapify
  <2>2. HeapTypeOK'
    BY <1>2, <2>1 DEF HeapInv, HeapTypeOK
  <2>3. Moving'
    BY <1>1, <1>2, <2>1 DEF Moving, Used
  <2>4. HeapOrder'
    <3> SUFFICES ASSUME NEW i \in Used \ {0}
                 PROVE  compare_priority(nodes, i, Parent(i)) <= 0
      BY <1>2, <2>1 DEF HeapOrder, Used
    <3>1. i \in Used /\ Parent(i) \in Used /\ p(i) <= p(Parent(i))
      BY <1>3, <1>4, <1>6
    <3> QED
      BY <1>1, <3>1 DEF compare_priority
  <2> QED
    BY <1>2, <1>6, <2>1, <2>2, <2>3, <2>4 DEF HeapInv
<1> QED
  BY <1>5, <1>6

(* The empty heap is in order.                                              *)
LEMMA HeapStarts == ASSUME HeapInit PROVE HeapInv
<1>1. /\ Capacity \in Nat \ {0} /\ DOMAIN nodes = 0 .. Capacity - 1
      /\ \A i \in DOMAIN nodes : nodes[i] = NULL
  BY HeapAssumption DEF HeapInit
<1>2. Cardinality(DOMAIN nodes) = Capacity
  BY <1>1, HeapTyped
<1>3. heap_size = 0 /\ heap_pc = "idle" /\ parent = 0 /\ heap_new = NULL /\ sifted = NULL /\ Used = {}
  BY DEF HeapInit, Used
<1>4. HeapTypeOK
  BY <1>1, <1>2, <1>3 DEF HeapTypeOK
<1>5. HeapOrder /\ Moving
  BY <1>1, <1>2, <1>3 DEF HeapOrder, Moving
<1> QED
  BY <1>4, <1>5 DEF HeapInv

(* A step that changes nothing keeps the heap.                              *)
LEMMA HeapSame == ASSUME HeapInv, UNCHANGED heap_vars PROVE HeapInv'
BY DEF HeapInv, HeapTypeOK, HeapOrder, Moving, heap_vars, Used, Queued

(* Every step keeps the heap.                                               *)
LEMMA HeapSteps == ASSUME HeapInv, [HeapNext]_heap_vars PROVE HeapInv'
BY HeapStoreStep, HeapCountStep, HeapSiftUpStep, HeapDequeueStep, HeapChangeStep, HeapifyStep,
   HeapSame DEF HeapNext

(* The array stays a heap but for the one node that is moving, and keeps    *)
(* each item once, whatever is enqueued, dequeued or changed, and however   *)
(* often the array grows: pq_enqueue, pq_heapify and their callers.         *)
THEOREM HeapInvariant == HeapSpec => []HeapInv
<1>1. HeapInit => HeapInv
  BY HeapStarts
<1>2. HeapInv /\ [HeapNext]_heap_vars => HeapInv'
  BY HeapSteps
<1> QED
  BY <1>1, <1>2, PTL DEF HeapSpec

(* Every place in use holds a node and no other does: pq_enqueue never      *)
(* compares with an unused place, for any initial capacity and priorities.  *)
THEOREM HeapTypeCorrect == HeapSpec => []HeapTypeOK
<1>1. HeapInv => HeapTypeOK
  BY DEF HeapInv
<1> QED
  BY <1>1, HeapInvariant, PTL

(* No node goes before the node above it, but for the one that is moving:   *)
(* what compare_priority and the two sifting loops are for.                 *)
THEOREM HeapOrdered == HeapSpec => []HeapOrder
<1>1. HeapInv => HeapOrder
  BY DEF HeapInv
<1> QED
  BY <1>1, HeapInvariant, PTL
-----------------------------------------------------------------------------
(* The promise                                                              *)

(* What the promise sees of the heap: its items, their keys and the root.   *)
HeapSeen ==
  /\ DOMAIN Heap.prio = Queued
  /\ Heap.prio = [x \in Queued |-> Heap.prio[x]]
  /\ \A i \in Used : Heap.prio[nodes[i].item] = -nodes[i].priority
  /\ Heap.top = IF heap_size = 0 THEN NULL ELSE nodes[Root].item
  /\ Heap = [prio |-> Heap.prio, top |-> Heap.top]
  /\ Queued = {nodes[i].item : i \in Used}
  /\ \A i, j \in Used : nodes[i].item = nodes[j].item => i = j
  /\ \A i \in Used : nodes[i].priority \in Int /\ nodes[i].item \in Items

(* No node goes before the one that is, or will be, at the root.            *)
RootLeads == \A i \in Used : nodes[i].priority <= nodes[Root].priority

(* The heap is seen so in every state of the invariant.                     *)
LEMMA HeapSeenNow == ASSUME HeapInv PROVE HeapSeen
<1>1. /\ Queued = {nodes[i].item : i \in Used}
      /\ \A i, j \in Used : nodes[i].item = nodes[j].item => i = j
      /\ \A i \in Used : nodes[i].priority \in Int /\ nodes[i].item \in Items
  BY HeapFacts
<1> DEFINE at == [x \in Queued |-> CHOOSE i \in Used : nodes[i].item = x]
           prio == [x \in Queued |-> -nodes[at[x]].priority]
           top == IF heap_size = 0 THEN NULL ELSE nodes[Root].item
<1>2. Heap = [prio |-> prio, top |-> top]
  BY DEF Heap
<1>3. ASSUME NEW i \in Used PROVE prio[nodes[i].item] = -nodes[i].priority
  <2>1. nodes[i].item \in Queued
    BY <1>1
  <2>2. at[nodes[i].item] \in Used /\ nodes[at[nodes[i].item]].item = nodes[i].item
    BY <2>1
  <2>3. at[nodes[i].item] = i
    BY <1>1, <2>2
  <2> HIDE DEF at
  <2> QED
    BY <2>1, <2>3
<1>4. prio = [x \in Queued |-> prio[x]]
  <2> DEFINE g(x) == -nodes[at[x]].priority
  <2> HIDE DEF g
  <2>1. prio = [x \in Queued |-> g(x)]
    BY DEF g
  <2> QED
    BY <2>1
<1> HIDE DEF prio, top
<1>5. Heap.prio = prio /\ Heap.top = top
  BY <1>2
<1>6. DOMAIN prio = Queued
  BY DEF prio
<1> QED
  BY <1>1, <1>2, <1>3, <1>4, <1>5, <1>6 DEF HeapSeen, top

(* And so after a step.                                                     *)
LEMMA HeapSeenNext == ASSUME HeapInv' PROVE HeapSeen'
BY HeapSeenNow, PTL

(* The root leads when no enqueue is moving a node up.                      *)
LEMMA RootLeadsNow ==
  ASSUME HeapInv, heap_pc # "up", sifted \in {NULL, 0}
  PROVE  RootLeads
<1>1. CASE sifted = NULL
  <2>1. Root = 0
    BY <1>1, HeapAssumption DEF Root
  <2> QED
    BY <1>1, <2>1, RootFirst DEF RootLeads
<1>2. CASE sifted = 0
  <2>1. Root = smallest(nodes, heap_size, 0)
    BY <1>2 DEF Root
  <2> QED
    BY <1>2, <2>1, RootFirstDown DEF RootLeads
<1> QED
  BY <1>1, <1>2

(* And so after a step.                                                     *)
LEMMA RootLeadsNext ==
  ASSUME HeapInv', heap_pc' # "up", sifted' \in {NULL, 0}
  PROVE  RootLeads'
<1>1. (HeapInv /\ heap_pc # "up" /\ sifted \in {NULL, 0} => RootLeads)'
  BY RootLeadsNow, PTL
<1> QED
  BY <1>1

(* The heap after a step, by the priorities and the root.                   *)
LEMMA HeapNextIs ==
  ASSUME HeapInv', NEW f, f = [x \in Queued' |-> f[x]],
         \A i \in Used' : f[nodes'[i].item] = -nodes'[i].priority,
         NEW t, t = IF heap_size' = 0 THEN NULL ELSE nodes'[Root'].item
  PROVE  Heap' = [prio |-> f, top |-> t]
<1>1. HeapSeen'
  BY HeapSeenNext
<1> DEFINE h == Heap'.prio
<1>2. /\ h = [x \in Queued' |-> h[x]]
      /\ \A i \in Used' : h[nodes'[i].item] = -nodes'[i].priority
      /\ Heap'.top = t
      /\ Heap' = [prio |-> h, top |-> Heap'.top]
      /\ Queued' = {nodes'[i].item : i \in Used'}
  BY <1>1 DEF HeapSeen
<1> HIDE DEF h
<1>3. \A x \in Queued' : h[x] = f[x]
  BY <1>2
<1>4. h = f
  BY <1>2, <1>3
<1> QED
  BY <1>2, <1>4

(* Steps that the promise does not see.                                     *)
LEMMA SameHeap ==
  ASSUME HeapInv, HeapInv', Queued' = Queued,
         \A i \in Used' : \E j \in Used : nodes'[i].item = nodes[j].item
                                            /\ nodes'[i].priority = nodes[j].priority,
         heap_size' = heap_size,
         heap_size # 0 => nodes'[Root'].item = nodes[Root].item
  PROVE  Heap' = Heap
<1>1. HeapSeen
  BY HeapSeenNow
<1> DEFINE f == Heap.prio
<1>2. /\ f = [x \in Queued |-> f[x]]
      /\ \A i \in Used : f[nodes[i].item] = -nodes[i].priority
      /\ Heap.top = IF heap_size = 0 THEN NULL ELSE nodes[Root].item
      /\ Heap = [prio |-> f, top |-> Heap.top]
  BY <1>1 DEF HeapSeen
<1> HIDE DEF f
<1>3. \A i \in Used' : f[nodes'[i].item] = -nodes'[i].priority
  BY <1>2
<1>4. f = [x \in Queued' |-> f[x]]
  BY <1>2
<1>5. Heap.top = IF heap_size' = 0 THEN NULL ELSE nodes'[Root'].item
  BY <1>2
<1> QED
  BY <1>2, <1>3, <1>4, <1>5, HeapNextIs

(* A node that is stored and not counted is not seen.                       *)
LEMMA HeapStoreSeen ==
  ASSUME HeapInv, NEW x \in Items, NEW priority \in Priorities, Store(x, priority)
  PROVE  Heap' = Heap
<1>1. /\ HeapInv' /\ heap_size' = heap_size /\ sifted' = sifted /\ sifted = NULL
      /\ heap_pc = "idle" /\ heap_pc' = "stored"
      /\ \A i \in Used : nodes'[i] = nodes[i]
  BY HeapStoreStep
<1>2. HeapSeen /\ HeapSeen'
  BY <1>1, HeapSeenNow, HeapSeenNext
<1>3. Used' = Used
  BY <1>1 DEF Used
<1>4. Queued' = Queued
  BY <1>1, <1>2, <1>3 DEF HeapSeen
<1>5. Root = 0 /\ Root' = 0
  BY <1>1, HeapAssumption DEF Root
<1>6. heap_size # 0 => 0 \in Used
  BY HeapFacts
<1> QED
  BY <1>1, <1>3, <1>4, <1>5, <1>6, SameHeap

(* A node that moves up was seen at the root if it gets there.              *)
LEMMA HeapSiftUpSeen == ASSUME HeapInv, SiftUp PROVE Heap' = Heap
<1>1. /\ HeapInv' /\ heap_size' = heap_size /\ sifted' = sifted /\ sifted = NULL
      /\ heap_pc = "up" /\ parent \in Used
      /\ \/ /\ parent > 0 /\ heap_pc' = "up" /\ parent' = Parent(parent) /\ parent' \in Used
            /\ nodes' = pq_swap(nodes, parent, parent')
            /\ nodes[parent'].priority < nodes[parent].priority
         \/ /\ nodes' = nodes /\ heap_pc' = "idle"
            /\ parent = 0 \/ nodes[parent].priority <= nodes[Parent(parent)].priority
  BY HeapSiftUpStep
<1>2. HeapSeen /\ HeapSeen'
  BY <1>1, HeapSeenNow, HeapSeenNext
<1>3. /\ Used' = Used /\ heap_size \in Nat /\ Used = 0 .. heap_size - 1
      /\ Used \subseteq DOMAIN nodes
      /\ \A i \in Used : nodes[i].priority \in Int
      /\ NULL # 0 /\ sifted # 0
  BY <1>1, HeapFacts, HeapAssumption DEF Used
<1>4. 0 \in Used /\ parent \in Nat
  BY <1>1, <1>3
<1>5. CASE /\ parent > 0 /\ heap_pc' = "up" /\ parent' = Parent(parent) /\ parent' \in Used
           /\ nodes' = pq_swap(nodes, parent, parent')
           /\ nodes[parent'].priority < nodes[parent].priority
  <2> DEFINE k == parent
             q == parent'
  <2>1. k \in DOMAIN nodes /\ q \in DOMAIN nodes /\ q \in Nat
    BY <1>1, <1>3, <1>5
  <2>2. /\ nodes'[k] = nodes[q] /\ nodes'[q] = nodes[k]
        /\ \A i \in DOMAIN nodes : i # k /\ i # q => nodes'[i] = nodes[i]
    BY <1>5, <2>1, SwapFacts
  <2>3. \A i \in Used : \E j \in Used : nodes'[i] = nodes[j] /\ nodes'[j] = nodes[i]
    BY <1>1, <1>3, <1>5, <2>2
  <2>4. Queued' = Queued
    <3>1. Queued = {nodes[i].item : i \in Used} /\ Queued' = {nodes'[i].item : i \in Used}
      BY <1>2, <1>3 DEF HeapSeen
    <3> QED
      BY <2>3, <3>1
  <2>5. nodes'[Root'] = nodes[Root]
    <3>1. Root = IF nodes[k].priority - nodes[0].priority > 0 THEN k ELSE 0
      BY <1>1, <1>3 DEF Root, compare_priority
    <3>2. Root' = IF nodes'[q].priority - nodes'[0].priority > 0 THEN q ELSE 0
      BY <1>1, <1>3, <1>5 DEF Root, compare_priority
    <3>3. CASE q = 0
      <4>1. Root = k
        BY <1>1, <1>3, <1>4, <1>5, <3>1, <3>3
      <4>2. Root' = 0
        BY <3>2, <3>3
      <4> QED
        BY <2>2, <3>3, <4>1, <4>2
    <3>4. CASE q # 0
      <4>1. nodes'[0] = nodes[0]
        BY <1>3, <1>4, <1>5, <2>2, <3>4
      <4> QED
        BY <2>2, <3>1, <3>2, <4>1
    <3> QED
      BY <3>3, <3>4
  <2>6. \A i \in Used' : \E j \in Used : nodes'[i].item = nodes[j].item
                                           /\ nodes'[i].priority = nodes[j].priority
    BY <1>3, <2>3
  <2> QED
    BY <1>1, <2>4, <2>5, <2>6, SameHeap
<1>6. CASE /\ nodes' = nodes /\ heap_pc' = "idle"
           /\ parent = 0 \/ nodes[parent].priority <= nodes[Parent(parent)].priority
  <2>1. Queued' = Queued
    BY <1>2, <1>3, <1>6 DEF HeapSeen
  <2>2. Root' = 0
    BY <1>1, <1>3, <1>6 DEF Root
  <2>3. nodes[parent].priority <= nodes[0].priority
    <3>1. CASE parent = 0
      BY <1>3, <1>4, <3>1
    <3>2. CASE parent # 0
      <4>1. Parent(parent) \in Nat /\ Parent(parent) < parent
        BY <1>4, <3>2, ParentFacts
      <4>2. Parent(parent) \in Used /\ Parent(parent) # parent
        BY <1>1, <1>3, <1>4, <4>1
      <4>3. nodes[Parent(parent)].priority <= nodes[0].priority
        BY <1>1, <4>2, RootFirst
      <4> QED
        BY <1>1, <1>3, <1>4, <1>6, <3>2, <4>2, <4>3
    <3> QED
      BY <3>1, <3>2
  <2>4. Root = 0
    BY <1>1, <1>3, <1>4, <2>3 DEF Root, compare_priority
  <2> QED
    BY <1>1, <1>3, <1>6, <2>1, <2>2, <2>4, SameHeap
<1> QED
  BY <1>1, <1>5, <1>6

(* What pq_heapify brings to the root was seen there before.                *)
LEMMA HeapifySeen == ASSUME HeapInv, pq_heapify PROVE Heap' = Heap
<1>1. /\ HeapInv' /\ UNCHANGED <<heap_size, heap_pc, parent>> /\ heap_pc = "idle"
      /\ sifted \in Used
      /\ \/ /\ sifted' = smallest(nodes, heap_size, sifted) /\ sifted' \in Used /\ sifted' > sifted
            /\ nodes' = pq_swap(nodes, sifted, sifted')
         \/ /\ sifted' = NULL /\ nodes' = nodes
            /\ smallest(nodes, heap_size, sifted) = sifted
  BY HeapifyStep
<1>2. HeapSeen /\ HeapSeen'
  BY <1>1, HeapSeenNow, HeapSeenNext
<1>3. /\ Used' = Used /\ heap_size \in Nat /\ Used = 0 .. heap_size - 1
      /\ Used \subseteq DOMAIN nodes
      /\ NULL # 0
  BY <1>1, HeapFacts, HeapAssumption DEF Used
<1>4. 0 \in Used /\ sifted \in Nat
  BY <1>1, <1>3
<1>5. Root = IF sifted = 0 THEN smallest(nodes, heap_size, 0) ELSE 0
  BY <1>1 DEF Root
<1>6. CASE /\ sifted' = smallest(nodes, heap_size, sifted) /\ sifted' \in Used /\ sifted' > sifted
           /\ nodes' = pq_swap(nodes, sifted, sifted')
  <2> DEFINE k == sifted
             c == sifted'
  <2>1. k \in DOMAIN nodes /\ c \in DOMAIN nodes /\ c \in Nat /\ c # 0
    BY <1>1, <1>3, <1>4, <1>6
  <2>2. /\ nodes'[k] = nodes[c] /\ nodes'[c] = nodes[k]
        /\ \A i \in DOMAIN nodes : i # k /\ i # c => nodes'[i] = nodes[i]
    BY <1>6, <2>1, SwapFacts
  <2>3. \A i \in Used : \E j \in Used : nodes'[i] = nodes[j] /\ nodes'[j] = nodes[i]
    BY <1>1, <1>3, <1>6, <2>2
  <2>4. Queued' = Queued
    <3>1. Queued = {nodes[i].item : i \in Used} /\ Queued' = {nodes'[i].item : i \in Used}
      BY <1>2, <1>3 DEF HeapSeen
    <3> QED
      BY <2>3, <3>1
  <2>5. Root' = 0
    BY <1>1, <2>1 DEF Root
  <2>6. nodes'[0] = nodes[Root]
    BY <1>3, <1>4, <1>5, <1>6, <2>1, <2>2
  <2>7. \A i \in Used' : \E j \in Used : nodes'[i].item = nodes[j].item
                                           /\ nodes'[i].priority = nodes[j].priority
    BY <1>3, <2>3
  <2> QED
    BY <1>1, <2>4, <2>5, <2>6, <2>7, SameHeap
<1>7. CASE /\ sifted' = NULL /\ nodes' = nodes
           /\ smallest(nodes, heap_size, sifted) = sifted
  <2>1. Queued' = Queued
    BY <1>2, <1>3, <1>7 DEF HeapSeen
  <2>2. Root' = 0
    BY <1>1, <1>3, <1>7 DEF Root
  <2>3. Root = 0
    BY <1>5, <1>7
  <2> QED
    BY <1>1, <1>3, <1>7, <2>1, <2>2, <2>3, SameHeap
<1> QED
  BY <1>1, <1>6, <1>7

(* Counting the new node is the promised enqueue.                           *)
LEMMA HeapCountSeen ==
  ASSUME HeapInv, CountNode
  PROVE  \E x \in Items, priority \in Priorities : HeapAbstract!Enqueue(x, priority)
<1> DEFINE x == nodes[heap_size].item
           priority == -nodes[heap_size].priority
           f == Heap.prio
           g == [i \in DOMAIN f \cup {x} |-> IF i = x THEN priority ELSE f[i]]
           t == IF Heap.top = NULL \/ priority < f[Heap.top] THEN x ELSE Heap.top
<1>1. /\ HeapInv' /\ heap_size' = heap_size + 1 /\ parent' = heap_size
      /\ heap_pc = "stored" /\ heap_pc' = "up"
      /\ UNCHANGED <<nodes, sifted>> /\ sifted = NULL
      /\ nodes[heap_size] \in Node
  BY HeapCountStep
<1>2. x \notin Queued /\ priority \in Priorities
  BY <1>1 DEF HeapInv, Moving
<1>3. x \in Items /\ nodes[heap_size].priority \in Int /\ priority \in Int
  BY <1>1 DEF Node
<1>4. /\ heap_size \in Nat /\ Used = 0 .. heap_size - 1 /\ NULL # 0 /\ NULL \notin Items
  BY HeapFacts, HeapAssumption
<1>5. Used' = Used \cup {heap_size} /\ heap_size \notin Used
  BY <1>1, <1>4 DEF Used
<1>6. HeapSeen /\ HeapSeen'
  BY <1>1, HeapSeenNow, HeapSeenNext
<1>7. /\ DOMAIN f = Queued
      /\ \A i \in Used : f[nodes[i].item] = -nodes[i].priority /\ nodes[i].item \in Queued
      /\ \A i \in Used : nodes[i].priority \in Int /\ nodes[i].item \in Items
      /\ Heap.top = IF heap_size = 0 THEN NULL ELSE nodes[Root].item
      /\ Queued = {nodes[i].item : i \in Used}
      /\ Queued' = {nodes[i].item : i \in Used'}
  <2>1. Queued' = {nodes'[i].item : i \in Used'}
    BY <1>6 DEF HeapSeen
  <2>2. Queued' = {nodes[i].item : i \in Used'}
    BY <1>1, <2>1
  <2> QED
    BY <1>6, <2>2 DEF HeapSeen
<1> HIDE DEF f
<1>8. Queued' = Queued \cup {x}
  BY <1>5, <1>7
<1>9. /\ g = [i \in Queued' |-> g[i]]
      /\ \A i \in Used' : g[nodes'[i].item] = -nodes'[i].priority
  <2>1. g = [i \in Queued' |-> g[i]]
    <3>1. DOMAIN f \cup {x} = Queued'
      BY <1>7, <1>8
    <3> QED
      BY <3>1
  <2>2. g[x] = priority
    OBVIOUS
  <2>3. ASSUME NEW i \in Used PROVE g[nodes[i].item] = -nodes[i].priority
    <3>1. nodes[i].item # x /\ nodes[i].item \in DOMAIN f
      BY <1>2, <1>7
    <3> QED
      BY <1>7, <3>1
  <2> HIDE DEF g
  <2> QED
    BY <1>1, <1>5, <2>1, <2>2, <2>3
<1>10. t = IF heap_size' = 0 THEN NULL ELSE nodes'[Root'].item
  <2>1. Root = 0
    BY <1>1, <1>4 DEF Root
  <2>2. Root' = IF nodes[heap_size].priority - nodes[0].priority > 0 THEN heap_size ELSE 0
    BY <1>1, <1>4 DEF Root, compare_priority
  <2>3. CASE heap_size = 0
    <3>1. t = x
      BY <1>7, <2>3
    <3>2. Root' = 0 /\ heap_size' # 0
      BY <1>1, <1>3, <2>2, <2>3
    <3> HIDE DEF t
    <3> QED
      BY <1>1, <2>3, <3>1, <3>2
  <2>4. CASE heap_size # 0
    <3>1. 0 \in Used /\ heap_size' # 0
      BY <1>1, <1>4, <2>4
    <3>2. Heap.top = nodes[0].item /\ f[Heap.top] = -nodes[0].priority /\ Heap.top # NULL
      BY <1>4, <1>7, <2>1, <2>4, <3>1
    <3>3. nodes[0].priority \in Int
      BY <1>7, <3>1
    <3>4. priority < f[Heap.top] <=> nodes[heap_size].priority - nodes[0].priority > 0
      BY <1>3, <3>2, <3>3
    <3> QED
      BY <1>1, <2>2, <3>1, <3>2, <3>4
  <2> QED
    BY <2>3, <2>4
<1> HIDE DEF g, t
<1>11. Heap' = [prio |-> g, top |-> t]
  BY <1>1, <1>9, <1>10, HeapNextIs
<1>12. HeapAbstract!Enqueue(x, priority)
  <2>1. HeapAbstract!QueueItems(Heap) = Queued
    BY <1>7 DEF HeapAbstract!QueueItems, f
  <2>2. HeapAbstract!enqueue(Heap, x, priority) = [prio |-> g, top |-> t]
    BY DEF HeapAbstract!enqueue, HeapAbstract!pq_enqueue, g, t, f
  <2> HIDE DEF x, priority
  <2> QED
    BY <1>2, <1>11, <2>1, <2>2 DEF HeapAbstract!Enqueue
<1> HIDE DEF x, priority
<1> QED
  BY <1>2, <1>3, <1>12

(* A dequeue leaves an item of least priority at the root, as promised.     *)
LEMMA HeapDequeueSeen ==
  ASSUME HeapInv, pq_dequeue
  PROVE  Heap' = Heap \/ HeapAbstract!Dequeue(TRUE)
<1>1. /\ HeapInv' /\ sifted = NULL /\ heap_pc = "idle" /\ heap_pc' = "idle"
      /\ heap_size = 0 => UNCHANGED <<nodes, heap_size, sifted>>
      /\ heap_size > 0 => /\ heap_size' = heap_size - 1
                          /\ sifted' = IF heap_size > 1 THEN 0 ELSE NULL
                          /\ \A i \in Used' : nodes'[i] = nodes[IF i = 0 THEN heap_size - 1 ELSE i]
  BY HeapDequeueStep
<1>2. HeapSeen /\ HeapSeen'
  BY <1>1, HeapSeenNow, HeapSeenNext
<1>3. /\ heap_size \in Nat /\ Used = 0 .. heap_size - 1 /\ NULL # 0 /\ NULL \notin Items
  BY HeapFacts, HeapAssumption
<1>4. Root = 0
  BY <1>1, <1>3 DEF Root
<1>5. CASE heap_size = 0
  <2>1. Used' = Used /\ Queued' = Queued
    BY <1>1, <1>5 DEF Used, Queued
  <2> QED
    BY <1>1, <1>5, <2>1, SameHeap
<1>6. CASE heap_size # 0
  <2> DEFINE f == Heap.prio
             top == nodes[0].item
             rest == [x \in Queued \ {top} |-> f[x]]
             t == IF heap_size' = 0 THEN NULL ELSE nodes'[Root'].item
             from(i) == IF i = 0 THEN heap_size - 1 ELSE i
  <2>1. /\ heap_size' = heap_size - 1 /\ heap_size' \in Nat
        /\ sifted' = IF heap_size > 1 THEN 0 ELSE NULL
        /\ \A i \in Used' : nodes'[i] = nodes[from(i)]
    BY <1>1, <1>3, <1>6
  <2>2. Used' = 0 .. heap_size - 2
    BY <1>3, <2>1 DEF Used
  <2>3. /\ \A i \in Used' : from(i) \in Used \ {0}
        /\ \A j \in Used \ {0} : \E i \in Used' : from(i) = j
        /\ 0 \in Used
    <3>1. ASSUME NEW i \in Used' PROVE from(i) \in Used \ {0}
      BY <1>3, <2>2
    <3>2. ASSUME NEW j \in Used \ {0} PROVE \E i \in Used' : from(i) = j
      <4>1. CASE j = heap_size - 1
        <5>1. 0 \in Used' /\ from(0) = j
          BY <1>3, <2>2, <4>1
        <5> QED
          BY <5>1
      <4>2. CASE j # heap_size - 1
        <5>1. j \in Used' /\ from(j) = j
          BY <1>3, <2>2, <4>2
        <5> QED
          BY <5>1
      <4> QED
        BY <4>1, <4>2
    <3>3. 0 \in Used
      BY <1>3, <1>6
    <3> QED
      BY <3>1, <3>2, <3>3
  <2> HIDE DEF from
  <2>4. /\ Queued = {nodes[i].item : i \in Used}
        /\ Queued' = {nodes'[i].item : i \in Used'}
        /\ \A i, j \in Used : nodes[i].item = nodes[j].item => i = j
        /\ \A i \in Used : nodes[i].item \in Items
        /\ \A i \in Used' : nodes'[i].priority \in Int
        /\ DOMAIN f = Queued
        /\ \A i \in Used : f[nodes[i].item] = -nodes[i].priority
        /\ Heap.top = top
    BY <1>2, <1>4, <1>6 DEF HeapSeen
  <2> HIDE DEF f
  <2>5. Queued' = Queued \ {top}
    <3>1. Queued' = {nodes[from(i)].item : i \in Used'}
      BY <2>1, <2>4
    <3>2. Queued' = {nodes[j].item : j \in Used \ {0}}
      BY <2>3, <3>1
    <3>3. Queued = {nodes[j].item : j \in Used \ {0}} \cup {top}
      BY <2>3, <2>4
    <3>4. top \notin {nodes[j].item : j \in Used \ {0}}
      BY <2>3, <2>4
    <3> QED
      BY <3>2, <3>3, <3>4
  <2>6. \A i \in Used' : rest[nodes'[i].item] = -nodes'[i].priority
    <3> SUFFICES ASSUME NEW i \in Used' PROVE rest[nodes'[i].item] = -nodes'[i].priority
      OBVIOUS
    <3>1. nodes'[i].item \in Queued' /\ nodes'[i] = nodes[from(i)] /\ from(i) \in Used
      BY <2>1, <2>3, <2>4
    <3>2. rest[nodes'[i].item] = f[nodes'[i].item]
      BY <2>5, <3>1
    <3> QED
      BY <2>4, <3>1, <3>2
  <2>7. rest = [x \in Queued' |-> rest[x]]
    BY <2>5
  <2>8. Heap' = [prio |-> rest, top |-> t]
    <3> HIDE DEF rest, t
    <3> QED
      BY <1>1, <2>6, <2>7, HeapNextIs DEF t
  <2>9. HeapAbstract!pq_dequeue(Heap) = {[prio |-> rest, top |-> u] : u \in HeapAbstract!Roots(rest)}
    <3>1. HeapAbstract!Restrict(f, DOMAIN f \ {Heap.top}) = rest
      BY <2>4 DEF HeapAbstract!Restrict
    <3> QED
      BY <3>1 DEF HeapAbstract!pq_dequeue, f
  <2>10. t \in HeapAbstract!Roots(rest)
    <3>1. DOMAIN rest = Queued'
      BY <2>5
    <3>2. CASE heap_size' = 0
      <4>1. Used' = {}
        BY <1>3, <2>1, <2>2, <3>2
      <4>2. DOMAIN rest = {}
        BY <2>4, <3>1, <4>1
      <4> QED
        BY <3>2, <4>2 DEF HeapAbstract!Roots
    <3>3. CASE heap_size' # 0
      <4>1. sifted' = 0 /\ RootLeads'
        <5>1. sifted' = 0
          BY <1>3, <2>1, <3>3
        <5> QED
          BY <1>1, <5>1, RootLeadsNext
      <4>2. Root' \in Used'
        <5>1. Root' = smallest(nodes', heap_size', 0)
          BY <1>1, <4>1 DEF Root
        <5>2. 0 \in 0 .. heap_size' - 1 /\ Used' = 0 .. heap_size' - 1
          BY <1>3, <2>1, <2>2, <3>3
        <5> QED
          BY <2>1, <2>4, <5>1, <5>2, SmallestFacts
      <4>3. t \in DOMAIN rest /\ t = nodes'[Root'].item
        BY <2>4, <3>1, <3>3, <4>2
      <4>4. ASSUME NEW y \in DOMAIN rest PROVE rest[t] <= rest[y]
        <5>1. PICK i \in Used' : y = nodes'[i].item
          <6> HIDE DEF rest, t
          <6> QED
            BY <2>4, <3>1
        <5>2. nodes'[i].priority <= nodes'[Root'].priority
          BY <4>1 DEF RootLeads
        <5>3. rest[y] = -nodes'[i].priority /\ rest[t] = -nodes'[Root'].priority
          BY <2>6, <4>2, <4>3, <5>1
        <5>4. nodes'[i].priority \in Int /\ nodes'[Root'].priority \in Int
          BY <2>4, <4>2
        <5> HIDE DEF rest, t
        <5> QED
          BY <5>2, <5>3, <5>4
      <4> HIDE DEF rest, t
      <4> QED
        BY <4>3, <4>4 DEF HeapAbstract!Roots, HeapAbstract!Least
    <3> QED
      BY <3>2, <3>3
  <2> HIDE DEF rest, t
  <2>11. HeapAbstract!dequeue(Heap, TRUE) = HeapAbstract!pq_dequeue(Heap)
    BY DEF HeapAbstract!dequeue
  <2> QED
    BY <2>8, <2>9, <2>10, <2>11 DEF HeapAbstract!Dequeue
<1> QED
  BY <1>5, <1>6

(* A new priority keeps the root if it is still least, as promised.         *)
LEMMA HeapChangeSeen ==
  ASSUME HeapInv, NEW priority \in Priorities, pq_change_priority(priority)
  PROVE  HeapAbstract!ChangePriority(priority)
<1>1. /\ HeapInv' /\ sifted = NULL /\ heap_pc = "idle" /\ heap_pc' = "idle"
      /\ heap_size' = heap_size
      /\ heap_size = 0 => UNCHANGED <<nodes, sifted>>
      /\ heap_size > 0 => /\ sifted' = IF -priority < nodes[0].priority THEN 0 ELSE NULL
                          /\ \A i \in Used : /\ nodes'[i].item = nodes[i].item
                                               /\ nodes'[i].priority =
                                                    IF i = 0 THEN -priority ELSE nodes[i].priority
  BY HeapChangeStep
<1>2. HeapSeen /\ HeapSeen'
  BY <1>1, HeapSeenNow, HeapSeenNext
<1>3. /\ heap_size \in Nat /\ Used = 0 .. heap_size - 1 /\ Used' = Used /\ NULL # 0
      /\ NULL \notin Items
      /\ priority \in Int
  BY <1>1, HeapFacts, HeapAssumption DEF Used
<1>4. Root = 0
  BY <1>1, <1>3 DEF Root
<1>5. HeapAbstract!change_priority(Heap, priority) = HeapAbstract!pq_change_priority(Heap, priority)
  BY DEF HeapAbstract!change_priority
<1>6. CASE heap_size = 0
  <2>1. Used' = Used /\ Queued' = Queued
    BY <1>1, <1>6 DEF Used, Queued
  <2>2. Heap' = Heap
    BY <1>1, <1>6, <2>1, SameHeap
  <2>3. Heap.top = NULL
    BY <1>2, <1>6 DEF HeapSeen
  <2> QED
    BY <1>5, <2>2, <2>3 DEF HeapAbstract!ChangePriority, HeapAbstract!pq_change_priority
<1>7. CASE heap_size # 0
  <2> DEFINE f == Heap.prio
             top == nodes[0].item
             g == [f EXCEPT ![top] = priority]
             t == nodes'[Root'].item
  <2>1. /\ sifted' = IF -priority < nodes[0].priority THEN 0 ELSE NULL
        /\ \A i \in Used : /\ nodes'[i].item = nodes[i].item
                             /\ nodes'[i].priority =
                                  IF i = 0 THEN -priority ELSE nodes[i].priority
        /\ 0 \in Used /\ 0 \in 0 .. heap_size - 1
    BY <1>1, <1>3, <1>7
  <2>2. /\ Queued = {nodes[i].item : i \in Used}
        /\ Queued' = {nodes'[i].item : i \in Used}
        /\ \A i, j \in Used : nodes[i].item = nodes[j].item => i = j
        /\ \A i \in Used : nodes[i].item \in Items /\ nodes'[i].priority \in Int
        /\ f = [x \in Queued |-> f[x]]
        /\ DOMAIN f = Queued
        /\ \A i \in Used : f[nodes[i].item] = -nodes[i].priority
        /\ Heap.top = top
    BY <1>2, <1>3, <1>4, <1>7 DEF HeapSeen
  <2> HIDE DEF f
  <2>3. Queued' = Queued /\ top \in Queued
    BY <2>1, <2>2
  <2>4. g = [x \in Queued' |-> g[x]] /\ DOMAIN g = Queued
    BY <2>2, <2>3
  <2>5. \A i \in Used : g[nodes'[i].item] = -nodes'[i].priority
    <3> SUFFICES ASSUME NEW i \in Used PROVE g[nodes'[i].item] = -nodes'[i].priority
      OBVIOUS
    <3>1. CASE i = 0
      <4>1. g[top] = priority /\ -(-priority) = priority
        BY <1>3, <2>2, <2>3
      <4> QED
        BY <2>1, <3>1, <4>1
    <3>2. CASE i # 0
      <4>1. nodes[i].item # top /\ nodes[i].item \in Queued
        BY <2>1, <2>2, <3>2
      <4> QED
        BY <2>1, <2>2, <3>2, <4>1
    <3> QED
      BY <3>1, <3>2
  <2>6. Heap' = [prio |-> g, top |-> t]
    <3>1. t = IF heap_size' = 0 THEN NULL ELSE nodes'[Root'].item
      BY <1>1, <1>7
    <3>2. \A i \in Used' : g[nodes'[i].item] = -nodes'[i].priority
      BY <1>3, <2>5
    <3> HIDE DEF g, t
    <3> QED
      BY <1>1, <2>4, <3>1, <3>2, HeapNextIs
  <2>7. RootLeads'
    BY <1>1, <2>1, RootLeadsNext
  <2>8. Root' = IF sifted' = 0 THEN smallest(nodes', heap_size, 0) ELSE 0
    BY <1>1 DEF Root
  <2>9. /\ smallest(nodes', heap_size, 0) \in 0 .. heap_size - 1
        /\ smallest(nodes', heap_size, 0) # 0 =>
             nodes'[0].priority < nodes'[smallest(nodes', heap_size, 0)].priority
    BY <1>3, <2>1, <2>2, SmallestFacts
  <2>10. /\ Root' \in Used
         /\ Root' # 0 => nodes'[0].priority < nodes'[Root'].priority
    BY <1>3, <2>1, <2>8, <2>9
  <2>11. \A i \in Used : nodes'[i].priority <= nodes'[Root'].priority
    BY <1>3, <2>7 DEF RootLeads
  <2>12. t \in Queued /\ g[t] = -nodes'[Root'].priority /\ g[top] = -nodes'[0].priority
    BY <2>1, <2>2, <2>3, <2>5, <2>10
  <2> HIDE DEF g, t, top
  <2>13. ASSUME NEW y \in DOMAIN g PROVE g[t] <= g[y]
    <3>1. PICK i \in Used : y = nodes'[i].item
      BY <2>2, <2>3, <2>4
    <3>2. g[y] = -nodes'[i].priority /\ nodes'[i].priority \in Int /\ nodes'[Root'].priority \in Int
      BY <2>2, <2>5, <2>10, <3>1
    <3> QED
      BY <2>11, <2>12, <3>1, <3>2
  <2>14. t \in HeapAbstract!Least(g)
    BY <2>4, <2>12, <2>13 DEF HeapAbstract!Least
  <2>15. top \in HeapAbstract!Least(g) => t = top
    <3> SUFFICES ASSUME top \in HeapAbstract!Least(g), Root' # 0 PROVE FALSE
      BY <2>1 DEF t, top
    <3>1. g[top] <= g[t]
      BY <2>4, <2>12 DEF HeapAbstract!Least
    <3>2. nodes'[0].priority < nodes'[Root'].priority
      BY <2>10
    <3>3. nodes'[0].priority \in Int /\ nodes'[Root'].priority \in Int
      BY <2>1, <2>2, <2>10
    <3> QED
      BY <2>12, <3>1, <3>2, <3>3
  <2>16. Heap.top = top /\ top # NULL
    BY <1>3, <2>1, <2>2 DEF top
  <2>17. HeapAbstract!pq_change_priority(Heap, priority) =
           {[prio |-> g, top |-> u] :
              u \in IF top \in HeapAbstract!Least(g) THEN {top} ELSE HeapAbstract!Least(g)}
    BY <2>16 DEF HeapAbstract!pq_change_priority, g, f
  <2> QED
    BY <1>5, <2>6, <2>14, <2>15, <2>17 DEF HeapAbstract!ChangePriority
<1> QED
  BY <1>6, <1>7

(* Every step is one that the promise allows, or one that it does not see.  *)
LEMMA HeapStepSeen ==
  HeapInv /\ [HeapNext]_heap_vars => [HeapAbstract!Next]_Heap
<1> SUFFICES ASSUME HeapInv, [HeapNext]_heap_vars
             PROVE  HeapAbstract!Next \/ Heap' = Heap
  OBVIOUS
<1>1. ASSUME NEW x \in Items, NEW priority \in Priorities, Store(x, priority) PROVE Heap' = Heap
  BY <1>1, HeapStoreSeen
<1>2. CASE CountNode
  BY <1>2, HeapCountSeen DEF HeapAbstract!Next
<1>3. CASE SiftUp
  BY <1>3, HeapSiftUpSeen
<1>4. CASE pq_dequeue
  BY <1>4, HeapDequeueSeen DEF HeapAbstract!Next
<1>5. CASE pq_heapify
  BY <1>5, HeapifySeen
<1>6. ASSUME NEW priority \in Priorities, pq_change_priority(priority) PROVE HeapAbstract!Next
  BY <1>6, HeapChangeSeen DEF HeapAbstract!Next
<1>7. CASE UNCHANGED heap_vars
  BY <1>7 DEF heap_vars, Heap, Queued, Used, Root
<1> QED
  BY <1>1, <1>2, <1>3, <1>4, <1>5, <1>6, <1>7 DEF HeapNext

(* The heap starts as promised.                                             *)
LEMMA HeapInitSeen == ASSUME HeapInit PROVE HeapAbstract!Init
<1>1. HeapSeen
  BY HeapStarts, HeapSeenNow
<1>2. heap_size = 0 /\ Queued = {}
  BY DEF HeapInit, Queued, Used
<1>3. Heap.prio = <<>> /\ Heap.top = NULL /\ Heap = [prio |-> Heap.prio, top |-> Heap.top]
  <2>1. Heap.prio = [x \in {} |-> Heap.prio[x]]
    BY <1>1, <1>2 DEF HeapSeen
  <2>2. Heap.prio = <<>>
    BY <2>1
  <2> QED
    BY <1>1, <1>2, <2>2 DEF HeapSeen
<1>4. HeapAbstract!init_queue = [prio |-> <<>>, top |-> NULL]
  BY DEF HeapAbstract!init_queue, HeapAbstract!priority_queue
<1> QED
  BY <1>3, <1>4 DEF HeapAbstract!Init

(* The heap in the array implements the set of priorities and the root that *)
(* the scheduler's model uses: each call has a result that module ReadyQueue*)
(* allows it, for every initial capacity and any integer priorities.        *)
THEOREM HeapImplementsReadyQueue == HeapSpec => HeapImplements
<1>1. HeapInit => HeapAbstract!Init
  BY HeapInitSeen
<1>2. HeapInv /\ [HeapNext]_heap_vars => [HeapAbstract!Next]_Heap
  BY HeapStepSeen
<1> QED
  BY <1>1, <1>2, HeapInvariant, PTL DEF HeapSpec, HeapImplements, HeapAbstract!Spec
=============================================================================
