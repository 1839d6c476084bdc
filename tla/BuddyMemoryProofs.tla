--------------------------- MODULE BuddyMemoryProofs ---------------------------
(***************************************************************************)
(* What a split and a merge keep of the list of blocks, for every size of   *)
(* the memory, and the arithmetic of the powers of two that it rests on.    *)
(***************************************************************************)
EXTENDS BuddyMemory, FunctionTheorems, FiniteSetTheorems, SequenceTheorems,
        WellFoundedInduction, TLAPS

(* Induction, with a set for the predicate.                                 *)
LEMMA SetInduction ==
  ASSUME NEW S, 0 \in S, \A n \in Nat : n \in S => n + 1 \in S
  PROVE  Nat \subseteq S
<1> DEFINE T == Nat \ S
           R == {ss \in Nat \X Nat : ss[1] < ss[2]}
<1> SUFFICES ASSUME T # {} PROVE FALSE
  OBVIOUS
<1>1. IsWellFoundedOn(R, Nat)
  BY NatLessThanWellFounded DEF OpToRel
<1>2. \A s, t \in Nat : s < t => <<s, t>> \in R
  OBVIOUS
<1> HIDE DEF R
<1>3. PICK x \in T : \A y \in T : ~(<<y, x>> \in R)
  BY <1>1, WFMin
<1>4. x \in Nat /\ x # 0 /\ x - 1 \in Nat
  OBVIOUS
<1>5. x - 1 \in T
  BY <1>4
<1>6. x - 1 < x
  BY <1>4
<1> QED
  BY <1>2, <1>3, <1>4, <1>5, <1>6

(* A set of naturals that is not empty has a least element.                 *)
LEMMA LeastElement ==
  ASSUME NEW S, S \subseteq Nat, S # {}
  PROVE  \E m \in S : \A s \in S : m <= s
<1> DEFINE R == {ss \in Nat \X Nat : ss[1] < ss[2]}
<1>1. IsWellFoundedOn(R, Nat)
  BY NatLessThanWellFounded DEF OpToRel
<1>2. \A s, t \in Nat : s < t => <<s, t>> \in R
  OBVIOUS
<1> HIDE DEF R
<1>3. PICK m \in S : \A s \in S : ~(<<s, m>> \in R)
  BY <1>1, WFMin
<1>4. ASSUME NEW s \in S PROVE m <= s
  <2>1. s \in Nat /\ m \in Nat /\ ~(s < m)
    BY <1>2, <1>3
  <2> QED
    BY <2>1
<1> QED
  BY <1>4
-----------------------------------------------------------------------------
(* The powers of two                                                        *)

(* 2 ^ k is the number of subsets of k things: it is positive, it doubles,  *)
(* and it is more than k.                                                   *)
LEMMA PowerZero == 2 ^ 0 = 1
<1>1. Cardinality(SUBSET {}) = 2 ^ 0
  BY FS_EmptySet, FS_SUBSET
<1>2. SUBSET {} = {{}}
  OBVIOUS
<1> QED
  BY <1>1, <1>2, FS_Singleton

(* 2 ^ (k + 1) is twice 2 ^ k: the subsets of 1 .. k + 1 are those of 1 ..  *)
(* k, each without and with the new element.                                *)
LEMMA PowerDoubles ==
  ASSUME NEW k \in Nat
  PROVE  2 ^ k \in Nat /\ 2 ^ (k + 1) = 2 * 2 ^ k
<1> DEFINE old == SUBSET (1 .. k)
           new == {T \cup {k + 1} : T \in old}
           f   == [T \in old |-> T \cup {k + 1}]
<1>1. IsFiniteSet(1 .. k) /\ Cardinality(1 .. k) = k
  BY FS_Interval
<1>2. IsFiniteSet(1 .. k + 1) /\ Cardinality(1 .. k + 1) = k + 1
  BY FS_Interval
<1>3. IsFiniteSet(old) /\ Cardinality(old) = 2 ^ k
  BY <1>1, FS_SUBSET
<1>4. Cardinality(SUBSET (1 .. k + 1)) = 2 ^ (k + 1)
  BY <1>2, FS_SUBSET
<1>5. SUBSET (1 .. k + 1) = old \cup new
  <2>1. ASSUME NEW T \in SUBSET (1 .. k + 1)
        PROVE  T \in old \cup new
    <3>1. CASE k + 1 \in T
      <4>1. T \ {k + 1} \in old /\ T = (T \ {k + 1}) \cup {k + 1}
        BY <3>1
      <4> QED
        BY <4>1
    <3>2. CASE k + 1 \notin T
      BY <3>2
    <3> QED
      BY <3>1, <3>2
  <2>2. 1 .. k \subseteq 1 .. k + 1 /\ k + 1 \in 1 .. k + 1
    OBVIOUS
  <2>3. old \subseteq SUBSET (1 .. k + 1) /\ new \subseteq SUBSET (1 .. k + 1)
    BY <2>2
  <2> QED
    BY <2>1, <2>3
<1>6. old \cap new = {}
  <2>1. k + 1 \notin 1 .. k
    OBVIOUS
  <2> QED
    BY <2>1
<1>7. IsFiniteSet(new) /\ Cardinality(new) = Cardinality(old)
  <2>1. f \in Bijection(old, new)
    <3>1. f \in [old -> new]
      OBVIOUS
    <3>2. ASSUME NEW S \in old, NEW T \in old, f[S] = f[T]
          PROVE  S = T
      <4>1. k + 1 \notin S /\ k + 1 \notin T
        OBVIOUS
      <4>2. S \cup {k + 1} = T \cup {k + 1}
        BY <3>2
      <4> QED
        BY <4>1, <4>2
    <3>3. \A T \in new : \E S \in old : f[S] = T
      OBVIOUS
    <3> HIDE DEF f, new, old
    <3> QED
      BY <3>1, <3>2, <3>3, Fun_IsBij
  <2> HIDE DEF f, new, old
  <2>2. ExistsBijection(old, new)
    BY <2>1 DEF ExistsBijection
  <2> QED
    BY <1>3, <2>2, FS_Bijection
<1> HIDE DEF old, new
<1>8. Cardinality(old \cup new) = Cardinality(old) + Cardinality(new) - Cardinality({})
  BY <1>3, <1>6, <1>7, FS_Union
<1>9. Cardinality(old) \in Nat /\ Cardinality({}) = 0
  BY <1>3, FS_CardinalityType, FS_EmptySet
<1>10. Cardinality(old \cup new) = 2 * Cardinality(old)
  BY <1>7, <1>8, <1>9
<1> QED
  BY <1>3, <1>4, <1>5, <1>9, <1>10

(* An exponent is less than its power, so no order of a block exceeds its   *)
(* size.                                                                    *)
LEMMA PowerAbove ==
  ASSUME NEW k \in Nat
  PROVE  k < 2 ^ k
<1> DEFINE S == {n \in Nat : n < 2 ^ n}
<1>1. 0 \in S
  BY PowerZero
<1>2. \A n \in Nat : n \in S => n + 1 \in S
  <2> SUFFICES ASSUME NEW n \in Nat, n < 2 ^ n PROVE n + 1 < 2 ^ (n + 1)
    OBVIOUS
  <2> QED
    BY PowerDoubles
<1> HIDE DEF S
<1>3. Nat \subseteq S
  BY <1>1, <1>2, SetInduction
<1> QED
  BY <1>3 DEF S

(* The power of a sum is the product of the powers.                         *)
LEMMA PowerSum ==
  ASSUME NEW j \in Nat, NEW d \in Nat
  PROVE  2 ^ (j + d) = 2 ^ j * 2 ^ d
<1> DEFINE S == {n \in Nat : 2 ^ (j + n) = 2 ^ j * 2 ^ n}
<1>1. 0 \in S
  <2>1. 2 ^ j \in Nat /\ j + 0 = j
    BY PowerDoubles
  <2> QED
    BY <2>1, PowerZero
<1>2. \A n \in Nat : n \in S => n + 1 \in S
  <2> SUFFICES ASSUME NEW n \in Nat, 2 ^ (j + n) = 2 ^ j * 2 ^ n
               PROVE  2 ^ (j + (n + 1)) = 2 ^ j * 2 ^ (n + 1)
    OBVIOUS
  <2>1. 2 ^ ((j + n) + 1) = 2 * 2 ^ (j + n) /\ (j + n) + 1 = j + (n + 1)
    BY PowerDoubles
  <2>2. 2 ^ (n + 1) = 2 * 2 ^ n /\ 2 ^ n \in Nat /\ 2 ^ j \in Nat
    BY PowerDoubles
  <2>3. \A a, b \in Nat : 2 * (a * b) = a * (2 * b)
    OBVIOUS
  <2> QED
    BY <2>1, <2>2, <2>3
<1> HIDE DEF S
<1>3. Nat \subseteq S
  BY <1>1, <1>2, SetInduction
<1> QED
  BY <1>3 DEF S

(* A larger power of two is a multiple of twice the smaller.                *)
LEMMA PowerOrder ==
  ASSUME NEW j \in Nat, NEW k \in Nat, j < k
  PROVE  \E m \in Nat \ {0} : 2 ^ k = m * (2 * 2 ^ j)
<1> DEFINE d == k - (j + 1)
<1>1. d \in Nat /\ (j + 1) + d = k
  OBVIOUS
<1>2. 2 ^ k = 2 ^ (j + 1) * 2 ^ d
  BY <1>1, PowerSum
<1>3. 2 ^ (j + 1) = 2 * 2 ^ j /\ 2 ^ j \in Nat
  BY PowerDoubles
<1>4. 2 ^ d \in Nat /\ d < 2 ^ d
  BY <1>1, PowerDoubles, PowerAbove
<1>5. 2 ^ d \in Nat \ {0}
  BY <1>1, <1>4
<1>6. 2 ^ k = 2 ^ d * (2 * 2 ^ j)
  BY <1>2, <1>3, <1>5
<1> QED
  BY <1>5, <1>6

(* Powers of two are ordered as their exponents are, and the next one is at *)
(* least twice as large.                                                    *)
LEMMA PowerLess ==
  ASSUME NEW j \in Nat, NEW k \in Nat
  PROVE  /\ 2 ^ j \in Nat \ {0}
         /\ j < k => 2 * 2 ^ j <= 2 ^ k
         /\ j < k <=> 2 ^ j < 2 ^ k
<1>1. \A n \in Nat : 2 ^ n \in Nat \ {0}
  BY PowerDoubles, PowerAbove
<1>2. ASSUME NEW a \in Nat, NEW b \in Nat, a < b
      PROVE  2 * 2 ^ a <= 2 ^ b
  <2>1. PICK m \in Nat \ {0} : 2 ^ b = m * (2 * 2 ^ a)
    BY <1>2, PowerOrder
  <2>2. \A x \in Nat, y \in Nat \ {0} : y * x >= x
    OBVIOUS
  <2> QED
    BY <1>1, <2>1, <2>2
<1>3. j < k => 2 ^ j < 2 ^ k
  BY <1>1, <1>2
<1>4. k < j => 2 ^ k < 2 ^ j
  BY <1>1, <1>2
<1> QED
  BY <1>1, <1>2, <1>3, <1>4

(* The conversions of log2: (int)log2 of a power of two is its exponent.    *)
LEMMA FloorOfPower ==
  ASSUME NEW k \in Nat
  PROVE  FloorLog2(2 ^ k) = k
<1> DEFINE Q(c) == 2 ^ c <= 2 ^ k /\ 2 ^ k < 2 ^ (c + 1)
<1>1. 2 ^ k \in Nat \ {0} /\ k \in 0 .. 2 ^ k
  BY PowerLess, PowerAbove
<1>2. Q(k)
  BY PowerLess
<1>3. ASSUME NEW c \in Nat, Q(c)
      PROVE  c = k
  <2>1. 2 ^ c \in Nat /\ 2 ^ k \in Nat
    BY PowerLess
  <2>2. ~(2 ^ k < 2 ^ c)
    BY <1>3, <2>1
  <2>3. ~(k < c) /\ k < c + 1
    BY <1>3, <2>2, PowerLess
  <2> QED
    BY <2>3
<1>4. \A c \in 0 .. 2 ^ k : Q(c) <=> c = k
  BY <1>1, <1>2, <1>3
<1> QED
  BY <1>1, <1>4 DEF FloorLog2

(* (int)ceil(log2) of a request is the least order that is large enough.    *)
LEMMA CeilIsLeast ==
  ASSUME NEW r \in Nat \ {0}
  PROVE  /\ CeilLog2(r) \in Nat
         /\ r <= 2 ^ CeilLog2(r)
         /\ CeilLog2(r) > 0 => 2 ^ (CeilLog2(r) - 1) < r
<1> DEFINE S == {k \in Nat : r <= 2 ^ k}
<1>1. r \in S
  BY PowerAbove, PowerLess
<1>2. PICK m \in S : \A k \in S : m <= k
  BY <1>1, LeastElement
<1>3. m \in 0 .. r
  BY <1>1, <1>2
<1>4. m > 0 => 2 ^ (m - 1) < r
  <2> SUFFICES ASSUME m > 0 PROVE 2 ^ (m - 1) < r
    OBVIOUS
  <2>1. m - 1 \in Nat /\ ~(m <= m - 1)
    BY <1>3
  <2>2. ~(r <= 2 ^ (m - 1)) /\ 2 ^ (m - 1) \in Nat
    BY <1>2, <2>1, PowerLess
  <2> QED
    BY <2>2
<1> DEFINE Q(k) == r <= 2 ^ k /\ (k > 0 => 2 ^ (k - 1) < r)
<1>5. CeilLog2(r) = CHOOSE k \in 0 .. r : Q(k)
  BY DEF CeilLog2
<1>6. Q(m)
  BY <1>2, <1>4
<1> HIDE DEF Q
<1>7. CeilLog2(r) \in 0 .. r /\ Q(CeilLog2(r))
  BY <1>3, <1>5, <1>6
<1> QED
  BY <1>7 DEF Q

(* An order is too high for a request if half of the block is enough.       *)
LEMMA TooLargeMeansHalf ==
  ASSUME NEW k \in Nat, NEW r \in Nat \ {0}, r <= 2 ^ k, NEW b, b.size = 2 ^ k
  PROVE  TooLarge(b, r) <=> 2 * r <= 2 ^ k
<1> DEFINE c == CeilLog2(r)
<1>1. c \in Nat /\ r <= 2 ^ c /\ (c > 0 => 2 ^ (c - 1) < r)
  BY CeilIsLeast
<1>2. TooLarge(b, r) <=> k # c
  BY FloorOfPower DEF TooLarge
<1>3. 2 ^ k \in Nat /\ 2 ^ c \in Nat
  BY <1>1, PowerLess
<1> HIDE DEF c
<1>4. CASE k < c
  <2>1. c > 0 /\ c - 1 \in Nat /\ ~(c - 1 < k)
    BY <1>1, <1>4
  <2>2. 2 ^ (c - 1) \in Nat /\ 2 ^ (c - 1) < 2 ^ k
    BY <1>1, <1>3, <2>1, PowerLess
  <2> QED
    BY <2>1, <2>2, PowerLess
<1>5. CASE k = c
  <2>1. CASE c = 0
    BY <1>2, <1>5, <2>1, PowerZero
  <2>2. CASE c > 0
    <3>1. c - 1 \in Nat /\ (c - 1) + 1 = c /\ 2 ^ (c - 1) < r
      BY <1>1, <2>2
    <3>2. 2 ^ (c - 1) \in Nat /\ 2 ^ c = 2 * 2 ^ (c - 1)
      BY <3>1, PowerDoubles
    <3> QED
      BY <1>2, <1>5, <3>1, <3>2
  <2> QED
    BY <1>1, <2>1, <2>2
<1>6. CASE k > c
  <2>1. 2 * 2 ^ c <= 2 ^ k
    BY <1>1, <1>6, PowerLess
  <2> QED
    BY <1>1, <1>2, <1>3, <1>6, <2>1
<1> QED
  BY <1>1, <1>4, <1>5, <1>6
-----------------------------------------------------------------------------
(* Multiples                                                                *)

(* What % and div compute of a multiple.                                    *)
LEMMA Multiple ==
  ASSUME NEW a \in Nat, NEW b \in Nat \ {0}
  PROVE  /\ a % b = 0 <=> \E m \in Nat : a = m * b
         /\ \A m \in Nat : a = m * b => a \div b = m
<1>1. a \div b \in Nat /\ a = b * (a \div b) + (a % b)
  OBVIOUS
<1>2. a % b = 0 => \E m \in Nat : a = m * b
  <2>1. a % b = 0 => a = (a \div b) * b
    BY <1>1
  <2> QED
    BY <1>1, <2>1
<1>3. ASSUME NEW m \in Nat, a = m * b
      PROVE  a % b = 0 /\ a \div b = m
  BY <1>3
<1> QED
  BY <1>2, <1>3

(* A multiple is at least as large, unless it is 0.                         *)
LEMMA MultipleLarger ==
  ASSUME NEW a \in Nat \ {0}, NEW b \in Nat, NEW m \in Nat, a = m * b
  PROVE  b <= a /\ (b < a => 2 * b <= a)
<1>1. m # 0
  OBVIOUS
<1>2. m * b >= b
  BY <1>1
<1>3. m >= 2 => m * b >= 2 * b
  OBVIOUS
<1>4. m = 1 => a = b
  OBVIOUS
<1> QED
  BY <1>1, <1>2, <1>3, <1>4

(* The sizes of blocks: each is a divisor of every larger one, and of the   *)
(* memory's; one that is not 1 has a half, and one that is not the          *)
(* memory's a double.                                                       *)
LEMMA MaxSizeOrder ==
  /\ MAX_SIZE \in Nat \ {0}
  /\ FloorLog2(MAX_SIZE) \in Nat
  /\ MAX_SIZE = 2 ^ FloorLog2(MAX_SIZE)
<1>1. PICK k \in 0 .. MAX_SIZE : MAX_SIZE = 2 ^ k
  BY MaxSizeAssumption
<1>2. k \in Nat
  OBVIOUS
<1> QED
  BY <1>1, <1>2, FloorOfPower, PowerLess

(* The sizes that halving MAX_SIZE yields: half of one and twice one are    *)
(* such sizes, and a larger one is a multiple of any smaller one.           *)
LEMMA SizeFacts ==
  ASSUME NEW s \in BlockSizes
  PROVE  /\ s \in Nat \ {0} /\ s <= MAX_SIZE
         /\ s >= 2 => s \div 2 \in BlockSizes /\ 2 * (s \div 2) = s
         /\ s < MAX_SIZE => 2 * s \in BlockSizes
         /\ \A t \in BlockSizes : s < t => \E m \in Nat \ {0} : t = m * (2 * s)
         /\ \A t \in BlockSizes : s <= t => \E m \in Nat \ {0} : t = m * s
<1> DEFINE K == FloorLog2(MAX_SIZE)
<1>0. K \in Nat /\ MAX_SIZE = 2 ^ K
  BY MaxSizeOrder
<1>1. PICK k \in 0 .. K : s = 2 ^ k
  BY DEF BlockSizes
<1>2. BlockSizes = {2 ^ n : n \in 0 .. K}
  BY DEF BlockSizes
<1> HIDE DEF K
<1>3. k \in Nat /\ k <= K
  BY <1>0, <1>1
<1>4. s \in Nat \ {0} /\ s <= MAX_SIZE
  <2>1. k < K => 2 ^ k < 2 ^ K
    BY <1>0, <1>3, PowerLess
  <2> QED
    BY <1>0, <1>1, <1>3, <2>1, PowerLess
<1>5. ASSUME s >= 2
      PROVE  s \div 2 \in BlockSizes /\ 2 * (s \div 2) = s
  <2>1. k # 0
    <3>1. k = 0 => s = 1
      BY <1>1, PowerZero
    <3> QED
      BY <1>5, <3>1
  <2>2. k - 1 \in Nat /\ k - 1 \in 0 .. K /\ (k - 1) + 1 = k
    BY <1>0, <1>3, <2>1
  <2>3. 2 ^ (k - 1) \in Nat /\ s = 2 * 2 ^ (k - 1)
    BY <1>1, <2>2, PowerDoubles
  <2>4. s \div 2 = 2 ^ (k - 1)
    BY <2>3
  <2> QED
    BY <1>2, <2>2, <2>3, <2>4
<1>6. ASSUME s < MAX_SIZE
      PROVE  2 * s \in BlockSizes
  <2>1. k < K
    BY <1>0, <1>1, <1>3, <1>6, PowerLess
  <2>2. k + 1 \in 0 .. K /\ 2 * s = 2 ^ (k + 1)
    BY <1>0, <1>1, <1>3, <2>1, PowerDoubles
  <2> QED
    BY <1>2, <2>2
<1>7. ASSUME NEW t \in BlockSizes, s < t
      PROVE  \E m \in Nat \ {0} : t = m * (2 * s)
  <2>1. PICK n \in 0 .. K : t = 2 ^ n
    BY <1>2
  <2>2. n \in Nat /\ k < n
    BY <1>0, <1>1, <1>3, <1>7, <2>1, PowerLess
  <2> QED
    BY <1>1, <1>3, <2>1, <2>2, PowerOrder
<1>8. ASSUME NEW t \in BlockSizes, s <= t
      PROVE  \E m \in Nat \ {0} : t = m * s
  <2>1. t \in Nat
    BY <1>0, <1>2, PowerLess
  <2>2. CASE s = t
    <3>1. t = 1 * s
      BY <1>4, <2>2
    <3> QED
      BY <3>1
  <2>3. CASE s < t
    <3>1. PICK m \in Nat \ {0} : t = m * (2 * s)
      BY <1>7, <2>3
    <3>2. 2 * m \in Nat \ {0} /\ t = (2 * m) * s
      BY <1>4, <3>1
    <3> QED
      BY <3>2
  <2> QED
    BY <1>4, <1>8, <2>1, <2>2, <2>3
<1> QED
  BY <1>4, <1>5, <1>6, <1>7, <1>8
-----------------------------------------------------------------------------
(* Lists of blocks                                                          *)

(* The list with a block put in at position i.                              *)
LEMMA InsertAtType ==
  ASSUME NEW S, NEW s \in Seq(S), NEW i \in 1 .. Len(s) + 1, NEW e \in S
  PROVE  /\ InsertAt(s, i, e) \in Seq(S)
         /\ Len(InsertAt(s, i, e)) = Len(s) + 1
<1> DEFINE before == SubSeq(s, 1, i - 1)
           after  == SubSeq(s, i, Len(s))
<1>1. before \in Seq(S) /\ Len(before) = i - 1
  BY SubSeqProperties, ElementOfSeq, LenProperties
<1>2. after \in Seq(S) /\ Len(after) = Len(s) + 1 - i
  BY SubSeqProperties, ElementOfSeq, LenProperties
<1>3. <<e>> \in Seq(S) /\ Len(<<e>>) = 1
  OBVIOUS
<1> HIDE DEF before, after
<1>4. before \o <<e>> \in Seq(S) /\ Len(before \o <<e>>) = i
  BY <1>1, <1>3, ConcatProperties
<1>5. /\ (before \o <<e>>) \o after \in Seq(S)
      /\ Len((before \o <<e>>) \o after) = Len(before \o <<e>>) + Len(after)
  BY <1>2, <1>4, ConcatProperties
<1>6. Len(s) \in Nat /\ i \in Int
  BY LenProperties
<1>7. Len((before \o <<e>>) \o after) = Len(s) + 1
  BY SMTT(30), <1>2, <1>4, <1>5, <1>6
<1> QED
  BY <1>5, <1>7 DEF InsertAt, before, after

(* Its blocks, by position.                                                  *)
LEMMA InsertAtItems ==
  ASSUME NEW S, NEW s \in Seq(S), NEW i \in 1 .. Len(s) + 1, NEW e \in S
  PROVE  \A j \in 1 .. Len(s) + 1 :
           InsertAt(s, i, e)[j] = IF j < i THEN s[j] ELSE IF j = i THEN e ELSE s[j - 1]
<1> DEFINE before == SubSeq(s, 1, i - 1)
           after  == SubSeq(s, i, Len(s))
<1>0. Len(s) \in Nat /\ DOMAIN s = 1 .. Len(s)
  BY LenProperties
<1>1. before \in Seq(S) /\ Len(before) = i - 1 /\ \A j \in 1 .. i - 1 : before[j] = s[j]
  BY <1>0, SubSeqProperties, ElementOfSeq
<1>2. /\ after \in Seq(S) /\ Len(after) = Len(s) + 1 - i
      /\ \A j \in 1 .. Len(s) + 1 - i : after[j] = s[i + j - 1]
  BY <1>0, SubSeqProperties, ElementOfSeq
<1>3. InsertAt(s, i, e) = (before \o <<e>>) \o after
  BY DEF InsertAt
<1> HIDE DEF before, after
<1>4. <<e>> \in Seq(S) /\ Len(<<e>>) = 1 /\ <<e>>[1] = e
  OBVIOUS
<1>5. /\ before \o <<e>> \in Seq(S) /\ Len(before \o <<e>>) = i
      /\ \A j \in 1 .. i : (before \o <<e>>)[j] = IF j < i THEN s[j] ELSE e
  BY <1>0, <1>1, <1>4, ConcatProperties
<1> DEFINE front_part == before \o <<e>>
<1>6. \A j \in 1 .. Len(s) + 1 :
        (front_part \o after)[j] = IF j <= i THEN front_part[j] ELSE after[j - i]
  <2> HIDE DEF front_part
  <2> QED
    BY <1>0, <1>2, <1>5, ConcatProperties DEF front_part
<1> SUFFICES ASSUME NEW j \in 1 .. Len(s) + 1
             PROVE  InsertAt(s, i, e)[j] = IF j < i THEN s[j] ELSE IF j = i THEN e ELSE s[j - 1]
  OBVIOUS
<1>7. InsertAt(s, i, e)[j] = IF j <= i THEN front_part[j] ELSE after[j - i]
  BY <1>3, <1>6
<1>8. CASE j <= i
  BY <1>5, <1>7, <1>8
<1>9. CASE j > i
  <2>1. j - i \in 1 .. Len(s) + 1 - i /\ i + (j - i) - 1 = j - 1
    BY <1>0, <1>9
  <2> QED
    BY <1>0, <1>2, <1>7, <1>9, <2>1
<1> QED
  BY <1>0, <1>8, <1>9

(* The list without the block at position i.                                *)
LEMMA RemoveAtItems ==
  ASSUME NEW S, NEW s \in Seq(S), NEW i \in 1 .. Len(s)
  PROVE  /\ RemoveAt(s, i) \in Seq(S)
         /\ Len(RemoveAt(s, i)) = Len(s) - 1
         /\ \A j \in 1 .. Len(s) - 1 : RemoveAt(s, i)[j] = IF j < i THEN s[j] ELSE s[j + 1]
<1> DEFINE before == SubSeq(s, 1, i - 1)
           after  == SubSeq(s, i + 1, Len(s))
<1>0. Len(s) \in Nat /\ DOMAIN s = 1 .. Len(s)
  BY LenProperties
<1>1. before \in Seq(S) /\ Len(before) = i - 1 /\ \A j \in 1 .. i - 1 : before[j] = s[j]
  BY <1>0, SubSeqProperties, ElementOfSeq
<1>2. /\ after \in Seq(S) /\ Len(after) = Len(s) - i
      /\ \A j \in 1 .. Len(s) - i : after[j] = s[i + j]
  <2>1. \A j \in i + 1 .. Len(s) : s[j] \in S
    BY <1>0, ElementOfSeq
  <2>2. /\ after \in Seq(S)
        /\ Len(after) = IF i + 1 <= Len(s) THEN Len(s) - (i + 1) + 1 ELSE 0
        /\ \A j \in 1 .. Len(s) - (i + 1) + 1 : after[j] = s[(i + 1) + j - 1]
    BY <1>0, <2>1, SubSeqProperties
  <2> HIDE DEF after
  <2>3. /\ Len(s) - (i + 1) + 1 = Len(s) - i
        /\ IF i + 1 <= Len(s) THEN TRUE ELSE Len(s) - i = 0
    <3>1. \A n \in Nat : \A k \in 1 .. n : /\ n - (k + 1) + 1 = n - k
                                           /\ k + 1 <= n \/ n - k = 0
      OBVIOUS
    <3> QED
      BY <1>0, <3>1
  <2>4. Len(after) = Len(s) - i
    BY <2>2, <2>3
  <2>5. ASSUME NEW j \in 1 .. Len(s) - i
        PROVE  after[j] = s[i + j]
    <3>1. (i + 1) + j - 1 = i + j /\ j \in 1 .. Len(s) - (i + 1) + 1
      BY <1>0
    <3> QED
      BY <2>2, <3>1
  <2> QED
    BY <2>2, <2>4, <2>5
<1>3. RemoveAt(s, i) = before \o after
  BY DEF RemoveAt
<1> HIDE DEF before, after
<1>4. /\ before \o after \in Seq(S)
      /\ Len(before \o after) = Len(s) - 1
      /\ \A j \in 1 .. Len(s) - 1 :
           (before \o after)[j] = IF j <= i - 1 THEN before[j] ELSE after[j - (i - 1)]
  <2>1. /\ before \o after \in Seq(S)
        /\ Len(before \o after) = Len(before) + Len(after)
        /\ \A j \in 1 .. Len(before) + Len(after) :
             (before \o after)[j] =
               IF j <= Len(before) THEN before[j] ELSE after[j - Len(before)]
    BY <1>1, <1>2, ConcatProperties
  <2>2. Len(before) = i - 1 /\ Len(before) + Len(after) = Len(s) - 1
    BY <1>0, <1>1, <1>2
  <2> QED
    BY <2>1, <2>2
<1>5. ASSUME NEW j \in 1 .. Len(s) - 1
      PROVE  (before \o after)[j] = IF j < i THEN s[j] ELSE s[j + 1]
  <2>1. CASE j < i
    BY <1>0, <1>1, <1>4, <2>1
  <2>2. CASE j >= i
    <3>1. j - (i - 1) \in 1 .. Len(s) - i /\ i + (j - (i - 1)) = j + 1
      BY <1>0, <2>2
    <3>2. (before \o after)[j] = after[j - (i - 1)]
      BY <1>0, <1>4, <2>2
    <3>3. after[j - (i - 1)] = s[j + 1]
      BY <1>2, <3>1
    <3> QED
      BY <2>2, <3>2, <3>3
  <2>3. j < i \/ j >= i
    BY <1>0
  <2> QED
    BY <2>1, <2>2, <2>3
<1> QED
  BY <1>3, <1>4, <1>5

(* The halves of an aligned block are aligned, and so is the block of two   *)
(* buddies.                                                                 *)
LEMMA HalvesAligned ==
  ASSUME NEW a \in Nat, NEW h \in Nat \ {0}, a % (2 * h) = 0
  PROVE  a % h = 0 /\ (a + h) % h = 0
<1>0. 2 * h \in Nat \ {0}
  OBVIOUS
<1>1. PICK m \in Nat : a = m * (2 * h)
  BY <1>0, Multiple
<1>2. 2 * m \in Nat /\ 2 * m + 1 \in Nat /\ a = (2 * m) * h /\ a + h = (2 * m + 1) * h
  BY <1>1
<1> QED
  BY <1>2, Multiple

(* Every block's size divides the size of the memory.                       *)
LEMMA SizeDivides ==
  ASSUME NEW s \in BlockSizes
  PROVE  \E m \in Nat \ {0} : MAX_SIZE = m * s
<1>1. MAX_SIZE \in BlockSizes
  BY MaxSizeOrder DEF BlockSizes
<1>2. s <= MAX_SIZE /\ \A t \in BlockSizes : s <= t => \E m \in Nat \ {0} : t = m * s
  BY SizeFacts
<1> QED
  BY <1>1, <1>2

(* A left buddy's start is aligned to twice its size; a right buddy's left  *)
(* neighbour is a left buddy; and the block behind a left buddy is a right  *)
(* one.                                                                     *)
LEMMA BuddiesAligned ==
  ASSUME NEW a \in Nat, NEW h \in Nat \ {0}, a % h = 0
  PROVE  /\ (a \div h) % 2 = 0 => a % (2 * h) = 0
         /\ (a \div h) % 2 # 0 => a >= h /\ (a - h) % (2 * h) = 0 /\ ((a - h) \div h) % 2 = 0
         /\ (a \div h) % 2 = 0 => ((a + h) \div h) % 2 # 0
<1>0. 2 * h \in Nat \ {0}
  OBVIOUS
<1>1. PICK m \in Nat : a = m * h
  BY Multiple
<1>2. a \div h = m
  BY <1>1, Multiple
<1>3. ASSUME m % 2 = 0
      PROVE  a % (2 * h) = 0 /\ ((a + h) \div h) % 2 # 0
  <2>1. PICK n \in Nat : m = 2 * n
    BY <1>3
  <2>2. a = n * (2 * h)
    BY <1>1, <2>1
  <2>3. m + 1 \in Nat /\ a + h = (m + 1) * h /\ (m + 1) % 2 # 0
    BY <1>1, <1>3
  <2>4. (a + h) \div h = m + 1
    BY <2>3, Multiple
  <2>5. a % (2 * h) = 0
    BY <1>0, <2>2, Multiple
  <2> QED
    BY <2>3, <2>4, <2>5
<1>4. ASSUME m % 2 # 0
      PROVE  a >= h /\ (a - h) % (2 * h) = 0 /\ ((a - h) \div h) % 2 = 0
  <2>1. PICK n \in Nat : m = 2 * n + 1
    BY <1>4
  <2>2. a = n * (2 * h) + h
    BY <1>1, <2>1
  <2>3. n * (2 * h) \in Nat /\ a - h = n * (2 * h) /\ a - h = (2 * n) * h
    BY <2>2
  <2>4. (a - h) \div h = 2 * n
    BY <2>3, Multiple
  <2>5. (a - h) % (2 * h) = 0
    BY <1>0, <2>3, Multiple
  <2>6. a >= h /\ (2 * n) % 2 = 0
    BY <2>2, <2>3
  <2> QED
    BY <2>4, <2>5, <2>6
<1> QED
  BY <1>2, <1>3, <1>4

(* What a split makes of the list: two halves in the block's place.         *)
SplitItems(mem, i, new) ==
  LET half == mem[i].size \div 2
  IN  /\ new \in Seq(Blocks) /\ Len(new) = Len(mem) + 1
      /\ \A j \in 1 .. Len(mem) + 1 :
           new[j] = IF j < i THEN mem[j]
                    ELSE IF j = i THEN [mem[i] EXCEPT !.size = half]
                    ELSE IF j = i + 1 THEN [start |-> mem[i].start + half, size |-> half,
                                            allocated |-> 0]
                    ELSE mem[j - 1]

(* What split_block (buddy_memory.c:55-74) leaves at each place of the      *)
(* list.                                                                    *)
LEMMA SplitBlocks ==
  ASSUME NEW mem \in Seq(Blocks), NEW i \in DOMAIN mem
  PROVE  SplitItems(mem, i, split_block(mem, i))
<1> DEFINE half  == mem[i].size \div 2
           left  == [mem[i] EXCEPT !.size = half]
           right == [start |-> mem[i].start + half, size |-> half, allocated |-> 0]
           halved == [mem EXCEPT ![i] = left]
           new   == InsertAt(halved, i + 1, right)
<1>1. Len(mem) \in Nat /\ DOMAIN mem = 1 .. Len(mem)
  BY LenProperties
<1>2. mem[i] \in Blocks
  BY ElementOfSeq, <1>1
<1>3. half \in Nat /\ left \in Blocks /\ right \in Blocks
  <2>1. mem[i].start \in Nat /\ mem[i].size \in Nat /\ half \in Nat
    BY <1>2 DEF Blocks
  <2>2. mem[i].start + half \in Nat
    BY <2>1
  <2> HIDE DEF half
  <2> QED
    BY <1>2, <2>1, <2>2 DEF Blocks
<1>4. split_block(mem, i) = new
  BY DEF split_block
<1>5. /\ halved \in Seq(Blocks) /\ Len(halved) = Len(mem)
      /\ \A j \in 1 .. Len(mem) : halved[j] = IF j = i THEN left ELSE mem[j]
  <2> HIDE DEF left
  <2> QED
    BY <1>1, <1>3, ExceptSeq
<1>6. i + 1 \in 1 .. Len(halved) + 1
  BY <1>1, <1>5
<1> HIDE DEF halved, right, left, half
<1>7. new \in Seq(Blocks) /\ Len(new) = Len(mem) + 1
  <2>1. new \in Seq(Blocks) /\ Len(new) = Len(halved) + 1
    <3> HIDE DEF new
    <3>1. InsertAt(halved, i + 1, right) = new
      BY DEF new
    <3> QED
      BY <1>3, <1>5, <1>6, <3>1, InsertAtType
  <2> QED
    BY <1>5, <2>1
<1>8. \A j \in 1 .. Len(mem) + 1 :
        new[j] = IF j < i + 1 THEN halved[j] ELSE IF j = i + 1 THEN right ELSE halved[j - 1]
  BY <1>3, <1>5, <1>6, InsertAtItems
<1>9. ASSUME NEW j \in 1 .. Len(mem) + 1
      PROVE  new[j] = IF j < i THEN mem[j] ELSE IF j = i THEN left
                      ELSE IF j = i + 1 THEN right ELSE mem[j - 1]
  <2>1. CASE j <= i
    <3>1. j \in 1 .. Len(mem) /\ j < i + 1
      BY <1>1, <2>1
    <3> QED
      BY <1>1, <1>5, <1>8, <2>1, <3>1
  <2>2. CASE j = i + 1
    BY <1>1, <1>8, <2>2
  <2>3. CASE j > i + 1
    <3>1. j - 1 \in 1 .. Len(mem) /\ j - 1 # i
      BY <1>1, <2>3
    <3> QED
      BY <1>1, <1>5, <1>8, <2>3, <3>1
  <2> QED
    BY <1>1, <2>1, <2>2, <2>3
<1>10. \A j \in 1 .. Len(mem) + 1 :
         new[j] = IF j < i THEN mem[j] ELSE IF j = i THEN left
                  ELSE IF j = i + 1 THEN right ELSE mem[j - 1]
  BY <1>9
<1>11. SplitItems(mem, i, new)
  <2> HIDE DEF new
  <2> QED
    BY <1>7, <1>10 DEF SplitItems, left, right, half
<1> QED
  BY <1>4, <1>11

(* The types of the blocks of a well-formed list.                           *)
LEMMA BlockTypes ==
  ASSUME NEW mem, MemoryOK(mem)
  PROVE  /\ Len(mem) \in Nat \ {0} /\ DOMAIN mem = 1 .. Len(mem)
         /\ \A i \in DOMAIN mem :
              /\ mem[i] \in Blocks
              /\ mem[i].start \in Nat /\ mem[i].allocated \in Nat
              /\ mem[i].size \in Nat \ {0} /\ mem[i].size \in BlockSizes
              /\ mem[i].start % mem[i].size = 0
<1>1. mem \in Seq(Blocks) /\ Len(mem) > 0
  BY DEF MemoryOK
<1>2. Len(mem) \in Nat /\ DOMAIN mem = 1 .. Len(mem)
  BY <1>1, LenProperties
<1>3. ASSUME NEW i \in DOMAIN mem
      PROVE  /\ mem[i] \in Blocks
             /\ mem[i].start \in Nat /\ mem[i].allocated \in Nat
             /\ mem[i].size \in Nat \ {0} /\ mem[i].size \in BlockSizes
             /\ mem[i].start % mem[i].size = 0
  <2>1. mem[i] \in Blocks
    BY <1>1, <1>2, ElementOfSeq
  <2>2. mem[i].size \in BlockSizes /\ mem[i].start % mem[i].size = 0
    BY DEF MemoryOK
  <2> QED
    BY <2>1, <2>2, SizeFacts DEF Blocks
<1> QED
  BY <1>1, <1>2, <1>3

(* split_block keeps the list well formed: two halves in place of a whole   *)
(* still tile the memory.                                                   *)
LEMMA SplitKeepsList ==
  ASSUME NEW mem, MemoryOK(mem), NEW i \in DOMAIN mem, mem[i].size >= 2,
         NEW new, SplitItems(mem, i, new)
  PROVE  MemoryOK(new)
<1> DEFINE h == mem[i].size \div 2
           a == mem[i].start
           n == Len(mem)
           old(j) == IF j <= i THEN j ELSE j - 1
<1>1. /\ n \in Nat \ {0} /\ DOMAIN mem = 1 .. n /\ i \in 1 .. n
      /\ a \in Nat /\ mem[i].size \in BlockSizes /\ a % mem[i].size = 0
  BY BlockTypes
<1>2. h \in BlockSizes /\ h \in Nat \ {0} /\ mem[i].size = 2 * h
  BY <1>1, SizeFacts
<1>3. /\ new \in Seq(Blocks) /\ Len(new) = n + 1 /\ DOMAIN new = 1 .. n + 1
      /\ \A j \in 1 .. n + 1 : j < i => new[j] = mem[j]
      /\ new[i].start = a /\ new[i].size = h
      /\ new[i + 1].start = a + h /\ new[i + 1].size = h
      /\ \A j \in 1 .. n + 1 : j > i + 1 => new[j] = mem[j - 1]
  <2>1. /\ new \in Seq(Blocks) /\ Len(new) = n + 1
        /\ \A j \in 1 .. n + 1 :
           new[j] = IF j < i THEN mem[j]
                    ELSE IF j = i THEN [mem[i] EXCEPT !.size = h]
                    ELSE IF j = i + 1 THEN [start |-> a + h, size |-> h, allocated |-> 0]
                    ELSE mem[j - 1]
    BY DEF SplitItems
  <2>2. DOMAIN new = 1 .. n + 1
    BY <2>1, LenProperties
  <2> HIDE DEF h, a, n
  <2>3. i \in 1 .. n + 1 /\ i + 1 \in 1 .. n + 1 /\ ~(i < i) /\ ~(i + 1 < i) /\ i + 1 # i
    BY <1>1
  <2>4. new[i] = [mem[i] EXCEPT !.size = h]
    BY <2>1, <2>3
  <2>5. new[i + 1] = [start |-> a + h, size |-> h, allocated |-> 0]
    BY <2>1, <2>3
  <2>6. mem[i] \in Blocks
    BY BlockTypes
  <2>7. new[i].start = a /\ new[i].size = h
    BY <2>4, <2>6 DEF Blocks, a
  <2>8. ASSUME NEW j \in 1 .. n + 1, j > i + 1
        PROVE  new[j] = mem[j - 1]
    BY <1>1, <2>1, <2>8
  <2> QED
    BY <2>1, <2>2, <2>5, <2>7, <2>8
<1>4. \A j \in 1 .. n : /\ mem[j].start \in Nat /\ mem[j].size \in Nat \ {0}
                        /\ mem[j].size \in BlockSizes /\ mem[j].start % mem[j].size = 0
  BY <1>1, BlockTypes
<1>5. /\ mem[1].start = 0 /\ mem[n].start + mem[n].size = MAX_SIZE
      /\ \A j \in 1 .. n - 1 : mem[j + 1].start = mem[j].start + mem[j].size
      /\ \A j, k \in 1 .. n : j < k => mem[j].start + mem[j].size <= mem[k].start
  BY <1>1 DEF MemoryOK, Ends
<1>6. mem[i].start = a
  OBVIOUS
<1> HIDE DEF h, a, n
(* Each block of the new list lies in one of the old.                       *)
<1>7. ASSUME NEW j \in 1 .. n + 1
      PROVE  /\ old(j) \in 1 .. n
             /\ new[j].start \in Nat /\ new[j].size \in Nat
             /\ mem[old(j)].start <= new[j].start
             /\ new[j].start + new[j].size <= mem[old(j)].start + mem[old(j)].size
             /\ new[j].size \in BlockSizes /\ new[j].start % new[j].size = 0
  <2>1. CASE j < i
    BY <1>1, <1>3, <1>4, <2>1
  <2>2. CASE j = i
    <3>1. a % h = 0
      BY <1>1, <1>2, HalvesAligned
    <3> QED
      BY SMTT(30), <1>1, <1>2, <1>3, <1>4, <1>6, <2>2, <3>1
  <2>3. CASE j = i + 1
    <3>1. (a + h) % h = 0
      BY <1>1, <1>2, HalvesAligned
    <3>2. old(j) = i
      BY <1>1, <2>3
    <3>3. new[j].start = a + h /\ new[j].size = h
      BY <1>3, <2>3
    <3>4. a <= a + h /\ (a + h) + h <= a + 2 * h /\ a + h \in Nat
      BY <1>1, <1>2
    <3> HIDE DEF old
    <3> QED
      BY <1>1, <1>2, <1>6, <3>1, <3>2, <3>3, <3>4
  <2>4. CASE j > i + 1
    <3>1. j - 1 \in 1 .. n /\ old(j) = j - 1 /\ new[j] = mem[j - 1]
      BY <1>1, <1>3, <2>4
    <3> QED
      BY <1>4, <3>1
  <2> QED
    BY <1>1, <2>1, <2>2, <2>3, <2>4
<1>8. new[1].start = 0
  <2>1. CASE i = 1
    BY <1>3, <1>5, <1>6, <2>1
  <2>2. CASE i > 1
    BY <1>1, <1>3, <1>5, <2>2
  <2> QED
    BY <1>1, <2>1, <2>2
<1>9. new[n + 1].start + new[n + 1].size = MAX_SIZE
  <2>1. CASE i = n
    <3>1. new[n + 1].start = a + h /\ new[n + 1].size = h /\ a + 2 * h = MAX_SIZE
      BY <1>2, <1>3, <1>5, <1>6, <2>1
    <3> QED
      BY <1>1, <1>2, <3>1
  <2>2. CASE i < n
    <3>1. n + 1 > i + 1 /\ n + 1 \in 1 .. n + 1 /\ (n + 1) - 1 = n
      BY <1>1, <2>2
    <3> QED
      BY <1>3, <1>5, <3>1
  <2> QED
    BY <1>1, <2>1, <2>2
<1>10. ASSUME NEW j \in 1 .. n
       PROVE  new[j + 1].start = new[j].start + new[j].size
  <2>1. CASE j + 1 < i
    <3>1. new[j] = mem[j] /\ new[j + 1] = mem[j + 1] /\ j \in 1 .. n - 1
      BY <1>1, <1>3, <2>1
    <3> QED
      BY <1>5, <3>1
  <2>2. CASE j + 1 = i
    <3>1. new[j] = mem[j] /\ j \in 1 .. n - 1 /\ new[j + 1].start = a
      BY <1>1, <1>3, <2>2
    <3> QED
      BY <1>5, <1>6, <2>2, <3>1
  <2>3. CASE j = i
    BY <1>3, <2>3
  <2>4. CASE j = i + 1
    <3>1. new[j + 1] = mem[j] /\ i \in 1 .. n - 1 /\ new[j].start + new[j].size = (a + h) + h
      <4>1. j + 1 \in 1 .. n + 1 /\ j + 1 > i + 1 /\ (j + 1) - 1 = j
        BY <1>1, <2>4
      <4> QED
        BY <1>1, <1>3, <2>4, <4>1
    <3>2. mem[i + 1].start = a + 2 * h
      BY <1>2, <1>5, <1>6, <3>1
    <3> QED
      BY <1>1, <1>2, <2>4, <3>1, <3>2
  <2>5. CASE j > i + 1
    <3>1. /\ j + 1 \in 1 .. n + 1 /\ j + 1 > i + 1 /\ (j + 1) - 1 = j
          /\ j - 1 \in 1 .. n - 1 /\ (j - 1) + 1 = j
      BY <1>1, <2>5
    <3>2. new[j + 1] = mem[j] /\ new[j] = mem[j - 1]
      BY <1>3, <2>5, <3>1
    <3> QED
      BY <1>5, <3>1, <3>2
  <2> QED
    BY <1>1, <2>1, <2>2, <2>3, <2>4, <2>5
<1>11. ASSUME NEW j \in 1 .. n + 1, NEW k \in 1 .. n + 1, j < k
       PROVE  new[j].start + new[j].size <= new[k].start
  <2>1. CASE old(j) < old(k)
    <3> DEFINE oj == old(j)
               ok == old(k)
    <3>1. oj \in 1 .. n /\ ok \in 1 .. n /\ oj < ok
      BY <1>7, <2>1
    <3>2. mem[oj].start + mem[oj].size <= mem[ok].start
      BY <1>5, <3>1
    <3>3. new[j].start + new[j].size <= mem[oj].start + mem[oj].size
      BY <1>7
    <3>4. mem[ok].start <= new[k].start
      BY <1>7
    <3>5. /\ new[j].start \in Nat /\ new[j].size \in Nat /\ new[k].start \in Nat
          /\ mem[oj].start \in Nat /\ mem[oj].size \in Nat /\ mem[ok].start \in Nat
      BY <1>4, <1>7, <3>1
    <3> HIDE DEF oj, ok
    <3> QED
      BY <3>2, <3>3, <3>4, <3>5
  <2>2. CASE ~(old(j) < old(k))
    <3>1. j = i /\ k = i + 1
      BY <1>1, <1>11, <2>2
    <3> QED
      BY <1>1, <1>2, <1>3, <3>1
  <2> QED
    BY <2>1, <2>2
<1>12. Len(new) > 0 /\ Len(new) - 1 = n /\ Len(new) = n + 1
  BY <1>1, <1>3
<1> QED
  BY <1>3, <1>7, <1>8, <1>9, <1>10, <1>11, <1>12 DEF MemoryOK, Ends

(* No block reaches beyond the memory.                                      *)
LEMMA EndsInMemory ==
  ASSUME NEW mem, MemoryOK(mem), NEW i \in DOMAIN mem
  PROVE  mem[i].start + mem[i].size <= MAX_SIZE
<1>1. i \in 1 .. Len(mem) /\ Len(mem) \in DOMAIN mem /\ MAX_SIZE \in Nat
  BY BlockTypes, MaxSizeOrder
<1>2. mem[Len(mem)].start + mem[Len(mem)].size = MAX_SIZE
  BY DEF MemoryOK, Ends
<1>3. i < Len(mem) => mem[i].start + mem[i].size <= mem[Len(mem)].start
  BY <1>1 DEF MemoryOK, Ends
<1>4. /\ mem[i].start \in Nat /\ mem[i].size \in Nat
      /\ mem[Len(mem)].start \in Nat /\ mem[Len(mem)].size \in Nat
  BY <1>1, BlockTypes
<1>5. i < Len(mem) \/ i = Len(mem)
  BY <1>1, BlockTypes
<1>6. CASE i = Len(mem)
  BY <1>1, <1>2, <1>6
<1>7. CASE i < Len(mem)
  BY <1>1, <1>2, <1>3, <1>4, <1>7
<1> QED
  BY <1>5, <1>6, <1>7

(* The place of a merge: two neighbours of one size, the left of them at an *)
(* even multiple of it.                                                     *)
LEMMA MergePlace ==
  ASSUME NEW mem, MemoryOK(mem), NEW i \in DOMAIN mem, Mergeable(mem, i)
  PROVE  /\ BuddiesAt(mem, MergedAt(mem, i))
         /\ \/ i = MergedAt(mem, i) /\ Buddy(mem, i) = i + 1
            \/ i = MergedAt(mem, i) + 1 /\ Buddy(mem, i) = MergedAt(mem, i)
         /\ mem[Buddy(mem, i)].allocated = 0
<1> DEFINE b == Buddy(mem, i)
<1>1. i \in 1 .. Len(mem) /\ DOMAIN mem = 1 .. Len(mem) /\ Len(mem) \in Nat
  BY BlockTypes
<1>2. b \in 1 .. Len(mem) /\ mem[b].size = mem[i].size /\ mem[b].allocated = 0
  BY <1>1 DEF Mergeable
<1>3. /\ mem[i].start \in Nat /\ mem[i].size \in Nat \ {0}
      /\ mem[i].start % mem[i].size = 0
  BY BlockTypes
<1>4. CASE (mem[i].start \div mem[i].size) % 2 = 0
  <2>1. b = i + 1
    BY <1>3, <1>4 DEF Buddy, BuddyOnRight
  <2>2. MergedAt(mem, i) = i
    BY <1>1, <2>1 DEF MergedAt
  <2>3. i \in 1 .. Len(mem) - 1
    BY <1>1, <1>2, <2>1
  <2> QED
    BY <1>2, <1>4, <2>1, <2>2, <2>3 DEF BuddiesAt
<1>5. CASE (mem[i].start \div mem[i].size) % 2 # 0
  <2>1. b = i - 1
    BY <1>3, <1>5 DEF Buddy, BuddyOnRight
  <2>2. MergedAt(mem, i) = b
    BY <1>1, <2>1 DEF MergedAt
  <2>3. b \in 1 .. Len(mem) - 1 /\ i = b + 1
    BY <1>1, <1>2, <2>1
  <2>4. mem[b + 1].start = mem[b].start + mem[b].size
    BY <2>3 DEF MemoryOK, Ends
  <2>5. mem[b].start \in Nat
    BY <1>1, <1>2, BlockTypes
  <2> HIDE DEF b
  <2>6. mem[b].start = mem[i].start - mem[i].size
    BY <1>2, <1>3, <2>3, <2>4, <2>5
  <2>7. (mem[b].start \div mem[b].size) % 2 = 0
    BY <1>2, <1>3, <1>5, <2>6, BuddiesAligned
  <2> QED
    BY <1>2, <2>2, <2>3, <2>7 DEF BuddiesAt, b
<1> QED
  BY <1>4, <1>5

(* What a merge makes of the list.                                          *)
MergeItems(mem, l, new) ==
  /\ new \in Seq(Blocks) /\ Len(new) = Len(mem) - 1
  /\ \A j \in 1 .. Len(mem) - 1 :
       new[j] = IF j < l THEN mem[j]
                ELSE IF j = l THEN [mem[l] EXCEPT !.size = 2 * @]
                ELSE mem[j + 1]

(* What merge_block (buddy_memory.c:111-151) leaves at each place of the    *)
(* list.                                                                    *)
LEMMA MergeBlocks ==
  ASSUME NEW mem, MemoryOK(mem), NEW i \in DOMAIN mem, Mergeable(mem, i)
  PROVE  MergeItems(mem, MergedAt(mem, i), merge_block(mem, i))
<1> DEFINE l == MergedAt(mem, i)
           whole == [mem[l] EXCEPT !.size = 2 * @]
           doubled == [mem EXCEPT ![l] = whole]
           new == RemoveAt(doubled, l + 1)
<1>1. Len(mem) \in Nat /\ DOMAIN mem = 1 .. Len(mem) /\ mem \in Seq(Blocks)
  BY BlockTypes DEF MemoryOK
<1>2. l \in 1 .. Len(mem) - 1
  BY MergePlace DEF BuddiesAt
<1>3. merge_block(mem, i) = new
  BY DEF merge_block
<1> HIDE DEF l
<1>4. l \in 1 .. Len(mem) /\ l + 1 \in 1 .. Len(mem)
  BY <1>1, <1>2
<1>5. whole \in Blocks
  <2>1. mem[l] \in Blocks
    BY <1>1, <1>4, ElementOfSeq
  <2>2. mem[l].size \in Nat /\ 2 * mem[l].size \in Nat
    BY <2>1 DEF Blocks
  <2> QED
    BY <2>1, <2>2 DEF Blocks
<1>6. /\ doubled \in Seq(Blocks) /\ Len(doubled) = Len(mem)
      /\ \A j \in 1 .. Len(mem) : doubled[j] = IF j = l THEN whole ELSE mem[j]
  <2> HIDE DEF whole
  <2> QED
    BY <1>1, <1>4, <1>5, ExceptSeq
<1> HIDE DEF doubled, whole
<1>7. /\ new \in Seq(Blocks) /\ Len(new) = Len(mem) - 1
      /\ \A j \in 1 .. Len(mem) - 1 :
           new[j] = IF j < l + 1 THEN doubled[j] ELSE doubled[j + 1]
  BY <1>4, <1>6, RemoveAtItems
<1>8. ASSUME NEW j \in 1 .. Len(mem) - 1
      PROVE  new[j] = IF j < l THEN mem[j] ELSE IF j = l THEN whole ELSE mem[j + 1]
  <2>1. CASE j <= l
    <3>1. j \in 1 .. Len(mem) /\ j < l + 1
      BY <1>1, <1>2, <2>1
    <3> QED
      BY <1>2, <1>6, <1>7, <2>1, <3>1
  <2>2. CASE j > l
    <3>1. j + 1 \in 1 .. Len(mem) /\ j + 1 # l
      BY <1>1, <1>2, <2>2
    <3> QED
      BY <1>2, <1>6, <1>7, <2>2, <3>1
  <2> QED
    BY <1>2, <2>1, <2>2
<1>9. MergeItems(mem, l, new)
  <2>1. \A j \in 1 .. Len(mem) - 1 :
          new[j] = IF j < l THEN mem[j] ELSE IF j = l THEN whole ELSE mem[j + 1]
    BY <1>8
  <2> HIDE DEF new
  <2> QED
    BY <1>7, <2>1 DEF MergeItems, whole
<1> QED
  BY <1>3, <1>9 DEF l

(* merge_block keeps the list well formed: the merged block has the size of *)
(* both and is aligned to it.                                               *)
LEMMA MergeKeepsList ==
  ASSUME NEW mem, MemoryOK(mem), NEW l, BuddiesAt(mem, l), NEW new, MergeItems(mem, l, new)
  PROVE  MemoryOK(new)
<1> DEFINE h == mem[l].size
           a == mem[l].start
           n == Len(mem)
           old(j) == IF j <= l THEN j ELSE j + 1
<1>1. /\ n \in Nat \ {0} /\ DOMAIN mem = 1 .. n /\ l \in 1 .. n - 1 /\ l \in 1 .. n
      /\ l + 1 \in 1 .. n
  BY BlockTypes DEF BuddiesAt
<1>2. /\ a \in Nat /\ h \in Nat \ {0} /\ h \in BlockSizes /\ a % h = 0
      /\ mem[l + 1].size = h /\ mem[l + 1].start = a + h /\ (a \div h) % 2 = 0
  BY <1>1, BlockTypes DEF BuddiesAt, MemoryOK, Ends
<1>3. /\ new \in Seq(Blocks) /\ Len(new) = n - 1 /\ DOMAIN new = 1 .. n - 1
      /\ \A j \in 1 .. n - 1 : j < l => new[j] = mem[j]
      /\ new[l].start = a /\ new[l].size = 2 * h
      /\ \A j \in 1 .. n - 1 : j > l => new[j] = mem[j + 1]
  <2>1. /\ new \in Seq(Blocks) /\ Len(new) = n - 1
        /\ \A j \in 1 .. n - 1 :
             new[j] = IF j < l THEN mem[j]
                      ELSE IF j = l THEN [mem[l] EXCEPT !.size = 2 * h]
                      ELSE mem[j + 1]
    BY DEF MergeItems
  <2>2. DOMAIN new = 1 .. n - 1
    BY <2>1, LenProperties
  <2> HIDE DEF h, a, n
  <2>3. new[l] = [mem[l] EXCEPT !.size = 2 * h]
    BY <1>1, <2>1
  <2>4. mem[l] \in Blocks
    BY <1>1, BlockTypes DEF n
  <2>5. new[l].start = a /\ new[l].size = 2 * h
    BY <2>3, <2>4 DEF Blocks, a
  <2>6. ASSUME NEW j \in 1 .. n - 1, j > l
        PROVE  new[j] = mem[j + 1]
    BY <1>1, <2>1, <2>6
  <2> QED
    BY <2>1, <2>2, <2>5, <2>6
<1>4. \A j \in 1 .. n : /\ mem[j].start \in Nat /\ mem[j].size \in Nat \ {0}
                        /\ mem[j].size \in BlockSizes /\ mem[j].start % mem[j].size = 0
  BY <1>1, BlockTypes
<1>5. /\ mem[1].start = 0 /\ mem[n].start + mem[n].size = MAX_SIZE
      /\ \A j \in 1 .. n - 1 : mem[j + 1].start = mem[j].start + mem[j].size
      /\ \A j, k \in 1 .. n : j < k => mem[j].start + mem[j].size <= mem[k].start
  BY <1>1 DEF MemoryOK, Ends
<1>6. mem[l].start = a /\ mem[l].size = h
  OBVIOUS
<1>7. 2 * h \in BlockSizes /\ 2 * h \in Nat \ {0} /\ a % (2 * h) = 0
  <2>1. (a + h) + h <= MAX_SIZE /\ MAX_SIZE \in Nat
    BY <1>1, <1>2, EndsInMemory, MaxSizeOrder
  <2> HIDE DEF a, h
  <2>2. h < MAX_SIZE
    BY <1>2, <2>1
  <2>3. 2 * h \in BlockSizes
    BY <1>2, <2>2, SizeFacts
  <2> QED
    BY <1>2, <2>3, BuddiesAligned
<1> HIDE DEF h, a, n
<1>8. ASSUME NEW j \in 1 .. n - 1
      PROVE  /\ new[j].start \in Nat /\ new[j].size \in Nat
             /\ new[j].size \in BlockSizes /\ new[j].start % new[j].size = 0
  <2>1. CASE j < l
    BY <1>1, <1>3, <1>4, <2>1
  <2>2. CASE j = l
    BY <1>2, <1>3, <1>7, <2>2
  <2>3. CASE j > l
    <3>1. j + 1 \in 1 .. n /\ new[j] = mem[j + 1]
      BY <1>1, <1>3, <2>3
    <3> QED
      BY <1>4, <3>1
  <2> QED
    BY <1>1, <2>1, <2>2, <2>3
<1>9. new[1].start = 0
  <2>1. CASE l = 1
    BY <1>3, <1>5, <1>6, <2>1
  <2>2. CASE l > 1
    BY <1>1, <1>3, <1>5, <2>2
  <2> QED
    BY <1>1, <2>1, <2>2
<1>10. new[n - 1].start + new[n - 1].size = MAX_SIZE
  <2>1. CASE l = n - 1
    <3>1. /\ new[n - 1].start = a /\ new[n - 1].size = 2 * h
          /\ mem[l + 1].start + mem[l + 1].size = MAX_SIZE
      BY <1>1, <1>3, <1>5, <2>1
    <3> QED
      BY <1>2, <3>1
  <2>2. CASE l < n - 1
    <3>1. n - 1 > l /\ n - 1 \in 1 .. n - 1 /\ (n - 1) + 1 = n
      BY <1>1, <2>2
    <3> QED
      BY <1>3, <1>5, <3>1
  <2> QED
    BY <1>1, <2>1, <2>2
<1>11. ASSUME NEW j \in 1 .. n - 1 - 1
       PROVE  new[j + 1].start = new[j].start + new[j].size
  <2>0. j \in 1 .. n - 1 /\ j + 1 \in 1 .. n - 1
    BY <1>1
  <2>1. CASE j + 1 < l
    <3>1. new[j] = mem[j] /\ new[j + 1] = mem[j + 1]
      BY <1>1, <1>3, <2>0, <2>1
    <3> QED
      BY <1>5, <2>0, <3>1
  <2>2. CASE j + 1 = l
    <3>1. new[j] = mem[j] /\ new[j + 1].start = a
      BY <1>1, <1>3, <2>0, <2>2
    <3> QED
      BY <1>5, <1>6, <2>0, <2>2, <3>1
  <2>3. CASE j = l
    <3>1. new[j + 1] = mem[(j + 1) + 1]
      BY <1>1, <1>3, <2>0, <2>3
    <3>2. mem[(j + 1) + 1].start = mem[j + 1].start + mem[j + 1].size
      BY <1>5, <2>0
    <3>3. new[j].start = a /\ new[j].size = 2 * h
      BY <1>3, <2>3
    <3>4. mem[j + 1].start = a + h /\ mem[j + 1].size = h
      BY <1>2, <2>3
    <3> QED
      BY <1>2, <3>1, <3>2, <3>3, <3>4
  <2>4. CASE j > l
    <3>1. new[j] = mem[j + 1] /\ new[j + 1] = mem[(j + 1) + 1]
      BY <1>1, <1>3, <2>0, <2>4
    <3> QED
      BY <1>5, <2>0, <3>1
  <2> QED
    BY <1>1, <2>1, <2>2, <2>3, <2>4
<1>12. ASSUME NEW j \in 1 .. n - 1, NEW k \in 1 .. n - 1, j < k
       PROVE  new[j].start + new[j].size <= new[k].start
  <2>1. \A x, y \in 1 .. n : x < y => mem[x].start + mem[x].size <= mem[y].start
    BY <1>5
  <2>2. CASE k < l
    BY <1>1, <1>3, <1>12, <2>1, <2>2
  <2>3. CASE k = l
    <3>1. new[j] = mem[j] /\ mem[j].start + mem[j].size <= mem[l].start
      BY <1>1, <1>3, <1>12, <2>1, <2>3
    <3> QED
      BY <1>3, <1>6, <2>3, <3>1
  <2>4. CASE k > l /\ j < l
    <3>1. new[j] = mem[j] /\ new[k] = mem[k + 1] /\ j \in 1 .. n /\ k + 1 \in 1 .. n /\ j < k + 1
      BY <1>1, <1>3, <1>12, <2>4
    <3> QED
      BY <2>1, <3>1
  <2>5. CASE k > l /\ j = l
    <3>1. new[k] = mem[k + 1] /\ k + 1 \in 1 .. n /\ l + 1 < k + 1
      BY <1>1, <1>3, <2>5
    <3>2. (a + h) + h <= mem[k + 1].start
      BY <1>1, <1>2, <2>1, <3>1
    <3>3. (a + h) + h = a + 2 * h
      BY <1>2
    <3> QED
      BY <1>3, <2>5, <3>1, <3>2, <3>3
  <2>6. CASE k > l /\ j > l
    <3>1. /\ new[j] = mem[j + 1] /\ new[k] = mem[k + 1]
          /\ j + 1 \in 1 .. n /\ k + 1 \in 1 .. n /\ j + 1 < k + 1
      BY <1>1, <1>3, <1>12, <2>6
    <3> QED
      BY <2>1, <3>1
  <2> QED
    BY <1>1, <2>2, <2>3, <2>4, <2>5, <2>6
<1>13. Len(new) > 0 /\ Len(new) = n - 1
  BY <1>1, <1>3
<1> QED
  BY <1>3, <1>8, <1>9, <1>10, <1>11, <1>12, <1>13 DEF MemoryOK, Ends
-----------------------------------------------------------------------------
(* What the operations keep of the blocks                                   *)

(* The one free block that init_memory makes is a well-formed list with     *)
(* nothing to merge.                                                        *)
LEMMA InitList ==
  /\ MemoryOK(init_memory)
  /\ AllocatedBlocks(init_memory) = {}
  /\ \A l : ~FreeBuddies(init_memory, l)
<1> DEFINE b == [start |-> 0, size |-> MAX_SIZE, allocated |-> 0]
<1>1. init_memory = <<b>> /\ b \in Blocks
  BY MaxSizeOrder DEF init_memory, Blocks
<1>2. b.start = 0 /\ b.size = MAX_SIZE /\ b.allocated = 0
  OBVIOUS
<1> HIDE DEF b
<1>3. /\ init_memory \in Seq(Blocks) /\ Len(init_memory) = 1 /\ init_memory[1] = b
      /\ DOMAIN init_memory = {1}
  BY <1>1
<1>4. MAX_SIZE \in BlockSizes /\ 0 % MAX_SIZE = 0
  <2>1. FloorLog2(MAX_SIZE) \in 0 .. FloorLog2(MAX_SIZE)
    BY MaxSizeOrder
  <2>2. 0 = 0 * MAX_SIZE
    BY MaxSizeOrder
  <2> QED
    BY <2>1, <2>2, MaxSizeOrder, Multiple DEF BlockSizes
<1>5. MemoryOK(init_memory)
  BY <1>2, <1>3, <1>4, MaxSizeOrder DEF MemoryOK, Ends
<1>6. AllocatedBlocks(init_memory) = {}
  BY <1>2, <1>3 DEF AllocatedBlocks
<1>7. \A l : ~FreeBuddies(init_memory, l)
  BY <1>3 DEF FreeBuddies, BuddiesAt
<1> QED
  BY <1>5, <1>6, <1>7

(* A block is told by its start.                                            *)
LEMMA BlockByStart ==
  ASSUME NEW mem, MemoryOK(mem)
  PROVE  /\ \A i, j \in DOMAIN mem : mem[i].start = mem[j].start => i = j
         /\ \A i \in DOMAIN mem : IndexOfBlock(mem, mem[i].start) = i
         /\ \A x : HasBlock(mem, x) => /\ IndexOfBlock(mem, x) \in DOMAIN mem
                                       /\ mem[IndexOfBlock(mem, x)].start = x
<1>1. ASSUME NEW i \in DOMAIN mem, NEW j \in DOMAIN mem, i < j
      PROVE  mem[i].start # mem[j].start
  <2>1. mem[i].start + mem[i].size <= mem[j].start
    BY <1>1 DEF MemoryOK, Ends
  <2>2. mem[i].start \in Nat /\ mem[j].start \in Nat /\ mem[i].size \in Nat \ {0}
    BY BlockTypes
  <2> QED
    BY <2>1, <2>2
<1>2. ASSUME NEW i \in DOMAIN mem, NEW j \in DOMAIN mem, mem[i].start = mem[j].start
      PROVE  i = j
  <2>1. i < j \/ j < i \/ i = j
    BY BlockTypes
  <2> QED
    BY <1>1, <1>2, <2>1
<1>3. ASSUME NEW i \in DOMAIN mem
      PROVE  IndexOfBlock(mem, mem[i].start) = i
  BY <1>2 DEF IndexOfBlock
<1>4. ASSUME NEW x, HasBlock(mem, x)
      PROVE  IndexOfBlock(mem, x) \in DOMAIN mem /\ mem[IndexOfBlock(mem, x)].start = x
  BY <1>4 DEF HasBlock, IndexOfBlock
<1> QED
  BY <1>2, <1>3, <1>4

(* The smallest block that fits is one that fits.                           *)
LEMMA SmallestFits ==
  ASSUME NEW mem, MemoryOK(mem), NEW r \in Nat, Fitting(mem, r) # {}
  PROVE  get_smallest_block_available(mem, r) \in Fitting(mem, r)
<1> DEFINE F == Fitting(mem, r)
           Z == {mem[i].size : i \in F}
<1>1. /\ \A i \in F : i \in Nat /\ i \in DOMAIN mem /\ mem[i].size \in Nat
      /\ Z \subseteq Nat /\ Z # {}
  BY BlockTypes DEF Fitting
<1> HIDE DEF Z
<1>2. PICK z \in Z : \A y \in Z : z <= y
  BY <1>1, LeastElement
<1> DEFINE I == {i \in F : mem[i].size = z}
<1>3. I # {} /\ I \subseteq Nat
  BY <1>1 DEF Z
<1> HIDE DEF I
<1>4. PICK m \in I : \A i \in I : m <= i
  BY <1>3, LeastElement
<1>5. m \in F /\ mem[m].size = z
  BY DEF I
<1>6. ASSUME NEW j \in F
      PROVE  mem[m].size < mem[j].size \/ (mem[m].size = mem[j].size /\ m <= j)
  <2>1. z <= mem[j].size /\ z \in Nat /\ mem[j].size \in Nat
    BY <1>1, <1>2 DEF Z
  <2>2. mem[j].size = z => m <= j
    BY <1>4 DEF I
  <2> QED
    BY <1>5, <2>1, <2>2
<1> QED
  BY <1>5, <1>6 DEF get_smallest_block_available

(* Marking a block allocated or free changes nothing else.                  *)
Marked(mem, i, r) == [mem EXCEPT ![i].allocated = r]

(* What marking the block at place i with r leaves of the list: all but     *)
(* that block's own mark.                                                   *)
LEMMA MarkBlock ==
  ASSUME NEW mem, MemoryOK(mem), NEW i \in DOMAIN mem, NEW r \in Nat,
         NEW new, new = Marked(mem, i, r)
  PROVE  /\ MemoryOK(new) /\ DOMAIN new = DOMAIN mem
         /\ new[i] = [mem[i] EXCEPT !.allocated = r]
         /\ new[i].start = mem[i].start /\ new[i].size = mem[i].size /\ new[i].allocated = r
         /\ \A j \in DOMAIN mem : j # i => new[j] = mem[j]
         /\ \A l : BuddiesAt(new, l) <=> BuddiesAt(mem, l)
<1> DEFINE b == [mem[i] EXCEPT !.allocated = r]
<1>1. /\ Len(mem) \in Nat /\ DOMAIN mem = 1 .. Len(mem) /\ mem \in Seq(Blocks)
      /\ mem[i] \in Blocks
  BY BlockTypes DEF MemoryOK
<1>2. b \in Blocks /\ b.start = mem[i].start /\ b.size = mem[i].size /\ b.allocated = r
  BY <1>1 DEF Blocks
<1>3. new = [mem EXCEPT ![i] = b]
  BY DEF Marked
<1> HIDE DEF b
<1>4. /\ new \in Seq(Blocks) /\ Len(new) = Len(mem)
      /\ \A j \in 1 .. Len(mem) : new[j] = IF j = i THEN b ELSE mem[j]
  BY <1>1, <1>2, <1>3, ExceptSeq
<1>5. DOMAIN new = DOMAIN mem
  BY <1>1, <1>3
<1>6. \A j \in 1 .. Len(mem) : new[j].start = mem[j].start /\ new[j].size = mem[j].size
  BY <1>2, <1>4
<1>7. MemoryOK(new)
  <2>1. \A j \in DOMAIN mem : Ends(new[j]) = Ends(mem[j])
    BY <1>1, <1>6 DEF Ends
  <2>2. /\ 1 \in DOMAIN mem /\ Len(mem) \in DOMAIN mem /\ Len(new) > 0
        /\ \A j \in 1 .. Len(mem) - 1 : j \in DOMAIN mem /\ j + 1 \in DOMAIN mem
    BY <1>1, <1>4 DEF MemoryOK
  <2>3. /\ mem[1].start = 0 /\ Ends(mem[Len(mem)]) = MAX_SIZE
        /\ \A j \in 1 .. Len(mem) - 1 : mem[j + 1].start = Ends(mem[j])
        /\ \A j, k \in DOMAIN mem : j < k => Ends(mem[j]) <= mem[k].start
        /\ \A j \in DOMAIN mem : /\ mem[j].size \in BlockSizes
                                 /\ mem[j].start % mem[j].size = 0
    BY DEF MemoryOK
  <2>4. /\ new[1].start = 0 /\ Ends(new[Len(new)]) = MAX_SIZE
        /\ \A j \in 1 .. Len(new) - 1 : new[j + 1].start = Ends(new[j])
    BY <1>1, <1>4, <1>6, <2>1, <2>2, <2>3
  <2>5. \A j, k \in DOMAIN new : j < k => Ends(new[j]) <= new[k].start
    BY <1>1, <1>5, <1>6, <2>1, <2>3
  <2>6. \A j \in DOMAIN new : new[j].size \in BlockSizes /\ new[j].start % new[j].size = 0
    BY <1>1, <1>5, <1>6, <2>3
  <2> QED
    BY <1>4, <2>2, <2>4, <2>5, <2>6 DEF MemoryOK
<1>8. \A l : BuddiesAt(new, l) <=> BuddiesAt(mem, l)
  <2>1. \A l \in 1 .. Len(mem) - 1 : l \in 1 .. Len(mem) /\ l + 1 \in 1 .. Len(mem)
    BY <1>1
  <2> QED
    BY <1>4, <1>6, <2>1 DEF BuddiesAt
<1> QED
  BY <1>1, <1>2, <1>4, <1>5, <1>7, <1>8 DEF b

(* A split takes nothing from an allocated block, and no two free buddies   *)
(* are new but for the half that is at hand.                                *)
LEMMA SplitEffect ==
  ASSUME NEW mem, MemoryOK(mem), NEW i \in DOMAIN mem,
         mem[i].size >= 2, mem[i].allocated = 0,
         NEW new, new = split_block(mem, i)
  PROVE  /\ MemoryOK(new) /\ i \in DOMAIN new
         /\ new[i].start = mem[i].start /\ new[i].allocated = 0
         /\ new[i].size \in Nat /\ 2 * new[i].size = mem[i].size
         /\ AllocatedBlocks(new) = AllocatedBlocks(mem)
         /\ \A l : FreeBuddies(new, l) =>
              i \in {l, l + 1} \/ \E m : FreeBuddies(mem, m) /\ i \notin {m, m + 1}
<1> DEFINE h == mem[i].size \div 2
           n == Len(mem)
<1>1. /\ n \in Nat \ {0} /\ DOMAIN mem = 1 .. n /\ i \in 1 .. n /\ mem \in Seq(Blocks)
      /\ mem[i].start \in Nat /\ mem[i].size \in BlockSizes /\ mem[i] \in Blocks
      /\ mem[i].start % mem[i].size = 0
  BY BlockTypes DEF MemoryOK
<1>2. h \in Nat \ {0} /\ mem[i].size = 2 * h
  BY <1>1, SizeFacts
<1>3. SplitItems(mem, i, new)
  BY <1>1, SplitBlocks
<1>4. MemoryOK(new)
  BY <1>3, SplitKeepsList
<1>5. /\ DOMAIN new = 1 .. n + 1
      /\ \A j \in 1 .. n + 1 : j < i => new[j] = mem[j]
      /\ new[i] = [mem[i] EXCEPT !.size = h]
      /\ new[i + 1] = [start |-> mem[i].start + h, size |-> h, allocated |-> 0]
      /\ \A j \in 1 .. n + 1 : j > i + 1 => new[j] = mem[j - 1]
  <2>1. Len(new) = n + 1 /\
        \A j \in 1 .. n + 1 :
           new[j] = IF j < i THEN mem[j]
                    ELSE IF j = i THEN [mem[i] EXCEPT !.size = h]
                    ELSE IF j = i + 1 THEN [start |-> mem[i].start + h, size |-> h,
                                            allocated |-> 0]
                    ELSE mem[j - 1]
    BY <1>3 DEF SplitItems
  <2>2. DOMAIN new = 1 .. n + 1
    BY <1>4, <2>1, BlockTypes
  <2> HIDE DEF h, n
  <2>3. i \in 1 .. n + 1 /\ i + 1 \in 1 .. n + 1 /\ ~(i < i) /\ ~(i + 1 < i) /\ i + 1 # i
    BY <1>1
  <2>4. ASSUME NEW j \in 1 .. n + 1, j > i + 1
        PROVE  new[j] = mem[j - 1]
    BY <1>1, <2>1, <2>4
  <2> QED
    BY <2>1, <2>2, <2>3, <2>4
<1> HIDE DEF h, n
<1>6. /\ new[i].start = mem[i].start /\ new[i].size = h /\ new[i].allocated = 0
      /\ new[i + 1].start = mem[i].start + h /\ new[i + 1].size = h
      /\ new[i + 1].allocated = 0
  BY <1>1, <1>5 DEF Blocks
<1>7. AllocatedBlocks(new) = AllocatedBlocks(mem)
  <2>1. ASSUME NEW j \in DOMAIN new, new[j].allocated # 0
        PROVE  \E k \in DOMAIN mem : mem[k] = new[j]
    <3>1. j # i /\ j # i + 1
      BY <1>6, <2>1
    <3>2. CASE j < i
      BY <1>1, <1>5, <3>2
    <3>3. CASE j > i + 1
      <4>1. j - 1 \in 1 .. n /\ new[j] = mem[j - 1]
        BY <1>1, <1>5, <3>3
      <4> QED
        BY <1>1, <4>1
    <3> QED
      BY <1>1, <1>5, <3>1, <3>2, <3>3
  <2>2. ASSUME NEW k \in DOMAIN mem, mem[k].allocated # 0
        PROVE  \E j \in DOMAIN new : mem[k] = new[j]
    <3>1. k # i
      BY <2>2
    <3>2. CASE k < i
      <4>1. k \in 1 .. n + 1 /\ new[k] = mem[k]
        BY <1>1, <1>5, <3>2
      <4> QED
        BY <1>5, <4>1
    <3>3. CASE k > i
      <4>1. k + 1 \in 1 .. n + 1 /\ k + 1 > i + 1 /\ (k + 1) - 1 = k
        BY <1>1, <3>3
      <4> QED
        BY <1>5, <4>1
    <3> QED
      BY <1>1, <3>1, <3>2, <3>3
  <2> QED
    BY <2>1, <2>2 DEF AllocatedBlocks
<1>8. ASSUME NEW l, FreeBuddies(new, l), i \notin {l, l + 1}
      PROVE  \E m : FreeBuddies(mem, m) /\ i \notin {m, m + 1}
  <2>1. Len(new) = n + 1
    BY <1>1, <1>4, <1>5, BlockTypes
  <2>2. /\ l \in 1 .. n /\ new[l].size = new[l + 1].size
        /\ (new[l].start \div new[l].size) % 2 = 0
        /\ new[l].allocated = 0 /\ new[l + 1].allocated = 0
    BY <1>1, <1>8, <2>1 DEF FreeBuddies, BuddiesAt
  <2>3. CASE l + 1 < i
    <3>1. /\ new[l] = mem[l] /\ new[l + 1] = mem[l + 1]
          /\ l \in 1 .. n - 1
      BY <1>1, <1>5, <2>2, <2>3
    <3>2. FreeBuddies(mem, l)
      BY <2>2, <3>1 DEF FreeBuddies, BuddiesAt, n
    <3> QED
      BY <1>8, <3>2
  <2>4. CASE l = i + 1
    <3>1. mem[i].start % h = 0 /\ mem[i].start % (2 * h) = 0
      BY <1>1, <1>2, HalvesAligned
    <3>2. (mem[i].start \div h) % 2 = 0
      <4>0. 2 * h \in Nat \ {0}
        BY <1>2
      <4>1. PICK m \in Nat : mem[i].start = m * (2 * h)
        BY <1>1, <3>1, <4>0, Multiple
      <4>2. 2 * m \in Nat /\ mem[i].start = (2 * m) * h /\ (2 * m) % 2 = 0
        BY <1>2, <4>1
      <4>3. mem[i].start \div h = 2 * m
        BY <1>1, <1>2, <4>2, Multiple
      <4> QED
        BY <4>2, <4>3
    <3>3. ((mem[i].start + h) \div h) % 2 # 0
      BY <1>1, <1>2, <3>1, <3>2, BuddiesAligned
    <3> QED
      BY <1>6, <2>2, <2>4, <3>3
  <2>5. CASE l > i + 1
    <3>1. l - 1 \in 1 .. n - 1 /\ l \in 1 .. n + 1 /\ l + 1 \in 1 .. n + 1 /\ (l + 1) - 1 = l
          /\ (l - 1) + 1 = l /\ l + 1 > i + 1 /\ i \notin {l - 1, l}
      BY <1>1, <2>2, <2>5
    <3>2. new[l] = mem[l - 1] /\ new[l + 1] = mem[l]
      BY <1>5, <2>5, <3>1
    <3>3. FreeBuddies(mem, l - 1)
      BY <2>2, <3>1, <3>2 DEF FreeBuddies, BuddiesAt, n
    <3> QED
      BY <3>1, <3>3
  <2>6. l + 1 < i \/ l = i + 1 \/ l > i + 1
    BY <1>1, <1>8, <2>2
  <2> QED
    BY <2>3, <2>4, <2>5, <2>6
<1>9. i \in DOMAIN new /\ h \in Nat /\ 2 * new[i].size = mem[i].size
  BY <1>1, <1>2, <1>5, <1>6
<1> QED
  BY <1>4, <1>6, <1>7, <1>8, <1>9

(* A free block can be merged if it is one of two free buddies.             *)
LEMMA MergeableBuddies ==
  ASSUME NEW mem, MemoryOK(mem), NEW i \in DOMAIN mem, mem[i].allocated = 0
  PROVE  Mergeable(mem, i) <=> \E l : FreeBuddies(mem, l) /\ i \in {l, l + 1}
<1>1. /\ Len(mem) \in Nat \ {0} /\ DOMAIN mem = 1 .. Len(mem) /\ i \in 1 .. Len(mem)
      /\ mem[i].start \in Nat /\ mem[i].size \in Nat \ {0}
  BY BlockTypes
<1>2. ASSUME Mergeable(mem, i)
      PROVE  \E l : FreeBuddies(mem, l) /\ i \in {l, l + 1}
  <2>1. FreeBuddies(mem, MergedAt(mem, i)) /\ i \in {MergedAt(mem, i), MergedAt(mem, i) + 1}
    BY <1>2, MergePlace DEF FreeBuddies
  <2> QED
    BY <2>1
<1>3. ASSUME NEW l, FreeBuddies(mem, l), i = l
      PROVE  Mergeable(mem, i)
  <2>1. l \in 1 .. Len(mem) - 1 /\ l + 1 \in 1 .. Len(mem)
    BY <1>1, <1>3 DEF FreeBuddies, BuddiesAt
  <2>2. Buddy(mem, i) = i + 1
    BY <1>1, <1>3 DEF FreeBuddies, BuddiesAt, Buddy, BuddyOnRight
  <2> QED
    BY <1>1, <1>3, <2>1, <2>2 DEF FreeBuddies, BuddiesAt, Mergeable
<1>4. ASSUME NEW l, FreeBuddies(mem, l), i = l + 1
      PROVE  Mergeable(mem, i)
  <2>1. l \in 1 .. Len(mem) - 1 /\ l \in 1 .. Len(mem) /\ i - 1 = l
    BY <1>1, <1>4 DEF FreeBuddies, BuddiesAt
  <2>2. /\ mem[l].start \in Nat /\ mem[l].size \in Nat \ {0}
        /\ mem[l].start % mem[l].size = 0
    BY <1>1, <2>1, BlockTypes
  <2>3. mem[i].start = mem[l].start + mem[l].size /\ mem[i].size = mem[l].size
    BY <1>4, <2>1 DEF MemoryOK, Ends, FreeBuddies, BuddiesAt
  <2>4. (mem[i].start \div mem[i].size) % 2 # 0
    BY <1>4, <2>2, <2>3, BuddiesAligned DEF FreeBuddies, BuddiesAt
  <2>5. Buddy(mem, i) = l
    BY <2>1, <2>4 DEF Buddy, BuddyOnRight
  <2> QED
    BY <1>1, <1>4, <2>1, <2>3, <2>5 DEF FreeBuddies, Mergeable
<1> QED
  BY <1>2, <1>3, <1>4

(* A merge of two free blocks takes nothing from an allocated one, and no   *)
(* two free buddies are new but for the block that it makes.                *)
LEMMA MergeEffect ==
  ASSUME NEW mem, MemoryOK(mem), NEW i \in DOMAIN mem,
         mem[i].allocated = 0, Mergeable(mem, i),
         NEW new, new = merge_block(mem, i), NEW l, l = MergedAt(mem, i)
  PROVE  /\ MemoryOK(new) /\ l \in DOMAIN new
         /\ l \in DOMAIN mem
         /\ new[l].start = mem[l].start /\ new[l].allocated = 0
         /\ AllocatedBlocks(new) = AllocatedBlocks(mem)
         /\ \A m : FreeBuddies(new, m) =>
              l \in {m, m + 1} \/ \E k : FreeBuddies(mem, k) /\ i \notin {k, k + 1}
<1> DEFINE n == Len(mem)
<1>1. /\ n \in Nat \ {0} /\ DOMAIN mem = 1 .. n /\ l \in 1 .. n - 1
      /\ i \in {l, l + 1} /\ FreeBuddies(mem, l)
  BY BlockTypes, MergePlace DEF FreeBuddies, BuddiesAt
<1>2. BuddiesAt(mem, l) /\ mem[l].allocated = 0 /\ mem[l + 1].allocated = 0
  BY <1>1 DEF FreeBuddies
<1>3. MergeItems(mem, l, new)
  BY MergeBlocks
<1>4. MemoryOK(new)
  BY <1>2, <1>3, MergeKeepsList
<1>5. /\ DOMAIN new = 1 .. n - 1 /\ Len(new) = n - 1
      /\ \A j \in 1 .. n - 1 : j < l => new[j] = mem[j]
      /\ new[l] = [mem[l] EXCEPT !.size = 2 * @]
      /\ \A j \in 1 .. n - 1 : j > l => new[j] = mem[j + 1]
  <2>1. Len(new) = n - 1 /\
        \A j \in 1 .. n - 1 :
           new[j] = IF j < l THEN mem[j]
                    ELSE IF j = l THEN [mem[l] EXCEPT !.size = 2 * @]
                    ELSE mem[j + 1]
    BY <1>3 DEF MergeItems
  <2>2. DOMAIN new = 1 .. n - 1
    BY <1>4, <2>1, BlockTypes
  <2> HIDE DEF n
  <2>3. new[l] = [mem[l] EXCEPT !.size = 2 * @]
    BY <1>1, <2>1
  <2>4. ASSUME NEW j \in 1 .. n - 1, j > l
        PROVE  new[j] = mem[j + 1]
    BY <1>1, <2>1, <2>4
  <2> QED
    BY <2>1, <2>2, <2>3, <2>4
<1> HIDE DEF n
<1>6. new[l].start = mem[l].start /\ new[l].allocated = 0
  <2>1. mem[l] \in Blocks
    BY <1>1, BlockTypes
  <2> QED
    BY <1>2, <1>5, <2>1 DEF Blocks
<1>7. AllocatedBlocks(new) = AllocatedBlocks(mem)
  <2>1. ASSUME NEW j \in DOMAIN new, new[j].allocated # 0
        PROVE  \E k \in DOMAIN mem : mem[k] = new[j]
    <3>1. j # l
      BY <1>6, <2>1
    <3>2. CASE j < l
      BY <1>1, <1>5, <3>2
    <3>3. CASE j > l
      <4>1. j + 1 \in 1 .. n /\ new[j] = mem[j + 1]
        BY <1>1, <1>5, <3>3
      <4> QED
        BY <1>1, <4>1
    <3> QED
      BY <1>1, <1>5, <3>1, <3>2, <3>3
  <2>2. ASSUME NEW k \in DOMAIN mem, mem[k].allocated # 0
        PROVE  \E j \in DOMAIN new : mem[k] = new[j]
    <3>1. k # l /\ k # l + 1
      BY <1>2, <2>2
    <3>2. CASE k < l
      <4>1. k \in 1 .. n - 1 /\ new[k] = mem[k]
        BY <1>1, <1>5, <3>2
      <4> QED
        BY <1>5, <4>1
    <3>3. CASE k > l + 1
      <4>1. k - 1 \in 1 .. n - 1 /\ k - 1 > l /\ (k - 1) + 1 = k
        BY <1>1, <3>3
      <4> QED
        BY <1>5, <4>1
    <3> QED
      BY <1>1, <3>1, <3>2, <3>3
  <2> QED
    BY <2>1, <2>2 DEF AllocatedBlocks
<1>8. ASSUME NEW m, FreeBuddies(new, m), l \notin {m, m + 1}
      PROVE  \E k : FreeBuddies(mem, k) /\ i \notin {k, k + 1}
  <2>1. /\ m \in 1 .. n - 1 - 1 /\ new[m].size = new[m + 1].size
        /\ (new[m].start \div new[m].size) % 2 = 0
        /\ new[m].allocated = 0 /\ new[m + 1].allocated = 0
    BY <1>1, <1>5, <1>8 DEF FreeBuddies, BuddiesAt
  <2>2. CASE m + 1 < l
    <3>1. /\ new[m] = mem[m] /\ new[m + 1] = mem[m + 1]
          /\ m \in 1 .. n - 1 /\ i \notin {m, m + 1}
      BY <1>1, <1>5, <2>1, <2>2
    <3>2. FreeBuddies(mem, m)
      BY <2>1, <3>1 DEF FreeBuddies, BuddiesAt, n
    <3> QED
      BY <3>1, <3>2
  <2>3. CASE m > l
    <3>1. /\ new[m] = mem[m + 1] /\ new[m + 1] = mem[(m + 1) + 1]
          /\ m + 1 \in 1 .. n - 1 /\ i \notin {m + 1, (m + 1) + 1}
      BY <1>1, <1>5, <2>1, <2>3
    <3>2. FreeBuddies(mem, m + 1)
      BY <2>1, <3>1 DEF FreeBuddies, BuddiesAt, n
    <3> QED
      BY <3>1, <3>2
  <2>4. m + 1 < l \/ m > l
    BY <1>1, <1>8, <2>1
  <2> QED
    BY <2>2, <2>3, <2>4
<1>9. l \in DOMAIN new /\ l \in DOMAIN mem
  BY <1>1, <1>5
<1> QED
  BY <1>4, <1>6, <1>7, <1>8, <1>9

(* An allocation and a deallocation of a block, in the list.                *)
LEMMA MarkAllocated ==
  ASSUME NEW mem, MemoryOK(mem), NEW i \in DOMAIN mem, mem[i].allocated = 0,
         NEW r \in Nat \ {0}, NEW new, new = Marked(mem, i, r)
  PROVE  /\ AllocatedBlocks(new) = AllocatedBlocks(mem) \cup {[mem[i] EXCEPT !.allocated = r]}
         /\ \A l : FreeBuddies(new, l) => FreeBuddies(mem, l) /\ i \notin {l, l + 1}
<1>0. r \in Nat /\ r # 0
  OBVIOUS
<1>1. /\ MemoryOK(new) /\ DOMAIN new = DOMAIN mem
      /\ new[i] = [mem[i] EXCEPT !.allocated = r] /\ new[i].allocated = r
      /\ \A j \in DOMAIN mem : j # i => new[j] = mem[j]
      /\ \A l : BuddiesAt(new, l) <=> BuddiesAt(mem, l)
  BY <1>0, MarkBlock
<1>3. AllocatedBlocks(new) = AllocatedBlocks(mem) \cup {new[i]}
  <2>1. ASSUME NEW j \in DOMAIN new, new[j].allocated # 0
        PROVE  new[j] \in AllocatedBlocks(mem) \cup {new[i]}
    BY <1>1, <2>1 DEF AllocatedBlocks
  <2>2. ASSUME NEW j \in DOMAIN mem, mem[j].allocated # 0
        PROVE  mem[j] \in AllocatedBlocks(new)
    <3>1. j # i
      BY <2>2
    <3> QED
      BY <1>1, <2>2, <3>1 DEF AllocatedBlocks
  <2>3. new[i] \in AllocatedBlocks(new)
    BY <1>0, <1>1 DEF AllocatedBlocks
  <2>4. AllocatedBlocks(new) \subseteq AllocatedBlocks(mem) \cup {new[i]}
    BY <2>1 DEF AllocatedBlocks
  <2>5. AllocatedBlocks(mem) \subseteq AllocatedBlocks(new)
    BY <2>2 DEF AllocatedBlocks
  <2> QED
    BY <2>3, <2>4, <2>5
<1>4. ASSUME NEW l, FreeBuddies(new, l)
      PROVE  FreeBuddies(mem, l) /\ i \notin {l, l + 1}
  <2>1. i # l /\ i # l + 1
    BY <1>0, <1>1, <1>4 DEF FreeBuddies
  <2>2. l \in DOMAIN mem /\ l + 1 \in DOMAIN mem
    BY <1>1, <1>4, BlockTypes DEF FreeBuddies, BuddiesAt
  <2> QED
    BY <1>1, <1>4, <2>1, <2>2 DEF FreeBuddies
<1> QED
  BY <1>1, <1>3, <1>4

(* Freeing a block takes it, and no other, from the allocated ones;         *)
(* whatever becomes mergeable involves it.                                  *)
LEMMA MarkFree ==
  ASSUME NEW mem, MemoryOK(mem), NEW i \in DOMAIN mem, mem[i].allocated # 0,
         NEW new, new = Marked(mem, i, 0)
  PROVE  /\ AllocatedBlocks(new) = AllocatedBlocks(mem) \ {mem[i]}
         /\ \A l : FreeBuddies(new, l) => FreeBuddies(mem, l) \/ i \in {l, l + 1}
<1>0. PICK r \in Nat : r = 0 /\ new = Marked(mem, i, r)
  OBVIOUS
<1>1. /\ MemoryOK(new) /\ DOMAIN new = DOMAIN mem /\ new[i].allocated = 0
      /\ \A j \in DOMAIN mem : j # i => new[j] = mem[j]
      /\ \A l : BuddiesAt(new, l) <=> BuddiesAt(mem, l)
  <2>1. /\ MemoryOK(new) /\ DOMAIN new = DOMAIN mem
        /\ new[i] = [mem[i] EXCEPT !.allocated = r] /\ new[i].allocated = r
        /\ \A j \in DOMAIN mem : j # i => new[j] = mem[j]
        /\ \A l : BuddiesAt(new, l) <=> BuddiesAt(mem, l)
    BY SMTT(30), <1>0, MarkBlock
  <2> QED
    BY <1>0, <2>1
<1>2. \A j \in DOMAIN mem : mem[j] = mem[i] => j = i
  BY BlockByStart
<1>3. AllocatedBlocks(new) = AllocatedBlocks(mem) \ {mem[i]}
  BY <1>1, <1>2 DEF AllocatedBlocks
<1>4. ASSUME NEW l, FreeBuddies(new, l), i \notin {l, l + 1}
      PROVE  FreeBuddies(mem, l)
  <2>1. l \in DOMAIN mem /\ l + 1 \in DOMAIN mem
    BY <1>1, <1>4, BlockTypes DEF FreeBuddies, BuddiesAt
  <2> QED
    BY <1>1, <1>4, <2>1 DEF FreeBuddies
<1> QED
  BY <1>3, <1>4
-----------------------------------------------------------------------------
(* Two multiples of a number are a multiple of it apart.                    *)
LEMMA NextMultiple ==
  ASSUME NEW a \in Nat, NEW b \in Nat, NEW t \in Nat \ {0},
         a % t = 0, b % t = 0, a < b
  PROVE  a + t <= b
<1>1. PICK m \in Nat : a = m * t
  BY Multiple
<1>2. PICK n \in Nat : b = n * t
  BY Multiple
<1>3. m < n
  <2> SUFFICES ASSUME n <= m PROVE FALSE
    BY <1>1, <1>2
  <2>1. PICK d \in Nat : m = n + d
    <3>1. m - n \in Nat /\ m = n + (m - n)
      OBVIOUS
    <3> QED
      BY <3>1
  <2>2. a = b + d * t /\ d * t \in Nat
    BY <1>1, <1>2, <2>1
  <2> QED
    BY <2>2
<1>4. PICK d \in Nat : n = (m + 1) + d
  <2>1. n - (m + 1) \in Nat /\ n = (m + 1) + (n - (m + 1))
    BY <1>3
  <2> QED
    BY <2>1
<1>5. b = (a + t) + d * t /\ d * t \in Nat
  BY <1>1, <1>2, <1>4
<1> QED
  BY <1>5

(* The place after a block of its size is aligned as the block is.          *)
LEMMA NextAligned ==
  ASSUME NEW a \in Nat, NEW t \in Nat \ {0}, a % t = 0
  PROVE  (a + t) % t = 0
<1>1. PICK m \in Nat : a = m * t
  BY Multiple
<1>2. m + 1 \in Nat /\ a + t = (m + 1) * t /\ a + t \in Nat
  BY <1>1
<1> QED
  BY <1>2, Multiple

(* What is aligned to a size of blocks is aligned to every smaller one, and *)
(* then at an even multiple of it; and a place is at an even multiple of a  *)
(* number exactly if it is a multiple of the double.                        *)
LEMMA AlignedToSmaller ==
  ASSUME NEW t \in BlockSizes, NEW s \in BlockSizes, NEW a \in Nat, a % s = 0
  PROVE  /\ t <= s => a % t = 0
         /\ t < s => a % (2 * t) = 0
<1>1. /\ s \in Nat \ {0} /\ t \in Nat \ {0} /\ 2 * t \in Nat \ {0}
      /\ t < s => \E m \in Nat \ {0} : s = m * (2 * t)
      /\ t <= s => \E m \in Nat \ {0} : s = m * t
  <2>1. s \in Nat \ {0} /\ t \in Nat \ {0}
    BY SizeFacts
  <2>2. 2 * t \in Nat \ {0}
    BY <2>1
  <2>3. /\ t < s => \E m \in Nat \ {0} : s = m * (2 * t)
        /\ t <= s => \E m \in Nat \ {0} : s = m * t
    BY SizeFacts
  <2> QED
    BY <2>1, <2>2, <2>3
<1>2. PICK n \in Nat : a = n * s
  BY <1>1, Multiple
<1>3. ASSUME NEW u \in Nat \ {0}, NEW m \in Nat \ {0}, s = m * u
      PROVE  a % u = 0
  <2>1. n * m \in Nat /\ a = (n * m) * u
    BY <1>2, <1>3
  <2> QED
    BY <2>1, Multiple
<1> QED
  BY <1>1, <1>3

(* A start is that of a left buddy exactly if it is aligned to twice the    *)
(* size, as start ^ size > start of merge_block tests it.                   *)
LEMMA EvenMultiple ==
  ASSUME NEW a \in Nat, NEW t \in Nat \ {0}, a % t = 0
  PROVE  (a \div t) % 2 = 0 <=> a % (2 * t) = 0
<1>1. (a \div t) % 2 = 0 => a % (2 * t) = 0
  BY BuddiesAligned
<1>2. ASSUME a % (2 * t) = 0
      PROVE  (a \div t) % 2 = 0
  <2>0. 2 * t \in Nat \ {0}
    OBVIOUS
  <2>1. PICK m \in Nat : a = m * (2 * t)
    BY <1>2, <2>0, Multiple
  <2>2. 2 * m \in Nat /\ a = (2 * m) * t /\ (2 * m) % 2 = 0
    BY <2>1
  <2>3. a \div t = 2 * m
    BY <2>2, Multiple
  <2> QED
    BY <2>2, <2>3
<1> QED
  BY <1>1, <1>2

(* Every address is in a block.                                             *)
LEMMA SomeBlockCovers ==
  ASSUME NEW mem, MemoryOK(mem), NEW a \in Nat, a < MAX_SIZE
  PROVE  \E i \in DOMAIN mem : mem[i].start <= a /\ a < Ends(mem[i])
<1> DEFINE n == Len(mem)
           S == {i \in 1 .. n : a < Ends(mem[i])}
<1>1. n \in Nat \ {0} /\ DOMAIN mem = 1 .. n
  BY BlockTypes
<1>2. n \in S /\ S \subseteq Nat
  BY <1>1 DEF MemoryOK
<1>3. PICK i \in S : \A j \in S : i <= j
  BY <1>2, LeastElement
<1>4. mem[i].start <= a
  <2>1. CASE i = 1
    BY <2>1 DEF MemoryOK
  <2>2. CASE i # 1
    <3>1. i - 1 \in 1 .. n - 1 /\ i - 1 \in 1 .. n /\ i - 1 \notin S
      BY <1>1, <1>3, <2>2
    <3>2. mem[i].start = Ends(mem[i - 1])
      <4>1. mem[(i - 1) + 1].start = Ends(mem[i - 1])
        BY <3>1 DEF MemoryOK
      <4>2. (i - 1) + 1 = i
        BY <1>1
      <4> QED
        BY <4>1, <4>2
    <3>3. Ends(mem[i - 1]) \in Nat
      BY <1>1, <3>1, BlockTypes DEF Ends
    <3> QED
      BY <3>1, <3>2, <3>3
  <2> QED
    BY <2>1, <2>2
<1> QED
  BY <1>1, <1>3, <1>4

(* If no two free blocks are buddies, a region that a block could have and  *)
(* that is free lies in one free block: otherwise the smallest block in it  *)
(* would have a free buddy.                                                 *)
LEMMA FreeRegion ==
  ASSUME NEW mem, MemoryOK(mem), \A l : ~FreeBuddies(mem, l),
         NEW s \in BlockSizes, NEW a \in Nat, a % s = 0, a + s <= MAX_SIZE,
         \A i \in DOMAIN mem : mem[i].allocated # 0 =>
            Ends(mem[i]) <= a \/ a + s <= mem[i].start
  PROVE  Fitting(mem, s) # {}
<1> SUFFICES ASSUME Fitting(mem, s) = {} PROVE FALSE
  OBVIOUS
<1> DEFINE n == Len(mem)
           R == {i \in 1 .. n : a < Ends(mem[i]) /\ mem[i].start < a + s}
<1>1. /\ n \in Nat \ {0} /\ DOMAIN mem = 1 .. n /\ s \in Nat \ {0}
      /\ MAX_SIZE \in Nat /\ a < MAX_SIZE /\ a + s \in Nat
  BY BlockTypes, SizeFacts, MaxSizeOrder
<1>2. \A i \in 1 .. n :
        /\ mem[i].start \in Nat /\ mem[i].size \in Nat \ {0} /\ mem[i].allocated \in Nat
        /\ mem[i].size \in BlockSizes /\ mem[i].start % mem[i].size = 0
        /\ Ends(mem[i]) = mem[i].start + mem[i].size
  BY <1>1, BlockTypes DEF Ends
<1>3. \A i \in R : mem[i].allocated = 0 /\ mem[i].size < s
  <2> SUFFICES ASSUME NEW i \in R
               PROVE  mem[i].allocated = 0 /\ mem[i].size < s
    OBVIOUS
  <2>0. i \in DOMAIN mem /\ a < Ends(mem[i]) /\ mem[i].start < a + s
    BY <1>1
  <2>1. mem[i].allocated = 0
    <3>1. mem[i].allocated # 0 => Ends(mem[i]) <= a \/ a + s <= mem[i].start
      BY <2>0
    <3>2. Ends(mem[i]) \in Nat /\ mem[i].start \in Nat
      BY <1>1, <1>2, <2>0
    <3> HIDE DEF R
    <3> QED
      BY <1>1, <2>0, <3>1, <3>2
  <2>2. ~(mem[i].size >= s)
    BY <1>1, <2>1 DEF Fitting
  <2> QED
    BY <1>1, <1>2, <2>1, <2>2
<1>4. (a + s) % s = 0
  BY <1>1, NextAligned
<1>5. ASSUME NEW i \in R
      PROVE  /\ a % (2 * mem[i].size) = 0 /\ (a + s) % (2 * mem[i].size) = 0
             /\ a <= mem[i].start /\ Ends(mem[i]) <= a + s
  <2>1. mem[i].size < s /\ mem[i].size <= s /\ mem[i].size \in BlockSizes
    BY <1>1, <1>2, <1>3
  <2>2. /\ a % mem[i].size = 0 /\ (a + s) % mem[i].size = 0
        /\ a % (2 * mem[i].size) = 0 /\ (a + s) % (2 * mem[i].size) = 0
    BY <1>1, <1>4, <2>1, AlignedToSmaller
  <2>3. mem[i].start < a => mem[i].start + mem[i].size <= a
    BY <1>2, <2>2, NextMultiple
  <2>4. mem[i].start + mem[i].size <= a + s
    BY <1>1, <1>2, <2>2, NextMultiple
  <2> QED
    BY <1>2, <2>2, <2>3, <2>4
<1>6. R # {}
  <2>1. PICK i \in DOMAIN mem : mem[i].start <= a /\ a < Ends(mem[i])
    BY <1>1, SomeBlockCovers
  <2>2. mem[i].start < a + s
    BY <1>1, <1>2, <2>1
  <2> QED
    BY <1>1, <2>1, <2>2
<1> DEFINE Z == {mem[i].size : i \in R}
<1>7. Z \subseteq Nat /\ Z # {}
  BY <1>2, <1>6
<1>8. PICK j \in R : \A i \in R : mem[j].size <= mem[i].size
  <2>1. PICK z \in Z : \A y \in Z : z <= y
    <3> HIDE DEF Z
    <3> QED
      BY <1>7, LeastElement
  <2> QED
    BY <2>1
<1> DEFINE t == mem[j].size
           b == mem[j].start
<1>9. /\ j \in 1 .. n /\ t \in Nat \ {0} /\ t \in BlockSizes /\ 2 * t \in Nat \ {0}
      /\ b \in Nat /\ b % t = 0 /\ mem[j].allocated = 0
  BY <1>2, <1>3
<1>10. a % (2 * t) = 0 /\ (a + s) % (2 * t) = 0 /\ a <= b /\ b + t <= a + s
  BY <1>2, <1>5, <1>9
<1>11. ASSUME NEW c \in Nat, NEW i \in R, c % mem[i].size = 0, c % (2 * t) # 0
       PROVE  mem[i].size = t
  <2>1. t <= mem[i].size /\ mem[i].size \in BlockSizes /\ mem[i].size \in Nat
    BY <1>2, <1>8
  <2>2. ~(t < mem[i].size)
    BY <1>9, <1>11, <2>1, AlignedToSmaller
  <2> QED
    BY <1>9, <2>1, <2>2
<1> HIDE DEF R, Z
<1>12. CASE (b \div t) % 2 = 0
  <2>1. (b + t) % (2 * t) # 0 /\ b + t \in Nat
    <3>1. (b + t) % t = 0 /\ b + t \in Nat
      BY <1>9, NextAligned
    <3>2. ((b + t) \div t) % 2 # 0
      BY <1>9, <1>12, BuddiesAligned
    <3> QED
      BY <1>9, <3>1, <3>2, EvenMultiple
  <2>2. b + t < a + s
    <3>1. b + t # a + s
      BY <1>10, <2>1
    <3>2. b + t <= a + s
      BY <1>10
    <3> HIDE DEF b, t
    <3> QED
      BY <1>1, <2>1, <3>1, <3>2
  <2>3. j \in 1 .. n - 1
    <3>1. mem[n].start + mem[n].size = MAX_SIZE
      BY DEF MemoryOK, Ends
    <3> QED
      BY <1>1, <1>9, <2>2, <3>1
  <2>4. j + 1 \in 1 .. n /\ mem[j + 1].start = b + t
    BY <1>1, <2>3 DEF MemoryOK, Ends
  <2>5. j + 1 \in R
    BY SMTT(30), <1>1, <1>2, <1>9, <1>10, <2>2, <2>4 DEF R
  <2>6. mem[j + 1].size = t /\ mem[j + 1].allocated = 0
    <3>1. (b + t) % mem[j + 1].size = 0
      BY <1>2, <2>4
    <3> QED
      BY <1>3, <1>11, <2>1, <2>5, <3>1
  <2>7. FreeBuddies(mem, j)
    BY <1>9, <1>12, <2>3, <2>6 DEF FreeBuddies, BuddiesAt
  <2> QED
    BY <2>7
<1>13. CASE (b \div t) % 2 # 0
  <2>1. b % (2 * t) # 0
    BY <1>9, <1>13, EvenMultiple
  <2>2. a < b
    BY <1>9, <1>10, <2>1
  <2>3. j # 1
    BY <2>2 DEF MemoryOK
  <2>4. j - 1 \in 1 .. n - 1 /\ j - 1 \in 1 .. n /\ (j - 1) + 1 = j
    BY <1>1, <1>9, <2>3
  <2>5. Ends(mem[j - 1]) = b
    <3>1. mem[(j - 1) + 1].start = Ends(mem[j - 1])
      BY <2>4 DEF MemoryOK
    <3> QED
      BY <2>4, <3>1
  <2>6. mem[j - 1].start + mem[j - 1].size = b /\ mem[j - 1].start \in Nat
        /\ mem[j - 1].size \in Nat \ {0}
    BY <1>2, <2>4, <2>5
  <2>7. j - 1 \in R
    BY SMTT(30), <1>1, <1>9, <1>10, <2>2, <2>4, <2>5, <2>6 DEF R
  <2>8. mem[j - 1].size = t /\ mem[j - 1].allocated = 0
    <3>1. mem[j - 1].start % mem[j - 1].size = 0
      BY <1>2, <2>4
    <3>2. b % mem[j - 1].size = 0
      BY SMTT(30), <2>6, <3>1
    <3> QED
      BY <1>3, <1>9, <1>11, <2>1, <2>7, <3>2
  <2>9. (mem[j - 1].start \div mem[j - 1].size) % 2 = 0
    <3>1. b - t = mem[j - 1].start
      BY <1>9, <2>6, <2>8
    <3>2. ((b - t) \div t) % 2 = 0
      BY <1>9, <1>13, BuddiesAligned
    <3> QED
      BY <2>8, <3>1, <3>2
  <2>10. FreeBuddies(mem, j - 1)
    BY <1>9, <2>4, <2>8, <2>9 DEF FreeBuddies, BuddiesAt
  <2> QED
    BY <2>10
<1> QED
  BY <1>12, <1>13
-----------------------------------------------------------------------------
(* What fitted still fits when a block is freed, and when two free blocks   *)
(* are merged; what fits after a split of a free block fitted before it.    *)
LEMMA FitsAfterFree ==
  ASSUME NEW mem, MemoryOK(mem), NEW i \in DOMAIN mem, NEW new, new = Marked(mem, i, 0),
         NEW r \in Nat, Fitting(mem, r) # {}
  PROVE  Fitting(new, r) # {}
<1>1. /\ mem[i] \in Blocks /\ mem \in [1 .. Len(mem) -> Blocks] /\ i \in 1 .. Len(mem)
      /\ DOMAIN mem = 1 .. Len(mem)
  BY BlockTypes, LenProperties DEF MemoryOK
<1>2. /\ DOMAIN new = DOMAIN mem /\ new[i].size = mem[i].size /\ new[i].allocated = 0
      /\ \A j \in DOMAIN mem : j # i => new[j] = mem[j]
  BY <1>1 DEF Marked, Blocks
<1>3. PICK j \in DOMAIN mem : mem[j].allocated = 0 /\ mem[j].size >= r
  BY DEF Fitting
<1>4. j \in DOMAIN new /\ new[j].allocated = 0 /\ new[j].size >= r
  BY <1>2, <1>3
<1> QED
  BY <1>4 DEF Fitting

(* A request that some free block could serve is still served after a       *)
(* merge.                                                                   *)
LEMMA FitsAfterMerge ==
  ASSUME NEW mem, MemoryOK(mem), NEW i \in DOMAIN mem, mem[i].allocated = 0,
         Mergeable(mem, i), NEW r \in Nat, Fitting(mem, r) # {}
  PROVE  Fitting(merge_block(mem, i), r) # {}
<1> DEFINE l == MergedAt(mem, i)
           new == merge_block(mem, i)
           n == Len(mem)
<1>1. /\ n \in Nat /\ DOMAIN mem = 1 .. n /\ l \in 1 .. n - 1
      /\ mem[l].allocated = 0 /\ mem[l + 1].allocated = 0 /\ mem[l + 1].size = mem[l].size
  BY BlockTypes, MergePlace DEF BuddiesAt
<1>2. MergeItems(mem, l, new)
  BY MergeBlocks
<1>3. new \in Seq(Blocks) /\ Len(new) = n - 1 /\ DOMAIN new = 1 .. n - 1
  BY <1>1, <1>2, LenProperties DEF MergeItems
<1>4. /\ \A j \in 1 .. n - 1 : j < l => new[j] = mem[j]
      /\ new[l] = [mem[l] EXCEPT !.size = 2 * @]
      /\ \A j \in 1 .. n - 1 : j > l => new[j] = mem[j + 1]
  BY <1>1, <1>2 DEF MergeItems
<1>5. mem[l] \in Blocks /\ mem[l].size \in Nat
  BY <1>1, BlockTypes
<1>6. new[l].allocated = 0 /\ new[l].size = 2 * mem[l].size
  BY <1>1, <1>4, <1>5 DEF Blocks
<1>7. PICK j \in 1 .. n : mem[j].allocated = 0 /\ mem[j].size >= r
  BY <1>1 DEF Fitting
<1> HIDE DEF new, l, n
<1>8. CASE j < l
  <2>1. j \in 1 .. n - 1 /\ new[j] = mem[j]
    BY <1>1, <1>4, <1>8
  <2> QED
    BY <1>3, <1>7, <2>1 DEF Fitting, new
<1>9. CASE j = l \/ j = l + 1
  <2>1. mem[l].size >= r
    BY <1>1, <1>7, <1>9
  <2>2. new[l].size >= r
    BY <1>5, <1>6, <2>1
  <2> QED
    BY <1>1, <1>3, <1>6, <2>2 DEF Fitting, new
<1>10. CASE j > l + 1
  <2>1. j - 1 \in 1 .. n - 1 /\ j - 1 > l /\ (j - 1) + 1 = j
    BY <1>1, <1>10
  <2>2. new[j - 1] = mem[j]
    BY <1>4, <2>1
  <2> QED
    BY <1>3, <1>7, <2>1, <2>2 DEF Fitting, new
<1> QED
  BY <1>1, <1>8, <1>9, <1>10

(* A split makes no block large enough for a request that none was before.  *)
LEMMA FitsBeforeSplit ==
  ASSUME NEW mem, MemoryOK(mem), NEW i \in DOMAIN mem, mem[i].allocated = 0,
         NEW r \in Nat, Fitting(split_block(mem, i), r) # {}
  PROVE  Fitting(mem, r) # {}
<1> DEFINE new == split_block(mem, i)
           n == Len(mem)
           h == mem[i].size \div 2
<1>1. /\ n \in Nat /\ DOMAIN mem = 1 .. n /\ i \in 1 .. n
      /\ mem[i].size \in Nat /\ mem \in Seq(Blocks) /\ mem[i] \in Blocks
  BY BlockTypes DEF MemoryOK
<1>2. SplitItems(mem, i, new)
  BY <1>1, SplitBlocks
<1>3. new \in Seq(Blocks) /\ Len(new) = n + 1 /\ DOMAIN new = 1 .. n + 1
  BY <1>1, <1>2, LenProperties DEF SplitItems
<1>4. /\ \A j \in 1 .. n + 1 : j < i => new[j] = mem[j]
      /\ new[i] = [mem[i] EXCEPT !.size = h]
      /\ new[i + 1] = [start |-> mem[i].start + h, size |-> h, allocated |-> 0]
      /\ \A j \in 1 .. n + 1 : j > i + 1 => new[j] = mem[j - 1]
  <2>1. i \in 1 .. n + 1 /\ i + 1 \in 1 .. n + 1 /\ ~(i + 1 < i) /\ i + 1 # i
    BY <1>1
  <2>2. \A j \in 1 .. n + 1 :
           new[j] = IF j < i THEN mem[j]
                    ELSE IF j = i THEN [mem[i] EXCEPT !.size = h]
                    ELSE IF j = i + 1 THEN [start |-> mem[i].start + h, size |-> h,
                                            allocated |-> 0]
                    ELSE mem[j - 1]
    BY <1>2 DEF SplitItems
  <2> HIDE DEF new, h
  <2> QED
    BY <1>1, <2>1, <2>2
<1>5. new[i].size = h /\ new[i + 1].size = h /\ h \in Nat /\ h <= mem[i].size
  BY SMTT(30), <1>1, <1>4 DEF Blocks
<1>6. PICK j \in 1 .. n + 1 : new[j].allocated = 0 /\ new[j].size >= r
  BY <1>3 DEF Fitting
<1> HIDE DEF new, h, n
<1>7. CASE j < i
  <2>1. j \in 1 .. n /\ new[j] = mem[j]
    BY <1>1, <1>4, <1>7
  <2> QED
    BY <1>1, <1>6, <2>1 DEF Fitting
<1>8. CASE j = i \/ j = i + 1
  <2>1. mem[i].size >= r
    BY <1>1, <1>5, <1>6, <1>8
  <2> QED
    BY <1>1, <2>1 DEF Fitting
<1>9. CASE j > i + 1
  <2>1. j - 1 \in 1 .. n /\ new[j] = mem[j - 1]
    BY <1>1, <1>4, <1>9
  <2> QED
    BY <1>1, <1>6, <2>1 DEF Fitting
<1> QED
  BY <1>1, <1>7, <1>8, <1>9

(* Memory of which no part is allocated, and where no free buddies are      *)
(* left, is one block.                                                      *)
LEMMA OneFreeBlock ==
  ASSUME NEW mem, MemoryOK(mem), \A l : ~FreeBuddies(mem, l), AllocatedBlocks(mem) = {}
  PROVE  mem = init_memory
<1>1. MAX_SIZE \in BlockSizes /\ MAX_SIZE \in Nat \ {0} /\ 0 % MAX_SIZE = 0
  BY MaxSizeOrder DEF BlockSizes
<1>2. \A j \in DOMAIN mem : mem[j].allocated = 0
  BY DEF AllocatedBlocks
<1>3. Fitting(mem, MAX_SIZE) # {}
  <2>1. PICK a \in Nat : a = 0
    OBVIOUS
  <2>2. a % MAX_SIZE = 0 /\ a + MAX_SIZE <= MAX_SIZE
    BY <1>1, <2>1
  <2>3. \A j \in DOMAIN mem : mem[j].allocated # 0 =>
           Ends(mem[j]) <= a \/ a + MAX_SIZE <= mem[j].start
    BY <1>2
  <2> QED
    BY <1>1, <2>2, <2>3, FreeRegion
<1>4. PICK j \in DOMAIN mem : mem[j].size >= MAX_SIZE
  BY <1>3 DEF Fitting
<1>5. /\ mem \in Seq(Blocks) /\ Len(mem) \in Nat \ {0} /\ DOMAIN mem = 1 .. Len(mem)
      /\ \A k \in DOMAIN mem : mem[k].start \in Nat /\ mem[k].size \in Nat \ {0}
      /\ mem[1].start = 0
  BY BlockTypes DEF MemoryOK
<1>6. mem[j].start = 0 /\ mem[j].size = MAX_SIZE
  BY <1>1, <1>4, <1>5, EndsInMemory
<1>7. j = 1
  BY <1>5, <1>6, BlockByStart
<1>8. Len(mem) = 1
  <2> SUFFICES ASSUME Len(mem) > 1 PROVE FALSE
    BY <1>5
  <2>1. mem[2].start = Ends(mem[1]) /\ 2 \in DOMAIN mem
    <3>1. 1 \in 1 .. Len(mem) - 1 /\ 2 \in 1 .. Len(mem)
      BY <1>5
    <3>2. mem[1 + 1].start = Ends(mem[1])
      BY <3>1 DEF MemoryOK
    <3> QED
      BY <1>5, <3>1, <3>2
  <2>2. mem[2].start = MAX_SIZE
    BY <1>1, <1>6, <1>7, <2>1 DEF Ends
  <2>3. mem[2].start + mem[2].size <= MAX_SIZE
    BY <2>1, EndsInMemory
  <2> QED
    BY <1>1, <1>5, <2>1, <2>2, <2>3
<1>9. mem[1] = [start |-> 0, size |-> MAX_SIZE, allocated |-> 0]
  <2>1. 1 \in DOMAIN mem /\ mem[1] \in Blocks
    BY <1>5, <1>8, BlockTypes
  <2>2. mem[1].start = 0 /\ mem[1].size = MAX_SIZE /\ mem[1].allocated = 0
    BY <1>2, <1>6, <1>7, <2>1
  <2> QED
    BY <2>1, <2>2 DEF Blocks
<1> QED
  BY <1>5, <1>8, <1>9 DEF init_memory

(* Freeing a block takes no place away from a free block, and neither does  *)
(* a merge.                                                                 *)
LEMMA FreeItems ==
  ASSUME NEW mem, MemoryOK(mem), NEW i \in DOMAIN mem, NEW new, new = Marked(mem, i, 0)
  PROVE  /\ MemoryOK(new) /\ DOMAIN new = DOMAIN mem
         /\ new[i].allocated = 0
         /\ \A j \in DOMAIN mem : /\ new[j].start = mem[j].start /\ new[j].size = mem[j].size
                                  /\ mem[j].allocated = 0 => new[j].allocated = 0
<1>1. /\ mem[i] \in Blocks /\ mem \in [1 .. Len(mem) -> Blocks] /\ i \in 1 .. Len(mem)
      /\ DOMAIN mem = 1 .. Len(mem)
  BY BlockTypes, LenProperties DEF MemoryOK
<1>2. /\ DOMAIN new = DOMAIN mem /\ new[i].allocated = 0
      /\ \A j \in DOMAIN mem : /\ new[j].start = mem[j].start /\ new[j].size = mem[j].size
                               /\ mem[j].allocated = 0 => new[j].allocated = 0
  BY <1>1 DEF Marked, Blocks
<1>3. MemoryOK(new)
  <2>1. ASSUME NEW r \in Nat, new = Marked(mem, i, r)
        PROVE  MemoryOK(new)
    BY <2>1, MarkBlock
  <2>2. 0 \in Nat
    OBVIOUS
  <2> QED
    BY <2>1, <2>2
<1> QED
  BY <1>2, <1>3

(* Every block that a merge leaves starts where one did before, with its    *)
(* mark, and is no smaller.                                                 *)
LEMMA MergeGrows ==
  ASSUME NEW mem, MemoryOK(mem), NEW i \in DOMAIN mem, Mergeable(mem, i)
  PROVE  \A j \in DOMAIN merge_block(mem, i) : \E k \in DOMAIN mem :
            /\ merge_block(mem, i)[j].start = mem[k].start
            /\ merge_block(mem, i)[j].allocated = mem[k].allocated
            /\ merge_block(mem, i)[j].size >= mem[k].size
<1> DEFINE l == MergedAt(mem, i)
           new == merge_block(mem, i)
           n == Len(mem)
<1>1. n \in Nat /\ DOMAIN mem = 1 .. n /\ l \in 1 .. n - 1
  BY BlockTypes, MergePlace DEF BuddiesAt
<1>2. MergeItems(mem, l, new)
  BY MergeBlocks
<1>3. DOMAIN new = 1 .. n - 1
  BY <1>1, <1>2, LenProperties DEF MergeItems
<1>4. /\ \A j \in 1 .. n - 1 : j < l => new[j] = mem[j]
      /\ new[l] = [mem[l] EXCEPT !.size = 2 * @]
      /\ \A j \in 1 .. n - 1 : j > l => new[j] = mem[j + 1]
  BY <1>1, <1>2 DEF MergeItems
<1>5. \A j \in 1 .. n : mem[j] \in Blocks /\ mem[j].size \in Nat
  BY <1>1, BlockTypes
<1>6. /\ new[l].allocated = mem[l].allocated /\ new[l].start = mem[l].start
      /\ new[l].size >= mem[l].size
  BY <1>1, <1>4, <1>5 DEF Blocks
<1> HIDE DEF new, l, n
<1>7. ASSUME NEW j \in 1 .. n - 1
      PROVE  \E k \in 1 .. n : /\ new[j].start = mem[k].start
                               /\ new[j].allocated = mem[k].allocated
                               /\ new[j].size >= mem[k].size
  <2>1. CASE j < l
    BY <1>1, <1>4, <1>5, <2>1
  <2>2. CASE j = l
    BY <1>1, <1>6, <2>2
  <2>3. CASE j > l
    BY <1>1, <1>4, <1>5, <2>3
  <2> QED
    BY <1>1, <2>1, <2>2, <2>3
<1> QED
  BY <1>1, <1>3, <1>7 DEF new
=============================================================================
