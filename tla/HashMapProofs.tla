----------------------------- MODULE HashMapProofs -----------------------------
(***************************************************************************)
(* The hash map is a map, for every capacity, every set of keys and every   *)
(* hash function, and what space it is sure to have.                        *)
(***************************************************************************)
EXTENDS HashMap, FiniteSetTheorems, WellFoundedInduction, TLAPS

(* A set of naturals that is not empty has a least element, which Min is:   *)
(* the search of a key looks at its buckets in the order of the steps.      *)
LEMMA LeastStep ==
  ASSUME NEW S, S \subseteq Nat, S # {}
  PROVE  Min(S) \in S /\ \A s \in S : Min(S) <= s
<1> DEFINE R == {ss \in Nat \X Nat : ss[1] < ss[2]}
<1>1. IsWellFoundedOn(R, Nat)
  BY NatLessThanWellFounded DEF OpToRel
<1>2. \A s, t \in Nat : s < t => <<s, t>> \in R
  OBVIOUS
<1> HIDE DEF R
<1>3. PICK m \in S : \A s \in S : ~(<<s, m>> \in R)
  BY <1>1, WFMin
<1>4. ASSUME NEW s \in S PROVE m <= s
  <2>1. s \in Nat /\ m \in Nat /\ ~(s < m)
    BY <1>2, <1>3
  <2> QED
    BY <2>1
<1> QED
  BY <1>4 DEF Min

(* Every bucket that is looked at is one of the map's.                      *)
LEMMA ProbeInMap ==
  ASSUME home \in [Keys -> Indices], NEW k \in Keys, NEW step \in Nat
  PROVE  Probe(k, step) \in Indices
<1>1. home[k] \in Nat
  BY DEF Indices
<1>2. step * step \in Nat
  OBVIOUS
<1>3. home[k] + step * step \in Nat
  BY <1>1, <1>2
<1> QED
  BY <1>3, CapacityAssumption DEF Probe, Indices

(* A search that ends ends at the first bucket that stops it; one that does *)
(* not end was stopped by none.                                             *)
LEMMA SearchEnds ==
  ASSUME home \in [Keys -> Indices], NEW k \in Keys
  PROVE  /\ Found(k) = NULL => \A step \in Steps : ~Stops(k, step)
         /\ Found(k) # NULL =>
              \E step \in Steps : /\ Found(k) = Probe(k, step)
                                  /\ Stops(k, step)
                                  /\ \A s \in Steps : s < step => ~Stops(k, s)
<1> DEFINE stops == {step \in Steps : Stops(k, step)}
<1>1. Steps \subseteq Nat
  BY CapacityAssumption DEF Steps
<1>2. CASE stops = {}
  BY <1>2 DEF Found
<1>3. CASE stops # {}
  <2>1. Min(stops) \in stops /\ \A s \in stops : Min(stops) <= s
    BY <1>1, <1>3, LeastStep
  <2>2. Found(k) = Probe(k, Min(stops))
    BY <1>3 DEF Found
  <2>3. Found(k) # NULL
    BY <1>1, <2>1, <2>2, ProbeInMap, EntryAssumption
  <2>4. ASSUME NEW s \in Steps, s < Min(stops) PROVE ~Stops(k, s)
    <3>1. s \in Nat /\ Min(stops) \in Nat
      BY <1>1, <2>1
    <3>2. ~(Min(stops) <= s)
      BY <2>4, <3>1
    <3> QED
      BY <2>1, <3>2
  <2> QED
    BY <2>1, <2>2, <2>3, <2>4
<1> QED
  BY <1>2, <1>3

(* The other way round: the first bucket that stops a search is its end.    *)
EndsAtFirstStop ==
  \A k \in Keys : \A step \in Steps :
    Stops(k, step) /\ (\A s \in Steps : s < step => ~Stops(k, s))
      => Found(k) = Probe(k, step)
(* EndsAtFirstStop holds: the least step that stops is the one Found        *)
(* chooses.                                                                 *)
LEMMA FirstStop == EndsAtFirstStop
<1> SUFFICES ASSUME NEW k \in Keys, NEW step \in Steps, Stops(k, step),
                    \A s \in Steps : s < step => ~Stops(k, s)
             PROVE  Found(k) = Probe(k, step)
  BY DEF EndsAtFirstStop
<1> DEFINE stops == {s \in Steps : Stops(k, s)}
<1>1. Steps \subseteq Nat
  BY CapacityAssumption DEF Steps
<1>2. Min(stops) \in stops /\ \A s \in stops : Min(stops) <= s
  BY <1>1, LeastStep
<1>3. Min(stops) \in Nat /\ step \in Nat /\ Min(stops) <= step /\ ~(Min(stops) < step)
  BY <1>1, <1>2
<1>4. Min(stops) = step
  BY <1>3
<1> QED
  BY <1>4 DEF Found

(* Where a search ends there is no entry, or the key's.                     *)
LEMMA FoundBucket ==
  ASSUME home \in [Keys -> Indices], NEW k \in Keys, Found(k) # NULL
  PROVE  Found(k) \in Indices /\ (buckets[Found(k)] # NULL => buckets[Found(k)].key = k)
<1>1. PICK step \in Steps : Found(k) = Probe(k, step) /\ Stops(k, step)
  BY SearchEnds
<1>2. Found(k) \in Indices
  BY <1>1, ProbeInMap, CapacityAssumption DEF Steps
<1> QED
  BY <1>1, <1>2 DEF Stops, Holds

(* What hashmap_get returns: the value of the key's entry, where there is   *)
(* one, and NULL where there is none.                                       *)
GetReadsEntry ==
  \A k \in Keys :
    /\ \A b \in Indices : Holds(b, k) => hashmap_get(k) = buckets[b].value
    /\ (\A b \in Indices : ~Holds(b, k)) => hashmap_get(k) = NULL
(* GetReadsEntry holds in every state of the invariant: the search for a    *)
(* key ends at its entry (hash_map.c:58-76).                                *)
LEMMA GetEntry == MapInv => GetReadsEntry
<1> SUFFICES ASSUME MapInv, NEW k \in Keys
             PROVE  /\ \A b \in Indices : Holds(b, k) =>
                         hashmap_get(k) = buckets[b].value
                    /\ (\A b \in Indices : ~Holds(b, k)) => hashmap_get(k) = NULL
  BY DEF GetReadsEntry
<1>1. ASSUME NEW b \in Indices, Holds(b, k)
      PROVE  hashmap_get(k) = buckets[b].value
  BY <1>1, EntryAssumption DEF MapInv, EntriesFound, Holds, hashmap_get
<1>2. ASSUME \A b \in Indices : ~Holds(b, k)
      PROVE  hashmap_get(k) = NULL
  <2>1. CASE Found(k) = NULL
    BY <2>1 DEF hashmap_get
  <2>2. CASE Found(k) # NULL
    <3>1. Found(k) \in Indices /\ (buckets[Found(k)] # NULL => Holds(Found(k), k))
      BY <2>2, FoundBucket DEF MapInv, HashTypeOK, Holds
    <3> QED
      BY <1>2, <3>1 DEF hashmap_get
  <2> QED
    BY <2>1, <2>2
<1> QED
  BY <1>1, <1>2

-----------------------------------------------------------------------------
(* hashmap_put keeps the invariant: the entries before a key's on its way   *)
(* stay full, a new one is counted, and a replaced one is not.              *)
LEMMA PutKeepsEntries ==
  ASSUME MapInv, NEW k \in Keys, NEW v \in Values, hashmap_put(k, v)
  PROVE  MapInv'
<1> USE DEF MapInv
<1>1. CASE Refuses(k) /\ result' = -1 /\ UNCHANGED <<buckets, hash_size>>
  BY <1>1 DEF hashmap_put, HashTypeOK, EntriesFound, Found, Stops, Holds, Probe
<1>2. CASE /\ ~Refuses(k)
           /\ buckets' = [buckets EXCEPT ![Found(k)] = [key |-> k, value |-> v]]
           /\ hash_size' = hash_size + Grows(Found(k))
           /\ result' = Grows(Found(k))
  <2> DEFINE f == Found(k)
  <2>1. home' = home /\ home \in [Keys -> Indices]
    BY DEF hashmap_put, HashTypeOK
  <2>2. f # NULL /\ f \in Indices /\ (buckets[f] # NULL => buckets[f].key = k)
    BY <1>2, <2>1, FoundBucket DEF Refuses
  <2>3. buckets' = [buckets EXCEPT ![f] = [key |-> k, value |-> v]]
    BY <1>2
  <2>4. hash_size' = hash_size + Grows(f) /\ result' = Grows(f)
    BY <1>2
  <2> HIDE DEF f
  <2>5. /\ [key |-> k, value |-> v] \in [key : Keys, value : Values]
        /\ [key |-> k, value |-> v] # NULL
    BY EntryAssumption
  <2>6. buckets' \in [Indices -> {NULL} \cup [key : Keys, value : Values]]
    BY <2>3, <2>5 DEF HashTypeOK
  <2>7. /\ buckets'[f] # NULL /\ buckets'[f].key = k
        /\ \A b \in Indices : b # f => buckets'[b] = buckets[b]
    BY <2>2, <2>3, <2>5 DEF HashTypeOK
  <2>8. \A j \in Keys, step \in Nat :
          /\ Probe(j, step)' = Probe(j, step)
          /\ Probe(j, step) \in Indices
    BY <2>1, ProbeInMap DEF Probe
  <2>9. Steps \subseteq Nat
    BY CapacityAssumption DEF Steps
  <2>10. ASSUME NEW b \in Indices, NEW j \in Keys, Holds(b, j)'
         PROVE  Found(j)' = b
    <3>1. buckets'[b] # NULL /\ j = buckets'[b].key
      BY <2>10 DEF Holds
    <3>2. Found(j) = b
      <4>1. CASE b = f
        BY <2>7, <3>1, <4>1 DEF f
      <4>2. CASE b # f
        BY <2>7, <2>10, <3>1, <4>2 DEF EntriesFound, Holds
      <4> QED
        BY <4>1, <4>2
    <3>3. PICK step \in Steps : /\ b = Probe(j, step)
                                /\ Stops(j, step)
                                /\ \A s \in Steps : s < step => ~Stops(j, s)
      BY <2>1, <3>1, <3>2, EntryAssumption, SearchEnds
    <3>4. Stops(j, step)'
      BY <2>8, <2>9, <2>10, <3>1, <3>3 DEF Stops, Holds
    <3>5. ASSUME NEW s \in Steps, s < step
          PROVE  ~Stops(j, s)'
      <4>1. /\ Probe(j, s) \in Indices /\ Probe(j, s)' = Probe(j, s)
            /\ buckets[Probe(j, s)] # NULL /\ buckets[Probe(j, s)].key # j
        BY <2>8, <2>9, <3>1, <3>3, <3>5 DEF Stops, Holds
      <4>2. CASE Probe(j, s) = f
        <5>1. buckets'[f].key # j
          BY <2>2, <2>7, <4>1, <4>2
        <5> QED
          BY <2>7, <4>1, <4>2, <5>1 DEF Stops, Holds
      <4>3. CASE Probe(j, s) # f
        BY <2>7, <4>1, <4>3 DEF Stops, Holds
      <4> QED
        BY <4>2, <4>3
    <3>6. Found(j)' = Probe(j, step)'
      <4>1. EndsAtFirstStop'
        BY FirstStop, PTL
      <4> QED
        BY <3>1, <3>4, <3>5, <4>1 DEF EndsAtFirstStop
    <3> QED
      BY <2>8, <2>9, <3>1, <3>3, <3>6
  <2>11. \A a, b \in Indices : buckets'[a] # NULL /\ buckets'[b] # NULL
                                 /\ buckets'[a].key = buckets'[b].key => a = b
    <3> SUFFICES ASSUME NEW a \in Indices, NEW b \in Indices,
                        buckets'[a] # NULL, buckets'[b] # NULL,
                        buckets'[a].key = buckets'[b].key
                 PROVE  a = b
      OBVIOUS
    <3>1. PICK j \in Keys : j = buckets'[a].key
      BY <2>6
    <3>2. Holds(a, j)' /\ Holds(b, j)'
      BY <3>1 DEF Holds
    <3>3. Found(j)' = a /\ Found(j)' = b
      BY <2>10, <3>2
    <3> QED
      BY <3>3
  <2>12. hash_size' = Cardinality({b \in Indices : buckets'[b] # NULL})
    <3> DEFINE full == {b \in Indices : buckets[b] # NULL}
    <3>1. IsFiniteSet(full) /\ hash_size = Cardinality(full)
      <4>1. IsFiniteSet(Indices)
        BY FS_Interval, CapacityAssumption DEF Indices
      <4> QED
        BY <4>1, FS_Subset DEF HashTypeOK
    <3>2. {b \in Indices : buckets'[b] # NULL} = full \cup {f}
      BY <2>2, <2>7
    <3>3. CASE buckets[f] = NULL
      BY <2>4, <3>1, <3>2, <3>3, FS_AddElement DEF Grows
    <3>4. CASE buckets[f] # NULL
      <4>1. full \cup {f} = full
        BY <2>2, <3>4
      <4>2. hash_size \in Nat
        BY <3>1, FS_CardinalityType
      <4> QED
        BY <2>4, <3>1, <3>2, <3>4, <4>1, <4>2 DEF Grows
    <3> QED
      BY <3>3, <3>4
  <2>13. result' \in {-1, 0, 1}
    BY <2>4 DEF Grows
  <2> QED
    BY <2>1, <2>6, <2>10, <2>11, <2>12, <2>13 DEF HashTypeOK, EntriesFound
<1> QED
  BY <1>1, <1>2 DEF hashmap_put

(* The new map is empty.                                                    *)
LEMMA EmptyMap == hashmap_create => MapInv
<1> SUFFICES ASSUME hashmap_create PROVE MapInv
  OBVIOUS
<1>1. \A b \in Indices : buckets[b] = NULL
  BY DEF hashmap_create
<1>2. {b \in Indices : buckets[b] # NULL} = {} /\ Cardinality({}) = 0
  BY <1>1, FS_EmptySet
<1> QED
  BY <1>1, <1>2 DEF hashmap_create, MapInv, HashTypeOK, EntriesFound, Holds

(* The map's types, and that the entry of a key is the bucket at which its  *)
(* search ends.                                                             *)
THEOREM MapInvariant == HashSpec => []MapInv
<1>1. hashmap_create => MapInv
  BY EmptyMap
<1>2. MapInv /\ [HashNext]_hash_vars => MapInv'
  <2>1. MapInv /\ UNCHANGED hash_vars => MapInv'
    BY DEF hash_vars, MapInv, HashTypeOK, EntriesFound, Found, Stops, Holds, Probe
  <2> QED
    BY <2>1, PutKeepsEntries DEF HashNext
<1> QED
  BY <1>1, <1>2, PTL DEF HashSpec

(* hashmap_put and hashmap_get are those of a map, for every capacity and   *)
(* whatever the keys' hashes are: what is read for a key is what was put    *)
(* last for it, and hashmap_put returns what it did.                        *)
THEOREM MapImplemented == HashSpec => ImplementsMap
<1>1. hashmap_create => AbstractMap!Init
  <2> SUFFICES ASSUME hashmap_create PROVE AbstractMap!Init
    OBVIOUS
  <2>1. \A k \in Keys, b \in Indices : ~Holds(b, k)
    BY DEF hashmap_create, Holds
  <2> QED
    BY <2>1, EmptyMap, GetEntry DEF hashmap_create, AbstractMap!Init, GetReadsEntry
<1>2. ASSUME MapInv, MapInv', NEW k \in Keys, NEW v \in Values, hashmap_put(k, v)
      PROVE  AbstractMap!put(k, v)
  <2> DEFINE map == [j \in Keys |-> hashmap_get(j)]
  <2>1. /\ home \in [Keys -> Indices]
        /\ buckets \in [Indices -> {NULL} \cup [key : Keys, value : Values]]
    BY <1>2 DEF MapInv, HashTypeOK
  <2>2. GetReadsEntry /\ GetReadsEntry'
    <3>1. (MapInv => GetReadsEntry)'
      BY GetEntry, PTL
    <3> QED
      BY <1>2, <3>1, GetEntry
  <2>3. CASE result' = -1 /\ UNCHANGED <<buckets, hash_size>>
    <3>1. UNCHANGED map
      BY ZenonT(40), <1>2, <2>3 DEF hashmap_put, hashmap_get, Found, Stops, Holds, Probe
    <3> QED
      BY <2>3, <3>1 DEF AbstractMap!put
  <2>4. CASE /\ ~Refuses(k)
             /\ buckets' = [buckets EXCEPT ![Found(k)] = [key |-> k, value |-> v]]
             /\ result' = Grows(Found(k))
    <3>1. PICK f \in Indices : f = Found(k) /\ (buckets[f] # NULL => buckets[f].key = k)
      BY <2>1, <2>4, FoundBucket DEF Refuses
    <3>2. /\ Holds(f, k)' /\ buckets'[f].value = v
          /\ \A j \in Keys : j # k => ~Holds(f, j) /\ ~Holds(f, j)'
          /\ \A b \in Indices : b # f => buckets'[b] = buckets[b]
      BY <2>1, <2>4, <3>1, EntryAssumption DEF Holds
    <3>3. hashmap_get(k)' = v
      BY <1>2, <2>2, <3>2 DEF GetReadsEntry
    <3>4. ASSUME NEW j \in Keys, j # k
          PROVE  hashmap_get(j)' = hashmap_get(j)
      <4>1. \A b \in Indices : /\ Holds(b, j)' <=> Holds(b, j)
                               /\ Holds(b, j) => buckets'[b] = buckets[b]
        BY <3>2, <3>4 DEF Holds
      <4> QED
        BY <1>2, <2>2, <4>1 DEF GetReadsEntry
    <3>5. result' = IF hashmap_get(k) = NULL THEN 1 ELSE 0
      <4>1. CASE buckets[f] = NULL
        BY <2>4, <3>1, <4>1 DEF Grows, hashmap_get
      <4>2. CASE buckets[f] # NULL
        BY <2>1, <2>4, <3>1, <4>2, EntryAssumption DEF Grows, hashmap_get
      <4> QED
        BY <4>1, <4>2
    <3>6. map' = [map EXCEPT ![k] = v]
      BY <3>3, <3>4
    <3> QED
      BY <3>5, <3>6 DEF AbstractMap!put
  <2> QED
    BY <1>2, <2>3, <2>4 DEF hashmap_put
<1>3. MapInv /\ MapInv' /\ [HashNext]_hash_vars => [AbstractMap!Next]_(AbstractMap!vars)
  <2>1. UNCHANGED hash_vars => UNCHANGED AbstractMap!vars
    BY DEF hash_vars, AbstractMap!vars, hashmap_get, Found, Stops, Holds, Probe
  <2> QED
    BY <1>2, <2>1 DEF HashNext, AbstractMap!Next
<1> QED
  BY <1>1, <1>3, MapInvariant, PTL DEF HashSpec, ImplementsMap, AbstractMap!Spec

(* Steps of a search whose squares are below the capacity are different     *)
(* distances from the first bucket.                                         *)
LEMMA Squares ==
  ASSUME NEW s \in Nat, NEW t \in Nat, t < s
  PROVE  t * t < s * s
<1>1. t * t <= t * s
  OBVIOUS
<1>2. t * s < s * s
  OBVIOUS
<1> QED
  BY <1>1, <1>2

(* Different distances below the capacity are different buckets.            *)
LEMMA Distances ==
  ASSUME NEW c \in Nat \ {0}, NEW a \in 0 .. c - 1, NEW x \in 0 .. c - 1,
         NEW y \in 0 .. c - 1, x < y
  PROVE  (a + x) % c # (a + y) % c
<1>1. ASSUME NEW z \in 0 .. c - 1
      PROVE  (a + z) % c = IF a + z < c THEN a + z ELSE a + z - c
  <2>1. CASE a + z < c
    BY <2>1
  <2>2. CASE a + z >= c
    <3>1. (a + z) % c = (a + z - c) % c
      BY <2>2
    <3> QED
      BY <2>2, <3>1
  <2> QED
    BY <2>1, <2>2
<1> QED
  BY <1>1

(* Whatever collides with what, a map with fewer entries than the root of   *)
(* its capacity takes one more: the squares below the capacity are that     *)
(* many different steps of a search, and an entry fills one bucket only.    *)
LEMMA RoomUpToRoot ==
  ASSUME HashTypeOK, NEW k \in Keys, Found(k) = NULL
  PROVE  hash_size * hash_size >= capacity
<1> DEFINE full == {b \in Indices : buckets[b] # NULL}
           f == [s \in 0 .. hash_size |-> Probe(k, s)]
<1>1. IsFiniteSet(full) /\ hash_size = Cardinality(full) /\ hash_size \in Nat
  <2>1. IsFiniteSet(Indices)
    BY FS_Interval, CapacityAssumption DEF Indices
  <2> QED
    BY <2>1, FS_Subset, FS_CardinalityType DEF HashTypeOK
<1> SUFFICES ASSUME hash_size * hash_size < capacity PROVE FALSE
  BY <1>1, CapacityAssumption
<1>2. ASSUME NEW s \in 0 .. hash_size
      PROVE  s \in Nat /\ s * s \in 0 .. capacity - 1
  <2>1. s \in Nat /\ s * s \in Nat
    BY <1>1
  <2>2. s * s <= hash_size * hash_size
    <3>1. CASE s < hash_size
      BY <1>1, <2>1, <3>1, Squares
    <3>2. CASE s = hash_size
      BY <1>1, <3>2
    <3> QED
      BY <1>1, <3>1, <3>2
  <2> HIDE DEF full
  <2> QED
    BY <1>1, <2>1, <2>2, CapacityAssumption
<1>3. ASSUME NEW s \in 0 .. hash_size
      PROVE  s \in Steps
  <2>1. s \in Nat /\ s * s \in 0 .. capacity - 1
    BY <1>2
  <2>2. s \in 0 .. capacity
    <3>1. s <= s * s
      BY <2>1
    <3> QED
      BY <2>1, <3>1, CapacityAssumption
  <2>3. ASSUME NEW t \in 1 .. s
        PROVE  (t * t) % capacity # 0
    <3>1. t \in 0 .. hash_size /\ t \in Nat /\ t > 0
      BY <1>1, <2>1
    <3>2. t * t \in 0 .. capacity - 1
      BY <1>2, <3>1
    <3>3. 0 * 0 < t * t
      BY <3>1, Squares
    <3> QED
      BY <3>2, <3>3, CapacityAssumption
  <2> QED
    BY <2>2, <2>3 DEF Steps
<1>4. ASSUME NEW s \in 0 .. hash_size
      PROVE  Probe(k, s) \in full
  <2>1. ~Stops(k, s)
    BY <1>3, SearchEnds DEF HashTypeOK
  <2>2. Probe(k, s) \in Indices
    BY <1>2, ProbeInMap DEF HashTypeOK
  <2> QED
    BY <2>1, <2>2 DEF Stops
<1>5. ASSUME NEW s \in 0 .. hash_size, NEW t \in 0 .. hash_size, t < s
      PROVE  Probe(k, s) # Probe(k, t)
  <2>1. home[k] \in 0 .. capacity - 1
    BY DEF HashTypeOK, Indices
  <2>2. /\ s \in Nat /\ s * s \in 0 .. capacity - 1
        /\ t \in Nat /\ t * t \in 0 .. capacity - 1
    BY <1>2
  <2>3. t * t < s * s
    BY <1>5, <2>2, Squares
  <2> QED
    BY <2>1, <2>2, <2>3, CapacityAssumption, Distances DEF Probe
<1>6. f \in [0 .. hash_size -> full]
  BY <1>4
<1>7. IsFiniteSet(0 .. hash_size) /\ Cardinality(0 .. hash_size) = hash_size + 1
  BY <1>1, FS_Interval
<1>8. Cardinality(full) < Cardinality(0 .. hash_size)
  BY <1>1, <1>7
<1> HIDE DEF full
<1>9. PICK x, y \in 0 .. hash_size : x # y /\ f[x] = f[y]
  <2> HIDE DEF f
  <2> QED
    BY <1>1, <1>6, <1>7, <1>8, FS_PigeonHole
<1> QED
  <2>1. x \in Nat /\ y \in Nat /\ Probe(k, x) = Probe(k, y)
    BY <1>2, <1>9
  <2>2. x < y \/ y < x
    BY <1>9, <2>1
  <2> QED
    BY <1>5, <2>1, <2>2

(* hashmap_put returns -1 only for want of space, and then the map has at   *)
(* least as many entries as the root of its capacity: the first ten of the  *)
(* processes are always recorded in the generator's map of 100.             *)
THEOREM MapSpaceUpToRoot == HashSpec => []SpaceUpToRoot
<1>1. hashmap_create => SpaceUpToRoot
  BY DEF hashmap_create, SpaceUpToRoot
<1>2. MapInv /\ SpaceUpToRoot /\ [HashNext]_hash_vars => SpaceUpToRoot'
  <2>1. ASSUME MapInv, NEW k \in Keys, NEW v \in Values, hashmap_put(k, v)
        PROVE  SpaceUpToRoot'
    <3>1. hash_size \in Nat
      <4>1. IsFiniteSet(Indices)
        BY FS_Interval, CapacityAssumption DEF Indices
      <4> QED
        BY <2>1, <4>1, FS_Subset, FS_CardinalityType DEF MapInv, HashTypeOK
    <3>2. CASE hash_size >= capacity
      <4>1. hash_size >= 1 /\ hash_size * hash_size >= hash_size
        BY <3>1, <3>2, CapacityAssumption
      <4>2. hash_size' = hash_size \/ result' # -1
        BY <2>1 DEF hashmap_put, Grows
      <4> QED
        BY <3>1, <3>2, <4>1, <4>2, CapacityAssumption DEF SpaceUpToRoot
    <3>3. CASE Found(k) = NULL
      <4>1. hash_size * hash_size >= capacity
        BY <2>1, <3>3, RoomUpToRoot DEF MapInv
      <4>2. hash_size' = hash_size
        BY <2>1, <3>3 DEF hashmap_put, Refuses
      <4> QED
        BY <4>1, <4>2 DEF SpaceUpToRoot
    <3>4. CASE ~Refuses(k)
      BY <2>1, <3>4 DEF hashmap_put, Grows, SpaceUpToRoot
    <3> QED
      BY <3>2, <3>3, <3>4 DEF Refuses
  <2>2. SpaceUpToRoot /\ UNCHANGED hash_vars => SpaceUpToRoot'
    BY DEF SpaceUpToRoot, hash_vars
  <2> QED
    BY <2>1, <2>2 DEF HashNext
<1> QED
  BY <1>1, <1>2, MapInvariant, PTL DEF HashSpec
=============================================================================
