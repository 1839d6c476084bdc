-------------------------------- MODULE HashMap --------------------------------
(***************************************************************************)
(* DS/hash_map.c: open addressing with quadratic probing.  The hash of a    *)
(* key is any bucket.  The program puts and gets and never removes.         *)
(***************************************************************************)
EXTENDS Pointers, Integers, FiniteSets, FiniteSetsExt

CONSTANTS Keys, Values,
          capacity               (* 100 in the program                      *)

ASSUME CapacityAssumption == capacity \in Nat \ {0}

Indices == 0 .. capacity - 1

(* The program puts no NULL pointer, and a node and a bucket are none.      *)
ASSUME EntryAssumption ==
  NULL \notin Values /\ NULL \notin Indices /\ NULL \notin [key : Keys, value : Values]

VARIABLES
  home,      (* hashmap_int_hash(key) % capacity                            *)
  buckets,   (* an entry [key, value], or NULL                              *)
  hash_size,
  result     (* what the last hashmap_put returned                          *)

hash_vars == <<home, buckets, hash_size, result>>

hashmap_create ==
  /\ home \in [Keys -> Indices]
  /\ buckets = [b \in Indices |-> NULL]
  /\ hash_size = 0
  /\ result = 0

(* The bucket that is looked at in a step, where a search stops, and the    *)
(* steps until the first bucket comes again: 10 of them for 100 buckets.    *)
Probe_stays(k, step) == home[k]
Probe(k, step) == (home[k] + step * step) % capacity

Holds_any(b, k) == buckets[b] # NULL
Holds(b, k) == buckets[b] # NULL /\ buckets[b].key = k

Stops(k, step) == buckets[Probe(k, step)] = NULL \/ Holds(Probe(k, step), k)

Steps == {step \in 0 .. capacity : \A s \in 1 .. step : (s * s) % capacity # 0}

(* The bucket at which the search for a key ends, or NULL after a full      *)
(* circle.                                                                  *)
Found(k) ==
  LET stops == {step \in Steps : Stops(k, step)}
  IN  IF stops = {} THEN NULL ELSE Probe(k, Min(stops))
-----------------------------------------------------------------------------
hashmap_get(k) ==
  LET b == Found(k) IN IF b # NULL /\ buckets[b] # NULL THEN buckets[b].value ELSE NULL

Refuses(k) == hash_size >= capacity \/ Found(k) = NULL

Grows_always(b) == 1
Grows(b) == IF buckets[b] = NULL THEN 1 ELSE 0

hashmap_put(k, v) ==
  /\ \/ /\ Refuses(k)
        /\ result' = -1
        /\ UNCHANGED <<buckets, hash_size>>
     \/ /\ ~Refuses(k)
        /\ buckets' = [buckets EXCEPT ![Found(k)] = [key |-> k, value |-> v]]
        /\ hash_size' = hash_size + Grows(Found(k))
        /\ result' = Grows(Found(k))
  /\ UNCHANGED home

HashNext == \E k \in Keys, v \in Values : hashmap_put(k, v)

HashSpec == hashmap_create /\ [][HashNext]_hash_vars
-----------------------------------------------------------------------------
(* The map's types; hash_size counts the entries; no key has two of them.   *)
HashTypeOK ==
  /\ home \in [Keys -> Indices]
  /\ buckets \in [Indices -> {NULL} \cup [key : Keys, value : Values]]
  /\ hash_size = Cardinality({b \in Indices : buckets[b] # NULL})
  /\ result \in {-1, 0, 1}
  /\ \A a, b \in Indices : buckets[a] # NULL /\ buckets[b] # NULL
                              /\ buckets[a].key = buckets[b].key => a = b

(* Whatever collides with what, hashmap_get returns what was put last, and  *)
(* hashmap_put tells a new entry from a replaced one.                       *)
AbstractMap == INSTANCE MapSpec WITH map <- [k \in Keys |-> hashmap_get(k)]
ImplementsMap == AbstractMap!Spec

(* An insertion is refused only if there is no space for the key: there is  *)
(* space in a map with fewer entries than the root of its capacity,         *)
(* whatever the hashes are.                                                 *)
SpaceUpToRoot == result = -1 => hash_size * hash_size >= capacity

(* The search for the key of an entry ends at that entry: the buckets that  *)
(* it passes stay full.                                                     *)
EntriesFound == \A b \in Indices, k \in Keys : Holds(b, k) => Found(k) = b

(* The inductive invariant of module HashMapProofs.                         *)
MapInv == HashTypeOK /\ EntriesFound
=============================================================================
