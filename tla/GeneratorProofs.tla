---------------------------- MODULE GeneratorProofs ----------------------------
(***************************************************************************)
(* The process generator, for every input and size of the memory: no        *)
(* process is dropped or forked twice, whenever its signals arrive; and if  *)
(* they arrive while it sleeps, each process has a block of its own, waiting*)
(* processes are not overtaken and all memory is returned.                  *)
(***************************************************************************)
EXTENDS Generator, BuddyMemoryProofs

(* The list of processes, which are told from NULL.                         *)
LEMMA ListFacts ==
  /\ Len(process_list) \in Nat /\ DOMAIN process_list = 1 .. Len(process_list)
  /\ \A k \in 1 .. Len(process_list) : process_list[k] \in Processes
  /\ \A p \in Processes : \E k \in 1 .. Len(process_list) : p = process_list[k]
  /\ \A k, l \in 1 .. Len(process_list) : process_list[k] = process_list[l] => k = l
  /\ \A p \in Processes : MemorySize[p] \in Nat \ {0} /\ p # NULL
  /\ NULL \notin Nat
<1>1. Len(process_list) \in Nat /\ DOMAIN process_list = 1 .. Len(process_list)
  BY ListAssumption, LenProperties
<1> QED
  BY <1>1, ListAssumption, MemoryAssumption, NullAssumption DEF Processes, IsInjective

(* The block that the search returns for a process that fits.               *)
LEMMA SmallestBlock ==
  ASSUME MemoryOK(memory), NEW p \in Processes, Fits(p)
  PROVE  /\ Smallest(p) \in Nat /\ HasBlock(memory, Smallest(p))
         /\ memory[At(Smallest(p))].allocated = 0
         /\ MemorySize[p] <= memory[At(Smallest(p))].size
<1> DEFINE j == get_smallest_block_available(memory, MemorySize[p])
<1>1. MemorySize[p] \in Nat
  BY ListFacts
<1>2. j \in Fitting(memory, MemorySize[p])
  BY <1>1, SmallestFits DEF Fits
<1>3. Smallest(p) = memory[j].start
  BY DEF Smallest
<1> HIDE DEF j
<1>4. /\ j \in DOMAIN memory /\ memory[j].allocated = 0 /\ memory[j].size >= MemorySize[p]
      /\ memory[j].start \in Nat /\ memory[j].size \in Nat
  BY <1>2, BlockTypes DEF Fitting
<1>5. At(Smallest(p)) = j
  BY <1>3, <1>4, BlockByStart DEF At
<1> QED
  BY <1>1, <1>3, <1>4, <1>5 DEF HasBlock

(* A block that there is.                                                   *)
LEMMA BlockThere ==
  ASSUME MemoryOK(memory), NEW x, HasBlock(memory, x)
  PROVE  /\ At(x) \in DOMAIN memory /\ memory[At(x)].start = x
         /\ memory[At(x)].size \in Nat \ {0} /\ memory[At(x)].size \in BlockSizes
         /\ memory[At(x)] \in Blocks /\ memory[At(x)].allocated \in Nat
BY BlockByStart, BlockTypes DEF At

(* What remove_node leaves of the waiting list.                             *)
LEMMA WithoutItems ==
  ASSUME waiting_list \in Seq(Processes), IsInjective(waiting_list),
         NEW k \in DOMAIN waiting_list
  PROVE  /\ Without(k) \in Seq(Processes) /\ IsInjective(Without(k))
         /\ \A p : (\E j \in DOMAIN Without(k) : Without(k)[j] = p)
                     <=> InWaitingList(p) /\ p # waiting_list[k]
<1> DEFINE w == waiting_list
           n == Len(w)
           r == Without(k)
<1>1. n \in Nat /\ DOMAIN w = 1 .. n /\ k \in 1 .. n
  BY LenProperties
<1>2. /\ r \in Seq(Processes) /\ Len(r) = n - 1
      /\ \A j \in 1 .. n - 1 : r[j] = IF j < k THEN w[j] ELSE w[j + 1]
  BY <1>1, RemoveAtItems DEF Without
<1>3. DOMAIN r = 1 .. n - 1
  BY <1>2, LenProperties
<1>4. \A j, l \in 1 .. n : w[j] = w[l] => j = l
  BY <1>1 DEF IsInjective
<1> HIDE DEF r
<1>5. IsInjective(r)
  <2> SUFFICES ASSUME NEW j \in 1 .. n - 1, NEW l \in 1 .. n - 1, r[j] = r[l]
               PROVE  j = l
    BY <1>3 DEF IsInjective
  <2>1. /\ j \in 1 .. n /\ j + 1 \in 1 .. n /\ l \in 1 .. n /\ l + 1 \in 1 .. n
    BY <1>1
  <2>2. (IF j < k THEN w[j] ELSE w[j + 1]) = IF l < k THEN w[l] ELSE w[l + 1]
    BY <1>2
  <2>3. (IF j < k THEN j ELSE j + 1) = IF l < k THEN l ELSE l + 1
    BY <1>4, <2>1, <2>2
  <2> QED
    BY <1>1, <2>1, <2>3
<1>6. ASSUME NEW p
      PROVE  (\E j \in DOMAIN r : r[j] = p) <=> InWaitingList(p) /\ p # w[k]
  <2>1. ASSUME NEW j \in 1 .. n - 1
        PROVE  \E l \in 1 .. n : r[j] = w[l] /\ l # k
    <3>1. j \in 1 .. n /\ j + 1 \in 1 .. n
      BY <1>1
    <3> QED
      BY <1>1, <1>2, <3>1
  <2>2. ASSUME NEW l \in 1 .. n, l # k
        PROVE  \E j \in 1 .. n - 1 : r[j] = w[l]
    <3>1. CASE l < k
      <4>1. l \in 1 .. n - 1
        BY <1>1, <3>1
      <4> QED
        BY <1>2, <3>1, <4>1
    <3>2. CASE l > k
      <4>1. l - 1 \in 1 .. n - 1 /\ ~(l - 1 < k) /\ (l - 1) + 1 = l
        BY <1>1, <3>2
      <4> QED
        BY <1>2, <4>1
    <3> QED
      BY <1>1, <2>2, <3>1, <3>2
  <2>3. ASSUME NEW j \in 1 .. n - 1, r[j] = p
        PROVE  InWaitingList(p) /\ p # w[k]
    <3>1. PICK l \in 1 .. n : r[j] = w[l] /\ l # k
      BY <2>1
    <3> QED
      BY <1>1, <1>4, <2>3, <3>1 DEF InWaitingList
  <2>4. ASSUME InWaitingList(p), p # w[k]
        PROVE  \E j \in 1 .. n - 1 : r[j] = p
    <3>1. PICK l \in 1 .. n : w[l] = p
      BY <1>1, <2>4 DEF InWaitingList
    <3>2. l # k
      BY <2>4, <3>1
    <3> QED
      BY <2>2, <3>1, <3>2
  <2> QED
    BY <1>3, <2>3, <2>4
<1> QED
  BY <1>2, <1>5, <1>6 DEF r

(* What add_node_to_back makes of it.                                       *)
LEMMA BehindItems ==
  ASSUME waiting_list \in Seq(Processes), IsInjective(waiting_list),
         NEW p \in Processes, ~InWaitingList(p)
  PROVE  /\ Behind(p) \in Seq(Processes) /\ IsInjective(Behind(p))
         /\ \A q : (\E j \in DOMAIN Behind(p) : Behind(p)[j] = q)
                     <=> InWaitingList(q) \/ q = p
<1> DEFINE w == waiting_list
           n == Len(w)
           r == Behind(p)
<1>1. n \in Nat /\ DOMAIN w = 1 .. n
  BY LenProperties
<1>2. /\ r \in Seq(Processes) /\ Len(r) = n + 1
      /\ \A j \in 1 .. n : r[j] = w[j]
      /\ r[n + 1] = p
  BY <1>1, AppendProperties DEF Behind
<1>3. DOMAIN r = 1 .. n + 1
  BY <1>2, LenProperties
<1>4. \A j, l \in 1 .. n : w[j] = w[l] => j = l
  BY <1>1 DEF IsInjective
<1>5. \A j \in 1 .. n : w[j] # p
  BY <1>1 DEF InWaitingList
<1> HIDE DEF r
<1>6. \A j \in 1 .. n + 1 : j \in 1 .. n \/ j = n + 1
  BY <1>1
<1>7. IsInjective(r)
  BY <1>2, <1>3, <1>4, <1>5, <1>6 DEF IsInjective
<1>8. \A j \in 1 .. n : j \in 1 .. n + 1
  BY <1>1
<1>9. n + 1 \in 1 .. n + 1
  BY <1>1
<1>10. ASSUME NEW q
       PROVE  (\E j \in DOMAIN r : r[j] = q) <=> InWaitingList(q) \/ q = p
  BY <1>1, <1>2, <1>3, <1>6, <1>8, <1>9 DEF InWaitingList
<1> QED
  BY <1>2, <1>7, <1>10 DEF r

(* EachOnce, with its exclusive alternatives as an equivalence.             *)
OnceAt(p, k) ==
  /\ k > i \/ (k = i /\ proc # p) => child[p] = "none" /\ ~InWaitingList(p)
  /\ ~(k > i \/ (k = i /\ proc # p)) =>
       /\ child[p] = "none" => (InWaitingList(p) <=> proc # p)
       /\ child[p] # "none" => ~InWaitingList(p) /\ proc # p
OnceInv == \A k \in 1 .. Len(process_list) : OnceAt(process_list[k], k)

(* OnceInv says of each place of the list what EachOnce says: a process is  *)
(* forked, waiting or still to come, and only one of these.                 *)
LEMMA OnceForm == EachOnce <=> OnceInv
<1> DEFINE G(k, p) ==
      IF k > i \/ (k = i /\ proc # p) THEN child[p] = "none" /\ ~InWaitingList(p)
      ELSE \/ child[p] = "none" /\ (InWaitingList(p) # (proc = p))
           \/ child[p] # "none" /\ ~InWaitingList(p) /\ proc # p
<1>1. EachOnce <=> \A k \in 1 .. Len(process_list) : G(k, process_list[k])
  BY ListFacts DEF EachOnce
<1>2. ASSUME NEW k, NEW p
      PROVE  G(k, p) <=> OnceAt(p, k)
  <2>1. InWaitingList(p) \in BOOLEAN
    BY DEF InWaitingList
  <2> QED
    BY <2>1 DEF OnceAt
<1> QED
  BY <1>1, <1>2 DEF OnceInv

-----------------------------------------------------------------------------
(* Initially nothing has arrived.                                           *)
LEMMA GenInit == Init => GenInv
<1> SUFFICES ASSUME Init PROVE GenInv
  OBVIOUS
<1>1. /\ i = 1 /\ waiting_list = <<>> /\ proc = NULL /\ waited = FALSE /\ pc = "test"
      /\ merging = NULL /\ block = NULL /\ fit_memory_block = NULL
      /\ memory = init_memory /\ child = [p \in Processes |-> "none"]
  BY DEF Init
<1>2. MemoryOK(memory)
  BY <1>1, InitList
<1>3. TypeOK
  <2>1. i \in 1 .. Len(process_list) + 1
    BY <1>1, ListFacts
  <2>2. memory \in Seq(Blocks) /\ waiting_list \in Seq(Processes)
    BY <1>1, <1>2 DEF MemoryOK
  <2>3. /\ memory_map \in [Processes -> Nat \cup {NULL}]
        /\ child \in [Processes -> {"none", "alive", "zombie", "reaped"}]
        /\ clock \in Nat /\ end_sent \in BOOLEAN
    BY <1>1 DEF Init
  <2> QED
    BY <1>1, <2>1, <2>2, <2>3 DEF TypeOK
<1>4. LoopInv /\ BlockInv
  BY <1>1 DEF LoopInv, BlockInv, IsInjective
<1>5. EachOnce
  <2> SUFFICES ASSUME NEW k \in 1 .. Len(process_list)
               PROVE  /\ k > i \/ (k = i /\ proc # process_list[k])
                      /\ child[process_list[k]] = "none" /\ ~InWaitingList(process_list[k])
    BY ListFacts DEF EachOnce
  <2>1. process_list[k] \in Processes /\ process_list[k] # NULL
    BY ListFacts
  <2> QED
    BY <1>1, <2>1 DEF InWaitingList
<1> QED
  BY <1>2, <1>3, <1>4, <1>5 DEF GenInv

(* The loop's tests and its sleep only say what comes next.                 *)
LEMMA GenTest ==
  ASSUME GenInv, TestLoop \/ Sleep \/ SendNoMore
  PROVE  GenInv'
<1>1. /\ UNCHANGED <<clock, i, waiting_list, memVars, child, proc, waited, fit_memory_block,
                     block, merging>>
      /\ pc' \in {"oldest", "end", "test", "done"} /\ merging = NULL
      /\ pc \in {"test", "sleep", "end"} /\ end_sent' \in BOOLEAN
  BY DEF TestLoop, Sleep, SendNoMore, Go, GenInv, TypeOK
<1>2. TypeOK'
  BY <1>1 DEF GenInv, TypeOK, memVars
<1>3. LoopInv' /\ BlockInv' /\ EachOnce' /\ MemoryOK(memory')
  BY <1>1 DEF GenInv, LoopInv, BlockInv, EachOnce, InWaitingList, memVars
<1> QED
  BY <1>2, <1>3 DEF GenInv

(* The process that leaves the waiting list had been listed before i, and   *)
(* has not been forked.                                                     *)
LEMMA GenOldest ==
  ASSUME GenInv, get_oldest_fit
  PROVE  GenInv'
<1>1. /\ pc = "oldest" /\ merging = NULL /\ merging' = NULL
      /\ UNCHANGED <<clock, i, memVars, child, end_sent, fit_memory_block, block>>
  BY DEF get_oldest_fit, Go
<1>2. /\ TypeOK /\ MemoryOK(memory) /\ LoopInv /\ EachOnce
      /\ waiting_list \in Seq(Processes) /\ IsInjective(waiting_list)
      /\ proc = NULL /\ ~waited
  BY <1>1 DEF GenInv, TypeOK, LoopInv
<1>3. CASE Oldest = {} /\ pc' = "arrival" /\ UNCHANGED <<waiting_list, proc, waited>>
  <2>1. TypeOK'
    BY <1>1, <1>2, <1>3 DEF TypeOK, memVars
  <2>2. LoopInv' /\ BlockInv' /\ EachOnce' /\ MemoryOK(memory')
    BY <1>1, <1>2, <1>3 DEF LoopInv, BlockInv, EachOnce, InWaitingList, memVars
  <2> QED
    BY <2>1, <2>2 DEF GenInv
<1>4. ASSUME NEW k \in Oldest, pc' = "smallest", proc' = waiting_list[k], waited' = TRUE,
             waiting_list' = Without(k)
      PROVE  GenInv'
  <2>1. k \in DOMAIN waiting_list /\ Fits(waiting_list[k])
    BY DEF Oldest
  <2>2. /\ waiting_list' \in Seq(Processes) /\ IsInjective(waiting_list')
        /\ \A p : InWaitingList(p)' <=> InWaitingList(p) /\ p # waiting_list[k]
    BY <1>2, <1>4, <2>1, WithoutItems DEF InWaitingList
  <2>3. waiting_list[k] \in Processes /\ InWaitingList(waiting_list[k])
    BY <1>2, <2>1, ElementOfSeq, LenProperties DEF InWaitingList
  <2>4. PICK m \in 1 .. Len(process_list) : waiting_list[k] = process_list[m]
    BY <2>3, ListFacts
  <2>5. proc # process_list[m]
    BY <1>2, <2>3, <2>4, ListFacts
  <2>6. m \in DOMAIN process_list /\ InWaitingList(process_list[m])
    BY <2>3, <2>4, ListFacts
  <2>7. ~(m > i \/ (m = i /\ proc # process_list[m])) /\ child[process_list[m]] = "none"
    BY <1>2, <2>5, <2>6 DEF EachOnce
  <2>8. i \in Nat /\ m \in 1 .. i - 1
    BY <1>2, <2>5, <2>7 DEF TypeOK
  <2>9. TypeOK'
    BY <1>1, <1>2, <1>4, <2>2, <2>3 DEF TypeOK, memVars
  <2>10. LoopInv'
    <3>1. Fits(proc)'
      BY <1>1, <1>4, <2>1 DEF Fits, memVars
    <3>2. proc' # NULL
      BY <1>4, <2>3, ListFacts
    <3> QED
      BY <1>1, <1>4, <2>2, <2>4, <2>8, <3>1, <3>2 DEF LoopInv
  <2>11. EachOnce'
    <3> SUFFICES ASSUME NEW l \in 1 .. Len(process_list)
                 PROVE  OnceAt(process_list[l], l)'
      <4>1. (EachOnce <=> OnceInv)'
        BY OnceForm, PTL
      <4> QED
        BY <4>1 DEF OnceInv
    <3> DEFINE p == process_list[l]
    <3>1. OnceAt(p, l) /\ p # NULL
      BY <1>2, OnceForm, ListFacts DEF OnceInv
    <3>2. CASE l = m
      BY <1>1, <1>4, <2>2, <2>4, <2>7, <2>8, <3>2 DEF OnceAt
    <3>3. CASE l # m
      <4>1. proc' # p /\ proc # p
        BY <1>2, <1>4, <2>4, <3>1, <3>3, ListFacts
      <4>2. InWaitingList(p)' <=> InWaitingList(p)
        BY <1>4, <2>2, <4>1
      <4> HIDE DEF p
      <4> QED
        BY <1>1, <3>1, <4>1, <4>2 DEF OnceAt, p
    <3> QED
      BY <3>2, <3>3
  <2>12. BlockInv' /\ MemoryOK(memory')
    BY <1>1, <1>2, <1>4 DEF BlockInv, memVars
  <2> QED
    BY <2>9, <2>10, <2>11, <2>12 DEF GenInv
<1> QED
  BY <1>3, <1>4 DEF get_oldest_fit, Go

(* The process still fits, whatever the handler has done in between.        *)
LEMMA GenSmallest ==
  ASSUME GenInv, get_smallest_block
  PROVE  GenInv'
<1>1. pc = "smallest" /\ Fits(proc) /\ waited /\ proc # NULL /\ proc \in Processes
  BY DEF get_smallest_block, GenInv, LoopInv, TypeOK
<1>2. /\ pc' = "find" /\ fit_memory_block' = Smallest(proc) /\ merging = NULL
      /\ UNCHANGED <<clock, i, waiting_list, memVars, child, end_sent, proc, waited, block,
                     merging>>
  BY <1>1 DEF get_smallest_block, Go
<1>3. Smallest(proc) \in Nat
  BY <1>1, SmallestBlock DEF GenInv
<1>4. TypeOK'
  BY <1>2, <1>3 DEF GenInv, TypeOK, memVars
<1>5. LoopInv' /\ BlockInv' /\ EachOnce' /\ MemoryOK(memory')
  BY <1>1, <1>2 DEF GenInv, LoopInv, BlockInv, EachOnce, InWaitingList, memVars
<1> QED
  BY <1>4, <1>5 DEF GenInv

(* The newcomer is the process at i, which was not listed before.           *)
LEMMA GenArrival ==
  ASSUME GenInv, TestArrival
  PROVE  GenInv'
<1>1. /\ pc = "arrival" /\ merging = NULL
      /\ UNCHANGED <<clock, i, waiting_list, memVars, child, end_sent, waited,
                     fit_memory_block, block, merging>>
  BY DEF TestArrival, Go
<1>2. /\ TypeOK /\ MemoryOK(memory) /\ LoopInv /\ EachOnce /\ proc = NULL /\ ~waited
  BY <1>1 DEF GenInv, LoopInv
<1>3. BlockInv' /\ MemoryOK(memory')
  BY <1>1, <1>2 DEF TestArrival, Go, BlockInv, memVars
<1>4. CASE pc' = "sleep" /\ UNCHANGED proc
  <2>1. TypeOK'
    BY <1>1, <1>2, <1>4 DEF TypeOK, memVars
  <2>2. LoopInv' /\ EachOnce'
    BY <1>1, <1>2, <1>4 DEF LoopInv, EachOnce, InWaitingList, memVars
  <2> QED
    BY <1>3, <2>1, <2>2 DEF GenInv
<1>5. CASE i <= Len(process_list) /\ pc' = "find" /\ proc' = process_list[i]
  <2>1. i \in 1 .. Len(process_list) /\ i \in Nat
    BY <1>2, <1>5 DEF TypeOK
  <2>2. proc' \in Processes /\ proc' # NULL
    BY <1>5, <2>1, ListFacts
  <2>3. TypeOK'
    BY <1>1, <1>2, <1>5, <2>2 DEF TypeOK, memVars
  <2>4. LoopInv'
    BY <1>1, <1>2, <1>5, <2>2 DEF LoopInv, memVars
  <2>5. EachOnce'
    <3> SUFFICES ASSUME NEW l \in 1 .. Len(process_list)
                 PROVE  OnceAt(process_list[l], l)'
      <4>1. (EachOnce <=> OnceInv)'
        BY OnceForm, PTL
      <4> QED
        BY <4>1 DEF OnceInv
    <3> DEFINE p == process_list[l]
    <3>1. OnceAt(p, l) /\ p # NULL
      BY <1>2, OnceForm, ListFacts DEF OnceInv
    <3>2. InWaitingList(p)' <=> InWaitingList(p)
      BY <1>1 DEF InWaitingList
    <3>3. proc # p /\ (proc' = p <=> l = i)
      BY <1>2, <1>5, <2>1, <3>1, ListFacts
    <3> HIDE DEF p
    <3> QED
      BY <1>1, <2>1, <3>1, <3>2, <3>3 DEF OnceAt, p
  <2> QED
    BY <1>3, <2>3, <2>4, <2>5 DEF GenInv
<1> QED
  BY <1>4, <1>5 DEF TestArrival, Go

(* The block that was found is free and large enough.                       *)
LEMMA GenFind ==
  ASSUME GenInv, FindBlock
  PROVE  GenInv'
<1>1. /\ pc = "find" /\ merging = NULL /\ pc' \in {"split", "fork"}
      /\ UNCHANGED <<clock, i, waiting_list, memVars, child, end_sent, proc, waited,
                     fit_memory_block, merging>>
  BY DEF FindBlock, Go
<1>2. /\ TypeOK /\ MemoryOK(memory) /\ LoopInv /\ EachOnce /\ proc # NULL
      /\ proc \in Processes
  BY <1>1 DEF GenInv, LoopInv, TypeOK
<1>3. CASE Fits(proc) /\ block' = Smallest(proc)
  <2>1. /\ Smallest(proc) \in Nat /\ memory[At(Smallest(proc))].allocated = 0
        /\ MemorySize[proc] <= memory[At(Smallest(proc))].size
        /\ Smallest(proc) # NULL
    BY <1>2, <1>3, SmallestBlock, ListFacts
  <2>2. TypeOK'
    BY <1>1, <1>2, <1>3, <2>1 DEF TypeOK, memVars
  <2>3. BlockInv'
    BY <1>1, <1>3, <2>1 DEF BlockInv, At, memVars
  <2>4. LoopInv' /\ EachOnce' /\ MemoryOK(memory')
    BY <1>1, <1>2 DEF LoopInv, EachOnce, InWaitingList, memVars
  <2> QED
    BY <2>2, <2>3, <2>4 DEF GenInv
<1>4. CASE pc' = "fork" /\ block' = NULL
  <2>1. TypeOK'
    BY <1>1, <1>2, <1>4 DEF TypeOK, memVars
  <2>2. LoopInv' /\ BlockInv' /\ EachOnce' /\ MemoryOK(memory')
    BY <1>1, <1>2, <1>4 DEF LoopInv, BlockInv, EachOnce, InWaitingList, memVars
  <2> QED
    BY <2>1, <2>2 DEF GenInv
<1> QED
  BY <1>3, <1>4 DEF FindBlock, Go

(* A block that is too large has a half that is large enough.               *)
LEMMA HalfIsEnough ==
  ASSUME NEW b, b.size \in BlockSizes, NEW r \in Nat \ {0}, r <= b.size, TooLarge(b, r)
  PROVE  2 * r <= b.size /\ b.size >= 2
<1>1. PICK k \in Nat : b.size = 2 ^ k
  BY MaxSizeOrder DEF BlockSizes
<1>2. 2 * r <= b.size
  BY <1>1, TooLargeMeansHalf
<1>3. b.size \in Nat
  BY SizeFacts
<1> QED
  BY <1>2, <1>3

(* The block is split, marked, or gone.                                     *)
LEMMA GenSplit ==
  ASSUME GenInv, SplitBlock
  PROVE  GenInv'
<1>1. /\ pc = "split" /\ merging = NULL /\ merging' = NULL
      /\ pc' \in {"undefined", "split", "fork"}
      /\ UNCHANGED <<clock, i, waiting_list, memory_map, child, end_sent, proc, waited,
                     fit_memory_block, block>>
  BY DEF SplitBlock, Go
<1>2. /\ TypeOK /\ MemoryOK(memory) /\ LoopInv /\ EachOnce /\ proc # NULL /\ block # NULL
      /\ proc \in Processes /\ BlockInv
  BY <1>1 DEF GenInv, LoopInv, BlockInv, TypeOK
<1>3. LoopInv' /\ EachOnce'
  BY <1>1, <1>2 DEF LoopInv, EachOnce, InWaitingList
<1>4. MemorySize[proc] \in Nat \ {0}
  BY <1>2, ListFacts
<1>5. MemoryOK(memory') /\ BlockInv'
  <2>1. CASE pc' = "undefined" /\ UNCHANGED memory
    BY <1>1, <1>2, <2>1 DEF BlockInv
  <2>2. CASE /\ HasBlock(memory, block) /\ TooLarge(memory[At(block)], MemorySize[proc])
             /\ pc' = "split" /\ memory' = split_block(memory, At(block))
    <3> DEFINE j == At(block)
               r == MemorySize[proc]
    <3>1. /\ j \in DOMAIN memory /\ memory[j].start = block /\ memory[j].size \in BlockSizes
          /\ memory[j].allocated = 0 /\ r <= memory[j].size /\ memory[j].size \in Nat
      BY <1>1, <1>2, <2>2, BlockThere DEF BlockInv
    <3>2. 2 * r <= memory[j].size /\ memory[j].size >= 2
      BY <1>4, <2>2, <3>1, HalfIsEnough
    <3> HIDE DEF j, r
    <3>3. memory' = split_block(memory, j)
      BY <2>2 DEF j
    <3>4. /\ MemoryOK(memory') /\ j \in DOMAIN memory'
          /\ memory'[j].start = memory[j].start /\ memory'[j].allocated = 0
          /\ memory'[j].size \in Nat /\ 2 * memory'[j].size = memory[j].size
          /\ AllocatedBlocks(memory') = AllocatedBlocks(memory)
          /\ \A l : FreeBuddies(memory', l) =>
               j \in {l, l + 1} \/ \E m : FreeBuddies(memory, m) /\ j \notin {m, m + 1}
      BY <1>2, <3>1, <3>2, <3>3, SplitEffect
    <3>5. At(block)' = j
      BY <1>1, <3>1, <3>4, BlockByStart DEF At
    <3>6. r <= memory'[j].size
      BY <1>4, <3>2, <3>4 DEF r
    <3> QED
      BY <1>1, <1>2, <3>4, <3>5, <3>6 DEF BlockInv, r
  <2>3. CASE /\ HasBlock(memory, block) /\ pc' = "fork"
             /\ memory' = [memory EXCEPT ![At(block)].allocated = MemorySize[proc]]
    <3> DEFINE j == At(block)
               r == MemorySize[proc]
    <3>1. j \in DOMAIN memory /\ r \in Nat
      BY <1>2, <1>4, <2>3, BlockThere
    <3>2. memory' = Marked(memory, j, r)
      BY <2>3 DEF Marked
    <3> HIDE DEF j, r
    <3>3. MemoryOK(memory')
      BY <1>2, <3>1, <3>2, MarkBlock
    <3> QED
      BY <1>1, <2>3, <3>3 DEF BlockInv
  <2> QED
    BY <2>1, <2>2, <2>3 DEF SplitBlock, Go
<1>6. TypeOK'
  BY <1>1, <1>2, <1>5 DEF TypeOK, MemoryOK
<1> QED
  BY <1>3, <1>5, <1>6 DEF GenInv

(* The process at hand is listed before i, or at i if it has just arrived;  *)
(* it is not in the waiting list and not forked.                            *)
LEMMA ProcAtHand ==
  ASSUME GenInv, proc # NULL
  PROVE  /\ proc \in Processes /\ i \in Nat
         /\ child[proc] = "none" /\ ~InWaitingList(proc)
         /\ \E m \in 1 .. Len(process_list) :
              proc = process_list[m] /\ IF waited THEN m < i ELSE m = i
<1>1. /\ TypeOK /\ LoopInv /\ EachOnce /\ i \in Nat /\ i \in 1 .. Len(process_list) + 1
      /\ proc \in Processes
  BY DEF GenInv, TypeOK
<1>2. PICK m \in 1 .. Len(process_list) :
         proc = process_list[m] /\ IF waited THEN m < i ELSE m = i
  <2>1. CASE waited
    <3>1. PICK k \in 1 .. i - 1 : proc = process_list[k]
      BY <1>1, <2>1 DEF LoopInv
    <3>2. k \in 1 .. Len(process_list) /\ k < i
      BY <1>1, ListFacts
    <3> QED
      BY <2>1, <3>1, <3>2
  <2>2. CASE ~waited
    <3>1. i \in 1 .. Len(process_list) /\ proc = process_list[i]
      BY <1>1, <2>2 DEF LoopInv
    <3> QED
      BY <2>2, <3>1
  <2> QED
    BY <2>1, <2>2
<1>3. OnceAt(process_list[m], m)
  BY <1>1, OnceForm DEF OnceInv
<1>4. ~(m > i \/ (m = i /\ proc # process_list[m]))
  BY <1>1, <1>2
<1> QED
  BY <1>1, <1>2, <1>3, <1>4 DEF OnceAt

(* A newcomer without a block goes to the waiting list.                     *)
LEMMA GenWait ==
  ASSUME GenInv, AddToWaitingList
  PROVE  GenInv'
<1>1. /\ pc = "fork" /\ ~waited /\ merging = NULL /\ pc' = "test"
      /\ waiting_list' = Behind(proc) /\ i' = i + 1 /\ proc' = NULL
      /\ UNCHANGED <<clock, memVars, child, end_sent, waited, fit_memory_block, block, merging>>
  BY DEF AddToWaitingList, Go
<1>2. /\ TypeOK /\ MemoryOK(memory) /\ LoopInv /\ EachOnce /\ proc # NULL
      /\ waiting_list \in Seq(Processes) /\ IsInjective(waiting_list)
  BY <1>1 DEF GenInv, LoopInv, TypeOK
<1>3. /\ proc \in Processes /\ i \in Nat
      /\ child[proc] = "none" /\ ~InWaitingList(proc)
  BY <1>2, ProcAtHand
<1>4. i \in 1 .. Len(process_list) /\ proc = process_list[i]
  BY <1>1, <1>2 DEF LoopInv, TypeOK
<1>5. /\ waiting_list' \in Seq(Processes) /\ IsInjective(waiting_list')
      /\ \A q : InWaitingList(q)' <=> InWaitingList(q) \/ q = proc
  BY <1>1, <1>2, <1>3, BehindItems DEF InWaitingList
<1>6. TypeOK'
  <2>1. i' \in 1 .. Len(process_list) + 1
    BY <1>1, <1>4, ListFacts
  <2> QED
    BY <1>1, <1>2, <1>5, <2>1 DEF TypeOK, memVars
<1>7. LoopInv' /\ BlockInv' /\ MemoryOK(memory')
  BY <1>1, <1>2, <1>5 DEF LoopInv, BlockInv, memVars
<1>8. EachOnce'
  <2> SUFFICES ASSUME NEW l \in 1 .. Len(process_list)
               PROVE  OnceAt(process_list[l], l)'
    <3>1. (EachOnce <=> OnceInv)'
      BY OnceForm, PTL
    <3> QED
      BY <3>1 DEF OnceInv
  <2> DEFINE p == process_list[l]
  <2>1. OnceAt(p, l) /\ p # NULL
    BY <1>2, OnceForm, ListFacts DEF OnceInv
  <2>2. proc = p <=> l = i
    BY <1>4, ListFacts
  <2>3. InWaitingList(p)' <=> InWaitingList(p) \/ p = proc
    BY <1>5
  <2> HIDE DEF p
  <2>4. CASE l = i
    BY <1>1, <1>3, <2>1, <2>2, <2>3, <2>4 DEF OnceAt, p
  <2>5. CASE l # i
    <3>1. (l > i' \/ l = i') <=> (l > i \/ l = i)
      BY <1>1, <1>3, <2>5
    <3> QED
      BY <1>1, <2>1, <2>2, <2>3, <2>5, <3>1 DEF OnceAt, p
  <2> QED
    BY <2>4, <2>5
<1> QED
  BY <1>6, <1>7, <1>8 DEF GenInv

(* A process is forked, and the loop goes on to the next.                   *)
LEMMA GenFork ==
  ASSUME GenInv, fork_and_send
  PROVE  GenInv'
<1>1. /\ pc = "fork" /\ merging = NULL /\ merging' = NULL /\ pc' \in {"oldest", "test"}
      /\ child' = [child EXCEPT ![proc] = "alive"] /\ i' = NextIndex
      /\ memory_map' = Assigned(proc, IF waited THEN fit_memory_block ELSE block)
      /\ proc' = NULL /\ waited' = FALSE /\ fit_memory_block' = NULL /\ block' = NULL
      /\ UNCHANGED <<clock, waiting_list, memory, end_sent>>
  BY DEF fork_and_send, Go
<1>2. /\ TypeOK /\ MemoryOK(memory) /\ LoopInv /\ EachOnce /\ proc # NULL
      /\ child \in [Processes -> {"none", "alive", "zombie", "reaped"}]
  BY <1>1 DEF GenInv, LoopInv, TypeOK
<1>3. /\ proc \in Processes /\ i \in Nat /\ ~InWaitingList(proc)
  BY <1>2, ProcAtHand
<1>4. PICK m \in 1 .. Len(process_list) :
         proc = process_list[m] /\ IF waited THEN m < i ELSE m = i
  BY <1>2, ProcAtHand
<1>5. i' = IF waited THEN i ELSE i + 1
  BY <1>1 DEF NextIndex
<1>6. TypeOK'
  <2>1. i' \in 1 .. Len(process_list) + 1
    BY <1>2, <1>4, <1>5, ListFacts DEF TypeOK
  <2>2. memory_map' \in [Processes -> Nat \cup {NULL}]
    BY <1>1, <1>2, <1>3 DEF Assigned, TypeOK
  <2>3. child' \in [Processes -> {"none", "alive", "zombie", "reaped"}]
    BY <1>1, <1>2
  <2> QED
    BY <1>1, <1>2, <2>1, <2>2, <2>3 DEF TypeOK
<1>7. LoopInv' /\ BlockInv' /\ MemoryOK(memory')
  BY <1>1, <1>2 DEF LoopInv, BlockInv
<1>8. EachOnce'
  <2> SUFFICES ASSUME NEW l \in 1 .. Len(process_list)
               PROVE  OnceAt(process_list[l], l)'
    <3>1. (EachOnce <=> OnceInv)'
      BY OnceForm, PTL
    <3> QED
      BY <3>1 DEF OnceInv
  <2> DEFINE p == process_list[l]
  <2>1. OnceAt(p, l) /\ p # NULL /\ p \in Processes
    BY <1>2, OnceForm, ListFacts DEF OnceInv
  <2>2. proc = p <=> l = m
    BY <1>4, ListFacts
  <2>3. InWaitingList(p)' <=> InWaitingList(p)
    BY <1>1 DEF InWaitingList
  <2>4. /\ p = proc => child'[p] = "alive"
        /\ p # proc => child'[p] = child[p]
    BY <1>1, <1>2, <2>1
  <2> HIDE DEF p
  <2>5. CASE l = m
    <3>1. ~(l > i' \/ l = i')
      BY <1>3, <1>4, <1>5, <2>5
    <3> QED
      BY <1>1, <1>3, <2>1, <2>2, <2>3, <2>4, <2>5, <3>1 DEF OnceAt, p
  <2>6. CASE l # m
    <3>1. (l > i' \/ l = i') <=> (l > i \/ l = i)
      BY <1>3, <1>4, <1>5, <2>6
    <3> QED
      BY <1>1, <2>1, <2>2, <2>3, <2>4, <2>6, <3>1 DEF OnceAt, p
  <2> QED
    BY <2>5, <2>6
<1> QED
  BY <1>6, <1>7, <1>8 DEF GenInv

(* EachOnce asks only whether a process was forked.                         *)
LEMMA OnceFrame ==
  ASSUME GenInv, UNCHANGED <<i, waiting_list, proc>>,
         \A p \in Processes : child'[p] = "none" <=> child[p] = "none"
  PROVE  EachOnce'
<1> SUFFICES ASSUME NEW l \in 1 .. Len(process_list)
             PROVE  OnceAt(process_list[l], l)'
  <2>1. (EachOnce <=> OnceInv)'
    BY OnceForm, PTL
  <2> QED
    BY <2>1 DEF OnceInv
<1>1. OnceAt(process_list[l], l) /\ process_list[l] \in Processes
  BY OnceForm, ListFacts DEF GenInv, OnceInv
<1> QED
  BY <1>1 DEF OnceAt, InWaitingList

(* A process ends, or a second goes by.                                     *)
LEMMA GenExit ==
  ASSUME GenInv, Tick \/ \E p \in Processes : Exit(p)
  PROVE  GenInv'
<1>1. UNCHANGED <<i, waiting_list, memVars, end_sent, loopVars, merging>>
  BY DEF Tick, Exit
<1>2. /\ clock' \in Nat
      /\ child' \in [Processes -> {"none", "alive", "zombie", "reaped"}]
      /\ \A p \in Processes : child'[p] = "none" <=> child[p] = "none"
  BY DEF Tick, Exit, GenInv, TypeOK
<1>3. TypeOK'
  BY <1>1, <1>2 DEF GenInv, TypeOK, memVars, loopVars
<1>4. LoopInv' /\ BlockInv' /\ MemoryOK(memory')
  BY <1>1 DEF GenInv, LoopInv, BlockInv, Fits, At, memVars, loopVars
<1>5. EachOnce'
  BY <1>1, <1>2, OnceFrame DEF loopVars
<1> QED
  BY <1>3, <1>4, <1>5 DEF GenInv

(* The memory with one more block free: the loop's pointers are to what     *)
(* they were, and what fitted fits.                                         *)
LEMMA GenChildExit ==
  ASSUME GenInv, NEW p \in Processes, handle_child_exit(p)
  PROVE  GenInv'
<1>1. /\ merging = NULL /\ child' = [child EXCEPT ![p] = "reaped"] /\ child[p] = "zombie"
      /\ UNCHANGED <<clock, i, waiting_list, memory_map, end_sent, proc, waited,
                     fit_memory_block, block>>
  BY DEF handle_child_exit
<1>2. /\ TypeOK /\ MemoryOK(memory) /\ LoopInv /\ BlockInv
      /\ child \in [Processes -> {"none", "alive", "zombie", "reaped"}]
      /\ memory_map[p] \in Nat \cup {NULL}
  BY DEF GenInv, TypeOK
<1>3. EachOnce'
  <2>1. \A q \in Processes : child'[q] = "none" <=> child[q] = "none"
    BY <1>1, <1>2
  <2> QED
    BY <1>1, <2>1, OnceFrame
<1>4. child' \in [Processes -> {"none", "alive", "zombie", "reaped"}]
  BY <1>1, <1>2
<1>5. CASE UNCHANGED <<memory, merging>> /\ pc' \in {pc, "undefined"}
  <2>1. LoopInv' /\ BlockInv' /\ MemoryOK(memory')
    BY <1>1, <1>2, <1>5 DEF LoopInv, BlockInv, Fits, At
  <2>2. TypeOK'
    BY <1>1, <1>2, <1>4, <1>5 DEF TypeOK
  <2> QED
    BY <1>3, <2>1, <2>2 DEF GenInv
<1>6. CASE /\ memory_map[p] # NULL /\ HasBlock(memory, memory_map[p]) /\ pc' = pc
           /\ memory' = [memory EXCEPT ![At(memory_map[p])].allocated = 0]
           /\ merging' = memory_map[p]
  <2> DEFINE b == memory_map[p]
             j == At(b)
  <2>1. j \in DOMAIN memory /\ memory[j].start = b
    BY <1>2, <1>6, BlockThere
  <2> HIDE DEF j
  <2>2. memory' = Marked(memory, j, 0)
    BY <1>6 DEF Marked, j
  <2>3. /\ MemoryOK(memory') /\ DOMAIN memory' = DOMAIN memory
        /\ memory'[j].allocated = 0
        /\ \A k \in DOMAIN memory :
             /\ memory'[k].start = memory[k].start /\ memory'[k].size = memory[k].size
             /\ memory[k].allocated = 0 => memory'[k].allocated = 0
    BY <1>2, <2>1, <2>2, FreeItems
  <2>4. \A k \in DOMAIN memory : IndexOfBlock(memory', memory[k].start) = k
    BY <2>3, BlockByStart
  <2>5. HasBlock(memory', b) /\ memory'[IndexOfBlock(memory', b)].allocated = 0
    BY <2>1, <2>3, <2>4 DEF HasBlock
  <2>6. BlockInv'
    <3>1. ASSUME pc = "split", HasBlock(memory', block)
          PROVE  /\ memory'[IndexOfBlock(memory', block)].allocated = 0
                 /\ MemorySize[proc] <= memory'[IndexOfBlock(memory', block)].size
      <4>1. HasBlock(memory, block)
        BY <2>3, <3>1 DEF HasBlock
      <4>2. /\ At(block) \in DOMAIN memory /\ memory[At(block)].start = block
            /\ memory[At(block)].allocated = 0 /\ MemorySize[proc] <= memory[At(block)].size
        BY <1>2, <3>1, <4>1, BlockThere DEF BlockInv
      <4> QED
        BY <2>3, <2>4, <4>2
    <3> QED
      BY <1>1, <1>2, <1>6, <2>5, <3>1 DEF BlockInv, At
  <2>7. LoopInv'
    <3>1. ASSUME pc = "smallest"
          PROVE  Fitting(memory', MemorySize[proc]) # {}
      <4>1. Fitting(memory, MemorySize[proc]) # {} /\ MemorySize[proc] \in Nat
        BY <1>2, <3>1, ListFacts DEF LoopInv, TypeOK, Fits
      <4> QED
        BY <1>2, <2>1, <2>2, <4>1, FitsAfterFree
    <3> QED
      BY <1>1, <1>2, <1>6, <3>1 DEF LoopInv, Fits
  <2>8. TypeOK'
    BY <1>1, <1>2, <1>4, <1>6, <2>3 DEF TypeOK, MemoryOK
  <2> QED
    BY <1>3, <2>3, <2>6, <2>7, <2>8 DEF GenInv
<1> QED
  BY <1>5, <1>6 DEF handle_child_exit

(* The memory with two free blocks joined: a pointer of the loop is to what *)
(* it was to, or to a block that is gone.                                   *)
LEMMA GenMerge ==
  ASSUME GenInv, MergeBlock
  PROVE  GenInv'
<1>1. /\ merging # NULL
      /\ UNCHANGED <<clock, i, waiting_list, memory_map, child, end_sent, loopVars>>
  BY DEF MergeBlock
<1>2. /\ TypeOK /\ MemoryOK(memory) /\ LoopInv /\ BlockInv
      /\ HasBlock(memory, merging) /\ memory[At(merging)].allocated = 0
  BY <1>1 DEF GenInv, BlockInv
<1>3. EachOnce'
  BY <1>1, OnceFrame DEF loopVars
<1>4. CASE ~Mergeable(memory, At(merging)) /\ merging' = NULL /\ UNCHANGED memory
  <2>1. LoopInv' /\ BlockInv' /\ MemoryOK(memory')
    BY <1>1, <1>2, <1>4 DEF LoopInv, BlockInv, Fits, At, loopVars
  <2>2. TypeOK'
    BY <1>1, <1>2, <1>4 DEF TypeOK, loopVars
  <2> QED
    BY <1>3, <2>1, <2>2 DEF GenInv
<1>5. CASE /\ Mergeable(memory, At(merging))
           /\ memory' = merge_block(memory, At(merging))
           /\ merging' = memory[MergedAt(memory, At(merging))].start
  <2> DEFINE j == At(merging)
             l == MergedAt(memory, j)
  <2>1. j \in DOMAIN memory /\ memory[j].allocated = 0
    BY <1>2, BlockThere
  <2> HIDE DEF j
  <2>2. memory' = merge_block(memory, j) /\ Mergeable(memory, j) /\ merging' = memory[l].start
    BY <1>5 DEF j
  <2>3. /\ MemoryOK(memory') /\ l \in DOMAIN memory'
        /\ l \in DOMAIN memory
        /\ memory'[l].start = memory[l].start /\ memory'[l].allocated = 0
        /\ AllocatedBlocks(memory') = AllocatedBlocks(memory)
        /\ \A m : FreeBuddies(memory', m) =>
             l \in {m, m + 1} \/ \E k : FreeBuddies(memory, k) /\ j \notin {k, k + 1}
    BY <1>2, <2>1, <2>2, MergeEffect
  <2>4. \A x \in DOMAIN memory' : \E k \in DOMAIN memory :
          /\ memory'[x].start = memory[k].start
          /\ memory'[x].allocated = memory[k].allocated
          /\ memory'[x].size >= memory[k].size
    BY <1>2, <2>1, <2>2, MergeGrows
  <2> HIDE DEF l
  <2>5. HasBlock(memory', merging') /\ memory'[IndexOfBlock(memory', merging')].allocated = 0
    BY <2>2, <2>3, BlockByStart DEF HasBlock
  <2>6. merging' \in Nat
    BY <1>2, <2>2, <2>3, BlockTypes
  <2>7. BlockInv'
    <3>1. ASSUME pc = "split", HasBlock(memory', block)
          PROVE  /\ memory'[IndexOfBlock(memory', block)].allocated = 0
                 /\ MemorySize[proc] <= memory'[IndexOfBlock(memory', block)].size
      <4> DEFINE x == IndexOfBlock(memory', block)
      <4>1. x \in DOMAIN memory' /\ memory'[x].start = block /\ memory'[x].size \in Nat
        BY <2>3, <3>1, BlockByStart, BlockTypes
      <4> HIDE DEF x
      <4>2. PICK k \in DOMAIN memory : /\ block = memory[k].start
                                       /\ memory'[x].allocated = memory[k].allocated
                                       /\ memory'[x].size >= memory[k].size
        BY <2>4, <4>1
      <4>3. HasBlock(memory, block) /\ At(block) = k /\ memory[k].size \in Nat
        BY <1>2, <4>2, BlockByStart, BlockTypes DEF HasBlock, At
      <4>4. memory[k].allocated = 0 /\ MemorySize[proc] <= memory[k].size
        BY <1>2, <3>1, <4>3 DEF BlockInv
      <4>5. MemorySize[proc] \in Nat
        BY <1>2, <3>1, ListFacts DEF LoopInv, TypeOK
      <4> QED
        BY <4>1, <4>2, <4>3, <4>4, <4>5 DEF x
    <3> QED
      BY <1>1, <1>2, <2>5, <3>1 DEF BlockInv, At, loopVars
  <2>8. LoopInv'
    <3>1. ASSUME pc = "smallest"
          PROVE  Fitting(memory', MemorySize[proc]) # {}
      <4>1. Fitting(memory, MemorySize[proc]) # {} /\ MemorySize[proc] \in Nat
        BY <1>2, <3>1, ListFacts DEF LoopInv, TypeOK, Fits
      <4> QED
        BY <1>2, <2>1, <2>2, <4>1, FitsAfterMerge
    <3> QED
      BY <1>1, <1>2, <3>1 DEF LoopInv, Fits, loopVars
  <2>9. TypeOK'
    BY <1>1, <1>2, <2>3, <2>6 DEF TypeOK, MemoryOK, loopVars
  <2> QED
    BY <1>3, <2>3, <2>7, <2>8, <2>9 DEF GenInv
<1> QED
  BY <1>4, <1>5 DEF MergeBlock

(* The loop's pointers, the blocks and the lists agree, whenever the        *)
(* handler interrupts the loop.                                             *)
THEOREM GeneratorInvariant == Spec => []GenInv
<1>1. Init => GenInv
  BY GenInit
<1>2. GenInv /\ UNCHANGED vars => GenInv'
  <2> SUFFICES ASSUME GenInv, UNCHANGED vars PROVE GenInv'
    OBVIOUS
  <2>1. TypeOK' /\ MemoryOK(memory')
    BY DEF GenInv, TypeOK, vars, memVars, loopVars
  <2>2. LoopInv' /\ BlockInv'
    BY DEF GenInv, LoopInv, BlockInv, Fits, At, vars, memVars, loopVars
  <2>3. EachOnce'
    BY OnceFrame DEF vars, loopVars
  <2> QED
    BY <2>1, <2>2, <2>3 DEF GenInv
<1>3. GenInv /\ [Next]_vars => GenInv'
  BY <1>2, GenTest, GenOldest, GenSmallest, GenArrival, GenFind, GenSplit, GenWait, GenFork,
     GenExit, GenChildExit, GenMerge DEF Next, Loop, Handler
<1> QED
  BY <1>1, <1>3, PTL DEF Spec

(* No process of the input is dropped between the input list, the waiting   *)
(* list and the fork, and none is forked twice.                             *)
THEOREM GeneratorEachOnce == Spec => []EachOnce
<1>1. GenInv => EachOnce
  BY DEF GenInv
<1> QED
  BY <1>1, GeneratorInvariant, PTL
-----------------------------------------------------------------------------
(* When get_oldest_fit returns NULL no process of the waiting list fits.    *)
LEMMA NoneFits ==
  ASSUME GenInv, Oldest = {}, NEW q, InWaitingList(q)
  PROVE  ~Fits(q)
<1> SUFFICES ASSUME Fits(q) PROVE FALSE
  OBVIOUS
<1> DEFINE K == {k \in 1 .. Len(waiting_list) : Fits(waiting_list[k])}
<1>1. Len(waiting_list) \in Nat /\ DOMAIN waiting_list = 1 .. Len(waiting_list)
  BY LenProperties DEF GenInv, TypeOK
<1>2. K \subseteq Nat /\ K # {}
  BY <1>1 DEF InWaitingList
<1>3. PICK k \in K : \A l \in K : k <= l
  <2> HIDE DEF K
  <2> QED
    BY <1>2, LeastElement
<1>4. \A l \in 1 .. k - 1 : ~Fits(waiting_list[l])
  <2> SUFFICES ASSUME NEW l \in 1 .. k - 1, Fits(waiting_list[l]) PROVE FALSE
    OBVIOUS
  <2>1. l \in K /\ ~(k <= l)
    BY <1>1, <1>3
  <2> QED
    BY <1>3, <2>1
<1>5. k \in Oldest
  BY <1>1, <1>4 DEF Oldest
<1> QED
  BY <1>5

(* The loop's steps between the search of the waiting list and the fork     *)
(* only make what is free smaller.                                          *)
LEMMA TurnStep ==
  ASSUME Prompt, GenInv, TurnInv, [Next]_vars
  PROVE  TurnInv'
<1> USE DEF GenInv
<1>1. ASSUME Loop
      PROVE  TurnInv'
  <2>0. merging' = NULL
    BY <1>1 DEF Loop, TestLoop, get_oldest_fit, get_smallest_block, TestArrival, Sleep, FindBlock,
                SplitBlock, AddToWaitingList, fork_and_send, SendNoMore, Go
  <2>1. CASE TestLoop \/ Sleep \/ SendNoMore \/ AddToWaitingList \/ fork_and_send
    <3>1. pc' \in {"oldest", "end", "test", "done"}
      BY <2>1 DEF TestLoop, Sleep, SendNoMore, AddToWaitingList, fork_and_send, Go
    <3> QED
      BY <2>0, <3>1 DEF TurnInv
  <2>2. CASE get_oldest_fit
    <3>1. UNCHANGED <<memory, merging>>
      BY <2>2 DEF get_oldest_fit, memVars
    <3>2. CASE Oldest = {} /\ UNCHANGED waiting_list
      <4>1. \A q : InWaitingList(q) => ~Fits(q)
        BY <3>2, NoneFits
      <4> QED
        BY <2>0, <3>1, <3>2, <4>1 DEF TurnInv, InWaitingList, Fits
    <3>3. CASE pc' = "smallest"
      BY <2>0, <3>3 DEF TurnInv
    <3> QED
      BY <2>2, <3>2, <3>3 DEF get_oldest_fit, Go
  <2>3. CASE get_smallest_block
    <3>1. pc' = "find" /\ waited'
      BY <2>3 DEF get_smallest_block, Go, LoopInv
    <3> QED
      BY <2>0, <3>1 DEF TurnInv
  <2>4. CASE TestArrival \/ FindBlock
    <3>1. /\ UNCHANGED <<memory, waiting_list, waited>> /\ pc \in {"arrival", "find"}
      BY <2>4 DEF TestArrival, FindBlock, memVars
    <3> QED
      BY <2>0, <3>1 DEF TurnInv, InWaitingList, Fits
  <2>5. CASE SplitBlock
    <3>1. UNCHANGED <<waiting_list, waited>> /\ pc = "split"
      BY <2>5 DEF SplitBlock
    <3>2. CASE pc' = "undefined" \/ pc' = "fork"
      BY <2>0, <3>2 DEF TurnInv
    <3>3. CASE /\ HasBlock(memory, block) /\ memory' = split_block(memory, At(block))
      <4>1. At(block) \in DOMAIN memory /\ memory[At(block)].allocated = 0
        BY <3>1, <3>3, BlockThere DEF BlockInv
      <4>2. ASSUME NEW q \in Processes, Fitting(memory', MemorySize[q]) # {}
            PROVE  Fits(q)
        <5>1. MemorySize[q] \in Nat
          BY ListFacts
        <5> QED
          BY <3>3, <4>1, <4>2, <5>1, FitsBeforeSplit DEF Fits
      <4> QED
        BY <2>0, <3>1, <4>2 DEF TurnInv, InWaitingList, Fits
    <3> QED
      BY <2>5, <3>2, <3>3 DEF SplitBlock, Go
  <2> QED
    BY <1>1, <2>1, <2>2, <2>3, <2>4, <2>5 DEF Loop
<1>2. ASSUME Handler
      PROVE  TurnInv'
  <2>1. pc \in {"sleep", "done"} /\ pc' \in {pc, "undefined"}
    BY <1>2 DEF Handler, MergeBlock, handle_child_exit, TurnInv, loopVars
  <2>2. pc' = "undefined" => merging' = NULL
    BY <1>2, <2>1 DEF Handler, MergeBlock, handle_child_exit, loopVars
  <2> QED
    BY <2>1, <2>2 DEF TurnInv
<1>3. ASSUME UNCHANGED <<pc, waited, waiting_list, memory, merging>>
      PROVE  TurnInv'
  BY <1>3 DEF TurnInv, InWaitingList, Fits
<1>4. (Tick \/ (\E p \in Processes : Exit(p)) \/ UNCHANGED vars)
         => UNCHANGED <<pc, waited, waiting_list, memory, merging>>
  BY DEF Tick, Exit, vars, memVars, loopVars
<1> QED
  BY <1>1, <1>2, <1>3, <1>4 DEF Next

(* A newcomer is given memory only if no process of the waiting list could  *)
(* have it.                                                                 *)
THEOREM GeneratorNoOvertaking == ASSUME Prompt PROVE Spec => NoOvertaking
<1>1. Init => TurnInv
  BY DEF Init, TurnInv
<1>2. GenInv /\ TurnInv /\ [Next]_vars => TurnInv'
  BY TurnStep
<1>3. TurnInv =>
        [pc = "split" /\ pc' = "fork" /\ ~waited =>
           ~\E q \in Processes : InWaitingList(q) /\ Fits(q)]_vars
  BY DEF TurnInv
<1> QED
  BY <1>1, <1>2, <1>3, GeneratorInvariant, PTL DEF Spec, NoOvertaking
-----------------------------------------------------------------------------
(* A process that has no entry yet gets one.                                *)
LEMMA EntryForEach ==
  ASSUME RoomInMap, NEW p \in Processes, memory_map[p] = NULL, NEW b, b # NULL
  PROVE  Assigned(p, b) = [memory_map EXCEPT ![p] = b]
<1> DEFINE S == {q \in Processes : memory_map[q] # NULL}
<1>1. process_list \in Surjection(1 .. Len(process_list), Processes)
  BY ListFacts, ListAssumption DEF Surjection
<1>2. IsFiniteSet(1 .. Len(process_list)) /\ Cardinality(1 .. Len(process_list)) <= Len(process_list)
  BY ListFacts, FS_Interval
<1>3. IsFiniteSet(Processes) /\ Cardinality(Processes) <= Cardinality(1 .. Len(process_list))
  BY <1>1, <1>2, FS_Surjection
<1>4. Cardinality(Processes) \in Nat /\ Cardinality(1 .. Len(process_list)) \in Nat
  BY <1>2, <1>3, FS_CardinalityType
<1>5. S \in SUBSET Processes /\ S # Processes
  OBVIOUS
<1> HIDE DEF S
<1>6. IsFiniteSet(S) /\ Cardinality(S) <= Cardinality(Processes)
      /\ Cardinality(S) # Cardinality(Processes)
  BY <1>3, <1>5, FS_Subset
<1>7. Cardinality(S) \in Nat
  BY <1>6, FS_CardinalityType
<1>8. Cardinality(S) < MapCapacity
  BY <1>2, <1>3, <1>4, <1>6, <1>7, ListFacts DEF RoomInMap
<1> QED
  BY <1>8 DEF Assigned, S

(* Free buddies are left only at the loop's or the handler's block.         *)
LEMMA BuddiesAtHand ==
  ASSUME MemoryOK(memory), BuddyInv, NEW l, FreeBuddies(memory, l)
  PROVE  \/ merging # NULL /\ At(merging) \in {l, l + 1}
         \/ pc = "split" /\ At(block) \in {l, l + 1}
<1>1. l \in 1 .. Len(memory) - 1 /\ DOMAIN memory = 1 .. Len(memory) /\ Len(memory) \in Nat
  BY BlockTypes DEF FreeBuddies, BuddiesAt
<1>2. l \in DOMAIN memory
  BY <1>1
<1> QED
  BY <1>2 DEF BuddyInv

(* An allocated block is in the list, at the place of its start.            *)
LEMMA AllocatedAt ==
  ASSUME MemoryOK(memory), NEW b \in AllocatedBlocks(memory)
  PROVE  /\ HasBlock(memory, b.start) /\ At(b.start) \in DOMAIN memory
         /\ memory[At(b.start)] = b /\ b.allocated # 0
         /\ b.start \in Nat /\ b.start # NULL
<1>1. PICK j \in DOMAIN memory : memory[j].allocated # 0 /\ b = memory[j]
  BY DEF AllocatedBlocks
<1>2. At(b.start) = j /\ HasBlock(memory, b.start)
  BY <1>1, BlockByStart DEF At, HasBlock
<1>3. b.start \in Nat
  BY <1>1, BlockTypes
<1> QED
  BY <1>1, <1>2, <1>3, ListFacts

(* Steps that leave the memory, the map and the children alone, outside an  *)
(* allocation.                                                              *)
LEMMA OwnQuiet ==
  ASSUME PromptGenInv, UNCHANGED <<memory, memory_map, child>>,
         merging = NULL, merging' = NULL,
         pc \notin {"split", "fork"}, pc' \notin {"split", "fork", "undefined"},
         pc' = "find" /\ waited' => Fits(proc)' /\ fit_memory_block' = Smallest(proc)'
  PROVE  OwnInv' /\ FoundInv' /\ BuddyInv'
<1>1. OwnInv'
  BY DEF PromptGenInv, OwnInv, Alive
<1>2. FoundInv'
  BY DEF FoundInv
<1>3. BuddyInv'
  BY DEF PromptGenInv, BuddyInv
<1> QED
  BY <1>1, <1>2, <1>3

(* Of the loop, the steps before an allocation.                             *)
LEMMA OwnLoop ==
  ASSUME PromptGenInv,
         \/ TestLoop \/ Sleep \/ SendNoMore
         \/ get_oldest_fit \/ get_smallest_block \/ TestArrival
  PROVE  OwnInv' /\ FoundInv' /\ BuddyInv'
<1>1. GenInv
  BY DEF PromptGenInv
<1>2. CASE get_smallest_block
  <2>1. /\ pc = "smallest" /\ pc' = "find" /\ fit_memory_block' = Smallest(proc) /\ Fits(proc)
        /\ merging = NULL /\ UNCHANGED <<memory, memory_map, child, proc, merging>>
    BY <1>1, <1>2 DEF get_smallest_block, Go, memVars, GenInv, LoopInv
  <2>2. Fits(proc)' /\ Smallest(proc)' = Smallest(proc)
    BY <2>1 DEF Fits, Smallest
  <2> QED
    BY <2>1, <2>2, OwnQuiet
<1>3. CASE TestArrival
  <2>1. /\ pc = "arrival" /\ ~waited' /\ pc' \in {"find", "sleep"}
        /\ merging = NULL /\ UNCHANGED <<memory, memory_map, child, merging>>
    BY <1>1, <1>3 DEF TestArrival, Go, memVars, GenInv, LoopInv
  <2> QED
    BY <2>1, OwnQuiet
<1>4. CASE TestLoop \/ Sleep \/ SendNoMore \/ get_oldest_fit
  <2>1. /\ pc \in {"test", "sleep", "end", "oldest"}
        /\ pc' \in {"oldest", "end", "test", "done", "arrival", "smallest"}
        /\ merging = NULL /\ UNCHANGED <<memory, memory_map, child, merging>>
    BY <1>4 DEF TestLoop, Sleep, SendNoMore, get_oldest_fit, Go, memVars
  <2> QED
    BY <2>1, OwnQuiet
<1> QED
  BY <1>2, <1>3, <1>4

(* The search that allocates finds what the search before it found.         *)
LEMMA OwnFind ==
  ASSUME PromptGenInv, FindBlock
  PROVE  OwnInv' /\ FoundInv' /\ BuddyInv'
<1>1. /\ GenInv /\ OwnInv /\ FoundInv /\ BuddyInv /\ pc = "find"
      /\ proc \in Processes /\ MemoryOK(memory)
  BY DEF PromptGenInv, FindBlock, GenInv, LoopInv, TypeOK
<1>2. /\ merging = NULL /\ pc' \in {"split", "fork"}
      /\ UNCHANGED <<memory, memory_map, child, proc, waited, fit_memory_block, merging>>
  BY DEF FindBlock, Go, memVars
<1>3. \A l \in DOMAIN memory : ~FreeBuddies(memory, l)
  BY <1>1, <1>2 DEF BuddyInv
<1>4. OwnInv'
  BY <1>1, <1>2 DEF OwnInv, Alive
<1>5. BuddyInv'
  BY <1>2, <1>3 DEF BuddyInv
<1>6. FoundInv'
  <2>1. CASE Fits(proc) /\ pc' = "split" /\ block' = Smallest(proc)
    <3>1. Smallest(proc) \in Nat /\ HasBlock(memory, Smallest(proc)) /\ Smallest(proc) # NULL
      BY <1>1, <2>1, SmallestBlock, ListFacts
    <3> QED
      BY <1>1, <1>2, <2>1, <3>1 DEF FoundInv
  <2>2. CASE ~Fits(proc) /\ pc' = "fork" /\ block' = NULL
    BY <1>1, <1>2, <2>2 DEF FoundInv
  <2> QED
    BY <2>1, <2>2 DEF FindBlock, Go
<1> QED
  BY <1>4, <1>5, <1>6

(* The block at hand is split, or becomes the block of the process at hand. *)
LEMMA OwnSplit ==
  ASSUME PromptGenInv, SplitBlock
  PROVE  OwnInv' /\ FoundInv' /\ BuddyInv'
<1> DEFINE j == At(block)
           r == MemorySize[proc]
<1>1. /\ GenInv /\ OwnInv /\ FoundInv /\ BuddyInv /\ pc = "split"
      /\ proc \in Processes /\ MemoryOK(memory)
      /\ HasBlock(memory, block) /\ memory[j].allocated = 0 /\ r <= memory[j].size
      /\ block # NULL
  BY DEF PromptGenInv, SplitBlock, GenInv, LoopInv, BlockInv, FoundInv, TypeOK
<1>2. /\ merging = NULL /\ merging' = NULL
      /\ UNCHANGED <<memory_map, child, proc, waited, fit_memory_block, block>>
  BY DEF SplitBlock, Go
<1>3. /\ j \in DOMAIN memory /\ memory[j].start = block /\ memory[j].size \in BlockSizes
      /\ memory[j].size \in Nat /\ memory[j] \in Blocks /\ r \in Nat \ {0}
  BY <1>1, BlockThere, ListFacts
<1>4. \A l : FreeBuddies(memory, l) => j \in {l, l + 1}
  BY <1>1, <1>2, BuddiesAtHand
<1>5. CASE TooLarge(memory[j], r) /\ pc' = "split" /\ memory' = split_block(memory, j)
  <2>1. memory[j].size >= 2
    BY <1>1, <1>3, <1>5, HalfIsEnough
  <2> HIDE DEF j, r
  <2>2. /\ MemoryOK(memory') /\ j \in DOMAIN memory'
        /\ memory'[j].start = memory[j].start /\ memory'[j].allocated = 0
        /\ memory'[j].size \in Nat /\ 2 * memory'[j].size = memory[j].size
        /\ AllocatedBlocks(memory') = AllocatedBlocks(memory)
        /\ \A l : FreeBuddies(memory', l) =>
             j \in {l, l + 1} \/ \E m : FreeBuddies(memory, m) /\ j \notin {m, m + 1}
    BY <1>1, <1>3, <1>5, <2>1, SplitEffect
  <2>3. HasBlock(memory', block') /\ IndexOfBlock(memory', block') = j
    BY <1>2, <1>3, <2>2, BlockByStart DEF HasBlock
  <2>4. OwnInv'
    BY <1>1, <1>2, <1>5, <2>2 DEF OwnInv, Alive
  <2>5. FoundInv'
    BY <1>1, <1>2, <1>5, <2>3 DEF FoundInv
  <2>6. BuddyInv'
    BY <1>4, <1>5, <2>2, <2>3 DEF BuddyInv, At
  <2> QED
    BY <2>4, <2>5, <2>6
<1>6. CASE /\ pc' = "fork" /\ memory' = [memory EXCEPT ![j].allocated = r]
  <2> DEFINE nb == [memory[j] EXCEPT !.allocated = r]
  <2>1. memory' = Marked(memory, j, r)
    BY <1>6 DEF Marked
  <2> HIDE DEF j, r
  <2>2. /\ AllocatedBlocks(memory') = AllocatedBlocks(memory) \cup {nb}
        /\ \A l : FreeBuddies(memory', l) => FreeBuddies(memory, l) /\ j \notin {l, l + 1}
    BY <1>1, <1>3, <2>1, MarkAllocated
  <2>3. nb.start = block /\ nb.allocated = r
    BY <1>3 DEF Blocks
  <2> HIDE DEF nb
  <2>4. ASSUME NEW p \in Processes, Alive(p)
        PROVE  memory_map[p] # block
    <3>1. PICK b \in AllocatedBlocks(memory) : b.start = memory_map[p]
      BY <1>1, <2>4 DEF OwnInv
    <3>2. memory[At(b.start)].allocated # 0
      BY <1>1, <3>1, AllocatedAt
    <3> QED
      BY <1>1, <3>1, <3>2 DEF j
  <2>5. OwnInv'
    <3>1. \A p \in Processes : Alive(p)' <=> Alive(p)
      BY <1>2 DEF Alive
    <3> QED
      BY <1>1, <1>2, <1>6, <2>2, <2>3, <3>1 DEF OwnInv
  <2>6. FoundInv'
    <3>1. \A p \in Processes : Alive(p)' <=> Alive(p)
      BY <1>2 DEF Alive
    <3> QED
      BY <1>1, <1>2, <1>6, <2>2, <2>3, <2>4, <3>1 DEF FoundInv, r
  <2>7. BuddyInv'
    BY <1>4, <2>2 DEF BuddyInv
  <2> QED
    BY <2>5, <2>6, <2>7
<1> QED
  BY <1>1, <1>5, <1>6 DEF SplitBlock, Go

(* No block, no fork.                                                       *)
LEMMA OwnWait ==
  ASSUME PromptGenInv, AddToWaitingList
  PROVE  OwnInv' /\ FoundInv' /\ BuddyInv'
<1>1. /\ pc = "fork" /\ block = NULL /\ pc' = "test" /\ merging = NULL /\ merging' = NULL
      /\ UNCHANGED <<memory, memory_map, child>> /\ MemoryOK(memory)
      /\ OwnInv /\ BuddyInv
  BY DEF AddToWaitingList, Go, memVars, PromptGenInv, GenInv
<1>2. \A b \in AllocatedBlocks(memory) : b.start # NULL
  BY <1>1, AllocatedAt
<1>3. OwnInv'
  BY <1>1, <1>2 DEF OwnInv, Alive
<1>4. FoundInv' /\ BuddyInv'
  BY <1>1 DEF FoundInv, BuddyInv
<1> QED
  BY <1>3, <1>4

(* The new child's entry is the block that was allocated last.              *)
LEMMA OwnFork ==
  ASSUME RoomInMap, PromptGenInv, fork_and_send
  PROVE  OwnInv' /\ FoundInv' /\ BuddyInv'
<1>1. /\ GenInv /\ OwnInv /\ FoundInv /\ BuddyInv /\ pc = "fork" /\ block # NULL
      /\ MemoryOK(memory) /\ proc # NULL
      /\ child \in [Processes -> {"none", "alive", "zombie", "reaped"}]
      /\ memory_map \in [Processes -> Nat \cup {NULL}]
      /\ (IF waited THEN fit_memory_block ELSE block) = block
  BY DEF PromptGenInv, fork_and_send, GenInv, LoopInv, FoundInv, TypeOK
<1>2. proc \in Processes /\ child[proc] = "none"
  BY <1>1, ProcAtHand
<1>3. memory_map[proc] = NULL
  BY <1>1, <1>2 DEF OwnInv
<1>4. /\ merging = NULL /\ merging' = NULL /\ pc' \in {"oldest", "test"}
      /\ child' = [child EXCEPT ![proc] = "alive"]
      /\ memory_map' = [memory_map EXCEPT ![proc] = block]
      /\ UNCHANGED memory
  BY <1>1, <1>2, <1>3, EntryForEach DEF fork_and_send, Go
<1>5. /\ child'[proc] = "alive" /\ memory_map'[proc] = block
      /\ \A p \in Processes : p # proc => child'[p] = child[p] /\ memory_map'[p] = memory_map[p]
  BY <1>1, <1>2, <1>4
<1>6. PICK me \in Processes :
         /\ me = proc /\ Alive(me)' /\ ~Alive(me)
         /\ \A p \in Processes : p # me => (Alive(p)' <=> Alive(p))
  BY <1>2, <1>5 DEF Alive
<1>7. /\ \E b \in AllocatedBlocks(memory) : b.start = block /\ b.allocated = MemorySize[proc]
      /\ \A p \in Processes : Alive(p) => memory_map[p] # block
  BY <1>1 DEF FoundInv
<1>8. OwnInv'
  <2>1. ASSUME NEW p \in Processes
        PROVE  child'[p] # "none" <=> memory_map'[p] # NULL
    BY <1>1, <1>5 DEF OwnInv
  <2>2. ASSUME NEW p \in Processes, NEW q \in Processes, Alive(p)', Alive(q)',
               memory_map'[p] = memory_map'[q]
        PROVE  p = q
    BY <1>1, <1>5, <1>6, <1>7, <2>2 DEF OwnInv
  <2>3. ASSUME NEW p \in Processes, Alive(p)'
        PROVE  \E b \in AllocatedBlocks(memory') :
                  b.start = memory_map'[p] /\ b.allocated = MemorySize[p]
    BY <1>1, <1>4, <1>5, <1>6, <1>7, <2>3 DEF OwnInv
  <2>4. ASSUME NEW b \in AllocatedBlocks(memory')
        PROVE  \E p \in Processes : Alive(p)' /\ memory_map'[p] = b.start
    <3>1. CASE b.start = block
      BY <1>5, <1>6, <3>1
    <3>2. CASE b.start # block
      <4>1. PICK p \in Processes : Alive(p) /\ memory_map[p] = b.start
        BY <1>1, <1>4, <3>2 DEF OwnInv
      <4> QED
        BY <1>5, <1>6, <4>1
    <3> QED
      BY <3>1, <3>2
  <2> QED
    BY <1>4, <2>1, <2>2, <2>3, <2>4 DEF OwnInv
<1>9. FoundInv' /\ BuddyInv'
  BY <1>1, <1>4 DEF FoundInv, BuddyInv
<1> QED
  BY <1>8, <1>9

(* A zombie's memory is as good as a running process's until it is reaped.  *)
LEMMA OwnExit ==
  ASSUME PromptGenInv, Tick \/ \E p \in Processes : Exit(p)
  PROVE  OwnInv' /\ FoundInv' /\ BuddyInv'
<1>1. UNCHANGED <<memory, memory_map, pc, block, merging, proc, waited, fit_memory_block>>
  BY DEF Tick, Exit, memVars, loopVars
<1>2. \A p \in Processes : /\ Alive(p)' <=> Alive(p)
                           /\ child'[p] = "none" <=> child[p] = "none"
  BY DEF Tick, Exit, Alive, PromptGenInv, GenInv, TypeOK
<1>3. OwnInv'
  BY <1>1, <1>2 DEF PromptGenInv, OwnInv
<1>4. FoundInv'
  BY <1>1, <1>2 DEF PromptGenInv, FoundInv, Fits, Smallest
<1>5. BuddyInv'
  BY <1>1 DEF PromptGenInv, BuddyInv, At
<1> QED
  BY <1>3, <1>4, <1>5

(* The block that is freed is the zombie's own.                             *)
LEMMA OwnChildExit ==
  ASSUME Prompt, PromptGenInv, NEW z \in Processes, handle_child_exit(z)
  PROVE  OwnInv' /\ FoundInv' /\ BuddyInv'
<1>1. /\ GenInv /\ OwnInv /\ BuddyInv /\ MemoryOK(memory)
      /\ merging = NULL /\ pc \in {"sleep", "done"} /\ child[z] = "zombie"
      /\ child' = [child EXCEPT ![z] = "reaped"]
      /\ child \in [Processes -> {"none", "alive", "zombie", "reaped"}]
      /\ UNCHANGED <<memory_map, waited, block, proc>>
  BY DEF PromptGenInv, GenInv, TypeOK, handle_child_exit
<1>2. /\ \A p \in Processes : p # z => child'[p] = child[p]
      /\ child'[z] = "reaped"
  BY <1>1
<1>3. /\ Alive(z) /\ ~Alive(z)'
      /\ \A p \in Processes : p # z => (Alive(p)' <=> Alive(p))
  BY <1>1, <1>2 DEF Alive
<1>4. PICK held \in AllocatedBlocks(memory) : held.start = memory_map[z]
  BY <1>1, <1>3 DEF OwnInv
<1> DEFINE j == At(memory_map[z])
<1>5. /\ memory_map[z] # NULL /\ HasBlock(memory, memory_map[z])
      /\ j \in DOMAIN memory /\ memory[j] = held /\ memory[j].allocated # 0
      /\ memory[j].start = memory_map[z]
  BY <1>1, <1>4, AllocatedAt
<1>6. /\ memory' = [memory EXCEPT ![j].allocated = 0]
      /\ merging' = memory_map[z] /\ pc' = pc
  BY <1>5 DEF handle_child_exit
<1>7. memory' = Marked(memory, j, 0)
  BY <1>6 DEF Marked
<1> HIDE DEF j
<1>8. /\ AllocatedBlocks(memory') = AllocatedBlocks(memory) \ {memory[j]}
      /\ \A l : FreeBuddies(memory', l) => FreeBuddies(memory, l) \/ j \in {l, l + 1}
  BY <1>1, <1>5, <1>7, MarkFree
<1>9. /\ MemoryOK(memory') /\ DOMAIN memory' = DOMAIN memory
      /\ memory'[j].allocated = 0
      /\ \A k \in DOMAIN memory :
           /\ memory'[k].start = memory[k].start /\ memory'[k].size = memory[k].size
           /\ memory[k].allocated = 0 => memory'[k].allocated = 0
  BY <1>1, <1>5, <1>7, FreeItems
<1>10. IndexOfBlock(memory', merging') = j
  <2>1. j \in DOMAIN memory' /\ memory'[j].start = merging'
    BY <1>5, <1>6, <1>9
  <2> QED
    BY <1>9, <2>1, BlockByStart
<1>11. OwnInv'
  <2>1. ASSUME NEW p \in Processes
        PROVE  child'[p] # "none" <=> memory_map'[p] # NULL
    BY <1>1, <1>2, <1>5, <2>1 DEF OwnInv
  <2>2. ASSUME NEW p \in Processes, NEW q \in Processes, Alive(p)', Alive(q)',
               memory_map'[p] = memory_map'[q]
        PROVE  p = q
    BY <1>1, <1>3, <2>2 DEF OwnInv
  <2>3. ASSUME NEW p \in Processes, Alive(p)'
        PROVE  \E b \in AllocatedBlocks(memory') :
                  b.start = memory_map'[p] /\ b.allocated = MemorySize[p]
    <3>1. Alive(p) /\ p # z /\ memory_map[p] # memory_map[z]
      BY <1>1, <1>3, <2>3 DEF OwnInv
    <3>2. PICK b \in AllocatedBlocks(memory) :
             b.start = memory_map[p] /\ b.allocated = MemorySize[p]
      BY <1>1, <3>1 DEF OwnInv
    <3>3. b \in AllocatedBlocks(memory')
      BY <1>5, <1>8, <3>1, <3>2
    <3> QED
      BY <1>1, <3>2, <3>3
  <2>4. ASSUME NEW b \in AllocatedBlocks(memory')
        PROVE  \E p \in Processes : Alive(p)' /\ memory_map'[p] = b.start
    <3>1. b \in AllocatedBlocks(memory) /\ b # memory[j]
      BY <1>8
    <3>2. PICK p \in Processes : Alive(p) /\ memory_map[p] = b.start
      BY <1>1, <3>1 DEF OwnInv
    <3>3. b.start # memory_map[z]
      BY <1>1, <3>1, AllocatedAt DEF j
    <3> QED
      BY <1>1, <1>3, <3>2, <3>3
  <2> QED
    BY <1>1, <1>6, <2>1, <2>2, <2>3, <2>4 DEF OwnInv
<1>12. FoundInv'
  BY <1>1, <1>6 DEF FoundInv
<1>13. \A l : ~FreeBuddies(memory, l)
  BY <1>1, BuddiesAtHand
<1>14. BuddyInv'
  BY <1>5, <1>6, <1>8, <1>10, <1>13 DEF BuddyInv, At
<1> QED
  BY <1>11, <1>12, <1>14

(* The handler merges until it finds nothing to merge.                      *)
LEMMA OwnMerge ==
  ASSUME PromptGenInv, MergeBlock
  PROVE  OwnInv' /\ FoundInv' /\ BuddyInv'
<1> DEFINE j == At(merging)
           l == MergedAt(memory, j)
<1>1. /\ GenInv /\ TurnInv /\ OwnInv /\ BuddyInv /\ MemoryOK(memory) /\ merging # NULL
      /\ HasBlock(memory, merging) /\ memory[j].allocated = 0
      /\ pc \in {"sleep", "done"} /\ pc' = pc
      /\ UNCHANGED <<memory_map, child, waited, block, proc>>
  BY DEF PromptGenInv, GenInv, BlockInv, TurnInv, MergeBlock, loopVars
<1>2. j \in DOMAIN memory
  BY <1>1, BlockThere
<1>3. \A m : FreeBuddies(memory, m) => j \in {m, m + 1}
  BY <1>1, BuddiesAtHand
<1>4. FoundInv'
  BY <1>1 DEF FoundInv
<1>5. CASE ~Mergeable(memory, j) /\ UNCHANGED memory
  <2>1. \A m : ~FreeBuddies(memory, m)
    BY <1>1, <1>2, <1>3, <1>5, MergeableBuddies
  <2>2. OwnInv' /\ BuddyInv'
    BY <1>1, <1>5, <2>1 DEF OwnInv, BuddyInv, Alive
  <2> QED
    BY <1>4, <2>2
<1>6. CASE Mergeable(memory, j) /\ memory' = merge_block(memory, j) /\ merging' = memory[l].start
  <2> HIDE DEF j
  <2>1. /\ MemoryOK(memory') /\ l \in DOMAIN memory'
        /\ l \in DOMAIN memory
        /\ memory'[l].start = memory[l].start /\ memory'[l].allocated = 0
        /\ AllocatedBlocks(memory') = AllocatedBlocks(memory)
        /\ \A m : FreeBuddies(memory', m) =>
             l \in {m, m + 1} \/ \E k : FreeBuddies(memory, k) /\ j \notin {k, k + 1}
    BY <1>1, <1>2, <1>6, MergeEffect
  <2> HIDE DEF l
  <2>2. IndexOfBlock(memory', merging') = l
    BY <1>6, <2>1, BlockByStart
  <2>3. merging' # NULL
    BY <1>1, <1>6, <2>1, BlockTypes, ListFacts
  <2>4. OwnInv'
    BY <1>1, <2>1 DEF OwnInv, Alive
  <2>5. BuddyInv'
    BY <1>3, <2>1, <2>2, <2>3 DEF BuddyInv, At
  <2> QED
    BY <1>4, <2>4, <2>5
<1> QED
  BY <1>5, <1>6 DEF MergeBlock

(* A block is allocated for a request that is not larger, and no step makes *)
(* an allocated block smaller.                                              *)
LEMMA SizeStep ==
  ASSUME GenInv, SizeInv, [Next]_vars
  PROVE  SizeInv'
<1>1. MemoryOK(memory) /\ TypeOK /\ BlockInv /\ LoopInv
  BY DEF GenInv
<1>2. CASE UNCHANGED memory
  BY <1>2 DEF SizeInv
<1>3. CASE SplitBlock /\ memory' # memory
  <2> DEFINE j == At(block)
             r == MemorySize[proc]
  <2>1. /\ proc \in Processes /\ HasBlock(memory, block)
        /\ memory[j].allocated = 0 /\ r <= memory[j].size
    BY <1>1, <1>3 DEF SplitBlock, LoopInv, BlockInv, TypeOK
  <2>2. /\ j \in DOMAIN memory /\ memory[j].size \in BlockSizes
        /\ memory[j].size \in Nat /\ memory[j] \in Blocks /\ r \in Nat \ {0}
    BY <1>1, <2>1, BlockThere, ListFacts
  <2>3. CASE TooLarge(memory[j], r) /\ memory' = split_block(memory, j)
    <3>1. memory[j].size >= 2
      BY <2>1, <2>2, <2>3, HalfIsEnough
    <3> HIDE DEF j
    <3>2. AllocatedBlocks(memory') = AllocatedBlocks(memory)
      BY <1>1, <2>1, <2>2, <2>3, <3>1, SplitEffect
    <3> QED
      BY <3>2 DEF SizeInv
  <2>4. CASE memory' = [memory EXCEPT ![j].allocated = r]
    <3> DEFINE nb == [memory[j] EXCEPT !.allocated = r]
    <3>1. memory' = Marked(memory, j, r)
      BY <2>4 DEF Marked
    <3> HIDE DEF j, r
    <3>2. AllocatedBlocks(memory') = AllocatedBlocks(memory) \cup {nb}
      BY <1>1, <2>1, <2>2, <3>1, MarkAllocated
    <3>3. nb.allocated = r /\ nb.size = memory[j].size
      BY <2>2 DEF Blocks
    <3> HIDE DEF nb
    <3> QED
      BY <2>1, <3>2, <3>3 DEF SizeInv
  <2> QED
    BY <1>3, <2>1, <2>3, <2>4 DEF SplitBlock
<1>4. CASE MergeBlock /\ memory' # memory
  <2> DEFINE j == At(merging)
  <2>1. /\ HasBlock(memory, merging) /\ memory[j].allocated = 0
        /\ Mergeable(memory, j) /\ memory' = merge_block(memory, j)
    BY <1>1, <1>4 DEF MergeBlock, BlockInv
  <2>2. j \in DOMAIN memory
    BY <1>1, <2>1, BlockThere
  <2> HIDE DEF j
  <2>3. AllocatedBlocks(memory') = AllocatedBlocks(memory)
    BY <1>1, <2>1, <2>2, MergeEffect
  <2> QED
    BY <2>3 DEF SizeInv
<1>5. ASSUME NEW p \in Processes, handle_child_exit(p), memory' # memory
      PROVE  SizeInv'
  <2> DEFINE j == At(memory_map[p])
  <2>1. HasBlock(memory, memory_map[p]) /\ memory' = Marked(memory, j, 0)
    BY <1>5 DEF handle_child_exit, Marked
  <2>2. j \in DOMAIN memory
    BY <1>1, <2>1, BlockThere
  <2> HIDE DEF j
  <2> DEFINE new == memory'
  <2>3. new = Marked(memory, j, 0) /\ memory \in Seq(Blocks) /\ memory[j] \in Blocks
    BY <1>1, <2>1, <2>2 DEF j, TypeOK
  <2>4. memory[j].allocated # 0
    <3> SUFFICES ASSUME memory[j].allocated = 0 PROVE new = memory
      BY <1>5 DEF new
    <3>1. [memory[j] EXCEPT !.allocated = 0] = memory[j]
      BY <2>3 DEF Blocks
    <3> QED
      BY <2>2, <2>3, <3>1 DEF Marked
  <2>5. AllocatedBlocks(new) \subseteq AllocatedBlocks(memory)
    BY <1>1, <2>2, <2>3, <2>4, MarkFree
  <2> QED
    BY <2>5 DEF SizeInv, new
<1> QED
  BY <1>2, <1>3, <1>4, <1>5 DEF Next, Loop, Handler, TestLoop, get_oldest_fit,
     get_smallest_block, TestArrival, Sleep, FindBlock, AddToWaitingList, fork_and_send,
     SendNoMore, Tick, Exit, vars, memVars
-----------------------------------------------------------------------------
(* The allocated blocks are those of the live processes and of the one that *)
(* is being forked, when signals arrive while the loop sleeps and the map   *)
(* has room.                                                                *)
THEOREM GeneratorPromptInvariant == ASSUME Prompt, RoomInMap PROVE Spec => []PromptGenInv
<1>1. Init => PromptGenInv
  <2> SUFFICES ASSUME Init PROVE PromptGenInv
    OBVIOUS
  <2>1. /\ memory = init_memory /\ pc = "test" /\ merging = NULL /\ waited = FALSE
        /\ memory_map = [p \in Processes |-> NULL] /\ child = [p \in Processes |-> "none"]
    BY DEF Init
  <2>2. OwnInv
    BY <2>1, InitList DEF OwnInv, Alive
  <2>3. TurnInv /\ FoundInv /\ BuddyInv /\ SizeInv
    BY <2>1, InitList DEF TurnInv, FoundInv, BuddyInv, SizeInv
  <2> QED
    BY <2>2, <2>3, GenInit DEF PromptGenInv
<1>2. PromptGenInv /\ UNCHANGED vars => OwnInv' /\ FoundInv' /\ BuddyInv'
  <2> SUFFICES ASSUME PromptGenInv, UNCHANGED vars PROVE OwnInv' /\ FoundInv' /\ BuddyInv'
    OBVIOUS
  <2>1. OwnInv'
    BY DEF PromptGenInv, OwnInv, Alive, vars, memVars, loopVars
  <2>2. FoundInv'
    BY DEF PromptGenInv, FoundInv, Alive, Fits, Smallest, vars, memVars, loopVars
  <2>3. BuddyInv'
    BY DEF PromptGenInv, BuddyInv, At, vars, memVars, loopVars
  <2> QED
    BY <2>1, <2>2, <2>3
<1>3. PromptGenInv /\ [Next]_vars => OwnInv' /\ FoundInv' /\ BuddyInv'
  BY <1>2, OwnLoop, OwnFind, OwnSplit, OwnWait, OwnFork, OwnExit, OwnChildExit, OwnMerge
     DEF Next, Loop, Handler
<1>4. PromptGenInv /\ [Next]_vars => TurnInv'
  BY TurnStep DEF PromptGenInv
<1>5. PromptGenInv <=> GenInv /\ TurnInv /\ OwnInv /\ FoundInv /\ BuddyInv /\ SizeInv
  BY DEF PromptGenInv
<1>6. PromptGenInv /\ [Next]_vars => SizeInv'
  BY SizeStep DEF PromptGenInv
<1> QED
  BY <1>1, <1>3, <1>4, <1>5, <1>6, GeneratorInvariant, PTL DEF Spec

(* The invariant names the block of each process that was forked and not    *)
(* reaped.                                                                  *)
LEMMA OwnBlockHolds == PromptGenInv => OwnBlock
<1> SUFFICES ASSUME PromptGenInv, NEW p \in Processes, Alive(p)
             PROVE  /\ HasBlock(memory, memory_map[p])
                    /\ memory[At(memory_map[p])].allocated = MemorySize[p]
                    /\ \A q \in Processes :
                         Alive(q) /\ memory_map[q] = memory_map[p] => q = p
  BY DEF OwnBlock
<1>1. MemoryOK(memory) /\ OwnInv
  BY DEF PromptGenInv, GenInv
<1>2. PICK b \in AllocatedBlocks(memory) :
         b.start = memory_map[p] /\ b.allocated = MemorySize[p]
  BY <1>1 DEF OwnInv
<1>3. HasBlock(memory, b.start) /\ memory[At(b.start)] = b
  BY <1>1, AllocatedAt
<1> QED
  BY <1>1, <1>2, <1>3 DEF OwnInv

(* The entry of a process that was forked and not reaped is the block that  *)
(* was allocated for it, and nobody else has it.                            *)
THEOREM GeneratorOwnBlock == ASSUME Prompt, RoomInMap PROVE Spec => []OwnBlock
BY OwnBlockHolds, GeneratorPromptInvariant, PTL

(* The parts of the memory that two live processes asked for and hold do    *)
(* not overlap, and lie in the memory.                                      *)
LEMMA PartsApart ==
  ASSUME PromptGenInv, NEW p \in Processes, Alive(p)
  PROVE  /\ memory_map[p] \in 0 .. MAX_SIZE - MemorySize[p]
         /\ \A q \in Processes : Alive(q) /\ q # p =>
              \/ memory_map[p] + MemorySize[p] <= memory_map[q]
              \/ memory_map[q] + MemorySize[q] <= memory_map[p]
<1>1. MemoryOK(memory) /\ OwnInv /\ SizeInv
  BY DEF PromptGenInv, GenInv
<1>2. ASSUME NEW q \in Processes, Alive(q)
      PROVE  \E k \in DOMAIN memory :
               /\ memory[k].start = memory_map[q] /\ memory[k].start \in Nat
               /\ memory[k].size \in Nat /\ MemorySize[q] \in Nat
               /\ MemorySize[q] <= memory[k].size
               /\ memory[k].start + memory[k].size <= MAX_SIZE
  <2>1. PICK b \in AllocatedBlocks(memory) :
          b.start = memory_map[q] /\ b.allocated = MemorySize[q]
    BY <1>1, <1>2 DEF OwnInv
  <2>2. At(b.start) \in DOMAIN memory /\ memory[At(b.start)] = b /\ b.start \in Nat
    BY <1>1, AllocatedAt
  <2>3. b.allocated <= b.size
    BY <1>1 DEF SizeInv
  <2>4. /\ memory[At(b.start)].size \in Nat
        /\ memory[At(b.start)].start + memory[At(b.start)].size <= MAX_SIZE
    BY <1>1, <2>2, BlockTypes, EndsInMemory DEF Ends
  <2> QED
    BY <2>1, <2>2, <2>3, <2>4, ListFacts
<1>3. PICK k \in DOMAIN memory :
        /\ memory[k].start = memory_map[p] /\ memory[k].start \in Nat
        /\ memory[k].size \in Nat /\ MemorySize[p] \in Nat
        /\ MemorySize[p] <= memory[k].size
        /\ memory[k].start + memory[k].size <= MAX_SIZE
  BY <1>2
<1>4. memory_map[p] \in 0 .. MAX_SIZE - MemorySize[p]
  BY <1>3, MaxSizeOrder
<1>5. ASSUME NEW q \in Processes, Alive(q), q # p
      PROVE  \/ memory_map[p] + MemorySize[p] <= memory_map[q]
             \/ memory_map[q] + MemorySize[q] <= memory_map[p]
  <2>1. PICK l \in DOMAIN memory :
          /\ memory[l].start = memory_map[q] /\ memory[l].start \in Nat
          /\ memory[l].size \in Nat /\ MemorySize[q] \in Nat
          /\ MemorySize[q] <= memory[l].size
          /\ memory[l].start + memory[l].size <= MAX_SIZE
    BY <1>2, <1>5
  <2>2. memory_map[p] # memory_map[q]
    BY <1>1, <1>5 DEF OwnInv
  <2>3. k \in Nat /\ l \in Nat /\ k # l
    BY <1>1, <1>3, <2>1, <2>2, BlockTypes
  <2>4. /\ k < l => memory[k].start + memory[k].size <= memory[l].start
        /\ l < k => memory[l].start + memory[l].size <= memory[k].start
    BY <1>1, <1>3, <2>1 DEF MemoryOK, Ends
  <2> QED
    BY <1>3, <2>1, <2>3, <2>4
<1> QED
  BY <1>4, <1>5

(* When the last child has been reaped the memory is one free block again.  *)
THEOREM GeneratorAllReturned == ASSUME Prompt, RoomInMap PROVE Spec => []AllReturned
<1>1. PromptGenInv => AllReturned
  <2> SUFFICES ASSUME PromptGenInv, pc = "done", merging = NULL,
                      \A p \in Processes : child[p] = "reaped"
               PROVE  memory = init_memory
    BY DEF AllReturned
  <2>1. MemoryOK(memory) /\ OwnInv /\ BuddyInv
    BY DEF PromptGenInv, GenInv
  <2>2. AllocatedBlocks(memory) = {}
    BY <2>1 DEF OwnInv, Alive
  <2>3. \A l : ~FreeBuddies(memory, l)
    BY <2>1, BuddiesAtHand
  <2> QED
    BY <2>1, <2>2, <2>3, OneFreeBlock
<1> QED
  BY <1>1, GeneratorPromptInvariant, PTL
=============================================================================
