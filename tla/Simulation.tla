----------------------------- MODULE Simulation -----------------------------
(***************************************************************************)
(* What the whole program promises: one CPU, on which one of the forked     *)
(* processes at a time does its work, and one memory, of which each process *)
(* holds its part from its fork until it is done.  Module System is shown   *)
(* to implement this.                                                       *)
(***************************************************************************)
EXTENDS Integers

CONSTANTS Procs, Runtime, MemorySize, MAX_SIZE, NULL

VARIABLES
  life,     (* "unforked", "ready", "running" or "done"                     *)
  work,     (* what each process still has to do                            *)
  place     (* the address of the memory it holds, NULL if it holds none    *)

vars == <<life, work, place>>

Init ==
  /\ life = [p \in Procs |-> "unforked"]
  /\ work = Runtime
  /\ place = [p \in Procs |-> NULL]

Apart(a, m, b, n) == a + m <= b \/ b + n <= a

(* A process is forked with memory that nobody else holds any part of.      *)
Fork(p) ==
  /\ life[p] = "unforked"
  /\ \E a \in 0 .. MAX_SIZE - MemorySize[p] :
       /\ \A q \in Procs : place[q] # NULL => Apart(a, MemorySize[p], place[q], MemorySize[q])
       /\ place' = [place EXCEPT ![p] = a]
  /\ life' = [life EXCEPT ![p] = IF work[p] = 0 THEN "done" ELSE "ready"]
  /\ UNCHANGED work

Dispatch(p) ==
  /\ life[p] = "ready"
  /\ \A q \in Procs : life[q] # "running"
  /\ life' = [life EXCEPT ![p] = "running"]
  /\ UNCHANGED <<work, place>>

Preempt(p) ==
  /\ life[p] = "running"
  /\ life' = [life EXCEPT ![p] = "ready"]
  /\ UNCHANGED <<work, place>>

Work(p) ==
  /\ life[p] = "running"
  /\ work' = [work EXCEPT ![p] = @ - 1]
  /\ life' = [life EXCEPT ![p] = IF work[p] = 1 THEN "done" ELSE @]
  /\ UNCHANGED place

Free(p) ==
  /\ life[p] = "done"
  /\ place' = [place EXCEPT ![p] = NULL]
  /\ UNCHANGED <<life, work>>

Next == \E p \in Procs : Fork(p) \/ Dispatch(p) \/ Preempt(p) \/ Work(p) \/ Free(p)

Spec == Init /\ [][Next]_vars
=============================================================================
