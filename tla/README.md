# A specification of OS-Scheduler in TLA+

OS-Scheduler simulates a small operating system with real Unix processes: a
*process generator* forks user processes at their arrival times, a *scheduler*
runs one of them at a time under round robin (RR), highest priority first (HPF)
or shortest remaining time next (SRTN), and a *clock* ticks once per second.
This directory models the program, checks the models with TLC on small
instances, and proves theorems about them with TLAPS. Paths below are relative
to `src/src/` unless they say otherwise.

## The system

| Part | State it keeps | Operations | Talks to |
|---|---|---|---|
| Process generator (`process_generator.c`) | process list, next index `i`, waiting list | `create_processes`, `fork_and_send`, `handle_child_exit` (SIGCHLD), `clear_and_exit` (SIGINT) | sends PCBs and the end message; forks; memory manager |
| Memory manager (`memory_manager.c`), buddy memory (`buddy_memory.c`) | list of blocks, map pid → block | allocate, deallocate, `get_oldest_fit`, split, merge | called by the generator's loop and by its SIGCHLD handler |
| Scheduler (`scheduler.c`) | ready queue, `current_pcb`, `last_remain_time`, `no_more_processes`, the PCBs | the loop's turn, SIGUSR1 handler (termination), SIGUSR2 handler (tick) | receives messages; SIGCONT and SIGSTOP to processes |
| Ready queue (`DS/IQueue.c`, `circular_queue.c`, `priority_queue.c`) | a ring (RR) or a heap (HPF, SRTN) | enqueue, dequeue with or without removal, front, change_priority | the scheduler's loop and both handlers |
| User process (`process.c`) | `runtime` left, `last_clk` | `run_process`, SIGCONT handler | SIGUSR2 per tick, SIGUSR1 for the last |
| Clock (`clk.c`) | a counter in shared memory | one tick per second | read by all |
| Hash map, linked list (`DS/`) | buckets; doubly linked nodes | put, get; add, remove | memory manager; waiting list |
| Logs and statistics (`file_handlers.c`) | open files, running totals | one line per event, averages at the end | all |

What is hard about it: nothing is ordered by locks. Signal handlers interrupt the
loop that uses the same variables; two messages have different types and are read
at different places; equal signals coalesce; job-control signals cancel each
other; and the order of everything is left to sleeps of 1, 10, 15 and 50 ms. The
hazards are listed one by one, at their lines, in `PROJECT.json`.

What makes each part correct: one process runs at a time, no accepted process is
lost, the right one is chosen, a turn is exactly the quantum, both counts of the
remaining time agree, every process finishes and then the scheduler does
(scheduler, processes); the ring and the heap are what their callers take them
for (queues); blocks tile the memory, free buddies merge, a process's block stays
its own until it exits (memory); each process is forked once, at its arrival or
when its memory fits, and the end is announced (generator); turnaround, wait, idle
time and logged intervals agree with each other (statistics); every child exits and
the simulation comes to rest with all memory free (both programs together); no
message queue is left behind (shutdown).

## Modules

**`ReadyQueue.tla`** — the operations of `DS/IQueue.h` as operators on two values:
the ring is the sequence of its items from the head along `next`, with the
position of the tail (after a dequeue without removal the tail is no longer
last, and `cq_enqueue` inserts after the tail); the heap is the priority of each
item and the item at the root. A dequeue that may bring any of several least
items to the root is a set of results.

**`Scheduler.tla`** — the running simulation. `pc` names the scheduler's next step:

| `pc` | action | code |
|---|---|---|
| `test` | `NextTurn` | loop condition, `scheduler.c:82` |
| `recv` | `check_for_new_processes` (one message) | 133–189 |
| `dispatch` | `Dispatch` | 85–94, then `schedule_next_process` to 272 |
| `cont`, `mark` | `ContinueProcess`, `MarkStart` | `kill` 275; the uses of `current_pcb` after it, 276–285 |
| `check` | `handle_current_running_process` | 194–232, up to the test that `current_pcb` is not NULL |
| `compare` | `CompareCurrent` | the second load of `current_pcb`: the dereference in 197; 220–223, if the front of the queue is the current process |
| `due` | `ClipRemaining` | 198, 222–226 |
| `preempt`, `stop`, `drop`, `rotate` | `TestPreempted`, `StopProcess`, `DropCurrent`, `RotateQueue` | `handle_quantum_expiration`, 336, 340–353, 355–358, 361–362 |
| `nomore` | `check_no_more_processes` | 400–416 |
| `exit`, `crash` | — | left the loop; dereferenced NULL |

The handlers `handle_process_termination` and `handle_process_tick` are enabled
whenever their signal is pending, between any two of these steps. With both
pending the tick comes first: Linux sets up the frame of the lower-numbered
signal first and that of the higher on top of it. A user process is `phase`
(`unborn`, `init` until it raises SIGSTOP, `raised`, `loop`, `exited`), `stopped`,
the job-control signal on its way (`psig`), its `runtime` (`left`) and whether the
clock differs from its `last_clk` (`fresh`); the clock's value itself is not
needed. `Spawn` is `fork_and_send` for any process at any time: every arrival
pattern is a behaviour.

The code leaves its ordering to sleeps, so what holds depends on the machine. The
constant `Timing` says what is assumed:

* `any`: nothing. Every interleaving is a behaviour.
* `prompt`: the millisecond sleeps end, and what they wait for is done, before the
  next one-second tick; a forked child raises SIGSTOP within the 15 ms before its
  message is read; a SIGSTOP is taken within the 1 ms of `usleep(1000)`. This is
  what the code's sleeps are for.
* `apart`: prompt, and no process arrives in the 10 ms in which the running
  process has not yet seen the last tick.

**`SchedulerTimes.tla`** — the value of the clock and what the scheduler records from
it: `now` (the local `current_time` of `schedule_next_process`), `log_start_time`,
`last_process_end_time`, `idle_time`, each PCB's `wait_time`, and what `log_event` and
`scheduler_perf_out` make of them. It extends `Scheduler.tla`: an action that writes a
time is the action there, conjoined with what it writes; nothing there depends on a
time. A process is forked at its arrival or later (the waiting list). The
clock is `StartClock`, any number, when the scheduler starts; it also ticks while the CPU is
idle, up to `MaxClock`. `EndSettled` is part of what `prompt` assumes of the clock: the generator
announces the end, and the scheduler ends, within the second of the last fork or exit.

**`SchedulerProofs.tla`**, **`SchedulerTimesProofs.tla`**, **`QueueProofs.tla`**,
**`HashMapProofs.tla`**, **`BuddyMemoryProofs.tla`**, **`MemoryManagerProofs.tla`**,
**`GeneratorProofs.tla`**, **`SystemProofs.tla`** — lemmas and theorems about the modules
they are named for; `SchedulerProofs` begins with the operators of `ReadyQueue.tla`,
`QueueProofs` is about `CircularQueue.tla` and `PriorityQueue.tla`. The inductive invariants stand at the end of the modules themselves,
where TLC can check them.

**`QueueSpec.tla`** — the operations of `ReadyQueue` as a specification with one step
per operation: the promise on which `Scheduler.tla`, which uses the same operators,
relies. Two modules implement it, with a refinement mapping each; `Queueable.tla` declares what
both queue (and **`Pointers.tla`** the `NULL` of all data structures), and the names of the heap that the ring also has begin with `Heap` or `heap_`
(`heap_size` is `pq->size`):

* **`CircularQueue.tla`** — the nodes of `circular_queue.c` with their `next` and `prev`,
  one action per assignment of `cq_enqueue`. `IsRing` says that a list holds certain nodes,
  each once, in the order of `next`. A node that is being linked is in the abstract ring from
  the assignment on that makes it reachable (`q->tail->next`, or `q->head` if the queue was
  empty). `free` makes a node's fields unreadable.
* **`PriorityQueue.tla`** — the array of `priority_queue.c`, its doubling, one action
  per turn of `pq_enqueue`'s sifting loop and one per call of `pq_heapify`, whose recursion is
  its last act (`sifted` is its argument while it runs; nothing else happens until it is
  done). The abstract root is the node on its way up as soon as it is certain to arrive
  there, and the child that the first call of `pq_heapify` will bring there.

Both have a second specification (`InterruptedSpec`, `InterruptedHeapSpec`), in which the
scheduler's termination handler runs in the middle of an enqueue; what it breaks is listed
with the variations below.

**`BuddyMemory.tla`** — `buddy_memory.c`: the list of blocks as a sequence; the search
for a block, one split, one merge as operators. A pointer to a block is its start.
`log2` of 0 converts to the least integer on both sides of the comparison.

**`MemoryManager.tla`** — sequences of allocations and deallocations that do not
interrupt each other, split by split and merge by merge.

**`Generator.tla`** — the generator's loop, its waiting list, the memory and the
SIGCHLD handler:

| `pc` | action | code |
|---|---|---|
| `test` | `TestLoop` | `process_generator.c:161` |
| `oldest`, `smallest` | `get_oldest_fit`, `get_smallest_block` | 163, 176 and 166–175 |
| `arrival` | `TestArrival` | 179–183 |
| `find`, `split` | `FindBlock`, `SplitBlock` | `allocate_memory`, `buddy_memory.c:84–104` |
| `fork` | `AddToWaitingList`, `fork_and_send` | 184–191; 225–267 |
| `sleep` | `Sleep` | 199–202 |
| `end`, `done` | `SendNoMore` | 205–221 |
| `undefined` | — | a freed block was used |

`handle_child_exit` and `MergeBlock` are the handler; while it runs (`merging`) the loop
does not. A process here is forked, exits some time, and is reaped; what it does
between is `Scheduler.tla`'s. Its `Timing` is `any`, or `prompt`: signals arrive during
the 50 ms sleeps, and the loop has done everything there is to do at one second
before the clock ticks (a turn without work takes 50 ms, one with work no sleep).

**`System.tla`** — `Scheduler.tla` and `Generator.tla` composed. Each leaves open what the
other decides, and these are joint steps: `Fork` (`fork_and_send` is the scheduler's
`Spawn`), `AnnounceEnd` (the message that `check_no_more_processes` reads), `ExitOf` (a
process that ends is the zombie that `handle_child_exit` reaps), `TickOfBoth`. All other
steps are one program's. Under `prompt` both programs settle before a tick. It instantiates
`GeneratorProofs.tla`, and so `Generator.tla` with what is proved about it.

**`Simulation.tla`** — what the whole program promises: one CPU on which one forked
process at a time does its work, and one memory of which each holds its part, apart from
those of the others, from its fork until it is done. `System.tla` implements it: the process
with the CPU is `current_pcb` while it has work left, and its place is the block that the map
records for it, if that block is allocated to it.

**`Shutdown.tla`** — how a simulation ends. `pc` is `main` from `create_processes` through
`waitpid` and `destroy_clk`; `handler` is `clear_and_exit`, one action per call
(`free_linked_list`, `killpg`, `destroy_memory`, `hashmap_free`, `msgctl`, `exit`);
`handle_child_exit` may run on top of it. SIGINT comes from Ctrl-C, at any time, or from
`destroy_clk`. The children are only running, stopped, zombie or reaped. A handler
that uses freed memory may crash or not; one that logs with the clock's segment detached does.

**`HashMap.tla`** — `hash_map.c` for an arbitrary hash function, chosen in the initial
state; **`MapSpec.tla`** is the map it implements. In `Generator.tla` the map is a
function that refuses new entries when it is full; the real one may refuse earlier,
which `SpaceUpToRoot` bounds: among 100 buckets, not before it has 10 entries.

**`MCScheduler.tla`**, **`MCSchedulerTimes.tla`**, **`MCSystem.tla`**,
**`MCMemoryManager.tla`**, **`MCGenerator.tla`** — inputs and symmetry for TLC.
**`MCDataStructures.tla`** — the ring, the heap or the map, one of them in a behaviour; the names
of the map that others have too begin with `Hash` or `hash_`.

A definition named like its neighbour with a suffix (`TickSignal_early` beside
`TickSignal`) is a wrong form of it, used to see that a property can fail.

## Runs

| Run | Instance | Shows |
|---|---|---|
| `scheduler_hpf` | HPF, `any`, runtimes 2/0/1, arrivals at the start or at any time later | the inductive invariant `HPFInv`; `OneAtATime`, `FinishedMeansDone`, `NothingLost` need no assumption on time |
| `scheduler_rr` | RR, quantum 2, `prompt`, runtimes 3/1/2, arrivals 2/2/3, start at 1 | a turn is exactly the quantum, the counts agree, nothing is lost, a NULL is met only in `CompareCurrent`, every process finishes; waits, turnarounds, logged intervals and idle time add up |
| `system` | SRTN, `apart`, 5 processes, memory of 4 | the inductive invariant `PromptInv`, through preemption; ticks go to a shortest process; both programs implement `Simulation`; every child exits; the simulation comes to rest |
| `data_structures` | ring and heap: 4 items, 4 nodes, priorities 0–2, capacity 1; map: 4 keys, 2 values, 4 buckets | the ring is whole between operations, the heap ordered through growth and key changes, and both implement `QueueSpec`; the inductive invariant `MapInv`; puts and gets implement `MapSpec`; a put is refused only with at least √capacity entries |
| `memory_manager` | 4 processes, memory of 16 | the inductive invariant `MemInv`; blocks tile the memory, are held by one process each, coalesce; a refusal means there is no free place |
| `generator` | 5 processes, memory of 8, `prompt` | the inductive invariant `PromptGenInv`; each process forked once with its own block, waiting ones first; all memory is returned |
| `scheduler_last_pcb` | HPF, `prompt` | *violated*: the loop ends with a PCB unread |
| `scheduler_stale_key` | SRTN, `prompt` | *violated*: not the shortest is dispatched |
| `scheduler_null_current` | RR, `prompt` | *violated*: `current_pcb` is NULL when it is used, although it was not when tested |
| `scheduler_turnaround` | as `scheduler_rr` | *violated*: the turnaround logged is not the one of the logs in `tests.md` |
| `scheduler_utilization` | as `scheduler_rr` | *violated*: the scheduler reports more than the work as busy time |
| `shutdown` | 2 processes | *violated*: the generator crashes in `clear_and_exit` and the message queue stays |

What `scheduler_null_current` shows: `current_pcb` is a global that the SIGUSR1 handler sets to NULL, and
`scheduler.c:197` loads it twice, to test it and to read its remaining time (the `Makefile`
builds without optimisation); 220 and 223 do the same. The handler may run between the two loads on
any machine: the signal of a last tick comes at whatever point of its turn the scheduler is. All that
can be said of the rest is said by `CrashesOnlyInCompare`, which `scheduler_rr` checks and
`PromptCrashesOnlyInCompare` proves: on an orderly machine no handler and no other
step meets a NULL. Liveness is stated up to it: `WaitingFinishes`, `EveryChildExits` and
`ComesToRest` allow `pc = "crash"` as an end. How the generator and the children go on
beside a scheduler that has crashed is not modelled.

What `scheduler_turnaround` shows: `log_event` counts the turnaround from the arrival, so that it is the
wait plus the runtime (`TurnaroundIsWaitPlusRuntime`, as `PCB.h:13` has it). The logs of `src/tests.md`
were written by a program that counts it from the first dispatch: line 33 there has `total 1 ... wait
2 TA 1`, and so 51, 69, 99, 101, 103, 135 and 139, with the WTA and its averages. `TurnaroundFromStart` says so
of a process that ends in its first turn, and fails of the code.

What `scheduler_utilization` shows: the total time given to `scheduler_perf_out` is the clock's (103), but
idle time is counted from the clock's value at the scheduler's start (67–69). `StatisticsExact` says what
that comes to: total less idle time is the work done *and* `StartClock`. `src/tests.md` has both
results for 54 seconds of work in 64: 84.38% (line 143) is 54/64, as if started at 0;
85.94% (74 and 107) is 55/64, as started at 1. `UtilizationIsWork`, the first, fails if the clock was past 0.

What `shutdown` shows: `clear_and_exit` interrupts its children, frees the memory and
the map, and only then removes the message queue. A process that has just ended, of itself
or of that SIGINT, is meanwhile reaped by `handle_child_exit`, which searches the freed map. If that faults, the
queue of key `ftok("keyfile", 'A')` survives, and the next simulation's scheduler begins
with its messages.

`TurnaroundIsWaitPlusRuntime`, `StatisticsExact`, `RunsLoggedExactly` and `WaitingFinishes` also
hold in `SchedulerRR.cfg` with `Algo = "HPF"`, and with `Algo = "SRTN"`, `Timing = "apart"` and
`LongRuntime`, where processes are preempted at any tick. But for the two on shortest processes, the properties of `system` also hold
in `System.cfg` under `prompt` with HPF and with RR and a quantum of 2.

Variations: what is lost when an assumption of a passing run is dropped. Each is one
edit of its `.cfg` or of the input in its MC module, with only the property named,
and shows the code's own behaviour.

| In | Change | Then |
|---|---|---|
| `SchedulerHPF.cfg` | `TimedFairSpec`, `MixedRuntime`, `PROPERTY WaitingFinishes` | fails: a SIGCONT sent before the child's `raise(SIGSTOP)` (`process.c:53`) is used up; the process stops for good |
| `SchedulerRR.cfg` | `TimedSpec`, `Timing = "any"`, `CrashesOnlyInCompare` | fails: `current_pcb` is used after the `kill` (`scheduler.c:276`) when a short process has already ended; in other behaviours a late tick prints `current_pcb->PDATA.id` before the test for NULL (375) |
| `SchedulerRR.cfg` | `TimedSpec`, runtime 0 for `p2`, which arrives at 6, `MaxClock = 8`, `StatisticsExact` | fails: its PCB is dropped, the scheduler ends, and the idle time since the last run is never added (`scheduler.c:91`) |
| `System.cfg` | runtime 0 for `p3`, `EveryChildExits` | fails: its PCB is dropped (`scheduler.c:153`) and the process stays stopped, with its memory |
| `System.cfg` | size 4 for `p5`, `ComesToRest` | fails: `p5` is forked when nothing else is left, and its PCB is overtaken by the end message (as in `scheduler_last_pcb`) |
| `Generator.cfg` | `Spec`, `Timing = "any"`, `OwnBlock` | fails: SIGCHLD between the two searches for a block; a waiting process is recorded with a block that was merged away (`process_generator.c:171`) |
| `DataStructures.cfg`, of `CircularQueue` | `InterruptedSpec`, `TypeOK` | it stops in `undefined`: the handler empties the queue that `cq_enqueue` (34–39) is linking into: `q->tail` is NULL |
| `DataStructures.cfg`, of `PriorityQueue` | `InterruptedHeapSpec`, `HeapTypeOK` | `HeapTypeOK` fails: the handler's dequeue makes `pq_enqueue` count an empty place (`priority_queue.c:54`) |
| `MemoryManager.cfg` | 0 in `Sizes` | `Tiles` fails: `buddy_memory.c:94` splits down to a block of size 0 (`test_generator.c:36` writes such requests) |
| `Generator.cfg` | `Arrival <- Unsorted` | `AllForked` fails: an arrival listed after a later one is never noticed (`process_generator.c:179`) |
| `Generator.cfg` | `MapCapacity = 4` | `AllReturned` fails: the fifth process has no entry (`hash_map.c:27`), its block is never freed |

Bounds of the scheduler: three processes are the least with which one is current, one waits and one
arrives; runtimes up to 4 let a process be preempted twice under quantum 2 and let
two shorter ones arrive while one runs (in `system` five processes, runtimes up to 5); runtime 0 is the PCB the scheduler
rejects; two equal priorities make the heap's tie. Nothing else is bounded: the
state space is finite because each process is forked once and works its runtime.
With times, the scheduler starts at 1, before the first arrival, and `MaxClock = 5` lets the CPU be idle until then and after a
process that ends early; while a process runs the clock is not bounded. In `scheduler_hpf` it need not pass while the CPU is idle:
a process may be forked whenever the clock is at least its arrival time, 1 for each.

Bounds of the others: a ring of four has a head, a tail and nodes that are neither, and one of three
leaves a node whose address is not reused at once. A heap of four
has three levels and has doubled twice from 1. A memory of 8 has four levels of
blocks (`memory_manager` has 16 and so five); requests that are and are not powers of
two; four processes fill it in every way. The generator's input (`MixedSizes`) makes two processes wait, of which the
later one fits first, while another arrives; its clock stops after the last arrival,
where nothing reads it any more. `System`'s memory of 4 makes `p3` wait for `p1` and `p4`
for `p3`, while the long `p2` is preempted for each of them, so that an exit in one program is what a
fork in the other waits for; the last process of the input does not have to wait for
all memory (see the variations). Two user processes in `Shutdown` let one be reaped before the memory
is freed and one after. Four buckets are, as the program's 100 are, a
square, so that a search comes back to its first bucket before it has seen all;
all 256 hash functions, up to the names of the keys, are initial states.

Fairness (`FairSpec`): weak fairness of the scheduler's loop, of each handler, of each
process and of the clock: the kernel runs every runnable process and delivers
every signal. The generator is not fair (an input file may end anywhere). `TimedFairSpec`
is the same, and the end message follows the last fork, as no step of the
generator waits in between.

In `Generator.tla` the exits of processes are fair, and the handler and the clock
strongly fair: under `prompt` they act only while the loop sleeps, which it does again
and again while it has nothing to do. `SysFairSpec` combines both without the first: that
processes exit is there the scheduler's doing, and `EveryChildExits` shows it.

Deadlock checking is off in the runs of the scheduler and of the generator, because
the simulation ends (`shutdown` too); the data structures never stop.

## Proofs

Every theorem is about the specification itself (`Spec => ...`) and for every value of
the constants that the named assumptions allow: `NULL` is no process, runtimes and
priorities are natural numbers, the quantum is positive (`parse_args` refuses others),
the memory's size is a power of two, the capacity of the map is positive, no process
stands in the input list twice. A further hypothesis stands in the theorem's `ASSUME`.

| Module | Hypothesis | Theorems | State |
|---|---|---|---|
| `SchedulerProofs` | none | `TypeCorrect` | `TypeOK` |
| | HPF | `HPFInvariant`, `HPFOneAtATime`, `HPFFinishedMeansDone`, `HPFNothingLost` | `HPFInv`, `OneAtATime`, `FinishedMeansDone`, `NothingLost` |
| | `Orderly` | `PromptInvariant`, `PromptOneAtATime`, `PromptNothingLost`, `PromptFinishedMeansDone`, `PromptCrashesOnlyInCompare`, `PromptCountersAgree` | `PromptInv`, `OneAtATime`, `NothingLost`, `FinishedMeansDone`, the action property `CrashesOnlyInCompare`, `CountersAgree` |
| | RR, prompt | `RRQuantumExact` | `QuantumExact` |
| | SRTN, `apart` | `SRTNDispatchesShortest`, `SRTNShortestRuns` | the action properties `DispatchesShortest`, `ShortestRuns` |
| `SchedulerTimesProofs` | `Orderly` | `TimesInvariant`, `TurnaroundExact`, `RunsExact` | `TimesInv`, `TurnaroundIsWaitPlusRuntime`, the action property `RunsLoggedExactly` |
| | `Orderly`, `ValidInput` | `StatisticsAreExact` | `StatisticsExact` |
| `HashMapProofs` | none | `MapInvariant`, `MapImplemented`, `MapSpaceUpToRoot` | `MapInv`, the refinement `ImplementsMap`, `SpaceUpToRoot` |
| `MemoryManagerProofs` | `0 \notin Sizes` | `MemInvariant`, `MemTiles`, `MemBlocksAreHeld`, `MemCoalesced`, `MemRefusesOnlyWhenFull` | `MemInv`, `Tiles`, `BlocksAreHeld`, `Coalesced`, `RefusesOnlyWhenFull` |
| `GeneratorProofs` | none | `GeneratorInvariant`, `GeneratorEachOnce` | `GenInv`, `EachOnce` |
| | prompt | `GeneratorNoOvertaking` | the action property `NoOvertaking` |
| | prompt, `RoomInMap` | `GeneratorPromptInvariant`, `GeneratorOwnBlock`, `GeneratorAllReturned` | `PromptGenInv`, `OwnBlock`, `AllReturned` |
| `SystemProofs` | none | `SystemRunsBoth` | every behaviour is one of `Scheduler` and of `Generator` |
| | `Orderly`, `RoomInMap` | `SystemInvariant`, `SystemImplementsSimulation` | `SysInv`, the refinement `ImplementsSimulation` |
| `QueueProofs` | none | `RingInvariant`, `RingTypeCorrect`, `RingWellLinked`, `RingImplementsReadyQueue` | `RingInv`, `TypeOK`, `WellLinked`, the refinement `ImplementsReadyQueue` |
| | none | `HeapInvariant`, `HeapTypeCorrect`, `HeapOrdered`, `HeapImplementsReadyQueue` | `HeapInv`, `HeapTypeOK`, `HeapOrder`, the refinement `HeapImplements` |

The hypotheses, and what happens without them:

* `Orderly` is `prompt`, and under SRTN `apart`: the timing that the code's sleeps are for (see
  `Scheduler.tla` above). Without it the statements are false: `scheduler_stale_key` is a
  counterexample under SRTN and `prompt`, the variation of `SchedulerRR.cfg` one of `CrashesOnlyInCompare`
  under `any`. What holds on any machine is `TypeCorrect`, and the safety of HPF.
* `0 \notin Sizes`: `buddy_memory.c:94` splits for a request of 0, which `test_generator.c:36` may
  write, down to a block of size 0 (a variation above). In `Generator.tla` the assumption on
  `MemorySize` says the same.
* `prompt` in the generator: SIGCHLD comes while the loop sleeps. Without it `OwnBlock` fails
  (a variation above); `EachOnce` needs no such hypothesis.
* `RoomInMap`: the map has an entry for every process of the input. The program's has 100; with less, `AllReturned`
  fails. The model's map refuses only when it is full; the real one may refuse
  earlier, but, by `MapSpaceUpToRoot`, none of the first ten processes.
* `ValidInput`: finitely many processes, each with a runtime. The scheduler drops the PCB of a
  process without one; if that process is the last to arrive, the idle seconds before it are never added, and
  `StatisticsExact` fails (a variation above).

### The scheduler

`TypeCorrect` includes the well-formedness of the ready queue, which needs lemmas about
each queue operation: what it keeps, which items it adds and removes,
that a ring holds nothing twice, that the root of a heap is a least item.

Under HPF neither `OneAtATime` nor `FinishedMeansDone` is inductive: that the
running process is the current one depends on what its PCB's `state` says, on
there being no SIGSTOP on the way, and on the pending SIGUSR1 being the current
process's own. `HPFInv` is the conjunction of these: `Lifecycle` relates the
scheduler's state of a process to the process's own, `NothingPreempted` and
`OwnSignal` speak of the signals, `InboxDistinct` of the messages.

Under RR and SRTN a process may be stopped at any tick, and `PromptInv` takes the place of
`HPFInv`. Its `Stage` gives each process one of four stages by what its PCB's `state` says:
`Unscheduled`, `OnCPU`, `PutAside` (with its SIGSTOP still on the way while `pc` is
`rotate`), `Ended`. `TickInv` says who can see a tick and that while one is under
way nothing is decided or sent; `StepsInv` where the loop is when there is no current
process, from which `CrashesOnlyInCompare` follows; `QueueInv` that the current process is at the ring's
front, and that the keys of SRTN's heap are the remaining times; `QuantumInv` what a turn has
used. None of them is inductive without the others: that the termination handler
dequeues the right process needs the front, the front needs the rotation, the
rotation needs the count of the quantum, the count needs that no tick is lost.

`TimesInv` adds to it that every second since the arrival of the current process was
waited, worked, or is the tick about to be counted (`WaitInv`), and the same of the
seconds since its run began (`RunInv`). Each step of `SchedulerTimes.tla` is one of
`Scheduler.tla` or changes nothing of it, so `PromptInv` is not proved twice.

`StatisticsExact` speaks of the end, and is inductive only together with what has been added up
so far (`StatsInv`): while there is a current process the clock is the idle time plus the work
done (`BusyInv`), and while there is none that is so of the end of the last run (`SpellInv`). The
seconds since then are added by the next `Dispatch`, but HPF has a second place that
schedules (`scheduler.c:205`), which adds nothing, and the scheduler may end instead: `SpellOver` says when
neither may find that time has passed. The sums are folds over the processes, whose
recursive function exists for a finite set (`SumRecursion`) and whose value changes by what one
summand does (`SumChange`), both by induction over a set of cardinalities.

### The memory

`BuddyMemoryProofs` is about lists of blocks. `MemoryOK` says that the list begins at 0, that
each block begins where the one before ends, that the last ends at `MAX_SIZE`, and that
each size is a half of a half ... of `MAX_SIZE` and divides the block's start. A split keeps
it, and so does a merge, since `start ^ size` finds a block of the same size beside it
(`MergePlace`). The powers of two are handled without induction over a formula, which
the prover does not have: `2 ^ k` is the number of subsets of `1 .. k`, and induction is
over a set of numbers (`SetInduction`).

`MemInv` adds that allocated blocks are held, by one process each and not twice
too large (`HeldInv`), and that the block at hand is free and the only one beside
which a free buddy can be (`HandInv`): `Coalesced` is that last part when nothing is at
hand. `RefusesOnlyWhenFull` then follows by `FreeRegion`: if an aligned region is free,
the free blocks it consists of would be buddies, unless one is as large as the
region.

### The generator

`GenInv` holds whenever signals come: the loop's variables (`LoopInv`), and what is known of
the block it is about to split when the handler may have merged it away (`BlockInv`).
`PromptGenInv` adds that no process of the waiting list fits while a newcomer is looked after
(`TurnInv`), that the allocated blocks are those of the living processes and of one that is about to
be forked (`OwnInv`), that what was found for a waiting process is what it is given (`FoundInv`), and that free buddies are
left only at the loop's or the handler's block (`BuddyInv`). When all are reaped there is no
allocated block, so no free block has a buddy that is not free, and the list is one block.

### The whole program

`SystemRunsBoth` is the reason to compose the two models by joint steps: a step of the
composition is a step of each, or leaves it alone, so `PromptInv` and `PromptGenInv` hold of it
without another proof. `SysInv` adds what only the two together know (`LinkInv`): a process is
forked for the one exactly if it is for the other, and it has exited for the scheduler exactly
if it is a zombie, or reaped, for the generator. For the refinement each step is mapped: a
fork to `Fork`, since the new block tiles the memory with the others and so is apart from
theirs; the choice of the next process, at which nobody else is current, to `Dispatch`; the
drop of a preempted process, already stopped, to `Preempt`; its poll of a new clock value to
`Work`, since only the current process sees a tick; the handling of its exit, before which nothing
splits or merges its block, to `Free`; everything else to a stutter.

### The queues

Between operations the ring is easily described (`WellLinked`), but an enqueue goes through five
states in which it is not true. `RingInv` says which list is a ring in each of them (`Whole`: the
other nodes until the tail's `next` is set, then all), that only the link being set may be wrong,
that `size` and the set of nodes differ by the node under way (`Counted`), and what the new node's
own links are so that the next assignment completes them (`Linkable`: without `next[node] =
next[tail]` the ring could be cut). That a list which is a ring is the only one (`RingUnique`) makes
the refinement mapping, a choice of such a list, a function of the state; each operation then
has its lemma about lists: a node inserted after the tail, the ring turned by one,
its first node removed.

`HeapOrder` allows one node to be out of order, the one that moves, and says what then holds of
its children and the node above it; without that the step that ends the
movement could not restore the order. `Moving` adds where that node is, that no item is
queued twice, and that there is room for a node that is stored. A node of least priority at the root
follows from `HeapOrder` by the least place that would contradict it (`Bound`), and the
refinement from that: the root after a dequeue or a change of priority is one that
`ReadyQueue` allows.

### The map

`MapInv` says that no key has two entries and that the search for the key of an entry ends at
that entry. The latter is what a removal would break; nothing calls it. `MapImplemented`
gives the refinement: a put is `MapSpec`'s put with the result it has there, a get
changes nothing. `MapSpaceUpToRoot` is by the pigeonhole principle: the first
buckets of a search, whose steps' squares are below the capacity, are all different.

## Only model-checked

Liveness: `WaitingFinishes`, `AllForked`, `EveryChildExits` and `ComesToRest`; fairness and `ENABLED`
are out of the prover's reach. Every other property of a passing run is a theorem. What
`Shutdown.tla` is for is a counterexample; nothing is proved of it.

## Not modelled

* Start-up: SIGINT before the message queue exists or before a child has reset its
  handler; an input file that cannot be read, which ends the generator with the clock
  left running (`process_generator.c:64`).
* Failing system calls, `malloc` returning NULL, argument and input parsing, reuse of a pid.
* Statistics over doubles and their formatting. `scheduler_perf_out` reads `WTAs`, an
  array nothing assigns (`file_handlers.c:208`), so the standard deviation it
  writes is of no data; `round_number` gives `snprintf` the size of a pointer (253).
* `print_memo`, `free_queue`, `cq_free`, `pq_free`, `hashmap_remove` (which breaks the
  searches of the keys that collided with the removed one) and the list operations that nothing
  calls.
* In `Shutdown.tla`, what a crash does beyond ending the generator, and stopped processes
  that nobody continues any more: they keep a pending SIGINT until the kernel ends
  the orphaned group.

`hash_map.h:45` says that `hashmap_put` returns 0 on success; it returns 1 for a new
entry and 0 for a replaced one, and `memory_manager.c:45` relies on that. The model
does what the code does.

## What is left

The planned models and proofs are done. Beyond them the code would still allow: start-up and its
failing calls as a module of their own, joined with `Shutdown.tla`; and the
interrupted enqueues inside `Scheduler.tla`, where an enqueue is one step and the handlers wait
for its end.
