# Formal models of the Computer System Concepts projects

The repository holds the programming projects of an operating-systems course,
one directory per chapter. They are small, but they are the algorithms an
operating system rests on: a bounded buffer, a thread pool, CPU scheduling,
deadlock avoidance, memory allocation and address translation. This directory
holds TLA+ models of all of them, TLC configurations that check the models on
small instances, and machine-checked proofs that every safety property checked holds for
every size.

`PROJECT.json` lists, for every definition that models code, the file and the
lines it was translated from (`map`), every run with its properties, the
theorems, the hazards and the findings. Paths below are relative to `src/`.

## 1. Inventory

| Component | State | Operations | Who interacts | What is hard |
|---|---|---|---|---|
| Project 5, `producer_consumer` | ring, `count`/`front`/`rear`, mutex, two semaphores | `insert_item`, `remove_item`, create, sleep, cancel, join | N producers, M consumers and `main`, by shared memory, semaphores and `pthread_cancel` | interleaving, permits against slots, cancellation in the middle of a call |
| Project 5, `thread_pool` | ring of tasks, `count`, mutex, one semaphore | `pool_init`, `pool_submit`, `worker`, `pool_shutdown` | the client and three workers | lost or extra permits, `count` as load and store, refusal at the limit, shutdown |
| Project 6, `banker` | `available`, `maximum`, `allocation`, `need` | `RQ`, `RL`, `*`, `exit` | one user; the customers are data | the undo of a refused request, safety after releases, exactness of the greedy test |
| Project 7, `memory_allocation` | list of blocks | `RQ` (first, best, worst fit), `RL`, `C`, `STAT`, `X` | one user | split and merge cases, the one-unit boundary, compaction |
| Project 8, `fifo_none`, `main` | TLB, page table, memory, statistics | one translation per input line | the input file | TLB against page table, the FIFO pointers |
| Project 8, `fifo_fifo` | the same, `FRAME_TO_PAGE`, valid bits | the same with page replacement | the input file | stale entries in either table |
| Project 4, `scheduling` | the task list | `add`, `schedule` of five policies, `insert`, `delete` | the driver calls one scheduler | order and fairness of turns, the last quantum, deletion by name |
| Project 1, `jiffiesproc`, `secondsproc` | `init`, the static `completed` | load, read, unload | any number of reading processes | readers share `completed`; `jiffies` wraps around |
| Project 2, `pid` | `l_pid`, `completed` | load, read, write, unload | readers and writers, and tasks that exit | unsynchronised state |
| Project 2, `shell` | `args`, flags; the processes and who waits for whom | run, redirect, pipe, background, `!!` | shell, children, pipe | children that do not exit, waiting before the reader runs, flags of older commands |
| Project 3, parallel sorts | a shared list | fork, sort, join, merge | one thread per half | disjoint ranges, join before merge |

The components are separate programs: none of them calls another. What is
composed is inside each of them (threads with the ring and its semaphores, the
TLB with the page table and the frames, commands with the block list), and each
composition is one module, related to an abstract specification where one says
something the invariants do not. The two virtual memory programs are composed over
the input file they share.

### Correctness, per component

* **Producer-consumer**: the ring is only touched under the mutex; the permits
  count the slots; no call ever fails; items come out once and in order;
  `main` returns.
* **Thread pool**: each accepted task is started at most once and in order,
  a worker that enters `dequeue` finds a task, accepted work starts, and
  `pool_shutdown` returns.
* **Banker**: resources are conserved, every reachable state is safe, and the test
  refuses only what is unsafe.
* **Allocator**: processes own disjoint regions, the list stays in order, holes
  are merged, the searches choose the hole they are named for, memory does not
  get lost.
* **Virtual memory**: what is printed is the byte of the backing store; the TLB
  agrees with the page table; replacements are first-in first-out; the
  statistics add up; a smaller memory changes the faults and nothing else.
* **Schedulers**: every task gets exactly its burst in as few slices as the quantum
  allows, in the order of the policy, with even turns where it takes turns.
* **/proc files**: an undisturbed reader gets one text and then the end of the
  file; readers that share the flag put it back and all come to an end; the
  time shown is exact while its numbers fit.
* **Shell**: what is run is what was typed; a foreground command is waited for;
  the shell comes back to its prompt.
* **Parallel sorts**: tasks that run at the same time touch disjoint ranges, and
  each leaves its range sorted.

## 2. Modules

| Module | What it models |
|---|---|
| `ProducerConsumer` | `buffer.c` and `main.c` of the bounded buffer |
| `BoundedBuffer` | what the buffer promises: a bounded FIFO queue with atomic operations |
| `ThreadPool` | `threadpool.c` and `client.c` |
| `WorkQueue` | what the pool promises: accept or refuse, start in order, once |
| `FifoNone`, `FifoFifo` | `fifo_none.c` (and `main.c`, the same text) and `fifo_fifo.c` |
| `VirtualMemory` | both programs on one input file |
| `FifoCache` | a cache with FIFO replacement; the TLB and the frames implement it |
| `MemoryAllocator` | `memory.c` and `allocator.c` |
| `MemoryMap` | disjoint regions with owners, changed by their owners or by compaction |
| `Banker` | `banker.c` and `main.c` of the banker |
| `Scheduling` | `driver.c`, `list.c`, `CPU.c` and the five `schedule_*.c` |
| `ProcFile` | `jiffiesproc.c`, `secondsproc.c` and `pidproc.c`, with the processes that use the files |
| `Shell` | `simple-shell.c` and the processes it starts |
| `ForkJoinSort` | `mergesort.c`, `Mergesort.java` and `Quicksort.java` |
| `MC*` | instances for TLC |
| `Arithmetic` | lemmas about remainders, induction and recursion |
| `ResourceProofs` | theorems about `Banker` and `MemoryAllocator` |
| `LinuxProofs` | theorems about `ProcFile` and `Shell` |
| other `*Proofs` | theorems about the module of that name |

Names follow the source: a variable or operator called `front`, `is_full`,
`consult_tlb`, `remove_block` or `is_safe` is the one of that name in the code.
Operators whose comment starts with *Mutant* are plausible bugs; nothing uses
them. They document what each property is there to find, and `PROJECT.json`
says which property each of them breaks.

### ProducerConsumer

`pc[t]` is the position of thread `t`:

| `pc` | code | next step |
|---|---|---|
| `new` | before `pthread_create` | `MainCreate` |
| `sleep` | `sleep` in `producer`/`consumer` | `Produce` / `Awake` |
| `wait` | `sem_wait` | `WaitEmpty` / `WaitFull` |
| `lock` | `pthread_mutex_lock` | `Lock` |
| `access` | the `if` and the updates before `printf` | `Store` / `Fetch` |
| `print` | in `printf` | `AdvanceRear` / `AdvanceFront` |
| `unlock` | `pthread_mutex_unlock` | `Unlock` |
| `post` | `sem_post`, return, the caller's test | `PostFull` / `PostEmpty` |
| `exited` | cancelled | `MainJoin` |

The updates before and after `printf` are two steps because the thread can be
cancelled between them. What happens inside the critical section is otherwise
one step: `MutualExclusion` shows that nobody else can see it happen. An item
is any member of `Items`; producers and consumers that have been cancelled die
in `sleep`, `sem_wait` or, if `PrintfCancels`, in `printf` (POSIX lets the
implementation choose: `printf` is a cancellation point when it writes its
buffer out). `sleep(0.1)` is `sleep(0)`: no time is modelled.

`Contents` reads the queue out of the ring while an index may be behind
`count`; with `Offered` and `item` it is the refinement mapping to
`BoundedBuffer`.

### ThreadPool

`count += 1` and `count -= 1` are a load and a store with the loaded value in
`reg`. A worker goes through `wait`, `lock`, `dequeue`, `uncount`, `execute`;
the client through `init`, `submit`, `enqueue`, `count`, `post`, then `cancel`
and `join` for each worker. The client's sleep may end at any time after the
last submission. A queued task that no worker takes before shutdown is dropped,
and a submission to a full queue is refused and ignored by `client.c` (12 calls
on a queue of 10); both are in the model, and `WorkQueue` allows both.

### FifoNone and FifoFifo

A step is one input line. `TlbHit`, `PageTableHit` and `PageFault` are the three
paths of the main loop, each with every call it makes; `EndOfFile` is the end of
the loop and the statistics. Each call of `consult_tlb` and `consult_page_table` adds to
its counter what it adds in the code (`Hits`, `Faults`): `PageFault` consults the page table before
`load_to_memory` and again in the state after it, and would count a second fault, and go on with
frame -1, if the page were not found then. The backing store is a constant; bytes are integers
and the TLC instance makes them all different and different from the zeros of
uninitialised memory. Addresses, pages and frames have the relations of the
source with smaller sizes. `FRAME_TO_PAGE` starts as zeros, as the static array
does. `VirtualMemory` reads each line into both programs at once, so that they can be
compared; `instruction_count` and `closed`, the position in the input, are common.

### MemoryAllocator

`blocks` is the list from `head->next` on; a block position is counted from the
head, which is how the code passes around the block *before* the one it means.
`insert_block` splits, `remove_block` includes `merge` with all of its cases.
The operators of the specification are called `AllocatorInit`, `AllocatorNext` and so
on, and in `Shell` likewise, so that one proof module can hold two programs.
Lengths are between 1 and the capacity. `RL` of a name that owns nothing ends
in `crashed`, as the code dereferences NULL.

### Banker

Vectors are functions on the resources. A command passes the three tables through
the calls it makes (`bank`, `BankBecomes`): `is_safe` allocates the request in them, runs
`AllFinish`, deallocates, and returns its verdict with the tables as they are then;
`request_resources` allocates again in those, or leaves the bank with them when it refuses.
The program has one thread, so nobody sees the tables in between. For `AllFinish`
as many rounds as there are customers are enough, because each round but the last
finishes somebody. `SafeState` in the properties is the
textbook definition (*some* order of the customers), to which the greedy test
is compared. Amounts are natural numbers and customers exist: the program does
not check its input, and a negative amount or a customer number out of range is
not modelled.

### Scheduling

One module for the five programs: `policy` is the one linked in. `tasks` is the
list, head first; a task is the number of its line. `delete` looks for the name,
as the code does. `freed` records the tasks passed to `free`, and the model
stops where the code would go through a pointer to one of them. `slices` and
`ran` count what `run` prints. `preempted` is the test of the burst in `consume`, on which
both the length of the slice and the return to the list depend.

### ProcFile

One module for the three files: `file` says which module is loaded. A process
uses the file once: it reads, call after call, until a call returns 0 or fails
(or it is killed, or has seen enough: `StopReading`), or it writes once.

| `pc` | code | next step |
|---|---|---|
| `new` | before the open | `Open` / `Write` |
| `between` | before a call of `proc_read` | `Test` / `StopReading` |
| `clear` | `completed = 0; return 0` | `Clear` |
| `fill` | after the test of `completed` | `Fill` (`completed = 1`) / `FindTask` in pid |
| `print` | `sprintf`, and the copy where its result is ignored | `Sprintf` |
| `mark` | `completed = 1` and the copy in pid | `Mark` |
| `write` | `kstrtol` into `l_pid` | `Store` |

There is no lock in the code, so every access to a shared variable is a step of
its own. `pid` sets `completed` after `sprintf`, the other two before it, and
the model keeps the difference. A number written without a newline loses its
last digit, since `proc_write` overwrites the last character: `Store` allows both.
In the other two modules the result of `copy_to_user` is ignored: a copy that fails there counts as
a text read. The arithmetic of `secondsproc` is modulo `WIDTH` for an `unsigned long`, and
`to_int` is the narrowing of seconds and thousandths to an `int` of `INT_WIDTH` values.
`proc_init` gives the static variables their first values, and `proc_exit` waits
for running calls, as `remove_proc_entry` does (external). `elapsed`, `alone` and
`broken` are history variables of the properties.

### Shell

`table` holds a record for each process: where it is in the code, who may wait for it,
whom it waits for, who reads its standard output, and its copy of the shell's
variables. A process that has ended and not been waited for keeps its entry, and with it
who read its output: the left command of a pipe belongs to its reader, which
waits for it once and not again after it has stopped. A child whose `execvp` fails in
`exec_redirect` or `exec_pipe` goes on with the main loop and is at a `prompt` like the first shell. `TakeWord` is one
round of the loop over the words; `Parsed` is the whole loop, `!!` and the
words `exit`, `help` and `&` that leave it included. A line is a sequence of words, the first of
which is not empty (the code reads such a line and skips it: `FirstWordAssumption`); a word
that names a file is only remembered. Which input a shell reads is left out: at
a prompt, every shell may read any line. This also covers the end of the input, after which
`fgets` leaves the last word in place, shortened by one letter each time, until
the shell loops at its prompt. Fork fails when all process identifiers are in use. A
program in `BigOutput` cannot end by itself while its reader still waits for it. Signals come from
elsewhere: `Stop`, `Continue` and `Kill` happen to programs, blocked and stopped ones included for
`Kill`; a signal to a process that still runs the shell's code is not modelled.

### ForkJoinSort

`program` is the one that runs. A task is named by its place in the tree of
tasks, and its record has its range, its `mid` and its position. `Partitioned`
and `Merged` are the loops over the list, each as one step between two forks or
joins; `RangesAreExclusive` shows that nobody else touches those numbers
meanwhile. Lists have one number or more: `mergesort.c` reads at least one.

## 3. Runs

| Run | Instance | Shows |
|---|---|---|
| `producer_consumer` | 2 producers, 1 consumer, 2 slots, 2 items, `printf` may cancel | permits, no error, the inductive invariant (with types, mutual exclusion and the ring), refinement of `BoundedBuffer`; a full buffer drains and an empty one fills; `main` returns unless a thread has died in `printf` |
| `pc_printf` (violation) | 1 and 1, `printf` may cancel | `main` can be stuck for ever |
| `pool` | 3 workers, queue of 2, 4 submissions | permits, `dequeue` finds a task, refinement of `WorkQueue`, accepted work starts, shutdown returns |
| `virtual_memory` | 5 pages of 2 bytes, 3 frames in `fifo_fifo`, TLB of 2, 8 lines | correct bytes, tables against memory, statistics, FIFO of TLB and frames, both programs agree but for stale hits |
| `virtual_memory_valid` (violation) | the same | a valid TLB entry of an evicted page |
| `allocator` | 6 units, 2 names | list, merging, searches, loss, refinement of `MemoryMap` |
| `banker` | 3 customers, 2 resources, 3 supplies, 3 demands | conservation, safety, exactness of the test |
| `scheduling` | files of up to 4 tasks with names of their own, 3 bursts, 2 priorities, quantum 2 | work and number of slices, order, turns, priorities |
| `scheduling_names` (violation) | 2 tasks, names may repeat | a freed task stays in the list |
| `sort` | lists of 1 to 5 numbers from 3 values, `THRESHOLD` 2 | disjoint ranges, sorted ranges at every moment, nothing lost, termination |
| `proc` | 2 processes, 2 loads, 8 ticks each, `unsigned long` of 24 values, `int` of 6, pids 1 and 12 | the flag is put back, one text for a reader alone, exact time until the seconds exceed an `int`, reads end |
| `shell` | 3 processes, 12 lines | what was typed is run, the foreground is awaited, the shell comes back |

### Why the bounds are enough to be interesting

* Two slots make full, empty and wrap-around happen, with two
  producers to compete for a slot; every pair of roles but two consumers meets at every
  step, and the proofs cover any number of both.
* Two readers are enough to take `completed` from each other at every step, and to
  leave it set by a stop. `MaxTicks` and `MaxLoads` bound the counters: `jiffies`
  starts 3 below its wrap-around, so that it wraps within one load or the next. `TimeIsExact` has
  two limits, of which any choice of the constants passes one first: here, as with a 64-bit
  `unsigned long`, the seconds do not fit into the `int` from six ticks on and the product
  overflows at eight. The other order, as with two types of 32 bits, is left to the theorem. Pid 12 without its last digit is pid 1.
* Three processes hold a shell and a pipeline, or a shell, one that fell through and its
  child, and run out when one more is in the background; the lines cover each way to run a
  command with a program that is found, is not found, or fills the pipe, and
  each way to leave the loop over the words. `MaxPid` is the only bound.
* Five numbers make three levels of tasks in each of the sorts, with ranges of odd and
  even length, empty ranges beside a pivot, and equal numbers.
* Four submissions on two slots reach refusal, wrap-around and three workers in
  the queue's code at a time.
* Three frames with a TLB of two entries are the smallest sizes at which a page
  can leave the frames and still be in the TLB, be loaded again while its old
  TLB entry is there, and be hit after other pages came in between; with five pages
  two are out of memory at a time. Eight lines let both victim pointers wrap. `MaxInstructions` is the only
  counter bound.
* Six units allow three blocks with two holes around one, which is what `merge`
  distinguishes, and remaining holes of 0, 1 and more units.
* Three customers are needed for a request that is safe only in an order other
  than that of the loop; the supplies are plentiful, scarce, and too small for
  one demand (an unsafe bank from the start).
* Bursts 2, 3 and 5 with quantum 2 are exactly one, more than one, and more than
  two quanta. Names are symmetric: they are only compared for equality. `MaxTasks`
  bounds the file. Every slice makes the list or a burst smaller and deadlock is
  checked, so that the run also shows that every schedule ends.

Deadlock is checked where the program should end (the models stutter when the
process has ended) and switched off where it can really stop: in
`producer_consumer`, where the `printf` deadlock is reachable, in `shell`, where the
shell exits or hangs on its own pipe, in `proc`, where the module has been
unloaded for the last time, and in `scheduling_names`, which stops at the dangling
pointer. `pc_printf` needs it off because the counterexample is a deadlock.

### Fairness

* `ProducerConsumer`: weak fairness of every thread and of `main`, strong
  fairness of `Lock`. The mutex is released and taken again by others for ever,
  so weak fairness would let a thread starve on it. The threads make starvation
  unlikely in the program: a consumer sleeps for a second or more on every turn
  (`main.c:26`) and a producer blocks when the buffer is full. The end of `main`'s
  own sleep is not fair: `sleep_time` is any number, and `BufferTurnsOver` has to
  hold however long it is.
* `ProcFile`: weak fairness of the handlers and of a reader's next call. Opening,
  writing, stopping, ticks, tasks and loading need not happen. `ReadsEnd` holds because the
  processes are finitely many: a reader can be given its text again each time
  another one takes the end of the file, and with readers that come for ever
  it might never end.
* `Shell`: weak fairness of every process, programs that can end included; nobody
  has to type a line, and a stopped program need not be continued or killed.
* `ForkJoinSort` needs none: its behaviours are finite, and the absence of deadlock shows
  that each ends with the list sorted.
* `ThreadPool`: weak fairness of the client and of the workers; contention ends
  with the work, so that strong fairness is not needed. The end of the sleep is
  again not fair.

## 4. Theorems

TLC shows a property on one small instance; the theorems below say it for every value of
the constants. They are proved with TLAPS in modules of their own, which extend the modules of
one or two components and `Arithmetic`. The assumptions are those of each
`ConstantsAssumption` (`AllocatorAssumption`, `ShellAssumption`, `FirstWordAssumption`), which TLC evaluates in
every run: sizes and numbers of threads are positive where the code's are, values are integers,
words are strings, a name for "nobody" is nobody. None of them bounds a size. Every theorem is about the specification that TLC runs; where the last column
names no property, the theorem is the only statement of it.

| Module | Theorem | States |
|---|---|---|
| `ProducerConsumerProofs` | `TypeCorrect`, `MutexCorrect`, `RingCorrect` | types, mutual exclusion, the indices of the ring |
| | `PermitsCorrect`, `NoErrorCorrect` | `PermitsMatchSlots`, `NoErrorReported` |
| | `InductiveInvariantCorrect` | `InductiveInvariant` |
| | `BufferImplemented` | `ImplementsBoundedBuffer` |
| `ThreadPoolProofs` | `ExclusionCorrect` | one thread at a time in the queue |
| | `PermitsCorrect`, `DequeueCorrect` | `PermitsMatchTasks`, `DequeueFindsTask` |
| | `PoolImplemented` | `ImplementsWorkQueue` |
| `LinuxProofs` | `TypeCorrect` | types of `ProcFile` |
| | `ResetCorrect`, `TimeCorrect`, `AloneCorrect` | `EndedFilesAreReset`, `TimeIsExact`, `OneTextAlone` |
| | `ShellInvariant` | parents, children and readers exist, and each process has the children and the variables its place allows |
| | `ForegroundWaited`, `TypedIsRun` | `ForegroundIsAwaited`, `RunsWhatWasTyped` |
| `VirtualMemoryProofs` | `BothRun` | the composition runs both programs |
| | `PrintsCorrect`, `FramesCorrect`, `TablesCorrect` | `PrintsBackingStore`, `FramesHoldTheirPages`, `TablesAgree` |
| | `ValuesCorrect`, `SameTlbCorrect`, `StatisticsCorrect` | `SameValues` (an action property), `SameTlb`, `StatisticsAddUp` |
| | `TlbImplemented`, `FramesImplemented` | `TlbIsFifo`, `FramesAreFifo` |
| `ResourceProofs` | `ConservationCorrect`, `SafetyCorrect`, `TestCorrect` | `ResourcesConserved`, `AlwaysSafe`, `TestIsExact` |
| | `AllocatorInvariant` | order and merging together, inductive |
| | `BlocksStayInOrder`, `HolesStayMerged` | `BlocksInOrder`, `HolesAreMerged` |
| | `SearchesAlwaysFind`, `LossStaysBounded` | `SearchesFindTheirHoles`, `LossIsBounded` (an action property) |
| | `AllocatorImplementsMemoryMap` | `ImplementsMemoryMap` |
| `ForkJoinSortProofs` | `ExclusionCorrect`, `SortingCorrect` | `RangesAreExclusive`, `FinishedRangesAreSorted` |
| `SchedulingProofs` | `AccountCorrect`, `OrderCorrect`, `TurnsCorrect`, `PriorityCorrect` | `WorkIsAccountedFor`, `FinishedInOrder`, `TurnsAreEven`, `PriorityIsStrict`, when no two tasks have the same name |
| | `DeleteCorrect` | with distinct names no freed task stays in the list |

Few of the properties are inductive alone. What follows says what each proof adds to them
and why.

### ProducerConsumer

1. *Types* are inductive once `main = "join"` is known to mean that `next` is a
   thread.
2. *Mutual exclusion* needs in addition that the owner of the mutex is inside,
   or died inside, and that a thread `main` has not created yet is `new`
   (otherwise its creation could take it out of a critical section).
3. *Permits* rests on these and on the types: each step moves at most one thread
   between the sets of those that arrive and those that leave
   (`PermitsKept`), whose cardinalities change by one.
4. *No error* follows from the permits: a thread at the test of `is_full` is one
   of those that arrive, so that at least one slot is free (`TestsNeverFire`).
   With it, every call that reaches its end has succeeded.
5. *Ring*: `rear = (front + Distance) % BUFFER_SIZE`, where `Distance` is `count`
   corrected by the one update that is under way. `RearAdvances` and
   `FrontAdvances` are the arithmetic modulo the size.
6. *Refinement*: `Store` is the abstract insertion and `Fetch` the abstract removal; every
   other step leaves `Contents` alone, since what it reads from `rear` and `front` is
   corrected by `Distance`. In addition to the invariant the mapping needs that an item
   offered has been drawn (`ItemsAreDrawn`).

TLC checks the same `InductiveInvariant` in `producer_consumer`; mutual exclusion and the
ring's property follow from it and are stated as theorems only.

### ThreadPool

The invariant of the threads adds to the permits that the loaded copies of `count` are
still fresh, that a worker between `lock` and `unlock` is the owner of the mutex, and that
workers not created yet are `new`. On top of it, `RingInvariant` places `rear` behind the
tasks that wait, and `TasksInOrder` says that these are the last that were submitted and
not refused, in order; `DequeueFindsTask` and the mapping to `WorkQueue` read it off.

### ProcFile

`EndedFilesAreReset` speaks of processes that are active; what is inductive is
that one of them will still *test* `completed` (`SomebodyWillTest`), because a reader of
/proc/pid that finds no task leaves without looking. `TimeIsExact` needs that `jiffies` is
`init + elapsed` modulo the width (`ClockAgrees`); `DifferenceIsElapsed` is the unsigned
subtraction. That the product is divided twice, by `HZ` and by 1000, loses nothing: `DivisionsNest`
gives both numbers as parts of the elapsed ticks, and `IntKeeps` says which of them the
narrowing leaves alone. `OneTextAlone` needs how far the lone process has come for each of its
positions (`Progress`).

### FifoNone, FifoFifo, VirtualMemory

`NoneInvariant` and `FifoInvariant` are the invariants TLC checks with what they leave
open: which entries are in use, that the victim pointers stay at 0 until the tables are
full, that nothing is evicted before that. They are proved of each program, and `BothRun`
carries them over to the composition. Comparing the programs needs `SameHistory`: the same
item counts and victims, and the same pages ever loaded. For the statistics, `NonePaths` and
`FifoPaths` say what each of the three paths adds to the counters; that the second
`consult_page_table` of a fault adds nothing follows there from what `load_to_memory` has done to the
page table and to its inverse. `GoesRound` counts how often a
victim pointer has gone round, for the statistics. The caches are read out of the tables
in the order of their age; `CachesStep` has one case per path of a translation.

### Banker

`SumFunctionOnSet` is a fold that takes elements in an order nobody knows, and `is_safe`
is a loop of loops. `Arithmetic` proves induction over numbers and over finite sets, and
that such recursions have a solution, for sets and functions rather than for operators
(see below); from these `ResourceProofs` derives that a sum may be split at any
element, and what one turn, one round and all rounds of `is_safe` keep. Exactness is the
textbook argument: what the greedy loop has found is an order (`Found`), and if there is
any order, each round finishes at least the next customer of it (`RoundFinishes`).
`TestIsUndone` says that what `is_safe` has done to the three tables it undoes in all of
them, for any request; with it (`RequestChanges`) a refused request changes nothing and
`ResourcesConserved /\ AlwaysSafe` is inductive.

### MemoryAllocator

Every command replaces a few neighbours in the list by others, and is proved as such a
splice. `BlocksInOrder` and `HolesAreMerged` are only inductive together: `remove_block`
looks at no more than one block on either side, which is enough where no two holes are
neighbours, and what an insertion leaves is a hole in order only if the list was in order. The
list cannot be longer than its capacity allows (`ListIsShort`), since only a last hole is empty.

* *Searches*: the loops of best and worst fit are recursive functions; what they have found after
  each round is the best so far, and at the end the hole that the property chooses.
* *Loss*: an insertion loses at most the unit at the end of its hole (`InsertionLoses`), a
  removal nothing, and after a compaction the blocks lie side by side from 0.
* *Refinement*: regions of a list in order are apart; an insertion adds one and a removal takes one
  away. A compaction is the one abstract step that moves everything: block by block, where a
  region goes is the sum of the sizes before it (`MovedIsSlid`), which is
  how `MemoryMap` says it.

### Shell

`ForegroundIsAwaited` is about processes at their prompt. The invariant (`Children`) says for
every place in the code which children a process can have there: none before it has forked, in
a pipe only the left command, at a wait in addition the child waited for, and at a prompt only
what was sent to the background or was the left command of a pipe that fell through. It is
inductive with `Sound`: nobody names a process that has ended as its parent or its reader, and
who is waited for has the waiting process as its parent. The lemmas say that this survives the four things that
happen to a process: it moves on, it ends, it forks, it has been waited for.

`RunsWhatWasTyped` compares a loop over words with a description of the whole line. After each
round (`IsRound`) the variables are what the description says of the words so far, or of those
before the word that left the loop; `FilesAre` turns the recursion of `Files` into one
fact per word, and `ParsedMeans` is the induction over a line of any length. The invariant keeps
`Means` for every process that still runs the shell's code, since each can come to a
prompt and be asked for `!!`; that a line with `pipe_enable` has a `|` among its arguments is what
makes the loop of `exec_pipe` end (`BarIsThere`).

### ForkJoinSort

`TasksInv` says that the tasks form a tree whose ranges are nested along it and disjoint
across it (`Ranges`), which tasks exist and are done for each position of their parent
(`Progress`), that the list is a rearrangement of the input (`Lists`), and that who is done
is sorted and who is partitioned is divided at its pivot (`Order`). `ExchangeSorts`,
`PartitionDivides` and `MergeSorts` are what the three loops do to the list, for every length, with
`WorksKeepsOrder` for all the tasks that do not move: a task only rearranges its own
range. TLC checked `TasksInv` on lists up to five numbers before it was proved.

### Scheduling

The list is not sorted by the policy, but how it is ordered is an invariant (`ListOrder`):
without preemption later tasks are nearer to the head; with it, of two rivals the one nearer to
the head has had its turn already (`Turn`). `GetNext` shows that the loops of `get_next`
take the last of the best and that `delete` takes out that very node, and everything else
follows: a preempted task goes behind its rivals, one that completes is before all that are
left (`FinishOrder`). `Account`, `Slicing` and `StrictOrder` add what has run so far, in how many slices, and that nothing
runs before the file has been read. TLC checked these invariants on the instance of the run `scheduling`.

### What stays with TLC

* Liveness: the prover used here has no rules for fairness and `ENABLED`. `ExitsUnlessDiedInPrintf`,
  `BufferTurnsOver`, `AcceptedWorkStarts`, `ShutdownReturns`, `ReadsEnd` and `ShellComesBack` are only
  checked, and so is that the schedules and the sorts end (by the absence of deadlock).
* The library's theorems about induction take an operator as a parameter, which the provers cannot
  instantiate. `Induction`, `FiniteInduction`, `Recursion` and `FiniteRecursion` of
  `Arithmetic` state the same for sets, and rest on the library's theorem that `<` on
  the natural numbers is well founded.

## 5. Findings

1. **`main` can wait for ever** (`pc_printf`; `Project 5/producer_consumer/buffer.c:36`).
   A thread cancelled in the `printf` of its critical section keeps the mutex.
   The others block in `pthread_mutex_lock`, which is not a cancellation point.
   `main.c:41-42` announces `5. Sleep`, `6. Exit`.
2. **Stale TLB entries** (`virtual_memory_valid`; `Project 8/virtual_memory/fifo_fifo.c:166`).
   A page that is replaced keeps its valid TLB entry, and a later hit reads the
   byte of another page. Whether the hit comes before the entry is replaced
   depends on the input; `addresses.txt` never gets there.
3. **Deletion by name** (`scheduling_names`; `Project 4/scheduling/list.c:30`).

Behaviour that the properties describe rather than refute:

* `memory.c:51` drops a remaining hole of one unit (`begin >= end`) from the list.
  `LossIsBounded` shows that this is all that is ever lost, and that it
  comes back with a compaction.
* `simple-shell.c:187` waits for the left command of a pipe before the right one
  reads: a left command with much output hangs. A command after `<`, `>` or `|`
  that is not found leaves a second shell behind, for which the first one waits
  (`:106`, `:182`, `:189`). `ShellComesBack` shows that, but for a stopped program, nothing else
  keeps the shell. A stop ends that wait, too: the right command can run, and a second
  shell be at its prompt, while the left command is still there.
* A reader of a /proc file that stops before the end, or whose copy fails in
  `pidproc.c:87`, leaves `completed` set for the next one, which reads nothing.
  `EndedFilesAreReset` shows that nothing else does.
* The time of `secondsproc.c:50-53` is exact as long as `delta * 1000` fits into an `unsigned
  long` and the seconds fit into an `int`. With 32 bits the product is the limit: 2^32 / 1000
  ticks, five hours at 250 ticks a second. With 64 bits it is the `int`: from 2^31 seconds on the
  time shown is negative, long before the product overflows. `TimeIsExact` states both limits.
* `/proc/pid` prints the command and state of the task it has found with the `l_pid` of a later
  moment, and of a task that may be gone (`pidproc.c:74-76`): the model has these outcomes,
  and `OneTextAlone` says only what an undisturbed reader gets.

## 6. Not modelled

* Formatting, prompts, file names, printing commands (`STAT`, `*`), allocation
  failures of `malloc`, and integer overflow of the counters (it takes more than
  2^31 lines or tasks).
* Inputs the programs do not check and for which the repository says nothing:
  negative amounts and customer numbers out of range (banker), lengths below 1
  (allocator), addresses out of range (virtual memory).
* The failure of `pthread_create` (`mergesort.c:61`) and of `proc_create`, which the
  code does not test; the buffer of `proc_write`, which a failed copy does not free
  (`pidproc.c:105`); the contents of files a command is redirected to; lines longer
  than the shell's buffers, and the write before the start of `cmd` at the end
  of the input (`simple-shell.c:209`).
* Binaries, sample inputs and printed results are data.

## 7. Plan

Every program of the repository is modelled, and every invariant and action property that a passing run
checks is a theorem, as is every refinement. What could follow:

1. The liveness properties with a prover that has rules for `ENABLED`; the arguments are short
   (each thread has finitely many steps before it blocks), and the invariants they need are here.
2. The compositions that the repository leaves to its user: a reader of /proc/pid that is a
   command of the shell.
