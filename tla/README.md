# Verification of CS330-Operating-Systems

TLA+ models, TLC runs and TLAPS proofs for the code of this repository, the
solutions to four programming assignments of an operating systems course. Line
numbers refer to the files under `src/`.

## 1. Inventory

| Part | Files | State | Operations | What is hard, and what makes it correct |
|---|---|---|---|---|
| Read-write lock (A4 part 2) | `Assignment4/rwlock.c`, `part-2/common.h` | one 64-bit word | `init_rwlock`, `read_lock`, `read_unlock`, `write_lock`, `write_unlock`, all by `atomic_add` | failed attempts change the word before they are given back; several can be pending when another thread reads a sign. Correct: a writer excludes everybody, no add is lost, the word never wraps |
| Its test program | `part-2/main.c` | `wr_ctr`, `rd_ctr` | `thfunc`, join | `+=` is a load and a store. Correct: `wr_ctr` is exact at the end |
| Block hashing (A4 part 1) | `Assignment4/thread_func.c`, `part-1/main.c` | `dataptr`, `optr`, `hashes`, a mutex | `hashit`, `calculate_and_store_hash`, create / join / print | two shared pointers advance in two statements; hashes are stored outside the lock. Correct: every block once, into its own slot; the sums printed are right; the program ends |
| Parallel hash table (A4 part 3) | `Assignment4/parallel_hash.c`, `part-3/main.c`, `part-3/common.h` | input position, operations in progress, table with a lock per entry, `used` | `read_op`, `done_one`, `lookup`, `insert_update`, `purge_key`, `process` | threads wait for each other by key; table walks without locks; deletion marks; an 8-byte add on a 4-byte counter. Correct: outcomes and final table as in a serial run; everything processed |
| Serial hash table, input generator (A4 part 3) | `part-3/serial_hash.c`, `inputgen.c` | table | the same, sequential | insert stops at a deletion mark |
| File descriptors (A2) | `Assignment2/file.c` | a descriptor table per process, file objects with `ref_count`, inodes | open, standard IO, close, dup, dup2, fork, exit; read, write, lseek | one count adjusted in six places; sharing across processes. Correct: an object lives exactly as long as its last descriptor |
| Pipes (A2) | `Assignment2/pipe.c` | `pipe_info`: buffer, offset, open flags | `create_pipe`, `pipe_read`, `pipe_write`, close | ends shared by descriptors of several processes; a buffer that is moved down. Correct: an end is shut with its last descriptor; bytes that are delivered come in order and none that was in the pipe is overwritten |
| mmap, munmap, mprotect (A3) | `Assignment3/mmap.c` | the sorted list of `vm_area`s, the page table | `vm_area_map`, `vm_area_unmap`, `vm_area_mprotect`, `vm_area_pagefault`: split, shrink, merge | long sequences of calls; a recursive mprotect that can fail half way. Correct: sorted, disjoint areas; a call changes the pages of its range and no others; page table and list agree |
| cfork, vfork, copy-on-write (A3) | `Assignment3/cfork.c` | page tables, frame counts, process states | `cfork_copy_mm`, `vfork_copy_mm`, `handle_cow_fault`, `vfork_exit_handle` | trees of both kinds of fork; writes to shared frames in any order; a parent that waits. Correct: counts exact, memory of two processes separate, one process runs per page table, the parent resumes |
| Recursive grep (A1 part 1) | `Assignment1/Part_1/src/part1.c` | none shared | directory walk, line splitting | sequential |
| Pipelines (A1 part 2) | `Assignment1/Part_2/src/part2.c` | descriptors of up to three processes | fork, dup2, exec, tee | end of file and termination depend on every copy of a write end being closed |
| Directory sizes (A1 part 3) | `Assignment1/Part_3/src/part3.c` | pipes | fork per subdirectory, wait, read | the wait comes before the read |

Interaction: within Assignment 4 the test programs call the lock, the hashing
function and the table; within Assignment 2 `pipe.c` installs file objects that
`file.c` shares, counts and closes. The assignments do not use each other. In
gemOS (A2, A3) the system call layer, the scheduler, the page allocator and the
file system are not in the repository.

## 2. Modules

| Module | Models | Kind |
|---|---|---|
| `AbstractRWLock` | what a read-write lock promises | abstract specification |
| `RWLock` | `rwlock.c` | detailed specification, implements `AbstractRWLock` |
| `RWLockTest` | `part-2/main.c` on top of `RWLock` | composition |
| `RWLockProofs` | theorems about `RWLock` and `RWLockTest` | proofs |
| `BlockHash`, `MCBlockHash` | `thread_func.c`, `part-1/main.c` | specification, model values |
| `BlockHashProofs` | theorems about `BlockHash` | proofs |
| `ParallelHash`, `MCParallelHash` | `parallel_hash.c`, `part-3/common.h`, `part-3/main.c` | specification, input files |
| `ParallelHashProofs` | theorems about `ParallelHash`: the turns of operations, the table, the counter, the results | proofs |
| `FileTable`, `MCFileTable` | `file.c` without data, `create_pipe` | specification, symmetry |
| `FileTableProofs` | theorems about `FileTable` | proofs |
| `PipeBuffer` | `pipe_read`, `pipe_write` | specification |
| `PipeBufferProofs` | theorems about `PipeBuffer` | proofs |
| `Pipeline` | `part2.c` | specification |
| `PipelineProofs` | theorem about `Pipeline` | proofs |
| `AbstractVm` | what mmap, munmap and mprotect promise of the pages | abstract specification |
| `VmArea` | `mmap.c` | detailed specification, implements `AbstractVm` |
| `VmAreaProofs` | theorems about `VmArea` | proofs |
| `CowFork`, `MCCowFork` | `cfork.c` | specification, model values |
| `CowForkProofs` | theorems about `CowFork` | proofs |

Operators named `Mut...` are deliberate slips that stand beside the definition
they imitate. No specification uses them; each replaces its neighbour in a run
that must then fail, which shows that the property notices.

### RWLock

`value` is the word of `rwlock_t`; `pc` says where a thread is. Each
`atomic_add` is one action, because it is one `lock add` instruction
(`part-2/common.h:17-38`) and the sign comes from the flags of that very
instruction. `WriteTry` / `WriteBackOff` are lines 18 and 19 of `write_lock`,
`ReadTry` / `ReadBackOff` lines 33 and 34 of `read_lock`. Who asks for which lock
is left open: any thread outside may call either function. `Unlocked` stands for
2^48; all the algorithm needs is that there are fewer threads than `Unlocked`.

### RWLockTest

`thfunc` with one action per load, store and lock step. The lock functions are
the actions of `RWLock`, conjoined. Threads exist from the start (creation only
delays them). `rd_ctr` is modelled as the code has it, by loads and stores under
the read lock, so increments of it can be lost: `main.c:81` prints one "should
be" value for both counters, and only `wr_ctr` is bound to reach it.

### BlockHash

Pointers are offsets. `TakeBlock` and `TakeSlot` are the two pairs of statements
of `thread_func.c:22-25`, kept apart although the mutex protects both, so that
the mutex has something to do. `StoreHash` is line 30: the store is one step,
the reads of the file before it touch nothing that changes. The sum is taken by
a recursive function that makes the unsigned comparison of `main.c:20` for every
word and reduces modulo `ULongMod`. `CreateFails` is the `exit(-1)` of the
creation loop, which kills the threads already running.

### ParallelHash

An operation is its position in the input, which is also its id (the generator
numbers them from 1, `inputgen.c:149`); the data of a PUT is that id. The critical
sections of `in->lock` are atomic: `ReadOp` takes an operation, publishes it and
either goes to sleep or starts; `Recheck` is the loop again after
`pthread_cond_wait`; `DoneOne` is `done_one` with its broadcast. Waiting threads
may also wake spuriously.

The walks of `lookup` and `purge_key` read the key, the id and the key again as
three steps (`ScanKey`, `ScanId`, `ScanCmp`), since they hold no lock. A PUT's
look at one entry is one step, since it holds the entry's lock and all stores to
an entry are made under it. The stores of an insertion and of a deletion are
separate steps in program order. The Makefiles build without `-O` and x86 does
not reorder stores with stores or loads with loads, so program order is the order
other threads see. `hashval - 1` is unsigned; the field after `used` in `hash_t`
is kept as `low` because `atomic_add` adds eight bytes to a four-byte field.

### FileTable

gemOS runs a system call to completion on one CPU, so a call is one action;
`do_file_exit` is a loop with one action per descriptor and everything else held
back. `outside` names the functions that have stored a descriptor behind the
table. `Close`, `Fork`, `BeginExit` and `EndExit` contain the part of the system call layer that
is not in the repository (clearing the descriptor, copying the context, freeing
the process), as `file.c` expects it. `Restraint` = 1 makes processes leave room
in their tables; 0 lets them fill them, where the code stores behind the table
(section 3, "Met while modelling"). Allocations do not fail: `create_pipe` tests
what its three allocations return (lines 135, 144 and 158), but `alloc_pipe_info`
and `alloc_file` have stored through the page before they return
(`pipe.c:14`, `file.c:29-30`), so a failing allocation faults in them and the
three returns are never taken.

### PipeBuffer

The page, `buffer_offset`, and three history variables: `queue`, the bytes
accepted and not yet delivered, `whole`, whether each of them was among those its
write had room to store, and `drained`, whether every write found the pipe empty.
Calls that fail return an error and change nothing.

The test for room (`HasRoom`, line 83) adds two u32 and so wraps. A count that
passes because of it, such as -1 with a byte in the pipe, sends the loop past the page:
`WritePast` sets `overrun`, after which the model stops, since nothing is
defined of the memory behind the page. The assignment promises that programs do
not do this ("We wont read or write more than 4KB into the pipe", assignment2.pdf);
the run takes the step all the same.

### Pipeline

Each process of `part2.c` has a script, the sequence of its `pipe`, `fork`,
`dup2` and `close` calls in the order of the code (`task1_wc`, `task1_grep`,
`task2_cmd`, `task2_tee`, `task2_grep`); one action per kind of call carries it
out on the table of descriptors. The copying loop of tee is three actions. The
pipes of the kernel and the programs grep, wc and cmd are external: a read at an
empty pipe waits while anybody holds its write end, a write waits while the pipe
is full and somebody holds its read end. `pipe`, `fork` and `exec` may fail, tee's
`open` may fail unnoticed, and cmd may leave before the end of its input.

### VmArea

`areas` is the list of `vm_area`s as a sequence, `pt` the page table, `call` the
level of `vm_area_mprotect` in progress, `hung` the length a call of mmap
searches for without end. An entry of the page table has a write bit and says
whether the process has written to the page; a new frame is "fresh".

`Settled` is what the recursion of `vm_area_map` with a hint comes to (lines
503-552), the first try that is not given up; `MapAtHint` and `MapInGap` place the range at the hint or into the
first gap and merge it with its neighbours (`WithNew`), `MapHangs` is the loop of
lines 427-500 that stays at the last area. `UnmapInside` is the split of an area
in two, `UnmapRange` everything else: `Cut` is the list after the loop, in which what is left of the
areas that `StartsIn` selects (`Rest`) stands in the place of them, and the area
behind them is `Moved`. mprotect
calls itself for the rest of the range after it has changed the list, so each
level is an action (`MprotectRecurse`, `MprotectLast`, `MprotectFails`), and a
failure leaves what the levels before have done. Line 311 reads an area that line
308 has freed: both outcomes are possible (`EndsWith`).

Every call of every program is in the model, also those with which the code does
something else than one expects; the properties say exactly what it does:

* `AgreementKept`: a page whose entry agrees with the rights of its area goes on
  agreeing through every step but two. An upper level of mprotect changes the
  rights of pages that are present and not their entries, because only the last
  level calls `update_map`, from its own address on (line 360). And an mmap without
  hint that joins two areas returns the end of the new range (line 460), so that
  `MAP_POPULATE` gives its entries to pages behind the joined area (594).
* `WrittenKept`: the second of these replaces pages of the area behind the new
  range, and mprotect replaces the pages of its range (52-65). What has been written
  is lost in no other call that leaves the page mapped.
* `OnlyTheRange`: munmap unmaps its range, and when it removes no area, the area
  behind takes the free pages in front of it (650-661; `GrowsDown`, `TakenBy`).
  It changes no other page, and mprotect none outside its range.

`AbstractVm` has an action for the growing area, `UnmapGrows`. That munmap should
do nothing of the kind is `MunmapOnlyUnmaps`, which the run `vm_munmap` refutes.

### CowFork

`ctx` holds what the functions use of the contexts, `tables` the page tables,
`frames` the reference counts and contents. A page table has the number of the
process it was made for; with vfork a process runs on the table of its parent.
`cfork_copy_mm` and `vfork_copy_mm` are the two calls with the part of the system
call layer around them (the child's context is a copy, the parent of a vfork
waits), `handle_cow_fault` is the fault of that name, `Exit` is exit with
`vfork_exit_handle`. `Touch`, `Store`, `Expand` and `MapArea` are what processes do
in between; `map_physical_page`, `install_ptable` and the frame allocator are
external.

`handle_cow_fault` gives the process a blank frame: the copy it makes goes to the
address pfn instead of the address of the frame (finding 3). That copy, and the
read through a null pointer of line 125, touch memory that is no page of a
process and are left out.

## 3. Runs

| Run | Instance | Shows |
|---|---|---|
| `rwlock` | 4 threads, `Unlocked` = 5 | `MutualExclusion`; `ValueDecodes`: the word is always what is taken off it; `TypeOK`: it stays in a range that does not wrap; `ImplementsAbstract`; two liveness properties |
| `rwlock_test` | 3 threads, 2 rounds | `WrCtrExact`: no increment under the write lock is lost |
| `block_hash` | 3 threads, files of 1 to 12 bytes in blocks of 4 | `OwnSlot`, `StoredIsFinal`, `PrintedIsBlockHashes` against a set-based sum, `Finishes` |
| `parallel_hash` | 3 threads; all inputs of 3 operations on two colliding keys, those of 4 that put both first, three longer ones; 4 entries | `OutcomesSerial`, `FinalTableSerial`: outcomes and table as in a serial run; `SameKeyInOrder`, `NoDuplicateKeys`, `TablePointerIntact`, `DumpAssert`; `LiveEntryKept`: no live entry is overwritten, also when entries are reused; `ProcessedUnlessEndless`: everything is processed but a walk that goes round for ever in a table used up, and what waits for it |
| `parallel_hash_tombstone` | 2 threads, 3 entries, 2 keys | **violated**: a GET misses a live key beside a PUT that reuses an entry |
| `file_table` | 2 processes, 3 objects, 1 pipe, tables of 4 with room | `RefCountExact`, `PipeEndsAgree` |
| `pipe_buffer` | 4 bytes, calls of up to 3, u32 of 16 values | `WholeArrives`: of a write of n bytes into a pipe that holds m the last m are lost, no others, and nothing that was there; `FifoWhenDrained` |
| `pipeline` | both tasks, up to 4 bytes, pipes of 1 | `CompleteWhenCmdEnds`: when the foreground process ends, its input and tee's file are complete; `EndsUnlessAbandoned`: every process ends, whatever fails, unless cmd leaves with more to come than its pipe holds |
| `vm_area` | 4 pages, at most 3 areas, every call | `SortedDisjoint`; `OnlyTheRange` and `ImplementsAbstract`: which pages a call changes; `AgreementKept`; `WrittenKept`; `HangsOnlyWhenFull` |
| `vm_munmap` | the same | **violated**: munmap does nothing but unmap its range |
| `cow_fork` | 3 processes, a data page, a writable mmap page, a stack of 1 to 4 pages | `RefCountExact`, `SpacesSeparate`, `ChildSeesParent` (of cfork: all pages; of vfork: the copy of the stack, also over what an earlier child left), `OneRunsPerTable`, `RunnerKnowsPages`, `ParentResumes` |
| `cow_fork_copy` | 2 processes | **violated**: the first write to a shared page does not copy it |

### Bounds and why they are enough

* **RWLock.** Four threads allow a holder, and two different kinds of pending
  attempt beside a fourth that reads the sign. `Unlocked` = 5 is the smallest
  value the assumption allows for four threads, so readers come as close to the
  writers' part of the word as they can. The theorems cover all other values.
* **BlockHash.** Three blocks and three threads: all threads can be hashing at
  once, in any order, and one can find the data used up meanwhile. The sizes
  cover whole and partial blocks, a partial word, and a file shorter than a word.
  Words are powers of two, so a word counted twice or left out changes the sum
  (`ULongMod` = 37 makes one sum wrap).
* **ParallelHash.** Three operations on two colliding keys by three threads, all at
  once: the shortest inputs in which a key lies behind another that is deleted and is
  looked up meanwhile, the first waits, or a third operation runs beside two.
  With four the table holds both keys first. The longer inputs have walks
  that wrap and pass deleted entries, a key with a high half (`Half` = 16 makes the
  key 17 have one), and, the third, a key that is put again and again until no entry
  is left that was never used and the second walk of `insert_update` reuses one.
  `UIntMod` = 32 makes `hashval - 1` wrap. All inputs put fewer
  keys than the table has entries: `inputgen.c:200` asserts that their number stays
  below `max_unique`, the least table size `part-3/README:11-12` gives (line 18
  takes one more). In a table with as many keys as entries the second walk, which leaves
  out entry `hashval`, ends on a live one; that is not run. The walk without end (`Endless`, "Met
  while modelling") is run: the third input puts and looks up a key that hashes to
  entry 0 while the other operations use up the table.
* **FileTable.** Two processes share an object after a fork, three objects are a
  pipe and something else, four descriptors leave room for dup and dup2 onto all
  kinds of target. Pages and processes are interchangeable: symmetry.
* **PipeBuffer.** Four bytes and calls of three: a second call can be partly,
  wholly or not satisfied, and a write can be refused. A u32 of 16 values is more
  than twice the page, as 2^32 is, so counts that fit never wrap and some that do not
  fit do.
* **Pipeline.** Pipes of one byte and up to four bytes of output fill every pipe
  and the hands of tee, and leave one byte over.
* **VmArea.** Four pages of two addresses: an area can be split in three with a
  page to spare, three areas with holes between them fit, and so do two with
  equal rights and a hole that a third joins. Lengths of 2 and 5 are one
  page and three pages, the second not whole pages, and reach behind the end. A limit
  of three areas makes every limit test fail in some state; two kinds of rights
  make neighbours equal or different. One case needs more: that a populate after
  joining two areas reaches pages behind the joined area takes five pages, so of
  that exception only the part of `WrittenKept` occurs here. The theorems cover
  both.
* **CowFork.** Three processes are the smallest tree in which a frame has three
  sharers, a vfork child forks and a vfork child calls vfork; the stack limit of
  four pages allows exactly that nesting. One page per segment is enough because
  pages do not influence each other except on the stack. Values are 0 (blank) and
  1. The stores are `DataAndStack`: 1 to the data page, and 0 to the second page of
  the stack, so that what an earlier vfork child leaves below its parent's stack
  can differ from what the next one must find there. The mmap page runs through the
  same code as the data page.

### Fairness

Every thread of the POSIX programs is weakly fair: it is scheduled as long as it
has something to do. Nothing stronger is assumed, neither that a thread that
waits for a mutex gets it nor that a condition variable wakes without a
broadcast (`SpuriousWakeup` has no fairness). For `RWLock` a thread outside the
lock need not ever call; a holder releases. Under contention the lock promises
no progress (a pending writer turns readers away and the reverse), so the
liveness properties are about a thread alone and about readers alone.
The processes of `Pipeline` are weakly fair one by one; failures and an early end
of cmd are not. `FileTable` and `PipeBuffer` state no liveness: user programs
decide what is called. In `VmArea` a call that has begun goes on. `CowFork` assumes
that each process exits some time, which is all that `ParentResumes` asks; it is an
assumption about programs, not about the code.

Deadlock is checked in every run. The steps `Ended`, `Joined`, `Halted`, `Freed`
and `Idle` mark the states in which a program has really stopped, and `Stuck` the
one in which tee has been abandoned.

### Findings

1. `parallel_hash.c:138-140`: reuse of a deleted entry stores the id before the
   key; in between the entry looks never used, and `lookup` of another key stops
   there (`parallel_hash_tombstone`).
2. `mmap.c:650-661`: a munmap that removes no area, such as one that trims the end of
   an area or names a range in a hole, goes on to the next area with the whole
   length, takes it for one the range reaches into, and sets its start to the end of
   the range: the free pages in front of it become mapped. With areas [4, 8) and
   [10, 12), munmap(6, 2) leaves [4, 6) and [8, 12). assignment3.pdf (p. 6): munmap
   "deletes the mappings for the specified address range", after which an area can
   "either be shrunk or split into two" (`vm_munmap`).
3. `cfork.c:185-186`, `210-211`: the fault on a shared page installs a new frame
   and copies the page to the address pfn, not to the new frame, so the process
   that writes first loses the page, where assignment3.pdf (p. 9) says that the
   write "results in copying of the page" (`cow_fork_copy`).

Met while modelling, with no run of their own:

* Hash table. `parallel_hash.c:86`, `110`, `155`: for `hashval` 0 the end of the walk is
  2^32 - 1, which is no entry, so a walk for an absent key over a table without an
  entry never used does not end, and operations on that key wait for it for ever. That
  needs no full table: deletions and insertions of one other key use up the entries,
  one after another. `ProcessedUnlessEndless` has exactly this exception
  (`Endless`, `BehindEndless`), and plain termination is false in the run. The second walk
  of `insert_update` (119-127) starts with `ctr` at `hashval` and `entry` at
  `hashval - 1`, never looks at entry `hashval`, and in a table with as many keys
  as entries overwrites a live entry. Line 51 copies a record header before the
  test for the end of the input.
* Descriptors and pipes. `pipe.c:126`: with one free descriptor, the last,
  `create_pipe` stores the write end behind the table. `pipe.c:88`: `pipe_write`
  stores up to index `count` instead of `buffer_offset + count`, so a write loses as
  many bytes at its end as the pipe held; `WholeArrives` says that this is all it
  loses, `FifoWhenDrained` that pipes that are drained first lose nothing.
  `pipe.c:83`: the sum wraps (`WritePast`). `file.c:285` gives a descriptor of a newly created file the access of
  `mode` whatever the flags ask for, beside a comment (line 273) that claims POSIX.
  `file.c:300` leaves the file object allocated when the table is full;
  `file.c:74` searches without a bound.
* Pipelines. tee keeps fd[0] open (`part2.c`), so a cmd that leaves early leaves tee
  waiting for ever (`Abandoned` in `Pipeline`).
* mmap. 360: only the last level of mprotect updates the page table, from its own
  address on, where assignment3.pdf (p. 7) asks that access rights "be updated
  accordingly in the underlying physical pages as well if they exist". 460: mmap that
  joins two areas returns the end of the new range, so `MAP_POPULATE` populates
  the area behind it and an access to the new range faults, against p. 17. Both are
  the exceptions `AgreementKept` and `WrittenKept` name. 52-65: mprotect replaces
  pages that are there by new ones, losing what they hold. 250-274, 333-357: a
  level that fails leaves the changes of the ones before. 311: an area is read
  after it has been freed. 512: flags are compared with `MAP_FIXED`, so
  `MAP_FIXED | MAP_POPULATE` is searched for. 427: the search does not end when no
  gap is large enough and there are areas.
* cfork. 125: reads through the null pointer of an absent page. 231-235: the handler
  returns 1 for addresses in none of the segments.

## 4. Proofs

All proofs are for arbitrary constants under the named assumptions, which TLC
also evaluates on the instances.

**RWLockProofs** (from `ThreadsAssumption`: finitely many threads, fewer than
`Unlocked`). `MutualExclusion` is not inductive: that a writer who reads sign 0
is alone depends on what the word means while attempts are pending. The
inductive invariant `IInv` is therefore `MutualExclusion` with `ValueDecodes`,
which equates the word with `Unlocked` less the readers and `Unlocked` times the
writers that have taken something, whether they hold the lock or are about to
give it back. The lemmas `MoveIn`, `MoveOut`, `MoveWithin` say how the two
cardinalities change when a thread moves; `SignTells` draws from the decoded word
what each sign means for the holders (zero after a writer's add: nobody else has
taken anything; not negative after a reader's: no writer has). `Invariance` gives
`Exclusion`, `Decoding`, `Typing` (the word stays within
`Cardinality(Threads) * Unlocked`, so 64 threads and 2^48 fit a 64-bit word) and
`Refinement`: every step of the lock is a step of `AbstractRWLock` or leaves the
sets of holders alone.

The last part of the module is about `RWLockTest` (with `ItersAssumption`). That no
increment is lost needs `Exclusion`, which the steps of the test
inherit from `IInv` of the lock because each is a step of a thread that calls the
lock or leaves the word alone. `TInv` adds that a thread in the middle of an
increment holds the lock for writing (`Holds`), that the value it has loaded is
still the counter's (`Loaded`), and that the counter is five times the number of
rounds finished, counted as a set of pairs (`Made`). `NoUpdateLost` is the theorem.

**BlockHashProofs** (from `SizesAssumption`, `ThreadsAssumption` and
`WordsAssumption`: a block is a whole number of words, 64 bytes of 8 by
`common.h:6`, and sizes and words fit `unsigned long`). `OwnSlot` needs
to know why the two pointers agree. `IInv` adds who may be inside the mutex
(`Mutex`), that `dataptr` is `optr` blocks except between the two increments
(`Pointers`), that all slots handed out exist (`HandedOut`; the lemma `SlotsAre`
shows that `hash_count` is the number of blocks that start inside the file),
that an owned slot is still unset and has one owner (`Owned`), and what every slot
contains (`Contents`). From it: `Typing`, `OwnSlotAlways`, `StoredStays` (an
action property) and `PrintedRight`.

`PrintedRight` also says what `calculate_and_store_hash` computes. The library's
induction theorems cannot be instantiated by the provers, so `NatSet` states
induction for a set of naturals, without an operator as a parameter; it follows
from the well-foundedness of `<` on them. With it, a sum over a finite set is the sum
over the set less one element (`SumStep`, `SumAny`), whatever order the fold takes.
The loop of `main.c:15-26` stops at the first word that does not fit the block or the file
(`Round`); the words it adds from one on are those not yet behind it
(`LoopSums`, by induction on how many are left), and reducing after each
addition comes to the same as reducing once (`ModSum`), as no sum is negative.

**ParallelHashProofs**, all parts from `ParametersAssumption`: finitely many threads
and at least one (`main.c:90`), a
table smaller than the unsigned integers, inputs of fewer operations than the
counter holds. Part 1, the turns: `SameKeyInOrder` says that operations on one key run one at a time and in
the order of the input. It needs to know what `being_processed` means: an
operation taken off the input has an outcome or is being processed (`NoneLost`),
by one thread only (`NoneTwice`), and that thread's slot says so (`Turns`). `Proceeds`
sums up what all steps inside the table functions do to these facts, so the table
itself does not appear in the proof. `KeyOrder` is the theorem.

Part 2, the table. That `insert_update` never enters a key
that is already there rests on open addressing: the slots between the one a key
hashes to and the one it is in are all taken (`Chains`, by way of `Reachable` and
`Taken`), where a deletion mark and an entry whose id is stored and whose key is
not count as taken; a walk has passed no slot with its key (`Knows`); and by
`KeyOrder`'s invariant no other thread inserts or deletes that key meanwhile
(`Exclusive`). A failed assert stops the program at once, so the invariant has a
case for it (`Aborted`). `NoDuplicates` is the theorem.

Part 3, the counter. The counter is changed after the entry
is, so while threads are in between it is not the number of entries. `Counts`
leaves out the entries whose insertion has not been counted and adds the threads
whose deletion has not; that the sum is at most the counter, and the counter at
most the number of finished operations, is inductive (`CInv`, with `Fresh`: an
operation in progress has no outcome yet). It is an inequality because a table with
as many keys as entries can lose one. So a deletion never finds the counter at 0
and an insertion never finds it full, and the 8-byte add carries nothing into the
pointer behind it (`PointerIntact`).

Part 4 shows that ids, keys and data in the table are the input's and gives
`TypeCorrect`.

Part 5, the results. `SerialOutcomes`, `SerialTable`, `CounterExact` and
`LiveEntries` have the hypothesis `EntriesSuffice`: no input puts keys into the
table afresh (a PUT that finds its key absent in a serial execution) as often as the
table has entries. So a table with more entries than PUTs will do, and so will one
with more entries than keys if nothing is deleted. Without such a hypothesis
`OutcomesSerial` is false: once all entries have been used deleted ones are reused,
and finding 1 shows a GET that misses its key beside a reuse. All inputs of the run
`parallel_hash` satisfy it but the one that reuses an entry, so what the run says
of reuse is model-checked only.

An entry that has a key or has been deleted is *hard*: it stays so, and a
walk passes nothing else. The invariant `SInv` says that each key in the table is reached over hard
entries (`HardChains`); that entries are hard only by insertions that have stored
their key (`HardCount`), so one always is not (`SomeFree`), and the second walk of
`insert_update` never begins; that the counter is exact but for the threads about to
change it (`Exact`); and that, whenever the finished operations on a key are the first
ones of the input and no thread is within one, the table holds of that key what they
leave in a serial execution (`Contents`). A thread takes that over when it starts
(`StartSees`, by way of the order of part 1) and keeps it until it stores (`Sees`),
because nobody else touches entries with its key (`Touches`, `OthersSee`): a walk
with no lock has not passed its key (`NotPassed`), and where it stops for an entry
never used the key cannot lie behind (`ScanSees`). The step that returns gives
`Contents` back for one operation more (`ContentsKept`).

**FileTableProofs** (from `TableAssumption`, for `Restraint` = 1: with a full table
`open` leaks an object, and two calls store behind the table). `Table` is the part
of the descriptor tables that counts: the entries of live processes less those an
exit in progress has closed; beginning and ending an exit leave it as it is. The
lemmas `Put`, `Drop` and `Copy` say what one descriptor more, one less, and a copy
of a table for a child do to the number of references, without mentioning the
state; there is one lemma per call on top of them (`RefCounts`). `PipeEndsAgree` is
inductive together with the exact counts, the shape of objects and pipes (`Shape`)
and `OneObjectPerEnd`: an end of a pipe is one object, so it goes with that object's
last descriptor (`EndGoes`) and stays otherwise (`EndsKept`). dup2 onto the same
object is the delicate case: the reference is taken before the release, so the
object never looks like a last one (`Dup2Ends`, `PipeEnds`).

**PipeBufferProofs** (from the assumption of `PipeBuffer`: a u32 counts more than
two pages, and the buffers of `pipe_write` fit the page). `WholeArrives` and
`FifoWhenDrained` are inductive together with `Counted`: the offset is the length of
the queue and at most the page, which is what the test for room is for and why it
must not wrap for a buffer that fits. A read takes the same number of
bytes off the page, the queue and `whole` (`ReadKeeps`, with `TakenOff`); a write
puts the bytes that fit in front of index `count` where the queue has them and
touches none before the offset (`WriteKeeps`, with `Appended`). `Arrives` and
`DrainedFifo` hold for any page size and any sizes of calls.

**PipelineProofs** (from `PipelineAssumption`). An end of file tells a reader only
that no process has the write end, so `CompleteWhenCmdEnds` rests on who has which
descriptor. `IInv`, which speaks of runs in which nothing has failed, is the
phases and calls each process can be at (`Forked`), the descriptors it must have at
each call of its script (`Has`), the count of the bytes on their way from grep over
tee to cmd and into the file (`Counts`), and the order in which the processes end
(`InOrder`). So a process that may still write is found to hold a write end, and
a reader that meets an end of file to be the last to hold the pipe (`PipesAre`);
nobody gets a broken pipe (`NoBrokenPipe`). Each kind of call is a lemma of
its own. `Complete` is the theorem, for any amount of output and any pipe size.

**CowForkProofs** (from `CowAssumption`). `OneRunsPerTable` needs to know which
tables are in use: `IInv` is the shape of the contexts (`ContextsOK`), `TablesUsed`
(the page table of every process has the number of a slot that has been used, a
free slot has none) and `OneRunsPerTable` itself. `PagesInv` adds the shape of the page tables
(`TablesShape`) and `RunnerKnowsPages`; the lemma `KnownGrows` says that what a
process knows only grows, `StepPages` takes each action through the invariant.
`OneRuns` and `KnowsPages` hold for any number of processes, any segment sizes and
any tree of cforks and vforks.

The second part (with `EntryAssumption`: the entry that stands for an absent page
is no entry that maps a frame) is about the frames. `RefCounts` says that the count of a frame is the
number of entries that map it, `Separate` that a step that changes what one page table shows
leaves what the others show alone, `ChildSees` that a child of cfork starts with
the pages and values its parent has, and a child of vfork with a copy of its
parent's stack below it. For the latter (`VforkShows`) a page below that an
earlier child has left must be found to be none of the pages the parent knows, and
the frames the copy changes to be none of theirs, so that it does not show in the
parent. `FramesInv` is `PagesInv` with `FramesOK`, which speaks of one frame at a time:
it has the count of the pages that map it (`Counted`), and a page that may be
written without a fault is the only one that maps its frame (`WritableAlone`).
A new table has no pages before the copy (`FreshTables`), so a fork adds one to each
frame of the parent for every page it copies; that a fault always finds a free
frame follows from the counts, since there are as many frames as pages.

**VmAreaProofs** (from `VmAssumption`). The inductive invariant `ListInv` says that
the variables have their types and that each area is one that mmap could have made
and ends before the next begins (`Ordered`). It gives `TypeCorrect` and `Sorted` (the areas are
sorted, disjoint and not empty), and with `HangInv`, what the length of a search
that hangs says about the gaps, `HangsWhenFull`. The other four theorems are about
steps between states with `ListInv`: `RangeOnly`, `TableKept` and `Written` (the
properties `OnlyTheRange`, `AgreementKept` and `WrittenKept`, with exactly the
exceptions named there and for every call), and `Implements`: every step of the list
is a step of `AbstractVm` on the rights of the pages or leaves them alone. The bridge is `Has`:
a list has a page with some rights if one of its areas does. Each of the ways the
code edits the list is shown once to remake it (`Remade`): it stays ordered, has
in the range of the call what the call asks for, and outside what it had.
`SpliceRemade` does so for a replacement of neighbouring areas by some others,
`WithNewRemade` (mmap), `InsideRemade` and `CutGrown` (munmap, the second with the area that grows) and `ReshapedRemade` (mprotect) reduce
the cases of the code, split, shrink and merge to the left, the right or both, to it.

**Only model-checked.** Every safety invariant and action property of the passing
runs is a theorem. What is left to TLC: the liveness properties, which are out of
the prover's reach; and `ParallelHash` with inputs that use every entry of the
table, for which part 5 does not speak. The three violations are counterexamples of TLC.

## 5. Not modelled

* Formatting and logging, argument parsing, `mmap` and `open` of the input files,
  the binary layout of operations. `read_op` copies a record header before it
  tests for the end (`parallel_hash.c:51`); that is a matter of the mapping's
  layout.
* The templates handed out with the assignments, which the solutions replace;
  `inputgen.c`, which writes random input; `serial_hash.c`, whose behaviour is the
  reference `SerialOutcome` and `FinalTableSerial` state directly.
* Contents of regular files: the reads and writes of `file.c:148-242` only pass
  through to `flat_read` and `flat_write`, which are not in the repository. The
  unsigned `offp + count` of line 162 is listed as a hazard.
* `part1.c` (a sequential search in files) and `part3.c` (sums of directory sizes;
  the parent waits before it reads, which is safe because each child writes one
  line) keep no state between steps of several actors that a property could
  relate; almost everything they do is the file system's.
* In Assignment 3 the code segments, which nobody writes, `copy_os_pts`, TLB
  flushes and the page table levels between `pgd` and entry.

## 6. Plan

In this order, the most important behaviour first; all of 1 to 8 is done.

1. `AbstractRWLock`, `RWLock`, `RWLockTest`, `RWLockProofs`.
2. `BlockHash`, `BlockHashProofs`.
3. `ParallelHash`, `ParallelHashProofs`.
4. `FileTable`, `FileTableProofs`.
5. `PipeBuffer`, `PipeBufferProofs`.
6. `Pipeline`, `PipelineProofs`.
7. `AbstractVm`, `VmArea`, `VmAreaProofs`: the list of areas and the page table, against a
   function from page to rights.
8. `CowFork`, `CowForkProofs`: frames, page tables and the two kinds of fork.

Left: a model of `part3.c` against the limit of descriptors (the read ends are
never closed), a composition of `CowFork` with `VmArea` (munmap and mprotect on
shared frames), and a theorem on what holds of `ParallelHash` in tables in which
entries are reused.
