# Verification of C_operatingSystem

TLA+ models of the concurrent programs of the repository, TLC runs that check
them on small instances, and TLAPS proofs for instances of any size. The
repository is a collection of independent kernel modules and user programs
(three projects and the studios 3 to 17); they share no code, so each model
stands for one program or for a family of programs of one shape, and TLC runs the
small ones together in one composition, `Studios`. Paths below are relative to `src/`.

## The system

| component | state it keeps | operations | what is hard | what makes it correct |
|---|---|---|---|---|
| **Sieve modules** `project2_kernel_memory_concurrent_use/` `spinlock.c`, `atomic.c`, `sundrama_lock.c`, `sundrama_atomic.c` | the array `number`, the search position `cur`, the cross-out `counter` of each kthread, `arrive_barrier`, `done`, one spin lock | `simple_init`, `mybarrier`, `compute`, `mythread_func`, `simple_exit` with `showinfo` | kthreads on every core; a spin barrier used twice; `cur` read again after the unlock; crossing out without a lock; rmmod at any time | nobody computes before all have arrived, nobody leaves before all have finished, no prime is lost, only primes are reported, memory is freed after its last use, the computation ends |
| **Locks** `studio11_build_own_locks/` `lock.c`, `sleeplock.c` | one word, `mylock` | `lock`, `unlock` | compare-and-exchange, futex: release, store, wait and wake interleave | mutual exclusion, no lost wake-up, everybody is served |
| **Paging module** `project3_memory_management_and_paging/code/mod/paging.c` | a `struct state` per mapping (reference counter, page array), two page counters, the parameter `demand_paging` | `paging_mmap`, `do_fault`, `paging_vma_open`, `paging_vma_close`, init, exit | faults of several threads, split VMAs, failures half-way, rmmod under live mappings | the tracer lives as long as VMAs or faults point to it, a mapped page is not freed, no page is lost, the counters agree |
| **Monitoring modules** `project1_kernel_monitoring_framework/` | timer, task pointers | init, timer callback, kthread loop, exit | kthreads, interrupt and rmmod: lost wake-ups, tasks that do not exist yet or any more | kthreads are woken at every tick, exit returns and leaves nothing behind |
| **Counter modules** `studio10_synchronization/` `race.c`, `atomic_race.c` | `shared_data`, task pointers | init, kthread loop, exit | increments of several cores, a stop between check and suspend | the atomic counter is exact, exit returns |
| **Shared memory** `studio13_shared_memory_management/` | a named region with three guards and an array | `leader.c`, `follower.c` | no order between start-ups, crashes that leave the region behind, memory order | a follower copies the whole array, both programs end |
| **Readiness servers** `studio17_io_event_handling/` (select, poll, epoll, client) | table of clients, `boundry`, `nready` | accept, read, echo, drop | connections that come and go, limits of the table | a ready client is served, a slot is reused, the loop passes nobody over and waits only for all of them |
| **FIFO conversation** `studio16_pipes_fifos_sockets/` `fifo_w.c`, `fifo_r.c` | a FIFO, the ends each program has open, a buffer | open, read, write, close in turn | opens that wait for the peer, kills and restarts | turns alternate, each line is printed once by the other program, nobody waits for ever |
| **Pipe programs** `studio16_pipes_fifos_sockets/` `pipe.c`, `pipes.c` | a pipe, its ends in two processes | pipe, fork, close, write, read | who closes what, failures of pipe and fork | the reader gets the whole text and then meets the end of the file |
| **Local sockets** `studio16_pipes_fifos_sockets/` `socket_server.c`, `socket_client.c` | a name in a directory, a queue of connections, the number `fscanf` is reading | bind, listen, accept, scan; connect, copy | a server that waits inside `fscanf`, kills and restarts | numbers are printed once, in order of connection, and do come out |
| **Kernel memory module** `studio12_kernel_memory_management/kernel_memory.c` | the parameter, a block of pages | `my_get_order`, `thread_fn`, init, exit | order and index arithmetic; the parameter is read twice and may be written in between; a stop at any time | the block has room for what is written, and is given back |
| **Task walker** `studio14_VFS_layer/vfs.c` | a kthread | init, exit, the kthread up to its null pointer | - | - |
| **Family reader** `studio07_process_family_tree/family_reader.c` | the static `usrpid`, the walk of each writer | `usrpid_store`, exit | writers share `usrpid`, processes end on the way up | what is logged is a chain of parents |
| **Signal handler** `studio15_linux_signals/print500000.c` | a loop variable and an array of marks | two loops, a SIGINT handler | the signal arrives anywhere, also between the loops | the report names the interrupted turns, each once |
| **Sort** `studio15_linux_signals/test/sort.c` | an array and the cell behind it | `quicksort`, `partition`, `swap` | an index one too far, a temporary that cuts off fractions, random pivots | the array ends in order, no number is lost |
| **Matrix multiplications** `studio04_userspace_benchmarking/time_parallel_dense_mm.c`, `studio15_linux_signals/` `signal.c`, `test/dense_mm.c`, `test/parallel_dense_mm.c` | a matrix, the loop variables of a team | the three loops under `omp for` | private and shared variables, the square of the size in an unsigned, a result that is not cleared between multiplications | one multiplication computes what the serial loop does |
| **Other process programs** `studio07_process_family_tree/` `simple_fork.c`, `tree_fork.c`, `kobject_example_modified.c` | none | one fork; none; does not compile | - | - |
| **System calls, statistics, jiffies, scheduling** studios 3, 4, 6, 8, 9 | none | print, measure, set a policy | only the kernel's own scheduler | - |
| **TLPI helpers** `studio17_io_event_handling/{error_functions,get_num}.*`, `tlpi_hdr.h` | third party | - | - | - |

The only interactions between components of the repository are inside each
row: kthreads share the globals of their module, insmod and rmmod run its init
and exit while they do, the timer interrupt calls back into it, the kernel's
memory manager calls the VMA operations, leader and follower share a region.
Every row that is not modelled is listed with its reason in `PROJECT.json`.

## Modules

| module | models | role |
|---|---|---|
| `Sieve` | the four modules of project 2 | detailed specification |
| `Rendezvous` | what `mybarrier` promises | abstract specification, implemented by `Sieve` |
| `SieveMC` | - | parameters TLC uses |
| `SieveProofs` | - | theorems about `Sieve` |
| `Locks` | `lock.c`, `sleeplock.c` | detailed specification |
| `Mutex` | what a lock promises | abstract specification, implemented by `Locks` |
| `LocksProofs` | - | theorems about `Locks` in `Studios` |
| `Paging`, `PagingMC` | `paging.c`; symmetry for TLC | detailed specification |
| `PagingProofs` | - | theorems about `Paging` |
| `Kthreads` | `multiple_threaded_module.c`, `single_threaded_mod.c`, `race.c`, `atomic_race.c` | detailed specification |
| `KthreadsProofs` | - | theorems about `Kthreads` |
| `SharedMemory` | `leader.c`, `follower.c`, `myheader.h` | detailed specification |
| `SharedMemoryProofs` | - | theorems about `SharedMemory` |
| `Servers` | `studio17_poll.c`, `studio17_select_step3.c`, `studio17_epoll.c`, `studio17_client.c` | detailed specification |
| `ServersProofs` | - | theorems about `Servers` |
| `Fifo` | `fifo_w.c`, `fifo_r.c` | detailed specification |
| `Pipe` | `pipe.c`, `pipes.c` | detailed specification |
| `LocalSocket` | `socket_server.c`, `socket_client.c` | detailed specification |
| `Signals` | `print500000.c` | detailed specification |
| `FamilyReader` | `family_reader.c` | detailed specification |
| `KernelMemory` | `kernel_memory.c`, `vfs.c` | detailed specification |
| `Quicksort` | `test/sort.c` | algorithm, one turn of a loop a step |
| `DenseMM` | the matrix multiplications of studios 4 and 15 | algorithm of a team of threads |
| `Studios` | - | composes `Locks` and the eight modules from `Fifo` to `DenseMM`, which share nothing |
| `StudiosMC` | - | a parameter TLC uses |
| `ConversationProofs` | - | theorems about `Fifo`, `Pipe`, `LocalSocket`, `Signals` and `FamilyReader` in `Studios` |
| `AlgorithmProofs` | - | theorems about `KernelMemory`, `Quicksort` and `DenseMM` in `Studios` |

Where programs are variants of one another (the four sieves, the two locks,
the four kthread modules, the three servers, the two pipe programs) one module
models them all and a variable `program` (`api` in `Servers`), chosen in `Init`
and never changed, says which one runs: the frame they share
is stated once, and the differences are visible as conditions on it.

### Sieve

`SetUp`, `Spawn` and `InitReturn` are `simple_init`: the checks and
allocations, the loop of `kthread_run`, the return. A kthread is at a program
point `pc[t]`: `arrive0`/`wait0` and `arrive1`/`wait1` are the two calls of
`mybarrier` (the increment under the lock, then the spin), `claim`, `bump`,
`skip`, `check`, `cross` are `compute`, `add` is `atomic_add(1, &done)`,
`leaving` the return that still executes in the module. `ExitEarly` and
`ExitReport` are `simple_exit`: "No adequate time", or the report and the
`kfree`. `Fault` is a kthread that executes an instruction of a module that
has been removed.

A critical section is one step, with one exception. The claim (`cur` is read,
incremented and moved past crossed-out numbers) holds the lock over several
steps, because another kthread reads `cur` after *its* unlock without the lock
and sees the values in between. Crossing out waits for the lock in the lock
modules and not in the atomic ones. Positions are array indices:
position `p` stands for `p + 2` in the Eratosthenes modules and for `2p + 1`
in the Sundaram ones. `number[cur]` is read before `cur` is compared with the
end. Every claim moves `cur` by one at least, so the last claims, one of each
kthread, read further and further past the array; the comparison is false there
and decides the condition alone, so the model evaluates it first, and no property
depends on what such a read finds.

An oops (a failed `kmalloc`, whose NULL `IS_ERR` does not recognise; a rmmod
after rejected parameters, where `showinfo` follows null pointers; code that is
gone) ends the behaviour: the state `module = "oops"` is final.

`arrive_barrier` is volatile (`spinlock.c:35`), so that each turn of the spin
reads it afresh, as the model does. The time stamps and the layout of what `showinfo` prints
are left out; what it counts is `Reported` and `Unnecessary`.

### Locks

Each step is one atomic operation or one system call of `lock` and `unlock`;
between `critical` and the first step of `unlock` a thread is in the critical
section. A failed compare-and-exchange of `lock.c` changes nothing and is not a
step. `FutexWait` compares and sleeps in one step, as the kernel does; futex
may also return without a wake-up (`SpuriousWake`). Each thread of the team
locks and unlocks once, as `main` does.

### Paging

The kernel calls `mmap`, `open` and `close` with `mmap_sem` held for writing,
and `fault` with it held for reading: the first three are one step each, taken
while no fault is running (`Quiet`), and the faults of several threads
interleave step by step with each other. A virtual page is named by its
mapping and its index in the mapping; in kernels from 4.11 on
`vmf->address` is already the start of a page, so `PAGE_ALIGN` does not move
it. `kmalloc` does not clear the page array, so that each entry of a
demand-paged mapping starts as null or `Stale`; a pre-paged one is filled
completely. `mishaps` is a history variable: it remembers whether a VMA was
split or a mapping failed, the two ways in which the code loses pages.
`corrupt` (an oops, a BUG, a double remap, a stale pointer given to
`__free_page`) ends the behaviour.

### Kthreads

insmod, rmmod, the timer callback and the kthreads interleave at the
granularity of kernel calls; the increment of `race.c` is a load and a store.
`wake_up_process` (`Woken`) has an effect on a task that has been created or
has set its state to `TASK_INTERRUPTIBLE`, and none on a running one: a
wake-up between the check of `kthread_should_stop` and `set_current_state` is
lost. `task_pointer` may be null, an error, valid, or point to a task that
`kthread_stop` has already let go. The callback that finds the last of these
may crash or may find a dead task and do nothing; both are in the model.

### SharedMemory

Leaders and followers are processes that may be started and killed at any
time; a killed one leaves the region as it is. The name may stand for a new
region while an old one is still mapped. The array is a set of parts that are
written or not (`srand(3)` makes every leader write the same numbers), copied
part by part. On an `"ordered"` memory stores are seen in program order; on a
`"weak"` one a leader's stores to the array wait in `pending` and become
visible at any later time (`Drain`), as the plain volatile guards allow on the
Raspberry Pi the course uses.

### Servers

A server is at `wait` (in `poll` or `select`), `listener`, `stdin` or
`clients`, the three parts of its loop. `ready` is what the kernel has reported
and the loop has not reached yet, so the loop's index is the first entry of
`Left`; for the poll server it holds the connections whose `revents` *equals*
`POLLIN`, which a broken connection's does not, while `nready` counts them all.
`junk` is the one entry whose `revents` nobody has written: that of a
connection accepted in this round beyond `boundry`.

Each step of a server deals with one descriptor, and the clients act in
between. The states of a connection are those of the server's socket: closed
by the peer (`eof`), with an answer under way that will be reset (`answered`,
then `piped`), reset (`reset`, and `aborted` once a call has reported it). A
write to `piped` or `aborted` is SIGPIPE and the end of the server. A read of an
open connection without data is not enabled, which is the wait. The text is
reduced to the number of reads it is good for, each of which may or may not
begin with "quit"; this covers lines that arrive in pieces or together. `poll`
beyond the array is `undefined` and final. `poll` and `select` themselves do
not fail in the model: there is no signal handler, and every descriptor they
are given is open (`WatchesWhatIsOpen`).

### Fifo

A program is at `open`, `waiting` in it, `opened`, or `done` with its read or
write, in a turn that uses the write or the read end. `open` of a FIFO counts
the caller in at once, waits until the other end has been opened, and lets
everybody in who waits for this one (`Enter`); that the other end is closed
again before the waiting program runs makes no difference to it. What is in
the FIFO is lost when nobody has it open. A read takes the first line and
perhaps more, or returns nothing when no writer is left, and then the program
prints what its buffer held. Lines are numbered modulo `Numbers`.

The epoll server's set holds its listening socket and its standard input, and
the kernel reports them in either order. Its `accept` is given a length where a
pointer is due (`studio17_epoll.c:98`): it takes the first connection off the
queue, fails, and ends the server. Reading a line ends it too. The branch for
clients is never reached, and is not modelled.

### Pipe

The process that calls `pipe` is the writer in `pipe.c` and the reader in
`pipes.c`. Each step is one call on a descriptor; the text is one write, made by
`fclose`, and one read. A pipe is empty again when nobody holds an end of it.
`pipes.c` takes the -1 of a fork that failed for a child's 0, so that `ForkFails`
leaves one process, which goes on as the writer and is killed by its first
write. `Kill` ends a process anywhere.

### LocalSocket

A byte is a digit, something a number may follow (a blank, a sign), or
anything else: what decides whether `fscanf` stops, reads on or has found a number
(`Scan`). There is never a second byte in a connection, because the client makes
one for each and never closes it; so the end of the file comes only with
the client's end (`ScanEnds`). The name of the socket outlives the
server, the `unlink` being after a loop without an end: a second start then
fails in `bind` and crashes at once in `fscanf` (`Bind`), until somebody removes
the name.

### Signals

The handler is one step, since the process does not run meanwhile and SIGINT is
blocked. It may come between any two accesses of `main` to the shared variables.
Between the loops `i` is one past the array, and the handler's store goes to
what the compiler has put there: nothing that matters, or `i` itself (both are
in `sigint_handler`; `overrun` remembers it).

### FamilyReader

Several writers, each with the attribute opened by itself, run `usrpid_store` at
the same time: storing into the shared `usrpid`, looking it up, and one step up
are separate. Processes end (`Exit`, after which their children belong to init)
and are reaped (`Reap`, after which their `task_struct` is freed memory). A walk
that follows freed memory may oops or find itself anywhere (`Stray`).

### KernelMemory

insmod, rmmod, the kthread and whoever writes `nr_structs` interleave. The
number of pages is computed from two reads of the parameter (`divide`, `round`),
`my_get_order` from `order` to `alloc` by shifts; `fill` and `verify` touch one
page a step. `vfs.c` has the same frame and a kthread that ends in a null
pointer (`vfs.c:51`).

### Quicksort

Numbers are counted in halves, so that 1 has a fraction and 2 has not, and
`Whole` is the assignment to swap's `unsigned`. The recursion is the set `todo` of the calls
that are due, of which the leftmost is made next, as it is by a call of
`quicksort` for the left part before the one for the right. `main` passes
the size where the last index is due: `Cells` has one cell more than the array,
with any content.

### DenseMM

A cell of `C` counts how often each product has been added to it; the sum itself is
not needed to know that it is right. `C[...] += ...` is a load and a store. `Own`
is the copy of `col`, `row` and `index` a thread uses: `private(...)` makes it
its own. `Unsigned` is what an unsigned keeps of a number: `sqrt_of_UINT32_MAX`
squared is the first it cannot hold. The size of that name passes the check, its
square becomes 0, and the arrays have no cell: `corrupt`. `Repeat` is the head of
the loop over the iterations, which `time_parallel_dense_mm.c` takes any number of,
none included, and the other programs one; `C` is cleared before the first only.
`D` is what the serial loop of `VERIFY_PARALLEL` computes, for
`IdenticalToSerial` and `ProductRight` to compare with.

### Studios

`Locks` and the eight modules from `Fifo` to `DenseMM` share no variable. `Studios`
instantiates each with constants of its own, and a variable `running`, chosen in
`Init`, lets one of them run; the others keep their initial state. It adds no
behaviour.

## Runs

| run | module, configuration | shows |
|---|---|---|
| `sieve` | `SieveMC`, `Sieve.cfg` | all invariants of the barrier, the claims, the arrays and the results; the refinement of `Rendezvous`; termination |
| `sieve_composite` | `SieveMC`, `SieveComposite.cfg` | **violation**: a composite is reported as a prime |
| `sleeplock` | `Locks`, `SleepLock.cfg` | **violation**: a thread sleeps for ever on a free lock |
| `paging` | `PagingMC`, `Paging.cfg` | references, lifetimes of tracers and pages, the page array against the page table, counters |
| `paging_counters` | `PagingMC`, `PagingCounters.cfg` | **violation**: the counters differ at exit after a split |
| `kthreads` | `Kthreads`, `Kthreads.cfg` | exit leaves nothing behind and returns, monitoring goes on, what the counters may show |
| `kthread_stop` | `Kthreads`, `KthreadStop.cfg` | **violation**: rmmod of a module without a timer hangs |
| `shared_memory` | `SharedMemory`, `SharedMemory.cfg` | whole arrays on ordered memory, completed hand-overs |
| `shared_memory_signal` | `SharedMemory`, `SharedMemorySignal.cfg` | **violation**: a notification is erased |
| `servers` | `Servers`, `Servers.cfg` | the servers watch exactly what is open, never pass over a reported client, wait in a read only in one case, and drop those who leave |
| `studios` | `StudiosMC`, `Studios.cfg` | both locks and eight other programs of the studios, see below |
| `dense_verify` | `DenseMM`, `DenseVerify.cfg` | **violation**: two multiplications do not give what the serial computation does |

The properties of `studios` are those of the components: `ImplementsMutex` (both
locks implement `Mutex`), `Excludes`, `SleepersAreKnown` (to the holder) and
`SpinLockServesAll` (`Locks`), `InOrder` (FIFO, pipe and
socket deliver once and in order), `GoesOn` (and do deliver), `ReportIsRight`
(`Signals`), `Ancestry` (`FamilyReader`), `BlockSuffices` (`KernelMemory`), `Sorted` and
`SameNumbers` (`Quicksort`), `ProductRight` (`DenseMM`).

A few properties are stated with the exception the code needs, and the
exception is visible in them: `ArrayMirrorsTable` ends with the first split, `GoesOn` of `Fifo` with
the first kill, `BlockSuffices` promises nothing of the structs when the parameter
was written between its two reads, `Ancestry` nothing of a walk through freed
memory, `SameNumbers` nothing of fractions, `ProductRight` nothing of the cells
after more or fewer multiplications than one, nor of the one size whose square is 0.
`NothingLost` is about mappings that were neither split nor failed,
`WatchesWhatIsOpen` says nothing once the poll server has run over its table, nor
of a connection the select server watches without an entry, and `WholeArray` is
about ordered memory.

### What the violations show

* **A composite among the primes.** Kthread A claims position `p` and unlocks.
  Kthread B claims the next ones, and `cur` reaches the end. A reads `cur`
  again, sees the end and returns: `p` is never sieved with. `spinlock.c:1`
  promises "all the prime numbers". `MissedOnlyIfDropped` in the passing run
  shows that this is the *only* way a composite survives, and
  `ExactWhenSequential` that one kthread is always exact.
* **A sleep on a free lock.** Thread A subtracts and gets -1. The holder B
  adds, gets 0, stores 1, wakes nobody. A stores -1 over it and waits.
* **A page lost by a split.** A pre-paged mapping of two pages is split; each
  half is closed; the second close frees one entry of two.
* **rmmod hangs.** `kthread_stop` sets the flag and wakes the kthread while it
  is still counting; it then suspends itself, and nobody wakes it again. The
  monitoring modules have the same loop, but their timer is cancelled only
  afterwards: `ExitReturns` shows that its next tick saves them.
* **A product added to a product.** `time_parallel_dense_mm.c` multiplies into the
  same `C` again and again and clears it once; the serial `D` is computed once.
  With two iterations the assertion of line 130 fails although every thread did its part
  right: with one, `ProductRight` shows, it never does.
* **A notification erased.** The follower sets `write_guard` before the leader
  initialises it to 0; both spin.

### Bounds

* `sieve`: 0 to 2 kthreads with every upper bound from 0 to 10, one kthread
  with 27, three kthreads with 4. The rejected parameters are among them. An
  upper bound of 4 is the first at which Eratosthenes crosses anything out and
  9 the first for Sundaram; two kthreads already produce every interleaving of
  two claims, of a claim with a cross-out and of the barrier with a late
  arrival, and 27 has a composite that is odd, a square times a prime, and
  beyond the first cross-outs. Three kthreads are there for the barrier. The
  arrays of the default parameters are beyond TLC; the proofs below are about
  them.
* `paging`: two mappings of up to two pages, two threads, three struct pages. A
  mapping of two pages can be split once; alloc_page fails when the third page
  is out; two mappings compete for pages.
* `kthreads`: three kthreads (the code has four), three increments each (the
  code has 1 000 000): two are needed for the lower bound in `Totals`, and
  the third shows that it stays two.
* `shared_memory`: two leaders and two followers, two regions, two parts of the
  array.
* `servers`: a table for two (the code has ten) and three clients, so that the
  table runs full, entries are used again, and one client is served while
  another is dropped; one read outstanding for each connection.
* `studios`:
  * a team of four threads for the locks: a holder, one that has just released,
    one that stores, one that sleeps; each locks once, as in the code;
  * the two programs of the FIFO; lines numbered modulo three, enough to tell a
    line from the one before and the one after; two lines in the FIFO, which
    takes kills and restarts to reach (undisturbed it is one, by `InTurn`);
  * both pipe programs, with a text of three lines;
  * two socket clients and two connections, and a queue with room for one: one
    client can wait in `connect`, one in the queue, one in `fscanf`;
  * four turns of each loop of `print500000.c` and three signals: one in each
    loop and one between them;
  * two writers and four processes: init, a child of it, a child of swapper and
    a grandchild, so that both ends of the walk and a reparenting on the way occur;
  * blocks of up to eight pages and sizes around every power of two up to there,
    with one that is too large;
  * arrays of up to three elements and the cell behind, with equal elements and a
    fraction: all orders of four cells, slices of one and of none;
  * two threads, matrices of up to two, an unsigned of four bits: 4 is the size
    whose square does not fit, 5 is refused; none, one or two multiplications.

The violation runs use the smallest instance that shows the behaviour.

### Fairness

* `Sieve`, `Kthreads`: insmod and rmmod, once begun, and every kthread get
  processor time for ever. The kthreads have a core each (project 1 and studio
  10 bind them) or run under a preemptible kernel; the spins never yield. An
  armed timer expires and its callback returns. `hrtimer_cancel` retries while
  the callback runs: it is given strong fairness, because it waits for the end
  of the running callback and the timer's period leaves gaps. Nothing makes
  anybody call rmmod.
* `Locks`, alone and in `Studios`: every thread that is not asleep is scheduled;
  a spurious wake-up is possible and never promised. Weak fairness is enough for the spin lock since
  each thread uses it once.
* `SharedMemory`: every process that has been started is scheduled; nobody is
  bound to start, and nothing is assumed of when a store becomes visible.
* `Servers`: the server process is scheduled (weak fairness of its steps), and
  `accept` does not fail for ever (strong fairness of an accept that succeeds):
  descriptors run out at the process's limit, far beyond three clients, and
  without this the select server would try again for ever and look at nobody.
  Nothing makes a client send or leave, nor a reset arrive.
* `Studios`: the two programs of the FIFO are scheduled and whoever is asked for
  a line types it; both processes of the pipe are scheduled, but may be killed;
  the server of the socket is scheduled while it runs, and nobody has to type
  anything. The locks are above; the other components have no liveness property.
* `Paging` has no liveness property and no fairness.

## Proofs

All theorems hold for every value of the constants that satisfies the named
assumptions of its module (those called `...Assumption`), and rest on nothing else.
The modules that `Studios` instantiates state theirs as a definition, `ConstantsOK`,
and `Studios` assumes them all (`InstancesOK`); `Locks` assumes nothing of its one
constant. For each module an invariant is
proved from its own `Init` and `Next`; the lemmas called `...Always` (`OneOfTheLocks` for the
locks) carry it over to the composition, where a step is one of the module or leaves
it alone.

**`SieveProofs`** proves the barrier and the sieve in layers, each resting on
those before.

* `FrameInv` is the type invariant, the two properties `BarrierHolds`
  and `FreeIsSafe`, and what they need to be inductive:
  `LifeInv`, which kthreads and arrays exist at each point of the module's life,
  and `CountInv`, by which `arrive_barrier` is the number of kthreads that have
  come to the first barrier plus the number that have come to the second, and
  `done` the number that have added themselves. A kthread leaves a spin on the
  number alone; the counts are what turns `arrive_barrier >= num_threads`
  into a statement about every kthread. From `FrameInv` follow `TypeCorrect`,
  `BothMeetings`, `SafeFree` and the refinement
  `BarrierImplementsRendezvous`, where every action maps to `Reach`, `Pass` or
  a stutter.
* `ClaimInv` adds the claims: whoever is in the middle of a claim holds the
  lock, and every claimed position lies below `cur`, but for the one whose
  claim has not moved `cur` yet. `DistinctClaims` follows.
* `SieveInv` adds the sieve: a kthread that is crossing out has a distance of
  at least two and a position that stands for a proper multiple of it
  (Eratosthenes), or two factors of at least three (Sundaram). With the
  arithmetic lemmas about the two sieves this gives `PrimesAreSafe`: no prime
  is ever crossed out, in an array of any size, with or without the lock.
* `NumbersInv` says that a number is either in its place or crossed out, and
  `LedgerInv` that the kthreads have counted at least as many cross-outs as
  there are numbers crossed out, in the Eratosthenes modules: `NoneIsUncounted`.
* `CompleteInv` says what the kthreads have done with the positions behind
  `cur`. Each is crossed out, or has been sieved with, or is being sieved
  with, or has been *dropped* by a kthread that found `cur` at the end when it
  came back to it (`PassedInv`); whoever has crossed a number out crosses out
  all the multiples that are left (`CrossedInv`, `CrossingInv`). When the kthreads
  have finished, a composite that is reported is therefore a multiple of a
  dropped position: `OnlyDroppedAreMissed`, for any number of kthreads in any order.
* A kthread alone drops at most the position it claimed last, and has seen
  all behind it crossed out (`AloneInv`). In the Eratosthenes modules that
  position has no multiple in the array. The Sundaram modules search only up to
  a quarter of `upper_bound`, so that the square of a dropped number may lie
  in the array; that there is none that has been dropped is due to a prime between
  the number and its double. `ExactAlone` says so: `ExactWhenSequential`
  for every upper bound in the Eratosthenes modules, and in the Sundaram ones
  given Chebyshev's theorem, which is a hypothesis of the theorem (`Chebyshev`), not
  something proved here. TLC has checked `ExactWhenSequential` for both without it.

**`LocksProofs`**: `HeldInv` adds to mutual exclusion what it needs to be inductive:
whoever holds the lock, also between the addition and the store of `unlock`,
finds the word at most `LOCKED`, so that nobody else can subtract his way in. It gives `Exclusive`
(which includes that the unlock of the spin lock finds it locked) and
`LocksImplementMutex`. `SleepInv` adds that a
`FUTEX_WAKE` is under way whenever a thread sleeps and the word does not show
it, be it open or held:
`HeldLockKnowsSleepers`. That a sleeper *without* a holder exists is the
violation above.

**`KthreadsProofs`**: `LifeInv` follows the life of a module. `CreationInv`
says what `simple_init` has and has not created yet, `TimerInv` that a
cancelled timer has no callback running (this is where `hrtimer_cancel`'s wait
is needed), `ExitInv` that the kthreads `simple_exit` has passed are gone, and
stay gone although the timer is still waking them. `LeavesNothing` and the
action property `LiveIsSafe` follow for any number of kthreads. The counters of
studio 10 need `CounterInv`: the increments that have been made are a set of pairs
(`Increments`), whose size is what the atomic counter shows and what the
volatile one never exceeds (`UpperInv`). That two increments survive every race
is `LowerInv`: from the second on a kthread reads something other than 0, so nobody stores
1 over a counter once everybody has stored his first. `CountersAddUp`
puts the three together, for any number of kthreads and increments.

**`SharedMemoryProofs`**: `WholeInv` relates guards to data. A region whose
`read_guard` is set has its whole array written; nothing ever unwrites a part
or clears that guard, so this survives every kill and restart, and a follower
past the guard may copy. `WholeArrayCopied` follows, for ordered memory. On
weak memory the same statement is false: a leader's last parts may still be
pending when its `read_guard` is seen.

**`PagingProofs`** has five layers.

* `VMAInv`: the VMAs of a mapping are not empty and do not overlap, their number is
  the reference counter of a tracer that is in use, and a fault under way has its VMA.
  That they do not overlap is what makes the counting right: a split replaces one
  VMA by two that are new. From it follow `TypeCorrect`, `CountsReferences` and
  `TracerLivesLongEnough`.
* `PageInv`: each struct page belongs to one mapping, by way of the page table, the
  array of the tracer, or a fault that has not mapped it yet; a page table
  entry lies in a VMA; the array is as long as what is left of the mapping.
  The last close frees what the array names, so `MappedPagesStayHeld` needs to
  know that no *other* mapping has those pages, and that its own, without a VMA,
  has no entry any more. A split breaks none of this: it loses pages, and never
  frees one that is in use.
* `MirrorInv`: without a split a mapping is one VMA that starts where the array
  does, so the index a fault records at is that of the page it has mapped.
  `ArrayTellsWhatToFree` follows, for any number of threads that fault at
  once.
* `CounterInv` finds the set of pages whose size is the difference of the two
  counters: those that are recorded in an array or in the hands of a fault past its
  count. For each page it names one place (`DistinctInv`), so that the frees
  of a close and their counts agree. `CountersStayBounded` follows: the
  difference is never negative and never more than the pages held.
* `OwnerInv` says that, as long as nothing has been split and no mapping has failed,
  a held page is with a fault or in the array of a VMA that is still there; so when
  the last is closed nothing is held: `NothingIsLost`.

**`ServersProofs`**: `OpenInv` relates the table to the connections: who has been
accepted and has not left is in the table (the set, for `select`), and the poll server's `boundry`
covers it. `NoneIsForgotten` follows. `LoopInv` is about what a loop has still
ahead: `CountInv`, by which `nready` is at least the number of reported
descriptors that are left, and is more only when a broken connection is among
those the loop will not look at; `ReadyInv`, by which what is left is open
and readable; and `JunkInv`, by which the entry nobody has written comes behind
all the others. The loop ends when `nready` is 0, so that it passes nobody over
(`NoneIsSkipped`); and it waits inside a read only for the unwritten entry, after a reset has
raised the count (`WaitsOnlyAfterReset`). Tables of any size and any number of
clients; `DescriptorAssumption` says that the listening socket and the
standard input are not connections.

**`ConversationProofs`** is about the programs that talk. `Delivers` has three parts.

* `FifoInv` names the four phases of an undisturbed conversation between a writer
  and a reader: both on their way into `open`, the line in the FIFO, the line
  read, the line printed and the other's turn begun. What a FIFO, a buffer and two
  counters hold in each phase is fixed (`Meeting`, `Full`, `Taken`, `Turned`), so
  a line cannot be read by the one who wrote it, nor twice.
* `PipeInv`: `ForkInv` says when there are two processes, `TextInv` that the text is
  in one place at most and was read by whoever has met the end of the file after
  a writer that has ended, `ReaderInv` that an undisturbed writer has a reader.
  Which ends are open follows from where a process is (`EndsAt`).
* `SocketInv`: what has been printed, what is being read and what is queued are
  numbered upwards in this order (`SocketOrderInv`), because a connection is
  always the least that has not been made yet, which rests on every set of
  numbers having a least (`LeastNatural`, from the library's well-foundedness of
  `<`). `SocketByteInv` says whose byte a connection carries. Nothing about
  kills is excluded.

`ReportsRight`: `ReportInv` says that the report has named every marked turn it has
come past and, unless the handler wrote behind the array, names them
upwards. The handler may mark the very turn the report is about to leave; the
marks that count are those made before it began. `LogsAncestors`: a walk that has not
strayed keeps a `Chained` log, whose numbers fall because a process has
a greater number than its parent, and `Walk` says what its next process has to do with the
last it logged, while other writers and the ends of processes change what lies above.

**`AlgorithmProofs`** is about the programs that compute.

* `MemoryInv`: `OrderInv` is the loop of `my_get_order`: `nr_pages` is at most
  `(value + 1) * span`, which every shift preserves, and which leaves
  `nr_pages <= span` when `value` is 0. `PagesInv` gives that the pages hold what
  was asked for unless the parameter was written in between. `BlockAlwaysSuffices`
  follows, for every size and every number of structs in a page.
* `SortInv`: comparing cells is not enough, because `swap` cuts off fractions while
  it moves them. Two cells in different pending slices have a *whole number*
  between them, which no cut can undo; `PartitionInv` is the usual invariant of
  the loop, with a whole pivot. When nothing is pending every two cells are in
  order: `SortedInTheEnd`. That no number is lost (`NoNumberIsLost`) is a matter of
  cardinalities: every step swaps two cells or none (`StepsSwap`), and the cells
  that hold a number are as many after a swap as before (`SwapCounts`).
* `DenseInv`, for any number of multiplications: as long as the square of the size fits an unsigned, the cells of a
  column hold what the last multiplication left while the column is still to be
  taken, what its thread has added up to its place in the loops, or one product more
  of each kind when the column is finished (`CellsInv`). `TeamInv` keeps every
  column with one thread, so that a load is never stale when it is stored. That
  different places are different cells is arithmetic (`CellFits`, `CellsCover` and
  the lemmas about products). For the one size beyond, the arrays are empty and no
  thread gets past its first access (`TooLargeInv`). `ProductAlwaysRight` is what it says
of one multiplication, where the cells are those of the serial loop.

**Only model-checked:** liveness (`Terminates`, `SpinLockServesAll`,
`KeepsMonitoring`, `ExitReturns`, `HandOver`, `LeaverIsDropped`, `GoesOn`), which is out of the
prover's reach, as is ENABLED. Every safety property of a passing run is a
theorem; of `ExactWhenSequential` the part about Sundaram has Chebyshev's theorem as
its hypothesis.

## Not modelled

Time stamps, log texts and their layout; the kernel itself, of which the models
take what the code relies on (marked external in the map: futex,
`wake_up_process`, `hrtimer_cancel`, `mmap_sem`, the page table, the ends of a
FIFO); failures of `misc_register` and `socket`, after which nothing is left to
model; memory order in the kernel modules, whose shared variables are accessed under a
lock, atomically or as volatile words. Of the programs:

* `studio17_epoll.c` after its first `accept`, which fails (line 98);
* `fifo.c`, which copies from a FIFO to its output up to the end of the file: its writers are
  not in the repository; `studio17_select.c`, which prints one answer of
  `select` after the other;
* `kobject_example_modified.c` does not compile; `tree_fork.c` assigns where it
  would compare (line 20), and never forks; `simple_fork.c` forks once and
  prints. `pipe.c` is modelled without the stray text in its line 41;
* the handler of `signal.c`, which counts and writes; `sing.c`, which prints verses;
* `workload.c`, which is `lock.c` without a lock; `code/user/dense_mm.c` of project 3, one of the
  processes `Paging` lets do everything, and a multiplication of matrices nobody
  initialises;
* the system calls, `getres.c` and the jiffies module, which print; the statistics of
  `time_parallel_dense_mm.c`, which depend on the clock; the scheduling
  experiments, where what happens is the kernel's scheduler;
* the helpers of The Linux Programming Interface, which are third-party code;
* the end of the standard input. In the select and poll servers a `read` of it returns
  0 and it stays readable, so that every round handles it again; a hang-up that
  `poll` reports as `POLLHUP` equals `POLLIN` never, is counted in `nready` and not
  taken off. In the FIFO programs `fgets` leaves its buffer alone, and the line typed
  before is written again. In the models standard input is text somebody types.

Some hazards have no property of their own, because the code has no guard
whose work could be stated: rmmod of a sieve module while its kthreads compute
(`Fault`), two faults at one address (`RemapPage` ends in `corrupt`), the uncleared
array (`paging_vma_close` ends in `corrupt`), a socket server that cannot be restarted (`Bind`). The models
contain them, and the properties hold up to there.

## Plan

1. *Done:* all components with shared state or concurrency; theorems about every
   safety property the passing runs check.
2. Left: what the liveness properties rest on and can be proved, such as measures that
   every step of a fair process decreases; the part of Chebyshev's theorem the
   Sundaram modules need, for which no induction is available here.
