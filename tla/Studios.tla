------------------------------- MODULE Studios -------------------------------
(***************************************************************************)
(* The programs and modules of the studios that share nothing with each    *)
(* other, each with parameters of its own.  `running` names the one that   *)
(* runs; the variables of the others keep their initial values.            *)
(***************************************************************************)
EXTENDS Integers

\* The parameters of the components: see there.
CONSTANTS
  \* Locks
  Team,
  \* Fifo
  Numbers, MaxPipe,
  \* Pipe
  PipePrograms, Lines,
  \* LocalSocket
  Clients, MaxConnections, backlog,
  \* Signals
  size, MaxSignals,
  \* FamilyReader
  Writers, family,
  \* KernelMemory
  MemoryPrograms, MemorySizes, nr_structs_per_page, MAX_ORDER,
  \* Quicksort
  SortSizes, Values,
  \* DenseMM
  Threads, MatrixSizes, sqrt_of_UINT32_MAX, Repeats

VARIABLES
  running,
  \* Locks
  l_program, mylock, l_pc,
  \* Fifo
  turn, f_at, f_ends, pipe, str, f_sent, heard, f_disturbed,
  \* Pipe
  p_program, p_at, p_ends, content, p_printed, p_disturbed,
  \* LocalSocket
  server, name, queue, cfd, number, client, sfd, owner, byte, typed, printed,
  \* Signals
  loop, s_at, s_i, called, pending, s_sent, marked, overrun, reported,
  \* FamilyReader
  r_module, real_parent, state, usrpid, r_pc, task, asked, logged, overtaken, strayed,
  \* KernelMemory
  k_program, k_module, kthread, should_stop, nr_structs, k_pc, nr_pages, value,
  order, span, block, k_i, wanted, torn,
  \* Quicksort
  q_at, array_size, A, todo, slice, pivot_val, target, index, given,
  \* DenseMM
  d_program, matrix_size, squared_size, iterations, round, columns, d_pc, col, row,
  indx, loaded, C

Own == INSTANCE Locks
  WITH program <- l_program, pc <- l_pc, Threads <- Team

Fifos == INSTANCE Fifo
  WITH at <- f_at, ends <- f_ends, sent <- f_sent, disturbed <- f_disturbed

Pipes == INSTANCE Pipe
  WITH program <- p_program, at <- p_at, ends <- p_ends, printed <- p_printed,
       disturbed <- p_disturbed,
       Programs <- PipePrograms

Sockets == INSTANCE LocalSocket

Handlers == INSTANCE Signals
  WITH at <- s_at, i <- s_i, sent <- s_sent

Families == INSTANCE FamilyReader
  WITH module <- r_module, pc <- r_pc

Memory == INSTANCE KernelMemory
  WITH program <- k_program, module <- k_module, pc <- k_pc, i <- k_i,
       Programs <- MemoryPrograms, Sizes <- MemorySizes

Sorting == INSTANCE Quicksort
  WITH at <- q_at, Sizes <- SortSizes

Matrices == INSTANCE DenseMM
  WITH program <- d_program, pc <- d_pc, Sizes <- MatrixSizes

ASSUME InstancesOK ==
  /\ Fifos!ConstantsOK /\ Pipes!ConstantsOK /\ Sockets!ConstantsOK
  /\ Handlers!ConstantsOK /\ Families!ConstantsOK /\ Memory!ConstantsOK
  /\ Sorting!ConstantsOK /\ Matrices!ConstantsOK

lockVars == <<l_program, mylock, l_pc>>
fifoVars == <<turn, f_at, f_ends, pipe, str, f_sent, heard, f_disturbed>>
pipeVars == <<p_program, p_at, p_ends, content, p_printed, p_disturbed>>
socketVars == <<server, name, queue, cfd, number, client, sfd, owner, byte,
                typed, printed>>
signalVars == <<loop, s_at, s_i, called, pending, s_sent, marked, overrun, reported>>
familyVars == <<r_module, real_parent, state, usrpid, r_pc, task, asked, logged,
                overtaken, strayed>>
memoryVars == <<k_program, k_module, kthread, should_stop, nr_structs, k_pc, nr_pages,
                value, order, span, block, k_i, wanted, torn>>
sortVars == <<q_at, array_size, A, todo, slice, pivot_val, target, index, given>>
denseVars == <<d_program, matrix_size, squared_size, iterations, round, columns, d_pc,
               col, row, indx, loaded, C>>
vars == <<running, lockVars, fifoVars, pipeVars, socketVars, signalVars, familyVars,
          memoryVars, sortVars, denseVars>>

Studios == {"locks", "fifo", "pipe", "socket", "signals", "family", "memory", "sort",
            "dense"}

\* One initial state is enough of what does not run.
Init ==
  /\ running \in Studios
  /\ Own!Init /\ Fifos!Init /\ Pipes!Init /\ Sockets!Init /\ Handlers!Init
  /\ Families!Init /\ Memory!Init /\ Sorting!Init /\ Matrices!Init
  /\ running # "locks" => l_program = "lock"
  /\ running # "pipe" => p_program = "pipe"
  /\ running # "memory" => k_program = "vfs" /\ nr_structs = 0

----------------------------------------------------------------------------
Next ==
  \/ /\ running = "locks" /\ Own!Next
     /\ UNCHANGED <<running, fifoVars, pipeVars, socketVars, signalVars, familyVars,
                    memoryVars, sortVars, denseVars>>
  \/ /\ running = "fifo" /\ Fifos!Next
     /\ UNCHANGED <<running, lockVars, pipeVars, socketVars, signalVars, familyVars,
                    memoryVars, sortVars, denseVars>>
  \/ /\ running = "pipe" /\ Pipes!Next
     /\ UNCHANGED <<running, lockVars, fifoVars, socketVars, signalVars, familyVars,
                    memoryVars, sortVars, denseVars>>
  \/ /\ running = "socket" /\ Sockets!Next
     /\ UNCHANGED <<running, lockVars, fifoVars, pipeVars, signalVars, familyVars,
                    memoryVars, sortVars, denseVars>>
  \/ /\ running = "signals" /\ Handlers!Next
     /\ UNCHANGED <<running, lockVars, fifoVars, pipeVars, socketVars, familyVars,
                    memoryVars, sortVars, denseVars>>
  \/ /\ running = "family" /\ Families!Next
     /\ UNCHANGED <<running, lockVars, fifoVars, pipeVars, socketVars, signalVars,
                    memoryVars, sortVars, denseVars>>
  \/ /\ running = "memory" /\ Memory!Next
     /\ UNCHANGED <<running, lockVars, fifoVars, pipeVars, socketVars, signalVars,
                    familyVars, sortVars, denseVars>>
  \/ /\ running = "sort" /\ Sorting!Next
     /\ UNCHANGED <<running, lockVars, fifoVars, pipeVars, socketVars, signalVars,
                    familyVars, memoryVars, denseVars>>
  \/ /\ running = "dense" /\ Matrices!Next
     /\ UNCHANGED <<running, lockVars, fifoVars, pipeVars, socketVars, signalVars,
                    familyVars, memoryVars, sortVars>>

Spec == Init /\ [][Next]_vars

\* What each component assumes of the scheduler: every thread of the team that can
\* run, both programs of the FIFO and both ends of the pipe get their turn, and the
\* server of the socket does.
FairSpec ==
  /\ Spec
  /\ \A t \in Team : WF_lockVars(running = "locks" /\ Own!Program(t))
  /\ \A u \in Fifos!Users : WF_fifoVars(running = "fifo" /\ Fifos!Step(u))
  /\ \A p \in Pipes!Processes : WF_pipeVars(running = "pipe" /\ Pipes!Step(p))
  /\ WF_socketVars(running = "socket" /\ Sockets!ServerStep)

----------------------------------------------------------------------------
\* lock.c and sleeplock.c: one thread at a time is in the critical section, and
\* unlock never finds the lock open...
Excludes == Own!Excludes

\* ...which makes each of them a Mutex...
ImplementsMutex == Own!ImplementsMutex

\* ...the holder can tell that somebody sleeps...
SleepersAreKnown == Own!SleepersAreKnown

\* ...and the spin lock serves the whole team.
SpinLockServesAll == running = "locks" => Own!SpinLockServesAll

\* What goes into a FIFO, a pipe or a socket comes out once, in order, and at
\* the other end: see the three modules.
InOrder == Fifos!InTurn /\ Pipes!Delivered /\ Sockets!PrintsInOrder

\* And it does come out: nobody waits for ever for what was sent, or for an end
\* that has gone.
GoesOn ==
  /\ running = "fifo" => Fifos!GoesOn
  /\ running = "pipe" => Pipes!ReaderEnds
  /\ running = "socket" => Sockets!DigitIsPrinted

\* print500000.c: the report names the interrupted turns, each once.
ReportIsRight == Handlers!ReportIsRight

\* family_reader.c: what is logged is a chain of parents.
Ancestry == Families!Ancestry

\* kernel_memory.c: the block has room for what is written, and is freed.
BlockSuffices == Memory!BlockSuffices

\* sort.c: the program ends with every cell in order...
Sorted == Sorting!Sorted

\* ...and has moved numbers without losing one, fractions apart.
SameNumbers == Sorting!SameNumbers

\* dense_mm.c and its parallel versions: one multiplication computes what the
\* serial loop does, and none leaves the matrices.
ProductRight == Matrices!ProductRight
============================================================================
