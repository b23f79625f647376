---------------------------- MODULE KernelMemory ----------------------------
(***************************************************************************)
(* Two modules with a single kthread that polls kthread_should_stop:       *)
(* kernel_memory.c of studio12, whose kthread allocates a block of pages,  *)
(* fills it with structs, and verifies and frees it when it is stopped;    *)
(* and vfs.c of studio14, whose kthread looks at its own file system       *)
(* structures.                                                             *)
(*                                                                         *)
(* insmod and rmmod, the kthread, and whoever writes the parameter of the  *)
(* module interleave.  An oops ends the behaviour.                         *)
(***************************************************************************)
EXTENDS Integers

CONSTANTS Programs,            \* the modules that may be loaded
          Sizes,               \* values of nr_structs
          nr_structs_per_page, \* PAGE_SIZE / sizeof(datatype), 128 in the code
          MAX_ORDER            \* alloc_pages has no block of this order (11)

ProgramsAssumption == Programs \subseteq {"kernel_memory", "vfs"}
SizesAssumption == Sizes \subseteq Nat
PageAssumption == nr_structs_per_page \in Nat \ {0} /\ MAX_ORDER \in Nat

\* What is assumed of the constants.
ConstantsOK == ProgramsAssumption /\ SizesAssumption /\ PageAssumption

VARIABLES
  program,     \* the module that is loaded
  module,      \* "loading", "live", "exiting", "unloaded", "oops"
  kthread,     \* the pointer init stores: "null", "error", "task"
  should_stop,
  nr_structs,  \* the parameter, which root may write
  pc,          \* where the kthread is
  nr_pages,
  value,       \* what the loop of my_get_order has left of nr_pages
  order,       \* shifts, and what it returns
  span,        \* the pages of a block of that order: twice as many every shift
  block,       \* the pages behind `pages`; 0 for the null pointer
  i,           \* the page that is filled or verified next
  wanted,      \* history: the parameter as it was read first
  torn         \* history: it was written between the two reads

vars == <<program, module, kthread, should_stop, nr_structs, pc, nr_pages, value,
          order, span, block, i, wanted, torn>>
life == <<program, module, kthread, should_stop>>
request == <<nr_pages, wanted, torn>>
loop == <<value, order, span>>

Over == {"none", "exited"}

Init ==
  /\ program \in Programs
  /\ module = "loading" /\ kthread = "null" /\ should_stop = FALSE
  /\ nr_structs \in Sizes
  /\ pc = "none"
  /\ nr_pages = 0 /\ wanted = 0 /\ torn = FALSE
  /\ value = 0 /\ order = 0 /\ span = 1
  /\ block = 0 /\ i = 0

-----------------------------------------------------------------------------
(* insmod, rmmod, and the parameter. *)

Kept == UNCHANGED <<program, nr_structs, request, loop, block, i>>

\* kthread_create, in kernel_memory.c, or kthread_run.
Create ==
  /\ module = "loading" /\ pc = "none"
  /\ kthread' = "task"
  /\ IF program = "vfs"
     THEN pc' = "enter" /\ module' = "live"
     ELSE pc' = "created" /\ UNCHANGED module
  /\ UNCHANGED should_stop /\ Kept

\* kernel_memory.c gives up and is not loaded; vfs.c is, with an error pointer.
CreateFails ==
  /\ module = "loading" /\ pc = "none"
  /\ kthread' = "error"
  /\ module' = IF program = "vfs" THEN "live" ELSE "unloaded"
  /\ UNCHANGED <<pc, should_stop>> /\ Kept

\* wake_up_process and the end of kernel_memory_init.
WakeUp ==
  /\ module = "loading" /\ pc = "created"
  /\ pc' = "enter" /\ module' = "live"
  /\ UNCHANGED <<kthread, should_stop>> /\ Kept

\* kthread_stop follows an error pointer.
Stop ==
  /\ module = "live"
  /\ IF kthread = "error"
     THEN module' = "oops" /\ UNCHANGED should_stop
     ELSE module' = "exiting" /\ should_stop' = TRUE
  /\ UNCHANGED <<kthread, pc>> /\ Kept

Stopped ==
  /\ module = "exiting" /\ pc = "exited"
  /\ module' = "unloaded"
  /\ UNCHANGED <<kthread, should_stop, pc>> /\ Kept

WriteParameter ==
  /\ module \in {"live", "exiting"}
  /\ \E n \in Sizes : nr_structs' = n
  /\ torn' = (torn \/ pc = "round")
  /\ UNCHANGED <<life, pc, nr_pages, wanted, loop, block, i>>

-----------------------------------------------------------------------------
(* The kthread. *)

At(point) == module # "oops" /\ pc = point
Oops == module' = "oops" /\ UNCHANGED <<program, kthread, should_stop>>

\* kthread does not call a function it is to stop already.
Enter ==
  /\ At("enter")
  /\ pc' = IF should_stop THEN "exited" ELSE IF program = "vfs" THEN "walk" ELSE "divide"
  /\ UNCHANGED <<life, nr_structs, request, loop, block, i>>

\* *pwd = fs->pwd, through a pointer that is null.
Walk ==
  /\ At("walk")
  /\ Oops
  /\ UNCHANGED <<pc, nr_structs, request, loop, block, i>>

\* The number of pages takes two reads of the parameter.
Divide ==
  /\ At("divide")
  /\ nr_pages' = nr_structs \div nr_structs_per_page
  /\ wanted' = nr_structs
  /\ pc' = "round"
  /\ UNCHANGED <<life, nr_structs, torn, loop, block, i>>

\* Mutant: a page that is not full is not counted.
RoundedDown == 0
Rounded == IF nr_structs % nr_structs_per_page = 0 THEN 0 ELSE 1

RoundUp ==
  /\ At("round")
  /\ nr_pages' = nr_pages + Rounded
  /\ pc' = "order"
  /\ UNCHANGED <<life, nr_structs, wanted, torn, loop, block, i>>

\* !(value & (value - 1))
PowerOfTwo(n) == \E k \in 0..n : n = 2^k

my_get_order ==
  /\ At("order")
  /\ value' = IF nr_pages > 0 /\ PowerOfTwo(nr_pages) THEN nr_pages - 1 ELSE nr_pages
  /\ order' = 0 /\ span' = 1
  /\ pc' = "shift"
  /\ UNCHANGED <<life, nr_structs, request, block, i>>

\* Mutant: the loop ends one turn early.
GoOnShort == value > 1
GoOn == value > 0

Shift ==
  /\ At("shift")
  /\ IF GoOn
     THEN /\ value' = value \div 2
          /\ order' = order + 1 /\ span' = 2 * span
          /\ UNCHANGED pc
     ELSE pc' = "alloc" /\ UNCHANGED loop
  /\ UNCHANGED <<life, nr_structs, request, block, i>>

\* A failure is a null pointer, which IS_ERR does not see.
AllocPages ==
  /\ At("alloc")
  /\ \/ order < MAX_ORDER /\ block' = span
     \/ UNCHANGED block
  /\ i' = 0 /\ pc' = "fill"
  /\ UNCHANGED <<life, nr_structs, request, loop>>

\* Every struct of page i, in the loop that writes and in the one that compares.
Touch(next) ==
  IF i >= nr_pages
  THEN pc' = next /\ i' = 0 /\ UNCHANGED life
  ELSE IF block = 0
  THEN Oops /\ UNCHANGED <<pc, i>>
  ELSE i' = i + 1 /\ UNCHANGED <<pc, life>>

Fill ==
  /\ At("fill")
  /\ Touch("poll")
  /\ UNCHANGED <<nr_structs, request, loop, block>>

Poll ==
  /\ At("poll") /\ should_stop
  /\ pc' = "verify"
  /\ UNCHANGED <<life, nr_structs, request, loop, block, i>>

Verify ==
  /\ At("verify")
  /\ Touch("free")
  /\ UNCHANGED <<nr_structs, request, loop, block>>

\* __free_pages of a null pointer, when there was no page to touch before.
FreePages ==
  /\ At("free")
  /\ IF block = 0 THEN Oops /\ UNCHANGED pc ELSE pc' = "exited" /\ UNCHANGED life
  /\ block' = 0
  /\ UNCHANGED <<nr_structs, request, loop, i>>

-----------------------------------------------------------------------------
Insmod == Create \/ CreateFails \/ WakeUp
Run == \/ Enter \/ Walk \/ Divide \/ RoundUp \/ my_get_order \/ Shift
       \/ AllocPages \/ Fill \/ Poll \/ Verify \/ FreePages

Next == Insmod \/ Stop \/ Stopped \/ WriteParameter \/ Run

Spec == Init /\ [][Next]_vars

-----------------------------------------------------------------------------
TypeOK ==
  /\ program \in {"kernel_memory", "vfs"}
  /\ module \in {"loading", "live", "exiting", "unloaded", "oops"}
  /\ kthread \in {"null", "error", "task"} /\ should_stop \in BOOLEAN
  /\ nr_structs \in Nat /\ wanted \in Nat /\ nr_pages \in Nat
  /\ value \in Nat /\ order \in Nat /\ span \in Nat \ {0}
  /\ block \in Nat /\ i \in Nat /\ torn \in BOOLEAN
  /\ pc \in {"none", "created", "enter", "walk", "divide", "round", "order", "shift",
             "alloc", "fill", "poll", "verify", "free", "exited"}

\* The kthread only touches pages of its block, which has room for all the
\* structs it was asked for unless the parameter was written meanwhile; and
\* when the module has gone, the block has been given back, wherever the
\* kthread was when it was stopped.
BlockSuffices ==
  /\ pc \in {"fill", "verify"} /\ block > 0 /\ i < nr_pages => i < block
  /\ pc \in {"fill", "poll", "verify"} /\ ~torn =>
       wanted <= nr_pages * nr_structs_per_page
  /\ module = "unloaded" => block = 0 /\ pc \in Over
=============================================================================
