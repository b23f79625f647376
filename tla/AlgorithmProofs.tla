--------------------------- MODULE AlgorithmProofs ---------------------------
(***************************************************************************)
(* Theorems about the components of Studios that compute, for all values   *)
(* of their parameters: the block of kernel_memory.c, the slices of        *)
(* sort.c, and the cells of dense_mm.c.                                    *)
(*                                                                         *)
(* MemoryInv follows a request from pages to an order and a block. SortInv *)
(* confines what is not in order yet to the slices that are still to be    *)
(* sorted; that no number is lost rests on what one swap does. DenseInv    *)
(* says of every column whether it is still to be taken, is being computed *)
(* by one thread, and how far, or is finished.                             *)
(***************************************************************************)
EXTENDS Studios, FiniteSetTheorems, TLAPS

-----------------------------------------------------------------------------
(* kernel_memory.c: from structs to pages to a block. *)

\* The structs that fit into a page.
perPage == nr_structs_per_page

\* The number of pages is computed from two reads of the parameter.
PagesInv ==
  /\ k_pc = "round" => nr_pages = wanted \div perPage /\ (torn \/ nr_structs = wanted)
  /\ k_pc \in {"order", "shift", "alloc", "fill", "poll", "verify"} /\ ~torn =>
       wanted <= nr_pages * perPage

\* Every shift halves the value and doubles the block.
OrderInv ==
  /\ k_pc = "shift" => nr_pages <= (value + 1) * span
  /\ k_pc = "alloc" => nr_pages <= span
  /\ k_pc \in {"fill", "poll", "verify"} /\ block > 0 => nr_pages <= block

\* There is a block between AllocPages and FreePages only.
LifeInv ==
  /\ k_pc \notin {"fill", "poll", "verify", "free"} => block = 0
  /\ k_module = "unloaded" => k_pc \in Memory!Over

\* The invariant of the module.
MemoryInv == Memory!TypeOK /\ PagesInv /\ OrderInv /\ LifeInv

-----------------------------------------------------------------------------
(* Arithmetic. *)

\* What rounding to pages gives.
LEMMA DivisionBounds ==
  ASSUME NEW w \in Nat, NEW d \in Nat \ {0}
  PROVE  /\ w \div d \in Nat /\ w % d \in Nat
         /\ w < (w \div d) * d + d
         /\ w % d = 0 => w = (w \div d) * d
  BY SMT

\* One page more.
LEMMA MoreRoom ==
  ASSUME NEW q \in Nat, NEW d \in Nat
  PROVE  (q + 1) * d = q * d + d
  BY SMT

\* Halving the value and doubling the span loses no page.
LEMMA HalfTheValue ==
  ASSUME NEW v \in Nat, NEW s \in Nat
  PROVE  v \div 2 \in Nat /\ (v + 1) * s <= (v \div 2 + 1) * (2 * s)
<1>1. v \div 2 \in Nat /\ v + 1 <= 2 * (v \div 2 + 1)
  BY SMT
<1>2. PICK k \in Nat : 2 * (v \div 2 + 1) = v + 1 + k
  <2>1. 2 * (v \div 2 + 1) - (v + 1) \in Nat
    BY <1>1
  <2> QED
    BY <1>1, <2>1
<1>3. (v \div 2 + 1) * (2 * s) = (2 * (v \div 2 + 1)) * s
  BY <1>1
<1>4. (v + 1 + k) * s = (v + 1) * s + k * s /\ k * s \in Nat
  OBVIOUS
<1> QED
  BY <1>1, <1>2, <1>3, <1>4

-----------------------------------------------------------------------------
(* The steps. *)

\* Before insmod.
LEMMA MemoryInit == ASSUME Memory!ConstantsOK, Memory!Init PROVE MemoryInv
<1>1. Memory!TypeOK
  <2>1. k_program \in {"kernel_memory", "vfs"} /\ nr_structs \in Nat
    BY DEF Memory!ConstantsOK, Memory!ProgramsAssumption, Memory!SizesAssumption,
           Memory!Init
  <2>2. /\ k_module \in {"loading"} /\ kthread \in {"null"} /\ k_pc \in {"none"}
        /\ wanted = 0 /\ nr_pages = 0 /\ value = 0 /\ order = 0 /\ span = 1 /\ block = 0
        /\ k_i = 0
    BY DEF Memory!Init
  <2>3. should_stop \in BOOLEAN /\ torn \in BOOLEAN
    BY Zenon DEF Memory!Init
  <2> QED
    BY <2>1, <2>2, <2>3 DEF Memory!TypeOK
<1>2. PagesInv /\ OrderInv /\ LifeInv
  BY DEF Memory!Init, PagesInv, OrderInv, LifeInv, Memory!Over
<1> QED
  BY <1>1, <1>2 DEF MemoryInv

\* insmod and rmmod leave the kthread where it is, or start it.
LEMMA LifeStep ==
  ASSUME MemoryInv, Memory!Insmod \/ Memory!Stop \/ Memory!Stopped
  PROVE  MemoryInv'
<1>1. k_pc' = k_pc \/ k_pc' \in {"created", "enter"}
  BY DEF Memory!Insmod, Memory!Create, Memory!CreateFails, Memory!WakeUp, Memory!Stop,
         Memory!Stopped
<1>2. Memory!Kept
  BY DEF Memory!Insmod, Memory!Create, Memory!CreateFails, Memory!WakeUp, Memory!Stop,
         Memory!Stopped
<1>3. k_module' = "unloaded" => k_pc' \in Memory!Over
  BY DEF Memory!Insmod, Memory!Create, Memory!CreateFails, Memory!WakeUp, Memory!Stop,
         Memory!Stopped, Memory!Over
<1>4. PagesInv'
  BY <1>1, <1>2 DEF Memory!Kept, Memory!request, MemoryInv, PagesInv
<1>5. OrderInv'
  <2>1. k_pc' \in {"shift", "alloc", "fill", "poll", "verify"} => k_pc' = k_pc
    BY <1>1
  <2>2. UNCHANGED <<nr_pages, value, span, block>>
    BY <1>2 DEF Memory!Kept, Memory!request, Memory!loop
  <2> QED
    BY <2>1, <2>2 DEF MemoryInv, OrderInv
<1>6. LifeInv'
  <2>1. k_pc' \notin {"fill", "poll", "verify", "free"} => block = 0
    BY DEF Memory!Insmod, Memory!Create, Memory!CreateFails, Memory!WakeUp, Memory!Stop,
           Memory!Stopped, MemoryInv, LifeInv
  <2> QED
    BY <1>2, <1>3, <2>1 DEF Memory!Kept, LifeInv
<1>7. Memory!TypeOK'
  <2>1. /\ k_module' \in {"loading", "live", "exiting", "unloaded", "oops"}
        /\ kthread' \in {"null", "error", "task"} /\ should_stop' \in BOOLEAN
    BY DEF Memory!Insmod, Memory!Create, Memory!CreateFails, Memory!WakeUp, Memory!Stop,
           Memory!Stopped, MemoryInv, Memory!TypeOK
  <2> QED
    BY <1>1, <1>2, <2>1
    DEF Memory!Kept, Memory!request, Memory!loop, MemoryInv, Memory!TypeOK
<1> QED
  BY <1>4, <1>5, <1>6, <1>7 DEF MemoryInv

\* A write between the two reads is what torn remembers.
LEMMA WriteStep ==
  ASSUME Memory!ConstantsOK, MemoryInv, Memory!WriteParameter
  PROVE  MemoryInv'
<1>1. nr_structs' \in Nat /\ torn' = (torn \/ k_pc = "round")
      /\ UNCHANGED <<Memory!life, k_pc, nr_pages, wanted, Memory!loop, block, k_i>>
  BY DEF Memory!ConstantsOK, Memory!SizesAssumption, Memory!WriteParameter
<1>2. Memory!TypeOK' /\ OrderInv' /\ LifeInv'
  BY <1>1
  DEF Memory!life, Memory!loop, MemoryInv, Memory!TypeOK, OrderInv, LifeInv, Memory!Over
<1>3. PagesInv'
  BY <1>1 DEF MemoryInv, PagesInv
<1> QED
  BY <1>2, <1>3 DEF MemoryInv

\* The kthread, up to the number of pages.
LEMMA PagesStep ==
  ASSUME Memory!ConstantsOK, MemoryInv,
         Memory!Enter \/ Memory!Walk \/ Memory!Divide \/ Memory!RoundUp
  PROVE  MemoryInv'
<1>1. perPage \in Nat \ {0}
  BY DEF Memory!ConstantsOK, Memory!PageAssumption, perPage
<1>2. CASE Memory!Enter
  BY <1>2
  DEF Memory!Enter, Memory!At, Memory!life, Memory!request, Memory!loop, MemoryInv,
      Memory!TypeOK, PagesInv, OrderInv, LifeInv, Memory!Over
<1>3. CASE Memory!Walk
  BY <1>3
  DEF Memory!Walk, Memory!At, Memory!Oops, Memory!request, Memory!loop, MemoryInv,
      Memory!TypeOK, PagesInv, OrderInv, LifeInv, Memory!Over
<1>4. CASE Memory!Divide
  <2>1. nr_pages' = nr_structs \div perPage /\ wanted' = nr_structs /\ k_pc' = "round"
    BY <1>4 DEF Memory!Divide, perPage
  <2>2. nr_pages' \in Nat
    BY <1>1, <2>1, DivisionBounds DEF MemoryInv, Memory!TypeOK
  <2>3. Memory!TypeOK' /\ OrderInv' /\ LifeInv'
    BY <1>4, <2>1, <2>2
    DEF Memory!Divide, Memory!At, Memory!life, Memory!loop, MemoryInv, Memory!TypeOK,
        OrderInv, LifeInv, Memory!Over
  <2>4. PagesInv'
    BY <1>4, <2>1 DEF Memory!Divide, PagesInv
  <2> QED
    BY <2>3, <2>4 DEF MemoryInv
<1>5. CASE Memory!RoundUp
  <2>1. /\ k_pc = "round" /\ k_pc' = "order" /\ nr_pages' = nr_pages + Memory!Rounded
        /\ wanted' = wanted /\ torn' = torn /\ nr_pages = wanted \div perPage
        /\ (torn \/ nr_structs = wanted) /\ wanted \in Nat /\ Memory!Rounded \in {0, 1}
    BY <1>5
    DEF Memory!RoundUp, Memory!At, MemoryInv, Memory!TypeOK, PagesInv, Memory!Rounded
  <2>2. /\ nr_pages \in Nat /\ nr_pages' \in Nat
        /\ wanted < nr_pages * perPage + perPage
        /\ wanted % perPage = 0 => wanted = nr_pages * perPage
    BY <1>1, <2>1, DivisionBounds
  <2>3. Memory!TypeOK' /\ OrderInv' /\ LifeInv'
    BY <1>5, <2>1, <2>2
    DEF Memory!RoundUp, Memory!At, Memory!life, Memory!loop, MemoryInv, Memory!TypeOK,
        OrderInv, LifeInv, Memory!Over
  <2>4. ASSUME ~torn
        PROVE  wanted <= nr_pages' * perPage
    <3>1. CASE wanted % perPage = 0
      BY <2>1, <2>2, <2>4, <3>1 DEF Memory!Rounded, perPage
    <3>2. CASE wanted % perPage # 0
      <4>1. nr_pages' = nr_pages + 1
        BY <2>1, <2>4, <3>2 DEF Memory!Rounded, perPage
      <4>2. /\ nr_pages' * perPage = nr_pages * perPage + perPage
            /\ nr_pages * perPage + perPage \in Nat
        BY <1>1, <2>2, <4>1, MoreRoom
      <4> QED
        BY <2>1, <2>2, <4>2
    <3> QED
      BY <3>1, <3>2
  <2>5. PagesInv'
    BY <2>1, <2>4 DEF PagesInv
  <2> QED
    BY <2>3, <2>5 DEF MemoryInv
<1> QED
  BY <1>2, <1>3, <1>4, <1>5

\* my_get_order: when nothing is left of the value, the block is large enough.
LEMMA OrderStep ==
  ASSUME MemoryInv, Memory!my_get_order \/ Memory!Shift
  PROVE  MemoryInv'
<1>1. CASE Memory!my_get_order
  <2>1. /\ k_pc' = "shift" /\ span' = 1 /\ order' = 0 /\ nr_pages' = nr_pages
        /\ nr_pages \in Nat
        /\ value' = nr_pages \/ (nr_pages > 0 /\ value' = nr_pages - 1)
    BY <1>1 DEF Memory!my_get_order, Memory!request, MemoryInv, Memory!TypeOK
  <2>2. value' \in Nat /\ nr_pages' <= (value' + 1) * span'
    BY <2>1
  <2>3. OrderInv'
    BY <2>1, <2>2 DEF OrderInv
  <2> QED
    BY <1>1, <2>1, <2>2, <2>3
    DEF Memory!my_get_order, Memory!At, Memory!life, Memory!request, MemoryInv,
        Memory!TypeOK, PagesInv, LifeInv, Memory!Over
<1>2. CASE Memory!Shift /\ Memory!GoOn
  <2>1. /\ k_pc = "shift" /\ k_pc' = k_pc /\ value' = value \div 2 /\ span' = 2 * span
        /\ order' = order + 1
        /\ nr_pages' = nr_pages /\ nr_pages \in Nat /\ value \in Nat /\ span \in Nat \ {0}
        /\ order \in Nat /\ nr_pages <= (value + 1) * span
    BY <1>2 DEF Memory!Shift, Memory!At, Memory!request, MemoryInv, Memory!TypeOK, OrderInv
  <2>2. value' \in Nat /\ (value + 1) * span <= (value' + 1) * span'
    BY <2>1, HalfTheValue
  <2>3. (value + 1) * span \in Nat /\ (value' + 1) * span' \in Nat /\ span' \in Nat \ {0}
    BY <2>1, <2>2
  <2>4. nr_pages' <= (value' + 1) * span'
    BY <2>1, <2>2, <2>3
  <2>5. OrderInv'
    BY <2>1, <2>4 DEF OrderInv
  <2>6. Memory!TypeOK'
    BY <1>2, <2>1, <2>2, <2>3
    DEF Memory!Shift, Memory!life, Memory!request, MemoryInv, Memory!TypeOK
  <2> QED
    BY <1>2, <2>1, <2>5, <2>6
    DEF Memory!Shift, Memory!life, Memory!request, MemoryInv, PagesInv, LifeInv,
        Memory!Over
<1>3. CASE Memory!Shift /\ ~Memory!GoOn
  <2>1. /\ k_pc = "shift" /\ k_pc' = "alloc" /\ value = 0 /\ span \in Nat
        /\ nr_pages <= (value + 1) * span /\ UNCHANGED <<nr_pages, span>>
    BY <1>3
    DEF Memory!Shift, Memory!GoOn, Memory!At, Memory!request, Memory!loop, MemoryInv,
        Memory!TypeOK, OrderInv
  <2>2. nr_pages' <= span'
    BY <2>1
  <2>3. OrderInv'
    BY <2>1, <2>2 DEF OrderInv
  <2> QED
    BY <1>3, <2>1, <2>3
    DEF Memory!Shift, Memory!life, Memory!request, Memory!loop, MemoryInv, Memory!TypeOK,
        PagesInv, LifeInv, Memory!Over
<1> QED
  BY <1>1, <1>2, <1>3

\* The block, while there is one.
LEMMA BlockStep ==
  ASSUME MemoryInv,
         Memory!AllocPages \/ Memory!Fill \/ Memory!Poll \/ Memory!Verify \/ Memory!FreePages
  PROVE  MemoryInv'
<1>1. CASE Memory!AllocPages
  BY <1>1
  DEF Memory!AllocPages, Memory!At, Memory!life, Memory!request, Memory!loop, MemoryInv,
      Memory!TypeOK, PagesInv, OrderInv, LifeInv, Memory!Over
<1>2. CASE Memory!Fill
  BY <1>2
  DEF Memory!Fill, Memory!Touch, Memory!Oops, Memory!At, Memory!life, Memory!request,
      Memory!loop, MemoryInv, Memory!TypeOK, PagesInv, OrderInv, LifeInv, Memory!Over
<1>3. CASE Memory!Poll
  BY <1>3
  DEF Memory!Poll, Memory!At, Memory!life, Memory!request, Memory!loop, MemoryInv,
      Memory!TypeOK, PagesInv, OrderInv, LifeInv, Memory!Over
<1>4. CASE Memory!Verify
  BY <1>4
  DEF Memory!Verify, Memory!Touch, Memory!Oops, Memory!At, Memory!life, Memory!request,
      Memory!loop, MemoryInv, Memory!TypeOK, PagesInv, OrderInv, LifeInv, Memory!Over
<1>5. CASE Memory!FreePages
  BY <1>5
  DEF Memory!FreePages, Memory!Oops, Memory!At, Memory!life, Memory!request, Memory!loop,
      MemoryInv, Memory!TypeOK, PagesInv, OrderInv, LifeInv, Memory!Over
<1> QED
  BY <1>1, <1>2, <1>3, <1>4, <1>5

\* Every step preserves the invariant.
LEMMA MemoryNext ==
  ASSUME Memory!ConstantsOK, MemoryInv, [Memory!Next]_memoryVars
  PROVE  MemoryInv'
<1>1. CASE UNCHANGED memoryVars
  BY <1>1
  DEF memoryVars, MemoryInv, Memory!TypeOK, PagesInv, OrderInv, LifeInv, Memory!Over
<1> QED
  BY <1>1, LifeStep, WriteStep, PagesStep, OrderStep, BlockStep DEF Memory!Next, Memory!Run

\* It implies what the run checks of the block.
LEMMA MemorySuffices ==
  ASSUME Memory!ConstantsOK, MemoryInv
  PROVE  Memory!BlockSuffices
  BY DEF MemoryInv, Memory!TypeOK, PagesInv, OrderInv, LifeInv, Memory!BlockSuffices,
         Memory!Over, perPage

-----------------------------------------------------------------------------
(* sort.c: slices, and what is in order outside them. *)

\* The slices in which order is not established yet.
Pending == IF q_at = "partition" THEN todo \cup {slice} ELSE todo

\* Cell c belongs to slice s.
In(c, s) == s[1] <= c /\ c <= s[2]

\* Two cells are in order for good when a whole number is between what they
\* hold: cutting off fractions cannot undo that.
Between(x, y) == \E w \in Nat : w % 2 = 0 /\ x <= w /\ w <= y

\* Cells of a function f that are in different slices of a set are in order.
InOrderOutside(f, slices) ==
  \A c, d \in DOMAIN f :
    c < d => Between(f[c], f[d]) \/ \E s \in slices : In(c, s) /\ In(d, s)

\* No cell belongs to two slices.
Disjoint(slices) == \A s, t \in slices : s = t \/ s[2] < t[1] \/ t[2] < s[1]

\* The types of what the sort works on.
SortType ==
  /\ q_at \in {"generate", "quicksort", "partition", "done"}
  /\ array_size \in Nat
  /\ A \in [Sorting!Cells -> Nat]
  /\ todo \subseteq Sorting!Cells \X Sorting!Cells

\* What partition has done so far: not more than the pivot before target, not
\* less from there up to index.
PartitionInv ==
  /\ slice \in Sorting!Cells \X Sorting!Cells /\ Sorting!start < Sorting!end
  /\ slice \notin todo
  /\ target \in Nat /\ index \in Nat
  /\ Sorting!start <= target /\ target <= index /\ index <= Sorting!end
  /\ pivot_val \in Nat /\ pivot_val % 2 = 0 /\ A[Sorting!end] = pivot_val
  /\ \A c \in Sorting!Cells : Sorting!start <= c /\ c < target => A[c] <= pivot_val
  /\ \A c \in Sorting!Cells : target <= c /\ c < index => pivot_val <= A[c]

\* Outside the slices that are pending the array is in order.
SortInv ==
  /\ SortType
  /\ q_at \in {"quicksort", "partition", "done"} => InOrderOutside(A, Pending)
  /\ q_at \in {"quicksort", "partition"} => Disjoint(Pending)
  /\ q_at = "partition" => PartitionInv
  /\ q_at = "done" => todo = {}

-----------------------------------------------------------------------------
(* Cutting off the fraction. *)

\* A whole number is an even one here, and cutting off finds the next below.
LEMMA WholeFacts ==
  ASSUME NEW v \in Nat
  PROVE  /\ Sorting!Whole(v) \in Nat /\ Sorting!Whole(v) % 2 = 0 /\ Sorting!Whole(v) <= v
         /\ \A w \in Nat : w % 2 = 0 /\ w <= v => w <= Sorting!Whole(v)
  BY SMT DEF Sorting!Whole

\* What was between two numbers stays between them without their fractions.
LEMMA BetweenWhole ==
  ASSUME NEW x \in Nat, NEW y \in Nat, Between(x, y)
  PROVE  /\ Between(Sorting!Whole(x), y) /\ Between(x, Sorting!Whole(y))
         /\ Between(Sorting!Whole(x), Sorting!Whole(y))
<1>1. PICK w \in Nat : w % 2 = 0 /\ x <= w /\ w <= y
  BY DEF Between
<1>2. /\ Sorting!Whole(x) \in Nat /\ Sorting!Whole(y) \in Nat /\ Sorting!Whole(x) <= w
      /\ w <= Sorting!Whole(y)
  BY <1>1, WholeFacts
<1> QED
  BY <1>1, <1>2 DEF Between

\* Whatever is beside an interval is beside all of it.
LEMMA Beside ==
  ASSUME NEW s \in Nat \X Nat, NEW b \in Nat, NEW c \in Nat, NEW d \in Nat,
         In(b, s), In(c, s), ~In(d, s)
  PROVE  (c < d => b < d) /\ (d < c => d < b)
  BY SMT DEF In

\* No cell lies in two intervals of which one ends before the other begins.
LEMMA NotInBoth ==
  ASSUME NEW s \in Nat \X Nat, NEW t \in Nat \X Nat, NEW c \in Nat,
         s[2] < t[1] \/ t[2] < s[1], In(c, t)
  PROVE  ~In(c, s)
  BY SMT DEF In

\* A number or what is left of it.
OneOf(x, v) == x = v \/ x = Sorting!Whole(v)

\* g is f with the cells of one slice rearranged, fractions cut off or not.
Rearranged(f, g, N, s) ==
  /\ \A c \in 0 .. N : ~In(c, s) => g[c] = f[c]
  /\ \A c \in 0 .. N : In(c, s) => \E e \in 0 .. N : In(e, s) /\ OneOf(g[c], f[e])

\* That leaves the cells of different slices in order.
LEMMA RearrangeInside ==
  ASSUME NEW f, NEW g, NEW N \in Nat, f \in [0 .. N -> Nat], g \in [0 .. N -> Nat],
         NEW slices \in SUBSET (Nat \X Nat), Disjoint(slices), InOrderOutside(f, slices),
         NEW s \in slices, Rearranged(f, g, N, s)
  PROVE  InOrderOutside(g, slices)
<1> SUFFICES ASSUME NEW c \in 0 .. N, NEW d \in 0 .. N, c < d,
                    ~ \E t \in slices : In(c, t) /\ In(d, t)
             PROVE  Between(g[c], g[d])
  BY DEF InOrderOutside
<1>1. PICK b \in 0 .. N : OneOf(g[c], f[b]) /\ (In(c, s) => In(b, s)) /\ (~In(c, s) => b = c)
  BY DEF OneOf, Rearranged
<1>2. PICK e \in 0 .. N : OneOf(g[d], f[e]) /\ (In(d, s) => In(e, s)) /\ (~In(d, s) => e = d)
  BY DEF OneOf, Rearranged
<1>3. ~(In(c, s) /\ In(d, s)) /\ s[1] \in Nat /\ s[2] \in Nat
  OBVIOUS
<1>4. b < e
  <2>1. CASE ~In(c, s) /\ ~In(d, s)
    BY <1>1, <1>2, <2>1
  <2>2. CASE In(c, s) /\ ~In(d, s)
    <3>1. In(b, s) /\ e = d
      BY <1>1, <1>2, <2>2
    <3> QED
      BY <1>3, <2>2, <3>1, Beside, s \in Nat \X Nat, b \in Nat, c \in Nat, d \in Nat
  <2>3. CASE ~In(c, s) /\ In(d, s)
    <3>1. b = c /\ In(e, s)
      BY <1>1, <1>2, <2>3
    <3> QED
      BY <1>3, <2>3, <3>1, Beside, s \in Nat \X Nat, c \in Nat, d \in Nat, e \in Nat
  <2> QED
    BY <1>3, <2>1, <2>2, <2>3
<1>5. ~ \E t \in slices : In(b, t) /\ In(e, t)
  <2> SUFFICES ASSUME NEW t \in slices, In(b, t), In(e, t) PROVE FALSE
    OBVIOUS
  <2>1. CASE t = s
    BY <1>1, <1>2, <2>1 DEF In
  <2>2. CASE t # s
    <3>1. s \in Nat \X Nat /\ t \in Nat \X Nat /\ b \in Nat /\ e \in Nat
      OBVIOUS
    <3>2. s[2] < t[1] \/ t[2] < s[1]
      BY <2>2 DEF Disjoint
    <3>3. ~In(b, s)
      BY <3>1, <3>2, NotInBoth
    <3>4. ~In(e, s)
      BY <3>1, <3>2, NotInBoth
    <3> QED
      BY <1>1, <1>2, <3>3, <3>4
  <2> QED
    BY <2>1, <2>2
<1>6. Between(f[b], f[e])
  BY <1>4, <1>5 DEF InOrderOutside
<1>7. f[b] \in Nat /\ f[e] \in Nat
  OBVIOUS
<1>8. /\ Between(Sorting!Whole(f[b]), f[e]) /\ Between(f[b], Sorting!Whole(f[e]))
      /\ Between(Sorting!Whole(f[b]), Sorting!Whole(f[e]))
  BY <1>6, <1>7, BetweenWhole
<1> QED
  BY <1>1, <1>2, <1>6, <1>8 DEF OneOf

-----------------------------------------------------------------------------
(* The steps. *)

\* What swap does to each cell.
LEMMA SwappedCells ==
  ASSUME SortType, NEW a \in Sorting!Cells, NEW b \in Sorting!Cells
  PROVE  /\ Sorting!Swapped(a, b) \in [Sorting!Cells -> Nat]
         /\ \A c \in Sorting!Cells :
              Sorting!Swapped(a, b)[c] = IF c = b THEN Sorting!Whole(A[a])
                                         ELSE IF c = a THEN A[b] ELSE A[c]
<1>1. /\ A \in [Sorting!Cells -> Nat] /\ A[a] \in Nat /\ Sorting!Whole(A[a]) \in Nat
      /\ A[b] \in Nat
  BY WholeFacts DEF SortType
<1> QED
  BY <1>1 DEF Sorting!Swapped

\* swap of two cells of a slice.
LEMMA SwapInside ==
  ASSUME SortType, NEW slices, slices \subseteq Sorting!Cells \X Sorting!Cells,
         Disjoint(slices),
         InOrderOutside(A, slices),
         NEW s \in slices, NEW a \in Sorting!Cells, NEW b \in Sorting!Cells, In(a, s), In(b, s)
  PROVE  InOrderOutside(Sorting!Swapped(a, b), slices)
<1> DEFINE N == array_size
           g == Sorting!Swapped(a, b)
<1>1. N \in Nat /\ A \in [0 .. N -> Nat] /\ g \in [0 .. N -> Nat]
  BY SwappedCells DEF SortType, Sorting!Cells
<1>2. \A c \in 0 .. N : ~In(c, s) => g[c] = A[c]
  <2> SUFFICES ASSUME NEW c \in Sorting!Cells, ~In(c, s) PROVE g[c] = A[c]
    BY DEF Sorting!Cells
  <2>1. c # a /\ c # b
    OBVIOUS
  <2> QED
    BY <2>1, SwappedCells
<1>3. \A c \in 0 .. N : In(c, s) => \E e \in 0 .. N : In(e, s) /\ OneOf(g[c], A[e])
  BY SwappedCells DEF Sorting!Cells, OneOf
<1>4. slices \in SUBSET (Nat \X Nat)
  BY DEF Sorting!Cells
<1>5. Rearranged(A, g, N, s)
  BY <1>2, <1>3 DEF Rearranged
<1> HIDE DEF N, g
<1>6. InOrderOutside(g, slices)
  BY <1>1, <1>4, <1>5, RearrangeInside
<1> QED
  BY <1>6 DEF g

\* The whole array is pending.
LEMMA GenerateStep ==
  ASSUME Sorting!ConstantsOK, SortInv, Sorting!Generate
  PROVE  SortInv'
<1>1. /\ q_at' = "quicksort" /\ array_size' \in Nat /\ A' \in [Sorting!Cells' -> Nat]
      /\ todo' = {<<0, array_size'>>}
  BY DEF Sorting!Generate, Sorting!ConstantsOK, Sorting!SizesAssumption,
         Sorting!ValuesAssumption
<1>2. SortType'
  BY <1>1 DEF SortType, Sorting!Cells
<1>3. Pending' = {<<0, array_size'>>}
  BY <1>1 DEF Pending
<1>4. InOrderOutside(A', Pending') /\ Disjoint(Pending')
  BY <1>1, <1>3 DEF InOrderOutside, Disjoint, In, Sorting!Cells
<1> QED
  BY <1>1, <1>2, <1>4 DEF SortInv

\* A slice of one cell, or none, is in order.
LEMMA TrivialStep ==
  ASSUME SortInv, Sorting!Trivial
  PROVE  SortInv'
<1>1. PICK s \in todo : s[1] >= s[2] /\ todo' = todo \ {s}
  BY DEF Sorting!Trivial
<1>2. q_at = "quicksort" /\ UNCHANGED <<q_at, array_size, A, slice, pivot_val, target, index>>
  BY DEF Sorting!Trivial
<1>3. SortType' /\ todo \subseteq Nat \X Nat
  BY <1>1, <1>2 DEF SortInv, SortType, Sorting!Cells
<1>4. Pending = todo /\ Pending' = todo \ {s} /\ A' = A
  BY <1>1, <1>2 DEF Pending
<1>5. Disjoint(Pending')
  BY <1>2, <1>4 DEF SortInv, Disjoint
<1>6. InOrderOutside(A', Pending')
  <2> SUFFICES ASSUME NEW c \in DOMAIN A, NEW d \in DOMAIN A, c < d,
                      NEW t \in todo, In(c, t), In(d, t)
               PROVE  t \in Pending'
    BY <1>2, <1>4 DEF SortInv, InOrderOutside
  <2>1. c \in Nat /\ d \in Nat /\ t[1] \in Nat /\ t[2] \in Nat
    <3>1. c \in Sorting!Cells /\ d \in Sorting!Cells
      BY DEF SortInv, SortType
    <3>2. c \in Nat /\ d \in Nat
      BY <3>1 DEF SortInv, SortType, Sorting!Cells
    <3>3. t \in Nat \X Nat
      BY <1>3
    <3> QED
      BY <3>2, <3>3
  <2>2. t # s
    <3>1. t[1] <= c /\ d <= t[2]
      BY DEF In
    <3>2. ~(t[1] >= t[2])
      BY <2>1, <3>1
    <3> QED
      BY <1>1, <3>2
  <2> QED
    BY <1>4, <2>2
<1> QED
  BY <1>2, <1>3, <1>5, <1>6 DEF SortInv

\* A pivot is brought to the end of its slice.
LEMMA SelectStep ==
  ASSUME SortInv, Sorting!Select
  PROVE  SortInv'
<1>1. PICK s \in todo : /\ s[1] < s[2] /\ slice' = s /\ todo' = todo \ {s}
                        /\ target' = s[1] /\ index' = s[1]
                        /\ \E pivot \in s[1] .. s[2] - 1 : A' = Sorting!Swapped(pivot, s[2])
                        /\ pivot_val' = Sorting!Whole(A'[s[2]])
  BY DEF Sorting!Select
<1>2. PICK pivot \in s[1] .. s[2] - 1 : A' = Sorting!Swapped(pivot, s[2])
  BY <1>1
<1>3. /\ q_at = "quicksort" /\ q_at' = "partition" /\ array_size' = array_size
      /\ Sorting!Cells' = Sorting!Cells
  BY DEF Sorting!Select, Sorting!Cells
<1>4. /\ SortType /\ s \in Sorting!Cells \X Sorting!Cells /\ s[1] \in Nat /\ s[2] \in Nat
      /\ pivot \in Sorting!Cells /\ s[2] \in Sorting!Cells /\ In(pivot, s) /\ In(s[2], s)
  <2>1. SortType /\ s \in Sorting!Cells \X Sorting!Cells
    BY DEF SortInv, SortType
  <2>2. /\ array_size \in Nat /\ s[1] \in 0 .. array_size /\ s[2] \in 0 .. array_size
        /\ pivot \in Int /\ s[1] <= pivot /\ pivot <= s[2] - 1
    BY <2>1 DEF SortType, Sorting!Cells
  <2>3. s[1] \in Nat /\ s[2] \in Nat /\ pivot \in 0 .. array_size /\ pivot <= s[2]
    BY <2>2
  <2>4. In(pivot, s) /\ In(s[2], s)
    BY <1>1, <2>2, <2>3 DEF In
  <2> QED
    BY <2>1, <2>2, <2>3, <2>4 DEF Sorting!Cells
<1>5. Pending = todo /\ Pending' = todo /\ todo \subseteq Sorting!Cells \X Sorting!Cells
  BY <1>1, <1>3 DEF Pending, SortInv, SortType
<1>6. Disjoint(todo) /\ InOrderOutside(A, todo)
  BY <1>3, <1>5 DEF SortInv
<1>7. InOrderOutside(A', Pending')
  BY <1>2, <1>4, <1>5, <1>6, SwapInside
<1>8. A' \in [Sorting!Cells -> Nat] /\ A'[s[2]] = Sorting!Whole(A[pivot]) /\ A[pivot] \in Nat
  BY <1>2, <1>4, SwappedCells DEF SortType
<1>9. pivot_val' \in Nat /\ pivot_val' % 2 = 0 /\ A'[s[2]] = pivot_val'
  <2>1. Sorting!Whole(A[pivot]) \in Nat /\ Sorting!Whole(A[pivot]) % 2 = 0
    BY <1>8, WholeFacts
  <2>2. Sorting!Whole(Sorting!Whole(A[pivot])) = Sorting!Whole(A[pivot])
    BY <2>1, SMT DEF Sorting!Whole
  <2> QED
    BY <1>1, <1>8, <2>1, <2>2
<1>10. SortType'
  BY <1>1, <1>3, <1>5, <1>8 DEF SortType, SortInv
<1>11. PartitionInv'
  BY <1>1, <1>3, <1>4, <1>9 DEF PartitionInv, Sorting!start, Sorting!end, Sorting!Cells
<1> QED
  BY <1>3, <1>5, <1>6, <1>7, <1>10, <1>11 DEF SortInv

\* What partition knows about its slice.
LEMMA AtPartition ==
  ASSUME SortInv, q_at = "partition"
  PROVE  /\ SortType /\ PartitionInv /\ Disjoint(Pending) /\ InOrderOutside(A, Pending)
         /\ Pending = todo \cup {slice} /\ Pending \subseteq Sorting!Cells \X Sorting!Cells
         /\ array_size \in Nat /\ Sorting!start \in Nat /\ Sorting!end \in Nat
         /\ Sorting!end <= array_size
         /\ Sorting!start \in Sorting!Cells /\ Sorting!end \in Sorting!Cells
         /\ target \in Sorting!Cells /\ index \in Sorting!Cells
         /\ In(target, slice) /\ In(index, slice) /\ In(Sorting!end, slice)
         /\ \A c \in Sorting!Cells : A[c] \in Nat /\ c \in Nat
<1>1. /\ SortType /\ PartitionInv /\ Disjoint(Pending) /\ InOrderOutside(A, Pending)
      /\ Pending = todo \cup {slice}
  BY DEF SortInv, Pending
<1>2. /\ Pending \subseteq Sorting!Cells \X Sorting!Cells /\ array_size \in Nat
      /\ \A c \in Sorting!Cells : A[c] \in Nat
  BY <1>1 DEF SortType, PartitionInv
<1>3. /\ Sorting!start \in Sorting!Cells /\ Sorting!end \in Sorting!Cells
      /\ \A c \in Sorting!Cells : c \in Nat /\ c <= array_size
      /\ \A c \in Nat : c <= array_size => c \in Sorting!Cells
  BY <1>1, <1>2 DEF PartitionInv, Sorting!start, Sorting!end, Sorting!Cells
<1>4. /\ Sorting!start < Sorting!end /\ target \in Nat /\ index \in Nat
      /\ Sorting!start <= target /\ target <= index /\ index <= Sorting!end
  BY <1>1 DEF PartitionInv
<1>5. target \in Sorting!Cells /\ index \in Sorting!Cells
  BY <1>2, <1>3, <1>4
<1>6. In(target, slice) /\ In(index, slice) /\ In(Sorting!end, slice)
  BY <1>2, <1>3, <1>4 DEF In, Sorting!start, Sorting!end
<1> QED
  BY <1>1, <1>2, <1>3, <1>5, <1>6

\* A cell that is not above the pivot joins those before target.
LEMMA WalkStep ==
  ASSUME SortInv, Sorting!Walk
  PROVE  SortInv'
<1>1. q_at = "partition" /\ q_at' = "partition" /\ index < Sorting!end /\ index' = index + 1
  BY DEF Sorting!Walk, Sorting!Looking
<1>2. /\ UNCHANGED <<array_size, todo, slice, pivot_val, given>>
      /\ Sorting!start' = Sorting!start /\ Sorting!end' = Sorting!end
      /\ Sorting!Cells' = Sorting!Cells /\ Pending' = Pending
  BY <1>1 DEF Sorting!Walk, Sorting!Cells, Pending, Sorting!start, Sorting!end
<1>3. /\ SortType /\ PartitionInv /\ Disjoint(Pending) /\ InOrderOutside(A, Pending)
      /\ Pending = todo \cup {slice} /\ Pending \subseteq Sorting!Cells \X Sorting!Cells
      /\ Sorting!start \in Nat /\ Sorting!end \in Nat /\ Sorting!end \in Sorting!Cells
      /\ target \in Sorting!Cells /\ index \in Sorting!Cells
      /\ In(target, slice) /\ In(index, slice)
      /\ \A c \in Sorting!Cells : A[c] \in Nat /\ c \in Nat
  BY <1>1, AtPartition
<1>4. target \in Nat /\ index \in Nat /\ pivot_val \in Nat /\ A[Sorting!end] = pivot_val
  BY <1>3 DEF PartitionInv
<1>5. CASE A[index] <= pivot_val
  <2>1. A' = Sorting!Swapped(target, index) /\ target' = target + 1
    BY <1>5 DEF Sorting!Walk
  <2>2. InOrderOutside(A', Pending')
    BY <1>2, <1>3, <2>1, SwapInside
  <2>3. A' \in [Sorting!Cells -> Nat]
    BY <1>3, <2>1, SwappedCells
  <2>4. \A c \in Sorting!Cells : A'[c] = IF c = index THEN Sorting!Whole(A[target])
                                 ELSE IF c = target THEN A[index] ELSE A[c]
    BY <1>3, <2>1, SwappedCells
  <2>5. A'[Sorting!end] = pivot_val
    BY <1>1, <1>3, <1>4, <2>4 DEF PartitionInv
  <2>6. ASSUME NEW c \in Sorting!Cells, Sorting!start <= c, c < target + 1
        PROVE  A'[c] <= pivot_val
    <3>1. CASE c < target
      <4>1. A'[c] = A[c]
        BY <1>3, <1>4, <2>4, <3>1 DEF PartitionInv
      <4> QED
        BY <1>3, <2>6, <3>1, <4>1 DEF PartitionInv
    <3>2. CASE c = target /\ c = index
      BY <1>3, <1>4, <1>5, <2>4, <3>2, WholeFacts
    <3>3. CASE c = target /\ c # index
      BY <1>5, <2>4, <3>3
    <3> QED
      BY <1>3, <1>4, <2>6, <3>1, <3>2, <3>3
  <2>7. ASSUME NEW c \in Sorting!Cells, target + 1 <= c, c < index + 1
        PROVE  pivot_val <= A'[c]
    <3>1. CASE c = index
      <4>1. pivot_val <= A[target] /\ A[target] \in Nat
        BY <1>3, <1>4, <2>7, <3>1 DEF PartitionInv
      <4>2. pivot_val <= Sorting!Whole(A[target])
        BY <1>3, <4>1, WholeFacts DEF PartitionInv
      <4> QED
        BY <2>4, <3>1, <4>2
    <3>2. CASE c # index
      <4>1. A'[c] = A[c] /\ target <= c /\ c < index
        BY <1>3, <1>4, <2>4, <2>7, <3>2
      <4> QED
        BY <1>3, <4>1 DEF PartitionInv
    <3> QED
      BY <3>1, <3>2
  <2>8. /\ Sorting!start <= target' /\ target' <= index' /\ index' <= Sorting!end
        /\ target' \in Nat
    BY <1>1, <1>3, <1>4, <2>1 DEF PartitionInv
  <2>9. PartitionInv'
    BY <1>1, <1>2, <1>3, <1>4, <2>1, <2>5, <2>6, <2>7, <2>8 DEF PartitionInv
  <2>10. SortType'
    BY <1>1, <1>2, <1>3, <2>3 DEF SortType
  <2> QED
    BY <1>1, <1>2, <1>3, <2>2, <2>9, <2>10 DEF SortInv
<1>6. CASE ~(A[index] <= pivot_val)
  <2>1. A' = A /\ target' = target
    BY <1>6 DEF Sorting!Walk
  <2>2. ASSUME NEW c \in Sorting!Cells, target <= c, c < index + 1
        PROVE  pivot_val <= A[c]
    <3>1. CASE c = index
      BY <1>3, <1>4, <1>6, <3>1
    <3>2. CASE c # index
      <4>1. c < index
        BY <1>3, <1>4, <2>2, <3>2
      <4> QED
        BY <1>3, <2>2, <4>1 DEF PartitionInv
    <3> QED
      BY <3>1, <3>2
  <2>3. target' <= index' /\ index' <= Sorting!end /\ index' \in Nat
    BY <1>1, <1>3, <1>4, <2>1 DEF PartitionInv
  <2>4. PartitionInv'
    BY <1>1, <1>2, <1>3, <2>1, <2>2, <2>3 DEF PartitionInv
  <2> QED
    BY <1>1, <1>2, <1>3, <2>1, <2>4 DEF SortInv, SortType
<1> QED
  BY <1>5, <1>6

\* Two cells of the slice on either side of the pivot are in order from now on.
LEMMA PlaceStep ==
  ASSUME SortInv, Sorting!Place
  PROVE  SortInv'
<1> DEFINE left  == IF target > Sorting!start THEN {<<Sorting!start, target - 1>>} ELSE {}
           right == IF target < Sorting!end THEN {<<target + 1, Sorting!end>>} ELSE {}
<1>1. /\ q_at = "partition" /\ q_at' = "quicksort" /\ ~(index < Sorting!end)
      /\ A' = Sorting!Swapped(target, Sorting!end) /\ todo' = todo \cup left \cup right
  BY DEF Sorting!Place, Sorting!Looking
<1>2. /\ array_size' = array_size /\ Sorting!Cells' = Sorting!Cells
      /\ Pending' = todo \cup left \cup right
  BY <1>1 DEF Sorting!Place, Sorting!Cells, Pending
<1>3. /\ SortType /\ PartitionInv /\ Disjoint(Pending) /\ InOrderOutside(A, Pending)
      /\ Pending = todo \cup {slice} /\ Pending \subseteq Sorting!Cells \X Sorting!Cells
      /\ Sorting!start \in Nat /\ Sorting!end \in Nat /\ Sorting!start \in Sorting!Cells
      /\ Sorting!end \in Sorting!Cells
      /\ target \in Sorting!Cells /\ index \in Sorting!Cells
      /\ In(target, slice) /\ In(Sorting!end, slice)
      /\ \A c \in Sorting!Cells : A[c] \in Nat /\ c \in Nat
  BY <1>1, AtPartition
<1>4. /\ target \in Nat /\ index = Sorting!end /\ Sorting!start <= target
      /\ target <= Sorting!end /\ A[Sorting!end] = pivot_val
      /\ pivot_val \in Nat /\ pivot_val % 2 = 0
  BY <1>1, <1>3 DEF PartitionInv
<1>5. InOrderOutside(A', Pending) /\ A' \in [Sorting!Cells -> Nat]
  BY <1>1, <1>3, SwapInside, SwappedCells
<1>6. \A c \in Sorting!Cells : A'[c] = IF c = Sorting!end THEN Sorting!Whole(A[target])
                               ELSE IF c = target THEN A[Sorting!end] ELSE A[c]
  BY <1>1, <1>3, SwappedCells
<1>7. pivot_val <= Sorting!Whole(A[target])
  <2>1. pivot_val <= A[target] /\ A[target] \in Nat
    BY <1>3, <1>4 DEF PartitionInv
  <2> QED
    BY <1>4, <2>1, WholeFacts
<1>8. ASSUME NEW c \in Sorting!Cells, Sorting!start <= c, c <= target,
             c # Sorting!end \/ target = Sorting!end
      PROVE  A'[c] <= pivot_val
  <2>1. CASE c = target /\ target # Sorting!end
    BY <1>4, <1>6, <2>1
  <2>2. CASE c = target /\ target = Sorting!end
    BY <1>3, <1>4, <1>6, <2>2, WholeFacts
  <2>3. CASE c # target
    <3>1. c < target /\ A'[c] = A[c]
      BY <1>3, <1>4, <1>6, <1>8, <2>3
    <3> QED
      BY <1>3, <1>8, <3>1 DEF PartitionInv
  <2> QED
    BY <2>1, <2>2, <2>3
<1>9. ASSUME NEW c \in Sorting!Cells, target < c, c <= Sorting!end
      PROVE  pivot_val <= A'[c]
  <2>1. CASE c = Sorting!end
    BY <1>6, <1>7, <2>1
  <2>2. CASE c # Sorting!end
    <3>1. target <= c /\ c < index /\ A'[c] = A[c]
      BY <1>3, <1>4, <1>6, <1>9, <2>2
    <3> QED
      BY <1>3, <3>1 DEF PartitionInv
  <2> QED
    BY <2>1, <2>2
<1>10. A'[target] = pivot_val \/ target = Sorting!end
  BY <1>3, <1>4, <1>6
<1>11. InOrderOutside(A', Pending')
  <2> SUFFICES ASSUME NEW c \in Sorting!Cells, NEW d \in Sorting!Cells, c < d,
  ~Between(A'[c], A'[d])
               PROVE  \E s \in Pending' : In(c, s) /\ In(d, s)
    BY <1>5 DEF InOrderOutside
  <2>1. PICK s \in Pending : In(c, s) /\ In(d, s)
    BY <1>5 DEF InOrderOutside
  <2>2. CASE s \in todo
    BY <1>2, <2>1, <2>2
  <2>3. CASE s = slice
    <3>1. c \in Nat /\ d \in Nat /\ Sorting!start <= c /\ d <= Sorting!end
      BY <1>3, <2>1, <2>3 DEF In, Sorting!start, Sorting!end
    <3>2. ~(A'[c] <= pivot_val /\ pivot_val <= A'[d])
      BY <1>4 DEF Between
    <3>3. CASE d < target
      <4>1. <<Sorting!start, target - 1>> \in Pending'
        BY <1>2, <1>3, <1>4, <3>1, <3>3
      <4>2. In(c, <<Sorting!start, target - 1>>) /\ In(d, <<Sorting!start, target - 1>>)
        BY <1>3, <1>4, <3>1, <3>3 DEF In
      <4> QED
        BY <4>1, <4>2
    <3>4. CASE target < c
      <4>1. <<target + 1, Sorting!end>> \in Pending'
        BY <1>2, <1>3, <1>4, <3>1, <3>4
      <4>2. In(c, <<target + 1, Sorting!end>>) /\ In(d, <<target + 1, Sorting!end>>)
        BY <1>3, <1>4, <3>1, <3>4 DEF In
      <4> QED
        BY <4>1, <4>2
    <3>5. CASE c <= target /\ target < d
      <4>1. A'[c] <= pivot_val
        BY <1>3, <1>4, <1>8, <3>1, <3>5
      <4>2. pivot_val <= A'[d]
        BY <1>9, <3>1, <3>5
      <4> QED
        BY <3>2, <4>1, <4>2
    <3>6. CASE d = target
      <4>1. pivot_val <= A'[d] /\ c <= target /\ c # Sorting!end
        BY <1>3, <1>4, <1>6, <1>7, <3>1, <3>6
      <4>2. A'[c] <= pivot_val
        BY <1>8, <3>1, <4>1
      <4> QED
        BY <3>2, <4>1, <4>2
    <3> QED
      BY <1>4, <3>1, <3>3, <3>4, <3>5, <3>6
  <2> QED
    BY <1>3, <2>1, <2>2, <2>3
<1>12. todo' \subseteq Sorting!Cells \X Sorting!Cells
  <2>1. Sorting!end <= array_size /\ array_size \in Nat /\ Sorting!Cells = 0 .. array_size
    BY <1>1, AtPartition DEF Sorting!Cells
  <2>2. target > Sorting!start => target - 1 \in Sorting!Cells
    BY <1>3, <1>4, <2>1
  <2>3. target < Sorting!end => target + 1 \in Sorting!Cells
    BY <1>3, <1>4, <2>1
  <2> QED
    BY <1>1, <1>3, <2>2, <2>3
<1>13. Disjoint(Pending')
  <2>1. ASSUME NEW s \in left \cup right
        PROVE  Sorting!start <= s[1] /\ s[2] <= Sorting!end
    BY <1>3, <1>4, <2>1
  <2>2. ASSUME NEW t \in todo
        PROVE  t[2] < Sorting!start \/ Sorting!end < t[1]
    BY <1>3, <2>2 DEF Disjoint, PartitionInv, Sorting!start, Sorting!end
  <2>3. \A s \in left \cup right : s[1] \in Nat /\ s[2] \in Nat
    BY <1>3, <1>4
  <2>4. \A t \in todo : t[1] \in Nat /\ t[2] \in Nat
    BY <1>3 DEF Sorting!Cells
  <2>5. ASSUME NEW s \in left \cup right, NEW t \in todo
        PROVE  s[2] < t[1] \/ t[2] < s[1]
    BY <1>3, <2>1, <2>2, <2>3, <2>4
  <2>6. ASSUME NEW s \in left \cup right, NEW t \in left \cup right
        PROVE  s = t \/ s[2] < t[1] \/ t[2] < s[1]
    BY <1>3, <1>4
  <2>7. Disjoint(todo)
    BY <1>3 DEF Disjoint
  <2> HIDE DEF left, right
  <2> QED
    BY <1>2, <2>5, <2>6, <2>7 DEF Disjoint
<1>14. SortType'
  BY <1>1, <1>2, <1>3, <1>5, <1>12 DEF SortType
<1> QED
  BY <1>1, <1>11, <1>13, <1>14 DEF SortInv

\* Nothing is pending.
LEMMA ReturnStep ==
  ASSUME SortInv, Sorting!Return
  PROVE  SortInv'
<1>1. /\ q_at = "quicksort" /\ q_at' = "done" /\ todo = {}
      /\ UNCHANGED <<array_size, A, todo, slice, pivot_val, target, index>>
  BY DEF Sorting!Return
<1>2. SortType' /\ Pending' = Pending
  BY <1>1 DEF SortInv, SortType, Sorting!Cells, Pending
<1> QED
  BY <1>1, <1>2 DEF SortInv

\* Other components change nothing here.
LEMMA StutterStep ==
  ASSUME SortInv, UNCHANGED sortVars
  PROVE  SortInv'
<1>1. /\ Sorting!Cells' = Sorting!Cells /\ Pending' = Pending /\ Sorting!start' = Sorting!start
      /\ Sorting!end' = Sorting!end
  BY DEF sortVars, Sorting!Cells, Pending, Sorting!start, Sorting!end
<1> QED
  BY <1>1 DEF sortVars, SortInv, SortType, PartitionInv

\* Before an array is generated.
LEMMA SortInit == ASSUME Sorting!Init PROVE SortInv
  BY DEF Sorting!Init, SortInv, SortType, Sorting!Cells

\* Every step preserves the invariant.
LEMMA SortNext ==
  ASSUME Sorting!ConstantsOK, SortInv, [Sorting!Next]_sortVars
  PROVE  SortInv'
  BY GenerateStep, TrivialStep, SelectStep, WalkStep, PlaceStep, ReturnStep, StutterStep
  DEF Sorting!Next

\* It implies that the array is in order at the end.
LEMMA SortedAtLast ==
  ASSUME SortInv
  PROVE  Sorting!Sorted
<1> SUFFICES ASSUME q_at = "done", NEW c \in Sorting!Cells, NEW d \in Sorting!Cells, c <= d
             PROVE  A[c] <= A[d]
  BY DEF Sorting!Sorted
<1>1. InOrderOutside(A, {}) /\ DOMAIN A = Sorting!Cells
  BY DEF SortInv, SortType, Pending
<1>2. c \in Nat /\ d \in Nat /\ A[c] \in Nat /\ A[d] \in Nat
  BY DEF SortInv, SortType, Sorting!Cells
<1>3. CASE c = d
  BY <1>2, <1>3
<1>4. CASE c < d
  <2>1. Between(A[c], A[d])
    BY <1>1, <1>4 DEF InOrderOutside
  <2> QED
    BY <1>2, <2>1 DEF Between
<1> QED
  BY <1>2, <1>3, <1>4

\* Whoever leaves a set for one that joins it does not change how many there are.
LEMMA Exchange ==
  ASSUME NEW S, IsFiniteSet(S), NEW a \in S, NEW b, b \notin S
  PROVE  Cardinality((S \ {a}) \cup {b}) = Cardinality(S)
<1>1. IsFiniteSet(S \ {a}) /\ Cardinality(S \ {a}) = Cardinality(S) - 1
  BY FS_RemoveElement
<1>2. Cardinality((S \ {a}) \cup {b}) = Cardinality(S \ {a}) + 1
  BY <1>1, FS_AddElement
<1>3. Cardinality(S) \in Nat
  BY FS_CardinalityType
<1> QED
  BY <1>1, <1>2, <1>3

\* swap leaves every number in as many cells as before, fractions apart.
LEMMA SwapCounts ==
  ASSUME SortType, NEW a \in Sorting!Cells, NEW b \in Sorting!Cells, NEW v
  PROVE  Sorting!Count(Sorting!Swapped(a, b), v) = Sorting!Count(A, v)
<1> DEFINE g == Sorting!Swapped(a, b)
           S == {c \in Sorting!Cells : Sorting!Whole(A[c]) = v}
           T == {c \in Sorting!Cells : Sorting!Whole(g[c]) = v}
<1>1. IsFiniteSet(Sorting!Cells)
  BY FS_Interval DEF SortType, Sorting!Cells
<1>2. IsFiniteSet(S)
  BY <1>1, FS_Subset
<1>3. \A c \in Sorting!Cells : A[c] \in Nat
  BY DEF SortType
<1>4. \A c \in Sorting!Cells :
        g[c] = IF c = b THEN Sorting!Whole(A[a]) ELSE IF c = a THEN A[b] ELSE A[c]
  BY SwappedCells
<1>5. Sorting!Whole(Sorting!Whole(A[a])) = Sorting!Whole(A[a])
  BY <1>3, SMT DEF Sorting!Whole
<1>6. /\ Sorting!Whole(g[b]) = Sorting!Whole(A[a])
      /\ (a # b => Sorting!Whole(g[a]) = Sorting!Whole(A[b]))
  BY <1>4, <1>5
<1>7. \A c \in Sorting!Cells : c # a /\ c # b => Sorting!Whole(g[c]) = Sorting!Whole(A[c])
  BY <1>4
<1> HIDE DEF g
<1>8. (b \in T <=> a \in S) /\ (a # b => (a \in T <=> b \in S))
  BY <1>6
<1>9. \A c : c # a /\ c # b => (c \in T <=> c \in S)
  BY <1>7
<1>10. Sorting!Count(g, v) = Cardinality(T) /\ Sorting!Count(A, v) = Cardinality(S)
  BY DEF Sorting!Count, Sorting!Cardinality, Cardinality
<1> HIDE DEF S, T
<1>11. CASE a \in S <=> b \in S
  <2>1. T = S
    BY <1>8, <1>9, <1>11
  <2> QED
    BY <1>10, <2>1 DEF g
<1>12. CASE a \in S /\ b \notin S
  <2>1. T = (S \ {a}) \cup {b}
    BY <1>8, <1>9, <1>12
  <2> QED
    BY <1>2, <1>10, <1>12, <2>1, Exchange DEF g
<1>13. CASE b \in S /\ a \notin S
  <2>1. T = (S \ {b}) \cup {a}
    BY <1>8, <1>9, <1>13
  <2> QED
    BY <1>2, <1>10, <1>13, <2>1, Exchange DEF g
<1> QED
  BY <1>11, <1>12, <1>13

\* What a step does to the array: it generates it, swaps two of its cells, or
\* leaves it alone.
LEMMA StepsSwap ==
  ASSUME SortInv, [Sorting!Next]_sortVars
  PROVE  \/ given' = A'
         \/ /\ given' = given /\ Sorting!Cells' = Sorting!Cells
            /\ \/ A' = A
               \/ \E a \in Sorting!Cells, b \in Sorting!Cells : A' = Sorting!Swapped(a, b)
<1>1. CASE Sorting!Generate
  BY <1>1 DEF Sorting!Generate
<1>2. CASE Sorting!Trivial \/ Sorting!Return \/ UNCHANGED sortVars
  BY <1>2 DEF Sorting!Trivial, Sorting!Return, sortVars, Sorting!Cells
<1>3. CASE Sorting!Select
  <2>1. PICK s \in todo : /\ s[1] < s[2]
                          /\ \E pivot \in s[1] .. s[2] - 1 : A' = Sorting!Swapped(pivot, s[2])
    BY <1>3 DEF Sorting!Select
  <2>2. PICK pivot \in s[1] .. s[2] - 1 : A' = Sorting!Swapped(pivot, s[2])
    BY <2>1
  <2>3. given' = given /\ Sorting!Cells' = Sorting!Cells
    BY <1>3 DEF Sorting!Select, Sorting!Cells
  <2>4. array_size \in Nat /\ s[1] \in 0 .. array_size /\ s[2] \in 0 .. array_size
    BY DEF SortInv, SortType, Sorting!Cells
  <2>5. pivot \in Sorting!Cells /\ s[2] \in Sorting!Cells
    BY <2>4 DEF Sorting!Cells
  <2> QED
    BY <2>2, <2>3, <2>5
<1>4. CASE Sorting!Walk
  <2>1. q_at = "partition" /\ given' = given /\ Sorting!Cells' = Sorting!Cells
    BY <1>4 DEF Sorting!Walk, Sorting!Cells
  <2>2. target \in Sorting!Cells /\ index \in Sorting!Cells
    BY <2>1, AtPartition
  <2>3. A' = A \/ A' = Sorting!Swapped(target, index)
    BY <1>4 DEF Sorting!Walk
  <2> QED
    BY <2>1, <2>2, <2>3
<1>5. CASE Sorting!Place
  <2>1. /\ q_at = "partition" /\ given' = given /\ Sorting!Cells' = Sorting!Cells
        /\ A' = Sorting!Swapped(target, Sorting!end)
    BY <1>5 DEF Sorting!Place, Sorting!Cells
  <2>2. target \in Sorting!Cells /\ Sorting!end \in Sorting!Cells
    BY <2>1, AtPartition
  <2> QED
    BY <2>1, <2>2
<1> QED
  BY <1>1, <1>2, <1>3, <1>4, <1>5 DEF Sorting!Next

\* Every step preserves the numbers.
LEMMA SameNumbersStep ==
  ASSUME SortInv, Sorting!SameNumbers, [Sorting!Next]_sortVars
  PROVE  Sorting!SameNumbers'
<1>1. CASE given' = A'
  BY <1>1 DEF Sorting!SameNumbers
<1>2. CASE given' = given /\ Sorting!Cells' = Sorting!Cells /\ A' = A
  BY <1>2 DEF Sorting!SameNumbers, Sorting!Count
<1>3. CASE /\ given' = given /\ Sorting!Cells' = Sorting!Cells
           /\ \E a \in Sorting!Cells, b \in Sorting!Cells : A' = Sorting!Swapped(a, b)
  <2>1. PICK a \in Sorting!Cells, b \in Sorting!Cells : A' = Sorting!Swapped(a, b)
    BY <1>3
  <2>2. ASSUME NEW v \in Values
        PROVE  Sorting!Count(A, v)' = Sorting!Count(given, v)'
    <3>1. /\ Sorting!Count(A, v)' = Sorting!Count(Sorting!Swapped(a, b), v)
          /\ Sorting!Count(given, v)' = Sorting!Count(given, v)
      BY <1>3, <2>1 DEF Sorting!Count
    <3>2. Sorting!Count(Sorting!Swapped(a, b), v) = Sorting!Count(A, v)
      BY SwapCounts DEF SortInv
    <3> QED
      BY <3>1, <3>2 DEF Sorting!SameNumbers
  <2> QED
    BY <2>2 DEF Sorting!SameNumbers
<1> QED
  BY <1>1, <1>2, <1>3, StepsSwap

-----------------------------------------------------------------------------
(* dense_mm.c: columns, cells and products. *)

\* A cell of a matrix of m columns.
CellOf(m, r, c) == r * m + c

\* Thread t has a column.
Busy(t) == d_pc[t] # "next"

\* The products thread t has added to the cells of its column.
Added(t, r, k) == r < row[t] \/ (r = row[t] /\ k < indx[t])

\* The types of what the threads work with.
DenseType ==
  /\ d_program \in {"start", "multiply", "done", "refused", "corrupt"}
  /\ matrix_size \in Nat
  /\ d_pc \in [Threads -> {"next", "load", "store"}]
  /\ col \in [Threads -> Nat] /\ row \in [Threads -> Nat] /\ indx \in [Threads -> Nat]
  /\ d_program = "start" => round = 0 /\ columns = {} /\ \A t \in Threads : ~Busy(t)

\* Once the matrices exist.
MatricesInv ==
  /\ matrix_size <= sqrt_of_UINT32_MAX
  /\ squared_size = Matrices!Unsigned(matrix_size * matrix_size)
  /\ C \in [0 .. squared_size - 1 -> [Matrices!Range -> Nat]]
  /\ loaded \in [Threads -> [Matrices!Range -> Nat]]
  /\ iterations \in Nat /\ round \in Nat /\ columns \subseteq Matrices!Range

\* Every column that is taken belongs to one thread.
TeamInv ==
  \A t \in Threads : Busy(t) =>
    /\ col[t] \in Matrices!Range /\ row[t] \in Matrices!Range /\ indx[t] \in Matrices!Range
    /\ col[t] \notin columns
    /\ \A u \in Threads : Busy(u) /\ u # t => col[u] # col[t]

\* What the cells hold, and what a thread has read of its cell, when the square
\* of the size fits.
CellsInv ==
  /\ \A t \in Threads : d_pc[t] = "store" =>
       loaded[t] = C[CellOf(matrix_size, row[t], col[t])]
  /\ \A c \in Matrices!Range, r \in Matrices!Range, k \in Matrices!Range :
       /\ c \in columns => C[CellOf(matrix_size, r, c)][k] = round - 1
       /\ \A t \in Threads : Busy(t) /\ col[t] = c =>
            C[CellOf(matrix_size, r, c)][k] = IF Added(t, r, k) THEN round ELSE round - 1
       /\ c \notin columns /\ (\A t \in Threads : ~(Busy(t) /\ col[t] = c)) =>
            C[CellOf(matrix_size, r, c)][k] = round

\* When it does not, the first access ends the program: it is done only if it was
\* told not to multiply.
TooLargeInv ==
  /\ d_program = "done" => round = 0
  /\ \A t \in Threads : d_pc[t] # "store"
  /\ round > 0 => \A c \in Matrices!Range :
       c \in columns \/ \E t \in Threads : Busy(t) /\ col[t] = c

\* How the program can have ended.
EndInv ==
  /\ d_program = "done" => /\ round = iterations /\ columns = {}
                           /\ \A t \in Threads : ~Busy(t)
  /\ d_program = "corrupt" => matrix_size = sqrt_of_UINT32_MAX

\* The matrices exist.
Computing == d_program \in {"multiply", "done", "corrupt"}

\* The invariant of the program: with a size whose square fits the cells are
\* right, with the one beyond it no thread gets to a cell.
DenseInv ==
  /\ DenseType /\ EndInv
  /\ Computing =>
       /\ MatricesInv /\ TeamInv
       /\ matrix_size < sqrt_of_UINT32_MAX => CellsInv
       /\ matrix_size = sqrt_of_UINT32_MAX => TooLargeInv

-----------------------------------------------------------------------------
(* Arithmetic. *)

\* Multiplication keeps an order.
LEMMA TimesMonotone ==
  ASSUME NEW a \in Nat, NEW b \in Nat, NEW m \in Nat, a <= b
  PROVE  a * m <= b * m
<1>1. PICK d \in Nat : b = a + d
  <2>1. b - a \in Nat /\ b = a + (b - a)
    OBVIOUS
  <2> QED
    BY <2>1
<1>2. (a + d) * m = a * m + d * m /\ d * m \in Nat /\ a * m \in Nat
  OBVIOUS
<1> QED
  BY <1>1, <1>2

\* A cell lies behind all cells of an earlier row...
LEMMA LaterRow ==
  ASSUME NEW m \in Nat, NEW r \in Nat, NEW q \in Nat, NEW c \in Nat, NEW d \in Nat,
         r < q, c < m
  PROVE  CellOf(m, r, c) < CellOf(m, q, d)
<1>1. (r + 1) * m <= q * m
  BY TimesMonotone
<1>2. (r + 1) * m = r * m + m /\ r * m \in Nat /\ q * m \in Nat
  OBVIOUS
<1> QED
  BY <1>1, <1>2 DEF CellOf

\* ...so that no two have the same number...
LEMMA CellUnique ==
  ASSUME NEW m \in Nat, NEW r \in 0 .. m - 1, NEW c \in 0 .. m - 1,
         NEW q \in 0 .. m - 1, NEW d \in 0 .. m - 1,
         CellOf(m, r, c) = CellOf(m, q, d)
  PROVE  r = q /\ c = d
<1>1. /\ CellOf(m, r, c) \in Nat /\ CellOf(m, q, d) \in Nat
      /\ r \in Nat /\ q \in Nat /\ c \in Nat /\ d \in Nat /\ c < m /\ d < m
  BY DEF CellOf
<1>2. ~(r < q) /\ ~(q < r)
  BY <1>1, LaterRow
<1>3. r = q
  BY <1>1, <1>2
<1>4. r * m \in Nat
  BY <1>1
<1> QED
  BY <1>1, <1>3, <1>4 DEF CellOf

\* ...and all of them are in the matrix...
LEMMA CellFits ==
  ASSUME NEW m \in Nat, NEW r \in 0 .. m - 1, NEW c \in 0 .. m - 1
  PROVE  CellOf(m, r, c) \in 0 .. m * m - 1
<1>1. r \in Nat /\ c \in Nat /\ r < m /\ c < m /\ m * m \in Nat
  OBVIOUS
<1>2. CellOf(m, r, c) < CellOf(m, m, 0) /\ CellOf(m, r, c) \in Nat
  BY <1>1, LaterRow DEF CellOf
<1>3. CellOf(m, m, 0) = m * m
  BY DEF CellOf
<1> QED
  BY <1>1, <1>2, <1>3

\* ...which has no others.
LEMMA CellsCover ==
  ASSUME NEW m \in Nat, NEW e \in 0 .. m * m - 1
  PROVE  \E r \in 0 .. m - 1, c \in 0 .. m - 1 : e = CellOf(m, r, c)
<1>1. m * m \in Nat /\ e \in Nat /\ e < m * m
  OBVIOUS
<1>2. m > 0
  BY <1>1
<1> DEFINE r == e \div m
           c == e % m
<1>3. r \in Nat /\ c \in Nat /\ c < m /\ e = r * m + c
  BY <1>1, <1>2, SMT
<1>4. r < m
  <2> SUFFICES ASSUME m <= r PROVE FALSE
    BY <1>3
  <2>1. m * m <= r * m
    BY <1>3, TimesMonotone
  <2>2. r * m \in Nat
    BY <1>3
  <2> HIDE DEF r, c
  <2> QED
    BY <1>1, <1>3, <2>1, <2>2
<1> HIDE DEF r, c
<1>5. r \in 0 .. m - 1 /\ c \in 0 .. m - 1 /\ e = CellOf(m, r, c)
  BY <1>3, <1>4 DEF CellOf
<1> QED
  BY <1>5

\* What a remainder can be.
LEMMA Remainders ==
  ASSUME NEW n \in Nat, NEW q \in Nat \ {0}
  PROVE  n % q \in Nat /\ (n < q => n % q = n)
  BY SMT

\* The square of a smaller size fits...
LEMMA SquareFits ==
  ASSUME Matrices!ConstantsOK, NEW m \in Nat, m < sqrt_of_UINT32_MAX, NEW n \in 0 .. m * m
  PROVE  Matrices!Unsigned(n) = n
<1> DEFINE s == sqrt_of_UINT32_MAX
<1>1. s \in Nat /\ s > 0 /\ m <= s /\ m + 1 <= s /\ m * m \in Nat /\ s * s \in Nat /\ n \in Nat
  BY DEF Matrices!ConstantsOK, Matrices!SizesAssumption
<1> HIDE DEF s
<1>2. m * m <= s * m /\ s * m = m * s
  BY <1>1, TimesMonotone
<1>3. (m + 1) * s <= s * s
  BY <1>1, TimesMonotone
<1>4. (m + 1) * s = m * s + s /\ m * s \in Nat
  BY <1>1
<1>5. n < s * s
  BY <1>1, <1>2, <1>3, <1>4
<1>6. n % (s * s) = n
  BY <1>1, <1>5, Remainders
<1> QED
  BY <1>6 DEF Matrices!Unsigned, s

\* ...and an unsigned is a number.
LEMMA UnsignedType ==
  ASSUME Matrices!ConstantsOK, NEW n \in Nat
  PROVE  Matrices!Unsigned(n) \in Nat
<1> DEFINE s == sqrt_of_UINT32_MAX
           q == s * s
<1>1. s \in Nat /\ s > 0
  BY DEF Matrices!ConstantsOK, Matrices!SizesAssumption
<1>2. q \in Nat /\ q # 0
  BY <1>1
<1> HIDE DEF q
<1>3. n % q \in Nat
  BY <1>2, Remainders
<1> QED
  BY <1>3 DEF Matrices!Unsigned, q

\* The least square that does not fit an unsigned becomes 0.
LEMMA SquareOverflows ==
  ASSUME Matrices!ConstantsOK
  PROVE  Matrices!Unsigned(sqrt_of_UINT32_MAX * sqrt_of_UINT32_MAX) = 0
<1> DEFINE s == sqrt_of_UINT32_MAX
           q == s * s
<1>1. s \in Nat /\ s > 0
  BY DEF Matrices!ConstantsOK, Matrices!SizesAssumption
<1>2. q \in Nat /\ q # 0
  BY <1>1
<1> HIDE DEF q
<1>3. q % q = 0
  BY <1>2, SMT
<1> QED
  BY <1>3 DEF Matrices!Unsigned, q

-----------------------------------------------------------------------------
(* The steps. *)

\* The arguments are refused, or the matrices made.
LEMMA StartStep ==
  ASSUME Matrices!ConstantsOK, DenseInv, Matrices!Start
  PROVE  DenseInv'
<1> DEFINE m == matrix_size'
<1>1. d_program = "start" /\ m \in Nat /\ UNCHANGED <<round, columns, d_pc, col, row, indx>>
  BY DEF Matrices!Start, Matrices!ConstantsOK, Matrices!SizesAssumption
<1>2. \A t \in Threads : ~Busy(t) /\ ~Busy(t)' /\ d_pc'[t] = "next"
  BY <1>1 DEF DenseInv, DenseType, Busy
<1>3. d_program' \in {"refused", "multiply"}
  BY DEF Matrices!Start
<1>4. DenseType' /\ EndInv'
  BY <1>1, <1>2, <1>3 DEF DenseInv, DenseType, EndInv
<1>5. CASE d_program' = "refused"
  BY <1>4, <1>5 DEF DenseInv, Computing
<1>6. CASE d_program' = "multiply"
  <2>1. /\ m <= sqrt_of_UINT32_MAX
        /\ squared_size' = Matrices!Unsigned(m * m)
        /\ C' = [c \in 0 .. squared_size' - 1 |-> Matrices!None']
        /\ iterations' \in Nat /\ round' = 0 /\ columns' = {}
        /\ loaded' = [t \in Threads |-> Matrices!None']
    <3>1. sqrt_of_UINT32_MAX \in Nat /\ Repeats \subseteq Nat
      BY DEF Matrices!ConstantsOK, Matrices!SizesAssumption, Matrices!RepeatsAssumption
    <3>2. round = 0 /\ columns = {}
      BY <1>1 DEF DenseInv, DenseType
    <3>3. round' = 0 /\ columns' = {}
      BY <1>1, <3>2
    <3>4. ~(m > sqrt_of_UINT32_MAX)
      BY <1>6 DEF Matrices!Start
    <3>5. /\ squared_size' = Matrices!Unsigned(m * m) /\ iterations' \in Repeats
          /\ C' = [c \in 0 .. squared_size' - 1 |-> Matrices!None']
          /\ loaded' = [t \in Threads |-> Matrices!None']
      BY <3>4 DEF Matrices!Start
    <3> QED
      BY <1>1, <3>1, <3>3, <3>4, <3>5
  <2>2. /\ Matrices!None' \in [Matrices!Range' -> Nat]
        /\ \A k \in Matrices!Range' : Matrices!None'[k] = 0
    BY DEF Matrices!None
  <2>3. MatricesInv'
    BY <2>1, <2>2 DEF MatricesInv, Matrices!Unsigned
  <2>4. TeamInv'
    BY <1>2 DEF TeamInv
  <2>5. TooLargeInv'
    BY <1>2, <1>6, <2>1 DEF TooLargeInv
  <2>6. ASSUME m < sqrt_of_UINT32_MAX
        PROVE  CellsInv'
    <3>1. squared_size' = m * m
      BY <1>1, <2>1, <2>6, SquareFits
    <3>2. ASSUME NEW c \in Matrices!Range', NEW r \in Matrices!Range', NEW k \in Matrices!Range'
          PROVE  C'[CellOf(m, r, c)][k] = 0
      <4>1. CellOf(m, r, c) \in 0 .. m * m - 1
        BY <1>1, CellFits DEF Matrices!Range
      <4>2. C'[CellOf(m, r, c)] = Matrices!None'
        BY <2>1, <3>1, <4>1
      <4> QED
        BY <2>2, <4>2
    <3>3. \A t \in Threads : d_pc'[t] # "store"
      BY <1>2
    <3>4. round' = 0 /\ columns' = {}
      BY <2>1
    <3> QED
      BY <1>2, <3>2, <3>3, <3>4, Zenon DEF CellsInv
  <2> QED
    BY <1>4, <2>3, <2>4, <2>5, <2>6 DEF DenseInv
<1> QED
  BY <1>3, <1>5, <1>6

\* A thread takes a column, and has added nothing to it.
LEMMA TakeStep ==
  ASSUME Matrices!ConstantsOK, DenseInv, NEW t \in Threads, Matrices!Take(t)
  PROVE  DenseInv'
<1>1. PICK c \in columns : columns' = columns \ {c} /\ col' = [col EXCEPT ![t] = c]
  BY DEF Matrices!Take, Matrices!Own
<1>2. /\ d_program = "multiply" /\ d_pc[t] = "next"
      /\ row' = [row EXCEPT ![t] = 0] /\ indx' = [indx EXCEPT ![t] = 0]
      /\ d_pc' = [d_pc EXCEPT ![t] = "load"]
      /\ UNCHANGED <<d_program, matrix_size, squared_size, iterations, round, loaded, C>>
      /\ Matrices!Range' = Matrices!Range
  BY DEF Matrices!Take, Matrices!At, Matrices!Own, Matrices!arguments, Matrices!Range
<1>3. DenseType /\ MatricesInv /\ TeamInv /\ Matrices!Range \subseteq Nat
  BY <1>2 DEF DenseInv, Computing, Matrices!Range
<1>4. c \in Matrices!Range /\ c \in Nat /\ 0 \in Matrices!Range
  BY <1>1, <1>3 DEF MatricesInv, Matrices!Range, DenseType
<1>5. /\ ~Busy(t) /\ Busy(t)' /\ d_pc'[t] = "load" /\ col'[t] = c /\ row'[t] = 0 /\ indx'[t] = 0
      /\ \A u \in Threads : u # t => /\ Busy(u)' = Busy(u) /\ d_pc'[u] = d_pc[u]
                                     /\ col'[u] = col[u] /\ row'[u] = row[u]
                                     /\ indx'[u] = indx[u]
  BY <1>1, <1>2, <1>3 DEF DenseType, Busy
<1>6. DenseType' /\ EndInv'
  BY <1>1, <1>2, <1>3, <1>4 DEF DenseType, EndInv
<1>7. MatricesInv'
  BY <1>1, <1>2, <1>3 DEF MatricesInv, Matrices!Unsigned
<1>8. TeamInv'
  BY <1>1, <1>2, <1>3, <1>4, <1>5 DEF TeamInv
<1>9. ASSUME matrix_size < sqrt_of_UINT32_MAX
      PROVE  CellsInv'
  <2>1. CellsInv
    BY <1>2, <1>9 DEF DenseInv, Computing
  <2>2. \A u \in Threads : d_pc'[u] = "store" =>
          loaded'[u] = C'[CellOf(matrix_size', row'[u], col'[u])]
    BY <1>2, <1>5, <2>1 DEF CellsInv
  <2>3. ASSUME NEW d \in Matrices!Range, NEW r \in Matrices!Range, NEW k \in Matrices!Range,
               d \in columns'
        PROVE  C[CellOf(matrix_size, r, d)][k] = round - 1
    BY <1>1, <2>1, <2>3 DEF CellsInv
  <2>4. ASSUME NEW d \in Matrices!Range, NEW r \in Matrices!Range, NEW k \in Matrices!Range,
               NEW u \in Threads, Busy(u)', col'[u] = d
        PROVE  C[CellOf(matrix_size, r, d)][k] = IF Added(u, r, k)' THEN round ELSE round - 1
    <3>1. CASE u = t
      <4>1. ~Added(u, r, k)'
        BY <1>3, <1>5, <3>1 DEF Added
      <4> QED
        BY <1>1, <1>5, <2>1, <2>4, <3>1, <4>1 DEF CellsInv
    <3>2. CASE u # t
      <4>1. Added(u, r, k)' = Added(u, r, k) /\ Busy(u) /\ col[u] = d
        BY <1>5, <2>4, <3>2 DEF Added
      <4> QED
        BY <2>1, <4>1 DEF CellsInv
    <3> QED
      BY <3>1, <3>2
  <2>5. ASSUME NEW d \in Matrices!Range, NEW r \in Matrices!Range, NEW k \in Matrices!Range,
               d \notin columns', \A u \in Threads : ~(Busy(u)' /\ col'[u] = d)
        PROVE  C[CellOf(matrix_size, r, d)][k] = round
    <3>1. d # c /\ d \notin columns
      BY <1>1, <1>5, <2>5
    <3>2. \A u \in Threads : ~(Busy(u) /\ col[u] = d)
      BY <1>5, <2>5
    <3> QED
      BY <2>1, <3>1, <3>2 DEF CellsInv
  <2> QED
    BY <1>2, <2>2, <2>3, <2>4, <2>5 DEF CellsInv
<1>10. ASSUME matrix_size = sqrt_of_UINT32_MAX
       PROVE  TooLargeInv'
  <2>1. TooLargeInv
    BY <1>2, <1>10 DEF DenseInv, Computing
  <2>2. ASSUME round > 0, NEW d \in Matrices!Range
        PROVE  d \in columns' \/ \E u \in Threads : Busy(u)' /\ col'[u] = d
    <3>1. CASE d \in columns
      BY <1>1, <1>5, <3>1
    <3>2. CASE \E u \in Threads : Busy(u) /\ col[u] = d
      BY <1>5, <3>2
    <3> QED
      BY <2>1, <2>2, <3>1, <3>2 DEF TooLargeInv
  <2>3. \A u \in Threads : d_pc'[u] # "store"
    BY <1>5, <2>1 DEF TooLargeInv
  <2> QED
    BY <1>2, <2>1, <2>2, <2>3 DEF TooLargeInv
<1> QED
  BY <1>2, <1>6, <1>7, <1>8, <1>9, <1>10 DEF DenseInv

\* The cell a busy thread is at.
LEMMA CellIs ==
  ASSUME Matrices!ConstantsOK, DenseInv, Computing, NEW t \in Threads, Busy(t)
  PROVE  /\ Matrices!Cell(t) \in Nat
         /\ matrix_size = sqrt_of_UINT32_MAX => squared_size = 0
         /\ matrix_size < sqrt_of_UINT32_MAX =>
              /\ squared_size = matrix_size * matrix_size
              /\ Matrices!Cell(t) = CellOf(matrix_size, row[t], col[t])
              /\ Matrices!Cell(t) \in 0 .. squared_size - 1
<1> DEFINE m == matrix_size
<1>1. m \in Nat /\ MatricesInv /\ TeamInv
  BY DEF DenseInv, DenseType
<1>2. row[t] \in 0 .. m - 1 /\ col[t] \in 0 .. m - 1
  BY <1>1 DEF TeamInv, Matrices!Range
<1>3. CellOf(m, row[t], col[t]) \in 0 .. m * m - 1
  BY <1>1, <1>2, CellFits
<1>4. m * m \in Nat /\ CellOf(m, row[t], col[t]) \in 0 .. m * m
  BY <1>1, <1>3
<1>5. Matrices!Cell(t) = Matrices!Unsigned(CellOf(m, row[t], col[t]))
  BY DEF Matrices!Cell, CellOf, Matrices!Own
<1>6. Matrices!Cell(t) \in Nat
  BY <1>4, <1>5, UnsignedType
<1>7. m = sqrt_of_UINT32_MAX => squared_size = 0
  BY <1>1, SquareOverflows DEF MatricesInv
<1>8. m < sqrt_of_UINT32_MAX => squared_size = m * m
  BY <1>1, <1>4, SquareFits DEF MatricesInv
<1>9. m < sqrt_of_UINT32_MAX => Matrices!Cell(t) = CellOf(m, row[t], col[t])
  BY <1>1, <1>4, <1>5, SquareFits
<1> QED
  BY <1>3, <1>6, <1>7, <1>8, <1>9

\* A thread reads its cell, or finds there is none.
LEMMA LoadStep ==
  ASSUME Matrices!ConstantsOK, DenseInv, NEW t \in Threads, Matrices!Load(t)
  PROVE  DenseInv'
<1>1. /\ d_program = "multiply" /\ d_pc[t] = "load" /\ Busy(t) /\ Computing
      /\ UNCHANGED <<matrix_size, squared_size, iterations, round, columns, col, row, indx, C>>
      /\ Matrices!Range' = Matrices!Range
  BY DEF Matrices!Load, Matrices!At, Matrices!arguments, Matrices!Range, Busy, Computing
<1>2. /\ DenseType /\ MatricesInv /\ TeamInv
      /\ matrix_size < sqrt_of_UINT32_MAX => CellsInv
      /\ matrix_size = sqrt_of_UINT32_MAX => TooLargeInv
  BY <1>1 DEF DenseInv
<1>3. /\ Matrices!Cell(t) \in Nat /\ squared_size \in Nat
      /\ matrix_size = sqrt_of_UINT32_MAX => squared_size = 0
      /\ matrix_size < sqrt_of_UINT32_MAX =>
           /\ Matrices!Cell(t) = CellOf(matrix_size, row[t], col[t])
           /\ Matrices!Cell(t) \in 0 .. squared_size - 1
  <2>1. matrix_size * matrix_size \in Nat
    BY <1>2 DEF DenseType
  <2>2. squared_size \in Nat
    BY <1>2, <2>1, UnsignedType DEF MatricesInv
  <2> QED
    BY <1>1, <2>2, CellIs
<1>4. matrix_size \in Nat /\ sqrt_of_UINT32_MAX \in Nat /\ matrix_size <= sqrt_of_UINT32_MAX
  BY <1>2 DEF DenseType, MatricesInv, Matrices!ConstantsOK, Matrices!SizesAssumption
<1>5. CASE Matrices!Cell(t) < squared_size
  <2>1. /\ matrix_size < sqrt_of_UINT32_MAX /\ d_program' = d_program
        /\ loaded' = [loaded EXCEPT ![t] = C[CellOf(matrix_size, row[t], col[t])]]
        /\ d_pc' = [d_pc EXCEPT ![t] = "store"]
    BY <1>3, <1>4, <1>5 DEF Matrices!Load
  <2>2. /\ Busy(t)' /\ \A u \in Threads : Busy(u)' = Busy(u)
        /\ \A u \in Threads : u # t => d_pc'[u] = d_pc[u] /\ loaded'[u] = loaded[u]
    BY <1>1, <1>2, <2>1 DEF DenseType, MatricesInv, Busy
  <2>3. DenseType' /\ EndInv'
    BY <1>1, <1>2, <2>1, <2>2 DEF DenseType, EndInv
  <2>4. C[CellOf(matrix_size, row[t], col[t])] \in [Matrices!Range -> Nat]
    BY <1>2, <1>3, <2>1 DEF MatricesInv
  <2>5. MatricesInv'
    BY <1>1, <1>2, <2>1, <2>4 DEF MatricesInv, Matrices!Unsigned
  <2>6. TeamInv'
    BY <1>1, <1>2, <2>2 DEF TeamInv
  <2>7. CellsInv'
    <3>1. \A u \in Threads : d_pc'[u] = "store" =>
            loaded'[u] = C[CellOf(matrix_size, row[u], col[u])]
      BY <1>2, <2>1, <2>2 DEF CellsInv, MatricesInv
    <3> QED
      BY <1>1, <1>2, <2>1, <2>2, <3>1 DEF CellsInv, Added
  <2> QED
    BY <1>1, <1>4, <2>1, <2>3, <2>5, <2>6, <2>7 DEF DenseInv
<1>6. CASE ~(Matrices!Cell(t) < squared_size)
  <2>1. d_program' = "corrupt" /\ UNCHANGED <<loaded, d_pc>>
    BY <1>6 DEF Matrices!Load
  <2>2. matrix_size = sqrt_of_UINT32_MAX
    BY <1>3, <1>4, <1>6
  <2>3. /\ DenseType' /\ EndInv' /\ MatricesInv' /\ TeamInv' /\ TooLargeInv'
        /\ matrix_size' = sqrt_of_UINT32_MAX
    BY <1>1, <1>2, <2>1, <2>2
    DEF DenseType, EndInv, MatricesInv, TeamInv, TooLargeInv, Busy, Matrices!Unsigned
  <2> QED
    BY <1>4, <2>3 DEF DenseInv
<1> QED
  BY <1>5, <1>6

\* Store adds one product, to the cell the thread has read.
LEMMA StoreCells ==
  ASSUME Matrices!ConstantsOK, DenseInv, NEW t \in Threads, Matrices!Store(t)
  PROVE  /\ matrix_size < sqrt_of_UINT32_MAX /\ d_program = "multiply" /\ Busy(t)
         /\ row[t] \in Matrices!Range /\ col[t] \in Matrices!Range /\ indx[t] \in Matrices!Range
         /\ DenseType /\ MatricesInv /\ TeamInv /\ CellsInv
         /\ UNCHANGED <<d_program, matrix_size, squared_size, iterations, round, columns, col, loaded>>
         /\ Matrices!Range' = Matrices!Range
         /\ C' \in [0 .. squared_size - 1 -> [Matrices!Range -> Nat]]
         /\ \A c \in Matrices!Range, r \in Matrices!Range :
              c # col[t] \/ r # row[t] =>
                C'[CellOf(matrix_size, r, c)] = C[CellOf(matrix_size, r, c)]
         /\ \A k \in Matrices!Range : C'[CellOf(matrix_size, row[t], col[t])][k] =
              IF k = indx[t] THEN round ELSE C[CellOf(matrix_size, row[t], col[t])][k]
<1> DEFINE m == matrix_size
           cell == CellOf(m, row[t], col[t])
<1>1. /\ d_program = "multiply" /\ d_pc[t] = "store" /\ Busy(t) /\ Computing
      /\ UNCHANGED <<d_program, matrix_size, squared_size, iterations, round, columns, col, loaded>>
      /\ Matrices!Range' = Matrices!Range
      /\ C' = [C EXCEPT ![Matrices!Cell(t)] = [loaded[t] EXCEPT ![indx[t]] = @ + 1]]
  BY DEF Matrices!Store, Matrices!At, Matrices!Own, Matrices!arguments, Matrices!Range, Busy,
         Computing
<1>2. /\ DenseType /\ MatricesInv /\ TeamInv
      /\ m < sqrt_of_UINT32_MAX => CellsInv
      /\ m = sqrt_of_UINT32_MAX => TooLargeInv
  BY <1>1 DEF DenseInv
<1>3. m \in Nat /\ sqrt_of_UINT32_MAX \in Nat /\ m <= sqrt_of_UINT32_MAX
  BY <1>2 DEF DenseType, MatricesInv, Matrices!ConstantsOK, Matrices!SizesAssumption
<1>4. m < sqrt_of_UINT32_MAX /\ CellsInv
  <2>1. m # sqrt_of_UINT32_MAX
    BY <1>1, <1>2 DEF TooLargeInv
  <2> QED
    BY <1>2, <1>3, <2>1
<1>5. /\ row[t] \in Matrices!Range /\ col[t] \in Matrices!Range /\ indx[t] \in Matrices!Range
      /\ col[t] \notin columns
  BY <1>1, <1>2 DEF TeamInv
<1>6. Matrices!Cell(t) = cell /\ cell \in 0 .. squared_size - 1
  BY <1>1, <1>4, CellIs
<1>7. loaded[t] = C[cell] /\ C[cell] \in [Matrices!Range -> Nat]
  BY <1>1, <1>2, <1>4, <1>6 DEF CellsInv, MatricesInv
<1>8. C[cell][indx[t]] = round - 1
  <2>1. ~Added(t, row[t], indx[t])
    <3>1. row[t] \in Nat /\ indx[t] \in Nat
      BY <1>2 DEF DenseType
    <3> QED
      BY <3>1 DEF Added
  <2> QED
    BY <1>1, <1>4, <1>5, <2>1 DEF CellsInv
<1> DEFINE f == [loaded[t] EXCEPT ![indx[t]] = @ + 1]
<1>9. /\ f \in [Matrices!Range -> Nat]
      /\ \A k \in Matrices!Range : f[k] = IF k = indx[t] THEN round ELSE C[cell][k]
  <2>1. round \in Nat
    BY <1>2 DEF MatricesInv
  <2> QED
    BY <1>5, <1>7, <1>8, <2>1
<1> HIDE DEF f
<1>10. /\ C' \in [0 .. squared_size - 1 -> [Matrices!Range -> Nat]]
       /\ C'[cell] = f
       /\ \A e \in 0 .. squared_size - 1 : e # cell => C'[e] = C[e]
  <2>1. C' = [C EXCEPT ![cell] = f]
    BY <1>1, <1>6 DEF f
  <2> HIDE DEF cell
  <2> QED
    BY <1>2, <1>6, <1>9, <2>1 DEF MatricesInv
<1>11. ASSUME NEW c \in Matrices!Range, NEW r \in Matrices!Range, c # col[t] \/ r # row[t]
       PROVE  C'[CellOf(m, r, c)] = C[CellOf(m, r, c)]
  <2>1. CellOf(m, r, c) # cell
    BY <1>3, <1>5, <1>11, CellUnique DEF Matrices!Range
  <2>2. CellOf(m, r, c) \in 0 .. m * m - 1
    BY <1>3, CellFits DEF Matrices!Range
  <2>3. squared_size = m * m
    BY <1>1, <1>4, CellIs
  <2> QED
    BY <1>10, <2>1, <2>2, <2>3
<1> QED
  BY <1>1, <1>2, <1>4, <1>5, <1>9, <1>10, <1>11

\* Where the thread goes next.
LEMMA StoreProgress ==
  ASSUME Matrices!ConstantsOK, DenseInv, NEW t \in Threads, Matrices!Store(t)
  PROVE  /\ row' \in [Threads -> Nat] /\ indx' \in [Threads -> Nat]
         /\ d_pc' \in [Threads -> {"next", "load", "store"}]
         /\ d_pc'[t] # "store"
         /\ \A u \in Threads : u # t =>
              d_pc'[u] = d_pc[u] /\ row'[u] = row[u] /\ indx'[u] = indx[u]
         /\ Busy(t)' => row'[t] \in Matrices!Range /\ indx'[t] \in Matrices!Range
         /\ \A r \in Matrices!Range, k \in Matrices!Range :
              LET before == Added(t, r, k) \/ (r = row[t] /\ k = indx[t])
              IN  /\ Busy(t)' => Added(t, r, k)' = before
                  /\ ~Busy(t)' => before
<1> DEFINE m == matrix_size
           rowEnds == indx[t] + 1 >= m
           colEnds == rowEnds /\ row[t] + 1 >= m
<1>1. DenseType /\ row[t] \in Matrices!Range /\ indx[t] \in Matrices!Range /\ m \in Nat
  BY StoreCells DEF DenseType
<1>2. /\ indx' = [indx EXCEPT ![t] = IF rowEnds THEN 0 ELSE @ + 1]
      /\ row' = [row EXCEPT ![t] = IF rowEnds THEN @ + 1 ELSE @]
      /\ d_pc' = [d_pc EXCEPT ![t] = IF colEnds THEN "next" ELSE "load"]
  BY DEF Matrices!Store, Matrices!Advance, Matrices!Own
<1>3. /\ indx'[t] = IF rowEnds THEN 0 ELSE indx[t] + 1
      /\ row'[t] = IF rowEnds THEN row[t] + 1 ELSE row[t]
      /\ d_pc'[t] = IF colEnds THEN "next" ELSE "load"
      /\ \A u \in Threads : u # t =>
           d_pc'[u] = d_pc[u] /\ row'[u] = row[u] /\ indx'[u] = indx[u]
  BY <1>1, <1>2 DEF DenseType
<1>4. /\ row[t] \in Nat /\ row[t] < m /\ indx[t] \in Nat /\ indx[t] < m
  BY <1>1 DEF Matrices!Range
<1>5. Busy(t)' <=> ~colEnds
  BY <1>3 DEF Busy
<1>6. row' \in [Threads -> Nat] /\ indx' \in [Threads -> Nat]
  BY <1>1, <1>2, <1>4 DEF DenseType
<1>7. d_pc' \in [Threads -> {"next", "load", "store"}]
  BY <1>1, <1>2 DEF DenseType
<1>8. Busy(t)' => row'[t] \in Matrices!Range /\ indx'[t] \in Matrices!Range
  BY <1>1, <1>3, <1>4, <1>5 DEF Matrices!Range
<1>9. ASSUME NEW r \in Matrices!Range, NEW k \in Matrices!Range
      PROVE  LET before == Added(t, r, k) \/ (r = row[t] /\ k = indx[t])
             IN  /\ Busy(t)' => Added(t, r, k)' = before
                 /\ ~Busy(t)' => before
  <2>1. r \in Nat /\ r < m /\ k \in Nat /\ k < m
    BY <1>1 DEF Matrices!Range
  <2>2. Busy(t)' => (Added(t, r, k)' <=> Added(t, r, k) \/ (r = row[t] /\ k = indx[t]))
    <3> SUFFICES Added(t, r, k)' <=> Added(t, r, k) \/ (r = row[t] /\ k = indx[t])
      OBVIOUS
    <3>1. Added(t, r, k)' <=> r < row'[t] \/ (r = row'[t] /\ k < indx'[t])
      BY DEF Added
    <3>2. CASE rowEnds
      <4>1. row'[t] = row[t] + 1 /\ indx'[t] = 0 /\ indx[t] + 1 = m
        BY <1>1, <1>3, <1>4, <3>2
      <4> QED
        BY <1>4, <2>1, <3>1, <4>1 DEF Added
    <3>3. CASE ~rowEnds
      <4>1. row'[t] = row[t] /\ indx'[t] = indx[t] + 1
        BY <1>3, <3>3
      <4> QED
        BY <1>4, <2>1, <3>1, <4>1 DEF Added
    <3> QED
      BY <3>2, <3>3
  <2>3. ~Busy(t)' => Added(t, r, k) \/ (r = row[t] /\ k = indx[t])
    BY <1>1, <1>4, <1>5, <2>1 DEF Added
  <2>4. Added(t, r, k) \in BOOLEAN /\ Added(t, r, k)' \in BOOLEAN
    BY DEF Added
  <2> QED
    BY <2>2, <2>3, <2>4
<1> QED
  BY <1>3, <1>6, <1>7, <1>8, <1>9

\* A thread writes the cell it has read with one product more.
LEMMA StoreStep ==
  ASSUME Matrices!ConstantsOK, DenseInv, NEW t \in Threads, Matrices!Store(t)
  PROVE  DenseInv'
<1> DEFINE m == matrix_size
<1>1. /\ m < sqrt_of_UINT32_MAX /\ d_program = "multiply" /\ Busy(t)
      /\ row[t] \in Matrices!Range /\ col[t] \in Matrices!Range /\ indx[t] \in Matrices!Range
      /\ DenseType /\ MatricesInv /\ TeamInv /\ CellsInv
      /\ UNCHANGED <<d_program, matrix_size, squared_size, iterations, round, columns, col, loaded>>
      /\ Matrices!Range' = Matrices!Range
      /\ C' \in [0 .. squared_size - 1 -> [Matrices!Range -> Nat]]
  BY StoreCells
<1>2. \A c \in Matrices!Range, r \in Matrices!Range :
        c # col[t] \/ r # row[t] => C'[CellOf(m, r, c)] = C[CellOf(m, r, c)]
  BY StoreCells
<1>3. \A k \in Matrices!Range : C'[CellOf(m, row[t], col[t])][k] =
        IF k = indx[t] THEN round ELSE C[CellOf(m, row[t], col[t])][k]
  BY StoreCells
<1>4. /\ row' \in [Threads -> Nat] /\ indx' \in [Threads -> Nat]
      /\ d_pc' \in [Threads -> {"next", "load", "store"}] /\ d_pc'[t] # "store"
      /\ \A u \in Threads : u # t =>
           d_pc'[u] = d_pc[u] /\ row'[u] = row[u] /\ indx'[u] = indx[u]
      /\ Busy(t)' => row'[t] \in Matrices!Range /\ indx'[t] \in Matrices!Range
  BY StoreProgress
<1>5. \A u \in Threads : u # t => Busy(u)' = Busy(u)
  BY <1>4 DEF Busy
<1>6. \A u \in Threads : u # t /\ Busy(u) =>
        col[u] # col[t] /\ col[u] \in Matrices!Range /\ row[u] \in Matrices!Range
  BY <1>1 DEF TeamInv
<1>7. DenseType' /\ EndInv' /\ m \in Nat
  BY <1>1, <1>4 DEF DenseType, EndInv
<1>8. MatricesInv'
  BY <1>1 DEF MatricesInv, Matrices!Unsigned
<1>9. TeamInv'
  BY <1>1, <1>4, <1>5 DEF TeamInv
<1>10. ASSUME NEW u \in Threads, d_pc'[u] = "store"
       PROVE  loaded[u] = C'[CellOf(m, row'[u], col[u])]
  <2>1. u # t /\ d_pc[u] = "store" /\ Busy(u) /\ row'[u] = row[u]
    BY <1>4, <1>10 DEF Busy
  <2> QED
    BY <1>1, <1>2, <1>6, <2>1 DEF CellsInv
<1>11. ASSUME NEW c \in Matrices!Range, NEW r \in Matrices!Range, NEW k \in Matrices!Range,
              c # col[t]
       PROVE  C'[CellOf(m, r, c)][k] = C[CellOf(m, r, c)][k]
  BY <1>2, <1>11
<1>12. ASSUME NEW r \in Matrices!Range, NEW k \in Matrices!Range
       PROVE  C'[CellOf(m, r, col[t])][k] =
                IF Added(t, r, k) \/ (r = row[t] /\ k = indx[t]) THEN round ELSE round - 1
  <2>1. C[CellOf(m, r, col[t])][k] = IF Added(t, r, k) THEN round ELSE round - 1
    BY <1>1 DEF CellsInv
  <2>2. CASE r = row[t]
    BY <1>3, <2>1, <2>2
  <2>3. CASE r # row[t]
    BY <1>1, <1>2, <2>1, <2>3
  <2> QED
    BY <2>2, <2>3
<1>13. ASSUME NEW c \in Matrices!Range, NEW r \in Matrices!Range, NEW k \in Matrices!Range,
              c \in columns
       PROVE  C'[CellOf(m, r, c)][k] = round - 1
  <2>1. c # col[t]
    BY <1>1, <1>13 DEF TeamInv
  <2> QED
    BY <1>1, <1>11, <1>13, <2>1 DEF CellsInv
<1>14. ASSUME NEW c \in Matrices!Range, NEW r \in Matrices!Range, NEW k \in Matrices!Range,
              NEW u \in Threads, Busy(u)', col[u] = c
       PROVE  C'[CellOf(m, r, c)][k] = IF Added(u, r, k)' THEN round ELSE round - 1
  <2>1. CASE u = t
    <3>1. Added(t, r, k)' = (Added(t, r, k) \/ (r = row[t] /\ k = indx[t]))
      BY <1>14, <2>1, StoreProgress
    <3> QED
      BY <1>12, <1>14, <2>1, <3>1
  <2>2. CASE u # t
    <3>1. Added(u, r, k)' = Added(u, r, k) /\ Busy(u) /\ c # col[t]
      BY <1>4, <1>5, <1>6, <1>14, <2>2 DEF Added
    <3> QED
      BY <1>1, <1>11, <1>14, <3>1 DEF CellsInv
  <2> QED
    BY <2>1, <2>2
<1>15. ASSUME NEW c \in Matrices!Range, NEW r \in Matrices!Range, NEW k \in Matrices!Range,
              c \notin columns, \A u \in Threads : ~(Busy(u)' /\ col[u] = c)
       PROVE  C'[CellOf(m, r, c)][k] = round
  <2>1. CASE c = col[t]
    <3>1. Added(t, r, k) \/ (r = row[t] /\ k = indx[t])
      BY <1>15, <2>1, StoreProgress
    <3> QED
      BY <1>12, <2>1, <3>1
  <2>2. CASE c # col[t]
    <3>1. \A u \in Threads : ~(Busy(u) /\ col[u] = c)
      BY <1>5, <1>15, <2>2
    <3> QED
      BY <1>1, <1>11, <1>15, <2>2, <3>1 DEF CellsInv
  <2> QED
    BY <2>1, <2>2
<1>16. CellsInv'
  BY <1>1, <1>10, <1>13, <1>14, <1>15 DEF CellsInv
<1>17. matrix_size' < sqrt_of_UINT32_MAX /\ matrix_size' # sqrt_of_UINT32_MAX
  BY <1>1, <1>7 DEF Matrices!ConstantsOK, Matrices!SizesAssumption
<1> QED
  BY <1>7, <1>8, <1>9, <1>16, <1>17 DEF DenseInv

\* All columns are finished, or none is begun: the next round begins, or the
\* program ends.
LEMMA RepeatStep ==
  ASSUME Matrices!ConstantsOK, DenseInv, Matrices!Repeat
  PROVE  DenseInv'
<1> DEFINE m == matrix_size
<1>1. /\ d_program = "multiply" /\ columns = {}
      /\ \A t \in Threads : ~Busy(t) /\ ~Busy(t)' /\ d_pc'[t] = "next"
      /\ UNCHANGED <<matrix_size, squared_size, iterations, d_pc, col, row, indx, loaded, C>>
      /\ Matrices!Range' = Matrices!Range
  BY DEF Matrices!Repeat, Matrices!arguments, Busy, Matrices!Range
<1>2. /\ DenseType /\ MatricesInv /\ TeamInv
      /\ m < sqrt_of_UINT32_MAX => CellsInv
      /\ m = sqrt_of_UINT32_MAX => TooLargeInv
  BY <1>1 DEF DenseInv, Computing
<1>3. ASSUME m = sqrt_of_UINT32_MAX PROVE round = 0
  <2>1. 0 \in Matrices!Range
    BY <1>2, <1>3 DEF MatricesInv, DenseType, Matrices!Range, Matrices!ConstantsOK,
                      Matrices!SizesAssumption
  <2> QED
    BY <1>1, <1>2, <1>3, <2>1 DEF TooLargeInv, MatricesInv
<1>4. ASSUME m < sqrt_of_UINT32_MAX,
             NEW c \in Matrices!Range, NEW r \in Matrices!Range, NEW k \in Matrices!Range
      PROVE  C[CellOf(m, r, c)][k] = round
  BY <1>1, <1>2, <1>4 DEF CellsInv
<1>5. TeamInv'
  BY <1>1 DEF TeamInv
<1>6. CASE round = iterations
  <2>1. d_program' = "done" /\ UNCHANGED <<round, columns>>
    BY <1>6 DEF Matrices!Repeat
  <2>2. DenseType' /\ EndInv' /\ MatricesInv'
    BY <1>1, <1>2, <1>6, <2>1 DEF DenseType, EndInv, MatricesInv, Matrices!Unsigned
  <2>3. m < sqrt_of_UINT32_MAX => CellsInv'
    BY <1>1, <1>4, <2>1 DEF CellsInv
  <2>4. m = sqrt_of_UINT32_MAX => TooLargeInv'
    BY <1>1, <1>3, <2>1 DEF TooLargeInv
  <2> QED
    BY <1>1, <1>5, <2>2, <2>3, <2>4 DEF DenseInv
<1>7. CASE round # iterations
  <2>1. d_program' = "multiply" /\ round' = round + 1 /\ columns' = Matrices!Range
    BY <1>1, <1>7 DEF Matrices!Repeat
  <2>2. DenseType' /\ EndInv'
    BY <1>1, <1>2, <2>1 DEF DenseType, EndInv
  <2>3. MatricesInv' /\ round' - 1 = round
    BY <1>1, <1>2, <2>1 DEF MatricesInv, Matrices!Unsigned
  <2>4. m < sqrt_of_UINT32_MAX => CellsInv'
    BY <1>1, <1>4, <2>1, <2>3 DEF CellsInv
  <2>5. TooLargeInv'
    BY <1>1, <2>1 DEF TooLargeInv
  <2> QED
    BY <1>1, <1>5, <2>2, <2>3, <2>4, <2>5 DEF DenseInv
<1> QED
  BY <1>6, <1>7

\* Before the arguments are read.
LEMMA DenseInit == ASSUME Matrices!ConstantsOK, Matrices!Init PROVE DenseInv
<1>1. d_program = "start" /\ matrix_size = 0 /\ round = 0 /\ columns = {}
      /\ d_pc = [t \in Threads |-> "next"]
      /\ col = [t \in Threads |-> 0] /\ row = col /\ indx = col
  BY DEF Matrices!Init
<1>2. DenseType /\ EndInv /\ ~Computing
  BY <1>1 DEF DenseType, EndInv, Computing, Busy
<1> QED
  BY <1>2 DEF DenseInv

\* Every step preserves the invariant.
LEMMA DenseNext ==
  ASSUME Matrices!ConstantsOK, DenseInv, [Matrices!Next]_denseVars
  PROVE  DenseInv'
<1>1. CASE UNCHANGED denseVars
  <2>1. /\ UNCHANGED <<d_program, matrix_size, squared_size, iterations, round, columns, d_pc, col, row,
                       indx, loaded, C>>
        /\ Matrices!Range' = Matrices!Range
    BY <1>1 DEF denseVars, Matrices!Range
  <2>2. DenseType' = DenseType /\ EndInv' = EndInv /\ Computing' = Computing
    BY <2>1 DEF DenseType, EndInv, Computing, Busy
  <2>3. MatricesInv' = MatricesInv /\ TeamInv' = TeamInv
    BY <2>1 DEF MatricesInv, TeamInv, Busy, Matrices!Unsigned
  <2>4. CellsInv' = CellsInv /\ TooLargeInv' = TooLargeInv
    BY <2>1 DEF CellsInv, TooLargeInv, Busy, Added
  <2> QED
    BY <2>1, <2>2, <2>3, <2>4 DEF DenseInv
<1> QED
  BY <1>1, StartStep, TakeStep, LoadStep, StoreStep, RepeatStep DEF Matrices!Next

\* It implies what the run checks of the product.
LEMMA DenseRight ==
  ASSUME Matrices!ConstantsOK, DenseInv
  PROVE  Matrices!ProductRight
<1> DEFINE m == matrix_size
<1>1. ASSUME d_program = "done", iterations = 1
      PROVE  C = Matrices!D /\ squared_size = m * m
  <2>1. /\ DenseType /\ MatricesInv /\ round = 1 /\ columns = {}
        /\ \A t \in Threads : ~Busy(t)
        /\ m < sqrt_of_UINT32_MAX => CellsInv
        /\ m = sqrt_of_UINT32_MAX => TooLargeInv
    BY <1>1 DEF DenseInv, EndInv, Computing
  <2>2. /\ m \in Nat /\ sqrt_of_UINT32_MAX \in Nat /\ m <= sqrt_of_UINT32_MAX
        /\ m # sqrt_of_UINT32_MAX
    BY <1>1, <2>1
    DEF DenseType, MatricesInv, TooLargeInv, Matrices!ConstantsOK,
        Matrices!SizesAssumption
  <2>3. m < sqrt_of_UINT32_MAX /\ CellsInv
    BY <2>1, <2>2
  <2>4. m * m \in Nat /\ m * m \in 0 .. m * m
    BY <2>2
  <2>5. squared_size = m * m
    BY <2>1, <2>2, <2>3, <2>4, SquareFits DEF MatricesInv
  <2>6. ASSUME NEW e \in 0 .. m * m - 1, NEW k \in Matrices!Range
        PROVE  C[e][k] = 1
    <3>1. PICK r \in Matrices!Range, c \in Matrices!Range : e = CellOf(m, r, c)
      BY <2>2, CellsCover DEF Matrices!Range
    <3> QED
      BY <2>1, <2>3, <3>1 DEF CellsInv
  <2>7. ASSUME NEW e \in 0 .. squared_size - 1
        PROVE  C[e] = [k \in Matrices!Range |-> 1]
    <3>1. C[e] \in [Matrices!Range -> Nat]
      BY <2>1 DEF MatricesInv
    <3> QED
      BY <2>5, <2>6, <3>1
  <2>8. C = Matrices!D
    BY <2>1, <2>7 DEF MatricesInv, Matrices!D
  <2> QED
    BY <2>5, <2>8
<1>2. d_program = "corrupt" => m = sqrt_of_UINT32_MAX
  BY DEF DenseInv, EndInv
<1> QED
  BY <1>1, <1>2 DEF Matrices!ProductRight

-----------------------------------------------------------------------------
(* The invariants in the composition, and the theorems. *)

\* KernelMemory in the composition.
LEMMA MemoryAlways == Spec => []MemoryInv
<1>1. Init => MemoryInv
  BY InstancesOK, MemoryInit DEF Init
<1>2. MemoryInv /\ [Next]_vars => MemoryInv'
  <2>1. [Next]_vars => [Memory!Next]_memoryVars
    BY DEF Next, vars, memoryVars
  <2> QED
    BY <2>1, InstancesOK, MemoryNext
<1> QED
  BY <1>1, <1>2, PTL DEF Spec

\* Quicksort in the composition.
LEMMA SortAlways == Spec => []SortInv
<1>1. Init => SortInv
  BY InstancesOK, SortInit DEF Init
<1>2. SortInv /\ [Next]_vars => SortInv'
  <2>1. [Next]_vars => [Sorting!Next]_sortVars
    BY DEF Next, vars, sortVars
  <2> QED
    BY <2>1, InstancesOK, SortNext
<1> QED
  BY <1>1, <1>2, PTL DEF Spec

\* DenseMM in the composition.
LEMMA DenseAlways == Spec => []DenseInv
<1>1. Init => DenseInv
  BY InstancesOK, DenseInit DEF Init
<1>2. DenseInv /\ [Next]_vars => DenseInv'
  <2>1. [Next]_vars => [Matrices!Next]_denseVars
    BY DEF Next, vars, denseVars
  <2> QED
    BY <2>1, InstancesOK, DenseNext
<1> QED
  BY <1>1, <1>2, PTL DEF Spec

\* Every variable of kernel_memory.c keeps its type, whatever is written to its
\* parameter.
THEOREM MemoryTypes == Spec => []Memory!TypeOK
<1>1. MemoryInv => Memory!TypeOK
  BY DEF MemoryInv
<1> QED
  BY <1>1, MemoryAlways, PTL

\* The block my_get_order asks for has a page for every page thread_fn touches,
\* the pages have room for the structs unless the parameter was written between
\* its reads, and rmmod leaves no block behind.
THEOREM BlockAlwaysSuffices == Spec => []BlockSuffices
<1>1. MemoryInv => BlockSuffices
  BY InstancesOK, MemorySuffices DEF BlockSuffices
<1> QED
  BY <1>1, MemoryAlways, PTL

\* sort.c ends with the array in order, and with it the cell behind the array,
\* for every size, every content and every choice of pivots.
THEOREM SortedInTheEnd == Spec => []Sorted
<1>1. SortInv => Sorted
  BY SortedAtLast DEF Sorted
<1> QED
  BY <1>1, SortAlways, PTL

\* Whatever sort.c has swapped, every number is in as many cells as in the array
\* that was generated, fractions apart.
THEOREM NoNumberIsLost == Spec => []SameNumbers
<1>1. Init => SameNumbers
  BY DEF Init, Sorting!Init, SameNumbers, Sorting!SameNumbers
<1>2. SortInv /\ SameNumbers /\ [Next]_vars => SameNumbers'
  <2>1. [Next]_vars => [Sorting!Next]_sortVars
    BY DEF Next, vars, sortVars
  <2> QED
    BY <2>1, SameNumbersStep DEF SameNumbers
<1> QED
  BY <1>1, <1>2, SortAlways, PTL DEF Spec

\* When dense_mm.c or a parallel version of it is done with one multiplication,
\* every cell is what the serial loop computes, whatever columns the threads took
\* in whatever order; and however often it multiplies, it reaches memory that is
\* not its own only for the size whose square an unsigned cannot hold.
THEOREM ProductAlwaysRight == Spec => []ProductRight
<1>1. DenseInv => ProductRight
  BY InstancesOK, DenseRight DEF ProductRight
<1> QED
  BY <1>1, DenseAlways, PTL
=============================================================================
