------------------------------- MODULE DenseMM -------------------------------
(***************************************************************************)
(* The matrix multiplication that serves the studios as a workload: a team *)
(* of threads shares the columns among them, as parallel_dense_mm.c of     *)
(* studio15 does with one multiplication and time_parallel_dense_mm.c of   *)
(* studio4 with as many as it is told to, into the same matrix; a team of  *)
(* one is the program that has no OpenMP.                                  *)
(*                                                                         *)
(* A cell of C holds how often each product has been added to it.          *)
(***************************************************************************)
EXTENDS Integers

CONSTANTS Threads,
          Sizes,       \* arguments of the program, at least 0
          sqrt_of_UINT32_MAX, \* 65536 in the code: its square is what an
                              \* unsigned has values
          Repeats      \* what it is told of multiplications, one after the
                       \* other: time_parallel_dense_mm.c takes any number

ThreadsAssumption == Threads # {}
SizesAssumption == Sizes \subseteq Nat /\ sqrt_of_UINT32_MAX \in Nat \ {0}
RepeatsAssumption == Repeats \subseteq Nat

\* What is assumed of the constants.
ConstantsOK == ThreadsAssumption /\ SizesAssumption /\ RepeatsAssumption

Unsigned(n) == n % (sqrt_of_UINT32_MAX * sqrt_of_UINT32_MAX)

VARIABLES
  program,       \* "start", "multiply", "done", "refused", "corrupt"
  matrix_size,
  squared_size,  \* the elements each of the matrices has
  iterations,    \* the multiplications the program was told to do
  round,         \* the one that is going on, 0 before the first
  columns,       \* those of this multiplication nobody has taken
  pc,            \* where each thread is: "next", "load", "store"
  col, row, indx,
  loaded,        \* the cell of C it adds to, as it has read it
  C

vars == <<program, matrix_size, squared_size, iterations, round, columns, pc, col, row,
          indx, loaded, C>>
arguments == <<matrix_size, squared_size, iterations>>

Range == 0 .. matrix_size - 1
None == [k \in Range |-> 0]

Init ==
  /\ program = "start"
  /\ matrix_size = 0 /\ squared_size = 0 /\ iterations = 0
  /\ round = 0 /\ columns = {}
  /\ pc = [t \in Threads |-> "next"]
  /\ col = [t \in Threads |-> 0] /\ row = col /\ indx = col
  /\ loaded = [t \in Threads |-> None]
  /\ C = [c \in {} |-> None]

-----------------------------------------------------------------------------
\* The check lets the size through whose square an unsigned cannot hold.
Start ==
  /\ program = "start"
  /\ matrix_size' \in Sizes
  /\ IF matrix_size' > sqrt_of_UINT32_MAX
     THEN program' = "refused" /\ UNCHANGED <<squared_size, iterations, C>>
     ELSE /\ program' = "multiply"
          /\ squared_size' = Unsigned(matrix_size' * matrix_size')
          /\ C' = [c \in 0 .. squared_size' - 1 |-> None']
          /\ iterations' \in Repeats
  /\ loaded' = [t \in Threads |-> None']
  /\ UNCHANGED <<round, columns, pc, col, row, indx>>

\* Mutant: private(col, row, index) is left out: the team shares them.
Shared(t) == CHOOSE u \in Threads : TRUE
Own(t) == t

Cell(t) == Unsigned(row[Own(t)] * matrix_size + col[Own(t)])

At(t, point) == program = "multiply" /\ pc[t] = point

\* omp for: every column goes to one thread.
Take(t) ==
  /\ At(t, "next")
  /\ \E c \in columns : columns' = columns \ {c} /\ col' = [col EXCEPT ![Own(t)] = c]
  /\ row' = [row EXCEPT ![Own(t)] = 0] /\ indx' = [indx EXCEPT ![Own(t)] = 0]
  /\ pc' = [pc EXCEPT ![t] = "load"]
  /\ UNCHANGED <<program, arguments, round, loaded, C>>

\* C[...] += A[...] * B[...] is a load...
Load(t) ==
  /\ At(t, "load")
  /\ IF Cell(t) < squared_size
     THEN /\ loaded' = [loaded EXCEPT ![t] = C[Cell(t)]]
          /\ pc' = [pc EXCEPT ![t] = "store"]
          /\ UNCHANGED program
     ELSE program' = "corrupt" /\ UNCHANGED <<loaded, pc>>
  /\ UNCHANGED <<arguments, round, columns, col, row, indx, C>>

\* The two inner loops.
Advance(t) ==
  LET u == Own(t)
      rowEnds == indx[u] + 1 >= matrix_size
      colEnds == rowEnds /\ row[u] + 1 >= matrix_size
  IN  /\ indx' = [indx EXCEPT ![u] = IF rowEnds THEN 0 ELSE @ + 1]
      /\ row' = [row EXCEPT ![u] = IF rowEnds THEN @ + 1 ELSE @]
      /\ pc' = [pc EXCEPT ![t] = IF colEnds THEN "next" ELSE "load"]

\* ...and a store.
Store(t) ==
  /\ At(t, "store")
  /\ C' = [C EXCEPT ![Cell(t)] = [loaded[t] EXCEPT ![indx[Own(t)]] = @ + 1]]
  /\ Advance(t)
  /\ UNCHANGED <<program, arguments, round, columns, col, loaded>>

\* The head of the loop over the multiplications. The threads meet at the end
\* of each; nothing clears C before the next.
Repeat ==
  /\ program = "multiply" /\ columns = {} /\ \A t \in Threads : pc[t] = "next"
  /\ IF round = iterations
     THEN program' = "done" /\ UNCHANGED <<round, columns>>
     ELSE round' = round + 1 /\ columns' = Range /\ UNCHANGED program
  /\ UNCHANGED <<arguments, pc, col, row, indx, loaded, C>>

Next == Start \/ (\E t \in Threads : Take(t) \/ Load(t) \/ Store(t)) \/ Repeat

Spec == Init /\ [][Next]_vars

-----------------------------------------------------------------------------
\* What the serial loop over col, row and index computes from zeroes: every
\* product has been added to its cell once.
D == [c \in 0 .. squared_size - 1 |-> [k \in Range |-> 1]]

\* "verify that the parallel computation gives identical results to the serial
\* computation", as assert( C[index] == D[index] ) does before the program ends,
\* whatever number of multiplications it is told to do.
IdenticalToSerial == program = "done" => C = D

\* dense_mm.c and parallel_dense_mm.c, which multiply once, and the benchmark
\* that is told to: however the threads share the columns, the product is the
\* one of the serial computation, in all its matrix_size * matrix_size cells.
\* And no index is beyond the matrices, however often they are multiplied, unless
\* the size is the one whose square is 0.
ProductRight ==
  /\ program = "done" /\ iterations = 1 =>
       C = D /\ squared_size = matrix_size * matrix_size
  /\ program = "corrupt" => matrix_size = sqrt_of_UINT32_MAX
=============================================================================
