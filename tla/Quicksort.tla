------------------------------ MODULE Quicksort ------------------------------
(***************************************************************************)
(* sort.c of studio15: a randomized quicksort of an array of doubles.      *)
(*                                                                         *)
(* main passes the size of the array where the index of its last element   *)
(* is due, so that the cell behind the array is sorted with it.  Whatever  *)
(* moves through swap's temporary or is a pivot loses its fraction: rand   *)
(* fills the array with whole numbers, but not that cell, which is taken to *)
(* hold a number that an unsigned can hold, up to its fraction.            *)
(***************************************************************************)
EXTENDS Integers, FiniteSets

CONSTANTS Sizes,   \* arguments of the program
          Values   \* what a cell may hold, in halves

SizesAssumption == Sizes \subseteq Nat
ValuesAssumption == Values \subseteq Nat /\ 0 \in Values

\* What is assumed of the constants.
ConstantsOK == SizesAssumption /\ ValuesAssumption

VARIABLES
  at,         \* "generate", "quicksort", "partition", "done"
  array_size,
  A,          \* the array, and the cell behind it
  todo,       \* <<start, end>> of the calls of quicksort that are due
  slice,      \* start and end of the one that is being partitioned
  pivot_val,
  target,
  index,
  given       \* history: A as it was generated

vars == <<at, array_size, A, todo, slice, pivot_val, target, index, given>>

Cells == 0 .. array_size
start == slice[1]
end == slice[2]

\* (unsigned) of a double.
Whole(v) == v - (v % 2)

Init ==
  /\ at = "generate"
  /\ array_size = 0
  /\ A = [c \in Cells |-> 0] /\ given = A
  /\ todo = {} /\ slice = <<0, 0>>
  /\ pivot_val = 0 /\ target = 0 /\ index = 0

-----------------------------------------------------------------------------
\* malloc and rand, and the call of quicksort.  The cell behind the array is
\* the allocator's.
Generate ==
  /\ at = "generate"
  /\ array_size' \in Sizes
  /\ A' \in [Cells' -> Values]
  /\ \A c \in 0 .. array_size' - 1 : A'[c] = Whole(A'[c])
  /\ given' = A'
  /\ todo' = {<<0, array_size'>>}
  /\ at' = "quicksort"
  /\ UNCHANGED <<slice, pivot_val, target, index>>

\* Mutant: *a = *b comes first, without the temporary.
Copied(a, b) == [A EXCEPT ![a] = A[b], ![b] = A[b]]
Swapped(a, b) == [A EXCEPT ![a] = A[b], ![b] = Whole(A[a])]

\* quicksort sorts what is left of a pivot before what is right of it: the call
\* that comes next is the leftmost.
Leftmost(s) == s \in todo /\ \A t \in todo : s[1] <= t[1]

Trivial ==
  /\ at = "quicksort"
  /\ \E s \in todo : Leftmost(s) /\ s[1] >= s[2] /\ todo' = todo \ {s}
  /\ UNCHANGED <<at, array_size, A, slice, pivot_val, target, index, given>>

\* The pivot is any element but the last.  It is put there.
Select ==
  /\ at = "quicksort"
  /\ \E s \in todo : /\ Leftmost(s) /\ s[1] < s[2]
                     /\ slice' = s
                     /\ todo' = todo \ {s}
                     /\ \E pivot \in s[1] .. s[2] - 1 : A' = Swapped(pivot, s[2])
                     /\ target' = s[1] /\ index' = s[1]
                     /\ pivot_val' = Whole(A'[s[2]])
  /\ at' = "partition"
  /\ UNCHANGED <<array_size, given>>

\* Mutant: the last element before the pivot is not looked at.
LookingButLast == index < end - 1
Looking == index < end

Walk ==
  /\ at = "partition" /\ Looking
  /\ IF A[index] <= pivot_val
     THEN A' = Swapped(target, index) /\ target' = target + 1
     ELSE UNCHANGED <<A, target>>
  /\ index' = index + 1
  /\ UNCHANGED <<at, array_size, todo, slice, pivot_val, given>>

\* The pivot goes between the two parts, and quicksort is called for each that
\* is not empty.
Place ==
  /\ at = "partition" /\ ~Looking
  /\ A' = Swapped(target, end)
  /\ todo' = todo \cup (IF target > start THEN {<<start, target - 1>>} ELSE {})
                  \cup (IF target < end THEN {<<target + 1, end>>} ELSE {})
  /\ at' = "quicksort"
  /\ UNCHANGED <<array_size, slice, pivot_val, target, index, given>>

Return ==
  /\ at = "quicksort" /\ todo = {}
  /\ at' = "done"
  /\ UNCHANGED <<array_size, A, todo, slice, pivot_val, target, index, given>>

Next == Generate \/ Trivial \/ Select \/ Walk \/ Place \/ Return

Spec == Init /\ [][Next]_vars

-----------------------------------------------------------------------------
\* Whatever pivots rand picks, the program ends with every cell in order, the
\* one behind the array included.
Sorted == at = "done" => \A c, d \in Cells : c <= d => A[c] <= A[d]

Count(f, v) == Cardinality({c \in Cells : Whole(f[c]) = v})

\* It moves numbers and neither loses nor doubles any, but for fractions: the
\* array may end up without its greatest number and with what was behind it.
SameNumbers == \A v \in Values : Count(A, v) = Count(given, v)
=============================================================================
