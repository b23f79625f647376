------------------------------ MODULE SieveMC ------------------------------
(***************************************************************************)
(* The parameters Sieve is checked with: the ones simple_init rejects, one *)
(* and two kthreads over every small array (9 is the first upper bound at  *)
(* which Sundaram crosses anything out, and 4 for Eratosthenes), and three *)
(* kthreads over a short one.                                              *)
(***************************************************************************)
EXTENDS Sieve

InsmodParameters ==
  ((0 .. 2) \X (0 .. 10)) \cup {<<1, 27>>, <<3, 4>>}

\* The shortest arrays over which two kthreads can already go wrong.
TwoKthreads == {2} \X {9, 10}

=============================================================================
