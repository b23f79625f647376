------------------------------ MODULE PagingMC ------------------------------
(***************************************************************************)
(* Paging with small sets: threads are interchangeable, and so are pages.  *)
(***************************************************************************)
EXTENDS Paging, TLC

Symmetry == Permutations(Threads) \cup Permutations(Pages)

=============================================================================
