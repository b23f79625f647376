------------------------------ MODULE StudiosMC ------------------------------
(***************************************************************************)
(* The family Studios is checked with; its other parameters are numbers    *)
(* and sets, and are in Studios.cfg.                                       *)
(***************************************************************************)
EXTENDS Studios

\* init, a child of it, a child of swapper, and a grandchild.
SmallFamily == <<0, 0, 1, 3>>

=============================================================================
