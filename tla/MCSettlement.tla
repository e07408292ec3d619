---------------------------- MODULE MCSettlement ----------------------------
(***************************************************************************)
(* Two tabs with a checkout session and a saved method: three calls.  One  *)
(* session a run stands for the scheduler's fifty.                         *)
(***************************************************************************)
EXTENDS CardSettlement, TLC

\* Calls of one kind are interchangeable.
CallSymmetry == Permutations(Checkouts) \cup Permutations(SavedPays)
=============================================================================
