----------------------------- MODULE MCReversal -----------------------------
(***************************************************************************)
(* A request of the amount 2 that is reversed in parts.                    *)
(***************************************************************************)
EXTENDS Reversal, TLC

\* Calls are interchangeable, and so are Stripe's refunds.
ReversalSymmetry == Permutations(Calls) \cup Permutations(Refunds)
=============================================================================
