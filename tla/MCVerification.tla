--------------------------- MODULE MCVerification ---------------------------
(***************************************************************************)
(* Two starts, a decision and two events on one consumer.                  *)
(***************************************************************************)
EXTENDS Verification
=============================================================================
