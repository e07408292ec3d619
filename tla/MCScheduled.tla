---------------------------- MODULE MCScheduled ----------------------------
(***************************************************************************)
(* Up to three cron runs, one cancel request of the consumer and up to two *)
(* administrators on one scheduled conversion: rows never interact.        *)
(***************************************************************************)
EXTENDS ScheduledConversion, TLC

Interchangeable == Permutations(Workers) \cup Permutations(Cancels) \cup Permutations(Admins)
                     \cup Permutations(Conversions)
=============================================================================
