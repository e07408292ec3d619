-------------------------- MODULE MCAdminCommands --------------------------
(***************************************************************************)
(* Three calls of two administrators with one key at two processes, on     *)
(* two resources nobody is assigned to.                                    *)
(***************************************************************************)
EXTENDS AdminCommands, TLC

Interchangeable == Permutations(Calls) \cup Permutations(Procs)
                     \cup Permutations(Resources)
=============================================================================
