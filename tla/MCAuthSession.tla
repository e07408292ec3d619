--------------------------- MODULE MCAuthSession ---------------------------
(***************************************************************************)
(* One identity logged in on one device, three requests at a time.         *)
(***************************************************************************)
EXTENDS AuthSession, TLC

\* Requests, ids and tokens are interchangeable within their kind.
Interchangeable == Permutations(Requests) \cup Permutations(Ids)
                     \cup Permutations(Resets)
=============================================================================
