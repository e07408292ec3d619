----------------------------- MODULE DutyRoster -----------------------------
(***************************************************************************)
(* What the assignments promise the administrators: a resource has one     *)
(* owner or none; it is taken when it has none, and handed over without    *)
(* being without an owner in between.  Keys, retries, locks and crashes    *)
(* are no part of the promise.                                             *)
(***************************************************************************)
CONSTANTS Resources, Admins

VARIABLE owners  \* the administrators a resource is assigned to

Init == owners \in [Resources -> {{}} \cup {{a} : a \in Admins}]

Take(r, a) == /\ owners[r] = {}
              /\ owners' = [owners EXCEPT ![r] = {a}]

Leave(r) == /\ owners[r] # {}
            /\ owners' = [owners EXCEPT ![r] = {}]

HandOver(r, a) == /\ owners[r] # {}
                  /\ owners[r] # {a}
                  /\ owners' = [owners EXCEPT ![r] = {a}]

Next == \E r \in Resources :
          Leave(r) \/ \E a \in Admins : Take(r, a) \/ HandOver(r, a)

Spec == Init /\ [][Next]_owners
=============================================================================
