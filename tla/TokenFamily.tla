---------------------------- MODULE TokenFamily ----------------------------
(***************************************************************************)
(* What rotating refresh tokens promise: a family of tokens starts with    *)
(* one token, is continued by exchanging its only live token for one that  *)
(* was never handed out before, and once closed stays closed.  How logins, *)
(* refreshes and revocations interleave is no part of the promise.         *)
(***************************************************************************)

CONSTANT Tokens  \* a family is named by the token it starts with

VARIABLES live,   \* the tokens of each family that still work
          issued  \* every token ever handed out

Init == \E F \in SUBSET Tokens :
          /\ issued = F
          /\ live = [f \in Tokens |-> IF f \in F THEN {f} ELSE {}]

Open(f) == /\ f \notin issued
           /\ live' = [live EXCEPT ![f] = {f}]
           /\ issued' = issued \cup {f}

Exchange(f, s, t) == /\ live[f] = {s}
                     /\ t \notin issued
                     /\ live' = [live EXCEPT ![f] = {t}]
                     /\ issued' = issued \cup {t}

Close(F) == /\ live' = [f \in Tokens |-> IF f \in F THEN {} ELSE live[f]]
            /\ UNCHANGED issued

Next == \/ \E f \in Tokens : Open(f) \/ \E s, t \in Tokens : Exchange(f, s, t)
        \/ \E F \in SUBSET Tokens : Close(F)

Spec == Init /\ [][Next]_<<live, issued>>
=============================================================================
