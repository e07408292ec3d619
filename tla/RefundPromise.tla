--------------------------- MODULE RefundPromise ---------------------------
(***************************************************************************)
(* What an administrator's refunds promise.  Each is written down before   *)
(* Stripe is asked for it, Stripe makes it once for as long as it          *)
(* remembers the key it is asked with, and the refund it made, no other,   *)
(* is recorded against it, once.  Refunds may also be made elsewhere.      *)
(***************************************************************************)
CONSTANTS Keys, Refunds, Dashboard, None

VARIABLES asked,     \* the refunds written down
          made,      \* for which of them Stripe made a refund
          kept,      \* the keys Stripe remembers
          recorded   \* the refund recorded against each

vars == <<asked, made, kept, recorded>>

Init ==
  /\ asked = {} /\ kept = {}
  /\ made = [r \in Refunds |-> None]
  /\ recorded = [k \in Keys |-> None]

Ask(k) ==
  /\ asked' = asked \cup {k}
  /\ UNCHANGED <<made, kept, recorded>>

Refund(k, r) ==
  /\ k \in asked \ kept /\ made[r] = None
  /\ made' = [made EXCEPT ![r] = k]
  /\ kept' = kept \cup {k}
  /\ UNCHANGED <<asked, recorded>>

Elsewhere(r) ==
  /\ made[r] = None
  /\ made' = [made EXCEPT ![r] = Dashboard]
  /\ UNCHANGED <<asked, kept, recorded>>

Forget(k) ==
  /\ kept' = kept \ {k}
  /\ UNCHANGED <<asked, made, recorded>>

Record(k, r) ==
  /\ made[r] = k /\ recorded[k] = None
  /\ recorded' = [recorded EXCEPT ![k] = r]
  /\ UNCHANGED <<asked, made, kept>>

Next == \/ \E k \in Keys : Ask(k) \/ Forget(k)
        \/ \E r \in Refunds : Elsewhere(r)
        \/ \E k \in Keys, r \in Refunds : Refund(k, r) \/ Record(k, r)

Spec == Init /\ [][Next]_vars
=============================================================================
