--------------------------- MODULE PaymentPromise ---------------------------
(***************************************************************************)
(* What a card payment promises the two parties of a payment request: once *)
(* sent it stays payable, whatever Stripe collected stays collected, the   *)
(* request is completed only when Stripe has collected a charge for it,    *)
(* and then for good.  How the program finds out that Stripe collected is  *)
(* no part of the promise.                                                 *)
(***************************************************************************)

CONSTANT Charges  \* what Stripe may collect for the request

VARIABLES status,    \* of the payment request
          collected  \* the charges Stripe has collected

Init == status = "DRAFT" /\ collected = {}

Send == status = "DRAFT" /\ status' = "PENDING" /\ UNCHANGED collected

Collect(c) == /\ status # "DRAFT"
              /\ c \notin collected
              /\ collected' = collected \cup {c}
              /\ UNCHANGED status

Complete == /\ status = "PENDING"
            /\ collected # {}
            /\ status' = "COMPLETED"
            /\ UNCHANGED collected

Next == Send \/ Complete \/ \E c \in Charges : Collect(c)

Spec == Init /\ [][Next]_<<status, collected>>
=============================================================================
