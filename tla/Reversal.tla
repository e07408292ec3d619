------------------------------ MODULE Reversal ------------------------------
(***************************************************************************)
(* The reversals of one payment request that was paid by card.             *)
(* Administrators book refunds and chargebacks; a refund is booked with a  *)
(* row of the notification outbox, then made at Stripe and recorded, by    *)
(* the request itself and, from the row, by a scheduler's runs.  Stripe's  *)
(* webhooks book refunds and lost disputes on their own, and update the    *)
(* status of what they booked.                                             *)
(*                                                                         *)
(* A booking is the payer's entry and the requester's, which are always    *)
(* written together.  What runLedgerMutation runs is SERIALIZABLE, so it   *)
(* is one step; it may also fail.  A unique violation that is caught       *)
(* inside it does not help: PostgreSQL refuses the statements after it.    *)
(***************************************************************************)
EXTENDS Integers, FiniteSets, Functions

CONSTANTS Amount,      \* of the payment request
          Reasons,     \* the reasons administrators give
          Calls,       \* administrators' requests
          Workers,     \* runs of the outbox scheduler, of any instance
          Refunds,     \* bound: the refunds Stripe may make of the charge
          Disputes,    \* disputes of the charge
          MaxAttempts, \* attempts before a row is DEAD (5 in the code)
          MaxMishaps,  \* bound: crashes, runs outlived by their claim, forgotten keys, disputes,
                       \* refunds that come from the dashboard, are slow or fail
          Dashboard,   \* "made for": a refund made in Stripe's dashboard
          None

RefundKeys == [kind : {"REFUND"}, amount : 1..Amount, reason : Reasons]
Chargebacks == [kind : {"CHARGEBACK"}, amount : 1..Amount, reason : Reasons]

\* The idempotencyKey of a booking: an administrator's is the hash of what was asked,
\* the webhook's the refund or the dispute.
Bookings == RefundKeys \cup Chargebacks \cup Refunds \cup Disputes
Processes == Calls \cup Workers

ASSUME AmountAssumption == Amount \in Nat \ {0}
ASSUME BoundsAssumption == MaxAttempts \in Nat \ {0} /\ MaxMishaps \in Nat
ASSUME DisjointAssumption ==
  /\ Calls \cap Workers = {}
  /\ Refunds \cap (RefundKeys \cup Chargebacks \cup Disputes) = {}
  /\ Disputes \cap (RefundKeys \cup Chargebacks) = {}
  /\ None \notin Refunds \cup RefundKeys \cup Workers \cup {Dashboard}
  /\ Dashboard \notin RefundKeys

VARIABLES
  settled,   \* the settlement of the payment is recorded
  booked,    \* amount of each booking, 0 where there is none
  status,    \* a booking's effective status: of its latest outcome
  denied,    \* refunds that have the outcome "admin-refund:...:failed"
  updated,   \* the outcomes "refund-update:..." of each of the webhook's bookings
  recorded,  \* the external reference of a refund: the refund Stripe made
  row, token, attempts,  \* the outbox row of a refund
  at, job, got,          \* where a process is, its refund, what Stripe answered
  batch,     \* rows a run has claimed and not come to
  made, paid, had,       \* Stripe's refunds: for whom, how much, the statuses so far
  kept,      \* the refund stored under each idempotency key at Stripe
  dispute,   \* where each dispute is
  mishaps

ledger  == <<booked, status, denied, updated, recorded>>
outbox  == <<row, token, attempts>>
procs   == <<at, job, got, batch>>
stripe  == <<made, paid, had, kept>>
others  == <<settled, dispute, mishaps>>
vars    == <<ledger, outbox, procs, stripe, others>>

Mishap == mishaps < MaxMishaps /\ mishaps' = mishaps + 1

\* A refund succeeds at once, or takes days.
Born(r) ==
  \/ had' = [had EXCEPT ![r] = {"succeeded"}] /\ UNCHANGED mishaps
  \/ had' = [had EXCEPT ![r] = {"pending"}] /\ Mishap

Stages == {"idle", "create", "finalize", "mark", "deny", "kill", "fail", "done"}

TypeOK ==
  /\ settled \in BOOLEAN
  /\ booked \in [Bookings -> 0..Amount]
  /\ status \in [Bookings -> {"none", "PENDING", "COMPLETED", "DENIED"}]
  /\ denied \subseteq RefundKeys
  /\ updated \in [Refunds -> SUBSET {"pending", "succeeded", "failed"}]
  /\ recorded \in [RefundKeys -> Refunds \cup {None}]
  /\ row \in [RefundKeys -> {"none", "PENDING", "PROCESSING", "FAILED", "SENT", "DEAD"}]
  /\ token \in [RefundKeys -> Workers \cup {None}]
  /\ attempts \in [RefundKeys -> Nat]
  /\ at \in [Processes -> Stages]
  /\ job \in [Processes -> RefundKeys \cup {None}]
  /\ got \in [Processes -> Refunds \cup {None}]
  /\ batch \in [Workers -> SUBSET RefundKeys]
  /\ made \in [Refunds -> RefundKeys \cup {Dashboard, None}]
  /\ paid \in [Refunds -> 0..Amount]
  /\ had \in [Refunds -> SUBSET {"pending", "succeeded", "failed"}]
  /\ kept \in [RefundKeys -> Refunds \cup {None}]
  /\ dispute \in [Disputes -> {"none", "lost", "checked", "done"}]
  /\ mishaps \in 0..MaxMishaps

Init ==
  /\ settled = FALSE
  /\ booked = [b \in Bookings |-> 0] /\ status = [b \in Bookings |-> "none"]
  /\ denied = {} /\ updated = [r \in Refunds |-> {}]
  /\ recorded = [k \in RefundKeys |-> None]
  /\ row = [k \in RefundKeys |-> "none"] /\ token = [k \in RefundKeys |-> None]
  /\ attempts = [k \in RefundKeys |-> 0]
  /\ at = [p \in Processes |-> "idle"]
  /\ job = [p \in Processes |-> None] /\ got = [p \in Processes |-> None]
  /\ batch = [w \in Workers |-> {}]
  /\ made = [r \in Refunds |-> None] /\ paid = [r \in Refunds |-> 0]
  /\ had = [r \in Refunds |-> {}]
  /\ kept = [k \in RefundKeys |-> None]
  /\ dispute = [d \in Disputes |-> "none"]
  /\ mishaps = 0

----------------------------------------------------------------------------
\* The amounts booked.

\* Fault: bookings whose refund is not known to have succeeded are not counted.
CountedCompleted == {"COMPLETED"}

Counted == {"PENDING", "COMPLETED"}

\* calculateAlreadyReversedDecimalAmount
Reversed ==
  FoldFunctionOnSet(LAMBDA x, y : x + y, 0, booked, {b \in Bookings : status[b] \in Counted})

Remaining == Amount - Reversed

Book(b, amount, as) ==
  /\ booked' = [booked EXCEPT ![b] = amount]
  /\ status' = [status EXCEPT ![b] = as]

\* capExternalReversalAmount, for a booking that is not there yet
BookCapped(b, amount) ==
  \E x \in 1..amount : /\ x = IF amount < Remaining THEN amount ELSE Remaining
                       /\ Book(b, x, "COMPLETED")

----------------------------------------------------------------------------
\* Administrators.

Goto(p, stage) == at' = [at EXCEPT ![p] = stage]

\* The row is added with skipDuplicates, by the transaction that books and once more
\* by the request before it calls Stripe.
Queue(k) == row' = [row EXCEPT ![k] = IF @ = "none" THEN "PENDING" ELSE @]

\* executeReversal, for a refund.  A request that names no amount asks for the rest, or
\* where there is none for all of it: an amount like any other.
BookRefund(c, k) ==
  /\ c \in Calls /\ at[c] = "idle" /\ settled
  /\ booked[k] = 0 /\ k.amount <= Remaining
  /\ Book(k, k.amount, "PENDING")
  /\ Queue(k)
  /\ Goto(c, "create") /\ job' = [job EXCEPT ![c] = k]
  /\ UNCHANGED <<denied, updated, recorded, token, attempts, got, batch, stripe, others>>

RepeatRefund(c, k) ==
  /\ c \in Calls /\ at[c] = "idle" /\ settled
  /\ booked[k] # 0
  /\ IF status[k] = "COMPLETED"
     THEN Goto(c, "done") /\ UNCHANGED <<row, job>>
     ELSE Queue(k) /\ Goto(c, "create") /\ job' = [job EXCEPT ![c] = k]
  /\ UNCHANGED <<ledger, token, attempts, got, batch, stripe, others>>

\* executeReversal, for a chargeback.  The requester's balance may not suffice: then, as
\* on any other refusal, nothing is done.
BookChargeback(c, k) ==
  /\ c \in Calls /\ at[c] = "idle" /\ settled
  /\ booked[k] = 0 /\ k.amount <= Remaining
  /\ Book(k, k.amount, "COMPLETED")
  /\ Goto(c, "done")
  /\ UNCHANGED <<denied, updated, recorded, outbox, job, got, batch, stripe, others>>

----------------------------------------------------------------------------
\* finalizePayload, of a request or of a run.

\* What Stripe still lets be refunded.
Refundable == Amount - FoldFunctionOnSet(LAMBDA x, y : x + y, 0, paid,
                                         {r \in Refunds : "failed" \notin had[r]})

\* Fault: the key leaves out the amount.
KeyByReason(k) == [k EXCEPT !.amount = 1]

\* "refund:<idempotencyKeyBase>"
StripeKey(k) == k

\* Fault: the error of the Stripe call is swallowed.
Swallowed(p) == IF p \in Calls THEN "deny" ELSE "mark"

\* A request goes on to deny the booking, a run does not.
OnError(p) == IF p \in Calls THEN "deny" ELSE "fail"

\* refunds.create makes the refund, or gives back the one it made for this key.
Create(p) ==
  /\ at[p] = "create"
  /\ \E r \in Refunds :
       /\ \/ kept[StripeKey(job[p])] = r /\ UNCHANGED <<stripe, mishaps>>
          \/ /\ kept[StripeKey(job[p])] = None /\ made[r] = None /\ job[p].amount <= Refundable
             /\ made' = [made EXCEPT ![r] = job[p]]
             /\ paid' = [paid EXCEPT ![r] = job[p].amount]
             /\ Born(r)
             /\ kept' = [kept EXCEPT ![StripeKey(job[p])] = r]
       /\ \/ Goto(p, "finalize") /\ got' = [got EXCEPT ![p] = r]
          \/ Goto(p, OnError(p)) /\ UNCHANGED got
  /\ UNCHANGED <<ledger, outbox, job, batch, settled, dispute>>

\* Stripe refuses, or is not reached.
CreateFails(p) ==
  /\ at[p] = "create"
  /\ Goto(p, OnError(p))
  /\ UNCHANGED <<ledger, outbox, job, got, batch, stripe, others>>

\* markRefundReversalDenied.  The second time the outcome is there: the transaction
\* fails at the requester's entry, or has no effect if there is only the payer's.
Deny(c) ==
  /\ at[c] = "deny"
  /\ \/ /\ job[c] \notin denied
        /\ denied' = denied \cup {job[c]}
        /\ status' = [status EXCEPT ![job[c]] = "DENIED"]
        /\ Goto(c, "kill")
     \/ /\ job[c] \in denied
        /\ Goto(c, "kill") /\ UNCHANGED <<denied, status>>
     \/ Goto(c, "fail") /\ UNCHANGED <<denied, status>>
  /\ UNCHANGED <<booked, updated, recorded, outbox, job, got, batch, stripe, others>>

\* markDeadByIdempotencyKey
Kill(c) ==
  /\ at[c] = "kill"
  /\ IF row[job[c]] \in {"SENT", "DEAD"}
     THEN UNCHANGED <<row, token>>
     ELSE /\ row' = [row EXCEPT ![job[c]] = "DEAD"]
          /\ token' = [token EXCEPT ![job[c]] = None]
  /\ Goto(c, "fail")
  /\ UNCHANGED <<ledger, attempts, job, got, batch, stripe, others>>

\* The status Stripe answered with is that of the refund's creation.
CreatedAs(r) == IF "pending" \in had[r] THEN "PENDING" ELSE "COMPLETED"

\* Fault: the reference of a refund that has one is overwritten.
Overwritable(k) == TRUE

\* ledgerEntryExternalRefModel is unique per entry and source.
Unrecorded(k) == recorded[k] = None

\* finalizeRefundReversal, twice if it fails.
Finalize(p) ==
  /\ at[p] = "finalize"
  /\ \/ /\ Unrecorded(job[p])
        /\ recorded' = [recorded EXCEPT ![job[p]] = got[p]]
        /\ status' = [status EXCEPT ![job[p]] = CreatedAs(got[p])]
        /\ Goto(p, "mark")
     \/ Goto(p, "fail") /\ UNCHANGED <<recorded, status>>
  /\ UNCHANGED <<booked, denied, updated, outbox, job, got, batch, stripe, others>>

----------------------------------------------------------------------------
\* The row's marks.  A request finds the row by its key, whoever has claimed it; a run
\* by its own claim.

Rest(p) ==
  /\ Goto(p, IF p \in Calls THEN "done" ELSE "idle")
  /\ job' = [job EXCEPT ![p] = None] /\ got' = [got EXCEPT ![p] = None]

MarkRow(k, as) ==
  /\ row' = [row EXCEPT ![k] = as]
  /\ token' = [token EXCEPT ![k] = None]

Sendable(p) == IF p \in Calls THEN row[job[p]] # "DEAD"
               ELSE row[job[p]] = "PROCESSING" /\ token[job[p]] = p

\* markSentByIdempotencyKey, markSent; writing the audit of a repeated refund, before
\* it, or the mark itself may fail.
MarkSent(p) ==
  /\ at[p] = "mark"
  /\ \/ /\ IF Sendable(p) THEN MarkRow(job[p], "SENT") ELSE UNCHANGED <<row, token>>
        /\ Rest(p)
     \/ Goto(p, "fail") /\ UNCHANGED <<row, token, job, got>>
  /\ UNCHANGED <<ledger, attempts, batch, stripe, others>>

Failable(p) == IF p \in Calls THEN row[job[p]] \notin {"SENT", "DEAD"}
               ELSE row[job[p]] = "PROCESSING" /\ token[job[p]] = p

\* markFailedByIdempotencyKey, markFailed
MarkFailed(p) ==
  /\ at[p] = "fail"
  /\ IF Failable(p)
     THEN MarkRow(job[p], IF p \in Workers /\ attempts[job[p]] >= MaxAttempts
                          THEN "DEAD" ELSE "FAILED")
     ELSE UNCHANGED <<row, token>>
  /\ Rest(p)
  /\ UNCHANGED <<ledger, attempts, batch, stripe, others>>

----------------------------------------------------------------------------
\* The scheduler.

\* A run is still at work on a row it claimed.
Held(k) == \E w \in Workers : token[k] = w /\ (k \in batch[w] \/ job[w] = k)

\* Fault: rows that are PROCESSING are left alone.
DueUnclaimed == {k \in RefundKeys : row[k] \in {"PENDING", "FAILED"}}

\* claimDueRows, and ten minutes later of rows that are still PROCESSING.
Due == {k \in RefundKeys : row[k] \in {"PENDING", "FAILED", "PROCESSING"}}

Claim(w, ks) ==
  /\ at[w] = "idle" /\ batch[w] = {}
  /\ ks # {} /\ ks \subseteq Due
  /\ IF \E k \in ks : Held(k)
     THEN Mishap
     ELSE UNCHANGED mishaps
  /\ row' = [k \in RefundKeys |-> IF k \in ks THEN "PROCESSING" ELSE row[k]]
  /\ token' = [k \in RefundKeys |-> IF k \in ks THEN w ELSE token[k]]
  /\ attempts' = [k \in RefundKeys |-> IF k \in ks THEN attempts[k] + 1 ELSE attempts[k]]
  /\ batch' = [batch EXCEPT ![w] = ks]
  /\ UNCHANGED <<ledger, at, job, got, stripe, settled, dispute>>

\* processDueRows comes to the next row.
TakeRow(w, k) ==
  /\ at[w] = "idle" /\ k \in batch[w]
  /\ batch' = [batch EXCEPT ![w] = @ \ {k}]
  /\ job' = [job EXCEPT ![w] = k]
  /\ Goto(w, "create")
  /\ UNCHANGED <<ledger, outbox, got, stripe, others>>

\* The process ends, or the database is not reached when a failure is to be marked.
Crash(p) ==
  /\ Mishap
  /\ at[p] \notin {"idle", "done"} \/ (p \in Workers /\ batch[p] # {})
  /\ Rest(p)
  /\ batch' = [w \in Workers |-> IF w = p THEN {} ELSE batch[w]]
  /\ UNCHANGED <<ledger, outbox, stripe, settled, dispute>>

----------------------------------------------------------------------------
\* Stripe and its webhooks.

\* finalizeCheckoutSettlement, markSavedMethodPaymentCompleted: from here on the payment
\* intent leads to the request, and the request may be reversed.
Settle ==
  /\ ~ settled /\ settled' = TRUE
  /\ UNCHANGED <<ledger, outbox, procs, stripe, dispute, mishaps>>

RefundElsewhere(r, amount) ==
  /\ Mishap
  /\ made[r] = None /\ amount <= Refundable
  /\ made' = [made EXCEPT ![r] = Dashboard]
  /\ paid' = [paid EXCEPT ![r] = amount]
  /\ had' = [had EXCEPT ![r] = {"succeeded"}]
  /\ UNCHANGED <<ledger, outbox, procs, kept, settled, dispute>>

\* A refund succeeds, or fails, which it may also after it succeeded.
RefundMoves(r, s) ==
  /\ had[r] # {} /\ "failed" \notin had[r]
  /\ s \in {"succeeded", "failed"} \ had[r]
  /\ had' = [had EXCEPT ![r] = @ \cup {s}]
  /\ IF s = "failed" THEN Mishap ELSE UNCHANGED mishaps
  /\ UNCHANGED <<ledger, outbox, procs, made, paid, kept, settled, dispute>>

\* Stripe removes an idempotency key after a day.
ForgetKey(k) ==
  /\ Mishap
  /\ kept[k] # None /\ kept' = [kept EXCEPT ![k] = None]
  /\ UNCHANGED <<ledger, outbox, procs, made, paid, had, settled, dispute>>

\* handleChargeRefunded, for one of the refunds it lists.  The event shows the refund as
\* it was.  Before the settlement it finds no request, and later no amount that is left:
\* then it is acknowledged and nothing is done.
ChargeRefunded(r) ==
  /\ settled /\ "succeeded" \in had[r] /\ booked[r] = 0
  /\ BookCapped(r, paid[r])
  /\ UNCHANGED <<denied, updated, recorded, outbox, procs, stripe, others>>

\* Fault: Stripe's word for it is written.
StatusAsTold(s) == s

StatusOf(s) == CASE s = "succeeded" -> "COMPLETED" [] s = "failed" -> "DENIED"
                 [] OTHER -> "PENDING"

\* handleRefundUpdated.  Only the webhook's bookings carry the refund as their stripeId.
\* Once an outcome is there the transaction has no effect, or fails.
RefundUpdated(r, s) ==
  /\ s \in had[r] /\ booked[r] # 0 /\ s \notin updated[r]
  /\ status' = [status EXCEPT ![r] = StatusOf(s)]
  /\ updated' = [updated EXCEPT ![r] = @ \cup {s}]
  /\ UNCHANGED <<booked, denied, recorded, outbox, procs, stripe, others>>

LoseDispute(d) ==
  /\ Mishap
  /\ dispute[d] = "none" /\ dispute' = [dispute EXCEPT ![d] = "lost"]
  /\ UNCHANGED <<ledger, outbox, procs, stripe, settled>>

\* handleChargeDispute looks for a manual chargeback before the transaction that books.
CheckDispute(d) ==
  /\ settled /\ dispute[d] = "lost"
  /\ dispute' = [dispute EXCEPT ![d] = IF \E k \in Chargebacks : booked[k] # 0
                                       THEN "done" ELSE "checked"]
  /\ UNCHANGED <<ledger, outbox, procs, stripe, settled, mishaps>>

BookDispute(d, amount) ==
  /\ dispute[d] = "checked"
  /\ dispute' = [dispute EXCEPT ![d] = "done"]
  /\ BookCapped(d, amount)
  /\ UNCHANGED <<denied, updated, recorded, outbox, procs, stripe, settled, mishaps>>

\* Nothing is left to book, or the requester's balance does not suffice, which is
\* answered 503, so that Stripe sends the event again.
DisputeUnbooked(d) ==
  /\ dispute[d] = "checked"
  /\ dispute' = [dispute EXCEPT ![d] = IF Remaining <= 0 THEN "done" ELSE "lost"]
  /\ UNCHANGED <<ledger, outbox, procs, stripe, settled, mishaps>>

----------------------------------------------------------------------------
Work(p) == Create(p) \/ CreateFails(p) \/ Finalize(p) \/ MarkSent(p) \/ MarkFailed(p)
             \/ (p \in Calls /\ (Deny(p) \/ Kill(p)))

Run(w) == Work(w) \/ (\E ks \in SUBSET RefundKeys : Claim(w, ks))
            \/ (\E k \in RefundKeys : TakeRow(w, k))

Administrators ==
  \E c \in Calls : \/ Work(c)
                   \/ \E k \in RefundKeys : BookRefund(c, k) \/ RepeatRefund(c, k)
                   \/ \E k \in Chargebacks : BookChargeback(c, k)

Webhooks ==
  \/ \E r \in Refunds : ChargeRefunded(r)
                          \/ \E s \in {"pending", "succeeded", "failed"} : RefundUpdated(r, s)
  \/ \E d \in Disputes : CheckDispute(d) \/ DisputeUnbooked(d)
                           \/ \E a \in 1..Amount : BookDispute(d, a)

Provider ==
  \/ Settle
  \/ \E r \in Refunds : \/ \E a \in 1..Amount : RefundElsewhere(r, a)
                        \/ \E s \in {"succeeded", "failed"} : RefundMoves(r, s)
  \/ \E k \in RefundKeys : ForgetKey(k)
  \/ \E d \in Disputes : LoseDispute(d)

Next == Administrators \/ Webhooks \/ Provider
          \/ (\E w \in Workers : Run(w)) \/ (\E p \in Processes : Crash(p))

\* The scheduler runs every five minutes, and what has begun goes on unless it crashes.
Fairness == /\ \A w \in Workers : WF_vars(Run(w))
            /\ \A c \in Calls : WF_vars(Work(c))

Spec == Init /\ [][Next]_vars /\ Fairness

----------------------------------------------------------------------------
\* A refund that an administrator booked and that reads COMPLETED was made at Stripe, for
\* this booking and of its amount, and the booking names it: whoever finalized it, in
\* whatever order with the other processes and with Stripe's replies
\* (finalizePayload, finalizeRefundReversal).
CompletedIsRefunded ==
  \A k \in RefundKeys :
    status[k] = "COMPLETED" => \E r \in Refunds : /\ recorded[k] = r /\ made[r] = k
                                                  /\ paid[r] = booked[k]

\* A row reads SENT only once the refund is recorded: no process that gave up, lost its
\* claim or was told of an error by Stripe leaves behind a row nobody looks at any more
\* (processDueRows, finalizeIfNeeded).
SentIsRecorded ==
  \A k \in RefundKeys : row[k] = "SENT" => recorded[k] # None

\* What has not been denied.
Standing ==
  FoldFunctionOnSet(LAMBDA x, y : x + y, 0, booked, {b \in Bookings : status[b] # "DENIED"})

\* When a booking is added, what is reversed and what may still be does not exceed the
\* amount of the request, whoever adds it: administrators and webhooks take different
\* locks, and what they add up changes with every outcome
\* (calculateAlreadyReversedDecimalAmount).
NewBookingsFit ==
  [][booked' # booked => Standing' <= Amount]_vars

\* A row that is SENT or DEAD stays so, although requests and runs mark one row without
\* knowing of each other (the refund outbox repository).
RowsEndOnce ==
  [][\A k \in RefundKeys : row[k] \in {"SENT", "DEAD"} => row'[k] = row[k]]_vars

\* Every refund that was booked is worked on until its row is SENT or DEAD: a crash, a
\* lost mark and an error that repeats for ever included (claimDueRows, markFailed).
RowsEnd ==
  \A k \in RefundKeys : row[k] # "none" ~> row[k] \in {"SENT", "DEAD"}

\* RefundPromise, for the bookings and Stripe's refunds.
Promised == INSTANCE RefundPromise WITH
  Keys <- RefundKeys, asked <- {k \in RefundKeys : booked[k] # 0},
  kept <- {k \in RefundKeys : kept[k] # None}

\* Requests and runs implement RefundPromise: they never ask Stripe twice for one
\* booking unless Stripe has forgotten it, and record each refund against the booking it
\* was made for.
Promise == Promised!Spec

\* "external Stripe refund is treated as source of truth and internal reversal is
\* appended idempotently afterward" (docs/FINANCIAL_SAFETY_AND_DB_COMPLIANCE.md, line
\* 152): one refund at Stripe is one reversal in the ledger.
ReversedOncePerRefund ==
  \A k \in RefundKeys, r \in Refunds :
    ~ (recorded[k] = r /\ status[k] = "COMPLETED" /\ status[r] = "COMPLETED")
=============================================================================
