--------------------------- MODULE Reversal_proofs ---------------------------
(***************************************************************************)
(* Proofs about the reversals, for any number of requests, runs, refunds,  *)
(* disputes and mishaps, and any amounts.  What the sums of the ledger     *)
(* come to matters in the last section only: before it they may be any     *)
(* value at all.                                                           *)
(***************************************************************************)
EXTENDS Reversal, FiniteSetTheorems, TLAPS

\* The bookings of refunds, their rows and what Stripe keeps of them.
LedgerHolds ==
  \A k \in RefundKeys :
    /\ booked[k] \in {0, k.amount}
    /\ status[k] = "COMPLETED" => recorded[k] # None
    /\ recorded[k] # None => made[recorded[k]] = k
    /\ row[k] # "none" => booked[k] # 0
    /\ row[k] = "SENT" => recorded[k] # None
    /\ kept[k] # None => made[kept[k]] = k

StripeHolds ==
  \A r \in Refunds :
    made[r] \in RefundKeys => paid[r] = made[r].amount /\ booked[made[r]] # 0

ProcHolds(p) ==
  /\ at[p] \notin {"idle", "done"} => job[p] \in RefundKeys /\ booked[job[p]] # 0
  /\ at[p] = "finalize" => got[p] \in Refunds /\ made[got[p]] = job[p]
  /\ at[p] = "mark" => recorded[job[p]] # None

ProcsHold == \A p \in Processes : ProcHolds(p)

BatchesHold ==
  \A w \in Workers : \A k \in batch[w] : booked[k] # 0

IInv == TypeOK /\ LedgerHolds /\ StripeHolds /\ ProcsHold /\ BatchesHold

\* The types, by who keeps the variables.
LedgerTypes ==
  /\ booked \in [Bookings -> 0..Amount]
  /\ status \in [Bookings -> {"none", "PENDING", "COMPLETED", "DENIED"}]
  /\ denied \subseteq RefundKeys
  /\ updated \in [Refunds -> SUBSET {"pending", "succeeded", "failed"}]
  /\ recorded \in [RefundKeys -> Refunds \cup {None}]

OutboxTypes ==
  /\ row \in [RefundKeys -> {"none", "PENDING", "PROCESSING", "FAILED", "SENT", "DEAD"}]
  /\ token \in [RefundKeys -> Workers \cup {None}]
  /\ attempts \in [RefundKeys -> Nat]

ProcTypes ==
  /\ at \in [Processes -> Stages]
  /\ job \in [Processes -> RefundKeys \cup {None}]
  /\ got \in [Processes -> Refunds \cup {None}]
  /\ batch \in [Workers -> SUBSET RefundKeys]

StripeTypes ==
  /\ made \in [Refunds -> RefundKeys \cup {Dashboard, None}]
  /\ paid \in [Refunds -> 0..Amount]
  /\ had \in [Refunds -> SUBSET {"pending", "succeeded", "failed"}]
  /\ kept \in [RefundKeys -> Refunds \cup {None}]

OtherTypes ==
  /\ settled \in BOOLEAN
  /\ dispute \in [Disputes -> {"none", "lost", "checked", "done"}]
  /\ mishaps \in 0..MaxMishaps

\* What is booked, recorded or made stays so.
Grows ==
  /\ \A k \in RefundKeys : booked[k] # 0 => booked'[k] = booked[k]
  /\ \A k \in RefundKeys : recorded[k] # None => recorded'[k] = recorded[k]
  /\ \A r \in Refunds : made[r] # None => made'[r] = made[r] /\ paid'[r] = paid[r]

----------------------------------------------------------------------------
LEMMA Keys ==
  /\ \A k \in RefundKeys : k.amount \in 1..Amount /\ k.amount # 0 /\ k \in Bookings
  /\ \A k \in RefundKeys : k # None /\ k # Dashboard
  /\ \A b \in Refunds \cup Disputes \cup Chargebacks : b \in Bookings /\ b \notin RefundKeys
  /\ \A r \in Refunds : r # None
  /\ \A p \in Processes : (p \in Calls /\ p \notin Workers) \/ (p \in Workers /\ p \notin Calls)
  /\ \A w \in Workers : w \in Processes /\ w # None
  /\ \A c \in Calls : c \in Processes
<1>1. \A k \in RefundKeys : k.amount \in 1..Amount /\ k.kind = "REFUND"
  BY DEF RefundKeys
<1>2. \A k \in Chargebacks : k.kind = "CHARGEBACK"
  BY DEF Chargebacks
<1>3. \A k \in RefundKeys : k.amount # 0
  BY <1>1, AmountAssumption
<1>4. \A k \in RefundKeys : k # None /\ k # Dashboard
  BY DisjointAssumption
<1>5. \A b \in Refunds \cup Disputes \cup Chargebacks : b \in Bookings /\ b \notin RefundKeys
  BY <1>1, <1>2, DisjointAssumption DEF Bookings
<1>6. /\ \A p \in Processes : (p \in Calls /\ p \notin Workers) \/ (p \in Workers /\ p \notin Calls)
      /\ \A w \in Workers : w \in Processes /\ w # None
      /\ \A c \in Calls : c \in Processes
      /\ \A r \in Refunds : r # None
  BY DisjointAssumption DEF Processes
<1> QED BY <1>1, <1>3, <1>4, <1>5, <1>6 DEF Bookings

LEMMA TypeParts == TypeOK <=> LedgerTypes /\ OutboxTypes /\ ProcTypes /\ StripeTypes /\ OtherTypes
BY DEF TypeOK, LedgerTypes, OutboxTypes, ProcTypes, StripeTypes, OtherTypes

LEMMA Assembled ==
  ASSUME LedgerTypes', OutboxTypes', ProcTypes', StripeTypes', OtherTypes',
         LedgerHolds', StripeHolds', ProcsHold', BatchesHold'
  PROVE  IInv'
<1>1. TypeOK'
  BY DEF TypeOK, LedgerTypes, OutboxTypes, ProcTypes, StripeTypes, OtherTypes
<1> QED BY <1>1 DEF IInv

LEMMA InitIInv == Init => IInv
<1> SUFFICES ASSUME Init PROVE IInv
  OBVIOUS
<1>0. 0 \in 0..Amount /\ 0 \in 0..MaxMishaps
  BY AmountAssumption, BoundsAssumption
<1>1. LedgerTypes
  BY <1>0 DEF Init, LedgerTypes
<1>2. OutboxTypes
  BY DEF Init, OutboxTypes
<1>3. ProcTypes
  BY DEF Init, ProcTypes, Stages
<1>4. StripeTypes
  BY <1>0 DEF Init, StripeTypes
<1>5. OtherTypes
  BY <1>0 DEF Init, OtherTypes
<1>6. LedgerHolds /\ StripeHolds
  BY Keys DEF Init, LedgerHolds, StripeHolds
<1>7. ProcsHold /\ BatchesHold
  BY DEF Init, ProcsHold, ProcHolds, BatchesHold
<1> QED BY <1>1, <1>2, <1>3, <1>4, <1>5, <1>6, <1>7, TypeParts DEF IInv

\* A process that a step leaves alone still holds what it held.
LEMMA ProcKept ==
  ASSUME IInv, Grows, NEW p \in Processes,
         at'[p] = at[p], job'[p] = job[p], got'[p] = got[p]
  PROVE  ProcHolds(p)'
<1>1. ProcHolds(p)
  BY DEF IInv, ProcsHold
<1>2. got[p] \in Refunds => (made[got[p]] = job[p] /\ job[p] \in RefundKeys => made'[got[p]] = job[p])
  BY Keys DEF Grows
<1> QED BY <1>1, <1>2, Keys DEF ProcHolds, Grows

LEMMA ProcsKept ==
  ASSUME IInv, Grows, UNCHANGED <<at, job, got>>
  PROVE  ProcsHold'
BY ProcKept DEF ProcsHold

LEMMA BatchesKept ==
  ASSUME IInv, Grows, \A w \in Workers : batch'[w] \subseteq batch[w]
  PROVE  BatchesHold'
<1>1. \A w \in Workers : batch[w] \subseteq RefundKeys
  BY DEF IInv, TypeOK
<1> QED BY <1>1, Keys DEF IInv, BatchesHold, Grows

\* A step that books, marks and records as it should, and leaves Stripe alone.
LEMMA LedgerKept ==
  ASSUME IInv, Grows, UNCHANGED <<made, paid>>,
         \A k \in RefundKeys : booked'[k] \in {booked[k], k.amount},
         \A k \in RefundKeys : status'[k] = "COMPLETED"
                                 => status[k] = "COMPLETED" \/ recorded'[k] # None,
         \A k \in RefundKeys : recorded'[k] # recorded[k] => made[recorded'[k]] = k,
         \A k \in RefundKeys : row'[k] # row[k] => booked'[k] # 0,
         \A k \in RefundKeys : row'[k] = "SENT" => row[k] = "SENT" \/ recorded[k] # None,
         \A k \in RefundKeys : kept'[k] \in {kept[k], None}
  PROVE  LedgerHolds' /\ StripeHolds'
<1>1. LedgerHolds /\ StripeHolds
  BY DEF IInv
<1>2. ASSUME NEW k \in RefundKeys
      PROVE  /\ booked'[k] \in {0, k.amount}
             /\ status'[k] = "COMPLETED" => recorded'[k] # None
             /\ recorded'[k] # None => made'[recorded'[k]] = k
             /\ row'[k] # "none" => booked'[k] # 0
             /\ row'[k] = "SENT" => recorded'[k] # None
             /\ kept'[k] # None => made'[kept'[k]] = k
  <2>1. booked'[k] \in {0, k.amount} /\ (row'[k] # "none" => booked'[k] # 0)
    BY <1>1 DEF LedgerHolds, Grows
  <2>2. /\ status'[k] = "COMPLETED" => recorded'[k] # None
        /\ row'[k] = "SENT" => recorded'[k] # None
    BY <1>1 DEF LedgerHolds, Grows
  <2>3. /\ recorded'[k] # None => made'[recorded'[k]] = k
        /\ kept'[k] # None => made'[kept'[k]] = k
    BY <1>1 DEF LedgerHolds
  <2> QED BY <2>1, <2>2, <2>3
<1>3. LedgerHolds'
  BY <1>2 DEF LedgerHolds
<1>4. StripeHolds'
  <2> SUFFICES ASSUME NEW r \in Refunds, made[r] \in RefundKeys
               PROVE  paid[r] = made[r].amount /\ booked'[made[r]] # 0
    BY DEF StripeHolds
  <2> QED BY <1>1 DEF StripeHolds, Grows
<1> QED BY <1>3, <1>4

LEMMA OneMoves ==
  ASSUME IInv, Grows, NEW p \in Processes, ProcHolds(p)',
         \A q \in Processes \ {p} : at'[q] = at[q] /\ job'[q] = job[q] /\ got'[q] = got[q]
  PROVE  ProcsHold'
BY ProcKept DEF ProcsHold

LEMMA OtherTypesKept ==
  ASSUME OtherTypes, UNCHANGED mishaps \/ Mishap, settled' \in BOOLEAN,
         dispute' \in [Disputes -> {"none", "lost", "checked", "done"}]
  PROVE  OtherTypes'
BY BoundsAssumption DEF OtherTypes, Mishap

\* What the ledger's sums come to does not matter here: x is any amount in range.
LEMMA BookTypes ==
  ASSUME LedgerTypes, NEW b \in Bookings, NEW x \in 0..Amount,
         NEW as \in {"PENDING", "COMPLETED"}, Book(b, x, as),
         UNCHANGED <<denied, updated, recorded>>
  PROVE  LedgerTypes'
BY DEF LedgerTypes, Book

----------------------------------------------------------------------------
\* Administrators' requests.
LEMMA BookRefundKeeps ==
  ASSUME IInv, NEW c \in Calls, NEW k \in RefundKeys, BookRefund(c, k)
  PROVE  IInv'
<1>t. LedgerTypes /\ OutboxTypes /\ ProcTypes /\ StripeTypes /\ OtherTypes /\ c \in Processes
  BY TypeParts, Keys DEF IInv
<1>0. /\ UNCHANGED <<denied, updated, recorded, token, attempts, got, batch, stripe, others>>
      /\ Book(k, k.amount, "PENDING") /\ Queue(k)
      /\ at' = [at EXCEPT ![c] = "create"] /\ job' = [job EXCEPT ![c] = k] /\ booked[k] = 0
  BY DEF BookRefund, Goto
<1>1. LedgerTypes'
  BY <1>t, <1>0, Keys, BookTypes
<1>2. OutboxTypes' /\ ProcTypes' /\ StripeTypes' /\ OtherTypes'
  <2>1. OutboxTypes'
    BY <1>t, <1>0 DEF OutboxTypes, Queue
  <2>2. ProcTypes'
    BY <1>t, <1>0 DEF ProcTypes, Stages
  <2>3. StripeTypes' /\ OtherTypes'
    BY <1>t, <1>0 DEF StripeTypes, OtherTypes, stripe, others
  <2> QED BY <2>1, <2>2, <2>3
<1>3. /\ \A j \in RefundKeys : booked'[j] = IF j = k THEN k.amount ELSE booked[j]
      /\ \A j \in RefundKeys : status'[j] = IF j = k THEN "PENDING" ELSE status[j]
      /\ \A j \in RefundKeys : row'[j] = row[j] \/ (j = k /\ row'[j] = "PENDING")
  BY <1>t, <1>0, Keys DEF LedgerTypes, OutboxTypes, Book, Queue
<1>4. Grows
  BY <1>0, <1>3 DEF Grows, stripe
<1>5. LedgerHolds' /\ StripeHolds'
  BY <1>0, <1>3, <1>4, Keys, LedgerKept DEF stripe
<1>6. ProcsHold'
  <2>1. at'[c] = "create" /\ job'[c] = k /\ booked'[k] # 0
    BY <1>t, <1>0, <1>3, Keys DEF ProcTypes
  <2>2. ProcHolds(c)'
    BY <2>1 DEF ProcHolds
  <2> QED BY <1>t, <1>0, <1>4, <2>2, OneMoves DEF ProcTypes
<1>7. BatchesHold'
  BY <1>0, <1>4, BatchesKept
<1> QED BY <1>1, <1>2, <1>5, <1>6, <1>7, Assembled

LEMMA RepeatRefundKeeps ==
  ASSUME IInv, NEW c \in Calls, NEW k \in RefundKeys, RepeatRefund(c, k)
  PROVE  IInv'
<1>t. LedgerTypes /\ OutboxTypes /\ ProcTypes /\ StripeTypes /\ OtherTypes /\ c \in Processes
  BY TypeParts, Keys DEF IInv
<1>0. /\ UNCHANGED <<ledger, token, attempts, got, batch, stripe, others>> /\ booked[k] # 0
      /\ \/ at' = [at EXCEPT ![c] = "done"] /\ UNCHANGED <<row, job>>
         \/ /\ Queue(k) /\ at' = [at EXCEPT ![c] = "create"]
            /\ job' = [job EXCEPT ![c] = k]
  BY DEF RepeatRefund, Goto
<1>1. LedgerTypes' /\ StripeTypes' /\ OtherTypes' /\ Grows
  BY <1>t, <1>0 DEF LedgerTypes, StripeTypes, OtherTypes, Grows, ledger, stripe, others
<1>2. OutboxTypes' /\ ProcTypes'
  <2>1. OutboxTypes'
    BY <1>t, <1>0 DEF OutboxTypes, Queue
  <2>2. ProcTypes'
    BY <1>t, <1>0 DEF ProcTypes, Stages
  <2> QED BY <2>1, <2>2
<1>3. \A j \in RefundKeys : row'[j] = row[j] \/ (j = k /\ row'[j] = "PENDING")
  BY <1>t, <1>0 DEF OutboxTypes, Queue
<1>5. LedgerHolds' /\ StripeHolds'
  BY <1>0, <1>1, <1>3, LedgerKept DEF ledger, stripe
<1>6. ProcsHold'
  <2>1. at'[c] = "done" \/ (at'[c] = "create" /\ job'[c] = k /\ booked'[k] # 0)
    BY <1>t, <1>0 DEF ProcTypes, ledger
  <2>2. ProcHolds(c)'
    BY <2>1 DEF ProcHolds
  <2> QED BY <1>t, <1>0, <1>1, <2>2, OneMoves DEF ProcTypes
<1>7. BatchesHold'
  BY <1>0, <1>1, BatchesKept
<1> QED BY <1>1, <1>2, <1>5, <1>6, <1>7, Assembled

\* The bookings that are no administrator's refund.
LEMMA OtherBookingKeeps ==
  ASSUME IInv, NEW b \in Chargebacks \cup Refunds \cup Disputes, NEW x \in 0..Amount,
         Book(b, x, "COMPLETED"),
         UNCHANGED <<denied, updated, recorded, outbox, job, got, batch, stripe>>
  PROVE  /\ LedgerTypes' /\ OutboxTypes' /\ StripeTypes' /\ Grows
         /\ LedgerHolds' /\ StripeHolds' /\ BatchesHold'
<1>t. LedgerTypes /\ OutboxTypes /\ StripeTypes /\ b \in Bookings /\ b \notin RefundKeys
  BY TypeParts, Keys DEF IInv
<1>1. LedgerTypes'
  BY <1>t, BookTypes
<1>2. OutboxTypes' /\ StripeTypes'
  BY <1>t DEF OutboxTypes, StripeTypes, outbox, stripe
<1>3. \A j \in RefundKeys : booked'[j] = booked[j] /\ status'[j] = status[j]
  BY <1>t, Keys DEF LedgerTypes, Book
<1>4. Grows
  BY <1>3 DEF Grows, stripe
<1>5. LedgerHolds' /\ StripeHolds'
  BY <1>3, <1>4, LedgerKept DEF outbox, stripe
<1>6. BatchesHold'
  BY <1>4, BatchesKept
<1> QED BY <1>1, <1>2, <1>4, <1>5, <1>6

LEMMA BookChargebackKeeps ==
  ASSUME IInv, NEW c \in Calls, NEW k \in Chargebacks, BookChargeback(c, k)
  PROVE  IInv'
<1>t. ProcTypes /\ OtherTypes /\ c \in Processes /\ k.amount \in 0..Amount
  BY TypeParts, Keys, AmountAssumption DEF IInv, Chargebacks
<1>0. /\ UNCHANGED <<denied, updated, recorded, outbox, job, got, batch, stripe, others>>
      /\ Book(k, k.amount, "COMPLETED") /\ at' = [at EXCEPT ![c] = "done"]
  BY DEF BookChargeback, Goto
<1>1. /\ LedgerTypes' /\ OutboxTypes' /\ StripeTypes' /\ Grows
      /\ LedgerHolds' /\ StripeHolds' /\ BatchesHold'
  BY <1>t, <1>0, OtherBookingKeeps
<1>2. ProcTypes' /\ OtherTypes'
  BY <1>t, <1>0 DEF ProcTypes, OtherTypes, Stages, others
<1>3. at'[c] = "done"
  BY <1>t, <1>0 DEF ProcTypes
<1>4. ProcHolds(c)'
  BY <1>3 DEF ProcHolds
<1>5. ProcsHold'
  BY <1>t, <1>0, <1>1, <1>4, OneMoves DEF ProcTypes
<1> QED BY <1>1, <1>2, <1>5, Assembled

----------------------------------------------------------------------------
\* The calls to Stripe and what follows them.
LEMMA CreateKeeps ==
  ASSUME IInv, NEW p \in Processes, Create(p)
  PROVE  IInv'
<1> DEFINE k == job[p]
<1>t. /\ LedgerTypes /\ OutboxTypes /\ ProcTypes /\ StripeTypes /\ OtherTypes
      /\ LedgerHolds /\ StripeHolds /\ ProcHolds(p)
  BY TypeParts DEF IInv, ProcsHold
<1>0. PICK r \in Refunds :
        /\ at[p] = "create"
        /\ \/ kept[k] = r /\ UNCHANGED <<stripe, mishaps>>
           \/ /\ kept[k] = None /\ made[r] = None
              /\ made' = [made EXCEPT ![r] = k] /\ paid' = [paid EXCEPT ![r] = k.amount]
              /\ Born(r) /\ kept' = [kept EXCEPT ![k] = r]
        /\ \/ at' = [at EXCEPT ![p] = "finalize"] /\ got' = [got EXCEPT ![p] = r]
           \/ at' = [at EXCEPT ![p] = OnError(p)] /\ UNCHANGED got
        /\ UNCHANGED <<ledger, outbox, job, batch, settled, dispute>>
  BY DEF Create, Goto, StripeKey
<1>k. k \in RefundKeys /\ booked[k] # 0 /\ k # None /\ k.amount \in 0..Amount
  BY <1>t, <1>0, Keys DEF ProcHolds
<1>1. LedgerTypes' /\ OutboxTypes'
  BY <1>t, <1>0 DEF LedgerTypes, OutboxTypes, ledger, outbox
<1>2. ProcTypes'
  BY <1>t, <1>0 DEF ProcTypes, Stages, OnError
<1>3. StripeTypes'
  <2>1. CASE UNCHANGED stripe
    BY <1>t, <2>1 DEF StripeTypes, stripe
  <2>2. CASE /\ made' = [made EXCEPT ![r] = k] /\ paid' = [paid EXCEPT ![r] = k.amount]
             /\ Born(r) /\ kept' = [kept EXCEPT ![k] = r]
    <3>1. had' \in [Refunds -> SUBSET {"pending", "succeeded", "failed"}]
      BY <1>t, <2>2 DEF StripeTypes, Born
    <3> QED BY <1>t, <1>k, <2>2, <3>1 DEF StripeTypes
  <2> QED BY <1>0, <2>1, <2>2
<1>4. OtherTypes'
  <2>1. UNCHANGED mishaps \/ Mishap
    BY <1>0 DEF Born
  <2> QED BY <1>t, <1>0, <2>1, OtherTypesKept DEF OtherTypes
<1>5. /\ \A q \in Refunds \ {r} : made'[q] = made[q] /\ paid'[q] = paid[q]
      /\ \/ made'[r] = made[r] /\ paid'[r] = paid[r]
         \/ made[r] = None /\ made'[r] = k /\ paid'[r] = k.amount
      /\ \A j \in RefundKeys : kept'[j] = kept[j] \/ (j = k /\ kept'[j] = r)
      /\ made'[r] = k
  <2>1. CASE kept[k] = r /\ UNCHANGED stripe
    <3>1. made[r] = k
      BY <1>t, <1>k, <2>1, Keys DEF LedgerHolds
    <3> QED BY <2>1, <3>1 DEF stripe
  <2>2. CASE /\ made[r] = None /\ made' = [made EXCEPT ![r] = k]
             /\ paid' = [paid EXCEPT ![r] = k.amount] /\ kept' = [kept EXCEPT ![k] = r]
    <3>1. made'[r] = k /\ paid'[r] = k.amount
      BY <1>t, <2>2 DEF StripeTypes
    <3>2. \A q \in Refunds \ {r} : made'[q] = made[q] /\ paid'[q] = paid[q]
      BY <1>t, <2>2 DEF StripeTypes
    <3>3. \A j \in RefundKeys : kept'[j] = kept[j] \/ (j = k /\ kept'[j] = r)
      BY <1>t, <2>2 DEF StripeTypes
    <3> QED BY <2>2, <3>1, <3>2, <3>3
  <2> QED BY <1>0, <2>1, <2>2
<1>6. Grows
  BY <1>0, <1>5 DEF Grows, ledger
<1>7. LedgerHolds'
  <2> SUFFICES ASSUME NEW j \in RefundKeys
               PROVE  /\ recorded[j] # None => made'[recorded[j]] = j
                      /\ kept'[j] # None => made'[kept'[j]] = j
    BY <1>t, <1>0 DEF LedgerHolds, ledger, outbox
  <2>1. recorded[j] # None => made'[recorded[j]] = j
    <3>1. recorded[j] # None => recorded[j] \in Refunds /\ made[recorded[j]] = j
      BY <1>t DEF LedgerTypes, LedgerHolds
    <3> QED BY <1>5, <3>1, Keys
  <2>2. kept'[j] # None => made'[kept'[j]] = j
    <3>1. kept[j] # None => kept[j] \in Refunds /\ made[kept[j]] = j
      BY <1>t DEF StripeTypes, LedgerHolds
    <3> QED BY <1>5, <3>1, Keys
  <2> QED BY <2>1, <2>2
<1>8. StripeHolds'
  <2> SUFFICES ASSUME NEW q \in Refunds, made'[q] \in RefundKeys
               PROVE  paid'[q] = made'[q].amount /\ booked[made'[q]] # 0
    BY <1>0 DEF StripeHolds, ledger
  <2> QED BY <1>t, <1>5, <1>k DEF StripeHolds
<1>9. ProcsHold'
  <2>1. /\ job'[p] = k /\ booked'[k] # 0 /\ at'[p] # "mark"
        /\ at'[p] = "finalize" => got'[p] = r
    BY <1>t, <1>0, <1>k DEF ProcTypes, ledger, OnError
  <2>2. ProcHolds(p)'
    BY <1>5, <1>k, <2>1 DEF ProcHolds
  <2> QED BY <1>t, <1>0, <1>6, <2>2, OneMoves DEF ProcTypes
<1>10. BatchesHold'
  BY <1>0, <1>6, BatchesKept
<1> QED BY <1>1, <1>2, <1>3, <1>4, <1>7, <1>8, <1>9, <1>10, Assembled

\* A process that goes on to try again, to give up or to rest.
LEMMA MoveKeeps ==
  ASSUME IInv, NEW p \in Processes, NEW stage \in Stages \ {"finalize", "mark"},
         at' = [at EXCEPT ![p] = stage],
         \/ UNCHANGED job /\ UNCHANGED got /\ at[p] \notin {"idle", "done"}
         \/ stage \in {"idle", "done"} /\ job' = [job EXCEPT ![p] = None]
              /\ got' = [got EXCEPT ![p] = None],
         Grows
  PROVE  ProcsHold' /\ (UNCHANGED batch => ProcTypes')
<1>t. ProcTypes /\ ProcHolds(p)
  BY TypeParts DEF IInv, ProcsHold
<1>1. UNCHANGED batch => ProcTypes'
  BY <1>t DEF ProcTypes
<1>2. at'[p] = stage /\ (stage \notin {"idle", "done"} => job'[p] \in RefundKeys /\ booked'[job'[p]] # 0)
  BY <1>t, Keys DEF ProcTypes, ProcHolds, Grows
<1>3. ProcHolds(p)'
  BY <1>2 DEF ProcHolds
<1>4. \A q \in Processes \ {p} : at'[q] = at[q] /\ job'[q] = job[q] /\ got'[q] = got[q]
  BY <1>t DEF ProcTypes
<1>5. ProcsHold'
  BY <1>3, <1>4, OneMoves
<1> QED BY <1>1, <1>5

LEMMA CreateFailsKeeps ==
  ASSUME IInv, NEW p \in Processes, CreateFails(p)
  PROVE  IInv'
<1>t. LedgerTypes /\ OutboxTypes /\ StripeTypes /\ OtherTypes
  BY TypeParts DEF IInv
<1>0. /\ at[p] = "create" /\ at' = [at EXCEPT ![p] = OnError(p)]
      /\ UNCHANGED <<ledger, outbox, job, got, batch, stripe, others>>
  BY DEF CreateFails, Goto
<1>1. LedgerTypes' /\ OutboxTypes' /\ StripeTypes' /\ OtherTypes'
  BY <1>t, <1>0 DEF LedgerTypes, OutboxTypes, StripeTypes, OtherTypes, ledger, outbox, stripe, others
<1>2. Grows
  BY <1>0 DEF Grows, ledger, stripe
<1>3. OnError(p) \in Stages \ {"finalize", "mark"}
  BY DEF OnError, Stages
<1>4. ProcsHold' /\ ProcTypes'
  BY <1>0, <1>2, <1>3, MoveKeeps
<1>5. LedgerHolds' /\ StripeHolds'
  BY <1>0, <1>2, LedgerKept DEF ledger, outbox, stripe
<1>6. BatchesHold'
  BY <1>0, <1>2, BatchesKept
<1> QED BY <1>1, <1>4, <1>5, <1>6, Assembled

LEMMA DenyKeeps ==
  ASSUME IInv, NEW c \in Calls, Deny(c)
  PROVE  IInv'
<1>t. /\ LedgerTypes /\ OutboxTypes /\ StripeTypes /\ OtherTypes
      /\ c \in Processes /\ ProcHolds(c)
  BY TypeParts, Keys DEF IInv, ProcsHold
<1>0. /\ at[c] = "deny" /\ UNCHANGED <<booked, updated, recorded, outbox, job, got, batch, stripe, others>>
      /\ \E stage \in {"kill", "fail"} : at' = [at EXCEPT ![c] = stage]
      /\ \/ UNCHANGED <<denied, status>>
         \/ denied' = denied \cup {job[c]} /\ status' = [status EXCEPT ![job[c]] = "DENIED"]
  BY DEF Deny, Goto
<1>1. LedgerTypes'
  <2>1. job[c] \in RefundKeys
    BY <1>t, <1>0 DEF ProcHolds
  <2> QED BY <1>t, <1>0, <2>1 DEF LedgerTypes
<1>2. OutboxTypes' /\ StripeTypes' /\ OtherTypes'
  BY <1>t, <1>0 DEF OutboxTypes, StripeTypes, OtherTypes, outbox, stripe, others
<1>3. Grows
  BY <1>0 DEF Grows, stripe
<1>4. ProcsHold' /\ ProcTypes'
  BY <1>t, <1>0, <1>3, MoveKeeps DEF Stages
<1>5. \A k \in RefundKeys : status'[k] = "COMPLETED" => status[k] = "COMPLETED"
  BY <1>t, <1>0, Keys DEF LedgerTypes
<1>6. LedgerHolds' /\ StripeHolds'
  BY <1>0, <1>3, <1>5, LedgerKept DEF outbox, stripe
<1>7. BatchesHold'
  BY <1>0, <1>3, BatchesKept
<1> QED BY <1>1, <1>2, <1>4, <1>6, <1>7, Assembled

----------------------------------------------------------------------------
\* Marking the row, whoever does it.
LEMMA MarkKeeps ==
  ASSUME IInv, NEW p \in Processes, at[p] \notin {"idle", "done"},
         NEW as \in {"FAILED", "SENT", "DEAD"}, as = "SENT" => at[p] = "mark",
         MarkRow(job[p], as) \/ UNCHANGED <<row, token>>,
         UNCHANGED <<ledger, attempts, stripe>>
  PROVE  /\ LedgerTypes' /\ OutboxTypes' /\ StripeTypes'
         /\ Grows /\ LedgerHolds' /\ StripeHolds'
<1> DEFINE k == job[p]
<1>t. LedgerTypes /\ OutboxTypes /\ StripeTypes /\ ProcHolds(p) /\ k \in RefundKeys
  BY TypeParts DEF IInv, ProcsHold, ProcHolds
<1>1. LedgerTypes' /\ StripeTypes' /\ Grows
  BY <1>t DEF LedgerTypes, StripeTypes, Grows, ledger, stripe
<1>2. OutboxTypes'
  BY <1>t DEF OutboxTypes, MarkRow
<1>3. \A j \in RefundKeys : row'[j] = row[j] \/ (j = k /\ row'[j] = as)
  BY <1>t DEF OutboxTypes, MarkRow
<1>4. booked[k] # 0 /\ (as = "SENT" => recorded[k] # None)
  BY <1>t DEF ProcHolds
<1> HIDE DEF k
<1>5. LedgerHolds' /\ StripeHolds'
  BY <1>1, <1>3, <1>4, LedgerKept DEF ledger, stripe
<1> QED BY <1>1, <1>2, <1>5

LEMMA RestMoves ==
  ASSUME NEW p \in Processes, Rest(p)
  PROVE  \E stage \in {"idle", "done"} :
           /\ at' = [at EXCEPT ![p] = stage]
           /\ job' = [job EXCEPT ![p] = None] /\ got' = [got EXCEPT ![p] = None]
BY DEF Rest, Goto

LEMMA RestKeeps ==
  ASSUME IInv, NEW p \in Processes, Rest(p), Grows
  PROVE  ProcsHold' /\ (UNCHANGED batch => ProcTypes')
<1>1. PICK stage \in {"idle", "done"} :
        /\ at' = [at EXCEPT ![p] = stage]
        /\ job' = [job EXCEPT ![p] = None] /\ got' = [got EXCEPT ![p] = None]
  BY RestMoves
<1>2. stage \in Stages \ {"finalize", "mark"}
  BY DEF Stages
<1> QED BY <1>1, <1>2, MoveKeeps

LEMMA KillKeeps ==
  ASSUME IInv, NEW c \in Calls, Kill(c)
  PROVE  IInv'
<1>t. OtherTypes /\ c \in Processes
  BY TypeParts, Keys DEF IInv
<1>0. /\ at[c] = "kill" /\ at' = [at EXCEPT ![c] = "fail"]
      /\ MarkRow(job[c], "DEAD") \/ UNCHANGED <<row, token>>
      /\ UNCHANGED <<ledger, attempts, job, got, batch, stripe, others>>
  BY DEF Kill, MarkRow, Goto
<1>1. /\ LedgerTypes' /\ OutboxTypes' /\ StripeTypes'
      /\ Grows /\ LedgerHolds' /\ StripeHolds'
  BY <1>t, <1>0, MarkKeeps
<1>2. ProcsHold' /\ ProcTypes'
  BY <1>t, <1>0, <1>1, MoveKeeps DEF Stages
<1>3. BatchesHold' /\ OtherTypes'
  BY <1>t, <1>0, <1>1, BatchesKept DEF OtherTypes, others
<1> QED BY <1>1, <1>2, <1>3, Assembled

LEMMA MarkSentKeeps ==
  ASSUME IInv, NEW p \in Processes, MarkSent(p)
  PROVE  IInv'
<1>t. OtherTypes
  BY TypeParts DEF IInv
<1>0. /\ at[p] = "mark"
      /\ MarkRow(job[p], "SENT") \/ UNCHANGED <<row, token>>
      /\ Rest(p) \/ (at' = [at EXCEPT ![p] = "fail"] /\ UNCHANGED <<job, got>>)
      /\ UNCHANGED <<ledger, attempts, batch, stripe, others>>
  BY DEF MarkSent, Goto
<1>1. /\ LedgerTypes' /\ OutboxTypes' /\ StripeTypes'
      /\ Grows /\ LedgerHolds' /\ StripeHolds'
  BY <1>0, MarkKeeps
<1>2. ProcsHold' /\ ProcTypes'
  <2>1. CASE Rest(p)
    BY <1>0, <1>1, <2>1, RestKeeps
  <2>2. CASE at' = [at EXCEPT ![p] = "fail"] /\ UNCHANGED <<job, got>>
    BY <1>0, <1>1, <2>2, MoveKeeps DEF Stages
  <2> QED BY <1>0, <2>1, <2>2
<1>3. BatchesHold' /\ OtherTypes'
  BY <1>t, <1>0, <1>1, BatchesKept DEF OtherTypes, others
<1> QED BY <1>1, <1>2, <1>3, Assembled

LEMMA MarkFailedKeeps ==
  ASSUME IInv, NEW p \in Processes, MarkFailed(p)
  PROVE  IInv'
<1>t. OtherTypes
  BY TypeParts DEF IInv
<1>0. /\ at[p] = "fail" /\ Rest(p)
      /\ \E as \in {"DEAD", "FAILED"} : MarkRow(job[p], as) \/ UNCHANGED <<row, token>>
      /\ UNCHANGED <<ledger, attempts, batch, stripe, others>>
  BY DEF MarkFailed
<1>1. /\ LedgerTypes' /\ OutboxTypes' /\ StripeTypes'
      /\ Grows /\ LedgerHolds' /\ StripeHolds'
  BY <1>0, MarkKeeps
<1>2. ProcsHold' /\ ProcTypes'
  BY <1>0, <1>1, RestKeeps
<1>3. BatchesHold' /\ OtherTypes'
  BY <1>t, <1>0, <1>1, BatchesKept DEF OtherTypes, others
<1> QED BY <1>1, <1>2, <1>3, Assembled

LEMMA FinalizeKeeps ==
  ASSUME IInv, NEW p \in Processes, Finalize(p)
  PROVE  IInv'
<1> DEFINE k == job[p]
<1>t. /\ LedgerTypes /\ OutboxTypes /\ ProcTypes /\ StripeTypes /\ OtherTypes
      /\ LedgerHolds /\ ProcHolds(p)
  BY TypeParts DEF IInv, ProcsHold
<1>0. /\ at[p] = "finalize"
      /\ UNCHANGED <<booked, denied, updated, outbox, job, got, batch, stripe, others>>
      /\ \/ /\ recorded[k] = None /\ recorded' = [recorded EXCEPT ![k] = got[p]]
            /\ status' = [status EXCEPT ![k] = CreatedAs(got[p])]
            /\ at' = [at EXCEPT ![p] = "mark"]
         \/ at' = [at EXCEPT ![p] = "fail"] /\ UNCHANGED <<recorded, status>>
  BY DEF Finalize, Goto, Unrecorded
<1>k. k \in RefundKeys /\ booked[k] # 0 /\ got[p] \in Refunds /\ made[got[p]] = k /\ got[p] # None
  BY <1>t, <1>0, Keys DEF ProcHolds
<1>1. LedgerTypes'
  <2>1. CreatedAs(got[p]) \in {"PENDING", "COMPLETED"}
    BY DEF CreatedAs
  <2> QED BY <1>t, <1>0, <1>k, <2>1 DEF LedgerTypes
<1>2. OutboxTypes' /\ StripeTypes' /\ OtherTypes'
  BY <1>t, <1>0 DEF OutboxTypes, StripeTypes, OtherTypes, outbox, stripe, others
<1>3. ProcTypes'
  BY <1>t, <1>0 DEF ProcTypes, Stages
<1>4. /\ \A j \in RefundKeys : recorded'[j] = recorded[j]
                               \/ (j = k /\ recorded[j] = None /\ recorded'[j] = got[p])
      /\ \A j \in RefundKeys : status'[j] = status[j] \/ (j = k /\ recorded'[j] # None)
      /\ at'[p] \in {"mark", "fail"} /\ (at'[p] = "mark" => recorded'[k] # None)
  BY <1>t, <1>0, <1>k, Keys DEF LedgerTypes, ProcTypes
<1>5. Grows
  BY <1>0, <1>4 DEF Grows, stripe
<1>6. LedgerHolds' /\ StripeHolds'
  BY <1>0, <1>4, <1>5, <1>k, LedgerKept DEF outbox, stripe
<1>7. ProcsHold'
  <2>1. ProcHolds(p)'
    BY <1>0, <1>4, <1>k DEF ProcHolds
  <2>2. \A q \in Processes \ {p} : at'[q] = at[q] /\ job'[q] = job[q] /\ got'[q] = got[q]
    BY <1>t, <1>0 DEF ProcTypes
  <2> QED BY <1>5, <2>1, <2>2, OneMoves
<1>8. BatchesHold'
  BY <1>0, <1>5, BatchesKept
<1> QED BY <1>1, <1>2, <1>3, <1>6, <1>7, <1>8, Assembled

----------------------------------------------------------------------------
\* The scheduler, and processes that end.
LEMMA ClaimKeeps ==
  ASSUME IInv, NEW w \in Workers, NEW ks \in SUBSET RefundKeys, Claim(w, ks)
  PROVE  IInv'
<1>t. /\ LedgerTypes /\ OutboxTypes /\ ProcTypes /\ StripeTypes /\ OtherTypes
      /\ LedgerHolds /\ BatchesHold
  BY TypeParts DEF IInv
<1>0. /\ UNCHANGED <<ledger, at, job, got, stripe, settled, dispute>>
      /\ \A k \in ks : row[k] # "none"
      /\ row' = [k \in RefundKeys |-> IF k \in ks THEN "PROCESSING" ELSE row[k]]
      /\ token' = [k \in RefundKeys |-> IF k \in ks THEN w ELSE token[k]]
      /\ attempts' = [k \in RefundKeys |-> IF k \in ks THEN attempts[k] + 1 ELSE attempts[k]]
      /\ batch' = [batch EXCEPT ![w] = ks]
  BY DEF Claim, Due
<1>1. LedgerTypes' /\ StripeTypes' /\ Grows
  BY <1>t, <1>0 DEF LedgerTypes, StripeTypes, Grows, ledger, stripe
<1>2. OutboxTypes'
  <2>1. row' \in [RefundKeys -> {"none", "PENDING", "PROCESSING", "FAILED", "SENT", "DEAD"}]
    BY <1>t, <1>0 DEF OutboxTypes
  <2>2. token' \in [RefundKeys -> Workers \cup {None}]
    BY <1>t, <1>0 DEF OutboxTypes
  <2>3. attempts' \in [RefundKeys -> Nat]
    BY <1>t, <1>0 DEF OutboxTypes
  <2> QED BY <2>1, <2>2, <2>3 DEF OutboxTypes
<1>3. ProcTypes'
  BY <1>t, <1>0 DEF ProcTypes
<1>4. OtherTypes'
  <2>1. UNCHANGED mishaps \/ Mishap
    BY DEF Claim
  <2> QED BY <1>t, <1>0, <2>1, OtherTypesKept DEF OtherTypes
<1>5. \A k \in RefundKeys : row'[k] = row[k] \/ (row'[k] = "PROCESSING" /\ booked[k] # 0)
  BY <1>t, <1>0 DEF LedgerHolds
<1>6. LedgerHolds' /\ StripeHolds'
  BY <1>0, <1>1, <1>5, LedgerKept DEF ledger, stripe
<1>7. ProcsHold'
  BY <1>0, <1>1, ProcsKept
<1>8. BatchesHold'
  <2>1. \A k \in ks : booked'[k] # 0
    BY <1>t, <1>0 DEF LedgerHolds, ledger
  <2>2. \A v \in Workers \ {w} : batch'[v] = batch[v]
    BY <1>t, <1>0 DEF ProcTypes
  <2>3. batch'[w] = ks
    BY <1>t, <1>0 DEF ProcTypes
  <2> QED BY <1>t, <1>0, <2>1, <2>2, <2>3 DEF BatchesHold, ledger
<1> QED BY <1>1, <1>2, <1>3, <1>4, <1>6, <1>7, <1>8, Assembled

LEMMA TakeRowKeeps ==
  ASSUME IInv, NEW w \in Workers, NEW k \in RefundKeys, TakeRow(w, k)
  PROVE  IInv'
<1>t. /\ LedgerTypes /\ OutboxTypes /\ ProcTypes /\ StripeTypes /\ OtherTypes
      /\ BatchesHold /\ w \in Processes
  BY TypeParts, Keys DEF IInv
<1>0. /\ k \in batch[w] /\ UNCHANGED <<ledger, outbox, got, stripe, others>>
      /\ batch' = [batch EXCEPT ![w] = @ \ {k}] /\ job' = [job EXCEPT ![w] = k]
      /\ at' = [at EXCEPT ![w] = "create"]
  BY DEF TakeRow, Goto
<1>1. /\ LedgerTypes' /\ OutboxTypes' /\ StripeTypes' /\ OtherTypes' /\ Grows
  BY <1>t, <1>0 DEF LedgerTypes, OutboxTypes, StripeTypes, OtherTypes, Grows,
                    ledger, outbox, stripe, others
<1>2. ProcTypes'
  BY <1>t, <1>0 DEF ProcTypes, Stages
<1>3. LedgerHolds' /\ StripeHolds'
  BY <1>0, <1>1, LedgerKept DEF ledger, outbox, stripe
<1>4. ProcsHold'
  <2>1. at'[w] = "create" /\ job'[w] = k /\ booked'[k] # 0
    BY <1>t, <1>0 DEF ProcTypes, BatchesHold, ledger
  <2>2. ProcHolds(w)'
    BY <2>1 DEF ProcHolds
  <2>3. \A q \in Processes \ {w} : at'[q] = at[q] /\ job'[q] = job[q] /\ got'[q] = got[q]
    BY <1>t, <1>0 DEF ProcTypes
  <2> QED BY <1>t, <1>1, <2>2, <2>3, OneMoves
<1>5. BatchesHold'
  <2>1. \A v \in Workers : batch'[v] \subseteq batch[v]
    BY <1>t, <1>0 DEF ProcTypes
  <2> QED BY <1>1, <2>1, BatchesKept
<1> QED BY <1>1, <1>2, <1>3, <1>4, <1>5, Assembled

LEMMA CrashKeeps ==
  ASSUME IInv, NEW p \in Processes, Crash(p)
  PROVE  IInv'
<1>t. LedgerTypes /\ OutboxTypes /\ ProcTypes /\ StripeTypes /\ OtherTypes
  BY TypeParts DEF IInv
<1>0. /\ Mishap /\ Rest(p) /\ UNCHANGED <<ledger, outbox, stripe, settled, dispute>>
      /\ batch' = [w \in Workers |-> IF w = p THEN {} ELSE batch[w]]
  BY DEF Crash
<1>1. LedgerTypes' /\ OutboxTypes' /\ StripeTypes' /\ Grows
  BY <1>t, <1>0 DEF LedgerTypes, OutboxTypes, StripeTypes, Grows, ledger, outbox, stripe
<1>2. OtherTypes'
  BY <1>t, <1>0, OtherTypesKept DEF OtherTypes
<1>3. ProcTypes'
  <2>1. batch' \in [Workers -> SUBSET RefundKeys]
    BY <1>t, <1>0 DEF ProcTypes
  <2> QED BY <1>t, <1>0, <2>1 DEF ProcTypes, Rest, Goto, Stages
<1>4. LedgerHolds' /\ StripeHolds'
  BY <1>0, <1>1, LedgerKept DEF ledger, outbox, stripe
<1>5. ProcsHold'
  BY <1>0, <1>1, RestKeeps
<1>6. BatchesHold'
  <2>1. \A w \in Workers : batch'[w] \subseteq batch[w]
    BY <1>0
  <2> QED BY <1>1, <2>1, BatchesKept
<1> QED BY <1>1, <1>2, <1>3, <1>4, <1>5, <1>6, Assembled

----------------------------------------------------------------------------
\* Stripe and its webhooks.
LEMMA ElsewhereKeeps ==
  ASSUME IInv, NEW r \in Refunds, NEW a \in 1..Amount, RefundElsewhere(r, a)
  PROVE  IInv'
<1>t. /\ LedgerTypes /\ OutboxTypes /\ ProcTypes /\ StripeTypes /\ OtherTypes
      /\ LedgerHolds /\ StripeHolds /\ a \in 0..Amount
  BY TypeParts, AmountAssumption DEF IInv
<1>0. /\ Mishap /\ made[r] = None /\ made' = [made EXCEPT ![r] = Dashboard]
      /\ paid' = [paid EXCEPT ![r] = a] /\ had' = [had EXCEPT ![r] = {"succeeded"}]
      /\ UNCHANGED <<ledger, outbox, procs, kept, settled, dispute>>
  BY DEF RefundElsewhere
<1>1. LedgerTypes' /\ OutboxTypes' /\ ProcTypes'
  BY <1>t, <1>0 DEF LedgerTypes, OutboxTypes, ProcTypes, ledger, outbox, procs
<1>2. StripeTypes' /\ OtherTypes'
  BY <1>t, <1>0, OtherTypesKept DEF StripeTypes, OtherTypes
<1>3. /\ \A q \in Refunds \ {r} : made'[q] = made[q] /\ paid'[q] = paid[q]
      /\ made'[r] = Dashboard
  BY <1>t, <1>0 DEF StripeTypes
<1>4. Grows
  BY <1>0, <1>3 DEF Grows, ledger
<1>5. LedgerHolds'
  <2>1. \A k \in RefundKeys : /\ recorded[k] # None => made'[recorded[k]] = k
                              /\ kept[k] # None => made'[kept[k]] = k
    <3> SUFFICES ASSUME NEW k \in RefundKeys
                 PROVE  /\ recorded[k] # None => made'[recorded[k]] = k
                        /\ kept[k] # None => made'[kept[k]] = k
      OBVIOUS
    <3>1. /\ recorded[k] # None => recorded[k] \in Refunds /\ made[recorded[k]] = k
          /\ kept[k] # None => kept[k] \in Refunds /\ made[kept[k]] = k
      BY <1>t DEF LedgerTypes, StripeTypes, LedgerHolds
    <3> QED BY <1>0, <1>3, <3>1, Keys
  <2> QED BY <1>t, <1>0, <2>1 DEF LedgerHolds, ledger, outbox
<1>6. StripeHolds'
  BY <1>t, <1>0, <1>3, Keys DEF StripeHolds, ledger
<1>7. ProcsHold' /\ BatchesHold'
  BY <1>0, <1>4, ProcsKept, BatchesKept DEF procs
<1> QED BY <1>1, <1>2, <1>5, <1>6, <1>7, Assembled

\* Steps that leave the bookings of refunds, the rows and the processes alone.
LEMMA AsideKeeps ==
  ASSUME IInv, UNCHANGED <<booked, recorded, outbox, procs, made, paid>>,
         \A k \in RefundKeys : status'[k] = status[k],
         \A k \in RefundKeys : kept'[k] \in {kept[k], None}
  PROVE  /\ OutboxTypes' /\ ProcTypes'
         /\ LedgerHolds' /\ StripeHolds' /\ ProcsHold' /\ BatchesHold'
<1>1. OutboxTypes /\ ProcTypes
  BY TypeParts DEF IInv
<1>2. OutboxTypes' /\ ProcTypes' /\ Grows
  BY <1>1 DEF OutboxTypes, ProcTypes, Grows, outbox, procs
<1>3. LedgerHolds' /\ StripeHolds'
  BY <1>2, LedgerKept DEF outbox
<1>4. ProcsHold' /\ BatchesHold'
  BY <1>2, ProcsKept, BatchesKept DEF procs
<1> QED BY <1>2, <1>3, <1>4

LEMMA DisputesKeep ==
  ASSUME IInv, UNCHANGED <<ledger, outbox, procs, stripe>>,
         UNCHANGED mishaps \/ Mishap, settled' \in BOOLEAN,
         dispute' \in [Disputes -> {"none", "lost", "checked", "done"}]
  PROVE  IInv'
<1>t. LedgerTypes /\ StripeTypes /\ OtherTypes
  BY TypeParts DEF IInv
<1>1. LedgerTypes' /\ StripeTypes' /\ OtherTypes'
  BY <1>t, OtherTypesKept DEF LedgerTypes, StripeTypes, ledger, stripe
<1>2. /\ OutboxTypes' /\ ProcTypes'
      /\ LedgerHolds' /\ StripeHolds' /\ ProcsHold' /\ BatchesHold'
  BY AsideKeeps DEF ledger, stripe
<1> QED BY <1>1, <1>2, Assembled

LEMMA ProviderKeeps ==
  ASSUME IInv, Provider
  PROVE  IInv'
<1>t. LedgerTypes /\ StripeTypes /\ OtherTypes
  BY TypeParts DEF IInv
<1>1. CASE Settle
  BY <1>t, <1>1, DisputesKeep DEF Settle, OtherTypes
<1>2. CASE \E r \in Refunds, a \in 1..Amount : RefundElsewhere(r, a)
  BY <1>2, ElsewhereKeeps
<1>3. CASE \E r \in Refunds, s \in {"succeeded", "failed"} : RefundMoves(r, s)
  <2>0. PICK r \in Refunds, s \in {"succeeded", "failed"} :
          /\ had' = [had EXCEPT ![r] = @ \cup {s}] /\ (UNCHANGED mishaps \/ Mishap)
          /\ UNCHANGED <<ledger, outbox, procs, made, paid, kept, settled, dispute>>
    BY <1>3 DEF RefundMoves
  <2>1. LedgerTypes' /\ StripeTypes'
    BY <1>t, <2>0 DEF LedgerTypes, StripeTypes, ledger
  <2>2. OtherTypes'
    BY <1>t, <2>0, OtherTypesKept DEF OtherTypes
  <2>3. /\ OutboxTypes' /\ ProcTypes'
        /\ LedgerHolds' /\ StripeHolds' /\ ProcsHold' /\ BatchesHold'
    BY <2>0, AsideKeeps DEF ledger
  <2> QED BY <2>1, <2>2, <2>3, Assembled
<1>4. CASE \E k \in RefundKeys : ForgetKey(k)
  <2>0. PICK k \in RefundKeys :
          /\ Mishap /\ kept' = [kept EXCEPT ![k] = None]
          /\ UNCHANGED <<ledger, outbox, procs, made, paid, had, settled, dispute>>
    BY <1>4 DEF ForgetKey
  <2>1. LedgerTypes' /\ StripeTypes'
    BY <1>t, <2>0 DEF LedgerTypes, StripeTypes, ledger
  <2>2. OtherTypes'
    BY <1>t, <2>0, OtherTypesKept DEF OtherTypes
  <2>3. \A j \in RefundKeys : kept'[j] \in {kept[j], None}
    BY <1>t, <2>0 DEF StripeTypes
  <2>4. /\ OutboxTypes' /\ ProcTypes'
        /\ LedgerHolds' /\ StripeHolds' /\ ProcsHold' /\ BatchesHold'
    BY <2>0, <2>3, AsideKeeps DEF ledger
  <2> QED BY <2>1, <2>2, <2>4, Assembled
<1>5. CASE \E d \in Disputes : LoseDispute(d)
  <2>0. PICK d \in Disputes : /\ Mishap /\ dispute' = [dispute EXCEPT ![d] = "lost"]
                              /\ UNCHANGED <<ledger, outbox, procs, stripe, settled>>
    BY <1>5 DEF LoseDispute
  <2> QED BY <1>t, <2>0, DisputesKeep DEF OtherTypes
<1> QED BY <1>1, <1>2, <1>3, <1>4, <1>5 DEF Provider

LEMMA WebhooksKeep ==
  ASSUME IInv, Webhooks
  PROVE  IInv'
<1>t. LedgerTypes /\ ProcTypes /\ StripeTypes /\ OtherTypes
  BY TypeParts DEF IInv
<1>b. ASSUME NEW b \in Refunds \cup Disputes, NEW a \in 0..Amount, BookCapped(b, a)
      PROVE  \E x \in 0..Amount : Book(b, x, "COMPLETED")
  <2>1. \A x \in 1..a : x \in 0..Amount
    BY AmountAssumption
  <2> QED BY <1>b, <2>1 DEF BookCapped
<1>1. ASSUME NEW r \in Refunds, ChargeRefunded(r) PROVE IInv'
  <2>0. /\ paid[r] \in 0..Amount /\ BookCapped(r, paid[r])
        /\ UNCHANGED <<denied, updated, recorded, outbox, procs, stripe, others>>
    BY <1>t, <1>1 DEF ChargeRefunded, StripeTypes
  <2>1. /\ LedgerTypes' /\ OutboxTypes' /\ StripeTypes' /\ Grows
        /\ LedgerHolds' /\ StripeHolds' /\ BatchesHold'
    BY <2>0, <1>b, OtherBookingKeeps DEF procs
  <2>2. ProcTypes' /\ OtherTypes'
    BY <1>t, <2>0 DEF ProcTypes, OtherTypes, procs, others
  <2>3. ProcsHold'
    BY <2>0, <2>1, ProcsKept DEF procs
  <2> QED BY <2>1, <2>2, <2>3, Assembled
<1>2. ASSUME NEW r \in Refunds, NEW s \in {"pending", "succeeded", "failed"}, RefundUpdated(r, s)
      PROVE  IInv'
  <2>0. /\ status' = [status EXCEPT ![r] = StatusOf(s)]
        /\ updated' = [updated EXCEPT ![r] = @ \cup {s}]
        /\ UNCHANGED <<booked, denied, recorded, outbox, procs, stripe, others>>
    BY <1>2 DEF RefundUpdated
  <2>1. LedgerTypes'
    BY <1>t, <2>0 DEF LedgerTypes, StatusOf
  <2>2. StripeTypes' /\ OtherTypes'
    BY <1>t, <2>0 DEF StripeTypes, OtherTypes, stripe, others
  <2>3. \A k \in RefundKeys : status'[k] = status[k]
    BY <1>t, <2>0, Keys DEF LedgerTypes
  <2>4. /\ OutboxTypes' /\ ProcTypes'
        /\ LedgerHolds' /\ StripeHolds' /\ ProcsHold' /\ BatchesHold'
    BY <2>0, <2>3, AsideKeeps DEF stripe
  <2> QED BY <2>1, <2>2, <2>4, Assembled
<1>3. ASSUME NEW d \in Disputes, NEW a \in 1..Amount, BookDispute(d, a) PROVE IInv'
  <2>0. /\ BookCapped(d, a) /\ a \in 0..Amount
        /\ dispute' = [dispute EXCEPT ![d] = "done"]
        /\ UNCHANGED <<denied, updated, recorded, outbox, procs, stripe, settled, mishaps>>
    BY <1>3, AmountAssumption DEF BookDispute
  <2>1. /\ LedgerTypes' /\ OutboxTypes' /\ StripeTypes' /\ Grows
        /\ LedgerHolds' /\ StripeHolds' /\ BatchesHold'
    BY <2>0, <1>b, OtherBookingKeeps DEF procs
  <2>2. ProcTypes' /\ OtherTypes'
    BY <1>t, <2>0 DEF ProcTypes, OtherTypes, procs
  <2>3. ProcsHold'
    BY <2>0, <2>1, ProcsKept DEF procs
  <2> QED BY <2>1, <2>2, <2>3, Assembled
<1>4. ASSUME NEW d \in Disputes, CheckDispute(d) \/ DisputeUnbooked(d) PROVE IInv'
  <2>0. /\ \E x \in {"done", "checked", "lost"} : dispute' = [dispute EXCEPT ![d] = x]
        /\ UNCHANGED <<ledger, outbox, procs, stripe, settled, mishaps>>
    BY <1>4 DEF CheckDispute, DisputeUnbooked
  <2> QED BY <1>t, <2>0, DisputesKeep DEF OtherTypes
<1> QED BY <1>1, <1>2, <1>3, <1>4 DEF Webhooks

----------------------------------------------------------------------------
LEMMA WorkKeeps ==
  ASSUME IInv, NEW p \in Processes, Work(p)
  PROVE  IInv'
BY CreateKeeps, CreateFailsKeeps, FinalizeKeeps, MarkSentKeeps, MarkFailedKeeps,
   DenyKeeps, KillKeeps DEF Work

LEMMA StepIInv == IInv /\ [Next]_vars => IInv'
<1> SUFFICES ASSUME IInv, [Next]_vars PROVE IInv'
  OBVIOUS
<1>1. CASE Administrators
  <2>1. \A c \in Calls : c \in Processes
    BY Keys
  <2> QED BY <1>1, <2>1, WorkKeeps, BookRefundKeeps, RepeatRefundKeeps, BookChargebackKeeps
          DEF Administrators
<1>2. CASE Webhooks
  BY <1>2, WebhooksKeep
<1>3. CASE Provider
  BY <1>3, ProviderKeeps
<1>4. CASE \E w \in Workers : Run(w)
  <2>1. \A w \in Workers : w \in Processes
    BY Keys
  <2> QED BY <1>4, <2>1, WorkKeeps, ClaimKeeps, TakeRowKeeps DEF Run
<1>5. CASE \E p \in Processes : Crash(p)
  BY <1>5, CrashKeeps
<1>6. CASE UNCHANGED vars
  <2>1. OtherTypes
    BY TypeParts DEF IInv
  <2> QED BY <1>6, <2>1, DisputesKeep DEF vars, others, OtherTypes
<1> QED BY <1>1, <1>2, <1>3, <1>4, <1>5, <1>6 DEF Next

LEMMA Invariance == Spec => []IInv
<1> QED BY InitIInv, StepIInv, PTL DEF Spec

\* Every variable keeps its type, for any calls, runs, refunds and disputes.
THEOREM TypeCorrect == Spec => []TypeOK
<1>1. IInv => TypeOK
  BY DEF IInv
<1> QED BY Invariance, <1>1, PTL

\* A refund that reads COMPLETED was made at Stripe for this booking and of its amount
\* (finalizeRefundReversal, by whichever process).
THEOREM CompletedWasRefunded == Spec => []CompletedIsRefunded
<1>1. IInv => CompletedIsRefunded
  <2> SUFFICES ASSUME IInv, NEW k \in RefundKeys, status[k] = "COMPLETED"
               PROVE  \E r \in Refunds : /\ recorded[k] = r /\ made[r] = k
                                         /\ paid[r] = booked[k]
    BY DEF CompletedIsRefunded
  <2>1. LedgerTypes /\ LedgerHolds /\ StripeHolds
    BY TypeParts DEF IInv
  <2>2. recorded[k] \in Refunds /\ made[recorded[k]] = k
    BY <2>1 DEF LedgerTypes, LedgerHolds
  <2>3. paid[recorded[k]] = k.amount /\ booked[k] = k.amount
    BY <2>1, <2>2 DEF LedgerHolds, StripeHolds
  <2> QED BY <2>2, <2>3
<1> QED BY Invariance, <1>1, PTL

\* No row is closed as SENT before its refund is recorded (the outbox's marks).
THEOREM SentWasRecorded == Spec => []SentIsRecorded
<1>1. IInv => SentIsRecorded
  BY DEF IInv, LedgerHolds, SentIsRecorded
<1> QED BY Invariance, <1>1, PTL

----------------------------------------------------------------------------
LEMMA StepEndsOnce ==
  ASSUME IInv, Next, NEW k \in RefundKeys, row[k] \in {"SENT", "DEAD"}
  PROVE  row'[k] = row[k]
<1>t. OutboxTypes
  BY TypeParts DEF IInv
<1>m. ASSUME NEW j, NEW as, MarkRow(j, as), j = k => as = row[k] PROVE row'[k] = row[k]
  BY <1>t, <1>m DEF OutboxTypes, MarkRow
<1>u. UNCHANGED row => row'[k] = row[k]
  OBVIOUS
<1>1. ASSUME NEW p \in Processes, Work(p) PROVE row'[k] = row[k]
  <2>1. CASE Create(p) \/ CreateFails(p) \/ Finalize(p) \/ (p \in Calls /\ Deny(p))
    BY <2>1 DEF Create, CreateFails, Finalize, Deny, outbox
  <2>2. CASE MarkSent(p)
    BY <2>2, <1>m DEF MarkSent, Sendable
  <2>3. CASE MarkFailed(p)
    BY <2>3, <1>m DEF MarkFailed, Failable
  <2>4. CASE p \in Calls /\ Kill(p)
    BY <1>t, <2>4 DEF Kill, OutboxTypes
  <2> QED BY <1>1, <2>1, <2>2, <2>3, <2>4 DEF Work
<1>2. ASSUME NEW c \in Calls, NEW j \in RefundKeys, BookRefund(c, j) \/ RepeatRefund(c, j)
      PROVE  row'[k] = row[k]
  BY <1>t, <1>2 DEF BookRefund, RepeatRefund, Queue, OutboxTypes
<1>3. ASSUME NEW c \in Calls, NEW j \in Chargebacks, BookChargeback(c, j)
      PROVE  row'[k] = row[k]
  BY <1>3 DEF BookChargeback, outbox
<1>4. ASSUME NEW w \in Workers, NEW ks \in SUBSET RefundKeys, Claim(w, ks)
      PROVE  row'[k] = row[k]
  BY <1>4 DEF Claim, Due
<1>5. ASSUME NEW w \in Workers, NEW j \in RefundKeys, TakeRow(w, j) PROVE row'[k] = row[k]
  BY <1>5 DEF TakeRow, outbox
<1>6. ASSUME Webhooks PROVE UNCHANGED row
  BY <1>6 DEF Webhooks, ChargeRefunded, RefundUpdated, CheckDispute, DisputeUnbooked,
              BookDispute, outbox
<1>7. ASSUME Provider PROVE UNCHANGED row
  BY <1>7 DEF Provider, Settle, RefundElsewhere, RefundMoves, ForgetKey, LoseDispute, outbox
<1>8. ASSUME NEW p \in Processes, Crash(p) PROVE UNCHANGED row
  BY <1>8 DEF Crash, outbox
<1>9. CASE Administrators
  <2>1. \A c \in Calls : c \in Processes
    BY Keys
  <2> QED BY <1>1, <1>2, <1>3, <1>9, <2>1 DEF Administrators
<1>10. CASE \E w \in Workers : Run(w)
  <2>1. \A w \in Workers : w \in Processes
    BY Keys
  <2> QED BY <1>1, <1>4, <1>5, <1>10, <2>1 DEF Run
<1> QED BY <1>u, <1>6, <1>7, <1>8, <1>9, <1>10 DEF Next

\* A row that is SENT or DEAD stays so, for any number of requests and runs that mark it.
THEOREM RowsEndForGood == Spec => RowsEndOnce
<1>1. IInv /\ [Next]_vars
        => [\A k \in RefundKeys : row[k] \in {"SENT", "DEAD"} => row'[k] = row[k]]_vars
  BY StepEndsOnce
<1> QED BY <1>1, Invariance, PTL DEF Spec, RowsEndOnce

----------------------------------------------------------------------------
Asked == {k \in RefundKeys : booked[k] # 0}
Remembered == {k \in RefundKeys : kept[k] # None}
promised == <<Asked, made, Remembered, recorded>>

LEMMA BookingAsks ==
  ASSUME IInv, UNCHANGED <<made, kept, recorded>>,
         \E k \in RefundKeys : \A j \in RefundKeys \ {k} : booked'[j] = booked[j],
         \A k \in RefundKeys : booked[k] # 0 => booked'[k] = booked[k]
  PROVE  [Promised!Next]_promised
<1>1. PICK k \in RefundKeys : \A j \in RefundKeys \ {k} : booked'[j] = booked[j]
  OBVIOUS
<1>2. Asked' = Asked \/ Asked' = Asked \cup {k}
  BY <1>1 DEF Asked
<1>3. Remembered' = Remembered
  BY DEF Remembered
<1>4. CASE Asked' = Asked
  BY <1>3, <1>4 DEF promised
<1>5. CASE Asked' = Asked \cup {k}
  <2>1. Promised!Ask(k)
    BY <1>3, <1>5 DEF Promised!Ask, Asked, Remembered
  <2> QED BY <2>1 DEF Promised!Next
<1> QED BY <1>2, <1>4, <1>5

\* Steps that the promise does not see.
LEMMA Unseen ==
  ASSUME UNCHANGED <<made, kept, recorded>>,
         \A k \in RefundKeys : booked'[k] = booked[k]
  PROVE  UNCHANGED promised
BY DEF promised, Asked, Remembered

LEMMA CreateRefunds ==
  ASSUME IInv, NEW p \in Processes, Create(p)
  PROVE  [Promised!Next]_promised
<1> DEFINE k == job[p]
<1>t. LedgerTypes /\ StripeTypes /\ ProcHolds(p)
  BY TypeParts DEF IInv, ProcsHold
<1>0. PICK r \in Refunds :
        /\ at[p] = "create" /\ UNCHANGED ledger
        /\ \/ UNCHANGED stripe
           \/ /\ kept[k] = None /\ made[r] = None
              /\ made' = [made EXCEPT ![r] = k] /\ kept' = [kept EXCEPT ![k] = r]
  BY DEF Create, StripeKey
<1>1. CASE UNCHANGED stripe
  <2>1. UNCHANGED <<made, kept, recorded>> /\ UNCHANGED booked
    BY <1>0, <1>1 DEF ledger, stripe
  <2> QED BY <2>1, Unseen
<1>2. CASE /\ kept[k] = None /\ made[r] = None
           /\ made' = [made EXCEPT ![r] = k] /\ kept' = [kept EXCEPT ![k] = r]
  <2>1. k \in RefundKeys /\ booked[k] # 0
    BY <1>t, <1>0 DEF ProcHolds
  <2>2. Asked' = Asked /\ k \in Asked /\ k \notin Remembered /\ UNCHANGED recorded
    BY <1>0, <1>2, <2>1 DEF Asked, Remembered, ledger
  <2>3. /\ kept'[k] = r
        /\ \A j \in RefundKeys \ {k} : kept'[j] = kept[j]
    BY <1>t, <1>2, <2>1 DEF StripeTypes
  <2>4. Remembered' = Remembered \cup {k}
    BY <2>1, <2>3, Keys DEF Remembered
  <2> HIDE DEF k
  <2>5. Promised!Refund(k, r)
    BY <1>2, <2>2, <2>4 DEF Promised!Refund, Asked, Remembered
  <2> QED BY <2>1, <2>5 DEF Promised!Next
<1> QED BY <1>0, <1>1, <1>2

LEMMA FinalizeRecords ==
  ASSUME IInv, NEW p \in Processes, Finalize(p)
  PROVE  [Promised!Next]_promised
<1>t. ProcHolds(p)
  BY DEF IInv, ProcsHold
<1>0. /\ at[p] = "finalize" /\ UNCHANGED <<booked, made, kept>>
      /\ \/ recorded[job[p]] = None /\ recorded' = [recorded EXCEPT ![job[p]] = got[p]]
         \/ UNCHANGED recorded
  BY DEF Finalize, Unrecorded, stripe
<1>1. CASE UNCHANGED recorded
  BY <1>0, <1>1, Unseen
<1>2. CASE recorded[job[p]] = None /\ recorded' = [recorded EXCEPT ![job[p]] = got[p]]
  <2>1. job[p] \in RefundKeys /\ got[p] \in Refunds /\ made[got[p]] = job[p]
    BY <1>t, <1>0 DEF ProcHolds
  <2>2. Asked' = Asked /\ Remembered' = Remembered
    BY <1>0 DEF Asked, Remembered
  <2>3. Promised!Record(job[p], got[p])
    BY <1>0, <1>2, <2>1, <2>2 DEF Promised!Record, Asked, Remembered
  <2> QED BY <2>1, <2>3 DEF Promised!Next
<1> QED BY <1>0, <1>1, <1>2

\* A step of the requests, the runs, Stripe or its webhooks is a step of the promise or
\* none of it.
LEMMA StepKeepsPromise == IInv /\ [Next]_vars => [Promised!Next]_promised
<1> SUFFICES ASSUME IInv, [Next]_vars PROVE [Promised!Next]_promised
  OBVIOUS
<1>t. LedgerTypes /\ StripeTypes
  BY TypeParts DEF IInv
<1>u. UNCHANGED <<booked, made, kept, recorded>> => UNCHANGED promised
  BY Unseen
<1>b. ASSUME NEW b \in Bookings \ RefundKeys, NEW x, NEW as, Book(b, x, as),
             UNCHANGED <<made, kept, recorded>>
      PROVE  UNCHANGED promised
  <2>1. \A k \in RefundKeys : booked'[k] = booked[k]
    BY <1>t, <1>b, Keys DEF LedgerTypes, Book
  <2> QED BY <1>b, <2>1, Unseen
<1>1. ASSUME NEW p \in Processes, Work(p) PROVE [Promised!Next]_promised
  <2>1. CASE \/ CreateFails(p) \/ MarkSent(p) \/ MarkFailed(p)
             \/ (p \in Calls /\ (Deny(p) \/ Kill(p)))
    BY <2>1, <1>u DEF CreateFails, MarkSent, MarkFailed, Deny, Kill, ledger, stripe
  <2> QED BY <1>1, <2>1, CreateRefunds, FinalizeRecords DEF Work
<1>2. ASSUME NEW c \in Calls, NEW k \in RefundKeys, BookRefund(c, k)
      PROVE  [Promised!Next]_promised
  <2>1. /\ UNCHANGED <<made, kept, recorded>> /\ booked[k] = 0
        /\ booked' = [booked EXCEPT ![k] = k.amount]
    BY <1>2 DEF BookRefund, Book, stripe
  <2>2. \A j \in RefundKeys \ {k} : booked'[j] = booked[j]
    BY <1>t, <2>1, Keys DEF LedgerTypes
  <2> QED BY <2>1, <2>2, BookingAsks
<1>3. ASSUME NEW c \in Calls, NEW k \in RefundKeys, RepeatRefund(c, k)
      PROVE  UNCHANGED promised
  BY <1>3, <1>u DEF RepeatRefund, ledger, stripe
<1>4. ASSUME NEW c \in Calls, NEW k \in Chargebacks, BookChargeback(c, k)
      PROVE  UNCHANGED promised
  <2>1. k \in Bookings \ RefundKeys
    BY Keys
  <2> QED BY <1>4, <2>1, <1>b DEF BookChargeback, stripe
<1>5. ASSUME NEW w \in Workers, NEW ks \in SUBSET RefundKeys, Claim(w, ks)
      PROVE  UNCHANGED promised
  BY <1>5, <1>u DEF Claim, ledger, stripe
<1>6. ASSUME NEW w \in Workers, NEW k \in RefundKeys, TakeRow(w, k) PROVE UNCHANGED promised
  BY <1>6, <1>u DEF TakeRow, ledger, stripe
<1>7. ASSUME NEW p \in Processes, Crash(p) PROVE UNCHANGED promised
  BY <1>7, <1>u DEF Crash, ledger, stripe
<1>8. ASSUME Webhooks PROVE UNCHANGED promised
  <2>1. ASSUME NEW r \in Refunds, ChargeRefunded(r) PROVE UNCHANGED promised
    <3>1. r \in Bookings \ RefundKeys
      BY Keys
    <3> QED BY <2>1, <3>1, <1>b DEF ChargeRefunded, BookCapped, stripe
  <2>2. ASSUME NEW r \in Refunds, NEW s, RefundUpdated(r, s) PROVE UNCHANGED promised
    BY <2>2, <1>u DEF RefundUpdated, stripe
  <2>3. ASSUME NEW d \in Disputes, NEW a, BookDispute(d, a) PROVE UNCHANGED promised
    <3>1. d \in Bookings \ RefundKeys
      BY Keys
    <3> QED BY <2>3, <3>1, <1>b DEF BookDispute, BookCapped, stripe
  <2>4. ASSUME NEW d \in Disputes, CheckDispute(d) \/ DisputeUnbooked(d)
        PROVE  UNCHANGED promised
    BY <2>4, <1>u DEF CheckDispute, DisputeUnbooked, ledger, stripe
  <2> QED BY <1>8, <2>1, <2>2, <2>3, <2>4 DEF Webhooks
<1>9. ASSUME Provider PROVE [Promised!Next]_promised
  <2>1. ASSUME NEW r \in Refunds, NEW a, RefundElsewhere(r, a) PROVE Promised!Elsewhere(r)
    <3>1. Asked' = Asked /\ Remembered' = Remembered
      BY <2>1 DEF RefundElsewhere, Asked, Remembered, ledger
    <3> QED BY <2>1, <3>1 DEF RefundElsewhere, Promised!Elsewhere, Asked, Remembered, ledger
  <2>2. ASSUME NEW k \in RefundKeys, ForgetKey(k) PROVE Promised!Forget(k)
    <3>1. /\ UNCHANGED <<ledger, made>> /\ kept' = [kept EXCEPT ![k] = None]
      BY <2>2 DEF ForgetKey
    <3>2. Asked' = Asked /\ UNCHANGED recorded
      BY <3>1 DEF Asked, ledger
    <3>3. Remembered' = Remembered \ {k}
      BY <1>t, <3>1 DEF Remembered, StripeTypes
    <3> QED BY <3>1, <3>2, <3>3 DEF Promised!Forget, Asked, Remembered
  <2>3. ASSUME NEW r \in Refunds, NEW s, RefundMoves(r, s) PROVE UNCHANGED promised
    BY <2>3, <1>u DEF RefundMoves, ledger
  <2>4. CASE Settle \/ \E d \in Disputes : LoseDispute(d)
    BY <2>4, <1>u DEF Settle, LoseDispute, ledger, stripe
  <2> QED BY <1>9, <2>1, <2>2, <2>3, <2>4 DEF Provider, Promised!Next
<1>10. CASE UNCHANGED vars
  BY <1>10, <1>u DEF vars, ledger, stripe
<1>11. CASE Administrators
  <2>1. \A c \in Calls : c \in Processes
    BY Keys
  <2> QED BY <1>1, <1>2, <1>3, <1>4, <1>11, <2>1 DEF Administrators
<1>12. CASE \E w \in Workers : Run(w)
  <2>1. \A w \in Workers : w \in Processes
    BY Keys
  <2> QED BY <1>1, <1>5, <1>6, <1>12, <2>1 DEF Run
<1> QED BY <1>7, <1>8, <1>9, <1>10, <1>11, <1>12 DEF Next

\* Requests and runs implement RefundPromise, through crashes, forgotten keys and
\* replies that are lost.
THEOREM KeepsPromise == Spec => Promise
<1>1. Init => Promised!Init
  <2> SUFFICES ASSUME Init PROVE Promised!Init
    OBVIOUS
  <2>1. Asked = {} /\ Remembered = {}
    BY Keys DEF Init, Asked, Remembered
  <2> QED BY <2>1 DEF Init, Promised!Init, Asked, Remembered
<1>2. promised = <<{k \in RefundKeys : booked[k] # 0}, made,
                   {k \in RefundKeys : kept[k] # None}, recorded>>
  BY DEF promised, Asked, Remembered
<1> QED BY <1>1, <1>2, Invariance, StepKeepsPromise, PTL
        DEF Spec, Promise, Promised!Spec, Promised!vars, promised, Asked, Remembered

----------------------------------------------------------------------------
\* What the amounts of the bookings of a set come to, and how FoldFunctionOnSet goes
\* about it: of each set it takes one element, and the rest.
Total(f, S) == FoldFunctionOnSet(LAMBDA x, y : x + y, 0, f, S)

Pick(s) == CHOOSE x \in s : TRUE

Folds(f, S, it) ==
  it = [s \in SUBSET S |-> IF s = {} THEN 0 ELSE f[Pick(s)] + it[s \ {Pick(s)}]]

FoldOf(f, S) == CHOOSE it : Folds(f, S, it)

LEMMA TotalIsFold ==
  ASSUME NEW f, NEW S
  PROVE  Total(f, S) = FoldOf(f, S)[S]
BY DEF Total, FoldFunctionOnSet, MapThenFoldSet, FoldOf, Folds, Pick

\* Induction over the subsets of a finite set, as a least counterexample.
LEMMA LeastSubset ==
  ASSUME NEW S, IsFiniteSet(S), NEW C, C \subseteq SUBSET S, C # {}
  PROVE  \E T \in C : \A U \in C : U \subseteq T => U = T
<1>1. FiniteSubsetsOf(S) = SUBSET S
  BY FS_FiniteSubsetsOfFinite
<1>2. IsWellFoundedOn(StrictSubsetOrdering(S), SUBSET S)
  BY <1>1, FS_StrictSubsetOrderingWellFounded
<1>3. PICK T \in C : \A U \in C : ~(<<U, T>> \in StrictSubsetOrdering(S))
  BY <1>2, WFMin
<1>4. \A U \in C : U \subseteq T => U = T
  BY <1>3 DEF StrictSubsetOrdering
<1> QED BY <1>4

LEMMA PickIn ==
  ASSUME NEW s, s # {}
  PROVE  Pick(s) \in s
BY DEF Pick

LEMMA FoldsAt ==
  ASSUME NEW f, NEW S, NEW it, Folds(f, S, it), NEW s \in SUBSET S
  PROVE  it[s] = IF s = {} THEN 0 ELSE f[Pick(s)] + it[s \ {Pick(s)}]
BY DEF Folds

LEMMA FoldsAgree ==
  ASSUME NEW f, NEW S, IsFiniteSet(S), NEW R, NEW Q, NEW a, NEW b,
         Folds(f, R, a), Folds(f, Q, b), S \subseteq R, S \subseteq Q
  PROVE  \A s \in SUBSET S : a[s] = b[s]
<1> DEFINE C == {s \in SUBSET S : a[s] # b[s]}
<1> SUFFICES ASSUME C # {} PROVE FALSE
  OBVIOUS
<1>1. PICK T \in C : \A U \in C : U \subseteq T => U = T
  <2>1. C \subseteq SUBSET S
    OBVIOUS
  <2> HIDE DEF C
  <2> QED BY <2>1, LeastSubset
<1>2. T \in SUBSET S /\ a[T] # b[T] /\ T \in SUBSET R /\ T \in SUBSET Q
  OBVIOUS
<1>3. T # {}
  BY <1>2, FoldsAt
<1>4. Pick(T) \in T
  BY <1>3, PickIn
<1>5. a[T \ {Pick(T)}] = b[T \ {Pick(T)}]
  BY <1>1, <1>2, <1>4
<1>6. /\ a[T] = f[Pick(T)] + a[T \ {Pick(T)}]
      /\ b[T] = f[Pick(T)] + b[T \ {Pick(T)}]
  BY <1>2, <1>3, FoldsAt
<1> QED BY <1>2, <1>5, <1>6

LEMMA FoldExists ==
  ASSUME NEW f, NEW S, IsFiniteSet(S)
  PROVE  \E it : Folds(f, S, it)
<1> DEFINE C == {s \in SUBSET S : ~ \E it : Folds(f, s, it)}
<1> SUFFICES ASSUME C # {} PROVE FALSE
  OBVIOUS
<1>1. PICK T \in C : \A U \in C : U \subseteq T => U = T
  <2>1. C \subseteq SUBSET S
    OBVIOUS
  <2> HIDE DEF C
  <2> QED BY <2>1, LeastSubset
<1>2. T \in SUBSET S /\ ~ \E it : Folds(f, T, it)
  OBVIOUS
<1>3. ASSUME NEW u \in SUBSET T, u # T PROVE Folds(f, u, FoldOf(f, u)) /\ IsFiniteSet(u)
  <2>1. u \in SUBSET S /\ u \notin C
    BY <1>1, <1>2, <1>3
  <2>2. \E it : Folds(f, u, it)
    BY <2>1
  <2>3. Folds(f, u, FoldOf(f, u))
    BY <2>2 DEF FoldOf
  <2> QED BY <2>1, <2>3, FS_Subset
<1> DEFINE it == [s \in SUBSET T |->
                    IF s = {} THEN 0
                    ELSE f[Pick(s)] + FoldOf(f, s \ {Pick(s)})[s \ {Pick(s)}]]
<1>4. ASSUME NEW u \in SUBSET T, u # T PROVE it[u] = FoldOf(f, u)[u]
  <2>1. Folds(f, u, FoldOf(f, u)) /\ u \in SUBSET u
    BY <1>3, <1>4
  <2>2. FoldOf(f, u)[u] = IF u = {} THEN 0 ELSE f[Pick(u)] + FoldOf(f, u)[u \ {Pick(u)}]
    BY <2>1, FoldsAt
  <2>3. CASE u = {}
    BY <2>2, <2>3
  <2>4. CASE u # {}
    <3> DEFINE v == u \ {Pick(u)}
    <3>1. Pick(u) \in u
      BY <2>4, PickIn
    <3>2. v \in SUBSET T /\ v # T /\ v \subseteq u
      BY <3>1
    <3>3. Folds(f, v, FoldOf(f, v)) /\ IsFiniteSet(v)
      BY <3>2, <1>3
    <3>4. v \subseteq v /\ v \in SUBSET v
      OBVIOUS
    <3> HIDE DEF v
    <3>5. \A s \in SUBSET v : FoldOf(f, u)[s] = FoldOf(f, v)[s]
      BY <2>1, <3>2, <3>3, <3>4, FoldsAgree
    <3>6. FoldOf(f, u)[v] = FoldOf(f, v)[v]
      BY <3>4, <3>5
    <3> QED BY <2>2, <2>4, <3>6 DEF v
  <2> QED BY <2>3, <2>4
<1>5. ASSUME NEW s \in SUBSET T
      PROVE  it[s] = IF s = {} THEN 0 ELSE f[Pick(s)] + it[s \ {Pick(s)}]
  <2>1. CASE s = {}
    BY <2>1
  <2>2. CASE s # {}
    <3>1. Pick(s) \in s
      BY <2>2, PickIn
    <3>2. s \ {Pick(s)} \in SUBSET T /\ s \ {Pick(s)} # T
      BY <3>1
    <3>3. it[s \ {Pick(s)}] = FoldOf(f, s \ {Pick(s)})[s \ {Pick(s)}]
      BY <3>2, <1>4
    <3> QED BY <2>2, <3>3
  <2> QED BY <2>1, <2>2
<1>6. it = [s \in SUBSET T |-> it[s]]
  OBVIOUS
<1> HIDE DEF it
<1>7. Folds(f, T, it)
  BY <1>5, <1>6 DEF Folds
<1> QED BY <1>2, <1>7

\* A sum over a finite set is the sum over the rest, and the one that was picked.
LEMMA TotalPicks ==
  ASSUME NEW f, NEW S, IsFiniteSet(S)
  PROVE  /\ S = {} => Total(f, S) = 0
         /\ S # {} => Total(f, S) = f[Pick(S)] + Total(f, S \ {Pick(S)})
<1>1. Folds(f, S, FoldOf(f, S))
  BY FoldExists DEF FoldOf
<1>2. FoldOf(f, S)[S] = IF S = {} THEN 0
                        ELSE f[Pick(S)] + FoldOf(f, S)[S \ {Pick(S)}]
  BY <1>1, FoldsAt
<1> DEFINE v == S \ {Pick(S)}
<1>3. v \in SUBSET S /\ v \subseteq v /\ v \in SUBSET v
  OBVIOUS
<1> HIDE DEF v
<1>4. IsFiniteSet(v)
  BY <1>3, FS_Subset
<1>5. Folds(f, v, FoldOf(f, v))
  BY <1>4, FoldExists DEF FoldOf
<1>6. FoldOf(f, S)[v] = FoldOf(f, v)[v]
  <2>1. \A s \in SUBSET v : FoldOf(f, S)[s] = FoldOf(f, v)[s]
    BY <1>1, <1>3, <1>4, <1>5, FoldsAgree
  <2> QED BY <1>3, <2>1
<1>7. FoldOf(f, S)[v] = Total(f, v) /\ Total(f, S) = FoldOf(f, S)[S]
  BY <1>6, TotalIsFold
<1> QED BY <1>2, <1>7 DEF v

LEMMA TotalInt ==
  ASSUME NEW f, NEW S, IsFiniteSet(S), \A x \in S : f[x] \in Int
  PROVE  Total(f, S) \in Int
<1> DEFINE C == {s \in SUBSET S : Total(f, s) \notin Int}
<1> SUFFICES ASSUME C # {} PROVE FALSE
  <2>1. S \notin C => Total(f, S) \in Int
    OBVIOUS
  <2> QED BY <2>1
<1>1. PICK T \in C : \A U \in C : U \subseteq T => U = T
  <2>1. C \subseteq SUBSET S
    OBVIOUS
  <2> HIDE DEF C
  <2> QED BY <2>1, LeastSubset
<1>2. T \in SUBSET S /\ Total(f, T) \notin Int
  OBVIOUS
<1>3. IsFiniteSet(T)
  BY <1>2, FS_Subset
<1>4. T # {}
  BY <1>2, <1>3, TotalPicks
<1>5. Pick(T) \in T
  BY <1>4, PickIn
<1>6. Total(f, T \ {Pick(T)}) \in Int
  BY <1>1, <1>2, <1>5
<1>7. Total(f, T) = f[Pick(T)] + Total(f, T \ {Pick(T)})
  BY <1>3, <1>4, TotalPicks
<1> QED BY <1>2, <1>5, <1>6, <1>7

\* A sum does not depend on the order in which the elements are picked.
LEMMA TotalTakes ==
  ASSUME NEW f, NEW S, IsFiniteSet(S), \A x \in S : f[x] \in Int
  PROVE  \A x \in S : Total(f, S) = f[x] + Total(f, S \ {x})
<1> DEFINE C == {s \in SUBSET S : \E x \in s : Total(f, s) # f[x] + Total(f, s \ {x})}
<1> SUFFICES ASSUME C # {} PROVE FALSE
  <2>1. S \in SUBSET S
    OBVIOUS
  <2>2. S \notin C => \A x \in S : Total(f, S) = f[x] + Total(f, S \ {x})
    BY <2>1
  <2> QED BY <2>2
<1>1. PICK T \in C : \A U \in C : U \subseteq T => U = T
  <2>1. C \subseteq SUBSET S
    OBVIOUS
  <2> HIDE DEF C
  <2> QED BY <2>1, LeastSubset
<1>2. PICK x \in T : Total(f, T) # f[x] + Total(f, T \ {x})
  OBVIOUS
<1>3. ASSUME NEW U \in SUBSET T, U # T, NEW y \in U
      PROVE  Total(f, U) = f[y] + Total(f, U \ {y})
  <2>1. U \in SUBSET S /\ U \notin C
    BY <1>1, <1>3
  <2> QED BY <2>1
<1> DEFINE p == Pick(T)
           rest == (T \ {p}) \ {x}
<1>4. T \in SUBSET S /\ IsFiniteSet(T) /\ T # {} /\ p \in T
  BY FS_Subset, PickIn
<1>5. Total(f, T) = f[p] + Total(f, T \ {p})
  BY <1>4, TotalPicks
<1>6. p # x
  BY <1>2, <1>5
<1>7. Total(f, T \ {p}) = f[x] + Total(f, rest)
  BY <1>3, <1>4, <1>6
<1>8. Total(f, T \ {x}) = f[p] + Total(f, rest)
  <2>1. (T \ {x}) \ {p} = rest /\ p \in T \ {x} /\ T \ {x} # T /\ T \ {x} \in SUBSET T
    BY <1>4, <1>6
  <2>2. Total(f, T \ {x}) = f[p] + Total(f, (T \ {x}) \ {p})
    BY <1>3, <2>1
  <2> QED BY <2>1, <2>2
<1>9. f[x] \in Int /\ f[p] \in Int /\ rest \in SUBSET S
  BY <1>4
<1>10. Total(f, rest) \in Int
  <2>1. IsFiniteSet(rest) /\ \A y \in rest : f[y] \in Int
    BY <1>9, FS_Subset
  <2> HIDE DEF rest
  <2> QED BY <2>1, TotalInt
<1> QED BY <1>2, <1>5, <1>7, <1>8, <1>9, <1>10

\* What is 0 does not count.
LEMMA TotalZeros ==
  ASSUME NEW f, NEW S, IsFiniteSet(S), \A x \in S : f[x] \in Int,
         NEW R \in SUBSET S, \A x \in S \ R : f[x] = 0
  PROVE  Total(f, S) = Total(f, R)
<1> DEFINE C == {s \in SUBSET S : R \subseteq s /\ Total(f, s) # Total(f, R)}
<1> SUFFICES ASSUME C # {} PROVE FALSE
  <2>1. S \in SUBSET S /\ R \subseteq S
    OBVIOUS
  <2> QED BY <2>1
<1>1. PICK T \in C : \A U \in C : U \subseteq T => U = T
  <2>1. C \subseteq SUBSET S
    OBVIOUS
  <2> HIDE DEF C
  <2> QED BY <2>1, LeastSubset
<1>2. T \in SUBSET S /\ R \subseteq T /\ Total(f, T) # Total(f, R)
  OBVIOUS
<1>3. PICK x \in T : x \notin R
  BY <1>2
<1>4. Total(f, T \ {x}) = Total(f, R)
  <2>1. T \ {x} \in SUBSET S /\ R \subseteq T \ {x} /\ T \ {x} # T
    BY <1>2, <1>3
  <2> QED BY <1>1, <2>1
<1>5. IsFiniteSet(T) /\ IsFiniteSet(R) /\ (\A y \in T : f[y] \in Int) /\ \A y \in R : f[y] \in Int
  BY <1>2, FS_Subset
<1>6. Total(f, T) = f[x] + Total(f, T \ {x})
  BY <1>5, TotalTakes
<1>7. f[x] = 0 /\ Total(f, R) \in Int
  BY <1>2, <1>3, <1>5, TotalInt
<1> QED BY <1>2, <1>4, <1>6, <1>7

\* Of amounts that are not negative, more add up to more.
LEMMA TotalGrows ==
  ASSUME NEW f, NEW S, IsFiniteSet(S), \A x \in S : f[x] \in Nat, NEW R \in SUBSET S
  PROVE  Total(f, R) <= Total(f, S)
<1> DEFINE C == {s \in SUBSET S : R \subseteq s /\ ~(Total(f, R) <= Total(f, s))}
<1> SUFFICES ASSUME C # {} PROVE FALSE
  <2>1. S \in SUBSET S /\ R \subseteq S
    OBVIOUS
  <2> QED BY <2>1
<1>1. PICK T \in C : \A U \in C : U \subseteq T => U = T
  <2>1. C \subseteq SUBSET S
    OBVIOUS
  <2> HIDE DEF C
  <2> QED BY <2>1, LeastSubset
<1>2. T \in SUBSET S /\ R \subseteq T /\ ~(Total(f, R) <= Total(f, T))
  OBVIOUS
<1>3. /\ IsFiniteSet(T) /\ IsFiniteSet(R)
      /\ (\A y \in T : f[y] \in Int) /\ \A y \in R : f[y] \in Int
  BY <1>2, FS_Subset
<1>4. Total(f, R) \in Int /\ Total(f, T) \in Int
  BY <1>3, TotalInt
<1>5. PICK x \in T : x \notin R
  BY <1>2, <1>4
<1>6. Total(f, R) <= Total(f, T \ {x})
  <2>1. T \ {x} \in SUBSET S /\ R \subseteq T \ {x} /\ T \ {x} # T
    BY <1>2, <1>5
  <2> QED BY <1>1, <2>1
<1>7. Total(f, T) = f[x] + Total(f, T \ {x}) /\ f[x] \in Nat
  BY <1>2, <1>3, TotalTakes
<1>8. Total(f, T \ {x}) \in Int
  <2>1. IsFiniteSet(T \ {x}) /\ \A y \in T \ {x} : f[y] \in Int
    BY <1>3, FS_RemoveElement
  <2> QED BY <2>1, TotalInt
<1> QED BY <1>2, <1>4, <1>6, <1>7, <1>8

\* Only the amounts of the set's elements matter.
LEMMA TotalSame ==
  ASSUME NEW f, NEW g, NEW S, IsFiniteSet(S), \A x \in S : f[x] = g[x]
  PROVE  Total(f, S) = Total(g, S)
<1> DEFINE C == {s \in SUBSET S : Total(f, s) # Total(g, s)}
<1> SUFFICES ASSUME C # {} PROVE FALSE
  <2>1. S \in SUBSET S
    OBVIOUS
  <2> QED BY <2>1
<1>1. PICK T \in C : \A U \in C : U \subseteq T => U = T
  <2>1. C \subseteq SUBSET S
    OBVIOUS
  <2> HIDE DEF C
  <2> QED BY <2>1, LeastSubset
<1>2. T \in SUBSET S /\ Total(f, T) # Total(g, T)
  OBVIOUS
<1>3. IsFiniteSet(T)
  BY <1>2, FS_Subset
<1>4. T # {} /\ Pick(T) \in T
  BY <1>2, <1>3, TotalPicks, PickIn
<1>5. Total(f, T \ {Pick(T)}) = Total(g, T \ {Pick(T)})
  BY <1>1, <1>2, <1>4
<1>6. /\ Total(f, T) = f[Pick(T)] + Total(f, T \ {Pick(T)})
      /\ Total(g, T) = g[Pick(T)] + Total(g, T \ {Pick(T)})
  BY <1>3, <1>4, TotalPicks
<1> QED BY <1>2, <1>4, <1>5, <1>6

----------------------------------------------------------------------------
\* The sums of the ledger.  A booking that is not there counts for nothing, and what is
\* about to be booked for a dispute is not there.
Absent ==
  /\ \A b \in Bookings : status[b] = "none" => booked[b] = 0
  /\ \A d \in Disputes : dispute[d] # "done" => booked[d] = 0

SumInv == IInv /\ Absent

Standings == {b \in Bookings : status[b] # "DENIED"}
Counting == {b \in Bookings : status[b] \in Counted}

LEMMA SumsAreTotals ==
  /\ Standing = Total(booked, Standings)
  /\ Standing' = Total(booked', Standings')
  /\ Remaining = Amount - Total(booked, Counting)
<1>1. Standing = Total(booked, Standings)
  BY DEF Standing, Standings, Total
<1>2. Standing' = Total(booked', Standings')
  BY DEF Standing, Standings, Total, FoldFunctionOnSet, MapThenFoldSet
<1>3. Remaining = Amount - Total(booked, Counting)
  BY DEF Remaining, Reversed, Counting, Total
<1> QED BY <1>1, <1>2, <1>3

LEMMA FiniteBookings ==
  ASSUME IsFiniteSet(Reasons), IsFiniteSet(Refunds), IsFiniteSet(Disputes)
  PROVE  IsFiniteSet(Bookings)
<1> DEFINE P == (1..Amount) \X Reasons
<1>1. IsFiniteSet(P)
  <2>1. IsFiniteSet(1..Amount)
    BY FS_Interval, AmountAssumption
  <2> QED BY <2>1, FS_Product
<1>2. ASSUME NEW kind PROVE IsFiniteSet([kind : {kind}, amount : 1..Amount, reason : Reasons])
  <2> DEFINE R == [kind : {kind}, amount : 1..Amount, reason : Reasons]
             f == [k \in R |-> <<k.amount, k.reason>>]
  <2>1. f \in [R -> P]
    OBVIOUS
  <2>2. \A j, k \in R : f[j] = f[k] => j = k
    OBVIOUS
  <2>3. f \in Injection(R, P)
    BY <2>1, <2>2 DEF Injection, IsInjective
  <2> QED BY <1>1, <2>3, FS_Injection
<1>3. IsFiniteSet(RefundKeys) /\ IsFiniteSet(Chargebacks)
  BY <1>2 DEF RefundKeys, Chargebacks
<1> QED BY <1>3, FS_Union DEF Bookings

\* One booking, of no more than remains.
LEMMA BookingFits ==
  ASSUME IsFiniteSet(Bookings), SumInv, NEW b \in Bookings, NEW x \in 0..Amount,
         NEW as \in {"PENDING", "COMPLETED"}, Book(b, x, as), booked[b] = 0, x <= Remaining
  PROVE  Standing' <= Amount
<1>t. LedgerTypes
  BY TypeParts DEF SumInv, IInv
<1>1. /\ \A c \in Bookings : booked[c] \in Int /\ booked'[c] \in Int
      /\ booked'[b] = x /\ status'[b] = as
      /\ \A c \in Bookings \ {b} : booked'[c] = booked[c] /\ status'[c] = status[c]
  BY <1>t, AmountAssumption DEF LedgerTypes, Book
<1> DEFINE Rest1 == Counting \ {b}
           Rest2 == Standings' \ {b}
<1>2. /\ Counting \subseteq Bookings /\ Rest1 \in SUBSET Counting
      /\ Standings' \subseteq Bookings /\ b \in Standings' /\ Rest1 \in SUBSET Rest2
  <2>1. as # "DENIED"
    OBVIOUS
  <2>2. \A c \in Rest1 : c \in Standings'
    BY <1>1 DEF Counting, Counted, Standings
  <2> QED BY <1>1, <2>1, <2>2 DEF Counting, Standings
<1>3. /\ IsFiniteSet(Counting) /\ IsFiniteSet(Rest1)
      /\ IsFiniteSet(Standings') /\ IsFiniteSet(Rest2)
  BY <1>2, FS_Subset
<1>4. Total(booked', Standings') = x + Total(booked', Rest2)
  BY <1>1, <1>2, <1>3, TotalTakes
<1>5. Total(booked', Rest2) = Total(booked, Rest2)
  BY <1>1, <1>2, <1>3, TotalSame
<1>6. Total(booked, Rest2) = Total(booked, Rest1)
  <2>1. ASSUME NEW c \in Rest2 \ Rest1 PROVE booked[c] = 0
    <3>1. c \in Bookings \ {b} /\ status[c] # "DENIED" /\ status[c] \notin Counted
      BY <1>1, <1>2, <2>1 DEF Counting, Standings
    <3>2. status[c] = "none"
      BY <1>t, <3>1 DEF LedgerTypes, Counted
    <3> QED BY <3>1, <3>2 DEF SumInv, Absent
  <2>2. \A c \in Rest2 : booked[c] \in Int
    BY <1>1, <1>2
  <2> HIDE DEF Rest1, Rest2
  <2> QED BY <1>2, <1>3, <2>1, <2>2, TotalZeros
<1>7. Total(booked, Counting) = Total(booked, Rest1)
  <2>1. \A c \in Counting : booked[c] \in Int
    BY <1>1, <1>2
  <2>2. \A c \in Counting \ Rest1 : booked[c] = 0
    OBVIOUS
  <2> HIDE DEF Rest1
  <2> QED BY <1>2, <1>3, <2>1, <2>2, TotalZeros
<1>8. Total(booked, Counting) \in Int
  BY <1>1, <1>2, <1>3, TotalInt
<1> HIDE DEF Rest1, Rest2
<1> QED BY <1>4, <1>5, <1>6, <1>7, <1>8, SumsAreTotals, AmountAssumption

LEMMA CappedFits ==
  ASSUME IsFiniteSet(Bookings), SumInv, NEW b \in Bookings, booked[b] = 0,
         NEW a \in 0..Amount, BookCapped(b, a)
  PROVE  Standing' <= Amount
<1>1. PICK x \in 1..a : /\ x = IF a < Remaining THEN a ELSE Remaining
                        /\ Book(b, x, "COMPLETED")
  BY DEF BookCapped
<1>2. Remaining \in Int
  <2>1. LedgerTypes
    BY TypeParts DEF SumInv, IInv
  <2>2. Counting \in SUBSET Bookings /\ \A c \in Counting : booked[c] \in Int
    BY <2>1, AmountAssumption DEF LedgerTypes, Counting
  <2>3. Total(booked, Counting) \in Int
    BY <2>2, FS_Subset, TotalInt
  <2> QED BY <2>3, SumsAreTotals, AmountAssumption
<1>3. x \in 0..Amount /\ x <= Remaining
  BY <1>1, <1>2, AmountAssumption
<1> QED BY <1>1, <1>3, BookingFits

\* A step that books nothing: the amounts stay, no status is taken back, and the disputes
\* that are done stay so.
LEMMA AbsentKept ==
  ASSUME SumInv, UNCHANGED booked,
         \A b \in Bookings : status'[b] = "none" => status[b] = "none",
         \A d \in Disputes : dispute[d] = "done" => dispute'[d] = "done"
  PROVE  Absent'
BY DEF SumInv, Absent

LEMMA AbsentBooked ==
  ASSUME SumInv, NEW b \in Bookings, NEW x, NEW as \in {"PENDING", "COMPLETED"},
         Book(b, x, as),
         \A d \in Disputes : dispute[d] = "done" => dispute'[d] = "done",
         b \in Disputes => dispute'[b] = "done"
  PROVE  Absent'
<1>1. LedgerTypes
  BY TypeParts DEF SumInv, IInv
<1>2. \A c \in Bookings : /\ c # b => booked'[c] = booked[c] /\ status'[c] = status[c]
                          /\ c = b => status'[c] = as
  BY <1>1 DEF LedgerTypes, Book
<1>3. \A d \in Disputes : d \in Bookings
  BY Keys
<1> QED BY <1>2, <1>3 DEF SumInv, Absent

LEMMA StepFits ==
  ASSUME IsFiniteSet(Bookings), SumInv, [Next]_vars
  PROVE  Absent' /\ (booked' # booked => Standing' <= Amount)
<1>t. /\ LedgerTypes /\ ProcTypes /\ StripeTypes /\ OtherTypes /\ LedgerHolds /\ ProcsHold
  BY TypeParts DEF SumInv, IInv
<1> DEFINE Goal == Absent' /\ (booked' # booked => Standing' <= Amount)
<1> SUFFICES Goal
  OBVIOUS
<1>1. ASSUME UNCHANGED <<booked, status, dispute>> PROVE Goal
  BY <1>1, AbsentKept
<1>2. ASSUME NEW c \in Calls, NEW k \in RefundKeys, BookRefund(c, k) PROVE Goal
  <2>1. /\ Book(k, k.amount, "PENDING") /\ booked[k] = 0 /\ k.amount <= Remaining
        /\ UNCHANGED dispute
    BY <1>2 DEF BookRefund, others
  <2>2. k \in Bookings /\ k.amount \in 0..Amount /\ k \notin Disputes
    BY Keys, AmountAssumption
  <2> QED BY <2>1, <2>2, BookingFits, AbsentBooked
<1>3. ASSUME NEW c \in Calls, NEW k \in Chargebacks, BookChargeback(c, k) PROVE Goal
  <2>1. /\ Book(k, k.amount, "COMPLETED") /\ booked[k] = 0 /\ k.amount <= Remaining
        /\ UNCHANGED dispute
    BY <1>3 DEF BookChargeback, others
  <2>2. k \in Bookings /\ k.amount \in 0..Amount /\ k \notin Disputes
    BY Keys, AmountAssumption, DisjointAssumption DEF Chargebacks
  <2> QED BY <2>1, <2>2, BookingFits, AbsentBooked
<1>4. ASSUME NEW r \in Refunds, ChargeRefunded(r) PROVE Goal
  <2>1. BookCapped(r, paid[r]) /\ booked[r] = 0 /\ UNCHANGED dispute
    BY <1>4 DEF ChargeRefunded, others
  <2>2. PICK x : Book(r, x, "COMPLETED")
    BY <2>1 DEF BookCapped
  <2>3. r \in Bookings /\ paid[r] \in 0..Amount /\ r \notin Disputes
    BY <1>t, Keys, DisjointAssumption DEF StripeTypes
  <2>4. Standing' <= Amount
    BY <2>1, <2>3, CappedFits
  <2> QED BY <2>1, <2>2, <2>3, <2>4, AbsentBooked
<1>5. ASSUME NEW d \in Disputes, NEW a \in 1..Amount, BookDispute(d, a) PROVE Goal
  <2>1. /\ BookCapped(d, a) /\ dispute[d] = "checked"
        /\ dispute' = [dispute EXCEPT ![d] = "done"]
    BY <1>5 DEF BookDispute
  <2>2. PICK x : Book(d, x, "COMPLETED")
    BY <2>1 DEF BookCapped
  <2>3. d \in Bookings /\ a \in 0..Amount /\ booked[d] = 0
    BY <2>1, Keys DEF SumInv, Absent
  <2>4. \A e \in Disputes : dispute'[e] = IF e = d THEN "done" ELSE dispute[e]
    BY <1>t, <2>1 DEF OtherTypes
  <2>5. Standing' <= Amount
    BY <2>1, <2>3, CappedFits
  <2> QED BY <2>2, <2>3, <2>4, <2>5, AbsentBooked
<1>6. ASSUME NEW b \in Bookings, NEW s \in {"PENDING", "COMPLETED", "DENIED"},
             status' = [status EXCEPT ![b] = s], UNCHANGED <<booked, dispute>>
      PROVE  Goal
  <2>1. \A e \in Bookings : status'[e] = "none" => status[e] = "none"
    BY <1>t, <1>6 DEF LedgerTypes
  <2> QED BY <1>6, <2>1, AbsentKept
<1>7. ASSUME NEW c \in Calls, Deny(c) PROVE Goal
  <2>1. UNCHANGED <<booked, dispute>>
    BY <1>7 DEF Deny, others
  <2>2. UNCHANGED status \/ status' = [status EXCEPT ![job[c]] = "DENIED"]
    BY <1>7 DEF Deny
  <2>3. job[c] \in Bookings
    BY <1>t, <1>7, Keys DEF Deny, ProcsHold, ProcHolds
  <2> QED BY <1>1, <1>6, <2>1, <2>2, <2>3
<1>8. ASSUME NEW p \in Processes, Finalize(p) PROVE Goal
  <2>1. UNCHANGED <<booked, dispute>>
    BY <1>8 DEF Finalize, others
  <2>2. UNCHANGED status \/ status' = [status EXCEPT ![job[p]] = CreatedAs(got[p])]
    BY <1>8 DEF Finalize
  <2>3. job[p] \in Bookings
    BY <1>t, <1>8, Keys DEF Finalize, ProcsHold, ProcHolds
  <2>4. CreatedAs(got[p]) \in {"PENDING", "COMPLETED", "DENIED"}
    BY DEF CreatedAs
  <2> QED BY <1>1, <1>6, <2>1, <2>2, <2>3, <2>4
<1>9. ASSUME NEW r \in Refunds, NEW s, RefundUpdated(r, s) PROVE Goal
  <2>1. status' = [status EXCEPT ![r] = StatusOf(s)] /\ UNCHANGED <<booked, dispute>>
    BY <1>9 DEF RefundUpdated, others
  <2>2. r \in Bookings /\ StatusOf(s) \in {"PENDING", "COMPLETED", "DENIED"}
    BY Keys DEF StatusOf
  <2> QED BY <1>6, <2>1, <2>2
<1>10. ASSUME NEW d \in Disputes, CheckDispute(d) \/ DisputeUnbooked(d) \/ LoseDispute(d)
       PROVE  Goal
  <2>1. /\ UNCHANGED <<booked, status>> /\ dispute[d] # "done"
        /\ \E x : dispute' = [dispute EXCEPT ![d] = x]
    BY <1>10 DEF CheckDispute, DisputeUnbooked, LoseDispute, ledger
  <2>2. \A e \in Disputes : dispute[e] = "done" => dispute'[e] = "done"
    BY <1>t, <2>1 DEF OtherTypes
  <2> QED BY <2>1, <2>2, AbsentKept
<1>11. ASSUME NEW p \in Processes,
              Create(p) \/ CreateFails(p) \/ MarkSent(p) \/ MarkFailed(p) \/ Crash(p)
       PROVE  Goal
  BY <1>1, <1>11 DEF Create, CreateFails, MarkSent, MarkFailed, Crash, ledger, others
<1>12. ASSUME NEW c \in Calls, NEW k \in RefundKeys, RepeatRefund(c, k) \/ Kill(c)
       PROVE  Goal
  BY <1>1, <1>12 DEF RepeatRefund, Kill, ledger, others
<1>13. ASSUME NEW w \in Workers, NEW k, NEW ks, Claim(w, ks) \/ TakeRow(w, k) PROVE Goal
  BY <1>1, <1>13 DEF Claim, TakeRow, ledger, others
<1>14. ASSUME NEW r \in Refunds, NEW a, NEW k,
              Settle \/ RefundElsewhere(r, a) \/ RefundMoves(r, a) \/ ForgetKey(k)
       PROVE  Goal
  BY <1>1, <1>14 DEF Settle, RefundElsewhere, RefundMoves, ForgetKey, ledger
<1>15. CASE UNCHANGED vars
  BY <1>1, <1>15 DEF vars, ledger, others
<1> HIDE DEF Goal
<1>16. ASSUME NEW p \in Processes, Work(p) PROVE Goal
  <2>1. CASE p \in Calls /\ Kill(p)
    <3>1. UNCHANGED <<booked, status, dispute>>
      BY <2>1 DEF Kill, ledger, others
    <3> QED BY <1>1, <3>1
  <2> QED BY <1>7, <1>8, <1>11, <1>16, <2>1 DEF Work
<1>17. CASE Administrators
  BY <1>2, <1>3, <1>12, <1>16, <1>17, Keys DEF Administrators
<1>18. CASE Webhooks
  BY <1>4, <1>5, <1>9, <1>10, <1>18 DEF Webhooks
<1>19. CASE Provider
  <2>1. CASE Settle
    <3>1. UNCHANGED <<booked, status, dispute>>
      BY <2>1 DEF Settle, ledger
    <3> QED BY <1>1, <3>1
  <2>2. ASSUME NEW k \in RefundKeys, ForgetKey(k) PROVE Goal
    <3>1. UNCHANGED <<booked, status, dispute>>
      BY <2>2 DEF ForgetKey, ledger
    <3> QED BY <1>1, <3>1
  <2> QED BY <1>10, <1>14, <1>19, <2>1, <2>2 DEF Provider
<1>20. CASE \E w \in Workers : Run(w)
  BY <1>13, <1>16, <1>20, Keys DEF Run
<1>21. CASE \E p \in Processes : Crash(p)
  BY <1>11, <1>21
<1> QED BY <1>15, <1>17, <1>18, <1>19, <1>20, <1>21 DEF Next

LEMMA SumsHold ==
  ASSUME IsFiniteSet(Bookings)
  PROVE  Spec => []SumInv
<1>1. Init => SumInv
  <2>1. Init => Absent
    BY Keys DEF Init, Absent
  <2> QED BY <2>1, InitIInv DEF SumInv
<1>2. SumInv /\ [Next]_vars => SumInv'
  BY StepFits, StepIInv DEF SumInv
<1> QED BY <1>1, <1>2, PTL DEF Spec

\* Whoever adds a booking, administrators and webhooks alike: what is then reversed or may
\* still be comes to no more than was paid, whichever outcomes arrived in between, and
\* whatever has been denied and booked again (calculateAlreadyReversedDecimalAmount,
\* capExternalReversalAmount).
THEOREM BookingsFit ==
  ASSUME IsFiniteSet(Reasons), IsFiniteSet(Refunds), IsFiniteSet(Disputes)
  PROVE  Spec => NewBookingsFit
<1>1. IsFiniteSet(Bookings)
  BY FiniteBookings
<1>2. SumInv /\ [Next]_vars => [booked' # booked => Standing' <= Amount]_vars
  BY <1>1, StepFits
<1>3. Spec => []SumInv
  BY <1>1, SumsHold
<1> QED BY <1>2, <1>3, PTL DEF Spec, NewBookingsFit

\* A denial is taken back by the late outcome of a refund that was denied already.
Reprieve == \E b \in Bookings : status[b] = "DENIED" /\ status'[b] # "DENIED"

\* Nothing else takes what is reversed, or may still be, beyond the amount of the request.
ExceedsByReprieve == [][Standing <= Amount /\ ~Reprieve => Standing' <= Amount]_vars

\* Steps that book nothing: without a reprieve what stands can only become less.
LEMMA StandingShrinks ==
  ASSUME IsFiniteSet(Bookings), TypeOK, TypeOK', UNCHANGED booked, ~Reprieve,
         Standing <= Amount
  PROVE  Standing' <= Amount
<1>1. \A b \in Bookings : booked[b] \in Nat
  BY AmountAssumption DEF TypeOK
<1>2. Standings \subseteq Bookings /\ Standings' \in SUBSET Standings
  BY DEF Standings, Reprieve
<1>3. IsFiniteSet(Standings) /\ IsFiniteSet(Standings')
  BY <1>2, FS_Subset
<1>4. Total(booked, Standings') <= Total(booked, Standings)
  BY <1>1, <1>2, <1>3, TotalGrows
<1>5. Total(booked, Standings) \in Int /\ Total(booked, Standings') \in Int
  <2>1. (\A b \in Standings : booked[b] \in Int) /\ \A b \in Standings' : booked[b] \in Int
    BY <1>1, <1>2
  <2> QED BY <1>3, <2>1, TotalInt
<1>6. Standing = Total(booked, Standings) /\ Standing' = Total(booked, Standings')
  BY SumsAreTotals
<1> QED BY <1>4, <1>5, <1>6, AmountAssumption

\* Of all the steps of administrators, runs and webhooks only a late outcome can take a
\* request beyond its amount: of a refund that was denied, and in whose place others were
\* booked meanwhile (finalizeRefundReversal, handleRefundUpdated).
THEOREM OnlyReprievesExceed ==
  ASSUME IsFiniteSet(Reasons), IsFiniteSet(Refunds), IsFiniteSet(Disputes)
  PROVE  Spec => ExceedsByReprieve
<1>1. IsFiniteSet(Bookings)
  BY FiniteBookings
<1>2. SumInv /\ SumInv' /\ [Next]_vars =>
        [Standing <= Amount /\ ~Reprieve => Standing' <= Amount]_vars
  <2> SUFFICES ASSUME SumInv, SumInv', [Next]_vars, Standing <= Amount, ~Reprieve
               PROVE  Standing' <= Amount
    OBVIOUS
  <2>1. CASE UNCHANGED booked
    BY <1>1, <2>1, StandingShrinks DEF SumInv, IInv
  <2>2. CASE booked' # booked
    BY <1>1, <2>2, StepFits
  <2> QED BY <2>1, <2>2
<1>3. Spec => []SumInv
  BY <1>1, SumsHold
<1> QED BY <1>2, <1>3, PTL DEF Spec, ExceedsByReprieve
=============================================================================
