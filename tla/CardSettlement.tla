--------------------------- MODULE CardSettlement ---------------------------
(***************************************************************************)
(* One payment request paid by card.  The payer opens Stripe checkout      *)
(* sessions and charges saved methods, from several tabs and retries; the  *)
(* checkout.session.completed webhook and the reconciliation scheduler     *)
(* settle sessions Stripe reports paid.  Every process appends outcomes to *)
(* the ledger entries of the request: a checkout call one by one and       *)
(* outside any transaction, the others in one SERIALIZABLE transaction,    *)
(* which is one step here.  The status of an entry is that of its latest   *)
(* outcome.                                                                *)
(*                                                                         *)
(* Inside a transaction a unique violation is not skipped, whatever        *)
(* createOutcomeIdempotent does with it: PostgreSQL refuses every later    *)
(* statement, so the transaction has no effect.                            *)
(***************************************************************************)
EXTENDS Naturals, Sequences, FiniteSets

CONSTANTS Checkouts,   \* calls of POST :id/stripe-session
          SavedPays,   \* calls of POST :id/pay-with-saved-method
          Sessions,    \* bound: the checkout sessions Stripe may create
          Intents,     \* bound: the payment intents of saved methods
          KeysExpire,  \* whether Stripe may forget an idempotency key (after a day)
          EventsLost,  \* whether a webhook may never be processed
          PerRun,      \* most sessions one scheduler run looks at (50)
          Others,      \* bound: the sessions of other requests that wait
          None

Calls   == Checkouts \cup SavedPays
Charges == Sessions \cup Intents
Entries == {"payer", "requester"}

ASSUME DisjointAssumption == /\ Checkouts \cap SavedPays = {}
                             /\ Sessions \cap Intents = {}
                             /\ None \notin Charges
ASSUME FlagsAssumption == KeysExpire \in BOOLEAN /\ EventsLost \in BOOLEAN
ASSUME BoundsAssumption == PerRun \in Nat \ {0} /\ Others \in Nat

VARIABLES
  request,   \* status of the payment request; DRAFT also before it is created
  origin,    \* how it became payable
  rail,      \* its paymentRail
  entries,   \* the ledger entries it has
  outcomes,  \* each entry's outcomes, oldest first
  method,    \* the payer's saved method
  call, at,  \* where a call is, and the charge it got from Stripe
  todo,      \* entries a checkout call has still to mark WAITING
  stripe,    \* what Stripe knows of each charge
  replay,    \* the response stored under each of the two idempotency keys
  urls,      \* sessions whose URL the payer was given
  event,     \* checkout.session.completed of each session
  backlog,   \* how many sessions of other requests wait
  picked     \* sessions of this request a scheduler run selected and has not looked at

ledger   == <<request, origin, rail, entries, outcomes>>
calls    == <<call, at, todo>>
provider == <<stripe, replay, urls>>
jobs     == <<event, backlog, picked>>
vars     == <<ledger, method, calls, provider, jobs>>

NoReply == [charge |-> None, result |-> "none"]

Waiting(s) == [status |-> "WAITING", of |-> s]
Paid(c)    == [status |-> "COMPLETED", of |-> c]
Declined   == [status |-> "DENIED", of |-> None]
Outcome    == [status : {"WAITING"}, of : Sessions] \cup [status : {"COMPLETED"}, of : Charges]
                \cup {Declined}

\* externalId: the session, the payment intent, "denied:stripe:pr:..." of the entry.
Recorded(e, o) == \E i \in 1..Len(outcomes[e]) : outcomes[e][i] = o

Effective(e) == IF outcomes[e] = <<>> THEN "PENDING"
                ELSE outcomes[e][Len(outcomes[e])].status

\* A payment started towards an address nobody registered has no requester to credit.
Parties == IF origin = "alone" THEN {"payer"} ELSE Entries

\* The entries of type USER_PAYMENT; the requester's is USER_DEPOSIT where the card
\* rail was known when it was booked.
UserPayments == {"payer"} \cup (IF origin \in {"sent", "bank"} THEN {"requester"} ELSE {})

Goto(c, where) == call' = [call EXCEPT ![c] = where]

TypeOK ==
  /\ request \in {"DRAFT", "PENDING", "COMPLETED"}
  /\ origin \in {"none", "sent", "mailed", "card", "bank", "alone"}
  /\ rail \in {"none", "CARD", "BANK_TRANSFER"}
  /\ entries \in {{}, Parties}
  /\ outcomes \in [Entries -> Seq(Outcome)]
  /\ method \in {"usable", "deleted"}
  /\ call \in [Calls -> {"idle", "verified", "claimed", "accepted", "session",
                         "appending", "paid", "declined", "done"}]
  /\ at \in [Calls -> Charges \cup {None}]
  /\ todo \in [Calls -> SUBSET Entries]
  /\ stripe \in [Charges -> {"none", "open", "paid", "declined", "action"}]
  /\ replay \in [{"checkout", "saved"} ->
                   [charge : Charges \cup {None},
                    result : {"none", "open", "paid", "declined", "action"}]]
  /\ urls \subseteq Sessions
  /\ event \in [Sessions -> {"unsent", "sent", "processed", "lost"}]
  /\ backlog \in 0..Others
  /\ picked \subseteq Sessions

Init ==
  /\ request = "DRAFT" /\ origin = "none" /\ rail = "none"
  /\ entries = {}
  /\ outcomes = [e \in Entries |-> <<>>]
  /\ method = "usable"
  /\ call = [c \in Calls |-> "idle"]
  /\ at = [c \in Calls |-> None]
  /\ todo = [c \in Calls |-> {}]
  /\ stripe = [c \in Charges |-> "none"]
  /\ replay = [k \in {"checkout", "saved"} |-> NoReply]
  /\ urls = {} /\ event = [s \in Sessions |-> "unsent"]
  /\ backlog = 0 /\ picked = {}

----------------------------------------------------------------------------
\* Fault: only the payer's entry is booked.
BookedHalf == {"payer"}

\* bootstrapInitialLedgerEntries
Booked == Entries

\* The requester sends the draft; the entries are booked now if the payer is a
\* consumer, else when a payer claims the request by e-mail (Claim).
SendDraft ==
  /\ request = "DRAFT"
  /\ request' = "PENDING"
  /\ \/ origin' = "sent" /\ entries' = Entries
     \/ origin' = "mailed" /\ UNCHANGED entries
  /\ UNCHANGED <<rail, outcomes, method, calls, provider, jobs>>

\* The payer starts the payment: the request is created PENDING, with the rail of the
\* method chosen in the form, whatever it is paid with in the end.
StartPayment ==
  /\ request = "DRAFT"
  /\ request' = "PENDING"
  /\ rail' \in {"CARD", "BANK_TRANSFER"}
  /\ origin' \in {"alone", IF rail' = "CARD" THEN "card" ELSE "bank"}
  /\ entries' = Parties'
  /\ UNCHANGED <<outcomes, method, calls, provider, jobs>>

\* Stripe knows the saved method and it is, or can be, the customer's.
VerifyMethod(c) ==
  /\ c \in SavedPays /\ call[c] = "idle"
  /\ Goto(c, IF method = "usable" THEN "verified" ELSE "done")
  /\ UNCHANGED <<ledger, method, at, todo, provider, jobs>>

\* Stripe says the method cannot be used again: on verification, or when charged.
MethodRejected(c) ==
  /\ c \in SavedPays
  /\ call[c] \in {"idle", "accepted"} /\ method = "usable"
  /\ method' = "deleted"
  /\ Goto(c, "done")
  /\ UNCHANGED <<ledger, at, todo, provider, jobs>>

\* Fault: a request is taken for payable whatever its status.
AnyPayable == TRUE

Payable == request = "PENDING"

\* getPaymentRequestForPayer: the transaction that claims the request and books
\* the entries, then the read outside it.
Claim(c) ==
  /\ call[c] = IF c \in SavedPays THEN "verified" ELSE "idle"
  /\ IF Payable THEN /\ Goto(c, "claimed")
                     /\ entries' = IF origin = "mailed" THEN Booked ELSE entries
                ELSE Goto(c, "done") /\ UNCHANGED entries
  /\ UNCHANGED <<request, origin, rail, outcomes, method, at, todo, provider, jobs>>

Confirm(c) ==
  /\ call[c] = "claimed"
  /\ Goto(c, IF Payable THEN "accepted" ELSE "done")
  /\ UNCHANGED <<ledger, method, at, todo, provider, jobs>>

\* Fault: keys that tell the calls apart, so that Stripe never replays.
NeverReplays(k, c) == stripe[c] = "none"

\* Stripe answers a key it remembers with the charge it made then.
Answers(k, c) == IF replay[k] = NoReply THEN stripe[c] = "none"
                 ELSE c = replay[k].charge

\* checkout.sessions.create; the response may be lost on the way.
CreateSession(c) ==
  /\ c \in Checkouts /\ call[c] = "accepted"
  /\ \E s \in Sessions :
       /\ Answers("checkout", s)
       /\ stripe' = [stripe EXCEPT ![s] = IF @ = "none" THEN "open" ELSE @]
       /\ replay' = [replay EXCEPT !["checkout"] = [charge |-> s, result |-> "open"]]
       /\ \/ Goto(c, "session") /\ at' = [at EXCEPT ![c] = s]
          \/ Goto(c, "done") /\ UNCHANGED at
  /\ UNCHANGED <<ledger, method, todo, urls, jobs>>

\* ensureCardPaymentRailForRequest, and the read of the entries to mark.
OpenRail(c) ==
  /\ call[c] = "session"
  /\ rail' = IF rail = "none" THEN "CARD" ELSE rail
  /\ todo' = [todo EXCEPT ![c] = entries]
  /\ Goto(c, "appending")
  /\ UNCHANGED <<request, origin, entries, outcomes, method, at, provider, jobs>>

AppendWaiting(c, e) ==
  /\ call[c] = "appending" /\ e \in todo[c]
  /\ outcomes' = IF Recorded(e, Waiting(at[c])) THEN outcomes
                 ELSE [outcomes EXCEPT ![e] = Append(@, Waiting(at[c]))]
  /\ todo' = [todo EXCEPT ![c] = @ \ {e}]
  /\ UNCHANGED <<request, origin, rail, entries, method, call, at, provider, jobs>>

\* Fault: the URL is given while entries have still to be marked.
ReplyEarly(c) ==
  /\ call[c] = "appending"
  /\ urls' = urls \cup {at[c]}
  /\ Goto(c, "done")
  /\ UNCHANGED <<ledger, method, at, todo, stripe, replay, jobs>>

ReplyUrl(c) ==
  /\ call[c] = "appending" /\ todo[c] = {}
  /\ urls' = urls \cup {at[c]}
  /\ Goto(c, "done")
  /\ UNCHANGED <<ledger, method, at, todo, stripe, replay, jobs>>

----------------------------------------------------------------------------
\* paymentIntents.create with confirm: paid, declined, or an action asked of the
\* payer; the response may be lost.
Charge(c) ==
  /\ c \in SavedPays /\ call[c] = "accepted"
  /\ \E i \in Intents, r \in {"paid", "declined", "action"} :
       /\ Answers("saved", i)
       /\ replay["saved"] # NoReply => r = replay["saved"].result
       /\ stripe' = [stripe EXCEPT ![i] = IF @ = "none" THEN r ELSE @]
       /\ replay' = [replay EXCEPT !["saved"] = [charge |-> i, result |-> r]]
       /\ \/ /\ Goto(c, IF r = "action" THEN "done" ELSE r)
             /\ at' = [at EXCEPT ![c] = i]
          \/ Goto(c, "done") /\ UNCHANGED at
  /\ UNCHANGED <<ledger, method, todo, urls, jobs>>

Open == {e \in entries : Effective(e) # "COMPLETED"}

\* What settling writes for charge c, in one transaction.
SettledBy(c) ==
  /\ outcomes' = [e \in Entries |-> IF e \in Open THEN Append(outcomes[e], Paid(c))
                                    ELSE outcomes[e]]
  /\ request' = "COMPLETED" /\ rail' = "CARD"
  /\ UNCHANGED <<origin, entries>>

\* A unique violation on an entry still open aborts the transaction.
Collides(c) == \E e \in Open : Recorded(e, Paid(c))

\* Fault: only the payer's entry is settled.
SettledHalf(c) ==
  /\ outcomes' = [outcomes EXCEPT !["payer"] = Append(@, Paid(c))]
  /\ request' = "COMPLETED" /\ rail' = "CARD"
  /\ UNCHANGED <<origin, entries>>

Settle(c) == IF Collides(c) THEN UNCHANGED ledger ELSE SettledBy(c)

MarkCompleted(c) ==
  /\ call[c] = "paid"
  /\ Settle(at[c])
  /\ Goto(c, "done")
  /\ UNCHANGED <<method, at, todo, provider, jobs>>

AppendDenied(c) ==
  /\ call[c] = "declined"
  /\ outcomes' = IF \E e \in entries : Recorded(e, Declined) THEN outcomes
                 ELSE [e \in Entries |-> IF e \in entries THEN Append(outcomes[e], Declined)
                                         ELSE outcomes[e]]
  /\ Goto(c, "done")
  /\ UNCHANGED <<request, origin, rail, entries, method, at, todo, provider, jobs>>

\* The process dies, or Stripe or the database throws: the call ends as it stands.
Abandon(c) ==
  /\ call[c] \notin {"idle", "done"}
  /\ Goto(c, "done")
  /\ UNCHANGED <<ledger, method, at, todo, provider, jobs>>

----------------------------------------------------------------------------
\* The payer pays on Stripe's page, or completes the action asked for.
PayerPays(s) ==
  /\ s \in urls /\ stripe[s] = "open"
  /\ stripe' = [stripe EXCEPT ![s] = "paid"]
  /\ event' = [event EXCEPT ![s] = "sent"]
  /\ UNCHANGED <<ledger, method, calls, replay, urls, backlog, picked>>

PayerAuthenticates(i) ==
  /\ i \in Intents /\ stripe[i] = "action"
  /\ stripe' = [stripe EXCEPT ![i] = "paid"]
  /\ UNCHANGED <<ledger, method, calls, replay, urls, jobs>>

\* A day passes; no call lasts that long.
ForgetKey(k) ==
  /\ KeysExpire
  /\ replay[k] # NoReply
  /\ \A c \in Calls : call[c] \in {"idle", "done"}
  /\ replay' = [replay EXCEPT ![k] = NoReply]
  /\ UNCHANGED <<ledger, method, calls, stripe, urls, jobs>>

\* The webhook; a transaction that aborts answers 500 and Stripe sends it again.
Deliver(s) ==
  /\ event[s] = "sent"
  /\ Settle(s)
  /\ event' = IF Collides(s) THEN event ELSE [event EXCEPT ![s] = "processed"]
  /\ UNCHANGED <<method, calls, provider, backlog, picked>>

LoseEvent(s) ==
  /\ EventsLost
  /\ event[s] = "sent"
  /\ event' = [event EXCEPT ![s] = "lost"]
  /\ UNCHANGED <<ledger, method, calls, provider, backlog, picked>>

\* Other payers open sessions, pay them, or leave them WAITING for good: the code
\* handles no checkout.session.expired.
OthersWait ==
  /\ backlog' \in (0..Others) \ {backlog}
  /\ UNCHANGED <<ledger, method, calls, provider, event, picked>>

\* Fault: the status the entries were booked with is read, which is never WAITING.
NothingWaits == {}

\* Sessions that are the latest outcome of a USER_PAYMENT entry.
WaitingSessions ==
  {s \in Sessions : \E e \in entries \cap UserPayments :
                      /\ Effective(e) = "WAITING"
                      /\ outcomes[e][Len(outcomes[e])] = Waiting(s)}

Crowded == backlog + Cardinality(WaitingSessions) > PerRun

\* A run takes the first PerRun waiting sessions of all requests, in no order: all
\* those of this request, or so many of them that the run is full.
Selections ==
  {sel \in SUBSET WaitingSessions :
     /\ Cardinality(sel) <= PerRun
     /\ sel = WaitingSessions \/ backlog + Cardinality(sel) >= PerRun}

Select ==
  /\ \E sel \in Selections : ~ sel \subseteq picked /\ picked' = picked \cup sel
  /\ UNCHANGED <<ledger, method, calls, provider, event, backlog>>

Reconcile(s) ==
  /\ s \in picked
  /\ IF stripe[s] = "paid" THEN Settle(s) ELSE UNCHANGED ledger
  /\ picked' = picked \ {s}
  /\ UNCHANGED <<method, calls, provider, event, backlog>>

\* Stripe or the transaction fails, or the process dies in the middle of the run.
Skip(s) ==
  /\ s \in picked
  /\ picked' = picked \ {s}
  /\ UNCHANGED <<ledger, method, calls, provider, event, backlog>>

CallSteps(c) == \/ VerifyMethod(c) \/ MethodRejected(c) \/ Claim(c) \/ Confirm(c)
                \/ CreateSession(c) \/ OpenRail(c) \/ ReplyUrl(c)
                \/ \E e \in Entries : AppendWaiting(c, e)
                \/ Charge(c) \/ MarkCompleted(c) \/ AppendDenied(c) \/ Abandon(c)

Next == \/ SendDraft \/ StartPayment \/ OthersWait \/ Select
        \/ \E c \in Calls : CallSteps(c)
        \/ \E s \in Sessions : PayerPays(s) \/ Deliver(s) \/ LoseEvent(s)
                              \/ Reconcile(s) \/ Skip(s)
        \/ \E i \in Intents : PayerAuthenticates(i)
        \/ \E k \in {"checkout", "saved"} : ForgetKey(k)

Spec == Init /\ [][Next]_vars

\* The scheduler runs on a cron, and does not fail every time it looks at a session.
\* Of the sessions of this request a crowded run may take none.
FairSpec == /\ Spec
            /\ WF_vars(~Crowded /\ Select)
            /\ \A s \in Sessions : SF_vars(Reconcile(s))

----------------------------------------------------------------------------
Collected == {c \in Charges : stripe[c] = "paid"}

\* The abstract specification, with what it speaks of read off this state: the
\* request keeps the promise of PaymentPromise, however the calls, the webhook and
\* the scheduler interleave, fail and repeat.
Promised == INSTANCE PaymentPromise WITH status <- request, collected <- Collected
Promise  == Promised!Spec

\* An entry is completed only for a charge Stripe collected: no settlement without
\* money, from a checkout call, a saved method, the webhook or the scheduler.
NoSettlementWithoutMoney ==
  \A e \in Entries, c \in Charges : Recorded(e, Paid(c)) => c \in Collected

\* A completed request has the entry of every party it has, and each was completed:
\* the payer is never debited without the requester credited, though an outcome loop,
\* a crash or an aborted transaction may stop between them.
SettledWhole ==
  request = "COMPLETED" =>
    /\ entries = Parties
    /\ \A e \in Parties : \E c \in Charges : Recorded(e, Paid(c))

\* No call that lags behind takes an entry back from paid to waiting for the session
\* it was paid with, however late it marks: the payer can pay only when every entry is
\* marked, and the unique index admits no second mark.  A mark of another session, or
\* a decline, is appended whatever the status, and does hide a completion.
NeverWaitsAgain ==
  \A e \in Entries : \A i, j \in 1..Len(outcomes[e]) : \A s \in Sessions :
    outcomes[e][i] = Paid(s) /\ outcomes[e][j] = Waiting(s) => j < i

\* Stripe collects for a request at most one session and at most one intent, while it
\* remembers the keys of the two ways to pay; nothing stops one of each.
ChargedOnceEachWay ==
  /\ \A s, t \in Sessions : s \in Collected /\ t \in Collected => s = t
  /\ \A i, j \in Intents : i \in Collected /\ j \in Collected => i = j

\* On every entry the scheduler reads a later outcome stands over the mark of session s: it is out of the scheduler's sight.
Superseded(s) ==
  \A e \in entries \cap UserPayments :
    Recorded(e, Waiting(s)) /\ outcomes[e][Len(outcomes[e])] # Waiting(s)

\* A session the payer paid completes the request though its webhook is lost: the
\* scheduler finds it among the waiting entries.  It does so only if the waiting
\* sessions fit into a run from some time on, abandoned ones of other requests
\* included, and no decline or later session supersedes the mark.
CheckoutRecovered ==
  <>[]~Crowded =>
    \A s \in Sessions : (stripe[s] = "paid") ~> (request = "COMPLETED" \/ Superseded(s))
=============================================================================
