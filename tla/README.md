# TLA+ models of the Remoola payment back end

This directory holds TLA+ specifications of the parts of `apps/api-v2` (the NestJS API
over PostgreSQL and Stripe) that decide about money, sessions and administrators'
commands, the TLC configurations that check them on small instances, and proofs, checked
by TLAPS, of their safety properties for every value of the constants. Paths below are
relative to the repository; `api/` stands for `apps/api-v2/src/`.

How to run: `tlc -config MCWalletBook.cfg MCWallet` checks a configuration,
`tlapm Wallet_proofs.tla` checks a module of proofs. `PROJECT.json` lists the runs, the
planted faults that each property must catch, the hazards with the properties about them,
and for every definition the source lines it stands for.

## 1. Inventory of the system

The system is one API process, run in several instances, over one PostgreSQL database.
Instances keep no state of their own that matters, except the administrator's in-memory
idempotency map; they meet in the database (rows, unique indexes, advisory locks,
isolation levels). Stripe calls the API by webhooks, which are delivered at least once
and in any order; schedulers (`@Cron`, and a Cloudflare worker in
`apps/outbox-scheduler`) call it every minute.

| Component | State | Operations | What is hard | What makes it correct |
|---|---|---|---|---|
| Wallet commands `api/consumer/modules/payments` | ledger rows, unique `idempotency_key`, advisory locks | withdraw, transfer | snapshots older than locks, retries, lost replies, key namespaces | no overdraft, daily limit, one payment per key, one answer per key, no deadlock |
| Balances and limits `api/shared/balance-calculation.*` | none (SQL over the rows) | balance, today's outgoing total | which rows count, and when | a balance counts each row once |
| Conversion `api/consumer/modules/exchange` | two ledger rows | convert (manual, scheduled, by rule) | another lock name than the payments | shares the balance with them safely |
| Scheduled conversions | `scheduled_fx_conversion` row | create, cancel, cron, force, admin cancel | claim, mark after commit, check-then-write, instances | one worker, executed once, status agrees with ledger |
| Automatic rules | rule row with `nextRunAt` | create, edit, run, admin run/pause | stale `nextRunAt`, disabled while running | run once per interval |
| Webhook intake `.../stripe/webhooks` | `stripe_webhook_event` row with claim token | claim, take over, mark | duplicates, crash, slow handler, lost mark | acknowledged only when applied, a processed event never reopened, each in the end applied |
| Settlement, checkout, saved methods | payment request, its ledger rows and outcomes | start session, charge, settle | order of outcomes, two ways to pay one request, a scheduler with a limit | settled only for money and on both sides, charged once each way, no late mark of the session that was paid |
| Payouts | outcome of a withdrawal | paid, failed, canceled | failed after paid | money is back exactly once |
| Reversals (webhook and administrator), refund outbox | reversal rows, outbox row | refund, dispute, finalize, retry | two actors under two locks, refund before settlement | total refunded is bounded, refund at Stripe is in the ledger |
| Notification outbox | outbox row with claim token | claim, send, mark, retry | mail sent and mark lost | each mail sent or `DEAD` |
| Identity verification (Stripe) | session id, status, `legalVerified`, review of one consumer | start, events, administrators' decisions | two starts, check-then-write, order of events, stale page | own session, informed decision, a verified session counts |
| Administrator idempotency | memory map, persisted entry | execute, executeInTransaction | crash between action and result, two processes, expiry | one effect per key, answers of the same request |
| Assignments | one active row per resource | claim, release, reassign | row locks against a unique index | one owner or none |
| Sessions (consumer, administrator) | session rows in families | login, refresh, revoke | concurrent refresh, reuse | one live token per family; reuse ends it |
| OAuth, signup, recovery | one-time tokens | create, consume | double consume | used once |
| Administrators, alerts, documents, contacts, contracts, profile, read models, mails, audit | rows | edits and queries | little | versioned updates |

How they interact. The webhook intake calls the settlement, payout and reversal handlers;
these insert ledger rows and outcomes, which the balance SQL counts; the wallet commands
read that balance and insert rows themselves; a scheduled conversion or a rule calls the
conversion that the manual request calls; an administrator acts on the rows that crons
and consumers are acting on. `PROJECT.json` lists every component with its status, and
under "hazards" every behaviour of this code that tests would hardly reach, at its line.

## 2. Plan

The modules in the order they were written, most important first; each has its properties,
its faults and its proofs. A name in parentheses is the abstract specification that the
module implements.

1. `Wallet` (`AccountBook`), with `WalletJobs`: withdraw, transfer, convert.
2. `ScheduledConversion`: the cron, the consumer and administrators on one row.
3. `WebhookDedup`: intake of Stripe's events.
4. `CardSettlement` (`PaymentPromise`): checkout, saved methods, settlement.
5. `Reversal` (`RefundPromise`): refunds, disputes, the refund outbox.
6. `AuthSession` (`TokenFamily`): sessions, sign-in records, password resets.
7. `AdminCommands` (`DutyRoster`): idempotency keys, assignments, administrators.
8. `Verification`: identity verification.

What is left, in order of worth: the automatic conversion rules (the next time of a run
written from the one it read, against an edit and an administrator's run); the payout's
second outcome; the dispute's own row; the older administrator status update beside the
versioned one. None of them moves money in a way the modelled parts do not show.

## 3. Modules and the code

A transaction is one step where its isolation makes it one (SERIALIZABLE, and nobody sees
it half done), and several where it is READ COMMITTED and its statements see what others
commit in between. A crash is an action wherever a process holds something. `Fault` marks
a definition no specification uses: a plausible bug in the definition below it, and
`PROJECT.json` says which property finds it.

### WalletJobs, AccountBook, Wallet

`WalletJobs` names what both specifications share: an operation (`Jobs`) with the account
it debits, the one it credits, its amount and key, and what it does to the sums. An
account is a consumer in a currency. `AccountBook` is the promise: `Pay` is one atomic
step that needs the money, the room under the limit and the free key; `Confirm` may only
name a payment that was made, `Reject` says that nothing was.

In `Wallet` a request is a process. `Lookup` is the search by key, `Begin` opens the
transaction and fixes its snapshot, `Acquire` takes the advisory locks one at a time in
the code's order, `Check` is `ensureLimits` and the balance test on the snapshot,
`Commit` the inserts and the commit, `Reply` the answer. `SerializationFailure` is P2034
with the policy's attempts, `DuplicateKey` and `Relookup` are P2002 and its second search,
`TxTimeout`, `CommitUnacknowledged` and `Crash` are the ways a request is cut off. The
environment posts settled credits, the payer's unchecked leg of a payment request, and
payout outcomes.

PostgreSQL fixes a SERIALIZABLE transaction's snapshot at the first statement, here the
one that waits for the first lock, so the snapshot is older than the lock. `since` holds
the requests that committed after it. A commit must fail when some of them read what this
one writes and wrote what this one reads (`Clash`): that much serializability forces.
PostgreSQL may abort more often, so `SerializationFailure` is possible at any time.

Abstractions: balances and today's total are running sums instead of queries over rows;
the limits are one number, and only today is modelled; the per-operation limit does not
depend on the state and is left out; a withdrawal has at most one payout outcome. A
withdrawal counts in both sums from its insert until a `DENIED` outcome.

### ScheduledConversion

`Find`, `Claim`, `Convert`, `MarkExecuted`, `MarkFailed` are the loop of
`processDueScheduledConversions`; `CancelCheck` and `CancelWrite` the consumer's cancel,
two statements in the code and two steps here; `Look`, `ForceExecute`, `AdminCancel`,
`AdminRefused` the administrator's versioned actions, each one transaction on a locked
row. `converted` is the set of keys under which the row's exchange has committed: the
worker's `scheduled:<id>` or an administrator's own. A version is a time in milliseconds,
so an update may leave it unchanged (`Update`). A crash leaves the row in PROCESSING,
where nothing takes it up again. `executeScheduledConversionNow` has no caller.

### WebhookDedup

A delivery is a process. `Arrive` reads the clock, `Create` inserts the row, `Look` and
`Reclaim` decide on an existing one, `HandlerStep` commits one transaction of the handler,
`MarkProcessed` and `MarkFailed` are conditional on the claim token (`Holds`), and 200
follows `MarkProcessed` whether or not the row was changed. The 200 is a step of its own
(`Reply`), after the commit it reports: a crash in between, or a mark that took effect and
threw all the same (`MarkProcessedThrows`), leaves a PROCESSED row that Stripe was not told
of, and the redelivery meets it as a duplicate. `HandlerThrows` may leave behind a
transaction that the handler saw no answer to. `ManagedCommit` is the Identity path, one
transaction with the row, its reply lost or not. `Age` makes a claim 15 minutes old.

A handler is `Steps` transactions that insert under unique ids. A run that meets rows of an
earlier one goes on, because the violation is swallowed outside a transaction, is its last
statement, or is avoided by a look at the status. There is one exception: a refund update
that concerns two ledger entries inserts both outcomes in one transaction, which PostgreSQL
aborts at the second when the first is there. `unrepeatable` are those events, any subset of
the events, and `Aborts` is what befalls them.

### PaymentPromise, CardSettlement

One payment request. A checkout call (`Claim` .. `ReplyUrl`) claims the rail, creates a
Stripe session under a key, opens the rail and appends WAITING outcomes one by one outside
a transaction; a saved-method call charges an intent, completes the request in one
transaction or appends DENIED. `Deliver` is the webhook, `Select`, `Reconcile` and `Skip`
the scheduler that finds sessions by the WAITING outcome an entry ends with: a run takes
`PerRun` of them (50 in the code) over all requests and in no order (`Selections`), fails
on some, or dies. `backlog` counts the sessions of other requests that wait. The status of an
entry is that of its latest outcome, as in the SQL. Inside a transaction a unique
violation aborts, whatever the code does with the error: later statements are refused by
PostgreSQL, so the step has no effect. Stripe replays an answer under a key until it
forgets it (`ForgetKey`, where the run allows it).

### RefundPromise, Reversal

One paid request. An administrator's call books (`booked`, `status`) under a key that is
the hash of what was asked, together with an outbox row, asks Stripe for the refund and
records it; the scheduler's runs take the row up by a token, ask again under the same key
and record it. Webhooks book refunds and lost disputes under their own keys and update
statuses. What `runLedgerMutation` runs is SERIALIZABLE and therefore one step, though it
may fail; the two actors take different advisory locks, which protects neither from the
other. Left out: the balance check (it only refuses), the dispute's own row, mails, audit.

What the model shows of the code besides the properties: a second finalization of a
booking always aborts, so a row may end DEAD although the refund is recorded; a refund
Stripe makes as `pending` is not completed by the scheduler, which asks only about
entries that carry a Stripe id and were not booked by the webhook
(`createdBy: { not: 'stripe' }`); a denial may overwrite
COMPLETED that the run set, and a denied booking may be revived after a timeout, so
`NewBookingsFit` bounds the total when a booking is added and says nothing of revivals.

### TokenFamily, AuthSession

One identity, a consumer or an administrator (`side`): both services keep the same table
and rotate in the same way, and where they differ (a consumer's reset commits before the
sessions are revoked, an administrator's in one transaction with it) the action says so.
A rotation is one step, since its compare-and-swap waits for the row; an UPDATE of many
rows is two, the snapshot and the write, because a row inserted in between is not seen. A
password is set in a transaction that first reads the token and then writes.

Shown and not contradicted by any document: the family may outlive the answer to a reuse
if the winner rotates again meanwhile; a crash after the consumer's password is committed
leaves the old sessions alive; a login let in by the old password before a reset inserts
its session after it; two active reset links may exist; a rotated token that is presented
again is refused without a revocation unless it lost the swap; a change of password
verifies the old one before its transaction.

### DutyRoster, AdminCommands

Calls with an `Idempotency-Key`. `Arrive` and `Follow` are the map in memory by which
calls of one process share a run; `Find`, `Purge`, `Poll`, `Create`, `Store`, `Unpend` the
key's entry around an action (`execute`); `TxFind`, `Create`, `Commit` the entry in the
action's own transaction (`executeInTransaction`). The actions: `Look`, `TakeForClaim`,
`TakeToClose`, `Insert` for assignments, with the row lock and the partial unique index,
and `Read`, `Write` for deactivating and restoring an administrator under a version. A
READ COMMITTED transaction is several steps: what it inserted and has not committed
(`entry` open, `adding`) blocks an insert of the same key and is seen by nobody.

Shown besides the properties: a crash or a failed statement after the action leaves the
entry pending, and its key is refused for ever, also after the entry's day; an action that
throws after its own commit frees the key, so the effect may be repeated (`Excused` names
this and the entries past their day); an action that throws a unique violation of its own
is taken for a conflict on the key and run again; a resource may be handed to an
administrator who is deactivated meanwhile. `Lapse` ages the entries of ended calls only:
a run lasts far less than a day.

### Verification

One consumer row. A start looks (`Look`), reuses the session under way if Stripe still
gives its secret (`Retrieve`), else creates one under a key made of the session it read
(`Create`) and claims the row by a conditional update (`Claim`); when it lost, it gives the
session that won if that can be reused, and its own otherwise (`Again`, `Reuse`). An event
of a session is two steps in one transaction, what it reads (`Handle`) and its UPDATE
(`Apply`), or a rollback (`Abort`); the UPDATE of `verified` is by id, those of the others
have the session in their WHERE. A decision (`OpenCase`, `Check`, `Decide`) carries the
version of the page, is checked against a read outside the transaction, and updates by id
and that version. `closed` stands for canceled and redacted, `REJECTED` for the three
reviews that turn a consumer down. The model takes two updates of the row to have two
versions; in the code they are times in milliseconds. Stripe's events do not respect an
approval: one that asks for input after it undoes it, and a start by a verified consumer
leaves `legalVerified` as it is while the status is pending again.

## 4. Runs

| Run | Instance | Shows |
|---|---|---|
| `wallet_book` | 2 requests, 6 operations, 2 consumers and currencies, 2 attempts, 1 posting by another part, fair (397,136 states) | the refinement of `AccountBook`, balances, limit, keys, answers, no circle of waiting, every request ends |
| `scheduled` | 1 conversion, 3 workers, 1 cancel, 2 administrators, fair | ownership, one forced execution, status against ledger, a due row is taken |
| `scheduled_twice` | 2 conversions, 2 workers, 1 cancel, 2 administrators | a counterexample, section 6 |
| `webhook` | 2 events (one of Identity), 2 deliveries, 2 transactions, fair | nothing acknowledged is lost, claims exclude each other, a processed event stays so, every event has its effect and, but for `unrepeatable` ones, its 200 in the end |
| `settlement` | 2 checkout calls, 1 saved-method call, 2 sessions, 1 intent; keys forgotten, webhooks lost | `PaymentPromise`; both parties settled or neither; no late mark of the session that was paid |
| `settlement_recovery` | 2 checkout calls, 1 saved-method call, 2 sessions, 2 intents, 1 session a run, 1 session of another request; keys kept, webhooks lost, fair (410,340) | one charge each way, the scheduler finds a paid session |
| `reversal` | amount 2, 2 calls, 1 run, 2 refunds, 1 dispute, 1 attempt, 1 mishap (517,809, up to symmetry) | `RefundPromise`; completed means refunded, sent means recorded, what is booked fits |
| `reversal_outbox` | amount 1, 2 calls, 1 run, 1 refund, 2 attempts, 2 mishaps, fair (227,870) | every booked refund's row ends SENT or DEAD |
| `reversal_twice` | amount 2, 1 call, 1 run, 1 refund, no mishap | a counterexample, section 6 |
| `sessions` | 3 requests of any kind, 4 ids, 2 reset tokens, 1 sign-in (30,364, up to symmetry) | `TokenFamily`; reuse ends the winner, one-time tokens |
| `admin_commands` | 3 calls, 2 processes, 2 administrators, 2 resources, 1 key (340,009, up to symmetry) | one effect per key, answers of the same request, `DutyRoster` |
| `verification` | 2 starts, 2 sessions, 1 decision, 2 events, fair (87,678) | own sessions, informed decisions, a verified session counts |

Why the bounds are enough. The hazards are between two actors over one resource, so every
run has at least two of each kind that competes, and inputs chosen so that they meet: any
one wallet operation fits and two do not, for the balance and for the limit; the wallet's
locks are of two consumers, so a circle of waiting has two requests; one key for all
calls of administrators; two ids more than a rotation needs. Two attempts reach the last
one. Two transactions of a handler distinguish "all", "some" and "none". `MaxMishaps`,
`MaxPosts` and `MaxEvents` bound how often the environment acts, never how the code
reacts. Two events of a session are the least that can overtake each other. Symmetry is
used in runs of safety properties only. The proofs drop all of these bounds.

Larger instances that were checked once and take too long to repeat: three wallet requests
without fairness (990,928 states), four requests on sessions (337,017), verification with
events without bound and one start (767,340). They show the same.

`CHECK_DEADLOCK FALSE` is set where the requests are finitely many and the system rests
when all are done. `NoDeadlock` says separately that no circle of lock waits forms. The
webhook run checks deadlock: Stripe can always send.

Fairness. A request that can take a step takes it in the end (`WF` on `Serve`): the event
loop and the database drive it, and nobody else has to act. For crons, a row that is due
again and again is found and, by an instance that does not die each time, claimed (`SF` on
`Find` and `Claim`); the scheduler of checkouts runs, and takes all that waits when it fits a
run (`WF` on `~Crowded /\ Select`; a crowded run may take none of this request's sessions),
and settling does not fail every time (`SF` on `Reconcile`); a run of the outbox and a request
that can take a step takes it (`WF` on `Run` and `Work`). For webhooks, Stripe
resends what was not acknowledged, time passes, and a stage or a transaction that is tried
without end succeeds once (`SF` per stage, `SF` on `Apply`). Stripe in fact stops resending
after some days; an event that fails for longer than that is not covered.

## 5. Theorems

All from the named ASSUMEs on the constants of each module: requests, deliveries,
sessions, administrators may be any sets, amounts and bounds any naturals. A theorem that
needs more says so (`ASSUME ... PROVE`).

- `Wallet_proofs`: types, `NoOverdraft`, `DailyLimitHeld`, `OneEffectPerKey`,
  `AnswersAgree`, and the refinement of `AccountBook`. The invariant is `Inv`. A commit
  debits what an old snapshot showed, so `NoOverdraft` alone is not inductive:
  `SnapshotBound` says that the snapshot of a transaction *that will pass the conflict
  check* shows no more than is there now, up to unchecked debits. Another request's commit
  keeps it, because that request either debits another account or clashes. `CheckedBound`
  carries the outcome of the checks to the commit, `KeysHeld` ties the index to the rows.
  `AnswersSound` is part of `Inv`. `NoDeadlock` follows from two facts: a transaction holds
  the first locks of its list and no others (`HeldInOrder`), and every list ascends
  (`LocksAscend`), so that whoever waits wants a lock below that of the one it waits for
  (`WaitsUpward`). In a finite set of requests, as every circle is, one wants the
  last of the wanted locks, and it waits for none of them (`NoCircle`).
- `ScheduledConversion_proofs`: types, `WorkerOwnsRow`, `ForcedOnce`, `ExecutedExplained`.
  Beyond them `ForcedIsFinal` is needed: money an administrator moved has put the row beyond
  every worker's claim. They hold although versions can repeat: the status protects the row.
  `SecondOnlyForced` says how far the disagreement of section 6 goes: what has been converted
  is converted again only by an administrator who forces a row that reads FAILED. Its
  invariant is `Untouched`: no row that is PENDING, or that a worker is about to convert, has
  been converted.
- `WebhookDedup_proofs`: types, `AckedMeansApplied`, `OneLiveHandler`,
  `ProcessedIsFinal`. The heart is `HolderInTime`: a handler that has not outlived its claim
  still holds it, and the claim is young, or its mark PROCESSED took effect unseen.
- `CardSettlement_proofs`: types, `NoSettlementWithoutMoney`, `SettledWhole`, and the
  refinement of `PaymentPromise`. While Stripe remembers its keys (`KeysExpire = FALSE`; it
  keeps them a day) it collects once by checkout and once by saved methods
  (`ChargedOnceEachWay`, invariant `OneChargePerKey`); the two ways have separate keys, so
  no more can be said of both together. Of a request paid by checkout alone
  (`SavedPays = {}`) that gives `ChargedOnce`. `NeverWaitsAgain` needs no such assumption:
  by `MarkedFirst` a session had marked every entry before its URL was given, by `PaidByUrl`
  it is paid only after that, so a call that marks an unmarked entry marks for a session that
  no entry is completed for. That a completed entry stays completed is neither proved nor
  true (section 6).
- `Reversal_proofs`: types, `CompletedIsRefunded`, `SentIsRecorded`, `RowsEndOnce`, and the
  refinement of `RefundPromise`: what a process carries between Stripe's answer and the
  ledger is a refund made for its own booking, and nothing else is ever recorded.
  `NewBookingsFit`, for finite sets of reasons, refunds and disputes, rests on lemmas about
  sums (`TotalTakes`, `TotalZeros`, `TotalSame`), proved from the definition of
  `FoldFunctionOnSet`: its recursive function exists (`FoldExists`), is unique
  (`FoldsAgree`), and the order of picking does not matter. The induction over subsets is
  an argument by a least counterexample (`LeastSubset`), which takes no operator from the
  library. `Absent` adds what is needed of the ledger: what has no status counts for
  nothing, and a dispute that is not done is not booked. What stands may exceed the amount
  later, and `ExceedsByReprieve` says when: only as the late outcome of a refund that was
  denied, whose place others have taken (`Reprieve`).
- `AuthSession_proofs`: types, one live token per family, the chain of rotations,
  `ReuseKillsWinner`, `OneSessionPerHandoff`, `ResetOnce`, and the refinement of
  `TokenFamily`. `LostTheRace` carries the argument: a refresh that lost its swap can never
  win it, and its UPDATE has found the row that won unless that is revoked already.
- `AdminCommands_proofs`: types, `AnswersFromRuns`, `EffectOnce`, `VersionSpentOnce`, and
  the refinement of `DutyRoster`. `IInv` says whose entry holds a key while a run is between
  its action and its entry, and that a version in hand is no newer than the row's. `EffectOnce` excuses a
  repetition after the entry's day, and after an action that threw behind its own commit
  and whose entry was deleted; it covers the deletion whose reply is lost.
- `Verification_proofs`: types, `DecisionsAreInformed`, `HandedIsHis`. The invariant `Owned`:
  a call that has created a session under the key of the session it read either still finds
  that one in the row, or the call that replaced it created under the same key, so that the
  session in hand has been the consumer's already. `Dated` says that a page with the row's
  version is the row, since whatever changes it gives it a new version (`NewVersion`).

Every safety invariant, action property and refinement that a passing run checks is
stated by a theorem. Only model-checked is liveness (`EveryRequestEnds`, `DueIsTaken`,
`EventAcknowledged`, `CheckoutRecovered`, `RowsEnd`, `VerifiedCounts`), which is out of
the prover's reach. Types whose theorem is proved and whose violation would only show as
another property's are left out of the runs of the wallet, the conversions, the intake
and the verification.

## 6. Where the code and its documents disagree

- **Converting twice** (`scheduled_twice`). When the exchange commits and the mark EXECUTED
  fails, or the exchange's reply is lost, the row is FAILED, and a forced execution moves
  the money again under its own key.
- **Reversing twice** (`reversal_twice`). The webhook's booking of a refund and the
  administrator's booking of the same refund have different keys, and both may be
  completed; `docs/FINANCIAL_SAFETY_AND_DB_COMPLIANCE.md:152` says the internal reversal is
  appended idempotently.

Met while modelling, not among the runs:

- The same document says, in section 3, that advisory locks alone keep a balance from being
  used twice. The snapshot is older than the lock, and a conversion uses another lock. No
  money is lost, because the transactions are SERIALIZABLE (`NoOverdraft` is proved); at a
  lower isolation level it would be (`SnapshotIsolation` is the fault that shows it).
- The consumer's cancel writes CANCELLED by id after an earlier check, although it means to
  refuse what is no longer pending (ONLY_PENDING_CONVERSIONS_CAN_CANCEL).
- The document says that an event is processed at most once. The code takes over failed and
  stale claims and runs the handler again, which is what keeps events from being lost.
- The scheduler finds a paid session by the outcome an entry ends with: a decline of a saved
  method, or the mark of a later session once Stripe has forgotten the key, hides it
  (`Superseded`). `CheckoutRecovered` says that nothing else does, except a crowd:
- A run of the scheduler takes 50 waiting sessions in no order, and no code handles
  `checkout.session.expired`, so abandoned sessions wait for good. Fifty of them can keep a
  paid session whose webhook was lost from being settled for ever. `CheckoutRecovered`
  therefore assumes that what waits comes to fit into a run (`<>[]~Crowded`); without that
  assumption TLC finds the paid session starved.
- WAITING and DENIED are appended whatever the status is. After a request was completed by
  a saved method, a tab that lags behind marks it WAITING, and a late decline marks a
  request DENIED that a webhook completed: the request stays COMPLETED, its entries read
  otherwise. `NeverWaitsAgain` says what the code does exclude.
- A checkout session and a saved method of one request may both be charged: the keys bound
  each way by one charge (`ChargedOnceEachWay`) and not both together.
- A refund update that concerns two entries and whose mark PROCESSED is lost throws on every
  further delivery: its effect is there, and Stripe is answered 500 until it gives up
  (`unrepeatable` in `EventAcknowledged`).
- An administrator's action that throws behind its own commit has its entry deleted; the
  client's retry under the same key repeats the effect (`Excused` in `EffectOnce`).
- The document (line 21) says that stale Identity events must not overwrite newer state. In
  `Verification` two transactions may read before either writes: an event asking for input
  that read first and wrote last undoes a verification, and `verified`, which updates by id,
  replaces a session claimed after its read.
- A password reset is documented to revoke all active sessions; see `AuthSession` in
  section 3 for the login that escapes.

Nothing in the repository says otherwise of these: a scheduled conversion whose worker died
stays PROCESSING; a manual conversion has no key, so a retried one converts again; a key
another consumer has used makes the request fail, because keys are unique over all
consumers but looked up per consumer.

## 7. Not modelled

Rates, rounding and fees; the CASE expressions that decide which rows of a rail count
(they appear as rows that do or do not count); signatures, cookies and guards; mails, PDFs
and files; the reversal mail's outbox, whose claims and attempts are those of the refund
outbox; the automatic conversion rules; administrators' roles, permissions and
invitations; signup and the clean-up schedulers; documents, contacts, contracts, profile,
payment methods, alerts and saved views; read models; the web front ends, the shared
packages, fixtures and test support. Most of the repository's lines are user interface,
types, queries and fixtures: records shown or edited by one actor, whose state no other
part reads in a way that an order of steps could break, so that a model would have nothing
to say that a test does not.
