------------------------------- MODULE Wallet -------------------------------
(***************************************************************************)
(* Concurrent withdraw, transfer and exchange requests on the append-only  *)
(* ledger.  Every request runs the code's sequence: look the idempotency   *)
(* key up, open a SERIALIZABLE transaction, take the advisory locks, read  *)
(* today's total and the balance, insert the rows, commit; conflicts are   *)
(* retried, a unique violation is answered by a second lookup.             *)
(*                                                                         *)
(* PostgreSQL takes a SERIALIZABLE transaction's snapshot at its first     *)
(* statement, and that statement is the one that WAITS for the first       *)
(* advisory lock: the balance read later under the lock is the one from    *)
(* before the wait.  What keeps two such transactions from spending the    *)
(* same money is the conflict check at commit, which is why it is          *)
(* modelled: of two overlapping transactions that each read what the other *)
(* writes, only the first to commit does.                                  *)
(*                                                                         *)
(* Balances are the running sums of the rows, which are never deleted and  *)
(* change only by the outcome of a payout.                                 *)
(***************************************************************************)
EXTENDS WalletJobs, Sequences

CONSTANTS MaxAttempts,  \* ledgerMutation.retry.maxAttempts
          Free,         \* an advisory lock nobody holds
          Waiting       \* a request not answered yet

Refusals == {"rejected", "error"}

ASSUME AttemptsAssumption == MaxAttempts \in Nat \ {0}
ASSUME FreeAssumption     == Free \notin Requests
ASSUME AnswersAssumption  == ({Waiting} \cup Refusals) \cap Requests = {}

VARIABLES
  job,        \* what each request asks for
  pc,         \* where each request's handler is
  attempt,    \* transaction attempts made
  snap,       \* what the transaction's snapshot shows of the debited account
  since,      \* requests that committed after that snapshot was taken
  got,        \* how many of its locks the transaction holds
  lock,       \* holder of each advisory lock
  avail,      \* COMPLETED_AND_PENDING balance of each account
  outgoing,   \* today's outgoing total of each account
  unchecked,  \* how much of both was taken by rows inserted without a check
  posts,      \* rows inserted by other parts so far
  rows,       \* the request whose rows hold each idempotency key
  wrote,      \* requests whose rows are in the ledger
  payout,     \* effective status of each withdrawal's row
  answer      \* what the client was told

control == <<pc, attempt, snap, since, got>>
book    == <<avail, outgoing, unchecked, posts, rows, wrote, payout>>
vars    == <<job, control, lock, book, answer>>

InTx == {"locking", "checking", "inserting"}
PCs  == {"lookup", "begin", "replying", "relookup", "done", "crashed"} \cup InTx

Operations == {"outgoing", "withdraw", "transfer", "exchange"}
Locks      == Consumers \X Operations

\* A definition marked Fault is a bug planted in place of the one that follows it.
\* Fault: the ids as they come.
UnsortedIds(c, d) == <<c, d>>

\* [consumerId, recipient.id].sort()
SortedIds(c, d) == IF c < d THEN <<c, d>> ELSE <<d, c>>

\* The advisory locks of an operation, in the order it takes them.
LocksOf(j) ==
  CASE j.kind = "withdraw" -> << <<Consumer(j), "outgoing">>, <<Consumer(j), "withdraw">> >>
    [] j.kind = "transfer" -> << <<Consumer(j), "outgoing">>,
                                 <<SortedIds(Consumer(j), j.to[1])[1], "transfer">>,
                                 <<SortedIds(Consumer(j), j.to[1])[2], "transfer">> >>
    [] j.kind = "exchange" -> << <<Consumer(j), "exchange">> >>

\* Fault: session locks, which outlive the transaction.
SessionLocks(r) == lock

\* Every lock is a transaction lock: it goes when the transaction ends.
Released(r) == [l \in Locks |-> IF lock[l] = r THEN Free ELSE lock[l]]

NoSnapshot == [avail |-> 0, outgoing |-> 0]

\* Fault: the lookup forgets whose row it is.
ExistingOfAnyone(r) == {q \in Requests : Keyed(job[r]) /\ rows[RowKey(job[r])] = q}

\* The row found by (prefixed key, consumerId); other consumers' rows stay hidden.
Existing(r) ==
  {q \in Requests : /\ Keyed(job[r]) /\ rows[RowKey(job[r])] = q
                    /\ Consumer(job[q]) = Consumer(job[r])}

\* Serializable snapshot isolation: r read what u wrote, and u read what r writes.
Reads(r)    == {job[r].from}
Writes(r)   == IF job[r].kind = "withdraw" THEN {job[r].from} ELSE {job[r].from, job[r].to}
Clash(r, u) == Reads(r) \cap Writes(u) # {} /\ Reads(u) \cap Writes(r) # {}

\* Fault: a transaction run below SERIALIZABLE.
SnapshotIsolation(r) == FALSE

Conflict(r) == \E u \in since[r] : Clash(r, u)

\* Fault: the total compared before the amount is added.
WithinLimitsBefore(r) == snap[r].outgoing <= DailyLimit

WithinLimits(r) ==
  job[r].kind # "exchange" => snap[r].outgoing + job[r].amount <= DailyLimit
EnoughBalance(r) == job[r].amount <= snap[r].avail

\* Fault: no unique index on the idempotency key.
KeyUnindexed(r) == TRUE

KeyFree(r) == Keyed(job[r]) => rows[RowKey(job[r])] = NoRow

MayRetry(r) == attempt[r] < MaxAttempts

-----------------------------------------------------------------------------
Init ==
  /\ job \in [Requests -> Jobs]
  /\ pc = [r \in Requests |-> "lookup"]
  /\ attempt = [r \in Requests |-> 0]
  /\ snap = [r \in Requests |-> NoSnapshot]
  /\ since = [r \in Requests |-> {}]
  /\ got = [r \in Requests |-> 0]
  /\ lock = [l \in Locks |-> Free]
  /\ avail = Opening
  /\ outgoing = [a \in Accounts |-> 0]
  /\ unchecked = [a \in Accounts |-> 0]
  /\ posts = 0
  /\ rows = [k \in RowKeys |-> NoRow]
  /\ wrote = [r \in Requests |-> FALSE]
  /\ payout = [r \in Requests |-> "none"]
  /\ answer = [r \in Requests |-> Waiting]

Goto(r, where) == pc' = [pc EXCEPT ![r] = where]
Tell(r, what)  == answer' = [answer EXCEPT ![r] = what]

\* ROLLBACK: the locks and the snapshot of the transaction are gone.
Rollback(r) ==
  /\ lock' = Released(r)
  /\ snap' = [snap EXCEPT ![r] = NoSnapshot]
  /\ since' = [since EXCEPT ![r] = {}]
  /\ got' = [got EXCEPT ![r] = 0]

\* The lookup by idempotency key before the transaction: a hit is the answer.
Lookup(r) ==
  /\ pc[r] = "lookup"
  /\ \/ Existing(r) = {} /\ Goto(r, "begin") /\ UNCHANGED answer
     \/ \E q \in Existing(r) : Tell(r, q) /\ Goto(r, "done")
  /\ UNCHANGED <<job, attempt, snap, since, got, lock, book>>

\* BEGIN and the arrival of the first lock statement, which fixes the snapshot.
Begin(r) ==
  /\ pc[r] = "begin"
  /\ Goto(r, "locking")
  /\ attempt' = [attempt EXCEPT ![r] = @ + 1]
  /\ snap' = [snap EXCEPT ![r] = [avail    |-> avail[job[r].from],
                                  outgoing |-> outgoing[job[r].from]]]
  /\ UNCHANGED <<job, since, got, lock, book, answer>>

\* pg_advisory_xact_lock returns: the next lock of the list is granted.
Acquire(r) ==
  /\ pc[r] = "locking"
  /\ got[r] < Len(LocksOf(job[r]))
  /\ lock[LocksOf(job[r])[got[r] + 1]] = Free
  /\ lock' = [lock EXCEPT ![LocksOf(job[r])[got[r] + 1]] = r]
  /\ got' = [got EXCEPT ![r] = @ + 1]
  /\ Goto(r, IF got[r] + 1 = Len(LocksOf(job[r])) THEN "checking" ELSE "locking")
  /\ UNCHANGED <<job, attempt, snap, since, book, answer>>

\* ensureLimits and the balance comparison, on the snapshot; a refusal rolls back.
Check(r) ==
  /\ pc[r] = "checking"
  /\ \/ /\ WithinLimits(r) /\ EnoughBalance(r) /\ Goto(r, "inserting")
        /\ UNCHANGED <<snap, since, got, lock, answer>>
     \/ /\ ~(WithinLimits(r) /\ EnoughBalance(r))
        /\ Tell(r, "rejected") /\ Goto(r, "done") /\ Rollback(r)
  /\ UNCHANGED <<job, attempt, book>>

\* The inserts and COMMIT: the rows become visible together.
Commit(r) ==
  /\ pc[r] = "inserting" /\ KeyFree(r) /\ ~Conflict(r)
  /\ avail' = AfterRows(avail, job[r])
  /\ outgoing' = AfterPayment(outgoing, job[r])
  /\ rows' = IF Keyed(job[r]) THEN [rows EXCEPT ![RowKey(job[r])] = r] ELSE rows
  /\ wrote' = [wrote EXCEPT ![r] = TRUE]
  /\ payout' = [payout EXCEPT ![r] = IF job[r].kind = "withdraw" THEN "PENDING" ELSE @]
  /\ since' = [q \in Requests |-> IF q = r THEN {}
                                ELSE IF pc[q] \in InTx THEN since[q] \cup {r} ELSE since[q]]
  /\ lock' = Released(r)
  /\ snap' = [snap EXCEPT ![r] = NoSnapshot]
  /\ got' = [got EXCEPT ![r] = 0]
  /\ Goto(r, "replying")
  /\ UNCHANGED <<job, attempt, unchecked, posts, answer>>

\* P2034: the database may abort any serializable transaction; runLedgerMutation
\* tries again until the attempts are used up.
SerializationFailure(r) ==
  /\ pc[r] \in {"checking", "inserting"}
  /\ Rollback(r)
  /\ \/ MayRetry(r) /\ Goto(r, "begin") /\ UNCHANGED answer
     \/ ~MayRetry(r) /\ Goto(r, "done") /\ Tell(r, "error")
  /\ UNCHANGED <<job, attempt, book>>

\* P2002 on the idempotency key: withdraw and transfer look the key up again,
\* the exchange lets the error through.
DuplicateKey(r) ==
  /\ pc[r] = "inserting" /\ ~KeyFree(r)
  /\ Rollback(r)
  /\ \/ job[r].kind = "exchange" /\ Tell(r, "error") /\ Goto(r, "done")
     \/ job[r].kind # "exchange" /\ Goto(r, "relookup") /\ UNCHANGED answer
  /\ UNCHANGED <<job, attempt, book>>

Relookup(r) ==
  /\ pc[r] = "relookup"
  /\ Goto(r, "done")
  /\ \/ Existing(r) = {} /\ Tell(r, "error")
     \/ \E q \in Existing(r) : Tell(r, q)
  /\ UNCHANGED <<job, attempt, snap, since, got, lock, book>>

Reply(r) ==
  /\ pc[r] = "replying"
  /\ Tell(r, r) /\ Goto(r, "done")
  /\ UNCHANGED <<job, attempt, snap, since, got, lock, book>>

\* maxWait or the interactive transaction's timeout: rolled back, not retried, a 500.
TxTimeout(r) ==
  /\ pc[r] \in {"begin"} \cup InTx
  /\ Rollback(r)
  /\ Tell(r, "error") /\ Goto(r, "done")
  /\ UNCHANGED <<job, attempt, book>>

\* The connection is lost after COMMIT took effect: not a P2034, so a 500 it is.
CommitUnacknowledged(r) ==
  /\ pc[r] = "replying"
  /\ Tell(r, "error") /\ Goto(r, "done")
  /\ UNCHANGED <<job, attempt, snap, since, got, lock, book>>

\* The instance serving r dies: an open transaction rolls back, nobody answers.
Crash(r) ==
  /\ pc[r] \notin {"done", "crashed"}
  /\ Rollback(r)
  /\ Goto(r, "crashed")
  /\ UNCHANGED <<job, attempt, book, answer>>

-----------------------------------------------------------------------------
\* payout.paid, payout.failed, payout.canceled: one outcome per payout id; a
\* denied withdrawal no longer counts in the sums.
PayoutOutcome(r, status) ==
  /\ payout[r] = "PENDING"
  /\ payout' = [payout EXCEPT ![r] = status]
  /\ \/ status = "COMPLETED" /\ UNCHANGED <<avail, outgoing>>
     \/ /\ status = "DENIED"
        /\ avail' = [avail EXCEPT ![job[r].from] = @ + job[r].amount]
        /\ outgoing' = [outgoing EXCEPT ![job[r].from] = @ - job[r].amount]
  /\ UNCHANGED <<job, control, lock, unchecked, posts, rows, wrote, answer>>

\* A settled deposit or a received payment: other parts insert a credit.
PostCredit(a, amount) ==
  /\ posts < MaxPosts
  /\ posts' = posts + 1
  /\ avail' = [avail EXCEPT ![a] = @ + amount]
  /\ UNCHANGED <<job, control, lock, outgoing, unchecked, rows, wrote, payout, answer>>

\* The payer's leg of a payment request: a PENDING debit inserted with no
\* balance check, counted by the balance and by today's total.
PostDebit(a, amount) ==
  /\ posts < MaxPosts
  /\ posts' = posts + 1
  /\ avail' = [avail EXCEPT ![a] = @ - amount]
  /\ outgoing' = [outgoing EXCEPT ![a] = @ + amount]
  /\ unchecked' = [unchecked EXCEPT ![a] = @ + amount]
  /\ UNCHANGED <<job, control, lock, rows, wrote, payout, answer>>

Serve(r) == \/ Lookup(r) \/ Begin(r) \/ Acquire(r) \/ Check(r) \/ Commit(r)
            \/ SerializationFailure(r) \/ DuplicateKey(r) \/ Relookup(r) \/ Reply(r)

Environment == \/ \E r \in Requests, status \in {"COMPLETED", "DENIED"} : PayoutOutcome(r, status)
               \/ \E a \in Accounts, m \in PostAmounts : PostCredit(a, m) \/ PostDebit(a, m)

Next == \/ \E r \in Requests : Serve(r) \/ TxTimeout(r) \/ CommitUnacknowledged(r) \/ Crash(r)
        \/ Environment

Spec == Init /\ [][Next]_vars

\* A request that is neither crashed nor waiting for a lock is driven on by the
\* event loop and the database; nothing makes clients, timeouts or other parts act.
FairSpec == Spec /\ \A r \in Requests : WF_vars(Serve(r))

-----------------------------------------------------------------------------
TypeOK ==
  /\ job \in [Requests -> Jobs]
  /\ pc \in [Requests -> PCs]
  /\ attempt \in [Requests -> 0..MaxAttempts]
  /\ snap \in [Requests -> [avail : Int, outgoing : Int]]
  /\ since \in [Requests -> SUBSET Requests]
  /\ got \in [Requests -> 0..3]
  /\ lock \in [Locks -> Requests \cup {Free}]
  /\ avail \in [Accounts -> Int]
  /\ outgoing \in [Accounts -> Int]
  /\ unchecked \in [Accounts -> Nat]
  /\ posts \in 0..MaxPosts
  /\ rows \in [RowKeys -> Requests \cup {NoRow}]
  /\ wrote \in [Requests -> BOOLEAN]
  /\ payout \in [Requests -> {"none", "PENDING", "COMPLETED", "DENIED"}]
  /\ answer \in [Requests -> Requests \cup {Waiting} \cup Refusals]

\* Withdrawals, transfers and exchanges that run at the same time never spend
\* the same money: an account is below zero only by what the unchecked legs of
\* payment requests took from it.
NoOverdraft == \A a \in Accounts : avail[a] + unchecked[a] >= 0

\* However requests interleave, what a consumer's checked operations send out in
\* a day stays within the KYC limit ensureLimits enforces one request at a time.
DailyLimitHeld == \A a \in Accounts : outgoing[a] <= DailyLimit + unchecked[a]

\* Requests that carry one idempotency key for one operation move money once,
\* whichever of the lookup, the advisory lock and the unique index stops the rest.
OneEffectPerKey ==
  \A r, q \in Requests :
    /\ wrote[r] /\ wrote[q]
    /\ Keyed(job[r]) /\ RowKey(job[r]) = RowKey(job[q])
    => r = q

\* A ledger id told to a client is one whose rows are in the ledger, belong to
\* that client and carry the key it sent.
ToldOfOwnRows(r) ==
  LET q == answer[r] IN
  /\ wrote[q]
  /\ Consumer(job[q]) = Consumer(job[r])
  /\ q # r => Keyed(job[r]) /\ RowKey(job[q]) = RowKey(job[r])
AnswersSound == \A r \in Requests : answer[r] \in Requests => ToldOfOwnRows(r)

\* A client that repeats a request with its key is told the same ledger id.
AnswersAgree ==
  \A r, q \in Requests :
    /\ answer[r] \in Requests /\ answer[q] \in Requests
    /\ Keyed(job[r]) /\ RowKey(job[r]) = RowKey(job[q])
    => answer[r] = answer[q]

\* Transactions never wait for each other's advisory locks in a circle, whatever
\* mix of withdrawals, exchanges and opposite transfers is running.
WaitsFor(r, q) == /\ pc[r] = "locking" /\ got[r] < Len(LocksOf(job[r]))
                  /\ lock[LocksOf(job[r])[got[r] + 1]] = q
NoDeadlock ==
  \A S \in (SUBSET Requests) \ {{}} :
    IsFiniteSet(S) => \E r \in S : \A q \in S : ~WaitsFor(r, q)

\* Every request that is not cut off by a crash gets its answer: the locks, the
\* conflicts and the bounded retries let none of them wait for ever.
EveryRequestEnds == \A r \in Requests : <>(pc[r] \in {"done", "crashed"})

\* The inductive invariant that carries the safety properties.
\* A request has attempts left when it is about to begin one, is not answered
\* before it is done, and has written exactly when it is past its commit.
RequestInStep(r) ==
  /\ pc[r] \in {"lookup", "begin"} => attempt[r] < MaxAttempts
  /\ pc[r] \notin {"done", "crashed"} => answer[r] = Waiting
  /\ pc[r] \in {"lookup", "begin", "relookup"} \cup InTx => ~wrote[r]
  /\ pc[r] = "replying" => wrote[r]
InStep == \A r \in Requests : RequestInStep(r)

\* The unique index and the rows agree on who holds which key.
KeysHeld ==
  /\ \A r \in Requests : wrote[r] /\ Keyed(job[r]) => rows[RowKey(job[r])] = r
  /\ \A k \in RowKeys, q \in Requests :
       rows[k] = q => wrote[q] /\ Keyed(job[q]) /\ RowKey(job[q]) = k

\* A stale snapshot is harmless unless the commit will see the conflict: nobody
\* who clashes has committed, so what it shows is still there to be spent.
Bounded(r) ==
  LET a == job[r].from IN
  /\ snap[r].avail <= avail[a] + unchecked[a]
  /\ outgoing[a] - unchecked[a] <= snap[r].outgoing
SnapshotBound == \A r \in Requests : pc[r] \in InTx /\ ~Conflict(r) => Bounded(r)

\* The checks were made on the snapshot the transaction still has.
CheckedBound ==
  \A r \in Requests : pc[r] = "inserting" => WithinLimits(r) /\ EnoughBalance(r)

Inv == /\ TypeOK /\ InStep /\ KeysHeld /\ AnswersSound
       /\ SnapshotBound /\ CheckedBound /\ NoOverdraft /\ DailyLimitHeld

\* Served concurrently, with conflicts, retries, timeouts and crashes, the requests
\* change the accounts as if each were one atomic step of AccountBook.
Book == INSTANCE AccountBook
ImplementsAccountBook == Book!Spec
=============================================================================
