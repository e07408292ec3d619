--------------------------- MODULE Wallet_proofs ---------------------------
(***************************************************************************)
(* The wallet's safety for every set of requests, consumers, currencies,   *)
(* keys and amounts, every daily limit and every number of attempts.       *)
(*                                                                         *)
(* Inv is inductive.  The step that matters is Commit: a committing        *)
(* request u either debits another account than a transaction r in flight, *)
(* and then r's snapshot still bounds what r may spend, or it debits the   *)
(* same one, and then u and r clash, and r will not commit.                *)
(***************************************************************************)
EXTENDS Wallet, FiniteSetTheorems, TLAPS

LEMMA JobFacts ==
  ASSUME NEW j \in Jobs
  PROVE  /\ j.kind \in Kinds /\ j.from \in Accounts /\ j.to \in Accounts
         /\ j.amount \in Nat /\ j.amount > 0 /\ j.credit \in Nat
         /\ Consumer(j) \in Consumers
         /\ Keyed(j) => RowKey(j) \in RowKeys
<1>1. j \in JobType
  BY JobsAssumption
<1>2. /\ j.kind \in Kinds /\ j.from \in Accounts /\ j.to \in Accounts
      /\ j.amount \in Nat /\ j.amount > 0 /\ j.credit \in Nat
      /\ j.key \in Keys \cup {NoKey}
  BY <1>1 DEF JobType
<1>3. Consumer(j) \in Consumers
  BY <1>2 DEF Accounts, Consumer
<1>4. Keyed(j) => RowKey(j) \in RowKeys
  BY <1>2 DEF Keyed, RowKey, RowKeys
<1> QED BY <1>2, <1>3, <1>4

\* What the rows of an operation add up to, account by account.
LEMMA RowAmounts ==
  ASSUME NEW j \in Jobs, NEW a \in Accounts
  PROVE  /\ Debit(j, a) \in Nat /\ Credit(j, a) \in Nat /\ Payment(j, a) \in Nat
         /\ a # j.from => Debit(j, a) = 0 /\ Payment(j, a) = 0
         /\ a = j.from => Debit(j, a) = j.amount
         /\ a = j.from /\ j.kind # "exchange" => Payment(j, a) = j.amount
         /\ j.kind = "exchange" => Payment(j, a) = 0
  BY JobFacts DEF Debit, Credit, Payment

\* Two requests that debit one account each read what the other writes.
LEMMA SameDebitClashes ==
  ASSUME NEW r \in Requests, NEW u \in Requests, job[r].from = job[u].from
  PROVE  Clash(r, u)
  BY DEF Clash, Reads, Writes

LEMMA LocksOfLength ==
  ASSUME NEW j \in Jobs
  PROVE  Len(LocksOf(j)) \in 1..3
<1>1. j.kind \in Kinds
  BY JobFacts
<1>2. CASE j.kind = "withdraw"
  BY <1>2 DEF LocksOf
<1>3. CASE j.kind = "transfer"
  BY <1>3 DEF LocksOf
<1>4. CASE j.kind = "exchange"
  BY <1>4 DEF LocksOf
<1> QED BY <1>1, <1>2, <1>3, <1>4 DEF Kinds

-----------------------------------------------------------------------------
\* Type correctness, given that a request about to begin has attempts left.
LEMMA InitInv == Init => Inv
<1> SUFFICES ASSUME Init PROVE Inv
  OBVIOUS
<1> USE DEF Init
<1>1. TypeOK
  <2>1. attempt \in [Requests -> 0..MaxAttempts] /\ got \in [Requests -> 0..3]
    BY AttemptsAssumption
  <2>2. avail \in [Accounts -> Int] /\ outgoing \in [Accounts -> Int] /\ unchecked \in [Accounts -> Nat]
    BY OpeningAssumption
  <2>3. posts \in 0..MaxPosts
    BY PostsAssumption
  <2>4. snap \in [Requests -> [avail : Int, outgoing : Int]]
    BY DEF NoSnapshot
  <2> QED BY <2>1, <2>2, <2>3, <2>4 DEF TypeOK, PCs
<1>2. InStep
  BY AttemptsAssumption DEF InStep, RequestInStep, InTx
<1>3. KeysHeld
  BY MarksAssumption DEF KeysHeld
<1>4. AnswersSound
  BY AnswersAssumption DEF AnswersSound
<1>5. SnapshotBound /\ CheckedBound
  BY DEF SnapshotBound, CheckedBound, InTx
<1>6. NoOverdraft /\ DailyLimitHeld
  BY OpeningAssumption, LimitAssumption DEF NoOverdraft, DailyLimitHeld
<1> QED BY <1>1, <1>2, <1>3, <1>4, <1>5, <1>6 DEF Inv

LEMMA TypeStep == TypeOK /\ InStep /\ [Next]_vars => TypeOK'
<1> SUFFICES ASSUME TypeOK, InStep, [Next]_vars PROVE TypeOK'
  OBVIOUS
<1> USE DEF TypeOK, PCs, InTx
<1>r. ASSUME NEW r \in Requests, Rollback(r)
      PROVE  /\ lock' \in [Locks -> Requests \cup {Free}]
             /\ snap' \in [Requests -> [avail : Int, outgoing : Int]]
             /\ since' \in [Requests -> SUBSET Requests]
             /\ got' \in [Requests -> 0..3]
  BY <1>r DEF Rollback, Released, NoSnapshot
<1>g. ASSUME NEW r \in Requests, NEW where \in PCs, Goto(r, where)
      PROVE  pc' \in [Requests -> PCs]
  BY <1>g DEF Goto
<1>t. ASSUME NEW r \in Requests, NEW what \in Requests \cup Refusals, Tell(r, what)
      PROVE  answer' \in [Requests -> Requests \cup {Waiting} \cup Refusals]
  BY <1>t DEF Tell
<1>f. "rejected" \in Refusals /\ "error" \in Refusals
  BY DEF Refusals
<1>1. ASSUME NEW r \in Requests, Lookup(r) PROVE TypeOK'
  <2>1. Existing(r) \subseteq Requests
    BY DEF Existing
  <2>2. pc' \in [Requests -> PCs]
    BY <1>1, <1>g DEF Lookup
  <2>3. answer' \in [Requests -> Requests \cup {Waiting} \cup Refusals]
    BY <1>1, <1>t, <2>1 DEF Lookup
  <2> QED BY <1>1, <2>2, <2>3 DEF Lookup, book
<1>2. ASSUME NEW r \in Requests, Begin(r) PROVE TypeOK'
  <2>1. job[r] \in Jobs /\ job[r].from \in Accounts
    BY JobFacts
  <2>2. snap' \in [Requests -> [avail : Int, outgoing : Int]]
    BY <1>2, <2>1 DEF Begin
  <2>3. attempt' \in [Requests -> 0..MaxAttempts]
    BY <1>2, AttemptsAssumption DEF Begin, InStep, RequestInStep
  <2> QED BY <1>2, <2>2, <2>3 DEF Begin, Goto, book
<1>3. ASSUME NEW r \in Requests, Acquire(r) PROVE TypeOK'
  <2>1. Len(LocksOf(job[r])) \in 1..3
    BY LocksOfLength
  <2>2. got' \in [Requests -> 0..3]
    <3>1. got[r] \in 0..3 /\ got[r] < Len(LocksOf(job[r]))
      BY <1>3 DEF Acquire
    <3>2. \A g \in 0..3, n \in 1..3 : g < n => g + 1 \in 0..3
      OBVIOUS
    <3>3. got' = [got EXCEPT ![r] = got[r] + 1]
      BY <1>3 DEF Acquire
    <3>4. got[r] + 1 \in 0..3
      BY <2>1, <3>1, <3>2, Zenon
    <3> QED BY <3>3, <3>4
  <2>3. lock' \in [Locks -> Requests \cup {Free}]
    BY <1>3 DEF Acquire
  <2> QED BY <1>3, <2>2, <2>3 DEF Acquire, Goto, book
<1>4. ASSUME NEW r \in Requests, Check(r) PROVE TypeOK'
  <2>1. pc' \in [Requests -> PCs]
    BY <1>4, <1>g DEF Check
  <2>2. answer' \in [Requests -> Requests \cup {Waiting} \cup Refusals]
    BY <1>4, <1>t, <1>f DEF Check
  <2> QED BY <1>4, <1>r, <2>1, <2>2 DEF Check, book
<1>5. ASSUME NEW r \in Requests, Commit(r) PROVE TypeOK'
  <2>1. job[r] \in Jobs
    OBVIOUS
  <2>2. avail' \in [Accounts -> Int] /\ outgoing' \in [Accounts -> Int]
    BY <1>5, <2>1, RowAmounts DEF Commit, AfterRows, AfterPayment
  <2>3. rows' \in [RowKeys -> Requests \cup {NoRow}]
    BY <1>5, <2>1, JobFacts DEF Commit
  <2>4. /\ lock' \in [Locks -> Requests \cup {Free}]
        /\ snap' \in [Requests -> [avail : Int, outgoing : Int]]
        /\ since' \in [Requests -> SUBSET Requests]
        /\ got' \in [Requests -> 0..3]
    BY <1>5 DEF Commit, Released, NoSnapshot
  <2>5. payout' \in [Requests -> {"none", "PENDING", "COMPLETED", "DENIED"}]
    BY <1>5 DEF Commit
  <2>6. wrote' \in [Requests -> BOOLEAN]
    BY <1>5 DEF Commit
  <2> QED BY <1>5, <2>2, <2>3, <2>4, <2>5, <2>6 DEF Commit, Goto
<1>6. ASSUME NEW r \in Requests, SerializationFailure(r) PROVE TypeOK'
  BY <1>6, <1>r DEF SerializationFailure, Goto, Tell, book, Refusals
<1>7. ASSUME NEW r \in Requests, DuplicateKey(r) PROVE TypeOK'
  BY <1>7, <1>r DEF DuplicateKey, Goto, Tell, book, Refusals
<1>8. ASSUME NEW r \in Requests, Relookup(r) PROVE TypeOK'
  BY <1>8 DEF Relookup, Existing, Goto, Tell, book, Refusals
<1>9. ASSUME NEW r \in Requests, Reply(r) \/ CommitUnacknowledged(r) PROVE TypeOK'
  <2>1. pc' \in [Requests -> PCs]
    BY <1>9, <1>g DEF Reply, CommitUnacknowledged
  <2>2. answer' \in [Requests -> Requests \cup {Waiting} \cup Refusals]
    BY <1>9, <1>t, <1>f DEF Reply, CommitUnacknowledged
  <2> QED BY <1>9, <2>1, <2>2 DEF Reply, CommitUnacknowledged, book
<1>10. ASSUME NEW r \in Requests, TxTimeout(r) \/ Crash(r) PROVE TypeOK'
  <2>1. pc' \in [Requests -> PCs]
    BY <1>10, <1>g DEF TxTimeout, Crash
  <2>2. answer' \in [Requests -> Requests \cup {Waiting} \cup Refusals]
    BY <1>10, <1>t, <1>f DEF TxTimeout, Crash
  <2> QED BY <1>10, <1>r, <2>1, <2>2 DEF TxTimeout, Crash, book
<1>11. ASSUME NEW r \in Requests, NEW status \in {"COMPLETED", "DENIED"}, PayoutOutcome(r, status)
       PROVE  TypeOK'
  <2>1. job[r].from \in Accounts /\ job[r].amount \in Nat
    BY JobFacts
  <2> QED BY <1>11, <2>1 DEF PayoutOutcome, control
<1>12. ASSUME NEW a \in Accounts, NEW m \in PostAmounts, PostCredit(a, m) \/ PostDebit(a, m)
       PROVE  TypeOK'
  <2>1. m \in Nat /\ MaxPosts \in Nat
    BY PostsAssumption
  <2> QED BY <1>12, <2>1 DEF PostCredit, PostDebit, control
<1>13. ASSUME UNCHANGED vars PROVE TypeOK'
  BY <1>13 DEF vars, control, book
<1> QED BY <1>1, <1>2, <1>3, <1>4, <1>5, <1>6, <1>7, <1>8, <1>9, <1>10, <1>11, <1>12, <1>13
        DEF Next, Serve, Environment

-----------------------------------------------------------------------------
\* Only Commit touches the keys and the rows written.
LEMMA OnlyCommitWrites ==
  ASSUME [Next]_vars, \A r \in Requests : ~Commit(r)
  PROVE  UNCHANGED <<job, rows, wrote>>
<1>1. ASSUME NEW r \in Requests, Serve(r) \/ TxTimeout(r) \/ CommitUnacknowledged(r) \/ Crash(r)
      PROVE  UNCHANGED <<job, rows, wrote>>
  BY <1>1 DEF Serve, Lookup, Begin, Acquire, Check, SerializationFailure, DuplicateKey,
              Relookup, Reply, TxTimeout, CommitUnacknowledged, Crash, book
<1>2. ASSUME Environment PROVE UNCHANGED <<job, rows, wrote>>
  BY <1>2 DEF Environment, PayoutOutcome, PostCredit, PostDebit
<1>3. ASSUME UNCHANGED vars PROVE UNCHANGED <<job, rows, wrote>>
  BY <1>3 DEF vars, book
<1> QED BY <1>1, <1>2, <1>3 DEF Next

LEMMA JobsKept == [Next]_vars => job' = job
<1>1. ASSUME NEW r \in Requests, Commit(r) PROVE job' = job
  BY <1>1 DEF Commit
<1> QED BY <1>1, OnlyCommitWrites

LEMMA InStepStep == TypeOK /\ InStep /\ [Next]_vars => InStep'
<1> SUFFICES ASSUME TypeOK, InStep, [Next]_vars, NEW q \in Requests
             PROVE  RequestInStep(q)'
  BY DEF InStep
<1> USE DEF TypeOK, InStep, RequestInStep, InTx, Goto, Tell
<1>1. ASSUME NEW r \in Requests, Lookup(r) \/ Relookup(r) \/ Reply(r) \/ CommitUnacknowledged(r)
      PROVE  RequestInStep(q)'
  BY <1>1 DEF Lookup, Relookup, Reply, CommitUnacknowledged, book
<1>2. ASSUME NEW r \in Requests, Begin(r) \/ Acquire(r) \/ Check(r) PROVE RequestInStep(q)'
  BY <1>2 DEF Begin, Acquire, Check, book
<1>3. ASSUME NEW r \in Requests, Commit(r) PROVE RequestInStep(q)'
  BY <1>3 DEF Commit
<1>4. ASSUME NEW r \in Requests, SerializationFailure(r) PROVE RequestInStep(q)'
  BY <1>4 DEF SerializationFailure, MayRetry, book
<1>5. ASSUME NEW r \in Requests, DuplicateKey(r) \/ TxTimeout(r) \/ Crash(r) PROVE RequestInStep(q)'
  BY <1>5 DEF DuplicateKey, TxTimeout, Crash, book
<1>6. ASSUME Environment PROVE RequestInStep(q)'
  BY <1>6 DEF Environment, PayoutOutcome, PostCredit, PostDebit, control
<1>7. ASSUME UNCHANGED vars PROVE RequestInStep(q)'
  BY <1>7 DEF vars, control, book
<1> QED BY <1>1, <1>2, <1>3, <1>4, <1>5, <1>6, <1>7 DEF Next, Serve

LEMMA KeysStep == TypeOK /\ KeysHeld /\ [Next]_vars => KeysHeld'
<1> SUFFICES ASSUME TypeOK, KeysHeld, [Next]_vars PROVE KeysHeld'
  OBVIOUS
<1>1. ASSUME NEW r \in Requests, Commit(r) PROVE KeysHeld'
  <2>1. job[r] \in Jobs /\ job' = job /\ wrote' = [wrote EXCEPT ![r] = TRUE]
    BY <1>1 DEF Commit, TypeOK
  <2>2. Keyed(job[r]) => RowKey(job[r]) \in RowKeys /\ rows[RowKey(job[r])] = NoRow
    BY <1>1, <2>1, JobFacts DEF Commit, KeyFree
  <2>3. rows' = IF Keyed(job[r]) THEN [rows EXCEPT ![RowKey(job[r])] = r] ELSE rows
    BY <1>1 DEF Commit
  <2>4. ASSUME NEW q \in Requests, wrote'[q], Keyed(job[q]) PROVE rows'[RowKey(job[q])] = q
    <3>1. CASE q = r
      BY <2>2, <2>3, <2>4, <3>1 DEF TypeOK
    <3>2. CASE q # r
      <4>1. rows[RowKey(job[q])] = q
        BY <2>1, <2>4, <3>2 DEF KeysHeld, TypeOK
      <4> QED BY <2>2, <2>3, <4>1, MarksAssumption DEF TypeOK
    <3> QED BY <3>1, <3>2
  <2>5. ASSUME NEW k \in RowKeys, NEW q \in Requests, rows'[k] = q
        PROVE  wrote'[q] /\ Keyed(job[q]) /\ RowKey(job[q]) = k
    <3>1. CASE Keyed(job[r]) /\ k = RowKey(job[r])
      BY <2>1, <2>3, <2>5, <3>1 DEF TypeOK
    <3>2. CASE ~(Keyed(job[r]) /\ k = RowKey(job[r]))
      <4>1. rows[k] = q
        BY <2>3, <2>5, <3>2 DEF TypeOK
      <4> QED BY <2>1, <4>1 DEF KeysHeld, TypeOK
    <3> QED BY <3>1, <3>2
  <2> QED BY <2>1, <2>4, <2>5 DEF KeysHeld
<1>2. ASSUME \A r \in Requests : ~Commit(r) PROVE KeysHeld'
  BY <1>2, OnlyCommitWrites DEF KeysHeld
<1> QED BY <1>1, <1>2

\* A looked-up row has been written, by a request of the same consumer and key.
LEMMA FoundRow ==
  ASSUME TypeOK, KeysHeld, NEW r \in Requests, NEW q \in Existing(r)
  PROVE  /\ q \in Requests /\ wrote[q] /\ Keyed(job[r])
         /\ RowKey(job[q]) = RowKey(job[r]) /\ Consumer(job[q]) = Consumer(job[r])
<1>1. /\ q \in Requests /\ Keyed(job[r]) /\ rows[RowKey(job[r])] = q
      /\ Consumer(job[q]) = Consumer(job[r])
  BY DEF Existing
<1>2. RowKey(job[r]) \in RowKeys
  BY <1>1, JobFacts DEF TypeOK
<1> QED BY <1>1, <1>2 DEF KeysHeld

LEMMA SoundStep ==
  TypeOK /\ InStep /\ KeysHeld /\ AnswersSound /\ [Next]_vars => AnswersSound'
<1> SUFFICES ASSUME TypeOK, InStep, KeysHeld, AnswersSound, [Next]_vars,
                    NEW q \in Requests, answer'[q] \in Requests
             PROVE  ToldOfOwnRows(q)'
  BY DEF AnswersSound
<1>j. job' = job
  BY JobsKept
<1>a. ASSUME answer'[q] = answer[q], wrote' = wrote
      PROVE  ToldOfOwnRows(q)'
  BY <1>a, <1>j DEF AnswersSound, ToldOfOwnRows
<1>b. ASSUME NEW r \in Requests, NEW what, Tell(r, what), what \notin Requests, wrote' = wrote
      PROVE  answer'[q] = answer[q]
  BY <1>b DEF Tell, TypeOK
<1>e. "rejected" \notin Requests /\ "error" \notin Requests
  BY AnswersAssumption DEF Refusals
<1>1. ASSUME NEW r \in Requests, Lookup(r) \/ Relookup(r) PROVE ToldOfOwnRows(q)'
  <2>1. wrote' = wrote
    BY <1>1 DEF Lookup, Relookup, book
  <2>2. CASE answer'[q] = answer[q]
    BY <1>a, <2>1, <2>2
  <2>3. CASE \E w \in Existing(r) : Tell(r, w)
    <3>1. PICK w \in Existing(r) : Tell(r, w)
      BY <2>3
    <3>2. CASE q = r
      <4>1. answer'[q] = w
        BY <3>1, <3>2 DEF Tell, TypeOK
      <4> QED BY <1>j, <2>1, <3>2, <4>1, FoundRow DEF ToldOfOwnRows
    <3>3. CASE q # r
      BY <1>a, <2>1, <3>1, <3>3 DEF Tell, TypeOK
    <3> QED BY <3>2, <3>3
  <2>4. CASE Tell(r, "error")
    BY <1>a, <1>b, <1>e, <2>1, <2>4
  <2> QED BY <1>1, <2>2, <2>3, <2>4 DEF Lookup, Relookup
<1>2. ASSUME NEW r \in Requests, Reply(r) PROVE ToldOfOwnRows(q)'
  <2>1. wrote' = wrote /\ Tell(r, r)
    BY <1>2 DEF Reply, book
  <2>2. wrote[r]
    BY <1>2 DEF Reply, InStep, RequestInStep
  <2>3. CASE q = r
    BY <1>j, <2>1, <2>2, <2>3 DEF Tell, TypeOK, ToldOfOwnRows
  <2>4. CASE q # r
    BY <1>a, <2>1, <2>4 DEF Tell, TypeOK
  <2> QED BY <2>3, <2>4
<1>3. ASSUME NEW r \in Requests, Commit(r) PROVE ToldOfOwnRows(q)'
  <2>1. answer' = answer /\ wrote' = [wrote EXCEPT ![r] = TRUE]
    BY <1>3 DEF Commit
  <2> QED BY <1>j, <2>1 DEF AnswersSound, ToldOfOwnRows, TypeOK
<1>4. ASSUME NEW r \in Requests,
             \/ Check(r) \/ SerializationFailure(r) \/ DuplicateKey(r)
             \/ TxTimeout(r) \/ CommitUnacknowledged(r)
      PROVE  ToldOfOwnRows(q)'
  <2>1. wrote' = wrote
    BY <1>4 DEF Check, SerializationFailure, DuplicateKey, TxTimeout, CommitUnacknowledged, book
  <2>2. answer' = answer \/ Tell(r, "rejected") \/ Tell(r, "error")
    BY <1>4 DEF Check, SerializationFailure, DuplicateKey, TxTimeout, CommitUnacknowledged
  <2>3. answer'[q] = answer[q]
    BY <1>b, <1>e, <2>1, <2>2
  <2> QED BY <1>a, <2>1, <2>3
<1>5. ASSUME NEW r \in Requests, Begin(r) \/ Acquire(r) \/ Crash(r) PROVE ToldOfOwnRows(q)'
  BY <1>5, <1>a DEF Begin, Acquire, Crash, book
<1>6. ASSUME Environment PROVE ToldOfOwnRows(q)'
  BY <1>6, <1>a DEF Environment, PayoutOutcome, PostCredit, PostDebit
<1>7. ASSUME UNCHANGED vars PROVE ToldOfOwnRows(q)'
  BY <1>7, <1>a DEF vars, book
<1> QED BY <1>1, <1>2, <1>3, <1>4, <1>5, <1>6, <1>7 DEF Next, Serve

-----------------------------------------------------------------------------
\* Every step leaves the snapshot of a request alone that is in a transaction
\* before and after it, or its attempt has just begun or just ended.
LEMMA CheckedStep ==
  TypeOK /\ CheckedBound /\ [Next]_vars => CheckedBound'
<1> SUFFICES ASSUME TypeOK, CheckedBound, [Next]_vars,
                    NEW q \in Requests, pc'[q] = "inserting"
             PROVE  (WithinLimits(q) /\ EnoughBalance(q))'
  BY DEF CheckedBound
<1>j. job' = job
  BY JobsKept
<1>a. ASSUME pc[q] = "inserting", snap'[q] = snap[q] PROVE (WithinLimits(q) /\ EnoughBalance(q))'
  BY <1>a, <1>j DEF CheckedBound, WithinLimits, EnoughBalance
<1> USE DEF TypeOK, Goto
<1>1. ASSUME NEW r \in Requests,
             Lookup(r) \/ Begin(r) \/ Acquire(r) \/ Relookup(r) \/ Reply(r) \/ CommitUnacknowledged(r)
      PROVE  (WithinLimits(q) /\ EnoughBalance(q))'
  <2>1. pc[q] = "inserting" /\ snap'[q] = snap[q]
    BY <1>1 DEF Lookup, Begin, Acquire, Relookup, Reply, CommitUnacknowledged
  <2> QED BY <1>a, <2>1
<1>2. ASSUME NEW r \in Requests, Check(r) PROVE (WithinLimits(q) /\ EnoughBalance(q))'
  <2>1. CASE q = r
    <3>1. WithinLimits(r) /\ EnoughBalance(r) /\ snap' = snap
      BY <1>2, <2>1 DEF Check
    <3> QED BY <1>j, <2>1, <3>1 DEF WithinLimits, EnoughBalance
  <2>2. CASE q # r
    <3>1. pc[q] = "inserting" /\ snap'[q] = snap[q]
      BY <1>2, <2>2 DEF Check, Rollback
    <3> QED BY <1>a, <3>1
  <2> QED BY <2>1, <2>2
<1>3. ASSUME NEW r \in Requests,
             Commit(r) \/ SerializationFailure(r) \/ DuplicateKey(r) \/ TxTimeout(r) \/ Crash(r)
      PROVE  (WithinLimits(q) /\ EnoughBalance(q))'
  <2>1. pc[q] = "inserting" /\ snap'[q] = snap[q]
    BY <1>3 DEF Commit, SerializationFailure, DuplicateKey, TxTimeout, Crash, Rollback
  <2> QED BY <1>a, <2>1
<1>4. ASSUME Environment \/ UNCHANGED vars PROVE (WithinLimits(q) /\ EnoughBalance(q))'
  BY <1>4, <1>a DEF Environment, PayoutOutcome, PostCredit, PostDebit, vars, control
<1> QED BY <1>1, <1>2, <1>3, <1>4 DEF Next, Serve

\* The environment never takes money that was not put down as unchecked.
LEMMA EnvironmentKeeps ==
  ASSUME TypeOK, Environment, NEW a \in Accounts
  PROVE  /\ avail[a] + unchecked[a] <= avail'[a] + unchecked'[a]
         /\ outgoing'[a] - unchecked'[a] <= outgoing[a] - unchecked[a]
<1> USE DEF TypeOK
<1>1. ASSUME NEW r \in Requests, NEW status \in {"COMPLETED", "DENIED"}, PayoutOutcome(r, status)
      PROVE  /\ avail[a] + unchecked[a] <= avail'[a] + unchecked'[a]
             /\ outgoing'[a] - unchecked'[a] <= outgoing[a] - unchecked[a]
  <2>1. job[r].from \in Accounts /\ job[r].amount \in Nat
    BY JobFacts
  <2> QED BY <1>1, <2>1 DEF PayoutOutcome
<1>2. ASSUME NEW b \in Accounts, NEW m \in PostAmounts, PostCredit(b, m)
      PROVE  /\ avail[a] + unchecked[a] <= avail'[a] + unchecked'[a]
             /\ outgoing'[a] - unchecked'[a] <= outgoing[a] - unchecked[a]
  <2>1. m \in Nat
    BY PostsAssumption
  <2> QED BY <1>2, <2>1 DEF PostCredit
<1>3. ASSUME NEW b \in Accounts, NEW m \in PostAmounts, PostDebit(b, m)
      PROVE  /\ avail[a] + unchecked[a] <= avail'[a] + unchecked'[a]
             /\ outgoing'[a] - unchecked'[a] <= outgoing[a] - unchecked[a]
  <2>1. m \in Nat
    BY PostsAssumption
  <2> QED BY <1>3, <2>1 DEF PostDebit
<1> QED BY <1>1, <1>2, <1>3 DEF Environment

LEMMA BoundStep ==
  TypeOK /\ SnapshotBound /\ [Next]_vars => SnapshotBound'
<1> SUFFICES ASSUME TypeOK, SnapshotBound, [Next]_vars,
                    NEW q \in Requests, pc'[q] \in InTx, ~Conflict(q)'
             PROVE  Bounded(q)'
  BY DEF SnapshotBound
<1>j. job' = job
  BY JobsKept
<1>k. job[q].from \in Accounts /\ snap[q].avail \in Int /\ snap[q].outgoing \in Int
  BY JobFacts DEF TypeOK
<1>a. ASSUME pc[q] \in InTx, snap'[q] = snap[q], since'[q] = since[q],
             UNCHANGED <<avail, outgoing, unchecked>>
      PROVE  Bounded(q)'
  BY <1>a, <1>j DEF SnapshotBound, Bounded, Conflict, Clash, Reads, Writes
<1> USE DEF TypeOK, Goto
<1>1. ASSUME NEW r \in Requests, Begin(r) PROVE Bounded(q)'
  <2>1. CASE q = r
    <3>1. /\ snap'[q].avail = avail[job[q].from] /\ snap'[q].outgoing = outgoing[job[q].from]
          /\ UNCHANGED <<avail, outgoing, unchecked>>
      BY <1>1, <2>1 DEF Begin, book
    <3> QED BY <1>j, <1>k, <3>1 DEF Bounded
  <2>2. CASE q # r
    BY <1>1, <1>a, <2>2 DEF Begin, book
  <2> QED BY <2>1, <2>2
<1>2. ASSUME NEW r \in Requests,
             \/ Lookup(r) \/ Acquire(r) \/ Check(r) \/ SerializationFailure(r)
             \/ DuplicateKey(r) \/ Relookup(r) \/ Reply(r) \/ TxTimeout(r)
             \/ CommitUnacknowledged(r) \/ Crash(r)
      PROVE  Bounded(q)'
  <2>1. UNCHANGED <<avail, outgoing, unchecked>>
    BY <1>2 DEF Lookup, Acquire, Check, SerializationFailure, DuplicateKey, Relookup, Reply,
                TxTimeout, CommitUnacknowledged, Crash, book
  <2>2. pc[q] \in InTx
    BY <1>2 DEF Lookup, Acquire, Check, SerializationFailure, DuplicateKey, Relookup, Reply,
                TxTimeout, CommitUnacknowledged, Crash, InTx
  <2>3. CASE UNCHANGED <<snap, since>>
    BY <1>a, <2>1, <2>2, <2>3
  <2>4. CASE Rollback(r) /\ pc'[r] \notin InTx
    <3>1. q # r
      BY <2>4
    <3>2. snap'[q] = snap[q] /\ since'[q] = since[q]
      BY <2>4, <3>1 DEF Rollback
    <3> QED BY <1>a, <2>1, <2>2, <3>2
  <2> QED BY <1>2, <2>3, <2>4 DEF Lookup, Acquire, Check, SerializationFailure, DuplicateKey,
             Relookup, Reply, TxTimeout, CommitUnacknowledged, Crash, InTx
<1>3. ASSUME NEW u \in Requests, Commit(u) PROVE Bounded(q)'
  <2>1. q # u /\ pc[q] \in InTx /\ snap'[q] = snap[q] /\ since'[q] = since[q] \cup {u}
    BY <1>3 DEF Commit, InTx
  <2>2. ~Conflict(q) /\ ~Clash(q, u)
    BY <1>j, <2>1 DEF Conflict, Clash, Reads, Writes
  <2>3. job[u].from # job[q].from
    BY <2>2, SameDebitClashes
  <2>4. Bounded(q)
    BY <2>1, <2>2 DEF SnapshotBound
  <2>5. job[u] \in Jobs
    OBVIOUS
  <2>6. /\ Debit(job[u], job[q].from) = 0 /\ Payment(job[u], job[q].from) = 0
        /\ Credit(job[u], job[q].from) \in Nat
    BY <1>k, <2>3, <2>5, RowAmounts
  <2>7. /\ avail'[job[q].from] = avail[job[q].from] + Credit(job[u], job[q].from)
        /\ outgoing'[job[q].from] = outgoing[job[q].from]
        /\ unchecked' = unchecked
    BY <1>3, <1>k, <2>6 DEF Commit, AfterRows, AfterPayment
  <2> QED BY <1>j, <1>k, <2>1, <2>4, <2>6, <2>7 DEF Bounded
<1>4. ASSUME Environment PROVE Bounded(q)'
  <2>1. UNCHANGED <<pc, snap, since>>
    BY <1>4 DEF Environment, PayoutOutcome, PostCredit, PostDebit, control
  <2>2. Bounded(q)
    BY <1>j, <2>1 DEF SnapshotBound, Conflict, Clash, Reads, Writes
  <2>3. avail' \in [Accounts -> Int] /\ outgoing' \in [Accounts -> Int] /\ unchecked' \in [Accounts -> Int]
    <3>1. \A r \in Requests : job[r].from \in Accounts /\ job[r].amount \in Nat
      BY JobFacts
    <3> QED BY <1>4, <3>1, PostsAssumption DEF Environment, PayoutOutcome, PostCredit, PostDebit
  <2>4. /\ avail[job[q].from] + unchecked[job[q].from] <= avail'[job[q].from] + unchecked'[job[q].from]
        /\ outgoing'[job[q].from] - unchecked'[job[q].from] <= outgoing[job[q].from] - unchecked[job[q].from]
    BY <1>4, <1>k, EnvironmentKeeps
  <2> QED BY <1>j, <1>k, <2>1, <2>2, <2>3, <2>4 DEF Bounded
<1>5. ASSUME UNCHANGED vars PROVE Bounded(q)'
  BY <1>5, <1>a DEF vars, control, book
<1> QED BY <1>1, <1>2, <1>3, <1>4, <1>5 DEF Next, Serve

\* A committing request takes no more than its account has.
LEMMA CommitAffordable ==
  ASSUME TypeOK, SnapshotBound, CheckedBound, NEW u \in Requests, Commit(u)
  PROVE  LET a == job[u].from IN
         /\ job[u].amount <= avail[a] + unchecked[a]
         /\ job[u].kind # "exchange" => outgoing[a] + job[u].amount <= DailyLimit + unchecked[a]
<1>1. pc[u] = "inserting" /\ ~Conflict(u)
  BY DEF Commit
<1>2. Bounded(u) /\ WithinLimits(u) /\ EnoughBalance(u)
  BY <1>1 DEF SnapshotBound, CheckedBound, InTx
<1>3. /\ job[u].from \in Accounts /\ job[u].amount \in Nat
      /\ snap[u].avail \in Int /\ snap[u].outgoing \in Int
  BY JobFacts DEF TypeOK
<1> QED BY <1>2, <1>3, LimitAssumption DEF Bounded, WithinLimits, EnoughBalance, TypeOK

LEMMA MoneyStep ==
  /\ TypeOK /\ SnapshotBound /\ CheckedBound /\ NoOverdraft /\ DailyLimitHeld /\ [Next]_vars
  => NoOverdraft' /\ DailyLimitHeld'
<1> SUFFICES ASSUME TypeOK, SnapshotBound, CheckedBound, NoOverdraft, DailyLimitHeld, [Next]_vars,
                    NEW a \in Accounts
             PROVE  /\ avail'[a] + unchecked'[a] >= 0
                    /\ outgoing'[a] <= DailyLimit + unchecked'[a]
  BY DEF NoOverdraft, DailyLimitHeld
<1> DEFINE Safe == /\ avail'[a] + unchecked'[a] >= 0
                   /\ outgoing'[a] <= DailyLimit + unchecked'[a]
<1>k. /\ avail[a] \in Int /\ outgoing[a] \in Int /\ unchecked[a] \in Int
      /\ avail[a] + unchecked[a] >= 0 /\ outgoing[a] <= DailyLimit + unchecked[a]
      /\ DailyLimit \in Int
  BY LimitAssumption DEF TypeOK, NoOverdraft, DailyLimitHeld
<1>1. ASSUME UNCHANGED <<avail, outgoing, unchecked>> PROVE Safe
  BY <1>1, <1>k
<1>2. ASSUME NEW r \in Requests,
             \/ Lookup(r) \/ Begin(r) \/ Acquire(r) \/ Check(r) \/ SerializationFailure(r)
             \/ DuplicateKey(r) \/ Relookup(r) \/ Reply(r) \/ TxTimeout(r)
             \/ CommitUnacknowledged(r) \/ Crash(r)
      PROVE  UNCHANGED <<avail, outgoing, unchecked>>
  BY <1>2 DEF Lookup, Begin, Acquire, Check, SerializationFailure, DuplicateKey, Relookup, Reply,
              TxTimeout, CommitUnacknowledged, Crash, book
<1>3. ASSUME NEW u \in Requests, Commit(u) PROVE Safe
  <2>1. job[u] \in Jobs
    BY DEF TypeOK
  <2>2. /\ avail'[a] = avail[a] - Debit(job[u], a) + Credit(job[u], a)
        /\ outgoing'[a] = outgoing[a] + Payment(job[u], a)
        /\ unchecked'[a] = unchecked[a]
    BY <1>3 DEF Commit, AfterRows, AfterPayment
  <2>3. Debit(job[u], a) \in Nat /\ Credit(job[u], a) \in Nat /\ Payment(job[u], a) \in Nat
    BY <2>1, RowAmounts
  <2>4. CASE a # job[u].from
    <3>1. Debit(job[u], a) = 0 /\ Payment(job[u], a) = 0
      BY <2>1, <2>4, RowAmounts
    <3> QED BY <1>k, <2>2, <2>3, <3>1
  <2>5. CASE a = job[u].from
    <3>1. /\ Debit(job[u], a) <= avail[a] + unchecked[a]
          /\ outgoing[a] + Payment(job[u], a) <= DailyLimit + unchecked[a]
      BY <1>3, <1>k, <2>1, <2>5, CommitAffordable, RowAmounts
    <3> QED BY <1>k, <2>2, <2>3, <3>1
  <2> QED BY <2>4, <2>5
<1>4. ASSUME Environment PROVE Safe
  <2>1. avail'[a] \in Int /\ outgoing'[a] \in Int /\ unchecked'[a] \in Int
    <3>1. \A r \in Requests : job[r].from \in Accounts /\ job[r].amount \in Nat
      BY JobFacts DEF TypeOK
    <3> QED BY <1>4, <1>k, <3>1, PostsAssumption DEF Environment, PayoutOutcome, PostCredit, PostDebit, TypeOK
  <2> QED BY <1>4, <1>k, <2>1, EnvironmentKeeps
<1>5. ASSUME UNCHANGED vars PROVE Safe
  BY <1>1, <1>5 DEF vars, book
<1> QED BY <1>1, <1>2, <1>3, <1>4, <1>5 DEF Next, Serve

-----------------------------------------------------------------------------
LEMMA InvStep == Inv /\ [Next]_vars => Inv'
  BY TypeStep, InStepStep, KeysStep, SoundStep, BoundStep, CheckedStep, MoneyStep DEF Inv

LEMMA Invariance == Spec => []Inv
  BY InitInv, InvStep, PTL DEF Spec

\* Every variable keeps its type: attempts, locks held, holders of keys.
THEOREM TypeCorrect == Spec => []TypeOK
<1>1. Inv => TypeOK
  BY DEF Inv
<1> QED BY <1>1, Invariance, PTL

\* However many withdrawals, transfers and exchanges run at once, an account is
\* below zero only by what unchecked payment-request legs took.
THEOREM NeverOverdrawn == Spec => []NoOverdraft
<1>1. Inv => NoOverdraft
  BY DEF Inv
<1> QED BY <1>1, Invariance, PTL

\* ensureLimits, asked one request at a time, bounds what all of them send out.
THEOREM WithinDailyLimit == Spec => []DailyLimitHeld
<1>1. Inv => DailyLimitHeld
  BY DEF Inv
<1> QED BY <1>1, Invariance, PTL

\* A ledger id told to a client is of rows in the ledger that are the client's own and
\* carry the key it sent: a lookup before or after the transaction finds no others.
THEOREM AnswersAreSound == Spec => []AnswersSound
<1>1. Inv => AnswersSound
  BY DEF Inv
<1> QED BY <1>1, Invariance, PTL

\* Requests with one idempotency key move money once.
THEOREM KeyedOnce == Spec => []OneEffectPerKey
<1>1. Inv => OneEffectPerKey
  <2> SUFFICES ASSUME Inv, NEW r \in Requests, NEW q \in Requests, wrote[r], wrote[q],
                      Keyed(job[r]), RowKey(job[r]) = RowKey(job[q])
               PROVE  r = q
    BY DEF OneEffectPerKey
  <2>1. Keyed(job[q])
    BY DEF Keyed, RowKey
  <2>2. rows[RowKey(job[r])] = r /\ rows[RowKey(job[q])] = q
    BY <2>1 DEF Inv, KeysHeld
  <2> QED BY <2>2
<1> QED BY <1>1, Invariance, PTL

\* Repeats of a keyed request that are answered with a ledger id get the same one.
THEOREM SameKeySameAnswer == Spec => []AnswersAgree
<1>1. Inv => AnswersAgree
  <2> SUFFICES ASSUME Inv, NEW r \in Requests, NEW q \in Requests,
                      answer[r] \in Requests, answer[q] \in Requests,
                      Keyed(job[r]), RowKey(job[r]) = RowKey(job[q])
               PROVE  answer[r] = answer[q]
    BY DEF AnswersAgree
  <2>1. Keyed(job[q])
    BY DEF Keyed, RowKey
  <2>2. /\ wrote[answer[r]] /\ RowKey(job[answer[r]]) = RowKey(job[r])
        /\ wrote[answer[q]] /\ RowKey(job[answer[q]]) = RowKey(job[q])
    BY DEF Inv, AnswersSound, ToldOfOwnRows
  <2>3. Keyed(job[answer[r]]) /\ Keyed(job[answer[q]])
    BY <2>1, <2>2 DEF Keyed, RowKey
  <2> QED BY <2>2, <2>3 DEF Inv, KeysHeld
<1> QED BY <1>1, Invariance, PTL

-----------------------------------------------------------------------------
\* The order of the advisory locks: the outgoing total's before any other, the
\* transfer locks by consumer id.
Precedes(l, m) ==
  \/ l[2] = "outgoing" /\ m[2] # "outgoing"
  \/ l[2] = "transfer" /\ m[2] = "transfer" /\ l[1] < m[1]

\* A lock is held by a transaction that has got that far in its list.
HeldInOrder ==
  \A l \in Locks, r \in Requests :
    lock[l] = r => \E i \in 1..got[r] : i <= Len(LocksOf(job[r])) /\ LocksOf(job[r])[i] = l

\* Every operation takes its locks upwards in that order; a transfer sorts its two.
LEMMA LocksAscend ==
  ASSUME NEW j \in Jobs, NEW i \in 1..Len(LocksOf(j)), NEW k \in 1..Len(LocksOf(j)), i < k
  PROVE  Precedes(LocksOf(j)[i], LocksOf(j)[k])
<1>1. /\ j.kind \in Kinds /\ Consumer(j) \in Nat
      /\ j.kind = "transfer" => j.to[1] \in Nat /\ j.to[1] # Consumer(j)
  BY JobFacts, JobsAssumption, ConsumersAssumption DEF Accounts, WellFormed, Consumer
<1>2. CASE j.kind = "withdraw"
  <2>1. i = 1 /\ k = 2
    BY <1>2 DEF LocksOf
  <2> QED BY <1>2, <2>1 DEF LocksOf, Precedes
<1>3. CASE j.kind = "transfer"
  <2> DEFINE ids == SortedIds(Consumer(j), j.to[1])
  <2>1. ids[1] < ids[2]
    BY <1>1, <1>3 DEF SortedIds
  <2>2. LocksOf(j) = << <<Consumer(j), "outgoing">>, <<ids[1], "transfer">>, <<ids[2], "transfer">> >>
    BY <1>3 DEF LocksOf
  <2> HIDE DEF ids
  <2>3. (i = 1 /\ k \in {2, 3}) \/ (i = 2 /\ k = 3)
    BY <2>2
  <2> QED BY <2>1, <2>2, <2>3 DEF Precedes
<1>4. CASE j.kind = "exchange"
  BY <1>4 DEF LocksOf
<1> QED BY <1>1, <1>2, <1>3, <1>4 DEF Kinds

LEMMA PrecedesIsOrder ==
  ASSUME NEW l, NEW m, NEW n, l[1] \in Nat, m[1] \in Nat, n[1] \in Nat
  PROVE  ~Precedes(l, l) /\ (Precedes(l, m) /\ Precedes(m, n) => Precedes(l, n))
  BY DEF Precedes

LEMMA LocksInLocks ==
  ASSUME NEW j \in Jobs, NEW i \in 1..Len(LocksOf(j))
  PROVE  LocksOf(j)[i] \in Locks /\ LocksOf(j)[i][1] \in Nat
<1>1. /\ j.kind \in Kinds /\ Consumer(j) \in Consumers /\ j.to[1] \in Consumers
  BY JobFacts DEF Accounts
<1>2. CASE j.kind = "withdraw"
  <2>1. i = 1 \/ i = 2
    BY <1>2 DEF LocksOf
  <2> QED BY <1>1, <1>2, <2>1, ConsumersAssumption DEF LocksOf, Locks, Operations
<1>3. CASE j.kind = "transfer"
  <2>1. i = 1 \/ i = 2 \/ i = 3
    BY <1>3 DEF LocksOf
  <2> QED BY <1>1, <1>3, <2>1, ConsumersAssumption DEF LocksOf, Locks, Operations, SortedIds
<1>4. CASE j.kind = "exchange"
  <2>1. i = 1
    BY <1>4 DEF LocksOf
  <2> QED BY <1>1, <1>4, <2>1, ConsumersAssumption DEF LocksOf, Locks, Operations
<1> QED BY <1>1, <1>2, <1>3, <1>4 DEF Kinds

LEMMA ProgressTypes ==
  ASSUME TypeOK, NEW r \in Requests
  PROVE  job[r] \in Jobs /\ got[r] \in Nat /\ Len(LocksOf(job[r])) \in Nat
<1>1. job[r] \in Jobs /\ got[r] \in 0..3
  BY DEF TypeOK
<1>2. Len(LocksOf(job[r])) \in 1..3
  BY <1>1, LocksOfLength
<1> QED BY <1>1, <1>2

LEMMA HeldStep == TypeOK /\ HeldInOrder /\ [Next]_vars => HeldInOrder'
<1> SUFFICES ASSUME TypeOK, HeldInOrder, [Next]_vars,
                    NEW l \in Locks, NEW q \in Requests, lock'[l] = q
             PROVE  \E i \in 1..got'[q] : i <= Len(LocksOf(job'[q])) /\ LocksOf(job'[q])[i] = l
  BY DEF HeldInOrder
<1>j. job' = job /\ Free \notin Requests
  BY JobsKept, FreeAssumption
<1>a. ASSUME lock[l] = q, got'[q] = got[q]
      PROVE  \E i \in 1..got'[q] : i <= Len(LocksOf(job'[q])) /\ LocksOf(job'[q])[i] = l
  BY <1>a, <1>j DEF HeldInOrder
<1>b. ASSUME NEW r \in Requests, lock' = Released(r), got' = [got EXCEPT ![r] = 0]
      PROVE  lock[l] = q /\ got'[q] = got[q]
  BY <1>b, <1>j DEF Released, TypeOK
<1>1. ASSUME NEW r \in Requests, Acquire(r)
      PROVE  \E i \in 1..got'[q] : i <= Len(LocksOf(job'[q])) /\ LocksOf(job'[q])[i] = l
  <2> DEFINE n == got[r] + 1
  <2>0. Len(LocksOf(job[r])) \in Nat /\ got[r] \in Nat
    BY ProgressTypes
  <2>1. /\ n \in Nat /\ n >= 1 /\ n <= Len(LocksOf(job[r]))
        /\ lock' = [lock EXCEPT ![LocksOf(job[r])[n]] = r]
        /\ got' = [got EXCEPT ![r] = n]
    BY <1>1, <2>0 DEF Acquire
  <2> HIDE DEF n
  <2>2. CASE l = LocksOf(job[r])[n]
    <3>1. q = r
      BY <2>1, <2>2 DEF TypeOK
    <3>2. got'[q] = n
      BY <2>1, <3>1 DEF TypeOK
    <3> QED BY <1>j, <2>1, <2>2, <3>1, <3>2
  <2>3. CASE l # LocksOf(job[r])[n]
    <3>1. lock[l] = q
      BY <2>1, <2>3 DEF TypeOK
    <3>2. CASE q = r
      <4>1. got'[q] = got[q] + 1 /\ got[q] \in Nat
        BY <2>0, <2>1, <3>2 DEF TypeOK, n
      <4> QED BY <1>j, <3>1, <4>1 DEF HeldInOrder
    <3>3. CASE q # r
      BY <1>a, <2>1, <3>1, <3>3 DEF TypeOK
    <3> QED BY <3>2, <3>3
  <2> QED BY <2>2, <2>3
<1>2. ASSUME NEW r \in Requests,
             \/ Lookup(r) \/ Begin(r) \/ Relookup(r) \/ Reply(r) \/ CommitUnacknowledged(r)
      PROVE  lock[l] = q /\ got'[q] = got[q]
  BY <1>2 DEF Lookup, Begin, Relookup, Reply, CommitUnacknowledged
<1>3. ASSUME NEW r \in Requests,
             \/ Check(r) \/ Commit(r) \/ SerializationFailure(r) \/ DuplicateKey(r)
             \/ TxTimeout(r) \/ Crash(r)
      PROVE  lock[l] = q /\ got'[q] = got[q]
  <2>1. \/ lock' = Released(r) /\ got' = [got EXCEPT ![r] = 0]
        \/ UNCHANGED <<lock, got>>
    BY <1>3 DEF Check, Commit, SerializationFailure, DuplicateKey, TxTimeout, Crash, Rollback
  <2> QED BY <1>b, <2>1
<1>4. ASSUME Environment \/ UNCHANGED vars PROVE lock[l] = q /\ got'[q] = got[q]
  BY <1>4 DEF Environment, PayoutOutcome, PostCredit, PostDebit, vars, control
<1> QED BY <1>a, <1>1, <1>2, <1>3, <1>4 DEF Next, Serve

\* The lock a request waits for.
Wanted(r) == LocksOf(job[r])[got[r] + 1]

\* Whoever holds the lock a request waits for waits for a later one, if at all.
LEMMA WaitsUpward ==
  ASSUME TypeOK, HeldInOrder, NEW r \in Requests, NEW q \in Requests, NEW u,
         WaitsFor(r, q), WaitsFor(q, u)
  PROVE  /\ Precedes(Wanted(r), Wanted(q))
         /\ Wanted(r)[1] \in Nat /\ Wanted(q)[1] \in Nat
<1> DEFINE n == got[r] + 1
           k == got[q] + 1
<1>0. /\ job[r] \in Jobs /\ job[q] \in Jobs
      /\ Len(LocksOf(job[r])) \in Nat /\ Len(LocksOf(job[q])) \in Nat
      /\ got[r] \in Nat /\ got[q] \in Nat
  BY ProgressTypes
<1>1. /\ n \in 1..Len(LocksOf(job[r]))
      /\ k \in 1..Len(LocksOf(job[q]))
      /\ lock[Wanted(r)] = q
  BY <1>0 DEF WaitsFor, Wanted
<1>2. Wanted(r) = LocksOf(job[r])[n] /\ Wanted(q) = LocksOf(job[q])[k]
  BY DEF Wanted
<1>3. Wanted(r) \in Locks /\ Wanted(r)[1] \in Nat /\ Wanted(q)[1] \in Nat
  BY <1>0, <1>1, <1>2, LocksInLocks
<1>4. PICK i \in 1..got[q] : i <= Len(LocksOf(job[q])) /\ LocksOf(job[q])[i] = Wanted(r)
  BY <1>1, <1>3 DEF HeldInOrder
<1>5. i \in 1..Len(LocksOf(job[q])) /\ i < k
  BY <1>0, <1>4
<1> QED BY <1>0, <1>1, <1>2, <1>3, <1>4, <1>5, LocksAscend

\* In a finite set of requests that all wait for one another the wanted locks would
\* climb for ever: some request's lock has no later one wanted.
LEMMA NoCircle == TypeOK /\ HeldInOrder => NoDeadlock
<1> SUFFICES ASSUME TypeOK, HeldInOrder, NEW S \in SUBSET Requests, S # {}, IsFiniteSet(S),
                    \A r \in S : \E q \in S : WaitsFor(r, q)
             PROVE  FALSE
  BY DEF NoDeadlock
<1> DEFINE Later(r) == {q \in S : Precedes(Wanted(r), Wanted(q))}
           T == {Later(r) : r \in S}
<1>1. T \subseteq FiniteSubsetsOf(S) /\ T # {}
  <2>1. T \subseteq SUBSET S /\ T # {}
    OBVIOUS
  <2> QED BY <2>1, FS_FiniteSubsetsOfFinite
<1>2. PICK x \in T : \A y \in T : ~(<<y, x>> \in StrictSubsetOrdering(S))
  <2>1. IsWellFoundedOn(StrictSubsetOrdering(S), FiniteSubsetsOf(S))
    BY FS_StrictSubsetOrderingWellFounded
  <2> HIDE DEF T
  <2> QED BY <1>1, <2>1, WFMin
<1>3. PICK r \in S : x = Later(r)
  OBVIOUS
<1>4. PICK q \in S : WaitsFor(r, q)
  OBVIOUS
<1>5. ASSUME NEW p \in S PROVE Wanted(p)[1] \in Nat
  BY <1>5, WaitsUpward
<1>6. Precedes(Wanted(r), Wanted(q))
  BY <1>4, WaitsUpward
<1>7. q \in Later(r) /\ q \notin Later(q)
  BY <1>5, <1>6, PrecedesIsOrder
<1>8. Later(q) \subseteq Later(r)
  BY <1>5, <1>6, PrecedesIsOrder
<1>9. <<Later(q), Later(r)>> \in StrictSubsetOrdering(S)
  BY <1>7, <1>8 DEF StrictSubsetOrdering
<1> QED BY <1>2, <1>3, <1>9

\* Transactions never wait for each other's advisory locks in a circle, because each
\* takes its locks upwards: opposite transfers between any consumers included.
THEOREM NeverDeadlocked == Spec => []NoDeadlock
<1>1. Init => HeldInOrder
  BY FreeAssumption DEF Init, HeldInOrder
<1>2. Inv => TypeOK
  BY DEF Inv
<1> QED BY <1>1, <1>2, HeldStep, NoCircle, Invariance, PTL DEF Spec

-----------------------------------------------------------------------------
\* The definitions of WalletJobs mean the same in the book.
LEMMA BookTerms ==
  /\ Book!Accounts = Accounts /\ Book!RowKeys = RowKeys
  /\ \A j : Book!Keyed(j) = Keyed(j) /\ Book!RowKey(j) = RowKey(j) /\ Book!Consumer(j) = Consumer(j)
  /\ \A b, j : Book!AfterRows(b, j) = AfterRows(b, j) /\ Book!AfterPayment(b, j) = AfterPayment(b, j)
  BY DEF Book!Accounts, Accounts, Book!RowKeys, RowKeys, Book!Kinds, Kinds, Book!Keyed, Keyed,
         Book!RowKey, RowKey, Book!Consumer, Consumer, Book!AfterRows, AfterRows,
         Book!AfterPayment, AfterPayment, Book!Debit, Debit, Book!Credit, Credit,
         Book!Payment, Payment

LEMMA BookInit == Init => Book!Init
  BY BookTerms DEF Init, Book!Init

LEMMA BookStep == Inv /\ [Next]_vars => [Book!Next]_(Book!vars)
<1> SUFFICES ASSUME Inv, [Next]_vars PROVE [Book!Next]_(Book!vars)
  OBVIOUS
<1> DEFINE Accounting == <<job, avail, outgoing, unchecked, posts, rows, wrote, payout>>
<1>i. TypeOK /\ InStep /\ KeysHeld /\ SnapshotBound /\ CheckedBound
  BY DEF Inv
<1>0. ASSUME UNCHANGED <<Accounting, answer>> PROVE UNCHANGED Book!vars
  BY <1>0 DEF Book!vars
<1>1. ASSUME NEW r \in Requests, NEW what, Tell(r, what), UNCHANGED Accounting, answer[r] = Waiting
      PROVE  Book!Tell(r, what)
  BY <1>1 DEF Tell, Book!Tell
<1>2. ASSUME NEW r \in Requests, pc[r] \notin {"done", "crashed"} PROVE answer[r] = Waiting
  BY <1>2, <1>i DEF InStep, RequestInStep
<1>3. ASSUME NEW r \in Requests, Lookup(r) \/ Relookup(r) PROVE [Book!Next]_(Book!vars)
  <2>1. UNCHANGED Accounting /\ answer[r] = Waiting
    BY <1>2, <1>3 DEF Lookup, Relookup, book
  <2>2. CASE UNCHANGED answer
    BY <1>0, <2>1, <2>2
  <2>3. CASE Tell(r, "error")
    BY <1>1, <2>1, <2>3 DEF Book!Next, Book!Fail
  <2>4. CASE \E q \in Existing(r) : Tell(r, q)
    <3>1. PICK q \in Existing(r) : Tell(r, q)
      BY <2>4
    <3>2. /\ q \in Requests /\ wrote[q] /\ Keyed(job[r])
          /\ RowKey(job[q]) = RowKey(job[r]) /\ Consumer(job[q]) = Consumer(job[r])
      BY <1>i, FoundRow
    <3>3. Book!Tell(r, q)
      BY <1>1, <2>1, <3>1
    <3>4. Book!Confirm(r, q)
      BY <3>2, <3>3, BookTerms DEF Book!Confirm
    <3> QED BY <3>2, <3>4 DEF Book!Next
  <2> QED BY <1>3, <2>2, <2>3, <2>4 DEF Lookup, Relookup
<1>4. ASSUME NEW r \in Requests, Begin(r) \/ Acquire(r) \/ Crash(r) PROVE [Book!Next]_(Book!vars)
  BY <1>0, <1>4 DEF Begin, Acquire, Crash, book
<1>5. ASSUME NEW r \in Requests, Check(r) PROVE [Book!Next]_(Book!vars)
  <2>1. UNCHANGED Accounting /\ answer[r] = Waiting /\ ~wrote[r]
    BY <1>2, <1>5, <1>i DEF Check, book, InStep, RequestInStep, InTx
  <2>2. CASE UNCHANGED answer
    BY <1>0, <2>1, <2>2
  <2>3. CASE Tell(r, "rejected")
    BY <1>1, <2>1, <2>3 DEF Book!Next, Book!Reject
  <2> QED BY <1>5, <2>2, <2>3 DEF Check
<1>6. ASSUME NEW r \in Requests, Commit(r) PROVE [Book!Next]_(Book!vars)
  <2>1. answer[r] = Waiting /\ ~wrote[r]
    BY <1>2, <1>6, <1>i DEF Commit, InStep, RequestInStep, InTx
  <2>2. Keyed(job[r]) => rows[RowKey(job[r])] = NoRow
    BY <1>6 DEF Commit, KeyFree
  <2>3. Book!Affordable(job[r]) /\ Book!WithinDay(job[r])
    BY <1>6, <1>i, CommitAffordable DEF Book!Affordable, Book!WithinDay
  <2>4. Book!Pay(r)
    BY <1>6, <2>1, <2>2, <2>3, BookTerms DEF Commit, Book!Pay
  <2> QED BY <2>4 DEF Book!Next
<1>7. ASSUME NEW r \in Requests,
             SerializationFailure(r) \/ DuplicateKey(r) \/ TxTimeout(r) \/ CommitUnacknowledged(r)
      PROVE  [Book!Next]_(Book!vars)
  <2>1. UNCHANGED Accounting /\ answer[r] = Waiting
    BY <1>2, <1>7 DEF SerializationFailure, DuplicateKey, TxTimeout, CommitUnacknowledged, book, InTx
  <2>2. CASE UNCHANGED answer
    BY <1>0, <2>1, <2>2
  <2>3. CASE Tell(r, "error")
    BY <1>1, <2>1, <2>3 DEF Book!Next, Book!Fail
  <2> QED BY <1>7, <2>2, <2>3 DEF SerializationFailure, DuplicateKey, TxTimeout, CommitUnacknowledged
<1>8. ASSUME NEW r \in Requests, Reply(r) PROVE [Book!Next]_(Book!vars)
  <2>1. UNCHANGED Accounting /\ answer[r] = Waiting /\ wrote[r] /\ Tell(r, r)
    BY <1>2, <1>8, <1>i DEF Reply, book, InStep, RequestInStep
  <2>2. Book!Confirm(r, r)
    BY <1>1, <2>1 DEF Book!Confirm
  <2> QED BY <2>2 DEF Book!Next
<1>9. ASSUME Environment PROVE [Book!Next]_(Book!vars)
  BY <1>9, BookTerms DEF Environment, PayoutOutcome, PostCredit, PostDebit, Book!Next,
     Book!PayoutOutcome, Book!PostCredit, Book!PostDebit
<1>10. ASSUME UNCHANGED vars PROVE [Book!Next]_(Book!vars)
  BY <1>0, <1>10 DEF vars, book
<1> QED BY <1>3, <1>4, <1>5, <1>6, <1>7, <1>8, <1>9, <1>10 DEF Next, Serve

\* The concurrent wallet behaves like AccountBook, which pays each request in one
\* step out of money that is there.
THEOREM WalletImplementsBook == Spec => ImplementsAccountBook
  BY Invariance, BookInit, BookStep, PTL DEF Spec, ImplementsAccountBook, Book!Spec
=============================================================================
