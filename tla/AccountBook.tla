---------------------------- MODULE AccountBook ----------------------------
(***************************************************************************)
(* What the wallet promises: each request that is paid is paid in one      *)
(* step, at most once per idempotency key, out of money that is there and  *)
(* within the daily limit; a client is told the ledger id of rows that     *)
(* exist under its key; a rejected request has moved nothing and never     *)
(* will.  There are no transactions, locks, snapshots or retries here.     *)
(***************************************************************************)
EXTENDS WalletJobs

CONSTANT Waiting

VARIABLES job, avail, outgoing, unchecked, posts, rows, wrote, payout, answer

vars == <<job, avail, outgoing, unchecked, posts, rows, wrote, payout, answer>>

Affordable(j) == j.amount <= avail[j.from] + unchecked[j.from]
WithinDay(j)  == j.kind # "exchange" =>
                   outgoing[j.from] + j.amount <= DailyLimit + unchecked[j.from]

Init ==
  /\ job \in [Requests -> Jobs]
  /\ avail = Opening
  /\ outgoing = [a \in Accounts |-> 0]
  /\ unchecked = [a \in Accounts |-> 0]
  /\ posts = 0
  /\ rows = [k \in RowKeys |-> NoRow]
  /\ wrote = [r \in Requests |-> FALSE]
  /\ payout = [r \in Requests |-> "none"]
  /\ answer = [r \in Requests |-> Waiting]

Pay(r) ==
  /\ answer[r] = Waiting /\ ~wrote[r]
  /\ Keyed(job[r]) => rows[RowKey(job[r])] = NoRow
  /\ Affordable(job[r]) /\ WithinDay(job[r])
  /\ avail' = AfterRows(avail, job[r])
  /\ outgoing' = AfterPayment(outgoing, job[r])
  /\ rows' = IF Keyed(job[r]) THEN [rows EXCEPT ![RowKey(job[r])] = r] ELSE rows
  /\ wrote' = [wrote EXCEPT ![r] = TRUE]
  /\ payout' = [payout EXCEPT ![r] = IF job[r].kind = "withdraw" THEN "PENDING" ELSE @]
  /\ UNCHANGED <<job, unchecked, posts, answer>>

Tell(r, what) ==
  /\ answer[r] = Waiting
  /\ answer' = [answer EXCEPT ![r] = what]
  /\ UNCHANGED <<job, avail, outgoing, unchecked, posts, rows, wrote, payout>>

Confirm(r, q) ==
  /\ wrote[q]
  /\ q # r => /\ Keyed(job[r]) /\ RowKey(job[q]) = RowKey(job[r])
              /\ Consumer(job[q]) = Consumer(job[r])
  /\ Tell(r, q)

Reject(r) == ~wrote[r] /\ Tell(r, "rejected")
Fail(r)   == Tell(r, "error")

PayoutOutcome(r, status) ==
  /\ payout[r] = "PENDING"
  /\ payout' = [payout EXCEPT ![r] = status]
  /\ \/ status = "COMPLETED" /\ UNCHANGED <<avail, outgoing>>
     \/ /\ status = "DENIED"
        /\ avail' = [avail EXCEPT ![job[r].from] = @ + job[r].amount]
        /\ outgoing' = [outgoing EXCEPT ![job[r].from] = @ - job[r].amount]
  /\ UNCHANGED <<job, unchecked, posts, rows, wrote, answer>>

PostCredit(a, amount) ==
  /\ posts < MaxPosts
  /\ posts' = posts + 1
  /\ avail' = [avail EXCEPT ![a] = @ + amount]
  /\ UNCHANGED <<job, outgoing, unchecked, rows, wrote, payout, answer>>

PostDebit(a, amount) ==
  /\ posts < MaxPosts
  /\ posts' = posts + 1
  /\ avail' = [avail EXCEPT ![a] = @ - amount]
  /\ outgoing' = [outgoing EXCEPT ![a] = @ + amount]
  /\ unchecked' = [unchecked EXCEPT ![a] = @ + amount]
  /\ UNCHANGED <<job, rows, wrote, payout, answer>>

Next ==
  \/ \E r \in Requests : \/ Pay(r) \/ Reject(r) \/ Fail(r)
                         \/ \E q \in Requests : Confirm(r, q)
                         \/ \E status \in {"COMPLETED", "DENIED"} : PayoutOutcome(r, status)
  \/ \E a \in Accounts, m \in PostAmounts : PostCredit(a, m) \/ PostDebit(a, m)

Spec == Init /\ [][Next]_vars
=============================================================================
