----------------------------- MODULE WalletJobs -----------------------------
(***************************************************************************)
(* The vocabulary shared by the wallet's specifications: the accounts, the *)
(* three balance-checked operations a consumer can ask for (withdraw,      *)
(* transfer, currency exchange) and what each of them does to the balances *)
(* the ledger sums up to.                                                  *)
(*                                                                         *)
(* An account is a consumer's balance in one currency.  Consumers are      *)
(* numbers so that their ids can be sorted, as the transfer sorts them     *)
(* before it takes its locks.  Amounts are whole minor units.              *)
(***************************************************************************)
EXTENDS Integers, FiniteSets

CONSTANTS Requests,     \* HTTP requests being served, retries included
          Consumers,    \* consumer ids, a set of naturals
          Currencies,
          Keys,         \* client idempotency keys
          NoKey,        \* a manual conversion carries none
          Jobs,         \* the operations the requests may ask for
          Opening,      \* the balance each account starts with
          DailyLimit,   \* getKycLimits().dailyLimit
          PostAmounts,  \* amounts of the rows other parts of the system insert
          MaxPosts,     \* bound: how many such rows are inserted
          NoRow         \* no ledger row has this idempotency key

Accounts == Consumers \X Currencies

Kinds == {"withdraw", "transfer", "exchange"}

JobType == [kind   : Kinds,
            from   : Accounts,
            to     : Accounts,
            amount : Nat \ {0},
            credit : Nat,
            key    : Keys \cup {NoKey}]

\* What the handlers check before they open a transaction: a positive amount,
\* a key for withdraw and transfer, no transfer to oneself, no exchange into
\* the same currency.
WellFormed(j) ==
  CASE j.kind = "withdraw" -> j.to = j.from /\ j.credit = 0 /\ j.key # NoKey
    [] j.kind = "transfer" -> /\ j.to[1] # j.from[1] /\ j.to[2] = j.from[2]
                              /\ j.credit = j.amount /\ j.key # NoKey
    [] j.kind = "exchange" -> j.to[1] = j.from[1] /\ j.to[2] # j.from[2]

ASSUME JobsAssumption    == Jobs \subseteq JobType /\ \A j \in Jobs : WellFormed(j)
ASSUME ConsumersAssumption == Consumers \subseteq Nat
ASSUME OpeningAssumption == Opening \in [Accounts -> Nat]
ASSUME LimitAssumption   == DailyLimit \in Nat
ASSUME PostsAssumption   == PostAmounts \subseteq Nat /\ MaxPosts \in Nat
ASSUME MarksAssumption   == NoRow \notin Requests /\ NoKey \notin Keys

Consumer(j) == j.from[1]

\* The prefixed key the rows are inserted under: withdraw:<k>,
\* transfer:<k>:sender, <prefix>:source.  The namespaces never meet.
RowKeys   == Kinds \X Keys
RowKey(j) == <<j.kind, j.key>>
Keyed(j)  == j.key # NoKey

\* The rows the operation inserts, as what they add to the sums.
Debit(j, a)    == IF a = j.from THEN j.amount ELSE 0
Credit(j, a)   == IF j.kind # "withdraw" /\ a = j.to THEN j.credit ELSE 0
Payment(j, a)  == IF j.kind # "exchange" /\ a = j.from THEN j.amount ELSE 0

AfterRows(balance, j) == [a \in Accounts |-> balance[a] - Debit(j, a) + Credit(j, a)]
AfterPayment(total, j) == [a \in Accounts |-> total[a] + Payment(j, a)]
=============================================================================
