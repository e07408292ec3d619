------------------------------ MODULE MCWallet ------------------------------
(***************************************************************************)
(* Two consumers, two currencies, two requests.  Consumer 1 starts with    *)
(* enough money for one of its operations only, and the daily limit leaves *)
(* room for one payment of the full amount, so that every pair of requests *)
(* competes for a balance, a limit, a lock or a key.                       *)
(***************************************************************************)
EXTENDS Wallet

MCConsumers  == {1, 2}
MCCurrencies == {"USD", "EUR"}
MCKeys       == {"k1", "k2"}

Usd(c) == <<c, "USD">>
Eur(c) == <<c, "EUR">>

Withdrawal(c, amount, key) ==
  [kind |-> "withdraw", from |-> Usd(c), to |-> Usd(c), amount |-> amount, credit |-> 0, key |-> key]
Transfer(c, d, amount, key) ==
  [kind |-> "transfer", from |-> Usd(c), to |-> Usd(d), amount |-> amount, credit |-> amount, key |-> key]
Exchange(c, amount, credit, key) ==
  [kind |-> "exchange", from |-> Usd(c), to |-> Eur(c), amount |-> amount, credit |-> credit, key |-> key]

\* Opposite transfers under different keys, a withdrawal and its double, another
\* consumer's withdrawal under the same key, a manual and a keyed conversion.
MCJobs ==
  { Withdrawal(1, 2, "k1"), Withdrawal(2, 2, "k1"),
    Transfer(1, 2, 2, "k1"), Transfer(2, 1, 1, "k2"),
    Exchange(1, 1, 2, NoKey), Exchange(1, 2, 1, "k2") }

MCOpening == [a \in Accounts |-> IF a = Usd(1) THEN 3 ELSE IF a = Usd(2) THEN 2 ELSE 0]
=============================================================================
