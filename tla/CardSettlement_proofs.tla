----------------------- MODULE CardSettlement_proofs -----------------------
(***************************************************************************)
(* Proofs about CardSettlement: its types, that nothing is settled without *)
(* money, that a completed request is settled on both sides, that it       *)
(* implements PaymentPromise, what Stripe collects while it remembers its  *)
(* keys, and that no late mark follows a payment of the same session.      *)
(***************************************************************************)
EXTENDS CardSettlement, FiniteSetTheorems, TLAPS

\* States of a call that has claimed the request.
Busy == {"claimed", "accepted", "session", "appending", "paid", "declined"}

\* A call that marks entries holds the charge it got.
CallsHold ==
  \A c \in Calls : /\ call[c] \in {"session", "appending"} => at[c] \in Sessions
                   /\ call[c] = "paid" => at[c] \in Intents /\ stripe[at[c]] = "paid"

\* What Stripe would replay is what it did.
RepliesTrue ==
  replay["saved"] # NoReply =>
    /\ replay["saved"].charge \in Intents
    /\ replay["saved"].result = "paid" => stripe[replay["saved"].charge] = "paid"

EventsTrue == \A s \in Sessions : event[s] # "unsent" => stripe[s] = "paid"

\* Money and settling come after the entries, which come after the draft.
InOrder == /\ entries # {} => request # "DRAFT"
           /\ request # "DRAFT" /\ origin # "mailed" => entries = Parties
           /\ \A c \in Calls : call[c] \in Busy => entries = Parties
           /\ \A c \in Charges : stripe[c] # "none" => entries = Parties

\* The inductive invariant.
IInv == /\ TypeOK
        /\ CallsHold /\ RepliesTrue /\ EventsTrue /\ InOrder
        /\ NoSettlementWithoutMoney
        /\ SettledWhole

----------------------------------------------------------------------------
LEMMA AppendRecords ==
  ASSUME NEW S, NEW s \in Seq(S), NEW x \in S
  PROVE  /\ Append(s, x) \in Seq(S)
         /\ \A y : (\E i \in 1..Len(Append(s, x)) : Append(s, x)[i] = y)
                     <=> (y = x \/ \E i \in 1..Len(s) : s[i] = y)
<1>1. /\ Append(s, x) \in Seq(S) /\ Len(s) \in Nat
      /\ Len(Append(s, x)) = Len(s) + 1
      /\ \A i \in 1..Len(s) : Append(s, x)[i] = s[i]
      /\ Append(s, x)[Len(s) + 1] = x
  OBVIOUS
<1>2. \A i : i \in 1..(Len(s) + 1) <=> i \in 1..Len(s) \/ i = Len(s) + 1
  BY <1>1
<1> QED BY <1>1, <1>2

LEMMA Outcomes ==
  /\ \A s \in Sessions : Waiting(s) \in Outcome
  /\ \A c \in Charges : Paid(c) \in Outcome
  /\ Declined \in Outcome
  /\ \A c, s : Paid(c) # Waiting(s)
  /\ \A c : Paid(c) # Declined
  /\ \A c, d : Paid(c) = Paid(d) => c = d
  /\ \A o \in Outcome : o.status = "COMPLETED" => \E c \in Charges : o = Paid(c)
BY DEF Outcome, Waiting, Paid, Declined

\* An entry that reads COMPLETED was completed for some charge.
LEMMA CompletedFor ==
  ASSUME TypeOK, NEW e \in Entries, Effective(e) = "COMPLETED"
  PROVE  \E c \in Charges : Recorded(e, Paid(c))
<1> DEFINE s == outcomes[e]
<1>1. s \in Seq(Outcome) /\ s # <<>>
  BY DEF TypeOK, Effective
<1>2. Len(s) \in 1..Len(s) /\ s[Len(s)] \in Outcome
  BY <1>1
<1>3. PICK c \in Charges : s[Len(s)] = Paid(c)
  BY <1>1, <1>2, Outcomes DEF Effective
<1> QED BY <1>2, <1>3 DEF Recorded

\* Settling for a charge that Stripe collected keeps everything said of the ledger.
LEMMA SettleKeeps ==
  ASSUME IInv, NEW c \in Charges, stripe[c] = "paid", Settle(c), UNCHANGED stripe
  PROVE  /\ outcomes' \in [Entries -> Seq(Outcome)]
         /\ UNCHANGED <<entries, origin>> /\ entries = Parties
         /\ rail' \in {"none", "CARD", "BANK_TRANSFER"}
         /\ request' \in {request, "COMPLETED"} /\ request # "DRAFT"
         /\ NoSettlementWithoutMoney' /\ SettledWhole'
<1>1. entries = Parties /\ Parties \subseteq Entries /\ TypeOK /\ request # "DRAFT"
  BY DEF IInv, InOrder, Parties, Entries
<1>2. CASE Collides(c)
  BY <1>1, <1>2 DEF Settle, IInv, TypeOK, NoSettlementWithoutMoney, SettledWhole, Recorded,
                    Collected, Parties, ledger
<1>3. CASE ~ Collides(c)
  <2>1. /\ outcomes' = [e \in Entries |-> IF e \in Open THEN Append(outcomes[e], Paid(c))
                                          ELSE outcomes[e]]
        /\ request' = "COMPLETED" /\ rail' = "CARD" /\ UNCHANGED <<entries, origin>>
    BY <1>3 DEF Settle, SettledBy
  <2>2. ASSUME NEW e \in Entries
        PROVE  /\ outcomes'[e] \in Seq(Outcome)
               /\ \A d \in Charges : Recorded(e, Paid(d))' => Recorded(e, Paid(d)) \/ d = c
               /\ e \in Parties => \E d \in Charges : Recorded(e, Paid(d))'
    <3>1. outcomes[e] \in Seq(Outcome) /\ Paid(c) \in Outcome
      BY <1>1, Outcomes DEF TypeOK
    <3>2. CASE e \in Open
      <4>1. outcomes'[e] = Append(outcomes[e], Paid(c))
        BY <2>1, <3>2
      <4> QED BY <3>1, <4>1, AppendRecords, Outcomes DEF Recorded, Paid
    <3>3. CASE e \notin Open
      <4>1. outcomes'[e] = outcomes[e]
        BY <2>1, <3>3
      <4>2. e \in Parties => \E d \in Charges : Recorded(e, Paid(d))
        BY <1>1, <3>3, CompletedFor DEF Open
      <4> QED BY <3>1, <4>1, <4>2 DEF Recorded, Paid
    <3> QED BY <3>2, <3>3
  <2>3. NoSettlementWithoutMoney'
    <3>1. \A e \in Entries, d \in Charges : Recorded(e, Paid(d))' => stripe[d] = "paid"
      BY <2>2 DEF IInv, NoSettlementWithoutMoney, Collected
    <3> QED BY <3>1 DEF NoSettlementWithoutMoney, Collected
  <2>4. SettledWhole'
    <3>1. Parties' = Parties /\ entries' = Parties
      BY <1>1, <2>1 DEF Parties
    <3> QED BY <1>1, <2>2, <3>1 DEF SettledWhole
  <2>5. outcomes' \in [Entries -> Seq(Outcome)]
    <3>1. DOMAIN outcomes' = Entries /\ outcomes' = [e \in Entries |-> outcomes'[e]]
      BY <2>1
    <3> QED BY <2>2, <3>1
  <2> QED BY <1>1, <2>1, <2>3, <2>4, <2>5
<1> QED BY <1>2, <1>3

----------------------------------------------------------------------------
LEMMA InitIInv == Init => IInv
<1> SUFFICES ASSUME Init PROVE IInv
  OBVIOUS
<1> USE DEF Init
<1>1. TypeOK
  BY BoundsAssumption DEF TypeOK, NoReply
<1>2. CallsHold /\ RepliesTrue /\ EventsTrue /\ InOrder
  BY DEF CallsHold, RepliesTrue, EventsTrue, InOrder, Busy, NoReply
<1>3. NoSettlementWithoutMoney /\ SettledWhole
  BY DEF NoSettlementWithoutMoney, SettledWhole, Recorded
<1> QED BY <1>1, <1>2, <1>3 DEF IInv

\* An outcome that is not of a completion leaves the completions as they are.
LEMMA OtherOutcomes ==
  ASSUME TypeOK, NEW e \in Entries, NEW o \in Outcome, \A c : o # Paid(c),
         outcomes'[e] = outcomes[e] \/ outcomes'[e] = Append(outcomes[e], o)
  PROVE  /\ outcomes'[e] \in Seq(Outcome)
         /\ \A c \in Charges : Recorded(e, Paid(c))' <=> Recorded(e, Paid(c))
<1>1. outcomes[e] \in Seq(Outcome)
  BY DEF TypeOK
<1>2. CASE outcomes'[e] = outcomes[e]
  BY <1>1, <1>2 DEF Recorded, Paid
<1>3. CASE outcomes'[e] = Append(outcomes[e], o)
  BY <1>1, <1>3, AppendRecords DEF Recorded, Paid
<1> QED BY <1>2, <1>3

\* The steps that leave the completions and the request as they are.
LEMMA CompletionsKept ==
  ASSUME IInv,
         \A c \in Charges : stripe[c] = "paid" => stripe'[c] = "paid",
         \A e \in Entries, c \in Charges : Recorded(e, Paid(c))' <=> Recorded(e, Paid(c)),
         \/ request' = "PENDING"
         \/ UNCHANGED <<request, origin>> /\ entries' \in {entries, Parties}
  PROVE  NoSettlementWithoutMoney' /\ SettledWhole'
<1>1. NoSettlementWithoutMoney'
  BY DEF IInv, NoSettlementWithoutMoney, Collected
<1>2. CASE request' = "PENDING"
  BY <1>1, <1>2 DEF SettledWhole
<1>3. CASE UNCHANGED <<request, origin>> /\ entries' \in {entries, Parties}
  <2>1. Parties' = Parties /\ Parties \subseteq Entries
    BY <1>3 DEF Parties, Entries
  <2> QED BY <1>1, <1>3, <2>1 DEF IInv, SettledWhole
<1> QED BY <1>2, <1>3

LEMMA LedgerKept ==
  ASSUME IInv, UNCHANGED outcomes,
         \A c \in Charges : stripe[c] = "paid" => stripe'[c] = "paid",
         \/ request' = "PENDING"
         \/ UNCHANGED <<request, origin>> /\ entries' \in {entries, Parties}
  PROVE  NoSettlementWithoutMoney' /\ SettledWhole'
<1>1. \A e \in Entries, c \in Charges : Recorded(e, Paid(c))' <=> Recorded(e, Paid(c))
  BY DEF Recorded, Paid
<1> QED BY <1>1, CompletionsKept

LEMMA StepIInv == IInv /\ [Next]_vars => IInv'
<1> SUFFICES ASSUME IInv, [Next]_vars PROVE IInv'
  OBVIOUS
<1>i. /\ TypeOK /\ CallsHold /\ RepliesTrue /\ EventsTrue /\ InOrder
      /\ NoSettlementWithoutMoney /\ SettledWhole
  BY DEF IInv
<1>d. Parties # {}
  BY DEF Parties, Entries
<1> USE DEF ledger, calls, provider, jobs, Parties
<1>1. ASSUME SendDraft \/ StartPayment PROVE IInv'
  <2>1. /\ UNCHANGED <<outcomes, method, calls, provider, jobs>> /\ entries = {}
        /\ request = "DRAFT" /\ request' = "PENDING"
    BY <1>i, <1>1 DEF SendDraft, StartPayment, InOrder
  <2>2. /\ origin' \in {"sent", "mailed", "card", "bank", "alone"}
        /\ rail' \in {"none", "CARD", "BANK_TRANSFER"}
        /\ entries' \in {{}, Parties'} /\ (origin' # "mailed" => entries' = Parties')
    BY <1>i, <1>1, <2>1 DEF SendDraft, StartPayment, TypeOK, Parties
  <2>3. TypeOK'
    BY <1>i, <2>1, <2>2 DEF TypeOK
  <2>4. CallsHold' /\ RepliesTrue' /\ EventsTrue'
    BY <1>i, <2>1 DEF CallsHold, RepliesTrue, EventsTrue
  <2>5. /\ \A c \in Calls : call[c] \notin Busy
        /\ \A c \in Charges : stripe[c] = "none"
    BY <1>i, <1>d, <2>1 DEF InOrder
  <2>6. InOrder'
    BY <2>1, <2>2, <2>5 DEF InOrder
  <2>7. NoSettlementWithoutMoney' /\ SettledWhole'
    BY <2>1, LedgerKept
  <2> QED BY <2>3, <2>4, <2>6, <2>7 DEF IInv
<1>2. ASSUME OthersWait \/ Select \/ \E s \in Sessions : Skip(s) PROVE IInv'
  <2>1. UNCHANGED <<ledger, method, calls, provider, event>>
    BY <1>2 DEF OthersWait, Select, Skip
  <2>2. backlog' \in 0..Others /\ picked' \subseteq Sessions
    <3>1. CASE OthersWait
      BY <1>i, <3>1 DEF OthersWait, TypeOK
    <3>2. CASE Select
      <4>1. PICK sel \in Selections : picked' = picked \cup sel /\ UNCHANGED backlog
        BY <3>2 DEF Select
      <4>2. sel \subseteq Sessions
        BY <4>1 DEF Selections, WaitingSessions
      <4> QED BY <1>i, <4>1, <4>2 DEF TypeOK
    <3>3. ASSUME NEW s \in Sessions, Skip(s) PROVE backlog' \in 0..Others /\ picked' \subseteq Sessions
      BY <1>i, <3>3 DEF Skip, TypeOK
    <3> QED BY <1>2, <3>1, <3>2, <3>3
  <2>3. TypeOK'
    BY <1>i, <2>1, <2>2 DEF TypeOK
  <2>4. NoSettlementWithoutMoney' /\ SettledWhole'
    BY <1>i, <2>1, LedgerKept
  <2>5. CallsHold' /\ RepliesTrue' /\ EventsTrue' /\ InOrder'
    BY <1>i, <2>1 DEF CallsHold, RepliesTrue, EventsTrue, InOrder
  <2> QED BY <2>3, <2>4, <2>5 DEF IInv
<1>3. ASSUME NEW c \in Calls, CallSteps(c) PROVE IInv'
  <2>1. CASE VerifyMethod(c) \/ MethodRejected(c) \/ Confirm(c) \/ ReplyUrl(c) \/ Abandon(c)
    <3> USE <2>1 DEF VerifyMethod, MethodRejected, Confirm, ReplyUrl, Abandon, Goto
    <3>2. UNCHANGED <<ledger, stripe, replay, event, at>>
      OBVIOUS
    <3>1. TypeOK'
      <4>1. /\ UNCHANGED <<todo, backlog, picked>> /\ method' \in {method, "deleted"}
            /\ urls' \in {urls, urls \cup {at[c]}}
            /\ urls' # urls => call[c] = "appending"
            /\ \E w \in {"verified", "accepted", "done"} : call' = [call EXCEPT ![c] = w]
        OBVIOUS
      <4>2. urls' \subseteq Sessions
        BY <1>i, <4>1 DEF TypeOK, CallsHold
      <4> HIDE <2>1 DEF VerifyMethod, MethodRejected, Confirm, ReplyUrl, Abandon
      <4> QED BY <1>i, <3>2, <4>1, <4>2 DEF TypeOK
    <3>3. \A d \in Calls : call'[d] = call[d]
                         \/ call'[d] \in {"verified", "done"}
                         \/ (call[d] = "claimed" /\ call'[d] = "accepted")
      BY <1>i DEF TypeOK
    <3>4. CallsHold' /\ RepliesTrue' /\ EventsTrue' /\ InOrder'
      BY <1>i, <3>2, <3>3 DEF CallsHold, RepliesTrue, EventsTrue, InOrder, Busy
    <3>5. NoSettlementWithoutMoney' /\ SettledWhole'
      BY <3>2, LedgerKept
    <3> QED BY <3>1, <3>4, <3>5 DEF IInv
  <2>2. CASE Claim(c)
    <3> USE <2>2 DEF Claim, Goto
    <3>0. Payable => (IF origin = "mailed" THEN Booked ELSE entries) = Parties
      BY <1>i DEF Payable, Booked, Parties, InOrder
    <3>2. /\ UNCHANGED <<request, origin, outcomes, stripe, replay, event, at>>
          /\ entries' \in {entries, Parties} /\ Parties' = Parties
          /\ entries' # entries => request # "DRAFT"
      BY <3>0 DEF Payable, Parties
    <3>1. TypeOK'
      BY <1>i, <3>2 DEF TypeOK
    <3>3. \A d \in Calls : call'[d] = call[d] \/ call'[d] = "done"
                         \/ (entries' = Parties /\ call'[d] = "claimed")
      BY <1>i, <3>0 DEF TypeOK
    <3>4. CallsHold' /\ RepliesTrue' /\ EventsTrue' /\ InOrder'
      BY <1>i, <3>2, <3>3 DEF CallsHold, RepliesTrue, EventsTrue, InOrder, Busy
    <3>5. NoSettlementWithoutMoney' /\ SettledWhole'
      BY <3>2, LedgerKept
    <3> QED BY <3>1, <3>4, <3>5 DEF IInv
  <2>3. CASE CreateSession(c)
    <3>1. PICK s \in Sessions :
            /\ stripe' = [stripe EXCEPT ![s] = IF @ = "none" THEN "open" ELSE @]
            /\ replay' = [replay EXCEPT !["checkout"] = [charge |-> s, result |-> "open"]]
            /\ \/ Goto(c, "session") /\ at' = [at EXCEPT ![c] = s]
               \/ Goto(c, "done") /\ UNCHANGED at
      BY <2>3 DEF CreateSession
    <3>2. /\ UNCHANGED <<ledger, method, todo, urls, jobs>>
          /\ call[c] = "accepted" /\ entries = Parties
      BY <1>i, <2>3 DEF CreateSession, InOrder, Busy
    <3>3. TypeOK'
      BY <1>i, <3>1, <3>2 DEF TypeOK, Goto, Charges
    <3>4. \A x \in Charges : stripe[x] = "paid" => stripe'[x] = "paid"
      BY <1>i, <3>1 DEF TypeOK, Charges
    <3>5. CallsHold'
      BY <1>i, <3>1, <3>4 DEF CallsHold, Goto, TypeOK, Charges
    <3>6. RepliesTrue'
      BY <1>i, <3>1, <3>4 DEF RepliesTrue, TypeOK, Charges
    <3>7. EventsTrue'
      BY <1>i, <3>2, <3>4 DEF EventsTrue, Charges
    <3>8. InOrder'
      BY <1>i, <3>2 DEF InOrder
    <3>9. NoSettlementWithoutMoney' /\ SettledWhole'
      BY <3>2, <3>4, LedgerKept
    <3> QED BY <3>3, <3>5, <3>6, <3>7, <3>8, <3>9 DEF IInv
  <2>4. CASE OpenRail(c)
    <3> USE <2>4 DEF OpenRail, Goto
    <3>1. TypeOK'
      <4>1. rail' \in {"none", "CARD", "BANK_TRANSFER"} /\ entries' \in {{}, Parties'}
        BY <1>i DEF TypeOK
      <4>2. todo' \in [Calls -> SUBSET Entries] /\ entries \subseteq Entries
        BY <1>i DEF TypeOK, Entries
      <4> QED BY <1>i, <4>1, <4>2 DEF TypeOK
    <3>2. /\ call' = [call EXCEPT ![c] = "appending"] /\ call[c] = "session"
          /\ UNCHANGED <<request, origin, entries, outcomes, at, stripe, replay, event>>
      OBVIOUS
    <3>3. CallsHold' /\ RepliesTrue' /\ EventsTrue'
      BY <1>i, <3>2 DEF CallsHold, RepliesTrue, EventsTrue, TypeOK
    <3>4. InOrder'
      BY <1>i, <3>2 DEF InOrder, Busy, TypeOK
    <3>5. NoSettlementWithoutMoney' /\ SettledWhole'
      BY <3>2, LedgerKept
    <3> QED BY <3>1, <3>3, <3>4, <3>5 DEF IInv
  <2>5. ASSUME NEW e \in Entries, AppendWaiting(c, e) PROVE IInv'
    <3> USE <2>5 DEF AppendWaiting
    <3>1. Waiting(at[c]) \in Outcome /\ \A x : Waiting(at[c]) # Paid(x)
      BY <1>i, Outcomes DEF CallsHold
    <3>2. \A f \in Entries : /\ outcomes'[f] \in Seq(Outcome)
                            /\ \A x \in Charges : Recorded(f, Paid(x))' <=> Recorded(f, Paid(x))
      <4> SUFFICES ASSUME NEW f \in Entries
                   PROVE  outcomes'[f] = outcomes[f]
                          \/ outcomes'[f] = Append(outcomes[f], Waiting(at[c]))
        BY <1>i, <3>1, OtherOutcomes
      <4> QED BY <1>i DEF TypeOK
    <3>3. outcomes' \in [Entries -> Seq(Outcome)]
      BY <1>i, <3>2 DEF TypeOK
    <3>4. TypeOK'
      BY <1>i, <3>3 DEF TypeOK
    <3>5. CallsHold' /\ RepliesTrue' /\ EventsTrue' /\ InOrder'
      BY <1>i DEF CallsHold, RepliesTrue, EventsTrue, InOrder
    <3>6. NoSettlementWithoutMoney' /\ SettledWhole'
      BY <3>2, CompletionsKept
    <3> QED BY <3>4, <3>5, <3>6 DEF IInv
  <2>6. CASE Charge(c)
    <3>1. PICK i \in Intents, r \in {"paid", "declined", "action"} :
            /\ Answers("saved", i)
            /\ replay["saved"] # NoReply => r = replay["saved"].result
            /\ stripe' = [stripe EXCEPT ![i] = IF @ = "none" THEN r ELSE @]
            /\ replay' = [replay EXCEPT !["saved"] = [charge |-> i, result |-> r]]
            /\ \/ /\ Goto(c, IF r = "action" THEN "done" ELSE r)
                  /\ at' = [at EXCEPT ![c] = i]
               \/ Goto(c, "done") /\ UNCHANGED at
      BY <2>6 DEF Charge
    <3>2. /\ UNCHANGED <<ledger, method, todo, urls, jobs>>
          /\ call[c] = "accepted" /\ entries = Parties
      BY <1>i, <2>6 DEF Charge, InOrder, Busy
    <3>3. TypeOK'
      <4>1. stripe' \in [Charges -> {"none", "open", "paid", "declined", "action"}]
        BY <1>i, <3>1 DEF TypeOK, Charges
      <4>2. replay' \in [{"checkout", "saved"} ->
                           [charge : Charges \cup {None},
                            result : {"none", "open", "paid", "declined", "action"}]]
        BY <1>i, <3>1 DEF TypeOK, Charges
      <4>3. at' \in [Calls -> Charges \cup {None}]
        BY <1>i, <3>1 DEF TypeOK, Charges
      <4>4. call' \in [Calls -> {"idle", "verified", "claimed", "accepted", "session",
                               "appending", "paid", "declined", "done"}]
        BY <1>i, <3>1 DEF TypeOK, Goto
      <4> QED BY <1>i, <3>2, <4>1, <4>2, <4>3, <4>4 DEF TypeOK
    <3>4. \A x \in Charges : stripe[x] = "paid" => stripe'[x] = "paid"
      BY <1>i, <3>1 DEF TypeOK, Charges
    <3>5. r = "paid" => stripe'[i] = "paid"
      BY <1>i, <3>1 DEF TypeOK, Charges, Answers, RepliesTrue
    <3>6. CallsHold'
      BY <1>i, <3>1, <3>4, <3>5 DEF CallsHold, Goto, TypeOK, Charges
    <3>7. RepliesTrue'
      BY <1>i, <3>1, <3>5 DEF RepliesTrue, TypeOK
    <3>8. EventsTrue'
      BY <1>i, <3>2, <3>4 DEF EventsTrue, Charges
    <3>9. InOrder'
      BY <1>i, <3>2 DEF InOrder
    <3>10. NoSettlementWithoutMoney' /\ SettledWhole'
      BY <3>2, <3>4, LedgerKept
    <3> QED BY <3>3, <3>6, <3>7, <3>8, <3>9, <3>10 DEF IInv
  <2>7. CASE MarkCompleted(c)
    <3>1. at[c] \in Charges /\ stripe[at[c]] = "paid" /\ Settle(at[c]) /\ UNCHANGED stripe
      BY <1>i, <2>7 DEF MarkCompleted, CallsHold, Charges
    <3>2. /\ outcomes' \in [Entries -> Seq(Outcome)] /\ UNCHANGED <<entries, origin>>
          /\ rail' \in {"none", "CARD", "BANK_TRANSFER"}
          /\ request' = request \/ (request' = "COMPLETED" /\ request # "DRAFT")
          /\ entries = Parties /\ NoSettlementWithoutMoney' /\ SettledWhole'
      BY <3>1, SettleKeeps
    <3>3. /\ call' = [call EXCEPT ![c] = "done"]
          /\ UNCHANGED <<method, at, todo, provider, jobs>>
      BY <2>7 DEF MarkCompleted, Goto
    <3>4. TypeOK'
      BY <1>i, <3>2, <3>3 DEF TypeOK
    <3>5. CallsHold' /\ RepliesTrue' /\ EventsTrue'
      BY <1>i, <3>3 DEF CallsHold, RepliesTrue, EventsTrue, TypeOK
    <3>6. InOrder'
      BY <1>i, <3>2, <3>3 DEF InOrder, TypeOK, Busy
    <3> QED BY <3>2, <3>4, <3>5, <3>6 DEF IInv
  <2>8. CASE AppendDenied(c)
    <3> USE <2>8 DEF AppendDenied, Goto
    <3>1. Declined \in Outcome /\ \A x : Declined # Paid(x)
      BY Outcomes
    <3>2. \A f \in Entries : /\ outcomes'[f] \in Seq(Outcome)
                            /\ \A x \in Charges : Recorded(f, Paid(x))' <=> Recorded(f, Paid(x))
      <4> SUFFICES ASSUME NEW f \in Entries
                   PROVE  outcomes'[f] = outcomes[f] \/ outcomes'[f] = Append(outcomes[f], Declined)
        BY <1>i, <3>1, OtherOutcomes
      <4> QED BY <1>i DEF TypeOK
    <3>3. outcomes' \in [Entries -> Seq(Outcome)]
      <4>1. outcomes' = [e \in Entries |-> outcomes'[e]]
        BY <1>i DEF TypeOK
      <4> QED BY <3>2, <4>1
    <3>4. TypeOK'
      BY <1>i, <3>3 DEF TypeOK
    <3>5. CallsHold' /\ RepliesTrue' /\ EventsTrue' /\ InOrder'
      BY <1>i DEF CallsHold, RepliesTrue, EventsTrue, InOrder, TypeOK, Busy
    <3>6. NoSettlementWithoutMoney' /\ SettledWhole'
      BY <3>2, CompletionsKept
    <3> QED BY <3>4, <3>5, <3>6 DEF IInv
  <2> QED BY <1>3, <2>1, <2>2, <2>3, <2>4, <2>5, <2>6, <2>7, <2>8 DEF CallSteps
<1>4. ASSUME NEW s \in Sessions, PayerPays(s) \/ LoseEvent(s) PROVE IInv'
  <2>1. TypeOK'
    BY <1>i, <1>4 DEF TypeOK, PayerPays, LoseEvent
  <2>2. \A x \in Charges : stripe[x] = "paid" => stripe'[x] = "paid"
    BY <1>i, <1>4 DEF TypeOK, Charges, PayerPays, LoseEvent
  <2>8. \A x \in Charges : stripe'[x] # "none" => stripe[x] # "none"
    BY <1>i, <1>4 DEF TypeOK, Charges, PayerPays, LoseEvent
  <2>3. UNCHANGED <<ledger, calls, replay>>
    BY <1>4 DEF PayerPays, LoseEvent
  <2>4. CallsHold' /\ RepliesTrue'
    BY <1>i, <2>2, <2>3 DEF CallsHold, RepliesTrue, Charges
  <2>5. InOrder'
    BY <1>i, <2>8, <2>3 DEF InOrder
  <2>6. EventsTrue'
    <3>1. CASE PayerPays(s)
      BY <1>i, <3>1 DEF PayerPays, EventsTrue, Charges, TypeOK
    <3>2. CASE LoseEvent(s)
      BY <1>i, <3>2 DEF LoseEvent, EventsTrue, TypeOK
    <3> QED BY <1>4, <3>1, <3>2
  <2>7. NoSettlementWithoutMoney' /\ SettledWhole'
    BY <2>2, <2>3, LedgerKept
  <2> QED BY <2>1, <2>4, <2>5, <2>6, <2>7 DEF IInv
<1>5. ASSUME NEW s \in Sessions, Deliver(s) \/ Reconcile(s) PROVE IInv'
  <2>1. s \in Charges /\ UNCHANGED <<method, calls, provider>>
    BY <1>5 DEF Deliver, Reconcile, Charges
  <2>2. (stripe[s] = "paid" /\ Settle(s)) \/ UNCHANGED ledger
    BY <1>i, <1>5 DEF Deliver, Reconcile, EventsTrue
  <2>3. /\ outcomes' \in [Entries -> Seq(Outcome)] /\ UNCHANGED <<entries, origin>>
        /\ rail' \in {"none", "CARD", "BANK_TRANSFER"}
        /\ \/ request' = request
           \/ request' = "COMPLETED" /\ request # "DRAFT" /\ entries = Parties
        /\ NoSettlementWithoutMoney' /\ SettledWhole'
    <3>1. CASE stripe[s] = "paid" /\ Settle(s)
      BY <2>1, <3>1, SettleKeeps
    <3>2. CASE UNCHANGED ledger
      BY <1>i, <2>1, <3>2, LedgerKept DEF TypeOK
    <3> QED BY <2>2, <3>1, <3>2
  <2>4. TypeOK'
    BY <1>i, <1>5, <2>3 DEF TypeOK, Deliver, Reconcile
  <2>5. EventsTrue'
    BY <1>i, <1>5 DEF EventsTrue, Deliver, Reconcile, TypeOK
  <2>6. CallsHold' /\ RepliesTrue'
    BY <1>i, <2>1, <2>3 DEF CallsHold, RepliesTrue
  <2>7. InOrder'
    BY <1>i, <2>1, <2>3 DEF InOrder
  <2> QED BY <2>3, <2>4, <2>5, <2>6, <2>7 DEF IInv
<1>6. ASSUME NEW i \in Intents, PayerAuthenticates(i) PROVE IInv'
  <2> USE <1>6 DEF PayerAuthenticates
  <2>1. TypeOK'
    BY <1>i DEF TypeOK
  <2>2. \A x \in Charges : /\ stripe[x] = "paid" => stripe'[x] = "paid"
                          /\ stripe'[x] # "none" => stripe[x] # "none"
    BY <1>i DEF TypeOK, Charges
  <2>3. CallsHold' /\ RepliesTrue' /\ EventsTrue' /\ InOrder'
    BY <1>i, <2>2 DEF CallsHold, RepliesTrue, EventsTrue, InOrder, Charges
  <2>4. NoSettlementWithoutMoney' /\ SettledWhole'
    BY <2>2, LedgerKept
  <2> QED BY <2>1, <2>3, <2>4 DEF IInv
<1>7. ASSUME NEW k \in {"checkout", "saved"}, ForgetKey(k) PROVE IInv'
  <2> USE <1>7 DEF ForgetKey
  <2>1. TypeOK'
    BY <1>i DEF TypeOK, NoReply
  <2>2. CallsHold' /\ RepliesTrue' /\ EventsTrue' /\ InOrder'
    BY <1>i DEF CallsHold, RepliesTrue, EventsTrue, InOrder, TypeOK
  <2>3. NoSettlementWithoutMoney' /\ SettledWhole'
    BY LedgerKept
  <2> QED BY <2>1, <2>2, <2>3 DEF IInv
<1>8. CASE UNCHANGED vars
  <2> USE <1>8 DEF vars
  <2>1. TypeOK' /\ CallsHold' /\ RepliesTrue' /\ EventsTrue' /\ InOrder'
    BY <1>i DEF TypeOK, CallsHold, RepliesTrue, EventsTrue, InOrder
  <2>2. NoSettlementWithoutMoney' /\ SettledWhole'
    BY LedgerKept
  <2> QED BY <2>1, <2>2 DEF IInv
<1> QED BY <1>1, <1>2, <1>3, <1>4, <1>5, <1>6, <1>7, <1>8 DEF Next

LEMMA Invariance == Spec => []IInv
<1> QED BY InitIInv, StepIInv, PTL DEF Spec

\* Every variable keeps its type, for any calls, sessions and intents.
THEOREM TypeCorrect == Spec => []TypeOK
<1>1. IInv => TypeOK
  BY DEF IInv
<1> QED BY Invariance, <1>1, PTL

\* No entry is completed for a charge Stripe did not collect (the webhook, the
\* scheduler, and the saved-method call all settle).
THEOREM SettledOnMoney == Spec => []NoSettlementWithoutMoney
<1>1. IInv => NoSettlementWithoutMoney
  BY DEF IInv
<1> QED BY Invariance, <1>1, PTL

\* A completed request has the entries of all its parties completed, whatever crashed or aborted.
THEOREM SettledOnBothSides == Spec => []SettledWhole
<1>1. IInv => SettledWhole
  BY DEF IInv
<1> QED BY Invariance, <1>1, PTL

----------------------------------------------------------------------------
\* A step of the calls, of Stripe or of a job is a step of the promise or none of it.
LEMMA StepKeepsPromise ==
  IInv /\ [Next]_vars => [Promised!Next]_<<request, Collected>>
<1> SUFFICES ASSUME IInv, Next PROVE [Promised!Next]_<<request, Collected>>
  BY DEF vars, ledger, provider, Collected
<1>i. TypeOK /\ CallsHold /\ EventsTrue /\ InOrder
  BY DEF IInv
<1>d. Parties # {}
  BY DEF Parties, Entries
<1>s. ASSUME UNCHANGED <<request, stripe>> PROVE UNCHANGED <<request, Collected>>
  BY <1>s DEF Collected
<1>c. ASSUME NEW x \in Charges, stripe[x] # "none", UNCHANGED request,
             \A y \in Charges \ {x} : stripe'[y] = stripe[y],
             stripe[x] = "paid" => stripe'[x] = "paid"
      PROVE  [Promised!Next]_<<request, Collected>>
  <2>1. request # "DRAFT"
    BY <1>i, <1>d, <1>c DEF InOrder
  <2>2. Collected' = Collected \/ (x \notin Collected /\ Collected' = Collected \cup {x})
    BY <1>c DEF Collected
  <2> QED BY <1>c, <2>1, <2>2 DEF Promised!Next, Promised!Collect
<1>n. ASSUME NEW c \in Calls, call[c] = "accepted", NEW x \in Charges, UNCHANGED request,
             \A y \in Charges \ {x} : stripe'[y] = stripe[y],
             stripe[x] # "none" => stripe'[x] = stripe[x]
      PROVE  [Promised!Next]_<<request, Collected>>
  <2>1. request # "DRAFT"
    BY <1>i, <1>d, <1>n DEF InOrder, Busy
  <2>2. Collected' = Collected \/ (x \notin Collected /\ Collected' = Collected \cup {x})
    BY <1>n DEF Collected
  <2> QED BY <1>n, <2>1, <2>2 DEF Promised!Next, Promised!Collect
<1>k. ASSUME NEW x \in Charges, stripe[x] = "paid", Settle(x), UNCHANGED stripe
      PROVE  [Promised!Next]_<<request, Collected>>
  <2>1. request # "DRAFT" /\ request' \in {request, "COMPLETED"}
    BY <1>i, <1>d, <1>k, SettleKeeps DEF InOrder
  <2>2. Collected # {} /\ Collected' = Collected
    BY <1>k DEF Collected
  <2> QED BY <1>i, <2>1, <2>2 DEF TypeOK, Promised!Next, Promised!Complete
<1> USE DEF ledger, calls, provider, jobs
<1>1. CASE SendDraft \/ StartPayment
  BY <1>1 DEF SendDraft, StartPayment, Promised!Next, Promised!Send, Collected
<1>2. CASE OthersWait \/ Select \/ \E s \in Sessions : Skip(s)
  BY <1>2, <1>s DEF OthersWait, Select, Skip
<1>3. ASSUME NEW c \in Calls, CallSteps(c) PROVE [Promised!Next]_<<request, Collected>>
  <2>1. CASE \/ VerifyMethod(c) \/ MethodRejected(c) \/ Claim(c) \/ Confirm(c) \/ OpenRail(c)
             \/ ReplyUrl(c) \/ AppendDenied(c) \/ Abandon(c)
             \/ \E e \in Entries : AppendWaiting(c, e)
    BY <2>1, <1>s DEF VerifyMethod, MethodRejected, Claim, Confirm, OpenRail, ReplyUrl,
                      AppendDenied, Abandon, AppendWaiting
  <2>2. CASE CreateSession(c)
    <3>1. PICK s \in Sessions : stripe' = [stripe EXCEPT ![s] = IF @ = "none" THEN "open" ELSE @]
      BY <2>2 DEF CreateSession
    <3> QED BY <1>i, <2>2, <3>1, <1>n DEF CreateSession, TypeOK, Charges
  <2>3. CASE Charge(c)
    <3>1. PICK i \in Intents, r \in {"paid", "declined", "action"} :
            stripe' = [stripe EXCEPT ![i] = IF @ = "none" THEN r ELSE @]
      BY <2>3 DEF Charge
    <3> QED BY <1>i, <2>3, <3>1, <1>n DEF Charge, TypeOK, Charges
  <2>4. CASE MarkCompleted(c)
    BY <1>i, <2>4, <1>k DEF MarkCompleted, CallsHold, Charges
  <2> QED BY <1>3, <2>1, <2>2, <2>3, <2>4 DEF CallSteps
<1>4. ASSUME NEW s \in Sessions, PayerPays(s) PROVE [Promised!Next]_<<request, Collected>>
  BY <1>i, <1>4, <1>c DEF PayerPays, TypeOK, Charges
<1>5. ASSUME NEW s \in Sessions, Deliver(s) PROVE [Promised!Next]_<<request, Collected>>
  BY <1>i, <1>5, <1>k DEF Deliver, EventsTrue, Charges
<1>6. ASSUME NEW s \in Sessions, LoseEvent(s) PROVE [Promised!Next]_<<request, Collected>>
  BY <1>6, <1>s DEF LoseEvent
<1>7. ASSUME NEW s \in Sessions, Reconcile(s) PROVE [Promised!Next]_<<request, Collected>>
  BY <1>7, <1>k, <1>s DEF Reconcile, Charges
<1>8. ASSUME NEW i \in Intents, PayerAuthenticates(i) PROVE [Promised!Next]_<<request, Collected>>
  BY <1>i, <1>8, <1>c DEF PayerAuthenticates, TypeOK, Charges
<1>9. ASSUME NEW k \in {"checkout", "saved"}, ForgetKey(k)
      PROVE  [Promised!Next]_<<request, Collected>>
  BY <1>9, <1>s DEF ForgetKey
<1> QED BY <1>1, <1>2, <1>3, <1>4, <1>5, <1>6, <1>7, <1>8, <1>9 DEF Next

\* The request, its calls and its jobs implement the promise: never a step that
\* completes an unpaid request, revives a completed one, or collects for a draft.
THEOREM KeepsPromise == Spec => Promise
<1>1. Init => Promised!Init
  BY DEF Init, Promised!Init, Collected
<1> QED BY <1>1, Invariance, StepKeepsPromise, PTL DEF Spec, Promise, Promised!Spec
----------------------------------------------------------------------------
\* While Stripe remembers a key it knows no charge but the one it would replay.
OneChargePerKey ==
  /\ \A s \in Sessions : stripe[s] # "none" => replay["checkout"].charge = s
  /\ \A i \in Intents : stripe[i] # "none" => replay["saved"].charge = i

LEMMA OneChargeStep ==
  ASSUME KeysExpire = FALSE
  PROVE  TypeOK /\ OneChargePerKey /\ [Next]_vars => OneChargePerKey'
<1> SUFFICES ASSUME TypeOK, OneChargePerKey, [Next]_vars PROVE OneChargePerKey'
  OBVIOUS
<1> USE DEF ledger, calls, provider, jobs
<1>1. ASSUME UNCHANGED <<stripe, replay>> PROVE OneChargePerKey'
  BY <1>1 DEF OneChargePerKey
<1>2. ASSUME NEW c \in Calls, CreateSession(c) PROVE OneChargePerKey'
  <2>1. PICK s \in Sessions :
          /\ Answers("checkout", s)
          /\ stripe' = [stripe EXCEPT ![s] = IF @ = "none" THEN "open" ELSE @]
          /\ replay' = [replay EXCEPT !["checkout"] = [charge |-> s, result |-> "open"]]
    BY <1>2 DEF CreateSession
  <2>2. replay'["checkout"].charge = s /\ replay'["saved"] = replay["saved"]
    BY <2>1 DEF TypeOK
  <2>3. \A t \in Sessions : stripe[t] # "none" => t = s
    BY <2>1, DisjointAssumption DEF OneChargePerKey, Answers, NoReply, Charges
  <2>4. \A x \in Charges : x # s => stripe'[x] = stripe[x]
    BY <2>1 DEF TypeOK
  <2> QED BY <2>2, <2>3, <2>4, DisjointAssumption DEF OneChargePerKey, Charges
<1>3. ASSUME NEW c \in Calls, Charge(c) PROVE OneChargePerKey'
  <2>1. PICK i \in Intents, r \in {"paid", "declined", "action"} :
          /\ Answers("saved", i)
          /\ stripe' = [stripe EXCEPT ![i] = IF @ = "none" THEN r ELSE @]
          /\ replay' = [replay EXCEPT !["saved"] = [charge |-> i, result |-> r]]
    BY <1>3 DEF Charge
  <2>2. replay'["saved"].charge = i /\ replay'["checkout"] = replay["checkout"]
    BY <2>1 DEF TypeOK
  <2>3. \A j \in Intents : stripe[j] # "none" => j = i
    BY <2>1, DisjointAssumption DEF OneChargePerKey, Answers, NoReply, Charges
  <2>4. \A x \in Charges : x # i => stripe'[x] = stripe[x]
    BY <2>1 DEF TypeOK
  <2> QED BY <2>2, <2>3, <2>4, DisjointAssumption DEF OneChargePerKey, Charges
<1>4. ASSUME NEW c \in Calls, CallSteps(c), ~CreateSession(c), ~Charge(c)
      PROVE  UNCHANGED <<stripe, replay>>
  BY <1>4 DEF CallSteps, VerifyMethod, MethodRejected, Claim, Confirm, OpenRail, AppendWaiting,
              ReplyUrl, MarkCompleted, AppendDenied, Abandon
<1>5. ASSUME NEW x \in Charges, stripe[x] # "none", stripe' = [stripe EXCEPT ![x] = "paid"],
             UNCHANGED replay
      PROVE  OneChargePerKey'
  <2>1. \A y \in Charges : stripe'[y] # "none" => stripe[y] # "none"
    BY <1>5 DEF TypeOK
  <2> QED BY <1>5, <2>1 DEF OneChargePerKey, Charges
<1>6. ASSUME NEW s \in Sessions, PayerPays(s) PROVE OneChargePerKey'
  BY <1>5, <1>6 DEF PayerPays, Charges
<1>7. ASSUME NEW i \in Intents, PayerAuthenticates(i) PROVE OneChargePerKey'
  BY <1>5, <1>7 DEF PayerAuthenticates, Charges
<1>8. ASSUME NEW s \in Sessions, Deliver(s) \/ LoseEvent(s) \/ Reconcile(s) \/ Skip(s)
      PROVE  UNCHANGED <<stripe, replay>>
  BY <1>8 DEF Deliver, LoseEvent, Reconcile, Skip
<1>9. ASSUME SendDraft \/ StartPayment \/ OthersWait \/ Select \/ UNCHANGED vars
      PROVE  UNCHANGED <<stripe, replay>>
  BY <1>9 DEF SendDraft, StartPayment, OthersWait, Select, vars
<1>10. ASSUME NEW k \in {"checkout", "saved"} PROVE ~ForgetKey(k)
  BY DEF ForgetKey
<1> QED BY <1>1, <1>2, <1>3, <1>4, <1>6, <1>7, <1>8, <1>9, <1>10 DEF Next

LEMMA OneChargeInit == Init => OneChargePerKey
  BY DEF Init, OneChargePerKey, Charges

\* While Stripe remembers its keys it collects for a request once by checkout and once
\* by a saved method, however many tabs, retries and lost responses there are.
THEOREM OnceEachWay ==
  ASSUME KeysExpire = FALSE
  PROVE  Spec => []ChargedOnceEachWay
<1>1. OneChargePerKey => ChargedOnceEachWay
  BY DEF OneChargePerKey, ChargedOnceEachWay, Collected
<1>2. IInv => TypeOK
  BY DEF IInv
<1> QED BY <1>1, <1>2, OneChargeInit, OneChargeStep, Invariance, PTL DEF Spec

----------------------------------------------------------------------------
\* A session was opened before a call or the payer holds it, and by then no saved
\* method was charged.
CheckoutOnly ==
  /\ \A i \in Intents : stripe[i] = "none"
  /\ \A c \in Calls : /\ call[c] # "declined"
                      /\ call[c] \in {"session", "appending"} => stripe[at[c]] # "none"
  /\ \A s \in urls : stripe[s] # "none"
  /\ Collected \subseteq urls
  /\ request = "COMPLETED" => Collected # {}

\* The inductive invariant of a request that is paid by checkout alone.
CheckoutInv == OneChargePerKey /\ CheckoutOnly

\* Stripe collects for the request once, whatever the way to pay.
ChargedOnce == Cardinality(Collected) <= 1

LEMMA CheckoutOnlyStep ==
  ASSUME SavedPays = {}, KeysExpire = FALSE
  PROVE  IInv /\ CheckoutOnly /\ [Next]_vars => CheckoutOnly'
<1> SUFFICES ASSUME IInv, CheckoutOnly, [Next]_vars PROVE CheckoutOnly'
  OBVIOUS
<1>i. TypeOK /\ CallsHold
  BY DEF IInv
<1> USE DEF ledger, calls, provider, jobs
<1>a. ASSUME UNCHANGED <<stripe, urls>>, request' = request \/ request' = "PENDING",
             \A c \in Calls : /\ call'[c] # "declined"
                              /\ call'[c] \in {"session", "appending"} =>
                                   /\ call[c] \in {"session", "appending"}
                                   /\ at'[c] = at[c]
      PROVE  CheckoutOnly'
  BY <1>a DEF CheckoutOnly, Collected
<1>1. ASSUME SendDraft \/ StartPayment \/ OthersWait \/ Select \/ UNCHANGED vars
      PROVE  CheckoutOnly'
  <2>1. UNCHANGED <<stripe, urls, call, at>> /\ (request' = request \/ request' = "PENDING")
    BY <1>1 DEF SendDraft, StartPayment, OthersWait, Select, vars
  <2> QED BY <1>a, <2>1 DEF CheckoutOnly
<1>2. ASSUME NEW c \in Calls,
             \/ Claim(c) \/ Confirm(c) \/ OpenRail(c) \/ Abandon(c)
             \/ \E e \in Entries : AppendWaiting(c, e)
      PROVE  CheckoutOnly'
  <2>1. UNCHANGED <<stripe, urls, at, request>>
    BY <1>2 DEF Claim, Confirm, OpenRail, Abandon, AppendWaiting
  <2>2. \/ UNCHANGED call
        \/ Goto(c, "done") \/ Goto(c, "claimed") \/ Goto(c, "accepted")
        \/ call[c] = "session" /\ Goto(c, "appending")
    BY <1>2 DEF Claim, Confirm, OpenRail, Abandon, AppendWaiting
  <2>3. \A d \in Calls : /\ call'[d] # "declined"
                         /\ call'[d] \in {"session", "appending"} =>
                              call[d] \in {"session", "appending"}
    BY <1>i, <2>2 DEF CheckoutOnly, Goto, TypeOK
  <2> QED BY <1>a, <2>1, <2>3
<1>3. ASSUME NEW c \in Calls, ReplyUrl(c) PROVE CheckoutOnly'
  <2>1. /\ urls' = urls \cup {at[c]} /\ call[c] = "appending"
        /\ UNCHANGED <<stripe, at, request>> /\ call' = [call EXCEPT ![c] = "done"]
    BY <1>3 DEF ReplyUrl, Goto
  <2>2. \A d \in Calls : call'[d] = call[d] \/ call'[d] = "done"
    BY <1>i, <2>1 DEF TypeOK
  <2> QED BY <2>1, <2>2 DEF CheckoutOnly, Collected
<1>4. ASSUME NEW c \in Calls, CreateSession(c) PROVE CheckoutOnly'
  <2>1. PICK s \in Sessions :
          /\ stripe' = [stripe EXCEPT ![s] = IF @ = "none" THEN "open" ELSE @]
          /\ \/ Goto(c, "session") /\ at' = [at EXCEPT ![c] = s]
             \/ Goto(c, "done") /\ UNCHANGED at
    BY <1>4 DEF CreateSession
  <2>2. UNCHANGED <<request, urls>>
    BY <1>4 DEF CreateSession
  <2>3. /\ \A x \in Charges : x # s => stripe'[x] = stripe[x]
        /\ stripe'[s] # "none" /\ (stripe'[s] = "paid" <=> stripe[s] = "paid")
        /\ s \in Charges
    BY <1>i, <2>1 DEF TypeOK, Charges
  <2>4. Collected' = Collected
    BY <2>3 DEF Collected
  <2>5. \A i \in Intents : stripe'[i] = "none"
    BY <2>3, DisjointAssumption DEF CheckoutOnly, Charges
  <2>6. ASSUME NEW d \in Calls
        PROVE  /\ call'[d] # "declined"
               /\ call'[d] \in {"session", "appending"} => stripe'[at'[d]] # "none"
    <3>1. CASE d = c
      BY <1>i, <2>1, <2>3, <3>1 DEF TypeOK, Goto
    <3>2. CASE d # c
      <4>1. call'[d] = call[d] /\ at'[d] = at[d]
        BY <1>i, <2>1, <3>2 DEF TypeOK, Goto
      <4>2. call[d] \in {"session", "appending"} => at[d] \in Charges /\ stripe[at[d]] # "none"
        BY <1>i DEF CallsHold, Charges, CheckoutOnly
      <4> QED BY <2>3, <4>1, <4>2 DEF CheckoutOnly
    <3> QED BY <3>1, <3>2
  <2>7. \A t \in urls : stripe'[t] # "none"
    BY <1>i, <2>3 DEF CheckoutOnly, TypeOK, Charges
  <2> QED BY <2>2, <2>4, <2>5, <2>6, <2>7 DEF CheckoutOnly
<1>5. ASSUME NEW c \in Calls PROVE ~VerifyMethod(c) /\ ~MethodRejected(c) /\ ~Charge(c)
  BY DEF VerifyMethod, MethodRejected, Charge
<1>6. ASSUME NEW c \in Calls PROVE ~MarkCompleted(c) /\ ~AppendDenied(c)
  BY <1>i DEF MarkCompleted, AppendDenied, CheckoutOnly, CallsHold
<1>7. ASSUME NEW s \in Sessions, PayerPays(s) PROVE CheckoutOnly'
  <2>1. s \in urls /\ stripe' = [stripe EXCEPT ![s] = "paid"] /\ UNCHANGED <<request, urls, call, at>>
    BY <1>7 DEF PayerPays
  <2>2. s \in Charges /\ stripe'[s] = "paid" /\ \A x \in Charges : x # s => stripe'[x] = stripe[x]
    BY <1>i, <2>1 DEF TypeOK, Charges
  <2>3. Collected' = Collected \cup {s}
    BY <2>2 DEF Collected
  <2>4. \A x \in Charges : stripe[x] # "none" => stripe'[x] # "none"
    BY <2>2
  <2>5. \A i \in Intents : stripe'[i] = "none"
    BY <2>2, DisjointAssumption DEF CheckoutOnly, Charges
  <2>6. \A c \in Calls : call'[c] \in {"session", "appending"} => stripe'[at'[c]] # "none"
    BY <1>i, <2>1, <2>4 DEF CheckoutOnly, CallsHold, Charges
  <2>7. \A t \in urls' : stripe'[t] # "none"
    BY <1>i, <2>1, <2>4 DEF CheckoutOnly, TypeOK, Charges
  <2> QED BY <2>1, <2>3, <2>5, <2>6, <2>7 DEF CheckoutOnly
<1>8. ASSUME NEW s \in Sessions, Deliver(s) \/ LoseEvent(s) \/ Reconcile(s) \/ Skip(s)
      PROVE  CheckoutOnly'
  <2>1. UNCHANGED <<stripe, urls, call, at>>
    BY <1>8 DEF Deliver, LoseEvent, Reconcile, Skip
  <2>2. request' = request \/ (request' = "COMPLETED" /\ stripe[s] = "paid")
    BY <1>8 DEF Deliver, LoseEvent, Reconcile, Skip, Settle, SettledBy, IInv, EventsTrue
  <2>3. Collected' = Collected /\ (stripe[s] = "paid" => s \in Collected)
    BY <2>1 DEF Collected, Charges
  <2> QED BY <2>1, <2>2, <2>3 DEF CheckoutOnly
<1>9. ASSUME NEW i \in Intents PROVE ~PayerAuthenticates(i)
  BY DEF PayerAuthenticates, CheckoutOnly
<1>10. ASSUME NEW k \in {"checkout", "saved"} PROVE ~ForgetKey(k)
  BY DEF ForgetKey
<1> QED BY <1>1, <1>2, <1>3, <1>4, <1>5, <1>6, <1>7, <1>8, <1>9, <1>10 DEF Next, CallSteps

LEMMA CheckoutInvariance ==
  ASSUME SavedPays = {}, KeysExpire = FALSE
  PROVE  Spec => []CheckoutInv
<1>1. Init => CheckoutInv
  <2> SUFFICES ASSUME Init PROVE CheckoutInv
    OBVIOUS
  <2>1. CheckoutOnly
    BY DEF Init, CheckoutOnly, Collected, Charges
  <2> QED BY <2>1, OneChargeInit DEF CheckoutInv
<1>2. IInv /\ CheckoutInv /\ [Next]_vars => CheckoutInv'
  <2>1. IInv => TypeOK
    BY DEF IInv
  <2> QED BY <2>1, OneChargeStep, CheckoutOnlyStep DEF CheckoutInv
<1> QED BY <1>1, <1>2, Invariance, PTL DEF Spec

\* A request paid by checkout alone is collected once.
THEOREM CheckoutChargedOnce ==
  ASSUME SavedPays = {}, KeysExpire = FALSE
  PROVE  Spec => []ChargedOnce
<1>1. CheckoutInv => ChargedOnce
  <2> SUFFICES ASSUME CheckoutInv PROVE Cardinality(Collected) <= 1
    BY DEF ChargedOnce
  <2>1. \A c, d \in Collected : c = d
    BY DEF CheckoutInv, CheckoutOnly, OneChargePerKey, Collected, Charges
  <2>2. CASE Collected = {}
    BY <2>2, FS_EmptySet
  <2>3. ASSUME NEW c \in Collected PROVE Cardinality(Collected) <= 1
    <3>1. Collected = {c}
      BY <2>1
    <3>2. Cardinality({c}) = 1
      BY FS_Singleton
    <3> QED BY <3>1, <3>2
  <2> QED BY <2>2, <2>3
<1> QED BY <1>1, CheckoutInvariance, PTL

----------------------------------------------------------------------------
\* The URL is given to the payer when every entry has been marked as waiting, and no
\* session is paid without one.
MarkedBy(c) == /\ todo[c] \subseteq entries
               /\ \A e \in entries \ todo[c] : Recorded(e, Waiting(at[c]))
MarkedUrls  == /\ urls # {} => entries # {}
               /\ \A s \in urls, e \in entries : Recorded(e, Waiting(s))
MarkedFirst == MarkedUrls /\ \A c \in Calls : call[c] = "appending" => MarkedBy(c)
PaidByUrl   == \A s \in Sessions : stripe[s] = "paid" => s \in urls

\* Outcomes are only ever appended, one at a time.
LEMMA OutcomesGrow ==
  ASSUME IInv, [Next]_vars, NEW e \in Entries
  PROVE  \/ outcomes'[e] = outcomes[e]
         \/ \E o \in Outcome : outcomes'[e] = Append(outcomes[e], o)
<1> DEFINE Grown == \/ outcomes'[e] = outcomes[e]
                    \/ \E o \in Outcome : outcomes'[e] = Append(outcomes[e], o)
<1>i. TypeOK /\ CallsHold
  BY DEF IInv
<1>1. ASSUME UNCHANGED outcomes PROVE Grown
  BY <1>1
<1>2. ASSUME NEW c \in Charges, Settle(c) PROVE Grown
  <2>1. Paid(c) \in Outcome
    BY Outcomes
  <2> QED BY <1>2, <2>1 DEF Settle, SettledBy, ledger
<1>3. ASSUME NEW c \in Calls, NEW f \in Entries, AppendWaiting(c, f) PROVE Grown
  <2>1. Waiting(at[c]) \in Outcome
    BY <1>i, <1>3, Outcomes DEF AppendWaiting, CallsHold
  <2> QED BY <1>i, <1>3, <2>1 DEF AppendWaiting, TypeOK
<1>4. ASSUME NEW c \in Calls, AppendDenied(c) PROVE Grown
  <2>1. Declined \in Outcome
    BY Outcomes
  <2> QED BY <1>4, <2>1 DEF AppendDenied
<1>5. ASSUME NEW c \in Calls, MarkCompleted(c) PROVE Grown
  BY <1>i, <1>2, <1>5 DEF MarkCompleted, CallsHold, Charges
<1>6. ASSUME NEW c \in Calls,
             \/ VerifyMethod(c) \/ MethodRejected(c) \/ Claim(c) \/ Confirm(c)
             \/ CreateSession(c) \/ OpenRail(c) \/ ReplyUrl(c) \/ Charge(c) \/ Abandon(c)
      PROVE  UNCHANGED outcomes
  BY <1>6 DEF VerifyMethod, MethodRejected, Claim, Confirm, CreateSession, OpenRail, ReplyUrl,
              Charge, Abandon, ledger
<1>7. ASSUME NEW s \in Sessions, Deliver(s) \/ Reconcile(s) PROVE Grown
  BY <1>1, <1>2, <1>7 DEF Deliver, Reconcile, Charges, ledger
<1>8. ASSUME \/ SendDraft \/ StartPayment \/ OthersWait \/ Select \/ UNCHANGED vars
             \/ \E s \in Sessions : PayerPays(s) \/ LoseEvent(s) \/ Skip(s)
             \/ \E i \in Intents : PayerAuthenticates(i)
             \/ \E k \in {"checkout", "saved"} : ForgetKey(k)
      PROVE  UNCHANGED outcomes
  BY <1>8 DEF SendDraft, StartPayment, OthersWait, Select, vars, PayerPays, LoseEvent, Skip,
              PayerAuthenticates, ForgetKey, ledger
<1> QED BY <1>1, <1>3, <1>4, <1>5, <1>6, <1>7, <1>8 DEF Next, CallSteps

LEMMA RecordedStays ==
  ASSUME IInv, [Next]_vars, NEW e \in Entries, NEW x, Recorded(e, x)
  PROVE  \E i \in 1..Len(outcomes'[e]) : outcomes'[e][i] = x
<1>1. outcomes[e] \in Seq(Outcome)
  BY DEF IInv, TypeOK
<1>2. CASE outcomes'[e] = outcomes[e]
  BY <1>2 DEF Recorded
<1>3. ASSUME NEW o \in Outcome, outcomes'[e] = Append(outcomes[e], o)
      PROVE  \E i \in 1..Len(outcomes'[e]) : outcomes'[e][i] = x
  BY <1>1, <1>3, AppendRecords DEF Recorded
<1> QED BY <1>2, <1>3, OutcomesGrow

\* Once it has its entries a request keeps them.
LEMMA EntriesStay ==
  ASSUME IInv, [Next]_vars, entries # {}
  PROVE  entries' = entries /\ entries \subseteq Entries
<1>i. TypeOK /\ InOrder
  BY DEF IInv
<1>1. entries = Parties /\ entries \subseteq Entries /\ request # "DRAFT"
  BY <1>i DEF TypeOK, InOrder, Parties, Entries
<1> USE DEF ledger
<1>2. ASSUME NEW c \in Calls, Claim(c) PROVE entries' = entries
  BY <1>1, <1>2 DEF Claim, Booked, Parties
<1>3. ASSUME NEW x, Settle(x) PROVE entries' = entries
  BY <1>3 DEF Settle, SettledBy
<1>4. ASSUME NEW c \in Calls, CallSteps(c), ~Claim(c) PROVE entries' = entries
  BY <1>3, <1>4 DEF CallSteps, VerifyMethod, MethodRejected, Confirm, CreateSession, OpenRail,
                   ReplyUrl, AppendWaiting, Charge, MarkCompleted, AppendDenied, Abandon
<1>5. ASSUME NEW s \in Sessions,
             PayerPays(s) \/ Deliver(s) \/ LoseEvent(s) \/ Reconcile(s) \/ Skip(s)
      PROVE  entries' = entries
  BY <1>3, <1>5 DEF PayerPays, Deliver, LoseEvent, Reconcile, Skip
<1>6. ASSUME \/ OthersWait \/ Select \/ UNCHANGED vars
             \/ \E i \in Intents : PayerAuthenticates(i)
             \/ \E k \in {"checkout", "saved"} : ForgetKey(k)
      PROVE  entries' = entries
  BY <1>6 DEF OthersWait, Select, vars, PayerAuthenticates, ForgetKey
<1>7. ~SendDraft /\ ~StartPayment
  BY <1>1 DEF SendDraft, StartPayment
<1> QED BY <1>1, <1>2, <1>4, <1>5, <1>6, <1>7 DEF Next

LEMMA MarkedFirstStep == IInv /\ MarkedFirst /\ [Next]_vars => MarkedFirst'
<1> SUFFICES ASSUME IInv, MarkedFirst, [Next]_vars PROVE MarkedFirst'
  OBVIOUS
<1>i. TypeOK /\ CallsHold /\ InOrder
  BY DEF IInv
<1>d. Parties # {}
  BY DEF Parties, Entries
<1>h. /\ (\E c \in Calls : call[c] \in {"session", "appending"}) => entries # {}
      /\ urls # {} => entries # {}
  BY <1>i, <1>d DEF InOrder, Busy, MarkedFirst, MarkedUrls
<1>r. ASSUME NEW e \in Entries, NEW s, Recorded(e, Waiting(s)) PROVE Recorded(e, Waiting(s))'
  BY <1>r, RecordedStays DEF Recorded, Waiting
<1>e. entries # {} => entries' = entries /\ entries \subseteq Entries
  BY EntriesStay
<1>u. ASSUME UNCHANGED urls PROVE MarkedUrls'
  BY <1>e, <1>h, <1>r, <1>u DEF MarkedFirst, MarkedUrls
<1>c. ASSUME NEW c \in Calls, call[c] = "appending", at'[c] = at[c], todo'[c] = todo[c]
      PROVE  MarkedBy(c)'
  BY <1>c, <1>e, <1>h, <1>r DEF MarkedFirst, MarkedBy, Waiting
<1>a. ASSUME UNCHANGED urls,
             \A c \in Calls : call'[c] = "appending" =>
               call[c] = "appending" /\ at'[c] = at[c] /\ todo'[c] = todo[c]
      PROVE  MarkedFirst'
  BY <1>a, <1>c, <1>u DEF MarkedFirst
<1> USE DEF ledger, calls, provider, jobs
<1>1. ASSUME SendDraft \/ StartPayment \/ OthersWait \/ Select \/ UNCHANGED vars PROVE MarkedFirst'
  BY <1>1, <1>a DEF SendDraft, StartPayment, OthersWait, Select, vars
<1>2. ASSUME NEW c \in Calls,
             \/ VerifyMethod(c) \/ MethodRejected(c) \/ Claim(c) \/ Confirm(c) \/ Abandon(c)
             \/ CreateSession(c) \/ Charge(c) \/ MarkCompleted(c) \/ AppendDenied(c)
      PROVE  MarkedFirst'
  <2>1. UNCHANGED <<urls, todo>>
    BY <1>2 DEF VerifyMethod, MethodRejected, Claim, Confirm, Abandon,
                CreateSession, Charge, MarkCompleted, AppendDenied
  <2>2. PICK w \in {"done", "verified", "claimed", "accepted", "session", "paid", "declined"} :
          Goto(c, w)
    BY <1>2 DEF VerifyMethod, MethodRejected, Claim, Confirm, Abandon,
                CreateSession, Charge, MarkCompleted, AppendDenied
  <2>3. \A d \in Calls : d # c => at'[d] = at[d]
    BY <1>i, <1>2 DEF VerifyMethod, MethodRejected, Claim, Confirm, Abandon,
                CreateSession, Charge, MarkCompleted, AppendDenied, TypeOK
  <2>4. \A d \in Calls : call'[d] = "appending" => d # c /\ call[d] = "appending"
    BY <1>i, <2>2 DEF Goto, TypeOK
  <2> QED BY <1>a, <2>1, <2>3, <2>4
<1>3. ASSUME NEW c \in Calls, OpenRail(c) PROVE MarkedFirst'
  <2>1. /\ UNCHANGED <<urls, at, entries>> /\ todo' = [todo EXCEPT ![c] = entries]
        /\ call' = [call EXCEPT ![c] = "appending"]
    BY <1>3 DEF OpenRail, Goto
  <2>2. ASSUME NEW d \in Calls, call'[d] = "appending"
        PROVE  MarkedBy(d)'
    <3>1. CASE d = c
      BY <1>i, <2>1, <3>1 DEF TypeOK, MarkedBy
    <3>2. CASE d # c
      <4>1. call[d] = "appending" /\ todo'[d] = todo[d]
        BY <1>i, <2>1, <2>2, <3>2 DEF TypeOK
      <4> QED BY <1>c, <2>1, <4>1
    <3> QED BY <3>1, <3>2
  <2> QED BY <1>u, <2>1, <2>2 DEF MarkedFirst
<1>4. ASSUME NEW c \in Calls, NEW f \in Entries, AppendWaiting(c, f) PROVE MarkedFirst'
  <2>1. /\ UNCHANGED <<urls, at, call, entries>> /\ todo' = [todo EXCEPT ![c] = @ \ {f}]
        /\ call[c] = "appending"
        /\ outcomes' = IF Recorded(f, Waiting(at[c])) THEN outcomes
                       ELSE [outcomes EXCEPT ![f] = Append(@, Waiting(at[c]))]
    BY <1>4 DEF AppendWaiting
  <2>2. Recorded(f, Waiting(at[c]))'
    <3>1. CASE Recorded(f, Waiting(at[c]))
      BY <1>r, <2>1, <3>1 DEF Recorded, Waiting
    <3>2. CASE ~Recorded(f, Waiting(at[c]))
      <4>1. outcomes[f] \in Seq(Outcome) /\ Waiting(at[c]) \in Outcome
        BY <1>i, <2>1, Outcomes DEF TypeOK, CallsHold
      <4>2. outcomes'[f] = Append(outcomes[f], Waiting(at[c]))
        BY <1>i, <2>1, <3>2 DEF TypeOK
      <4> QED BY <2>1, <4>1, <4>2, AppendRecords DEF Recorded, Waiting
    <3> QED BY <3>1, <3>2
  <2>3. ASSUME NEW d \in Calls, call'[d] = "appending"
        PROVE  MarkedBy(d)'
    <3>1. CASE d = c
      <4>2. todo'[c] = todo[c] \ {f} /\ todo[c] \subseteq entries
        BY <1>i, <2>1 DEF TypeOK, MarkedFirst, MarkedBy
      <4> SUFFICES ASSUME NEW e \in entries \ todo'[c], e # f PROVE Recorded(e, Waiting(at[c]))'
        BY <2>1, <2>2, <3>1, <4>2 DEF Recorded, Waiting, MarkedBy
      <4>1. e \in entries \ todo[c] /\ e \in Entries
        BY <1>e, <1>i, <2>1 DEF TypeOK
      <4> QED BY <1>r, <2>1, <4>1 DEF MarkedFirst, MarkedBy
    <3>2. CASE d # c
      <4>1. call[d] = "appending" /\ todo'[d] = todo[d] /\ at'[d] = at[d]
        BY <1>i, <2>1, <2>3, <3>2 DEF TypeOK
      <4> QED BY <1>c, <4>1
    <3> QED BY <3>1, <3>2
  <2> QED BY <1>u, <2>1, <2>3 DEF MarkedFirst
<1>5. ASSUME NEW c \in Calls, ReplyUrl(c) PROVE MarkedFirst'
  <2>1. /\ UNCHANGED <<at, todo, entries, outcomes>> /\ urls' = urls \cup {at[c]}
        /\ call[c] = "appending" /\ todo[c] = {} /\ call' = [call EXCEPT ![c] = "done"]
    BY <1>5 DEF ReplyUrl, Goto
  <2>2. \A e \in entries : Recorded(e, Waiting(at[c]))
    BY <2>1 DEF MarkedFirst, MarkedBy
  <2>3. \A d \in Calls : call'[d] = "appending" => call[d] = "appending"
    BY <1>i, <2>1 DEF TypeOK
  <2>4. MarkedUrls'
    BY <1>h, <2>1, <2>2 DEF MarkedFirst, MarkedUrls, Recorded, Waiting
  <2> QED BY <1>c, <2>1, <2>3, <2>4 DEF MarkedFirst
<1>7. ASSUME \/ \E s \in Sessions : PayerPays(s) \/ Deliver(s) \/ LoseEvent(s)
                                    \/ Reconcile(s) \/ Skip(s)
             \/ \E i \in Intents : PayerAuthenticates(i)
             \/ \E k \in {"checkout", "saved"} : ForgetKey(k)
      PROVE  MarkedFirst'
  BY <1>7, <1>a DEF PayerPays, Deliver, LoseEvent, Reconcile, Skip, PayerAuthenticates, ForgetKey
<1> QED BY <1>1, <1>2, <1>3, <1>4, <1>5, <1>7 DEF Next, CallSteps

LEMMA PaidByUrlStep == IInv /\ PaidByUrl /\ [Next]_vars => PaidByUrl'
<1> SUFFICES ASSUME IInv, PaidByUrl, [Next]_vars PROVE PaidByUrl'
  OBVIOUS
<1>i. TypeOK
  BY DEF IInv
<1> USE DEF ledger, calls, provider, jobs
<1>a. ASSUME urls \subseteq urls', \A s \in Sessions : stripe'[s] = "paid" => stripe[s] = "paid"
      PROVE  PaidByUrl'
  BY <1>a DEF PaidByUrl
<1>1. ASSUME NEW c \in Calls, CreateSession(c) \/ Charge(c) PROVE PaidByUrl'
  <2>1. UNCHANGED urls
    BY <1>1 DEF CreateSession, Charge
  <2>2. ASSUME CreateSession(c)
        PROVE  \A s \in Sessions : stripe'[s] = "paid" => stripe[s] = "paid"
    BY <1>i, <2>2 DEF CreateSession, TypeOK, Charges
  <2>3. ASSUME Charge(c)
        PROVE  \A s \in Sessions : stripe'[s] = "paid" => stripe[s] = "paid"
    BY <1>i, <2>3, DisjointAssumption DEF Charge, TypeOK, Charges
  <2> QED BY <1>1, <1>a, <2>1, <2>2, <2>3
<1>2. ASSUME NEW c \in Calls, CallSteps(c), ~CreateSession(c), ~Charge(c) PROVE PaidByUrl'
  <2>1. UNCHANGED stripe /\ urls \subseteq urls'
    BY <1>2 DEF CallSteps, VerifyMethod, MethodRejected, Claim, Confirm, OpenRail, AppendWaiting,
                ReplyUrl, MarkCompleted, AppendDenied, Abandon
  <2> QED BY <1>a, <2>1
<1>3. ASSUME NEW s \in Sessions, PayerPays(s) PROVE PaidByUrl'
  BY <1>i, <1>3 DEF PayerPays, PaidByUrl, TypeOK, Charges
<1>4. ASSUME NEW i \in Intents, PayerAuthenticates(i) PROVE PaidByUrl'
  BY <1>i, <1>4, DisjointAssumption DEF PayerAuthenticates, PaidByUrl, TypeOK, Charges
<1>5. ASSUME \/ SendDraft \/ StartPayment \/ OthersWait \/ Select \/ UNCHANGED vars
             \/ \E s \in Sessions : Deliver(s) \/ LoseEvent(s) \/ Reconcile(s) \/ Skip(s)
             \/ \E k \in {"checkout", "saved"} : ForgetKey(k)
      PROVE  UNCHANGED <<stripe, urls>>
  BY <1>5 DEF SendDraft, StartPayment, OthersWait, Select, vars, Deliver, LoseEvent, Reconcile,
              Skip, ForgetKey
<1> QED BY <1>1, <1>2, <1>3, <1>4, <1>5, <1>a DEF Next

\* Whatever appends to an entry, a mark of session s comes only to an entry that is not
\* completed for s.
LEMMA MarksFresh ==
  ASSUME IInv, MarkedFirst, PaidByUrl, [Next]_vars, NEW e \in Entries, NEW s \in Sessions,
         outcomes'[e] = Append(outcomes[e], Waiting(s))
  PROVE  ~Recorded(e, Paid(s))
<1>i. TypeOK /\ CallsHold /\ InOrder /\ NoSettlementWithoutMoney
  BY DEF IInv
<1>o. /\ outcomes[e] \in Seq(Outcome) /\ Waiting(s) \in Outcome
      /\ outcomes'[e] # outcomes[e]
      /\ \A o \in Outcome : outcomes'[e] = Append(outcomes[e], o) => o = Waiting(s)
  <2>1. outcomes[e] \in Seq(Outcome) /\ Waiting(s) \in Outcome
    BY <1>i, Outcomes DEF TypeOK
  <2>2. Len(outcomes'[e]) = Len(outcomes[e]) + 1 /\ Len(outcomes[e]) \in Nat
        /\ outcomes'[e][Len(outcomes[e]) + 1] = Waiting(s)
    BY <2>1
  <2>3. ASSUME NEW o \in Outcome, outcomes'[e] = Append(outcomes[e], o)
        PROVE  o = Waiting(s)
    <3>1. outcomes'[e][Len(outcomes[e]) + 1] = o
      BY <2>1, <2>3
    <3> QED BY <2>2, <3>1
  <2> QED BY <2>1, <2>2, <2>3
<1>1. ASSUME NEW x \in Charges, Settle(x) PROVE FALSE
  <2>1. outcomes'[e] = outcomes[e] \/ outcomes'[e] = Append(outcomes[e], Paid(x))
    BY <1>1 DEF Settle, SettledBy, ledger
  <2> QED BY <1>o, <2>1, Outcomes
<1>2. ASSUME NEW c \in Calls, AppendDenied(c) PROVE FALSE
  <2>1. outcomes'[e] = outcomes[e] \/ outcomes'[e] = Append(outcomes[e], Declined)
    BY <1>2 DEF AppendDenied
  <2>2. Declined # Waiting(s)
    BY DEF Declined, Waiting
  <2> QED BY <1>o, <2>1, <2>2, Outcomes
<1>3. ASSUME NEW c \in Calls, NEW f \in Entries, AppendWaiting(c, f)
      PROVE  ~Recorded(e, Paid(s))
  <2>1. /\ call[c] = "appending" /\ f \in todo[c] /\ f = e
        /\ ~Recorded(e, Waiting(at[c])) /\ at[c] \in Sessions
        /\ outcomes'[e] = Append(outcomes[e], Waiting(at[c]))
    BY <1>3, <1>i, <1>o DEF AppendWaiting, TypeOK, CallsHold
  <2>2. at[c] = s
    BY <1>o, <2>1, Outcomes DEF Waiting
  <2>3. e \in entries
    BY <2>1 DEF MarkedFirst, MarkedBy
  <2>4. s \notin urls
    BY <2>1, <2>2, <2>3 DEF MarkedFirst, MarkedUrls
  <2>5. stripe[s] # "paid" /\ s \in Charges
    BY <2>4 DEF PaidByUrl, Charges
  <2> QED BY <1>i, <2>5 DEF NoSettlementWithoutMoney, Collected
<1>4. ASSUME UNCHANGED outcomes PROVE FALSE
  BY <1>4, <1>o
<1>5. ASSUME NEW c \in Calls, MarkCompleted(c) PROVE FALSE
  BY <1>i, <1>1, <1>5 DEF MarkCompleted, CallsHold, Charges
<1>6. ASSUME NEW c \in Calls,
             \/ VerifyMethod(c) \/ MethodRejected(c) \/ Claim(c) \/ Confirm(c)
             \/ CreateSession(c) \/ OpenRail(c) \/ ReplyUrl(c) \/ Charge(c) \/ Abandon(c)
      PROVE  UNCHANGED outcomes
  BY <1>6 DEF VerifyMethod, MethodRejected, Claim, Confirm, CreateSession, OpenRail, ReplyUrl,
              Charge, Abandon, ledger
<1>7. ASSUME NEW x \in Sessions, Deliver(x) \/ Reconcile(x) PROVE FALSE
  BY <1>1, <1>4, <1>7 DEF Deliver, Reconcile, Charges, ledger
<1>8. ASSUME \/ SendDraft \/ StartPayment \/ OthersWait \/ Select \/ UNCHANGED vars
             \/ \E x \in Sessions : PayerPays(x) \/ LoseEvent(x) \/ Skip(x)
             \/ \E i \in Intents : PayerAuthenticates(i)
             \/ \E k \in {"checkout", "saved"} : ForgetKey(k)
      PROVE  UNCHANGED outcomes
  BY <1>8 DEF SendDraft, StartPayment, OthersWait, Select, vars, PayerPays, LoseEvent, Skip,
              PayerAuthenticates, ForgetKey, ledger
<1> QED BY <1>2, <1>3, <1>4, <1>5, <1>6, <1>7, <1>8 DEF Next, CallSteps

LEMMA NeverWaitsStep ==
  IInv /\ MarkedFirst /\ PaidByUrl /\ NeverWaitsAgain /\ [Next]_vars => NeverWaitsAgain'
<1> SUFFICES ASSUME IInv, MarkedFirst, PaidByUrl, NeverWaitsAgain, [Next]_vars,
                    NEW e \in Entries, NEW s \in Sessions,
                    NEW i \in 1..Len(outcomes'[e]), NEW j \in 1..Len(outcomes'[e]),
                    outcomes'[e][i] = Paid(s), outcomes'[e][j] = Waiting(s)
             PROVE  j < i
  BY DEF NeverWaitsAgain
<1>1. CASE outcomes'[e] = outcomes[e]
  BY <1>1 DEF NeverWaitsAgain
<1>2. ASSUME NEW o \in Outcome, outcomes'[e] = Append(outcomes[e], o) PROVE j < i
  <2> DEFINE n == Len(outcomes[e])
  <2>1. /\ n \in Nat /\ Len(outcomes'[e]) = n + 1
        /\ \A k \in 1..n : outcomes'[e][k] = outcomes[e][k]
        /\ outcomes'[e][n + 1] = o
    <3>1. outcomes[e] \in Seq(Outcome)
      BY DEF IInv, TypeOK
    <3> QED BY <1>2, <3>1
  <2>2. CASE i \in 1..n /\ j \in 1..n
    BY <2>1, <2>2 DEF NeverWaitsAgain
  <2>3. CASE i = n + 1 /\ j \in 1..n
    BY <2>1, <2>3
  <2>4. CASE j = n + 1
    <3>1. o = Waiting(s)
      BY <2>1, <2>4
    <3>2. ~Recorded(e, Paid(s))
      BY <1>2, <3>1, MarksFresh
    <3>3. i = n + 1
      BY <2>1, <3>2 DEF Recorded
    <3> QED BY <2>1, <2>4, <3>3, Outcomes
  <2> QED BY <2>1, <2>2, <2>3, <2>4
<1> QED BY <1>1, <1>2, OutcomesGrow

\* However late a checkout call marks an entry, it never takes an entry back to waiting
\* for the session it was paid with; this needs no assumption on keys or saved methods.
THEOREM WaitsBeforePaid == Spec => []NeverWaitsAgain
<1> DEFINE Inv == MarkedFirst /\ PaidByUrl /\ NeverWaitsAgain
<1>1. Init => Inv
  BY DEF Init, MarkedFirst, MarkedUrls, PaidByUrl, NeverWaitsAgain, Charges
<1>2. IInv /\ Inv /\ [Next]_vars => Inv'
  BY MarkedFirstStep, PaidByUrlStep, NeverWaitsStep
<1>3. Inv => NeverWaitsAgain
  OBVIOUS
<1> HIDE DEF Inv
<1> QED BY <1>1, <1>2, <1>3, Invariance, PTL DEF Spec
=============================================================================
