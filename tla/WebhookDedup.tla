---------------------------- MODULE WebhookDedup ----------------------------
(***************************************************************************)
(* Stripe webhook deliveries.  Stripe sends an event until one delivery of *)
(* it is answered 200, and may send it twice at once.  A delivery claims   *)
(* the event by inserting its stripe_webhook_event row, or takes over the  *)
(* claim of a run that FAILED or that has been PROCESSING for 15 minutes;  *)
(* then it runs the handler and marks the row PROCESSED or FAILED,         *)
(* provided the row still carries its claim token.                         *)
(*                                                                         *)
(* A handler is a sequence of transactions (a dispute row, a reversal, an  *)
(* outcome per ledger entry), each of which inserts rows under keys built  *)
(* from Stripe's object ids, and may stop after any of them.  When it runs *)
(* again, a transaction whose rows are there finds them, or has their      *)
(* unique violation swallowed, and goes on; except that the violation      *)
(* aborts a transaction with a statement behind it.  The Identity events   *)
(* go another way: one transaction inserts the row and applies the change. *)
(*                                                                         *)
(* The 200 is sent after the commit it reports: the reply, or the process, *)
(* can be lost in between.                                                 *)
(***************************************************************************)
EXTENDS Naturals, FiniteSets

CONSTANTS Events,      \* Stripe event ids
          Managed,     \* those of Stripe Identity
          Deliveries,  \* HTTP requests being served; each claim's token is its delivery
          Steps,       \* bound: how many transactions a handler runs
          None         \* no event, no token

ASSUME ManagedAssumption == Managed \subseteq Events
ASSUME StepsAssumption   == Steps \in Nat \ {0}
ASSUME NoneAssumption    == None \notin Events \cup Deliveries

VARIABLES
  unrepeatable, \* the events that are refund updates of two ledger entries: one
                \* transaction, which PostgreSQL aborts when it meets its own rows
                \* (fixed; a variable so that every choice is an initial state)
  row,      \* status of each event's stripe_webhook_event row
  token,    \* its claimToken
  stale,    \* its processingStartedAt is 15 minutes old
  applied,  \* the transactions of each event's handler that have left their rows
  acked,    \* Stripe was answered 200
  pc, ev,   \* where a delivery is, and the event it carries
  overdue,  \* when it arrived the row's claim was stale, and it is the same claim still
  step,     \* handler transactions behind it
  expired   \* it claimed the event 15 minutes ago or more

effect   == <<applied, unrepeatable>>
claim    == <<row, token, stale>>
delivery == <<pc, ev, overdue, step, expired>>
vars     == <<claim, effect, acked, delivery>>

Live == {"handling", "marking", "failing"}
PCs  == {"idle", "claiming", "looking", "reclaiming", "replying"} \cup Live

\* A definition marked Fault is a bug planted in place of the one that follows it.
\* Fault: any row means the event was accepted (insert first, 200 on P2002).
AnyRowIsDuplicate(e) == row[e] # "absent"

\* Fault: a row found there is never taken for a duplicate.
NeverDuplicate(e) == FALSE

Duplicate(e) == row[e] = "PROCESSED"

\* Fault: a claim in progress is taken over whatever its age.
ReclaimableAnytime(d) == row[ev[d]] \in {"FAILED", "PROCESSING"}

Reclaimable(d) == \/ row[ev[d]] = "FAILED"
                  \/ row[ev[d]] = "PROCESSING" /\ overdue[d]

\* Fault: the marks match the token alone.
HoldsByToken(d) == token[ev[d]] = d

\* where: { eventId, status: PROCESSING, claimToken }
Holds(d) == row[ev[d]] = "PROCESSING" /\ token[ev[d]] = d

Last(e)     == IF e \in unrepeatable THEN 1 ELSE Steps
Complete(e) == \A s \in 1..Last(e) : s \in applied[e]

\* The transaction d runs next meets its own rows and cannot go on: the violation is
\* caught (createOutcomeIdempotent) but PostgreSQL refuses the next statement.
Aborts(d) == ev[d] \in unrepeatable /\ step[d] + 1 \in applied[ev[d]]

\* It commits: its rows are there now, or they were and it has added none.
Commit(d) ==
  /\ applied' = [applied EXCEPT ![ev[d]] = @ \cup {step[d] + 1}]
  /\ UNCHANGED unrepeatable

Goto(d, where) == pc' = [pc EXCEPT ![d] = where]

Leave(d, where) ==
  /\ Goto(d, where)
  /\ overdue' = [overdue EXCEPT ![d] = FALSE]
  /\ step' = [step EXCEPT ![d] = 0]
  /\ expired' = [expired EXCEPT ![d] = FALSE]

Forget(d) == Leave(d, "idle") /\ ev' = [ev EXCEPT ![d] = None]

\* The response: 200, still to be sent, or a 503 or 500 that makes Stripe send the
\* event again.
Answer(d) == Leave(d, "replying") /\ UNCHANGED <<ev, acked>>
Nack(d)   == Forget(d) /\ UNCHANGED acked

\* The row now carries d's token and the present time.
TakeClaim(d) ==
  /\ row' = [row EXCEPT ![ev[d]] = "PROCESSING"]
  /\ token' = [token EXCEPT ![ev[d]] = d]
  /\ stale' = [stale EXCEPT ![ev[d]] = FALSE]
  /\ overdue' = [q \in Deliveries |-> overdue[q] /\ ev[q] # ev[d]]
  /\ Goto(d, "handling")
  /\ UNCHANGED <<ev, step, expired>>

-----------------------------------------------------------------------------
Init ==
  /\ unrepeatable \in SUBSET (Events \ Managed)
  /\ row = [e \in Events |-> "absent"]
  /\ token = [e \in Events |-> None]
  /\ stale = [e \in Events |-> FALSE]
  /\ applied = [e \in Events |-> {}]
  /\ acked = [e \in Events |-> FALSE]
  /\ pc = [d \in Deliveries |-> "idle"]
  /\ ev = [d \in Deliveries |-> None]
  /\ overdue = [d \in Deliveries |-> FALSE]
  /\ step = [d \in Deliveries |-> 0]
  /\ expired = [d \in Deliveries |-> FALSE]

\* Stripe sends the event; claim() reads the clock before anything else.
Arrive(d, e) ==
  /\ pc[d] = "idle"
  /\ Goto(d, "claiming")
  /\ ev' = [ev EXCEPT ![d] = e]
  /\ overdue' = [overdue EXCEPT ![d] = row[e] = "PROCESSING" /\ stale[e]]
  /\ UNCHANGED <<claim, effect, acked, step, expired>>

\* tryCreateProcessingClaim: the insert, or a unique violation.
Create(d) ==
  /\ pc[d] = "claiming" /\ ev[d] \notin Managed
  /\ \/ row[ev[d]] = "absent" /\ TakeClaim(d)
     \/ /\ row[ev[d]] # "absent"
        /\ Goto(d, "looking")
        /\ UNCHANGED <<claim, ev, overdue, step, expired>>
  /\ UNCHANGED <<effect, acked>>

\* findProcessingState: a duplicate is answered 200, a claim in progress 503.
Look(d) ==
  /\ pc[d] = "looking"
  /\ \/ Duplicate(ev[d]) /\ Answer(d)
     \/ /\ ~Duplicate(ev[d])
        /\ row[ev[d]] = "PROCESSING" /\ ~overdue[d]
        /\ Nack(d)
     \/ /\ ~Duplicate(ev[d])
        /\ row[ev[d]] # "PROCESSING" \/ overdue[d]
        /\ Goto(d, "reclaiming")
        /\ UNCHANGED <<acked, ev, overdue, step, expired>>
  /\ UNCHANGED <<claim, effect>>

\* tryReclaimProcessingClaim: the conditional update decides again.
Reclaim(d) ==
  /\ pc[d] = "reclaiming"
  /\ \/ Reclaimable(d) /\ TakeClaim(d) /\ UNCHANGED acked
     \/ ~Reclaimable(d) /\ Nack(d) /\ UNCHANGED claim
  /\ UNCHANGED effect

\* An exception outside the processor's try: a 500 and nothing else.
ClaimThrows(d) ==
  /\ pc[d] \in {"claiming", "looking", "reclaiming"}
  /\ Nack(d)
  /\ UNCHANGED <<claim, effect>>

\* The Identity events: the row and the change commit together; the answer to the
\* commit may be lost, and the exception is a 500.
ManagedCommit(d) ==
  /\ pc[d] = "claiming" /\ ev[d] \in Managed
  /\ row[ev[d]] = "absent"
  /\ row' = [row EXCEPT ![ev[d]] = "PROCESSED"]
  /\ applied' = [applied EXCEPT ![ev[d]] = 1..Steps]
  /\ Answer(d) \/ Nack(d)
  /\ UNCHANGED <<unrepeatable, token, stale>>

ManagedDuplicate(d) ==
  /\ pc[d] = "claiming" /\ ev[d] \in Managed
  /\ row[ev[d]] # "absent"
  /\ Answer(d)
  /\ UNCHANGED <<claim, effect>>

\* One transaction of the handler commits, or finds its rows there.
HandlerStep(d) ==
  /\ pc[d] = "handling" /\ ~Aborts(d)
  /\ Commit(d)
  /\ step' = [step EXCEPT ![d] = @ + 1]
  /\ Goto(d, IF step[d] + 1 = Last(ev[d]) THEN "marking" ELSE "handling")
  /\ UNCHANGED <<claim, acked, ev, overdue, expired>>

\* The handler throws: before a transaction, in one that is aborted by the rows it
\* meets, or after one it saw no answer to.
HandlerThrows(d) ==
  /\ pc[d] = "handling"
  /\ \/ UNCHANGED effect
     \/ ~Aborts(d) /\ Commit(d)
  /\ Goto(d, "failing")
  /\ UNCHANGED <<claim, acked, ev, overdue, step, expired>>

\* updateMany under the token; how many rows it changed is not looked at.
Mark(d, status) ==
  row' = IF Holds(d) THEN [row EXCEPT ![ev[d]] = status] ELSE row

MarkProcessed(d) ==
  /\ pc[d] = "marking"
  /\ Mark(d, "PROCESSED")
  /\ Answer(d)
  /\ UNCHANGED <<token, stale, effect>>

\* It throws inside the try, with or without having had its effect: the event that
\* was handled is to be marked FAILED.
MarkProcessedThrows(d) ==
  /\ pc[d] = "marking"
  /\ Mark(d, "PROCESSED") \/ UNCHANGED row
  /\ Goto(d, "failing")
  /\ UNCHANGED <<token, stale, effect, acked, ev, overdue, step, expired>>

MarkFailed(d) ==
  /\ pc[d] = "failing"
  /\ Mark(d, "FAILED") \/ UNCHANGED row
  /\ Nack(d)
  /\ UNCHANGED <<token, stale, effect>>

\* The 200 reaches Stripe.
Reply(d) ==
  /\ pc[d] = "replying"
  /\ acked' = [acked EXCEPT ![ev[d]] = TRUE]
  /\ Forget(d)
  /\ UNCHANGED <<claim, effect>>

\* The instance dies or the connection is cut: Stripe sees no answer, also when all
\* was done and the 200 was on its way.
Crash(d) ==
  /\ pc[d] # "idle"
  /\ Nack(d)
  /\ UNCHANGED <<claim, effect>>

\* Fifteen minutes pass since the row was claimed.
Age(e) ==
  /\ row[e] = "PROCESSING" /\ ~stale[e]
  /\ stale' = [stale EXCEPT ![e] = TRUE]
  /\ expired' = [d \in Deliveries |->
                   expired[d] \/ (token[e] = d /\ ev[d] = e /\ pc[d] \in Live)]
  /\ UNCHANGED <<row, token, effect, acked, pc, ev, overdue, step>>

Serve(d) == \/ Create(d) \/ Look(d) \/ Reclaim(d) \/ ClaimThrows(d)
            \/ ManagedCommit(d) \/ ManagedDuplicate(d)
            \/ HandlerStep(d) \/ HandlerThrows(d)
            \/ MarkProcessed(d) \/ MarkProcessedThrows(d) \/ MarkFailed(d)
            \/ Reply(d)

Next == \/ \E d \in Deliveries : Serve(d) \/ Crash(d) \/ \E e \in Events : Arrive(d, e)
        \/ \E e \in Events : Age(e)

Spec == Init /\ [][Next]_vars

\* Requests run on, time passes, Stripe sends again what was not acknowledged, and no
\* action on an event fails every time it is tried: a transaction that its own rows
\* abort is not enabled, so nothing is assumed of it.
Sent(e)      == ~acked[e] /\ \E d \in Deliveries : Arrive(d, e)
StepOf(e, s) == \E d \in Deliveries : ev[d] = e /\ step[d] = s /\ HandlerStep(d)
FairSpec ==
  /\ Spec
  /\ \A d \in Deliveries : WF_vars(Serve(d))
  /\ \A e \in Events :
       /\ SF_vars(Sent(e))
       /\ SF_vars(\E d \in Deliveries : ev[d] = e /\ Reply(d))
  /\ \A e \in Managed :
       SF_vars(\E d \in Deliveries : ev[d] = e /\ (ManagedCommit(d) \/ ManagedDuplicate(d)))
  /\ \A e \in Events \ Managed :
       /\ WF_vars(Age(e))
       /\ SF_vars(\E d \in Deliveries : ev[d] = e /\ Create(d))
       /\ SF_vars(\E d \in Deliveries : ev[d] = e /\ Look(d))
       /\ SF_vars(\E d \in Deliveries : ev[d] = e /\ Reclaim(d))
       /\ \A s \in 0..(Steps - 1) : SF_vars(StepOf(e, s))
       /\ SF_vars(\E d \in Deliveries : ev[d] = e /\ MarkProcessed(d))

-----------------------------------------------------------------------------
TypeOK ==
  /\ unrepeatable \in SUBSET (Events \ Managed)
  /\ row \in [Events -> {"absent", "PROCESSING", "PROCESSED", "FAILED"}]
  /\ token \in [Events -> Deliveries \cup {None}]
  /\ stale \in [Events -> BOOLEAN]
  /\ applied \in [Events -> SUBSET (1..Steps)]
  /\ acked \in [Events -> BOOLEAN]
  /\ pc \in [Deliveries -> PCs]
  /\ ev \in [Deliveries -> Events \cup {None}]
  /\ overdue \in [Deliveries -> BOOLEAN]
  /\ step \in [Deliveries -> 0..Steps]
  /\ expired \in [Deliveries -> BOOLEAN]
  /\ \A d \in Deliveries : pc[d] = "idle" <=> ev[d] = None

\* An event Stripe was told to forget has had its whole effect: no crash, no
\* failed mark and no overlap of deliveries loses a payment, a refund or a payout.
AckedMeansApplied == \A e \in Events : acked[e] => Complete(e)

\* Two handlers of one event run at once only when one of them has outlived the
\* 15 minutes after which its claim may be taken over.
Expired(d) == expired[d]
OneLiveHandler ==
  \A d, q \in Deliveries :
    /\ d # q /\ ev[d] = ev[q]
    /\ pc[d] \in Live /\ pc[q] \in Live
    => Expired(d) \/ Expired(q)

\* A processed event stays processed: neither a run that was overtaken nor one whose
\* mark PROCESSED took effect unseen reopens it by marking it FAILED, and no delivery
\* claims it again.
ProcessedIsFinal ==
  [][\A e \in Events : row[e] = "PROCESSED" => row'[e] = "PROCESSED"]_vars

\* Every event Stripe sends has its whole effect in the end and is acknowledged, also
\* when the 200 of the run that did it, or its mark, is lost.  A refund update of two
\* entries is not: once its mark is lost every further run of it aborts.
EventAcknowledged ==
  \A e \in Events : <>(Complete(e) /\ (acked[e] \/ e \in unrepeatable))

\* The inductive invariant: a processed row was handled completely, a delivery has
\* behind it what its step counts, and a handler in time holds the event's claim, or
\* its mark PROCESSED took effect unseen.
ProcessedComplete == \A e \in Events : row[e] = "PROCESSED" => Complete(e)
ManagedRows == \A e \in Managed : row[e] \in {"absent", "PROCESSED"}
StepsBehind ==
  \A d \in Deliveries :
    /\ pc[d] \in {"handling", "marking"} => \A s \in 1..step[d] : s \in applied[ev[d]]
    /\ pc[d] = "handling" => step[d] < Last(ev[d])
    /\ pc[d] = "marking" => step[d] = Last(ev[d])
    /\ pc[d] = "replying" => Complete(ev[d])
    /\ pc[d] \in PCs \ Live => step[d] = 0 /\ ~expired[d]
    /\ pc[d] \in {"looking", "reclaiming"} => row[ev[d]] # "absent"
    /\ pc[d] \in {"looking", "reclaiming"} \cup Live => ev[d] \notin Managed
HolderInTime ==
  \A d \in Deliveries :
    pc[d] \in Live /\ ~expired[d] =>
      /\ token[ev[d]] = d
      /\ \/ row[ev[d]] = "PROCESSING" /\ ~stale[ev[d]]
         \/ row[ev[d]] = "PROCESSED" /\ pc[d] = "failing"
OverdueIsStale ==
  \A d \in Deliveries :
    overdue[d] => pc[d] # "idle" /\ (row[ev[d]] = "PROCESSING" => stale[ev[d]])

Inv == /\ TypeOK /\ ProcessedComplete /\ ManagedRows /\ StepsBehind /\ HolderInTime
       /\ OverdueIsStale /\ AckedMeansApplied /\ OneLiveHandler
=============================================================================
