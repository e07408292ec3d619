---------------------------- MODULE Verification ----------------------------
(***************************************************************************)
(* The identity verification of one consumer: calls that start it and hand *)
(* out a Stripe session, the events Stripe sends about its sessions, and   *)
(* the decisions of administrators, all of which write one consumer row.   *)
(*                                                                         *)
(* Transactions are READ COMMITTED: an UPDATE checks its WHERE against the *)
(* committed row, and nothing protects what a statement before it read.    *)
(* WebhookDedup models the row of an event; here it is the state of the    *)
(* event: while one delivery has it open every other waits.                *)
(***************************************************************************)
EXTENDS Naturals, FiniteSets

CONSTANTS Sessions,   \* Stripe's verification sessions
          Starts,     \* calls of startVerifyMeStripeSession
          Decisions,  \* calls of applyDecision
          MaxEvents,  \* bound: the events Stripe sends
          None


VARIABLES
  consumer,  \* the row; version stands for updatedAt
  stripe,    \* status of a session at Stripe
  event,     \* the events about a session: none, sent, open in a transaction, done
  replay,    \* the session Stripe made under the key of a prior session
  start,     \* the calls that start: the session read last, the session created
  decision,  \* the decisions: the row as the administrator's page showed it
  handed,    \* sessions whose client secret was given to the consumer
  was,       \* history: sessions that have been the consumer's
  adopted    \* history: an event has made its session the consumer's

atStripe == <<stripe, event, replay>>
history  == <<handed, was, adopted>>
vars     == <<consumer, atStripe, start, decision, history>>

\* closed stands for canceled and redacted, which are handled alike.
Statuses == {"not_started", "pending_submission", "requires_input", "verified", "closed"}
Kinds    == {"verified", "requires_input", "closed"}
Events   == Sessions \X Kinds

\* REJECTED stands for the three reviews that turn a consumer down.
Reviews  == {"PENDING", "APPROVED", "REJECTED"}
Verdicts == {"APPROVED", "REJECTED"}

Rows  == [session : Sessions \cup {None}, status : Statuses, legal : BOOLEAN,
          review : Reviews, version : Nat]
ASSUME NoneIsNothing == None \notin Sessions \cup Rows
ASSUME BoundIsNat == MaxEvents \in Nat

Calls == [at : {"new", "retrieve", "create", "claim", "again", "reuse", "done"},
          read : Sessions \cup {None}, got : Sessions \cup {None}]
Cases == [at : {"new", "page", "checked", "done"}, seen : Rows \cup {None}]

TypeOK ==
  /\ consumer \in Rows
  /\ stripe \in [Sessions -> {"none", "open", "verified", "closed"}]
  /\ event \in [Events -> {"none", "sent", "open", "done"}]
  /\ replay \in [Sessions \cup {None} -> Sessions \cup {None}]
  /\ start \in [Starts -> Calls]
  /\ decision \in [Decisions -> Cases]
  /\ handed \subseteq Sessions /\ was \subseteq Sessions
  /\ adopted \in BOOLEAN
  /\ \A q \in Starts :
       /\ start[q].at \in {"retrieve", "reuse"} => start[q].read # None
       /\ start[q].at \in {"claim", "again", "reuse"} => start[q].got # None
  /\ \A d \in Decisions : decision[d].at \in {"page", "checked"} <=> decision[d].seen # None

\* A consumer who signed up.
Init ==
  /\ consumer = [session |-> None, status |-> "not_started", legal |-> FALSE,
                 review |-> "PENDING", version |-> 0]
  /\ stripe = [s \in Sessions |-> "none"]
  /\ handed = {} /\ was = {} /\ adopted = FALSE
  /\ event = [e \in Events |-> "none"]
  /\ replay = [p \in Sessions \cup {None} |-> None]
  /\ start = [q \in Starts |-> [at |-> "new", read |-> None, got |-> None]]
  /\ decision = [d \in Decisions |-> [at |-> "new", seen |-> None]]

----------------------------------------------------------------------------
\* startVerifyMeStripeSession.

At(q, p)   == start[q].at = p
Goto(q, p) == start' = [start EXCEPT ![q].at = p]
End(q)     == start' = [start EXCEPT ![q] = [at |-> "done", read |-> None, got |-> None]]

\* The answer, or no answer: the reply is lost.
Hand(q, s) == /\ End(q)
              /\ handed' \in {handed, handed \cup {s}}

Reusable == /\ consumer.session # None
            /\ consumer.status \in {"pending_submission", "requires_input"}

Look(q) ==
  /\ At(q, "new")
  /\ start' = [start EXCEPT ![q] = [at   |-> IF Reusable THEN "retrieve" ELSE "create",
                                    read |-> consumer.session, got |-> None]]
  /\ UNCHANGED <<consumer, atStripe, decision, history>>

\* Stripe gives the secret of an open session; an error or no secret goes on.
Retrieve(q) ==
  /\ At(q, "retrieve")
  /\ \/ stripe[start[q].read] = "open" /\ Hand(q, start[q].read)
     \/ Goto(q, "create") /\ UNCHANGED handed
  /\ UNCHANGED <<consumer, atStripe, decision, was, adopted>>

\* Fault: the key is new with every call.
AlwaysNew(p, s) == stripe[s] = "none"
\* What Stripe answers under the key of the prior session p.
Answers(p, s) == IF replay[p] = None THEN stripe[s] = "none" ELSE s = replay[p]

\* verificationSessions.create; the response may be lost.
Create(q) ==
  /\ At(q, "create")
  /\ \E s \in Sessions :
       /\ Answers(start[q].read, s)
       /\ stripe' = [stripe EXCEPT ![s] = IF @ = "none" THEN "open" ELSE @]
       /\ replay' = [replay EXCEPT ![start[q].read] = s]
       /\ \/ start' = [start EXCEPT ![q].at = "claim", ![q].got = s]
          \/ End(q)
  /\ UNCHANGED <<consumer, event, decision, history>>

\* claimStartedSession: the row must still have the session that was read.
Claim(q) ==
  LET s == start[q].got
  IN /\ At(q, "claim")
     /\ IF consumer.session = start[q].read
          THEN /\ consumer' = [consumer EXCEPT !.session = s, !.version = @ + 1,
                                               !.status = "pending_submission"]
               /\ was' = was \cup {s}
               /\ Hand(q, s)
          ELSE Goto(q, "again") /\ UNCHANGED <<consumer, was, handed>>
     /\ UNCHANGED <<atStripe, decision, adopted>>

\* Another call was first: its session is given when it can be reused.
Again(q) ==
  /\ At(q, "again")
  /\ IF Reusable
       THEN /\ start' = [start EXCEPT ![q].at = "reuse", ![q].read = consumer.session]
            /\ UNCHANGED handed
       ELSE Hand(q, start[q].got)
  /\ UNCHANGED <<consumer, atStripe, decision, was, adopted>>

Reuse(q) ==
  /\ At(q, "reuse")
  /\ \/ stripe[start[q].read] = "open" /\ Hand(q, start[q].read)
     \/ Hand(q, start[q].got)
  /\ UNCHANGED <<consumer, atStripe, decision, was, adopted>>

\* The process dies, or Stripe or the database throws.
Abandon(q) ==
  /\ start[q].at \notin {"new", "done"}
  /\ End(q)
  /\ UNCHANGED <<consumer, atStripe, decision, history>>

----------------------------------------------------------------------------
\* Stripe.  The consumer submits documents on a session he was given, more than once
\* when the first are not accepted; an operator cancels or redacts a session.

MaySend == Cardinality({e \in Events : event[e] # "none"}) < MaxEvents

Send(s, k) == event' = [event EXCEPT ![<<s, k>>] = "sent"]

Refuse(s) ==
  /\ MaySend /\ s \in handed /\ stripe[s] = "open" /\ event[<<s, "requires_input">>] = "none"
  /\ Send(s, "requires_input")
  /\ UNCHANGED <<consumer, stripe, replay, start, decision, history>>

Accept(s) ==
  /\ MaySend /\ s \in handed /\ stripe[s] = "open"
  /\ stripe' = [stripe EXCEPT ![s] = "verified"]
  /\ Send(s, "verified")
  /\ UNCHANGED <<consumer, replay, start, decision, history>>

Close(s) ==
  /\ MaySend /\ stripe[s] \in {"open", "verified"}
  /\ stripe' = [stripe EXCEPT ![s] = "closed"]
  /\ Send(s, "closed")
  /\ UNCHANGED <<consumer, replay, start, decision, history>>

\* A day passes; no call lasts that long.
ForgetKey(p) ==
  /\ replay[p] # None
  /\ \A q \in Starts : start[q].at \in {"new", "done"}
  /\ replay' = [replay EXCEPT ![p] = None]
  /\ UNCHANGED <<consumer, stripe, event, start, decision, history>>

----------------------------------------------------------------------------
\* The events, in any order: one transaction inserts the event's row, reads and writes.

Active(s) == consumer.session \in {s, None}

\* What the handler reads before its UPDATE lets the event go on.
Heeded(s, k) ==
  CASE k = "verified"       -> Active(s)
    [] k = "requires_input" -> ~ (consumer.session = s /\ consumer.legal
                                  /\ consumer.status = "verified")
    [] OTHER                -> TRUE

Handle(s, k) ==
  /\ event[<<s, k>>] = "sent"
  /\ event' = [event EXCEPT ![<<s, k>>] = IF Heeded(s, k) THEN "open" ELSE "done"]
  /\ UNCHANGED <<consumer, stripe, replay, start, decision, history>>

\* verified updates the row by its id; the others have the session in their WHERE.
Updates(s, k) == k = "verified" \/ Active(s)

Apply(s, k) ==
  /\ event[<<s, k>>] = "open"
  /\ event' = [event EXCEPT ![<<s, k>>] = "done"]
  /\ IF Updates(s, k)
       THEN /\ consumer' = [consumer EXCEPT !.session = s, !.status = k,
                                            !.legal = (k = "verified"), !.version = @ + 1]
            /\ was' = was \cup {s}
            /\ adopted' = (adopted \/ consumer.session # s)
       ELSE UNCHANGED <<consumer, was, adopted>>
  /\ UNCHANGED <<stripe, replay, start, decision, handed>>

\* Fault: the event's row is committed before the handler runs.
RowStays(s, k) == event' = [event EXCEPT ![<<s, k>>] = "done"]
\* The event's row is rolled back with the rest, and Stripe sends the event again.
RolledBack(s, k) == Send(s, k)

Abort(s, k) ==
  /\ event[<<s, k>>] = "open"
  /\ RolledBack(s, k)
  /\ UNCHANGED <<consumer, stripe, replay, start, decision, history>>

----------------------------------------------------------------------------
\* applyDecision.

Closed(d) == decision' = [decision EXCEPT ![d] = [at |-> "done", seen |-> None]]

\* The administrator opens the case: the page has the row and its version.
OpenCase(d) ==
  /\ decision[d].at = "new"
  /\ decision' = [decision EXCEPT ![d] = [at |-> "page", seen |-> consumer]]
  /\ UNCHANGED <<consumer, atStripe, start, history>>

\* The row is read on a connection of its own, and its version compared.
Check(d) ==
  /\ decision[d].at = "page"
  /\ IF consumer.version = decision[d].seen.version
       THEN decision' = [decision EXCEPT ![d].at = "checked"]
       ELSE Closed(d)
  /\ UNCHANGED <<consumer, atStripe, start, history>>

\* Fault: the UPDATE is by id.
Unguarded(d) == TRUE
\* where: { id, updatedAt }
StillAsRead(d) == consumer.version = decision[d].seen.version

Decide(d) ==
  /\ decision[d].at = "checked"
  /\ \E v \in Verdicts :
       IF StillAsRead(d)
         THEN consumer' = [consumer EXCEPT !.review = v, !.legal = (v = "APPROVED"),
                                           !.version = @ + 1]
         ELSE UNCHANGED consumer
  /\ Closed(d)
  /\ UNCHANGED <<atStripe, start, history>>

DecisionFails(d) ==
  /\ decision[d].at \in {"page", "checked"}
  /\ Closed(d)
  /\ UNCHANGED <<consumer, atStripe, start, history>>

----------------------------------------------------------------------------
Starting  == \E q \in Starts : \/ Look(q) \/ Retrieve(q) \/ Create(q) \/ Claim(q)
                               \/ Again(q) \/ Reuse(q) \/ Abandon(q)
Provider  == \/ \E s \in Sessions : Refuse(s) \/ Accept(s) \/ Close(s)
             \/ \E p \in Sessions \cup {None} : ForgetKey(p)
Webhook   == \E s \in Sessions, k \in Kinds : Handle(s, k) \/ Apply(s, k) \/ Abort(s, k)
Reviewing == \E d \in Decisions : OpenCase(d) \/ Check(d) \/ Decide(d) \/ DecisionFails(d)

Next == Starting \/ Provider \/ Webhook \/ Reviewing

Spec == Init /\ [][Next]_vars

\* Stripe repeats an event for days, and a transaction does not fail every time.
FairSpec == /\ Spec
            /\ \A s \in Sessions, k \in Kinds : WF_vars(Handle(s, k)) /\ SF_vars(Apply(s, k))

----------------------------------------------------------------------------
\* isConsumerVerificationEffective: what the payment limits go by.
Effective == consumer.legal /\ consumer.review # "REJECTED"

\* Starts at once, repeated, retried under a key or cut off: a consumer is only ever
\* given a session that is or was his, so that what he submits on it is heard.  Only an
\* event that makes its own session the consumer's can come in between.
HandedIsHis == adopted \/ handed \subseteq was

\* An administrator decides on the row his page showed: neither an event nor another
\* decision nor a new session has changed it since, however late the request comes.
DecisionsAreInformed ==
  [][\A d \in Decisions :
       decision[d].at = "checked" /\ decision'[d].at = "done" /\ consumer' # consumer
       => consumer = decision[d].seen]_vars

\* A session that Stripe verified makes its consumer verified, unless by then he has
\* another session or an administrator has turned him down: no crash or failed
\* transaction loses the event.
VerifiedCounts ==
  \A s \in Sessions :
    event[<<s, "verified">>] = "sent"
      ~> Effective \/ consumer.session # s \/ consumer.review = "REJECTED"
=============================================================================
