------------------------ MODULE Verification_proofs ------------------------
(***************************************************************************)
(* Verification keeps its types, hands a consumer his own sessions only,   *)
(* and lets an administrator decide on what he saw: for any number of      *)
(* sessions, starts, decisions and events.                                 *)
(***************************************************************************)
EXTENDS Verification, TLAPS

\* The session of the consumer has been his, and so has the one a call is to give.  A
\* call that creates a session has found the key's session his already, or still finds
\* the session it read: the call that replaces it creates under the same key.
Given(q) ==
  LET c == start[q]
  IN /\ c.at \in {"retrieve", "reuse"} => c.read \in was
     /\ c.at \in {"again", "reuse"} => c.got \in was
     /\ c.at \in {"retrieve", "create"} =>
          consumer.session = c.read \/ replay[c.read] \in was
     /\ c.at = "claim" =>
          /\ replay[c.read] = c.got
          /\ consumer.session = c.read \/ c.got \in was

Owned == \/ adopted
         \/ /\ handed \subseteq was
            /\ consumer.session \in was \cup {None}
            /\ \A q \in Starts : Given(q)

\* A page is as old as the row or older, and the same row when it has its version.
Seen(d) == decision[d].seen # None =>
             /\ decision[d].seen.version =< consumer.version
             /\ decision[d].seen.version = consumer.version => decision[d].seen = consumer

Dated == \A d \in Decisions : Seen(d)

----------------------------------------------------------------------------
LEMMA InitType == Init => TypeOK
<1> SUFFICES ASSUME Init PROVE TypeOK
  OBVIOUS
<1>1. /\ consumer \in Rows
      /\ stripe \in [Sessions -> {"none", "open", "verified", "closed"}]
      /\ event \in [Events -> {"none", "sent", "open", "done"}]
      /\ replay \in [Sessions \cup {None} -> Sessions \cup {None}]
      /\ handed \subseteq Sessions /\ was \subseteq Sessions /\ adopted \in BOOLEAN
  BY DEF Init, Rows, Statuses, Reviews
<1>2. start \in [Starts -> Calls] /\ decision \in [Decisions -> Cases]
  BY DEF Init, Calls, Cases
<1> QED BY <1>1, <1>2 DEF Init, TypeOK

\* A call that starts keeps the types.
LEMMA StartingType ==
  ASSUME TypeOK, NEW q \in Starts,
         Look(q) \/ Retrieve(q) \/ Create(q) \/ Claim(q) \/ Again(q) \/ Reuse(q) \/ Abandon(q)
  PROVE  TypeOK'
<1>1. CASE Look(q)
  BY <1>1, NoneIsNothing
     DEF TypeOK, Calls, history, atStripe, At, Goto, End, Hand,
         Look, Reusable, Rows
<1>2. CASE Retrieve(q)
  BY <1>2, NoneIsNothing
     DEF TypeOK, Calls, history, atStripe, At, Goto, End, Hand,
         Retrieve
<1>3. CASE Create(q)
  BY <1>3, NoneIsNothing
     DEF TypeOK, Calls, history, atStripe, At, Goto, End, Hand,
         Create, Answers
<1>4. CASE Claim(q)
  <2>1. start[q].got \in Sessions
    BY <1>4 DEF Claim, At, TypeOK, Calls
  <2>2. consumer' \in Rows
    <3>1. \/ consumer' = consumer
          \/ consumer' = [consumer EXCEPT !.session = start[q].got, !.version = @ + 1,
                                          !.status = "pending_submission"]
      BY <1>4 DEF Claim
    <3>2. [consumer EXCEPT !.session = start[q].got, !.version = @ + 1,
                           !.status = "pending_submission"] \in Rows
      <4>1. consumer.version + 1 \in Nat /\ consumer \in Rows
        BY DEF TypeOK, Rows
      <4>2. "pending_submission" \in Statuses
        BY DEF Statuses
      <4> QED BY <2>1, <4>1, <4>2, ZenonT(60) DEF Rows
    <3> QED BY <3>1, <3>2 DEF TypeOK
  <2> QED BY <1>4, <2>1, <2>2
     DEF TypeOK, Calls, history, atStripe, At, Goto, End, Hand, Claim
<1>5. CASE Again(q)
  BY <1>5, NoneIsNothing
     DEF TypeOK, Calls, history, atStripe, At, Goto, End, Hand,
         Again, Reusable, Rows
<1>6. CASE Reuse(q)
  BY <1>6, NoneIsNothing
     DEF TypeOK, Calls, history, atStripe, At, Goto, End, Hand,
         Reuse
<1>7. CASE Abandon(q)
  BY <1>7, NoneIsNothing
     DEF TypeOK, Calls, history, atStripe, At, Goto, End, Hand,
         Abandon
<1> QED BY <1>1, <1>2, <1>3, <1>4, <1>5, <1>6, <1>7

\* Stripe and the handlers of its events keep the types.
LEMMA EventType ==
  ASSUME TypeOK, NEW s \in Sessions, NEW k \in Kinds,
         \/ Refuse(s) \/ Accept(s) \/ Close(s)
         \/ Handle(s, k) \/ Apply(s, k) \/ Abort(s, k)
  PROVE  TypeOK'
<1>1. CASE Refuse(s) \/ Accept(s) \/ Close(s)
  BY <1>1, NoneIsNothing
     DEF TypeOK, Events, Kinds, history, atStripe, Send, RolledBack,
         Refuse, Accept, Close
<1>2. CASE Handle(s, k) \/ Abort(s, k)
  BY <1>2, NoneIsNothing
     DEF TypeOK, Events, Kinds, history, atStripe, Send, RolledBack,
         Handle, Abort
<1>3. CASE Apply(s, k)
  <2>1. (k = "verified") \in BOOLEAN /\ k \in Statuses
    BY DEF Kinds, Statuses
  <2>2. consumer' \in Rows
    <3>1. \/ consumer' = consumer
          \/ consumer' = [consumer EXCEPT !.session = s, !.status = k,
                                          !.legal = (k = "verified"), !.version = @ + 1]
      BY <1>3 DEF Apply
    <3>2. [consumer EXCEPT !.session = s, !.status = k,
                           !.legal = (k = "verified"), !.version = @ + 1] \in Rows
      <4>1. consumer.version + 1 \in Nat /\ consumer \in Rows
        BY DEF TypeOK, Rows
      <4> QED BY <2>1, <4>1, ZenonT(60) DEF Rows
    <3> QED BY <3>1, <3>2 DEF TypeOK
  <2>3. was' \subseteq Sessions /\ adopted' \in BOOLEAN
    BY <1>3 DEF Apply, TypeOK
  <2>4. event' \in [Events -> {"none", "sent", "open", "done"}]
    BY <1>3 DEF Apply, TypeOK, Events
  <2> QED BY <1>3, <2>2, <2>3, <2>4 DEF Apply, TypeOK
<1> QED BY <1>1, <1>2, <1>3

\* Decisions keep the types.
LEMMA DecisionType ==
  ASSUME TypeOK, NEW d \in Decisions,
         OpenCase(d) \/ Check(d) \/ Decide(d) \/ DecisionFails(d)
  PROVE  TypeOK'
<1>1. CASE OpenCase(d)
  BY <1>1, NoneIsNothing
     DEF TypeOK, Cases, history, atStripe, Closed,
         OpenCase
<1>2. CASE Check(d) \/ DecisionFails(d)
  BY <1>2, NoneIsNothing
     DEF TypeOK, Cases, history, atStripe, Closed,
         Check, DecisionFails
<1>3. CASE Decide(d)
  <2>1. consumer' \in Rows
    <3>1. PICK v \in Verdicts :
            \/ consumer' = consumer
            \/ consumer' = [consumer EXCEPT !.review = v, !.legal = (v = "APPROVED"),
                                            !.version = @ + 1]
      BY <1>3 DEF Decide
    <3>2. (v = "APPROVED") \in BOOLEAN /\ v \in Reviews
      BY DEF Verdicts, Reviews
    <3>3. [consumer EXCEPT !.review = v, !.legal = (v = "APPROVED"),
                           !.version = @ + 1] \in Rows
      <4>1. consumer.version + 1 \in Nat /\ consumer \in Rows
        BY DEF TypeOK, Rows
      <4> QED BY <3>2, <4>1, ZenonT(60) DEF Rows
    <3> QED BY <3>1, <3>3 DEF TypeOK
  <2> QED BY <1>3, <2>1, NoneIsNothing
     DEF Decide, TypeOK, Cases, history, atStripe, Closed
<1> QED BY <1>1, <1>2, <1>3

LEMMA NextType == TypeOK /\ [Next]_vars => TypeOK'
<1> SUFFICES ASSUME TypeOK, [Next]_vars PROVE TypeOK'
  OBVIOUS
<1>1. CASE Next
  <2>1. ASSUME NEW p \in Sessions \cup {None}, ForgetKey(p) PROVE TypeOK'
    BY <2>1 DEF TypeOK, ForgetKey, history
  <2>2. ASSUME NEW s \in Sessions, Refuse(s) \/ Accept(s) \/ Close(s) PROVE TypeOK'
    BY <2>2, EventType DEF Kinds
  <2> QED BY <1>1, <2>1, <2>2, StartingType, EventType, DecisionType
          DEF Next, Starting, Provider, Webhook, Reviewing
<1>2. CASE UNCHANGED vars
  BY <1>2 DEF TypeOK, vars, history, atStripe
<1> QED BY <1>1, <1>2

\* Every variable keeps its type.
THEOREM TypeCorrect == Spec => []TypeOK
BY InitType, NextType, PTL DEF Spec
----------------------------------------------------------------------------
\* Whatever changes the row gives it a new version.
LEMMA NewVersion ==
  ASSUME TypeOK, [Next]_vars
  PROVE  consumer' = consumer \/ consumer'.version = consumer.version + 1
<1>0. consumer.version + 1 \in Nat /\ consumer \in Rows
  BY DEF TypeOK, Rows
<1>1. ASSUME NEW q \in Starts, Look(q) \/ Retrieve(q) \/ Create(q) \/ Again(q) \/ Reuse(q)
                               \/ Abandon(q) PROVE consumer' = consumer
  BY <1>1 DEF Look, Retrieve, Create, Again, Reuse, Abandon
<1>2. ASSUME NEW q \in Starts, Claim(q)
      PROVE  consumer' = consumer \/ consumer'.version = consumer.version + 1
  BY <1>0, <1>2 DEF Claim, Rows
<1>3. ASSUME NEW s \in Sessions, Refuse(s) \/ Accept(s) \/ Close(s) PROVE consumer' = consumer
  BY <1>3 DEF Refuse, Accept, Close
<1>4. ASSUME NEW p \in Sessions \cup {None}, ForgetKey(p) PROVE consumer' = consumer
  BY <1>4 DEF ForgetKey
<1>5. ASSUME NEW s \in Sessions, NEW k \in Kinds, Handle(s, k) \/ Abort(s, k)
      PROVE  consumer' = consumer
  BY <1>5 DEF Handle, Abort
<1>6. ASSUME NEW s \in Sessions, NEW k \in Kinds, Apply(s, k)
      PROVE  consumer' = consumer \/ consumer'.version = consumer.version + 1
  BY <1>0, <1>6, Zenon DEF Apply, Rows
<1>7. ASSUME NEW d \in Decisions, OpenCase(d) \/ Check(d) \/ DecisionFails(d)
      PROVE  consumer' = consumer
  BY <1>7 DEF OpenCase, Check, DecisionFails
<1>8. ASSUME NEW d \in Decisions, Decide(d)
      PROVE  consumer' = consumer \/ consumer'.version = consumer.version + 1
  BY <1>0, <1>8, Zenon DEF Decide, Rows
<1>9. CASE UNCHANGED vars
  BY <1>9 DEF vars
<1> QED BY <1>1, <1>2, <1>3, <1>4, <1>5, <1>6, <1>7, <1>8, <1>9
        DEF Next, Starting, Provider, Webhook, Reviewing

\* A page shows the row as it is when it is opened, and nothing else changes it.
LEMMA PagesAreRead ==
  ASSUME TypeOK, [Next]_vars, NEW d \in Decisions
  PROVE  \/ decision'[d].seen \in {None, decision[d].seen}
         \/ decision'[d].seen = consumer /\ consumer' = consumer
<1>1. ASSUME NEW c \in Decisions, OpenCase(c) \/ Check(c) \/ Decide(c) \/ DecisionFails(c)
      PROVE  \/ decision'[d].seen \in {None, decision[d].seen}
             \/ decision'[d].seen = consumer /\ consumer' = consumer
  <2>1. \/ Closed(c)
        \/ decision' = [decision EXCEPT ![c].at = "checked"]
        \/ consumer' = consumer /\ decision' = [decision EXCEPT ![c] = [at |-> "page",
                                                                      seen |-> consumer]]
    BY <1>1 DEF OpenCase, Check, Decide, DecisionFails
  <2>2. decision \in [Decisions -> Cases]
    BY DEF TypeOK
  <2> QED BY <2>1, <2>2 DEF Closed, Cases
<1>2. ASSUME Starting \/ Provider \/ Webhook PROVE decision' = decision
  BY <1>2 DEF Starting, Look, Retrieve, Create, Claim, Again, Reuse, Abandon, Provider, Refuse,
              Accept, Close, ForgetKey, Webhook, Handle, Apply, Abort
<1>3. CASE UNCHANGED vars
  BY <1>3 DEF vars
<1> QED BY <1>1, <1>2, <1>3 DEF Next, Reviewing

LEMMA DatedStep == TypeOK /\ Dated /\ [Next]_vars => Dated'
<1> SUFFICES ASSUME TypeOK, Dated, [Next]_vars, NEW d \in Decisions, decision'[d].seen # None
             PROVE  /\ decision'[d].seen.version =< consumer'.version
                    /\ decision'[d].seen.version = consumer'.version =>
                         decision'[d].seen = consumer'
  BY DEF Dated, Seen
<1>1. consumer.version \in Nat
  BY DEF TypeOK, Rows
<1>2. CASE decision'[d].seen = consumer /\ consumer' = consumer
  BY <1>1, <1>2
<1>3. CASE decision'[d].seen = decision[d].seen
  <2>1. /\ decision[d].seen.version =< consumer.version
        /\ decision[d].seen.version = consumer.version => decision[d].seen = consumer
    BY <1>3 DEF Dated, Seen
  <2>2. decision[d].seen.version \in Nat
    BY <1>3 DEF TypeOK, Cases, Rows
  <2> QED BY <1>1, <1>3, <2>1, <2>2, NewVersion
<1> QED BY <1>2, <1>3, PagesAreRead

\* A decision that changes the row changes the one its page showed.
THEOREM DecidesOnWhatItSaw == Spec => DecisionsAreInformed
<1> DEFINE Informed == \A d \in Decisions :
                         decision[d].at = "checked" /\ decision'[d].at = "done"
                           /\ consumer' # consumer => consumer = decision[d].seen
<1>1. Init => Dated
  BY DEF Init, Dated, Seen
<1>2. TypeOK /\ Dated /\ [Next]_vars => [Informed]_vars
  <2> SUFFICES ASSUME TypeOK, Dated, Next, NEW d \in Decisions, decision[d].at = "checked",
                      decision'[d].at = "done", consumer' # consumer
               PROVE  consumer = decision[d].seen
    OBVIOUS
  <2>1. ASSUME Starting \/ Provider \/ Webhook PROVE decision' = decision
    BY <2>1 DEF Starting, Look, Retrieve, Create, Claim, Again, Reuse, Abandon, Provider, Refuse,
                Accept, Close, ForgetKey, Webhook, Handle, Apply, Abort
  <2>2. PICK c \in Decisions : OpenCase(c) \/ Check(c) \/ Decide(c) \/ DecisionFails(c)
    BY <2>1 DEF Next, Reviewing
  <2>3. Decide(c) /\ StillAsRead(c)
    BY <2>2 DEF OpenCase, Check, Decide, DecisionFails
  <2>4. c = d
    BY <2>3 DEF Decide, Closed, TypeOK, Cases
  <2> QED BY <2>3, <2>4 DEF Dated, Seen, StillAsRead, TypeOK
<1> HIDE DEF Informed
<1>3. Spec => [][Informed]_vars
  BY <1>1, <1>2, DatedStep, InitType, NextType, PTL DEF Spec
<1> QED BY <1>3 DEF Informed, DecisionsAreInformed
----------------------------------------------------------------------------
\* The part of Owned that holds until an event makes its own session the consumer's.
OwnedSoFar == /\ handed \subseteq was
              /\ consumer.session \in was \cup {None}
              /\ \A q \in Starts : Given(q)

\* A step of a call that only moves it, or gives a session that was the consumer's.
LEMMA MoveOwned ==
  ASSUME TypeOK, OwnedSoFar, NEW q \in Starts,
         Look(q) \/ Retrieve(q) \/ Again(q) \/ Reuse(q) \/ Abandon(q)
  PROVE  OwnedSoFar'
<1>1. UNCHANGED <<consumer, replay, was>> /\ handed' \subseteq was
  BY DEF Look, Retrieve, Again, Reuse, Abandon, Hand, End, At, atStripe, history, OwnedSoFar, Given
<1>2. ASSUME NEW p \in Starts, p # q PROVE Given(p)'
  <2>1. start'[p] = start[p]
    BY <1>2 DEF Look, Retrieve, Again, Reuse, Abandon, Hand, Goto, End, TypeOK
  <2> QED BY <1>1, <2>1 DEF OwnedSoFar, Given
<1>3. Given(q)'
  <2>1. consumer.session # None => consumer.session \in was
    BY DEF OwnedSoFar
  <2> USE <1>1, <2>1 DEF OwnedSoFar, Given, TypeOK, Calls
  <2>2. CASE Look(q)
    BY <2>2 DEF Look, Reusable
  <2>3. CASE Retrieve(q)
    BY <2>3 DEF Retrieve, At, Goto, Hand, End
  <2>4. CASE Again(q)
    BY <2>4 DEF Again, At, Reusable, Hand, End
  <2>5. CASE Reuse(q) \/ Abandon(q)
    BY <2>5 DEF Reuse, Abandon, Hand, End
  <2> QED BY <2>2, <2>3, <2>4, <2>5
<1> QED BY <1>1, <1>2, <1>3 DEF OwnedSoFar

\* Under a key Stripe makes one session, so a call that comes later gets the one that
\* replaced what it read.
LEMMA CreateOwned ==
  ASSUME TypeOK, OwnedSoFar, NEW q \in Starts, Create(q)
  PROVE  OwnedSoFar'
<1>1. PICK s \in Sessions :
        /\ Answers(start[q].read, s)
        /\ replay' = [replay EXCEPT ![start[q].read] = s]
        /\ start' = [start EXCEPT ![q].at = "claim", ![q].got = s] \/ End(q)
  BY DEF Create
<1>2. UNCHANGED <<consumer, was, handed>> /\ start[q].at = "create"
  BY DEF Create, At, history
<1>3. ASSUME NEW p \in Starts, p # q PROVE Given(p)'
  <2>1. start'[p] = start[p]
    BY <1>1, <1>3 DEF End, TypeOK
  <2>2. replay[start[p].read] # None => replay'[start[p].read] = replay[start[p].read]
    BY <1>1 DEF Answers, TypeOK, Calls
  <2>3. /\ start[p].at = "claim" => start[p].got # None
        /\ None \notin was
    BY NoneIsNothing DEF TypeOK
  <2> QED BY <1>2, <2>1, <2>2, <2>3 DEF OwnedSoFar, Given
<1>4. Given(q)'
  <2>1. consumer.session = start[q].read \/ s \in was
    BY <1>1, <1>2, NoneIsNothing DEF Answers, OwnedSoFar, Given, TypeOK
  <2>2. replay'[start[q].read] = s
    BY <1>1 DEF TypeOK, Calls
  <2> QED BY <1>1, <1>2, <2>1, <2>2 DEF Given, End, TypeOK, Calls
<1> QED BY <1>2, <1>3, <1>4 DEF OwnedSoFar

\* The claim replaces the session that was read, and makes the new one the consumer's.
LEMMA ClaimOwned ==
  ASSUME TypeOK, OwnedSoFar, NEW q \in Starts, Claim(q)
  PROVE  OwnedSoFar'
<1>1. /\ start[q].at = "claim" /\ start[q].got \in Sessions
      /\ replay' = replay /\ replay[start[q].read] = start[q].got
      /\ consumer.session = start[q].read \/ start[q].got \in was
  BY DEF Claim, At, atStripe, TypeOK, Calls, OwnedSoFar, Given
<1>2. CASE consumer.session = start[q].read
  <2>1. /\ consumer'.session = start[q].got
        /\ was' = was \cup {start[q].got}
        /\ End(q) /\ handed' \subseteq handed \cup {start[q].got}
    BY <1>2 DEF Claim, Hand, TypeOK, Rows
  <2>2. ASSUME NEW p \in Starts, p # q PROVE Given(p)'
    <3>1. start'[p] = start[p]
      BY <2>1, <2>2 DEF End, TypeOK
    <3>2. Given(p) /\ replay' = replay /\ was \subseteq was' /\ start[q].got \in was'
      BY <1>1, <2>1 DEF OwnedSoFar
    <3>3. CASE start[p].read = start[q].read
      <4>1. replay[start[p].read] \in was'
        BY <1>1, <3>2, <3>3
      <4> QED BY <3>1, <3>2, <4>1 DEF Given
    <3>4. CASE start[p].read # start[q].read
      <4>1. consumer.session # start[p].read
        BY <1>2, <3>4
      <4> QED BY <3>1, <3>2, <4>1 DEF Given
    <3> QED BY <3>3, <3>4
  <2>3. Given(q)'
    BY <2>1 DEF End, TypeOK, Given
  <2> QED BY <2>1, <2>2, <2>3 DEF OwnedSoFar
<1>3. CASE consumer.session # start[q].read
  <2>1. UNCHANGED <<consumer, was, handed>> /\ start' = [start EXCEPT ![q].at = "again"]
    BY <1>3 DEF Claim, Goto
  <2>2. ASSUME NEW p \in Starts, p # q PROVE Given(p)'
    <3>1. start'[p] = start[p]
      BY <2>1, <2>2 DEF TypeOK
    <3>2. Given(p) /\ UNCHANGED <<consumer, was, replay>>
      BY <1>1, <2>1 DEF OwnedSoFar
    <3> QED BY <3>1, <3>2 DEF Given
  <2>3. Given(q)'
    BY <1>1, <1>3, <2>1 DEF TypeOK, Calls, Given
  <2> QED BY <2>1, <2>2, <2>3 DEF OwnedSoFar
<1> QED BY <1>2, <1>3

LEMMA OwnedStep == TypeOK /\ Owned /\ [Next]_vars => Owned'
<1> SUFFICES ASSUME TypeOK, Owned, [Next]_vars, ~ adopted' PROVE Owned'
  BY DEF Owned
<1>1. adopted \/ OwnedSoFar
  BY DEF Owned, OwnedSoFar
<1>2. OwnedSoFar' => Owned'
  BY DEF Owned, OwnedSoFar, Given
<1>3. ASSUME NEW q \in Starts, Look(q) \/ Retrieve(q) \/ Create(q) \/ Claim(q) \/ Again(q)
                               \/ Reuse(q) \/ Abandon(q) PROVE Owned'
  <2>1. adopted' = adopted
    BY <1>3 DEF Look, Retrieve, Create, Claim, Again, Reuse, Abandon, history
  <2> QED BY <1>1, <1>2, <1>3, <2>1, MoveOwned, CreateOwned, ClaimOwned
<1>4. ASSUME UNCHANGED <<consumer, replay, start, handed, was, adopted>> PROVE Owned'
  BY <1>1, <1>4 DEF Owned, OwnedSoFar, Given
<1>5. ASSUME NEW s \in Sessions, Refuse(s) \/ Accept(s) \/ Close(s) PROVE Owned'
  BY <1>4, <1>5 DEF Refuse, Accept, Close, history
<1>6. ASSUME NEW p \in Sessions \cup {None}, ForgetKey(p) PROVE Owned'
  \* No call is under way that could have the key.
  BY <1>1, <1>6 DEF ForgetKey, history, Owned, OwnedSoFar, Given
<1>7. ASSUME NEW s \in Sessions, NEW k \in Kinds, Handle(s, k) \/ Abort(s, k) PROVE Owned'
  BY <1>4, <1>7 DEF Handle, Abort, history
<1>8. ASSUME NEW s \in Sessions, NEW k \in Kinds, Apply(s, k) PROVE Owned'
  <2>1. /\ UNCHANGED <<replay, start, handed>>
        /\ \/ UNCHANGED <<consumer, was, adopted>>
           \/ /\ consumer'.session = s /\ was' = was \cup {s}
              /\ adopted' = (adopted \/ consumer.session # s)
    BY <1>8, Zenon DEF Apply, TypeOK, Rows
  <2>2. OwnedSoFar /\ consumer'.session = consumer.session /\ was \subseteq was'
    BY <1>1, <2>1
  <2> QED BY <1>2, <2>1, <2>2 DEF OwnedSoFar, Given
<1>9. ASSUME NEW d \in Decisions, OpenCase(d) \/ Check(d) \/ Decide(d) \/ DecisionFails(d)
      PROVE  Owned'
  <2>1. UNCHANGED <<replay, start, handed, was, adopted>>
    BY <1>9 DEF OpenCase, Check, Decide, DecisionFails, atStripe, history
  <2>2. consumer'.session = consumer.session
    BY <1>9, Zenon DEF OpenCase, Check, Decide, DecisionFails, TypeOK, Rows
  <2> QED BY <1>1, <1>2, <2>1, <2>2 DEF OwnedSoFar, Given
<1>10. CASE UNCHANGED vars
  BY <1>4, <1>10 DEF vars, atStripe, history
<1> QED BY <1>3, <1>5, <1>6, <1>7, <1>8, <1>9, <1>10
        DEF Next, Starting, Provider, Webhook, Reviewing

\* However calls, events and decisions interleave, a consumer is only given a session
\* that is or was his, unless an event has made its own session the consumer's.
THEOREM GivenHisOwn == Spec => []HandedIsHis
<1>1. Init => Owned
  BY DEF Init, Owned, Given
<1>2. Owned => HandedIsHis
  BY DEF Owned, HandedIsHis
<1> QED BY <1>1, <1>2, OwnedStep, InitType, NextType, PTL DEF Spec

=============================================================================
