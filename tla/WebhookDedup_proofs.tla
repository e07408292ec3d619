------------------------ MODULE WebhookDedup_proofs ------------------------
(***************************************************************************)
(* Proofs about WebhookDedup, for any number of events, deliveries and     *)
(* handler transactions.  Inv is inductive: each lemma below shows that    *)
(* one of its parts survives every action, and the last ones follow from   *)
(* the parts before them.                                                  *)
(***************************************************************************)
EXTENDS WebhookDedup, TLAPS

LEMMA InitInv == Init => Inv
<1> SUFFICES ASSUME Init PROVE Inv
  OBVIOUS
<1> USE StepsAssumption, NoneAssumption, ManagedAssumption DEF Init
<1>1. TypeOK
  BY DEF TypeOK, PCs
<1>2. ProcessedComplete /\ ManagedRows /\ StepsBehind /\ HolderInTime /\ OverdueIsStale
  BY DEF ProcessedComplete, ManagedRows, StepsBehind, HolderInTime, OverdueIsStale, Live
<1>3. AckedMeansApplied /\ OneLiveHandler
  BY DEF AckedMeansApplied, OneLiveHandler, Live
<1> QED
  BY <1>1, <1>2, <1>3 DEF Inv

\* The step relation as a disjunction with its parameters named.
LEMMA Cases ==
  ASSUME [Next]_vars
  PROVE  \/ UNCHANGED vars
         \/ \E e \in Events : Age(e)
         \/ \E d \in Deliveries : \/ \E e \in Events : Arrive(d, e)
                                  \/ Create(d) \/ Look(d) \/ Reclaim(d) \/ ClaimThrows(d)
                                  \/ ManagedCommit(d) \/ ManagedDuplicate(d)
                                  \/ HandlerStep(d) \/ HandlerThrows(d)
                                  \/ MarkProcessed(d) \/ MarkProcessedThrows(d)
                                  \/ MarkFailed(d) \/ Reply(d) \/ Crash(d)
BY DEF Next, Serve

LEMMA ClaimKeepsType ==
  ASSUME NEW d \in Deliveries, TakeClaim(d)
  PROVE  overdue' \in [Deliveries -> BOOLEAN]
BY Zenon DEF TakeClaim

LEMMA TypeStep ==
  ASSUME Inv, [Next]_vars
  PROVE  TypeOK'
<1> USE StepsAssumption, NoneAssumption, ManagedAssumption DEF effect, Last, Inv, TypeOK, PCs, Live, StepsBehind
<1>1. CASE UNCHANGED vars
  BY <1>1 DEF vars, claim, delivery
<1>2. ASSUME NEW e \in Events, Age(e) PROVE TypeOK'
  BY <1>2 DEF Age
<1>3. ASSUME NEW d \in Deliveries, NEW e \in Events, Arrive(d, e) PROVE TypeOK'
  BY <1>3 DEF Arrive, claim, Goto
<1>4. ASSUME NEW d \in Deliveries, Create(d) PROVE TypeOK'
  <2>0. ev[d] \in Events
    BY <1>4 DEF Create
  <2>1. CASE row[ev[d]] = "absent" /\ TakeClaim(d)
    BY <1>4, <2>0, <2>1, ClaimKeepsType DEF Create, TakeClaim, Goto
  <2>2. CASE row[ev[d]] # "absent" /\ Goto(d, "looking") /\ UNCHANGED <<claim, ev, overdue, step, expired>>
    BY <1>4, <2>2 DEF Create, Goto, claim
  <2> QED
    BY <1>4, <2>1, <2>2 DEF Create
<1>5. ASSUME NEW d \in Deliveries, Look(d) PROVE TypeOK'
  <2>1. pc[d] = "looking" /\ UNCHANGED <<row, token, stale, effect>>
    BY <1>5 DEF Look, claim
  <2>2. CASE Duplicate(ev[d]) /\ Answer(d)
    BY <2>1, <2>2 DEF Answer, Leave, Goto
  <2>3. CASE Nack(d)
    BY <2>1, <2>3 DEF Nack, Forget, Leave, Goto
  <2>4. CASE Goto(d, "reclaiming") /\ UNCHANGED <<acked, ev, overdue, step, expired>>
    BY <2>1, <2>4 DEF Goto
  <2> QED
    BY <1>5, <2>2, <2>3, <2>4 DEF Look
<1>6. ASSUME NEW d \in Deliveries, Reclaim(d) PROVE TypeOK'
  <2>1. pc[d] = "reclaiming" /\ UNCHANGED effect /\ ev[d] \in Events
    BY <1>6 DEF Reclaim
  <2>2. CASE Reclaimable(d) /\ TakeClaim(d) /\ UNCHANGED acked
    BY <2>1, <2>2, ClaimKeepsType DEF TakeClaim, Goto
  <2>3. CASE Nack(d) /\ UNCHANGED claim
    BY <2>1, <2>3 DEF Nack, Forget, Leave, Goto, claim
  <2> QED
    BY <1>6, <2>2, <2>3 DEF Reclaim
<1>7. ASSUME NEW d \in Deliveries, ClaimThrows(d) PROVE TypeOK'
  BY <1>7 DEF ClaimThrows, Nack, Forget, Leave, Goto, claim
<1>8. ASSUME NEW d \in Deliveries, ManagedCommit(d) PROVE TypeOK'
  <2>1. CASE Answer(d)
    BY <1>8, <2>1 DEF ManagedCommit, Answer, Leave, Goto
  <2>2. CASE Nack(d)
    BY <1>8, <2>2 DEF ManagedCommit, Nack, Forget, Leave, Goto
  <2> QED
    BY <1>8, <2>1, <2>2 DEF ManagedCommit
<1>9. ASSUME NEW d \in Deliveries, ManagedDuplicate(d) PROVE TypeOK'
  BY <1>9 DEF ManagedDuplicate, Answer, Leave, Goto, claim
<1>10. ASSUME NEW d \in Deliveries, HandlerStep(d) PROVE TypeOK'
  BY <1>10 DEF HandlerStep, Goto, Commit, claim
<1>11. ASSUME NEW d \in Deliveries, HandlerThrows(d) PROVE TypeOK'
  <2>1. CASE UNCHANGED effect
    BY <1>11, <2>1 DEF HandlerThrows, Goto, claim
  <2>2. CASE ~Aborts(d) /\ Commit(d)
    BY <1>11, <2>2 DEF HandlerThrows, Goto, Commit, claim
  <2> QED
    BY <1>11, <2>1, <2>2 DEF HandlerThrows
<1>12. ASSUME NEW d \in Deliveries, MarkProcessed(d) PROVE TypeOK'
  BY <1>12 DEF MarkProcessed, Mark, Holds, Answer, Leave, Goto
<1>13. ASSUME NEW d \in Deliveries, MarkProcessedThrows(d) PROVE TypeOK'
  <2>1. CASE Mark(d, "PROCESSED")
    BY <1>13, <2>1 DEF MarkProcessedThrows, Mark, Holds, Goto
  <2>2. CASE UNCHANGED row
    BY <1>13, <2>2 DEF MarkProcessedThrows, Goto
  <2> QED
    BY <1>13, <2>1, <2>2 DEF MarkProcessedThrows
<1>14. ASSUME NEW d \in Deliveries, MarkFailed(d) PROVE TypeOK'
  <2>1. CASE Mark(d, "FAILED")
    BY <1>14, <2>1 DEF MarkFailed, Mark, Holds, Nack, Forget, Leave, Goto
  <2>2. CASE UNCHANGED row
    BY <1>14, <2>2 DEF MarkFailed, Nack, Forget, Leave, Goto
  <2> QED
    BY <1>14, <2>1, <2>2 DEF MarkFailed
<1>15. ASSUME NEW d \in Deliveries, Crash(d) PROVE TypeOK'
  BY <1>15 DEF Crash, Nack, Forget, Leave, Goto, claim
<1>16. ASSUME NEW d \in Deliveries, Reply(d) PROVE TypeOK'
  BY <1>16 DEF Reply, Forget, Leave, Goto, claim
<1> QED
  BY <1>1, <1>2, <1>3, <1>4, <1>5, <1>6, <1>7, <1>8, <1>9, <1>10, <1>11, <1>12, <1>13, <1>14, <1>15, <1>16, Cases

LEMMA CompleteStep ==
  ASSUME Inv, [Next]_vars
  PROVE  ProcessedComplete'
<1> USE StepsAssumption, NoneAssumption, ManagedAssumption DEF effect, Last, Inv, TypeOK, PCs, ProcessedComplete, Complete, StepsBehind
<1>1. CASE UNCHANGED vars
  BY <1>1 DEF vars, claim, delivery
<1>2. ASSUME NEW e \in Events, Age(e) PROVE ProcessedComplete'
  BY <1>2 DEF Age
<1>3. ASSUME NEW d \in Deliveries, NEW e \in Events, Arrive(d, e) PROVE ProcessedComplete'
  BY <1>3 DEF Arrive, claim, Goto
<1>4. ASSUME NEW d \in Deliveries, Create(d) PROVE ProcessedComplete'
  <2>1. CASE row[ev[d]] = "absent" /\ TakeClaim(d)
    BY <1>4, <2>1 DEF Create, TakeClaim, Goto
  <2>2. CASE row[ev[d]] # "absent" /\ Goto(d, "looking") /\ UNCHANGED <<claim, ev, overdue, step, expired>>
    BY <1>4, <2>2 DEF Create, Goto, claim
  <2> QED
    BY <1>4, <2>1, <2>2 DEF Create
<1>5. ASSUME NEW d \in Deliveries, Look(d) PROVE ProcessedComplete'
  <2>1. pc[d] = "looking" /\ UNCHANGED <<row, token, stale, effect>>
    BY <1>5 DEF Look, claim
  <2>2. CASE Duplicate(ev[d]) /\ Answer(d)
    BY <2>1, <2>2 DEF Answer, Leave, Goto
  <2>3. CASE Nack(d)
    BY <2>1, <2>3 DEF Nack, Forget, Leave, Goto
  <2>4. CASE Goto(d, "reclaiming") /\ UNCHANGED <<acked, ev, overdue, step, expired>>
    BY <2>1, <2>4 DEF Goto
  <2> QED
    BY <1>5, <2>2, <2>3, <2>4 DEF Look
<1>6. ASSUME NEW d \in Deliveries, Reclaim(d) PROVE ProcessedComplete'
  <2>1. pc[d] = "reclaiming" /\ UNCHANGED effect
    BY <1>6 DEF Reclaim
  <2>2. CASE Reclaimable(d) /\ TakeClaim(d) /\ UNCHANGED acked
    BY <2>1, <2>2 DEF TakeClaim, Goto
  <2>3. CASE Nack(d) /\ UNCHANGED claim
    BY <2>1, <2>3 DEF Nack, Forget, Leave, Goto, claim
  <2> QED
    BY <1>6, <2>2, <2>3 DEF Reclaim
<1>7. ASSUME NEW d \in Deliveries, ClaimThrows(d) PROVE ProcessedComplete'
  BY <1>7 DEF ClaimThrows, Nack, Forget, Leave, Goto, claim
<1>8. ASSUME NEW d \in Deliveries, ManagedCommit(d) PROVE ProcessedComplete'
  <2>1. CASE Answer(d)
    BY <1>8, <2>1 DEF ManagedCommit, Answer, Leave, Goto
  <2>2. CASE Nack(d)
    BY <1>8, <2>2 DEF ManagedCommit, Nack, Forget, Leave, Goto
  <2> QED
    BY <1>8, <2>1, <2>2 DEF ManagedCommit
<1>9. ASSUME NEW d \in Deliveries, ManagedDuplicate(d) PROVE ProcessedComplete'
  BY <1>9 DEF ManagedDuplicate, Answer, Leave, Goto, claim
<1>10. ASSUME NEW d \in Deliveries, HandlerStep(d) PROVE ProcessedComplete'
  BY <1>10 DEF HandlerStep, Goto, Commit, claim
<1>11. ASSUME NEW d \in Deliveries, HandlerThrows(d) PROVE ProcessedComplete'
  <2>1. CASE UNCHANGED effect
    BY <1>11, <2>1 DEF HandlerThrows, Goto, claim
  <2>2. CASE ~Aborts(d) /\ Commit(d)
    BY <1>11, <2>2 DEF HandlerThrows, Goto, Commit, claim
  <2> QED
    BY <1>11, <2>1, <2>2 DEF HandlerThrows
<1>12. ASSUME NEW d \in Deliveries, MarkProcessed(d) PROVE ProcessedComplete'
  BY <1>12 DEF MarkProcessed, Mark, Holds, Answer, Leave, Goto
<1>13. ASSUME NEW d \in Deliveries, MarkProcessedThrows(d) PROVE ProcessedComplete'
  <2>1. CASE Mark(d, "PROCESSED")
    BY <1>13, <2>1 DEF MarkProcessedThrows, Mark, Holds, Goto
  <2>2. CASE UNCHANGED row
    BY <1>13, <2>2 DEF MarkProcessedThrows, Goto
  <2> QED
    BY <1>13, <2>1, <2>2 DEF MarkProcessedThrows
<1>14. ASSUME NEW d \in Deliveries, MarkFailed(d) PROVE ProcessedComplete'
  <2>1. CASE Mark(d, "FAILED")
    BY <1>14, <2>1 DEF MarkFailed, Mark, Holds, Nack, Forget, Leave, Goto
  <2>2. CASE UNCHANGED row
    BY <1>14, <2>2 DEF MarkFailed, Nack, Forget, Leave, Goto
  <2> QED
    BY <1>14, <2>1, <2>2 DEF MarkFailed
<1>15. ASSUME NEW d \in Deliveries, Crash(d) PROVE ProcessedComplete'
  BY <1>15 DEF Crash, Nack, Forget, Leave, Goto, claim
<1>16. ASSUME NEW d \in Deliveries, Reply(d) PROVE ProcessedComplete'
  BY <1>16 DEF Reply, Forget, Leave, Goto, claim
<1> QED
  BY <1>1, <1>2, <1>3, <1>4, <1>5, <1>6, <1>7, <1>8, <1>9, <1>10, <1>11, <1>12, <1>13, <1>14, <1>15, <1>16, Cases

LEMMA ManagedStep ==
  ASSUME Inv, [Next]_vars
  PROVE  ManagedRows'
<1> USE StepsAssumption, NoneAssumption, ManagedAssumption DEF effect, Last, Inv, TypeOK, PCs, Live, ManagedRows, StepsBehind
<1>1. CASE UNCHANGED vars
  BY <1>1 DEF vars, claim, delivery
<1>2. ASSUME NEW e \in Events, Age(e) PROVE ManagedRows'
  BY <1>2 DEF Age
<1>3. ASSUME NEW d \in Deliveries, NEW e \in Events, Arrive(d, e) PROVE ManagedRows'
  BY <1>3 DEF Arrive, claim, Goto
<1>4. ASSUME NEW d \in Deliveries, Create(d) PROVE ManagedRows'
  <2>1. CASE row[ev[d]] = "absent" /\ TakeClaim(d)
    BY <1>4, <2>1 DEF Create, TakeClaim, Goto
  <2>2. CASE row[ev[d]] # "absent" /\ Goto(d, "looking") /\ UNCHANGED <<claim, ev, overdue, step, expired>>
    BY <1>4, <2>2 DEF Create, Goto, claim
  <2> QED
    BY <1>4, <2>1, <2>2 DEF Create
<1>5. ASSUME NEW d \in Deliveries, Look(d) PROVE ManagedRows'
  <2>1. pc[d] = "looking" /\ UNCHANGED <<row, token, stale, effect>>
    BY <1>5 DEF Look, claim
  <2>2. CASE Duplicate(ev[d]) /\ Answer(d)
    BY <2>1, <2>2 DEF Answer, Leave, Goto
  <2>3. CASE Nack(d)
    BY <2>1, <2>3 DEF Nack, Forget, Leave, Goto
  <2>4. CASE Goto(d, "reclaiming") /\ UNCHANGED <<acked, ev, overdue, step, expired>>
    BY <2>1, <2>4 DEF Goto
  <2> QED
    BY <1>5, <2>2, <2>3, <2>4 DEF Look
<1>6. ASSUME NEW d \in Deliveries, Reclaim(d) PROVE ManagedRows'
  <2>1. pc[d] = "reclaiming" /\ UNCHANGED effect
    BY <1>6 DEF Reclaim
  <2>2. CASE Reclaimable(d) /\ TakeClaim(d) /\ UNCHANGED acked
    BY <2>1, <2>2 DEF TakeClaim, Goto
  <2>3. CASE Nack(d) /\ UNCHANGED claim
    BY <2>1, <2>3 DEF Nack, Forget, Leave, Goto, claim
  <2> QED
    BY <1>6, <2>2, <2>3 DEF Reclaim
<1>7. ASSUME NEW d \in Deliveries, ClaimThrows(d) PROVE ManagedRows'
  BY <1>7 DEF ClaimThrows, Nack, Forget, Leave, Goto, claim
<1>8. ASSUME NEW d \in Deliveries, ManagedCommit(d) PROVE ManagedRows'
  <2>1. CASE Answer(d)
    BY <1>8, <2>1 DEF ManagedCommit, Answer, Leave, Goto
  <2>2. CASE Nack(d)
    BY <1>8, <2>2 DEF ManagedCommit, Nack, Forget, Leave, Goto
  <2> QED
    BY <1>8, <2>1, <2>2 DEF ManagedCommit
<1>9. ASSUME NEW d \in Deliveries, ManagedDuplicate(d) PROVE ManagedRows'
  BY <1>9 DEF ManagedDuplicate, Answer, Leave, Goto, claim
<1>10. ASSUME NEW d \in Deliveries, HandlerStep(d) PROVE ManagedRows'
  BY <1>10 DEF HandlerStep, Goto, Commit, claim
<1>11. ASSUME NEW d \in Deliveries, HandlerThrows(d) PROVE ManagedRows'
  BY <1>11 DEF HandlerThrows, Goto, Commit, claim
<1>12. ASSUME NEW d \in Deliveries, MarkProcessed(d) PROVE ManagedRows'
  BY <1>12 DEF MarkProcessed, Mark, Holds, Answer, Leave, Goto
<1>13. ASSUME NEW d \in Deliveries, MarkProcessedThrows(d) PROVE ManagedRows'
  <2>1. CASE Mark(d, "PROCESSED")
    BY <1>13, <2>1 DEF MarkProcessedThrows, Mark, Holds, Goto
  <2>2. CASE UNCHANGED row
    BY <1>13, <2>2 DEF MarkProcessedThrows, Goto
  <2> QED
    BY <1>13, <2>1, <2>2 DEF MarkProcessedThrows
<1>14. ASSUME NEW d \in Deliveries, MarkFailed(d) PROVE ManagedRows'
  <2>1. CASE Mark(d, "FAILED")
    BY <1>14, <2>1 DEF MarkFailed, Mark, Holds, Nack, Forget, Leave, Goto
  <2>2. CASE UNCHANGED row
    BY <1>14, <2>2 DEF MarkFailed, Nack, Forget, Leave, Goto
  <2> QED
    BY <1>14, <2>1, <2>2 DEF MarkFailed
<1>15. ASSUME NEW d \in Deliveries, Crash(d) PROVE ManagedRows'
  BY <1>15 DEF Crash, Nack, Forget, Leave, Goto, claim
<1>16. ASSUME NEW d \in Deliveries, Reply(d) PROVE ManagedRows'
  BY <1>16 DEF Reply, Forget, Leave, Goto, claim
<1> QED
  BY <1>1, <1>2, <1>3, <1>4, <1>5, <1>6, <1>7, <1>8, <1>9, <1>10, <1>11, <1>12, <1>13, <1>14, <1>15, <1>16, Cases

LEMMA BehindStep ==
  ASSUME Inv, [Next]_vars
  PROVE  StepsBehind'
<1> USE StepsAssumption, NoneAssumption, ManagedAssumption DEF effect, Last, Inv, TypeOK, PCs, Live, ManagedRows, StepsBehind, Complete, ProcessedComplete
<1>1. CASE UNCHANGED vars
  BY <1>1 DEF vars, claim, delivery
<1>2. ASSUME NEW e \in Events, Age(e) PROVE StepsBehind'
  BY <1>2 DEF Age
<1>3. ASSUME NEW d \in Deliveries, NEW e \in Events, Arrive(d, e) PROVE StepsBehind'
  BY <1>3 DEF Arrive, claim, Goto
<1>4. ASSUME NEW d \in Deliveries, Create(d) PROVE StepsBehind'
  <2>1. CASE row[ev[d]] = "absent" /\ TakeClaim(d)
    BY <1>4, <2>1 DEF Create, TakeClaim, Goto
  <2>2. CASE row[ev[d]] # "absent" /\ Goto(d, "looking") /\ UNCHANGED <<claim, ev, overdue, step, expired>>
    BY <1>4, <2>2 DEF Create, Goto, claim
  <2> QED
    BY <1>4, <2>1, <2>2 DEF Create
<1>5. ASSUME NEW d \in Deliveries, Look(d) PROVE StepsBehind'
  <2>1. pc[d] = "looking" /\ UNCHANGED <<row, token, stale, effect>>
    BY <1>5 DEF Look, claim
  <2>2. CASE Duplicate(ev[d]) /\ Answer(d)
    BY <2>1, <2>2 DEF Duplicate, Answer, Leave, Goto
  <2>3. CASE Nack(d)
    BY <2>1, <2>3 DEF Nack, Forget, Leave, Goto
  <2>4. CASE Goto(d, "reclaiming") /\ UNCHANGED <<acked, ev, overdue, step, expired>>
    BY <2>1, <2>4 DEF Goto
  <2> QED
    BY <1>5, <2>2, <2>3, <2>4 DEF Look
<1>6. ASSUME NEW d \in Deliveries, Reclaim(d) PROVE StepsBehind'
  <2>1. pc[d] = "reclaiming" /\ UNCHANGED effect
    BY <1>6 DEF Reclaim
  <2>2. CASE Reclaimable(d) /\ TakeClaim(d) /\ UNCHANGED acked
    BY <2>1, <2>2 DEF TakeClaim, Goto
  <2>3. CASE Nack(d) /\ UNCHANGED claim
    BY <2>1, <2>3 DEF Nack, Forget, Leave, Goto, claim
  <2> QED
    BY <1>6, <2>2, <2>3 DEF Reclaim
<1>7. ASSUME NEW d \in Deliveries, ClaimThrows(d) PROVE StepsBehind'
  BY <1>7 DEF ClaimThrows, Nack, Forget, Leave, Goto, claim
<1>8. ASSUME NEW d \in Deliveries, ManagedCommit(d) PROVE StepsBehind'
  <2>1. CASE Answer(d)
    BY <1>8, <2>1 DEF ManagedCommit, Answer, Leave, Goto
  <2>2. CASE Nack(d)
    BY <1>8, <2>2 DEF ManagedCommit, Nack, Forget, Leave, Goto
  <2> QED
    BY <1>8, <2>1, <2>2 DEF ManagedCommit
<1>9. ASSUME NEW d \in Deliveries, ManagedDuplicate(d) PROVE StepsBehind'
  BY <1>9 DEF ManagedDuplicate, Answer, Leave, Goto, claim
<1>10. ASSUME NEW d \in Deliveries, HandlerStep(d) PROVE StepsBehind'
  <2>1. ev[d] \in Events /\ step[d] \in Nat /\ Last(ev[d]) \in 1..Steps /\ step[d] < Last(ev[d])
    BY <1>10 DEF HandlerStep
  <2>2. /\ \A e \in Events : applied[e] \subseteq applied'[e]
        /\ step[d] + 1 \in applied'[ev[d]]
    BY <1>10, <2>1 DEF HandlerStep, Commit
  <2>3. \A s \in 1..(step[d] + 1) : s \in applied'[ev[d]]
    BY <1>10, <2>1, <2>2 DEF HandlerStep
  <2>4. /\ step' = [step EXCEPT ![d] = step[d] + 1]
        /\ pc' = [pc EXCEPT ![d] = IF step[d] + 1 = Last(ev[d]) THEN "marking" ELSE "handling"]
        /\ UNCHANGED <<row, ev, expired, unrepeatable>>
    BY <1>10 DEF HandlerStep, Goto, Commit, claim
  <2>5. ASSUME NEW q \in Deliveries, q # d, pc[q] # "idle"
        PROVE  /\ pc'[q] = pc[q] /\ step'[q] = step[q] /\ ev'[q] = ev[q] /\ ev[q] \in Events
               /\ \A s \in 1..step[q] : s \in applied[ev[q]] => s \in applied'[ev'[q]]
               /\ Complete(ev[q]) => Complete(ev[q])'
    BY <2>2, <2>4, <2>5
  <2> SUFFICES ASSUME NEW q \in Deliveries
               PROVE  (/\ pc[q] \in {"handling", "marking"} => \A s \in 1..step[q] : s \in applied[ev[q]]
                       /\ pc[q] = "handling" => step[q] < Last(ev[q])
                       /\ pc[q] = "marking" => step[q] = Last(ev[q])
                       /\ pc[q] = "replying" => Complete(ev[q])
                       /\ pc[q] \in PCs \ Live => step[q] = 0 /\ ~expired[q]
                       /\ pc[q] \in {"looking", "reclaiming"} => row[ev[q]] # "absent"
                       /\ pc[q] \in {"looking", "reclaiming"} \cup Live => ev[q] \notin Managed)'
    OBVIOUS
  <2>6. CASE q = d
    <3>1. pc'[d] \in {"handling", "marking"} /\ step'[d] = step[d] + 1 /\ ev'[d] = ev[d]
      BY <2>4
    <3>2. pc'[d] = "handling" => step'[d] < Last(ev[d])
      BY <2>1, <2>4
    <3>3. pc'[d] = "marking" => step'[d] = Last(ev[d])
      BY <2>4
    <3>4. pc[d] = "handling"
      BY <1>10 DEF HandlerStep
    <3> QED
      BY <2>3, <2>4, <2>6, <3>1, <3>2, <3>3, <3>4
  <2>7. CASE q # d /\ pc[q] = "idle"
    BY <2>4, <2>7
  <2>8. CASE q # d /\ pc[q] # "idle"
    BY <2>4, <2>5, <2>8
  <2> QED
    BY <2>6, <2>7, <2>8
<1>11. ASSUME NEW d \in Deliveries, HandlerThrows(d) PROVE StepsBehind'
  <2>1. CASE UNCHANGED effect
    BY <1>11, <2>1 DEF HandlerThrows, Goto, claim
  <2>2. CASE ~Aborts(d) /\ Commit(d)
    BY <1>11, <2>2 DEF HandlerThrows, Goto, Commit, claim
  <2> QED
    BY <1>11, <2>1, <2>2 DEF HandlerThrows
<1>12. ASSUME NEW d \in Deliveries, MarkProcessed(d) PROVE StepsBehind'
  BY <1>12 DEF MarkProcessed, Mark, Holds, Answer, Leave, Goto
<1>13. ASSUME NEW d \in Deliveries, MarkProcessedThrows(d) PROVE StepsBehind'
  <2>1. CASE Mark(d, "PROCESSED")
    BY <1>13, <2>1 DEF MarkProcessedThrows, Mark, Holds, Goto
  <2>2. CASE UNCHANGED row
    BY <1>13, <2>2 DEF MarkProcessedThrows, Goto
  <2> QED
    BY <1>13, <2>1, <2>2 DEF MarkProcessedThrows
<1>14. ASSUME NEW d \in Deliveries, MarkFailed(d) PROVE StepsBehind'
  <2>1. CASE Mark(d, "FAILED")
    BY <1>14, <2>1 DEF MarkFailed, Mark, Holds, Nack, Forget, Leave, Goto
  <2>2. CASE UNCHANGED row
    BY <1>14, <2>2 DEF MarkFailed, Nack, Forget, Leave, Goto
  <2> QED
    BY <1>14, <2>1, <2>2 DEF MarkFailed
<1>15. ASSUME NEW d \in Deliveries, Crash(d) PROVE StepsBehind'
  BY <1>15 DEF Crash, Nack, Forget, Leave, Goto, claim
<1>16. ASSUME NEW d \in Deliveries, Reply(d) PROVE StepsBehind'
  BY <1>16 DEF Reply, Forget, Leave, Goto, claim
<1> QED
  BY <1>1, <1>2, <1>3, <1>4, <1>5, <1>6, <1>7, <1>8, <1>9, <1>10, <1>11, <1>12, <1>13, <1>14, <1>15, <1>16, Cases

LEMMA HolderStep ==
  ASSUME Inv, [Next]_vars
  PROVE  HolderInTime'
<1> USE StepsAssumption, NoneAssumption, ManagedAssumption DEF effect, Last, Inv, TypeOK, PCs, Live, HolderInTime, Holds, OverdueIsStale, Reclaimable, StepsBehind, ManagedRows
<1>1. CASE UNCHANGED vars
  BY <1>1 DEF vars, claim, delivery
<1>2. ASSUME NEW e \in Events, Age(e) PROVE HolderInTime'
  <2>1. UNCHANGED <<row, token, pc, ev>>
    BY <1>2 DEF Age
  <2>2. ASSUME NEW d \in Deliveries, pc[d] \in Live, ~expired'[d]
        PROVE  ~expired[d] /\ token[ev[d]] = d /\ ev[d] # e
    <3>1. expired'[d] = (expired[d] \/ (token[e] = d /\ ev[d] = e /\ pc[d] \in Live))
      BY <1>2 DEF Age
    <3>2. ~expired[d] /\ ~(token[e] = d /\ ev[d] = e)
      BY Zenon, <2>2, <3>1
    <3>3. token[ev[d]] = d
      BY <2>2, <3>2
    <3> QED
      BY <3>2, <3>3
  <2>3. ASSUME NEW d \in Deliveries, ev[d] # e, ev[d] \in Events PROVE stale'[ev[d]] = stale[ev[d]]
    BY <1>2, <2>3 DEF Age
  <2> QED
    BY <2>1, <2>2, <2>3
<1>3. ASSUME NEW d \in Deliveries, NEW e \in Events, Arrive(d, e) PROVE HolderInTime'
  BY <1>3 DEF Arrive, claim, Goto
<1>4. ASSUME NEW d \in Deliveries, Create(d) PROVE HolderInTime'
  <2>1. CASE row[ev[d]] = "absent" /\ TakeClaim(d)
    BY <1>4, <2>1 DEF Create, TakeClaim, Goto
  <2>2. CASE row[ev[d]] # "absent" /\ Goto(d, "looking") /\ UNCHANGED <<claim, ev, overdue, step, expired>>
    BY <1>4, <2>2 DEF Create, Goto, claim
  <2> QED
    BY <1>4, <2>1, <2>2 DEF Create
<1>5. ASSUME NEW d \in Deliveries, Look(d) PROVE HolderInTime'
  <2>1. pc[d] = "looking" /\ UNCHANGED <<row, token, stale, effect>>
    BY <1>5 DEF Look, claim
  <2>2. CASE Duplicate(ev[d]) /\ Answer(d)
    BY <2>1, <2>2 DEF Answer, Leave, Goto
  <2>3. CASE Nack(d)
    BY <2>1, <2>3 DEF Nack, Forget, Leave, Goto
  <2>4. CASE Goto(d, "reclaiming") /\ UNCHANGED <<acked, ev, overdue, step, expired>>
    BY <2>1, <2>4 DEF Goto
  <2> QED
    BY <1>5, <2>2, <2>3, <2>4 DEF Look
<1>6. ASSUME NEW d \in Deliveries, Reclaim(d) PROVE HolderInTime'
  <2>1. pc[d] = "reclaiming" /\ UNCHANGED effect
    BY <1>6 DEF Reclaim
  <2>2. CASE Reclaimable(d) /\ TakeClaim(d) /\ UNCHANGED acked
    BY <2>1, <2>2 DEF TakeClaim, Goto
  <2>3. CASE Nack(d) /\ UNCHANGED claim
    BY <2>1, <2>3 DEF Nack, Forget, Leave, Goto, claim
  <2> QED
    BY <1>6, <2>2, <2>3 DEF Reclaim
<1>7. ASSUME NEW d \in Deliveries, ClaimThrows(d) PROVE HolderInTime'
  BY <1>7 DEF ClaimThrows, Nack, Forget, Leave, Goto, claim
<1>8. ASSUME NEW d \in Deliveries, ManagedCommit(d) PROVE HolderInTime'
  <2>1. CASE Answer(d)
    BY <1>8, <2>1 DEF ManagedCommit, Answer, Leave, Goto
  <2>2. CASE Nack(d)
    BY <1>8, <2>2 DEF ManagedCommit, Nack, Forget, Leave, Goto
  <2> QED
    BY <1>8, <2>1, <2>2 DEF ManagedCommit
<1>9. ASSUME NEW d \in Deliveries, ManagedDuplicate(d) PROVE HolderInTime'
  BY <1>9 DEF ManagedDuplicate, Answer, Leave, Goto, claim
<1>10. ASSUME NEW d \in Deliveries, HandlerStep(d) PROVE HolderInTime'
  BY <1>10 DEF HandlerStep, Goto, Commit, claim
<1>11. ASSUME NEW d \in Deliveries, HandlerThrows(d) PROVE HolderInTime'
  BY <1>11 DEF HandlerThrows, Goto, Commit, claim
<1>12. ASSUME NEW d \in Deliveries, MarkProcessed(d) PROVE HolderInTime'
  BY <1>12 DEF MarkProcessed, Mark, Holds, Answer, Leave, Goto
<1>13. ASSUME NEW d \in Deliveries, MarkProcessedThrows(d) PROVE HolderInTime'
  <2>1. CASE Mark(d, "PROCESSED")
    BY <1>13, <2>1 DEF MarkProcessedThrows, Mark, Holds, Goto
  <2>2. CASE UNCHANGED row
    BY <1>13, <2>2 DEF MarkProcessedThrows, Goto
  <2> QED
    BY <1>13, <2>1, <2>2 DEF MarkProcessedThrows
<1>14. ASSUME NEW d \in Deliveries, MarkFailed(d) PROVE HolderInTime'
  <2>1. CASE Mark(d, "FAILED")
    BY <1>14, <2>1 DEF MarkFailed, Mark, Holds, Nack, Forget, Leave, Goto
  <2>2. CASE UNCHANGED row
    BY <1>14, <2>2 DEF MarkFailed, Nack, Forget, Leave, Goto
  <2> QED
    BY <1>14, <2>1, <2>2 DEF MarkFailed
<1>15. ASSUME NEW d \in Deliveries, Crash(d) PROVE HolderInTime'
  BY <1>15 DEF Crash, Nack, Forget, Leave, Goto, claim
<1>16. ASSUME NEW d \in Deliveries, Reply(d) PROVE HolderInTime'
  BY <1>16 DEF Reply, Forget, Leave, Goto, claim
<1> QED
  BY <1>1, <1>2, <1>3, <1>4, <1>5, <1>6, <1>7, <1>8, <1>9, <1>10, <1>11, <1>12, <1>13, <1>14, <1>15, <1>16, Cases

LEMMA OverdueStep ==
  ASSUME Inv, [Next]_vars
  PROVE  OverdueIsStale'
<1> USE StepsAssumption, NoneAssumption, ManagedAssumption DEF effect, Last, Inv, TypeOK, PCs, Live, OverdueIsStale, StepsBehind, ManagedRows
<1>1. CASE UNCHANGED vars
  BY <1>1 DEF vars, claim, delivery
<1>2. ASSUME NEW e \in Events, Age(e) PROVE OverdueIsStale'
  BY <1>2 DEF Age
<1>3. ASSUME NEW d \in Deliveries, NEW e \in Events, Arrive(d, e) PROVE OverdueIsStale'
  BY <1>3 DEF Arrive, claim, Goto
<1>4. ASSUME NEW d \in Deliveries, Create(d) PROVE OverdueIsStale'
  <2>1. CASE row[ev[d]] = "absent" /\ TakeClaim(d)
    BY <1>4, <2>1 DEF Create, TakeClaim, Goto
  <2>2. CASE row[ev[d]] # "absent" /\ Goto(d, "looking") /\ UNCHANGED <<claim, ev, overdue, step, expired>>
    BY <1>4, <2>2 DEF Create, Goto, claim
  <2> QED
    BY <1>4, <2>1, <2>2 DEF Create
<1>5. ASSUME NEW d \in Deliveries, Look(d) PROVE OverdueIsStale'
  <2>1. pc[d] = "looking" /\ UNCHANGED <<row, token, stale, effect>>
    BY <1>5 DEF Look, claim
  <2>2. CASE Duplicate(ev[d]) /\ Answer(d)
    BY <2>1, <2>2 DEF Answer, Leave, Goto
  <2>3. CASE Nack(d)
    BY <2>1, <2>3 DEF Nack, Forget, Leave, Goto
  <2>4. CASE Goto(d, "reclaiming") /\ UNCHANGED <<acked, ev, overdue, step, expired>>
    BY <2>1, <2>4 DEF Goto
  <2> QED
    BY <1>5, <2>2, <2>3, <2>4 DEF Look
<1>6. ASSUME NEW d \in Deliveries, Reclaim(d) PROVE OverdueIsStale'
  <2>1. pc[d] = "reclaiming" /\ UNCHANGED effect
    BY <1>6 DEF Reclaim
  <2>2. CASE Reclaimable(d) /\ TakeClaim(d) /\ UNCHANGED acked
    BY <2>1, <2>2 DEF TakeClaim, Goto
  <2>3. CASE Nack(d) /\ UNCHANGED claim
    BY <2>1, <2>3 DEF Nack, Forget, Leave, Goto, claim
  <2> QED
    BY <1>6, <2>2, <2>3 DEF Reclaim
<1>7. ASSUME NEW d \in Deliveries, ClaimThrows(d) PROVE OverdueIsStale'
  BY <1>7 DEF ClaimThrows, Nack, Forget, Leave, Goto, claim
<1>8. ASSUME NEW d \in Deliveries, ManagedCommit(d) PROVE OverdueIsStale'
  <2>1. CASE Answer(d)
    BY <1>8, <2>1 DEF ManagedCommit, Answer, Leave, Goto
  <2>2. CASE Nack(d)
    BY <1>8, <2>2 DEF ManagedCommit, Nack, Forget, Leave, Goto
  <2> QED
    BY <1>8, <2>1, <2>2 DEF ManagedCommit
<1>9. ASSUME NEW d \in Deliveries, ManagedDuplicate(d) PROVE OverdueIsStale'
  BY <1>9 DEF ManagedDuplicate, Answer, Leave, Goto, claim
<1>10. ASSUME NEW d \in Deliveries, HandlerStep(d) PROVE OverdueIsStale'
  BY <1>10 DEF HandlerStep, Goto, Commit, claim
<1>11. ASSUME NEW d \in Deliveries, HandlerThrows(d) PROVE OverdueIsStale'
  BY <1>11 DEF HandlerThrows, Goto, Commit, claim
<1>12. ASSUME NEW d \in Deliveries, MarkProcessed(d) PROVE OverdueIsStale'
  BY <1>12 DEF MarkProcessed, Mark, Holds, Answer, Leave, Goto
<1>13. ASSUME NEW d \in Deliveries, MarkProcessedThrows(d) PROVE OverdueIsStale'
  <2>1. CASE Mark(d, "PROCESSED")
    BY <1>13, <2>1 DEF MarkProcessedThrows, Mark, Holds, Goto
  <2>2. CASE UNCHANGED row
    BY <1>13, <2>2 DEF MarkProcessedThrows, Goto
  <2> QED
    BY <1>13, <2>1, <2>2 DEF MarkProcessedThrows
<1>14. ASSUME NEW d \in Deliveries, MarkFailed(d) PROVE OverdueIsStale'
  <2>1. CASE Mark(d, "FAILED")
    BY <1>14, <2>1 DEF MarkFailed, Mark, Holds, Nack, Forget, Leave, Goto
  <2>2. CASE UNCHANGED row
    BY <1>14, <2>2 DEF MarkFailed, Nack, Forget, Leave, Goto
  <2> QED
    BY <1>14, <2>1, <2>2 DEF MarkFailed
<1>15. ASSUME NEW d \in Deliveries, Crash(d) PROVE OverdueIsStale'
  BY <1>15 DEF Crash, Nack, Forget, Leave, Goto, claim
<1>16. ASSUME NEW d \in Deliveries, Reply(d) PROVE OverdueIsStale'
  BY <1>16 DEF Reply, Forget, Leave, Goto, claim
<1> QED
  BY <1>1, <1>2, <1>3, <1>4, <1>5, <1>6, <1>7, <1>8, <1>9, <1>10, <1>11, <1>12, <1>13, <1>14, <1>15, <1>16, Cases

LEMMA AckedStep ==
  ASSUME Inv, [Next]_vars
  PROVE  AckedMeansApplied'
<1> USE StepsAssumption, NoneAssumption, ManagedAssumption DEF effect, Last, Inv, TypeOK, PCs, AckedMeansApplied, ProcessedComplete, Complete, StepsBehind, Duplicate, ManagedRows
<1>1. CASE UNCHANGED vars
  BY <1>1 DEF vars, claim, delivery
<1>2. ASSUME NEW e \in Events, Age(e) PROVE AckedMeansApplied'
  BY <1>2 DEF Age
<1>3. ASSUME NEW d \in Deliveries, NEW e \in Events, Arrive(d, e) PROVE AckedMeansApplied'
  BY <1>3 DEF Arrive, claim, Goto
<1>4. ASSUME NEW d \in Deliveries, Create(d) PROVE AckedMeansApplied'
  <2>1. CASE row[ev[d]] = "absent" /\ TakeClaim(d)
    BY <1>4, <2>1 DEF Create, TakeClaim, Goto
  <2>2. CASE row[ev[d]] # "absent" /\ Goto(d, "looking") /\ UNCHANGED <<claim, ev, overdue, step, expired>>
    BY <1>4, <2>2 DEF Create, Goto, claim
  <2> QED
    BY <1>4, <2>1, <2>2 DEF Create
<1>5. ASSUME NEW d \in Deliveries, Look(d) PROVE AckedMeansApplied'
  <2>1. pc[d] = "looking" /\ UNCHANGED <<row, token, stale, effect>>
    BY <1>5 DEF Look, claim
  <2>2. CASE Duplicate(ev[d]) /\ Answer(d)
    BY <2>1, <2>2 DEF Answer, Leave, Goto
  <2>3. CASE Nack(d)
    BY <2>1, <2>3 DEF Nack, Forget, Leave, Goto
  <2>4. CASE Goto(d, "reclaiming") /\ UNCHANGED <<acked, ev, overdue, step, expired>>
    BY <2>1, <2>4 DEF Goto
  <2> QED
    BY <1>5, <2>2, <2>3, <2>4 DEF Look
<1>6. ASSUME NEW d \in Deliveries, Reclaim(d) PROVE AckedMeansApplied'
  <2>1. pc[d] = "reclaiming" /\ UNCHANGED effect
    BY <1>6 DEF Reclaim
  <2>2. CASE Reclaimable(d) /\ TakeClaim(d) /\ UNCHANGED acked
    BY <2>1, <2>2 DEF TakeClaim, Goto
  <2>3. CASE Nack(d) /\ UNCHANGED claim
    BY <2>1, <2>3 DEF Nack, Forget, Leave, Goto, claim
  <2> QED
    BY <1>6, <2>2, <2>3 DEF Reclaim
<1>7. ASSUME NEW d \in Deliveries, ClaimThrows(d) PROVE AckedMeansApplied'
  BY <1>7 DEF ClaimThrows, Nack, Forget, Leave, Goto, claim
<1>8. ASSUME NEW d \in Deliveries, ManagedCommit(d) PROVE AckedMeansApplied'
  <2>1. CASE Answer(d)
    BY <1>8, <2>1 DEF ManagedCommit, Answer, Leave, Goto
  <2>2. CASE Nack(d)
    BY <1>8, <2>2 DEF ManagedCommit, Nack, Forget, Leave, Goto
  <2> QED
    BY <1>8, <2>1, <2>2 DEF ManagedCommit
<1>9. ASSUME NEW d \in Deliveries, ManagedDuplicate(d) PROVE AckedMeansApplied'
  BY <1>9 DEF ManagedDuplicate, Answer, Leave, Goto, claim
<1>10. ASSUME NEW d \in Deliveries, HandlerStep(d) PROVE AckedMeansApplied'
  BY <1>10 DEF HandlerStep, Goto, Commit, claim
<1>11. ASSUME NEW d \in Deliveries, HandlerThrows(d) PROVE AckedMeansApplied'
  <2>1. CASE UNCHANGED effect
    BY <1>11, <2>1 DEF HandlerThrows, Goto, claim
  <2>2. CASE ~Aborts(d) /\ Commit(d)
    BY <1>11, <2>2 DEF HandlerThrows, Goto, Commit, claim
  <2> QED
    BY <1>11, <2>1, <2>2 DEF HandlerThrows
<1>12. ASSUME NEW d \in Deliveries, MarkProcessed(d) PROVE AckedMeansApplied'
  BY <1>12 DEF MarkProcessed, Mark, Holds, Answer, Leave, Goto
<1>13. ASSUME NEW d \in Deliveries, MarkProcessedThrows(d) PROVE AckedMeansApplied'
  <2>1. CASE Mark(d, "PROCESSED")
    BY <1>13, <2>1 DEF MarkProcessedThrows, Mark, Holds, Goto
  <2>2. CASE UNCHANGED row
    BY <1>13, <2>2 DEF MarkProcessedThrows, Goto
  <2> QED
    BY <1>13, <2>1, <2>2 DEF MarkProcessedThrows
<1>14. ASSUME NEW d \in Deliveries, MarkFailed(d) PROVE AckedMeansApplied'
  <2>1. CASE Mark(d, "FAILED")
    BY <1>14, <2>1 DEF MarkFailed, Mark, Holds, Nack, Forget, Leave, Goto
  <2>2. CASE UNCHANGED row
    BY <1>14, <2>2 DEF MarkFailed, Nack, Forget, Leave, Goto
  <2> QED
    BY <1>14, <2>1, <2>2 DEF MarkFailed
<1>15. ASSUME NEW d \in Deliveries, Crash(d) PROVE AckedMeansApplied'
  BY <1>15 DEF Crash, Nack, Forget, Leave, Goto, claim
<1>16. ASSUME NEW d \in Deliveries, Reply(d) PROVE AckedMeansApplied'
  BY <1>16 DEF Reply, Forget, Leave, Goto, claim
<1> QED
  BY <1>1, <1>2, <1>3, <1>4, <1>5, <1>6, <1>7, <1>8, <1>9, <1>10, <1>11, <1>12, <1>13, <1>14, <1>15, <1>16, Cases

LEMMA InvStep == Inv /\ [Next]_vars => Inv'
<1> SUFFICES ASSUME Inv, [Next]_vars PROVE Inv'
  OBVIOUS
\* A handler in time holds the claim, and a claim has one holder.
<1>1. HolderInTime' => OneLiveHandler'
  BY DEF HolderInTime, OneLiveHandler, Expired
<1> QED
  BY <1>1, TypeStep, CompleteStep, ManagedStep, BehindStep, HolderStep, OverdueStep,
     AckedStep DEF Inv

LEMMA Invariant == Spec => []Inv
BY InitInv, InvStep, PTL DEF Spec

\* The status, the token and the clocks of an event, and the place of a delivery,
\* are what their types say (stripe_webhook_event.status, claim_token).
THEOREM TypeCorrect == Spec => []TypeOK
<1>1. Inv => TypeOK
  BY DEF Inv
<1> QED
  BY <1>1, Invariant, PTL

\* A 200 is sent only for an event whose handler ran to its end, for any number of
\* deliveries, crashes and takeovers (the processor and the deduplication service).
THEOREM NothingAckedIsLost == Spec => []AckedMeansApplied
<1>1. Inv => AckedMeansApplied
  BY DEF Inv
<1> QED
  BY <1>1, Invariant, PTL

\* Handlers of one event overlap only when one has outlived its claim
\* (tryReclaimProcessingClaim and the token in markProcessed and markFailed).
THEOREM HandlersExclusive == Spec => []OneLiveHandler
<1>1. Inv => OneLiveHandler
  BY DEF Inv
<1> QED
  BY <1>1, Invariant, PTL

\* No later mark or claim reopens a processed event.
THEOREM ProcessedStays == Spec => ProcessedIsFinal
<1> DEFINE Stays == \A e \in Events : row[e] = "PROCESSED" => row'[e] = "PROCESSED"
<1>1. ASSUME Inv, [Next]_vars PROVE Stays
  <2> USE <1>1 DEF Inv, TypeOK, StepsBehind, ManagedRows
  <2>1. CASE UNCHANGED row
    BY <2>1
  <2>2. ASSUME NEW d \in Deliveries, TakeClaim(d), row[ev[d]] # "PROCESSED" PROVE Stays
    BY <2>2 DEF TakeClaim
  <2>3. ASSUME NEW d \in Deliveries, Create(d) PROVE Stays
    BY <2>1, <2>2, <2>3 DEF Create, claim
  <2>4. ASSUME NEW d \in Deliveries, Reclaim(d) PROVE Stays
    BY <2>1, <2>2, <2>4 DEF Reclaim, Reclaimable, claim
  <2>5. ASSUME NEW d \in Deliveries, ManagedCommit(d) PROVE Stays
    BY <2>5 DEF ManagedCommit
  <2>6. ASSUME NEW d \in Deliveries, MarkProcessed(d) \/ MarkProcessedThrows(d) \/ MarkFailed(d) PROVE Stays
    BY <2>6 DEF MarkProcessed, MarkProcessedThrows, MarkFailed, Mark, Holds
  <2> QED
    BY <2>1, <2>3, <2>4, <2>5, <2>6, Cases
    DEF vars, claim, Age, Arrive, Look, ClaimThrows, ManagedDuplicate, HandlerStep,
        HandlerThrows, Reply, Crash
<1>2. Inv /\ [Next]_vars => [Stays]_vars
  BY <1>1
<1> QED
  BY <1>2, Invariant, PTL DEF ProcessedIsFinal, Spec
=============================================================================
