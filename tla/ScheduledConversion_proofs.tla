--------------------- MODULE ScheduledConversion_proofs ---------------------
(***************************************************************************)
(* What holds of a scheduled conversion for any number of instances,       *)
(* cancelling consumers and administrators.  The compare-and-set of Claim  *)
(* and the version check of the administrators split the row's owners:     *)
(* the invariant says that at most one of them is at work on a row.        *)
(***************************************************************************)
EXTENDS ScheduledConversion, TLAPS

LEMMA InitInv == Init => Inv
  BY KeysAssumption DEF Init, Inv, TypeOK, WorkerOwnsRow, ForcedIsFinal, MarksConverted, ForcedOnce,
     ExecutedExplained, Statuses, LedgerIds, Busy

\* A worker that has taken up a row has one.
LEMMA BusyHasRow ==
  ASSUME TypeOK, NEW w \in Workers, pc[w] # "idle"
  PROVE  cur[w] \in Conversions
  BY DEF TypeOK

LEMMA TypeStep == TypeOK /\ [Next]_vars => TypeOK'
<1> SUFFICES ASSUME TypeOK, [Next]_vars PROVE TypeOK'
  OBVIOUS
<1> USE KeysAssumption
<1> USE DEF TypeOK, Statuses, LedgerIds, Busy, Goto, Rest, Update
<1>1. ASSUME NEW w \in Workers, NEW c \in Conversions, Find(w, c) PROVE TypeOK'
  BY <1>1 DEF Find, row, request
<1>2. ASSUME NEW w \in Workers, Claim(w) PROVE TypeOK'
  BY <1>2, BusyHasRow DEF Claim, request
<1>3. ASSUME NEW w \in Workers, Convert(w) PROVE TypeOK'
  BY <1>3, BusyHasRow DEF Convert, row, request
<1>4. ASSUME NEW w \in Workers, MarkExecuted(w) PROVE TypeOK'
  BY <1>4, BusyHasRow DEF MarkExecuted, row, request
<1>5. ASSUME NEW w \in Workers, MarkFailed(w) \/ Crash(w) PROVE TypeOK'
  BY <1>5, BusyHasRow DEF MarkFailed, Crash, row, request
<1>6. ASSUME NEW q \in Cancels, NEW c \in Conversions, CancelCheck(q, c) PROVE TypeOK'
  BY <1>6 DEF CancelCheck, row, worker
<1>7. ASSUME NEW q \in Cancels, CancelWrite(q) PROVE TypeOK'
  BY <1>7 DEF CancelWrite, worker
<1>8. ASSUME NEW a \in Admins, NEW c \in Conversions, Look(a, c) PROVE TypeOK'
  BY <1>8 DEF Look, row, worker
<1>9. ASSUME NEW a \in Admins, ForceExecute(a) PROVE TypeOK'
  BY <1>9 DEF ForceExecute, Current, Finalized, Done, worker
<1>10. ASSUME NEW a \in Admins, AdminCancel(a) \/ AdminRefused(a) PROVE TypeOK'
  BY <1>10 DEF AdminCancel, AdminRefused, Current, Done, row, worker
<1>11. ASSUME UNCHANGED vars PROVE TypeOK'
  BY <1>11 DEF vars, row, worker, request
<1> QED BY <1>1, <1>2, <1>3, <1>4, <1>5, <1>6, <1>7, <1>8, <1>9, <1>10, <1>11 DEF Next, Work

-----------------------------------------------------------------------------
Core == WorkerOwnsRow /\ ForcedIsFinal /\ MarksConverted /\ ForcedOnce /\ ExecutedExplained

LEMMA CoreStep == TypeOK /\ Core /\ [Next]_vars => Core'
<1> SUFFICES ASSUME TypeOK, Core, [Next]_vars PROVE Core'
  OBVIOUS
<1>t. TypeOK'
  BY TypeStep
<1> USE KeysAssumption
<1> USE DEF Core, WorkerOwnsRow, ForcedIsFinal, MarksConverted, ForcedOnce, ExecutedExplained, Busy,
            Goto, Rest, Update
<1>1. ASSUME NEW w \in Workers, NEW c \in Conversions, Find(w, c) PROVE Core'
  BY <1>1 DEF Find, row, TypeOK
<1>2. ASSUME NEW w \in Workers, Claim(w) PROVE Core'
  <2>1. cur[w] \in Conversions
    BY <1>2, BusyHasRow DEF Claim
  <2> QED BY <1>2, <2>1 DEF Claim, Claimable, TypeOK
<1>3. ASSUME NEW w \in Workers, Convert(w) PROVE Core'
  <2>1. cur[w] \in Conversions /\ Scheduled \notin Admins
    BY <1>3, BusyHasRow DEF Convert
  <2>2. \A c \in Conversions : /\ converted'[c] \cap Admins = converted[c] \cap Admins
                               /\ converted[c] \subseteq converted'[c]
    BY <1>3, <2>1 DEF Convert, TypeOK
  <2>3. UNCHANGED <<row, cur>> /\ \A v \in Workers : pc'[v] \in Busy <=> pc[v] \in Busy
    BY <1>3 DEF Convert, TypeOK
  <2>4. MarksConverted'
    BY <1>3, <2>1, <2>2 DEF Convert, TypeOK
  <2>5. (WorkerOwnsRow /\ ForcedIsFinal)'
    BY <2>2, <2>3 DEF row
  <2>6. (ForcedOnce /\ ExecutedExplained)'
    BY <2>2, <2>3 DEF row
  <2> QED BY <2>4, <2>5, <2>6
<1>4. ASSUME NEW w \in Workers, MarkExecuted(w) PROVE Core'
  <2>1. cur[w] \in Conversions
    BY <1>4, BusyHasRow DEF MarkExecuted
  <2> QED BY <1>4, <2>1 DEF MarkExecuted, row, TypeOK
<1>5. ASSUME NEW w \in Workers, MarkFailed(w) PROVE Core'
  <2>1. cur[w] \in Conversions
    BY <1>5, BusyHasRow DEF MarkFailed
  <2> QED BY <1>5, <2>1 DEF MarkFailed, row, TypeOK
<1>6. ASSUME NEW w \in Workers, Crash(w) PROVE Core'
  BY <1>6 DEF Crash, row, TypeOK
<1>7. ASSUME NEW q \in Cancels, CancelWrite(q) PROVE Core'
  BY <1>7 DEF CancelWrite, worker, TypeOK
<1>8. ASSUME NEW a \in Admins, ForceExecute(a) PROVE Core'
  <2>1. target[a] \in Conversions /\ status[target[a]] \in {"PENDING", "FAILED"}
    BY <1>8 DEF ForceExecute, Current, Forcible, TypeOK
  <2>2. \A w \in Workers : pc[w] \in Busy => cur[w] # target[a]
    BY <2>1
  <2>3. converted[target[a]] \cap Admins = {}
    BY <2>1
  <2>4. PICK ok \in BOOLEAN :
          /\ status' = [status EXCEPT ![target[a]] = Finalized(ok)]
          /\ ledger' = [ledger EXCEPT ![target[a]] = IF ok THEN a ELSE None]
          /\ converted' = IF ok THEN [converted EXCEPT ![target[a]] = @ \cup {a}] ELSE converted
    BY <1>8 DEF ForceExecute
  <2>5. UNCHANGED <<pc, cur>>
    BY <1>8 DEF ForceExecute, worker
  <2>6. WorkerOwnsRow'
    BY <2>1, <2>2, <2>4, <2>5, BusyHasRow DEF TypeOK
  <2>7. ForcedIsFinal'
    BY <2>1, <2>2, <2>3, <2>4, <2>5 DEF TypeOK, Finalized
  <2>8. MarksConverted'
    BY <2>1, <2>4, <2>5, BusyHasRow DEF TypeOK
  <2>9. ForcedOnce'
    BY <2>1, <2>3, <2>4 DEF TypeOK
  <2>10. ExecutedExplained'
    BY <2>1, <2>4 DEF TypeOK, Finalized
  <2> QED BY <2>6, <2>7, <2>8, <2>9, <2>10
<1>9. ASSUME NEW a \in Admins, AdminCancel(a) PROVE Core'
  BY <1>9 DEF AdminCancel, Current, worker, TypeOK
<1>10. ASSUME UNCHANGED <<row, converted, worker>> PROVE Core'
  BY <1>10 DEF row, worker
<1>11. ASSUME NEW q \in Cancels \cup Admins, NEW c \in Conversions, CancelCheck(q, c) \/ Look(q, c)
       PROVE  Core'
  BY <1>10, <1>11 DEF CancelCheck, Look
<1>12. ASSUME (\E a \in Admins : AdminRefused(a)) \/ UNCHANGED vars PROVE Core'
  BY <1>10, <1>12 DEF AdminRefused, vars
<1> QED BY <1>1, <1>2, <1>3, <1>4, <1>5, <1>6, <1>7, <1>8, <1>9, <1>11, <1>12 DEF Next, Work

LEMMA Invariance == Spec => []Inv
<1>1. Inv /\ [Next]_vars => Inv'
  BY TypeStep, CoreStep DEF Inv, Core
<1> QED BY <1>1, InitInv, PTL DEF Spec

\* Every variable keeps its type, and only an idle worker is without a row.
THEOREM TypeCorrect == Spec => []TypeOK
<1>1. Inv => TypeOK
  BY DEF Inv
<1> QED BY <1>1, Invariance, PTL

\* However many instances run the cron, one worker at a time converts a row, and
\* no administrator changes it meanwhile.
THEOREM OneWorkerAlone == Spec => []WorkerOwnsRow
<1>1. Inv => WorkerOwnsRow
  BY DEF Inv
<1> QED BY <1>1, Invariance, PTL

\* However many administrators act, on whatever versions, one of them at most
\* moves the money of a conversion.
THEOREM ForcedAtMostOnce == Spec => []ForcedOnce
<1>1. Inv => ForcedOnce
  BY DEF Inv
<1> QED BY <1>1, Invariance, PTL

\* A row reported as EXECUTED names rows that are in the ledger.
THEOREM ExecutedHasRows == Spec => []ExecutedExplained
<1>1. Inv => ExecutedExplained
  BY DEF Inv
<1> QED BY <1>1, Invariance, PTL

-----------------------------------------------------------------------------
\* How the money of a conversion can move twice.  Until a worker has converted it a row
\* is untouched, and none comes back to where a worker or an administrator would take it
\* for new.
Untouched ==
  /\ \A c \in Conversions : status[c] = "PENDING" => converted[c] = {}
  /\ \A w \in Workers : pc[w] = "converting" => converted[cur[w]] = {}

\* What has been converted is converted again by an administrator who forces a row that
\* reads FAILED, and by nothing else.
SecondOnlyForced ==
  [][\A c \in Conversions :
       converted[c] # {} /\ converted'[c] # converted[c] =>
         /\ status[c] = "FAILED"
         /\ \E a \in Admins : converted'[c] = converted[c] \cup {a}]_vars

LEMMA UntouchedKept ==
  ASSUME Inv, Untouched, UNCHANGED converted,
         \A c \in Conversions : status'[c] = "PENDING" => status[c] = "PENDING",
         \A w \in Workers : pc'[w] = "converting" =>
            cur'[w] = cur[w] /\ (pc[w] = "converting" \/ status[cur[w]] = "PENDING"),
         TypeOK'
  PROVE  Untouched'
<1>1. ASSUME NEW w \in Workers, pc'[w] = "converting" PROVE converted'[cur'[w]] = {}
  <2>1. cur'[w] \in Conversions
    BY <1>1 DEF TypeOK
  <2> QED BY <1>1, <2>1 DEF Untouched
<1> QED BY <1>1 DEF Untouched

LEMMA UntouchedStep ==
  ASSUME Inv, Untouched, [Next]_vars
  PROVE  /\ Untouched'
         /\ \A c \in Conversions :
              converted[c] # {} /\ converted'[c] # converted[c] =>
                status[c] = "FAILED" /\ \E a \in Admins : converted'[c] = converted[c] \cup {a}
<1> DEFINE Second == \A c \in Conversions :
                       converted[c] # {} /\ converted'[c] # converted[c] =>
                         /\ status[c] = "FAILED"
                         /\ \E a \in Admins : converted'[c] = converted[c] \cup {a}
<1> SUFFICES Untouched' /\ Second
  OBVIOUS
<1>t. TypeOK /\ TypeOK'
  BY TypeStep DEF Inv
<1>u. ASSUME UNCHANGED converted PROVE Second
  BY <1>u
<1>1. ASSUME UNCHANGED <<converted, status>>,
             \A w \in Workers : pc'[w] = "converting" => pc[w] = "converting" /\ cur'[w] = cur[w]
      PROVE  Untouched' /\ Second
  BY <1>1, <1>t, <1>u, UntouchedKept
<1>2. ASSUME NEW w \in Workers, Claim(w) PROVE Untouched' /\ Second
  <2>1. cur[w] \in Conversions
    BY <1>2, <1>t, BusyHasRow DEF Claim
  <2>2. UNCHANGED converted
    BY <1>2 DEF Claim
  <2>3. \A c \in Conversions : status'[c] = "PENDING" => status[c] = "PENDING"
    BY <1>2, <1>t, <2>1 DEF Claim, Update, TypeOK
  <2>4. \A v \in Workers : pc'[v] = "converting" =>
           cur'[v] = cur[v] /\ (pc[v] = "converting" \/ status[cur[v]] = "PENDING")
    BY <1>2, <1>t DEF Claim, Claimable, Goto, Rest, TypeOK
  <2> QED BY <1>t, <1>u, <2>2, <2>3, <2>4, UntouchedKept
<1>3. ASSUME NEW w \in Workers, Convert(w) PROVE Untouched' /\ Second
  <2>1. cur[w] \in Conversions /\ pc[w] = "converting" /\ converted[cur[w]] = {}
    BY <1>3, <1>t, BusyHasRow DEF Convert, Untouched
  <2>2. \A c \in Conversions : c # cur[w] => converted'[c] = converted[c]
    BY <1>3, <1>t, <2>1 DEF Convert, TypeOK
  <2>3. Second
    BY <2>1, <2>2
  <2>4. UNCHANGED <<status, cur>> /\ \A v \in Workers : pc'[v] = "converting" =>
                                                           pc[v] = "converting" /\ v # w
    BY <1>3, <1>t DEF Convert, Goto, row, TypeOK
  <2>5. status[cur[w]] # "PENDING"
    BY <2>1 DEF Inv, WorkerOwnsRow, Busy
  <2>6. \A v \in Workers : pc'[v] = "converting" => cur[v] # cur[w]
    BY <2>1, <2>4 DEF Inv, WorkerOwnsRow, Busy
  <2>7. \A v \in Workers : pc'[v] = "converting" => cur[v] \in Conversions
    BY <1>t, <2>4, BusyHasRow
  <2> QED BY <2>2, <2>3, <2>4, <2>5, <2>6, <2>7 DEF Untouched
<1>4. ASSUME NEW a \in Admins, ForceExecute(a) PROVE Untouched' /\ Second
  <2> DEFINE d == target[a]
  <2>1. d \in Conversions /\ status[d] \in {"PENDING", "FAILED"}
    BY <1>4, <1>t DEF ForceExecute, Current, Forcible, TypeOK
  <2>2. PICK ok \in BOOLEAN :
          /\ status' = [status EXCEPT ![d] = Finalized(ok)]
          /\ converted' = IF ok THEN [converted EXCEPT ![d] = @ \cup {a}] ELSE converted
    BY <1>4 DEF ForceExecute, Update
  <2>3. UNCHANGED <<pc, cur>>
    BY <1>4 DEF ForceExecute, worker
  <2> HIDE DEF d
  <2>4. \A c \in Conversions : /\ c # d => converted'[c] = converted[c] /\ status'[c] = status[c]
                               /\ c = d => status'[c] # "PENDING"
    BY <1>t, <2>1, <2>2 DEF TypeOK, Finalized
  <2>5. converted'[d] = converted[d] \/ converted'[d] = converted[d] \cup {a}
    BY <1>t, <2>1, <2>2 DEF TypeOK
  <2>6. converted[d] # {} => status[d] = "FAILED"
    BY <2>1 DEF Untouched
  <2>7. \A w \in Workers : pc[w] = "converting" => cur[w] \in Conversions /\ cur[w] # d
    BY <1>t, <2>1, BusyHasRow DEF Inv, WorkerOwnsRow, Busy
  <2> QED BY <2>3, <2>4, <2>5, <2>6, <2>7 DEF Untouched
<1>5. ASSUME NEW w \in Workers, NEW c \in Conversions, Find(w, c) PROVE Untouched' /\ Second
  <2>1. UNCHANGED <<converted, status>>
    BY <1>5 DEF Find, row
  <2>2. \A v \in Workers : pc'[v] = "converting" => pc[v] = "converting" /\ cur'[v] = cur[v]
    BY <1>5, <1>t DEF Find, Goto, TypeOK
  <2> QED BY <1>1, <2>1, <2>2
<1>6. ASSUME NEW w \in Workers, MarkExecuted(w) \/ MarkFailed(w) PROVE Untouched' /\ Second
  <2>1. cur[w] \in Conversions /\ UNCHANGED converted
    BY <1>6, <1>t, BusyHasRow DEF MarkExecuted, MarkFailed
  <2>2. \A c \in Conversions : status'[c] = "PENDING" => status[c] = "PENDING"
    BY <1>6, <1>t, <2>1 DEF MarkExecuted, MarkFailed, Update, row, TypeOK
  <2>3. \A v \in Workers : pc'[v] = "converting" => pc[v] = "converting" /\ cur'[v] = cur[v]
    BY <1>6, <1>t DEF MarkExecuted, MarkFailed, Goto, Rest, TypeOK
  <2> QED BY <1>t, <1>u, <2>1, <2>2, <2>3, UntouchedKept
<1>7. ASSUME NEW w \in Workers, Crash(w) PROVE Untouched' /\ Second
  <2>1. UNCHANGED <<converted, status>>
    BY <1>7 DEF Crash, row
  <2>2. \A v \in Workers : pc'[v] = "converting" => pc[v] = "converting" /\ cur'[v] = cur[v]
    BY <1>7, <1>t DEF Crash, Goto, Rest, TypeOK
  <2> QED BY <1>1, <2>1, <2>2
<1>8. ASSUME NEW c \in Conversions, status' = [status EXCEPT ![c] = "CANCELLED"],
             UNCHANGED <<converted, pc, cur>>
      PROVE  Untouched' /\ Second
  <2>1. \A e \in Conversions : status'[e] = "PENDING" => status[e] = "PENDING"
    BY <1>8, <1>t DEF TypeOK
  <2> QED BY <1>8, <1>t, <1>u, <2>1, UntouchedKept
<1>9. ASSUME NEW q \in Cancels, CancelWrite(q) PROVE Untouched' /\ Second
  <2>1. target[q] \in Conversions
    BY <1>9, <1>t DEF CancelWrite, TypeOK
  <2> QED BY <1>8, <1>9, <2>1 DEF CancelWrite, Update, worker
<1>10. ASSUME NEW a \in Admins, AdminCancel(a) PROVE Untouched' /\ Second
  <2>1. target[a] \in Conversions
    BY <1>10, <1>t DEF AdminCancel, Current, TypeOK
  <2> QED BY <1>8, <1>10, <2>1 DEF AdminCancel, Update, worker
<1>11. ASSUME UNCHANGED <<row, converted, worker>> PROVE Untouched' /\ Second
  BY <1>1, <1>11 DEF row, worker
<1>12. ASSUME NEW q \in Cancels \cup Admins, NEW c \in Conversions,
              CancelCheck(q, c) \/ Look(q, c) \/ AdminRefused(q)
       PROVE  Untouched' /\ Second
  BY <1>11, <1>12 DEF CancelCheck, Look, AdminRefused
<1>13. CASE UNCHANGED vars
  BY <1>11, <1>13 DEF vars
<1> HIDE DEF Second
<1>14. CASE \E w \in Workers : Work(w) \/ Crash(w)
  BY <1>2, <1>3, <1>5, <1>6, <1>7, <1>14 DEF Work
<1>15. CASE \E q \in Cancels : CancelWrite(q) \/ \E c \in Conversions : CancelCheck(q, c)
  BY <1>9, <1>12, <1>15
<1>16. CASE \E a \in Admins : \/ ForceExecute(a) \/ AdminCancel(a) \/ AdminRefused(a)
                              \/ \E c \in Conversions : Look(a, c)
  <2>1. ASSUME NEW a \in Admins, AdminRefused(a) PROVE Untouched' /\ Second
    BY <1>11, <2>1 DEF AdminRefused
  <2> QED BY <1>4, <1>10, <1>12, <1>16, <2>1
<1> QED BY <1>13, <1>14, <1>15, <1>16 DEF Next

LEMMA UntouchedHolds == Spec => [](Inv /\ Untouched)
<1>1. Init => Inv /\ Untouched
  <2>1. Init => Untouched
    BY DEF Init, Untouched
  <2> QED BY <2>1, InitInv
<1>2. Inv /\ Untouched /\ [Next]_vars => (Inv /\ Untouched)'
  <2>1. Inv /\ [Next]_vars => Inv'
    BY TypeStep, CoreStep DEF Inv, Core
  <2> QED BY <2>1, UntouchedStep
<1> QED BY <1>1, <1>2, PTL DEF Spec

\* The cron's runs convert a row once among them, whichever of their steps is lost or
\* repeated; a second time it takes an administrator, and a row that reads FAILED
\* although its money has moved.
THEOREM ConvertedAgainByForce == Spec => SecondOnlyForced
<1>1. Inv /\ Untouched /\ [Next]_vars =>
        [\A c \in Conversions :
           converted[c] # {} /\ converted'[c] # converted[c] =>
             /\ status[c] = "FAILED"
             /\ \E a \in Admins : converted'[c] = converted[c] \cup {a}]_vars
  BY UntouchedStep
<1> QED BY <1>1, UntouchedHolds, PTL DEF Spec, SecondOnlyForced
=============================================================================
