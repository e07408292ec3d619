------------------------ MODULE ScheduledConversion ------------------------
(***************************************************************************)
(* Scheduled currency conversions.  The cron of every api-v2 instance      *)
(* lists the due PENDING rows and works through them: claim the row by a   *)
(* compare-and-set, convert under the key scheduled:<id>, mark the row     *)
(* EXECUTED, or FAILED when anything in between threw.  Meanwhile the      *)
(* consumer may cancel (read the row, then update it without looking       *)
(* again) and administrators may cancel or force-execute it, in one        *)
(* transaction guarded by the row's version and under a key of their own.  *)
(*                                                                         *)
(* The conversion itself is Wallet's exchange, seen from outside: it moves *)
(* the money or not, and its caller learns which or gets an error.  Every  *)
(* conversion is taken to be due.                                          *)
(***************************************************************************)
EXTENDS Naturals, FiniteSets

CONSTANTS Conversions,  \* scheduled_fx_conversion rows
          Workers,      \* cron runs, one per instance
          Cancels,      \* cancel requests of the consumer
          Admins,       \* admin requests, each with an idempotency key
          Scheduled,    \* the key scheduled:<id>
          None          \* no conversion, no ledger id

ASSUME KeysAssumption == Scheduled \notin Admins /\ None \notin Admins \cup {Scheduled} \cup Conversions

VARIABLES
  status,     \* the row's status
  version,    \* the row's updatedAt, which an update may bump
  ledger,     \* the row's ledgerId, named by the key it was inserted under
  converted,  \* keys under which the row's money has been exchanged
  pc, cur,    \* each worker's place in the loop and the row it is on
  phase,      \* each request: new, checked or done
  target,     \* the row a request is about
  seen        \* the version an admin request carries

row     == <<status, version, ledger>>
worker  == <<pc, cur>>
request == <<phase, target, seen>>
vars    == <<row, converted, worker, request>>

Statuses  == {"PENDING", "PROCESSING", "EXECUTED", "FAILED", "CANCELLED"}
LedgerIds == Admins \cup {Scheduled}
Busy      == {"converting", "marking", "failing"}

\* A definition marked Fault is a bug planted in place of the one that follows it.
\* Fault: the claim takes a row another worker is processing.
ClaimableAgain(c) == status[c] \in {"PENDING", "PROCESSING"}

\* Fault: the statuses of the compare-and-set the wrong way round.
ClaimableReversed(c) == status[c] = "PROCESSING"

Claimable(c) == status[c] = "PENDING"

\* Fault: the executed row is not excluded.
ForcibleUnlessCancelled(c) == status[c] # "CANCELLED"

Forcible(c) == status[c] \in {"PENDING", "FAILED"}

\* Fault: the row is finalised as executed whatever the executor returned.
FinalizedBlindly(ok) == "EXECUTED"

Finalized(ok) == IF ok THEN "EXECUTED" ELSE "FAILED"

\* An update of the row.  The version is @updatedAt in milliseconds: two updates
\* in one millisecond leave it as it was.
Update(c, new) ==
  /\ status' = [status EXCEPT ![c] = new]
  /\ \E tick \in {0, 1} : version' = [version EXCEPT ![c] = @ + tick]

-----------------------------------------------------------------------------
Init ==
  /\ status = [c \in Conversions |-> "PENDING"]
  /\ version = [c \in Conversions |-> 0]
  /\ ledger = [c \in Conversions |-> None]
  /\ converted = [c \in Conversions |-> {}]
  /\ pc = [w \in Workers |-> "idle"]
  /\ cur = [w \in Workers |-> None]
  /\ phase = [q \in Cancels \cup Admins |-> "new"]
  /\ target = [q \in Cancels \cup Admins |-> None]
  /\ seen = [a \in Admins |-> 0]

Goto(w, where) == pc' = [pc EXCEPT ![w] = where]

Rest(w) == Goto(w, "idle") /\ cur' = [cur EXCEPT ![w] = None]

-----------------------------------------------------------------------------
\* The row is in the list findDueScheduledConversions returned.
Find(w, c) ==
  /\ pc[w] = "idle" /\ status[c] = "PENDING"
  /\ Goto(w, "found") /\ cur' = [cur EXCEPT ![w] = c]
  /\ UNCHANGED <<row, converted, request>>

\* updateMany where status = PENDING: count 0 skips the row.
Claim(w) ==
  /\ pc[w] = "found"
  /\ \/ /\ Claimable(cur[w])
        /\ Update(cur[w], "PROCESSING") /\ Goto(w, "converting") /\ UNCHANGED cur
     \/ /\ ~Claimable(cur[w])
        /\ Rest(w) /\ UNCHANGED <<status, version>>
  /\ UNCHANGED <<ledger, converted, request>>

\* convertInternal: the exchange commits and is reported, is refused or fails, or
\* commits although the caller gets an error.
Convert(w) ==
  /\ pc[w] = "converting"
  /\ \/ Goto(w, "marking") /\ converted' = [converted EXCEPT ![cur[w]] = @ \cup {Scheduled}]
     \/ Goto(w, "failing") /\ UNCHANGED converted
     \/ Goto(w, "failing") /\ converted' = [converted EXCEPT ![cur[w]] = @ \cup {Scheduled}]
  /\ UNCHANGED <<row, cur, request>>

\* The update to EXECUTED is inside the same try: when it throws, the row is
\* marked FAILED instead.
MarkExecuted(w) ==
  /\ pc[w] = "marking"
  /\ \/ /\ Update(cur[w], "EXECUTED")
        /\ ledger' = [ledger EXCEPT ![cur[w]] = Scheduled]
        /\ Rest(w)
     \/ Goto(w, "failing") /\ UNCHANGED <<row, cur>>
  /\ UNCHANGED <<converted, request>>

\* The update to FAILED; when it throws too, the run ends with the row PROCESSING.
MarkFailed(w) ==
  /\ pc[w] = "failing"
  /\ \/ Update(cur[w], "FAILED")
     \/ UNCHANGED <<status, version>>
  /\ Rest(w)
  /\ UNCHANGED <<ledger, converted, request>>

\* The instance dies; another run of its cron starts over later.
Crash(w) ==
  /\ pc[w] # "idle"
  /\ Rest(w)
  /\ UNCHANGED <<row, converted, request>>

-----------------------------------------------------------------------------
\* The consumer's cancel reads the row and refuses unless it is PENDING.
CancelCheck(q, c) ==
  /\ phase[q] = "new"
  /\ phase' = [phase EXCEPT ![q] = IF status[c] = "PENDING" THEN "checked" ELSE "done"]
  /\ target' = [target EXCEPT ![q] = c]
  /\ UNCHANGED <<row, converted, worker, seen>>

\* It then updates the row by id, whatever its status has become.
CancelWrite(q) ==
  /\ phase[q] = "checked"
  /\ phase' = [phase EXCEPT ![q] = "done"]
  /\ Update(target[q], "CANCELLED")
  /\ UNCHANGED <<ledger, converted, worker, target, seen>>

\* An administrator opens the case and gets the version the action must match.
Look(a, c) ==
  /\ phase[a] = "new"
  /\ phase' = [phase EXCEPT ![a] = "checked"]
  /\ target' = [target EXCEPT ![a] = c]
  /\ seen' = [seen EXCEPT ![a] = version[c]]
  /\ UNCHANGED <<row, converted, worker>>

\* The row is locked FOR UPDATE and has not changed since.
Current(a) == phase[a] = "checked" /\ version[target[a]] = seen[a]

Done(a) == phase' = [phase EXCEPT ![a] = "done"] /\ UNCHANGED <<target, seen>>

\* Force-execution: the rows of the exchange and the row's status commit together.
ForceExecute(a) ==
  /\ Current(a) /\ Forcible(target[a])
  /\ \E ok \in BOOLEAN :
       /\ Update(target[a], Finalized(ok))
       /\ ledger' = [ledger EXCEPT ![target[a]] = IF ok THEN a ELSE None]
       /\ converted' = IF ok THEN [converted EXCEPT ![target[a]] = @ \cup {a}] ELSE converted
  /\ Done(a)
  /\ UNCHANGED worker

AdminCancel(a) ==
  /\ Current(a) /\ status[target[a]] = "PENDING"
  /\ Update(target[a], "CANCELLED")
  /\ Done(a)
  /\ UNCHANGED <<ledger, converted, worker>>

\* A stale version, another status, or a transaction that did not commit.
AdminRefused(a) ==
  /\ phase[a] = "checked"
  /\ Done(a)
  /\ UNCHANGED <<row, converted, worker>>

Work(w) == \/ \E c \in Conversions : Find(w, c)
           \/ Claim(w) \/ Convert(w) \/ MarkExecuted(w) \/ MarkFailed(w)

Next ==
  \/ \E w \in Workers : Work(w) \/ Crash(w)
  \/ \E q \in Cancels : CancelWrite(q) \/ \E c \in Conversions : CancelCheck(q, c)
  \/ \E a \in Admins : \/ ForceExecute(a) \/ AdminCancel(a) \/ AdminRefused(a)
                       \/ \E c \in Conversions : Look(a, c)

Spec == Init /\ [][Next]_vars

\* The cron fires every minute on every instance and lists oldest rows first, and
\* no instance dies each time it has one of them in hand.
FairSpec ==
  /\ Spec
  /\ \A w \in Workers : WF_vars(Work(w))
  /\ \A c \in Conversions : \E w \in Workers :
       SF_vars(Find(w, c)) /\ SF_vars(cur[w] = c /\ Claim(w))

-----------------------------------------------------------------------------
TypeOK ==
  /\ status \in [Conversions -> Statuses]
  /\ version \in [Conversions -> Nat]
  /\ ledger \in [Conversions -> LedgerIds \cup {None}]
  /\ converted \in [Conversions -> SUBSET LedgerIds]
  /\ pc \in [Workers -> {"idle", "found"} \cup Busy]
  /\ cur \in [Workers -> Conversions \cup {None}]
  /\ \A w \in Workers : pc[w] = "idle" <=> cur[w] = None
  /\ phase \in [Cancels \cup Admins -> {"new", "checked", "done"}]
  /\ \A q \in Cancels \cup Admins : phase[q] = "checked" => target[q] \in Conversions
  /\ target \in [Cancels \cup Admins -> Conversions \cup {None}]
  /\ seen \in [Admins -> Nat]

\* A worker past its claim is alone with the row, and nobody but a cancelling
\* consumer has changed the row's status under it.
WorkerOwnsRow ==
  \A w \in Workers : pc[w] \in Busy =>
    /\ status[cur[w]] \in {"PROCESSING", "CANCELLED"}
    /\ \A v \in Workers : pc[v] \in Busy /\ cur[v] = cur[w] => v = w

\* Administrators, however many and whatever they saw, force one conversion once.
ForcedOnce ==
  \A c \in Conversions : \A a, b \in converted[c] \cap Admins : a = b

\* A row that says EXECUTED names a ledger id under which the money moved.
ExecutedExplained ==
  \A c \in Conversions : status[c] = "EXECUTED" => ledger[c] \in converted[c]

\* The inductive invariant behind them: money an administrator moved has put the
\* row out of every worker's reach, and a worker marks EXECUTED what it converted.
ForcedIsFinal ==
  \A c \in Conversions : converted[c] \cap Admins # {} =>
    /\ status[c] \in {"EXECUTED", "CANCELLED"}
    /\ \A w \in Workers : pc[w] \in Busy => cur[w] # c
MarksConverted == \A w \in Workers : pc[w] = "marking" => Scheduled \in converted[cur[w]]

Inv == /\ TypeOK /\ WorkerOwnsRow /\ ForcedIsFinal /\ MarksConverted
       /\ ForcedOnce /\ ExecutedExplained

\* A due conversion is taken up, cancelled or forced; it does not stay PENDING.
DueIsTaken == \A c \in Conversions : <>(status[c] # "PENDING")

\* ADMIN_CONVERSION_ALREADY_EXECUTED: a conversion whose money has moved is not
\* executed a second time.
ConvertedOnce == \A c \in Conversions : \A k, l \in converted[c] : k = l
=============================================================================
