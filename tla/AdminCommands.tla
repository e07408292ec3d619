--------------------------- MODULE AdminCommands ---------------------------
(***************************************************************************)
(* The commands of administrators that carry an Idempotency-Key, and two   *)
(* users of the key: the assignments (claim, release, reassign), whose     *)
(* action runs between the statements that keep the key, and the           *)
(* deactivation and restoring of an administrator, where one transaction   *)
(* holds both.  Calls of one process with one key share one run.           *)
(*                                                                         *)
(* Transactions are READ COMMITTED: a statement reads what is committed    *)
(* when it starts, SELECT FOR UPDATE waits for the row and checks it       *)
(* again, and an insert waits for an uncommitted row of the same unique    *)
(* key.  An entry of the key table and an assignment are named by the      *)
(* call that inserts them: each call inserts at most one of either.        *)
(***************************************************************************)
EXTENDS Naturals

CONSTANTS Calls,      \* HTTP requests
          Procs,      \* processes of the API
          Admins,
          Supers,     \* the administrators with role SUPER_ADMIN
          Resources,
          Keys,       \* Idempotency-Key values
          None

ASSUME Names == /\ None \notin Calls \cup Procs \cup Admins \cup Keys \cup Resources
                /\ {"failed", "error"} \cap (Calls \cup {None}) = {}
                /\ Supers \subseteq Admins

VARIABLES
  job,       \* what a call asks for, None before it arrives
  call,      \* where it is, and what it keeps while it runs
  entry,     \* state of the key entry the call inserted; "open" is not committed
  lapsed,    \* expiresAt of that entry has passed
  did,       \* history: the call's action has committed a change and returned, or
             \* "thrown" after that commit; or it has found the change made
  row,       \* operational_assignment
  lock,      \* the assignment a transaction has locked, to close it
  adding,    \* the assignment a transaction has inserted and not committed
  inactive,  \* the administrators with a deletedAt
  version    \* updatedAt of an administrator, as the number of updates

keys  == <<entry, lapsed, did>>
desk  == <<row, lock, adding>>
staff == <<inactive, version>>
vars  == <<job, call, keys, desk, staff>>

Keeping  == {"claim", "release", "reassign"}  \* idempotency.execute
Changing == {"deactivate", "restore"}         \* idempotency.executeInTransaction
Jobs == [admin : Admins, key : Keys, op : Keeping \cup Changing,
         on : Resources \cup Calls \cup Admins,  \* resource, assignment or administrator
         arg : Admins \cup Nat \cup {None}]     \* the new assignee or the version seen

Places == {"new", "follow", "find", "purge", "poll", "drop", "create", "look", "take",
           "insert", "commit", "store", "unpend", "read", "write", "done"}
\* "saw" is the run a follower waits for, or the entry or assignment read last; the
\* answer is the call whose result is given, "failed" when the action threw and the
\* key was freed, "error" for any other error and for no answer at all.
Running == [at : Places, proc : Procs \cup {None}, attempts : 0..1,
            saw : Calls \cup {None}, answer : Calls \cup {"failed", "error", None}]
Ended(a) == [at |-> "done", proc |-> None, attempts |-> 0, saw |-> None, answer |-> a]

Assignments == [resource : Resources, owner : Admins, active : BOOLEAN]

ASSUME NoneIsNoRecord == None \notin Jobs \cup Assignments

TypeOK ==
  /\ job \in [Calls -> Jobs \cup {None}]
  /\ call \in [Calls -> Running]
  /\ entry \in [Calls -> {"none", "open", "pending", "succeeded"}]
  /\ lapsed \in [Calls -> BOOLEAN]
  /\ did \in [Calls -> {"nothing", "same", "changed", "thrown"}]
  /\ row \in [Calls -> Assignments \cup {None}]
  /\ lock \in [Calls -> Calls \cup {None}]
  /\ adding \in [Calls -> Assignments \cup {None}]
  /\ inactive \in SUBSET Admins
  /\ version \in [Admins -> Nat]
  /\ \A c \in Calls : /\ job[c] = None <=> call[c].at = "new"
                      /\ lock[c] # None => call[c].at \in {"insert", "commit"}
                      /\ adding[c] # None => call[c].at = "commit"

Init ==
  /\ job = [c \in Calls |-> None]
  /\ call = [c \in Calls |-> [Ended(None) EXCEPT !.at = "new"]]
  /\ entry = [c \in Calls |-> "none"]
  /\ lapsed = [c \in Calls |-> FALSE]
  /\ did = [c \in Calls |-> "nothing"]
  /\ row = [c \in Calls |-> None]
  /\ lock = [c \in Calls |-> None]
  /\ adding = [c \in Calls |-> None]
  /\ inactive = {}
  /\ version = [a \in Admins |-> 0]

----------------------------------------------------------------------------
\* The key.

\* deactivate and restore have the target in their scope.
Scope(j) == <<j.op, IF j.op \in Changing THEN j.on ELSE None>>
EntryKey(c) == <<job[c].admin, Scope(job[c]), job[c].key>>
SameKey(c, d) == job[c] # None /\ job[d] # None /\ EntryKey(c) = EntryKey(d)

\* requestHash.
SamePayload(c, d) == job[c].on = job[d].on /\ job[c].arg = job[d].arg

Stored(d) == entry[d] \in {"pending", "succeeded"}
EntriesOf(c) == {d \in Calls : SameKey(c, d) /\ Stored(d)}

\* A transaction holds the unique key of c: an insert of it waits.
KeyHeld(c) == \E d \in Calls : SameKey(c, d) /\ entry[d] = "open"

At(c, P) == call[c].at \in P
Op(c)    == job[c].op

To(c, p)        == call' = [call EXCEPT ![c].at = p, ![c].saw = None]
Seeing(c, p, x) == call' = [call EXCEPT ![c].at = p, ![c].saw = x]
Answered(c, a)  == call' = [call EXCEPT ![c] = Ended(a)]

\* The runs of process p under the key that j carries.
RunsOf(p, j) == {d \in Calls : /\ call[d].proc = p /\ call[d].at # "follow"
                               /\ EntryKey(d) = <<j.admin, Scope(j), j.key>>}

\* What can be asked: the guard and the checks made before the key is used.  A retry
\* sends the version it sent before.
Active == Admins \ inactive
Asked ==
  LET rows == {x \in Calls : row[x] # None}
  IN  [admin : Active, key : Keys, op : {"claim"}, on : Resources, arg : {None}]
      \cup [admin : Active, key : Keys, op : {"release"}, on : rows, arg : {None}]
      \cup {j \in [admin : Active \cap Supers, key : Keys, op : {"reassign"}, on : rows,
                   arg : Active] : j.arg # j.admin}
      \cup {j \in [admin : Active \cap Supers, key : Keys, op : Changing, on : Admins,
                   arg : UNION {0..version[a] : a \in Admins}] :
              /\ j.arg <= version[j.on]
              /\ j.op = "deactivate" => j.on # j.admin}

\* A call joins the run of its process under its key, or starts one.
Arrive(c) ==
  /\ At(c, {"new"})
  /\ \E j \in Asked, p \in Procs :
       /\ job' = [job EXCEPT ![c] = j]
       /\ \/ /\ RunsOf(p, j) = {}
             /\ call' = [call EXCEPT ![c].at = "find", ![c].proc = p]
          \/ \E d \in RunsOf(p, j) :
               IF job[d].on = j.on /\ job[d].arg = j.arg
                 THEN call' = [call EXCEPT ![c].at = "follow", ![c].proc = p, ![c].saw = d]
                 ELSE Answered(c, "error")
  /\ UNCHANGED <<keys, desk, staff>>

Follow(c) ==
  /\ At(c, {"follow"}) /\ At(call[c].saw, {"done"})
  /\ Answered(c, call[call[c].saw].answer)
  /\ UNCHANGED <<job, keys, desk, staff>>

\* Fault: the attempts have no bound.
AgainForever(c) == call' = [call EXCEPT ![c].at = "find", ![c].saw = None,
                                        ![c].attempts = @ + 1]

\* The next attempt, or what follows the last one.
Again(c) ==
  IF call[c].attempts = 0
    THEN call' = [call EXCEPT ![c].at = "find", ![c].saw = None, ![c].attempts = 1]
    ELSE IF Op(c) \in Changing THEN To(c, "poll") ELSE Answered(c, "error")

\* Fault: a stored result is given whatever was asked for.
ReplayAny(c, d) == Answered(c, IF entry[d] = "succeeded" THEN d ELSE "error")
\* The result stored in the entry of d is given to a call that asks for the same.
Replay(c, d) == Answered(c, IF SamePayload(c, d) /\ entry[d] = "succeeded"
                            THEN d ELSE "error")

\* The first look at the table, and what the entry found decides.
Find(c) ==
  /\ At(c, {"find"})
  /\ \/ EntriesOf(c) = {} /\ To(c, "create")
     \/ \E d \in EntriesOf(c) :
          \/ lapsed[d] /\ entry[d] = "pending" /\ Answered(c, "error")
          \/ lapsed[d] /\ entry[d] = "succeeded" /\ Seeing(c, "purge", d)
          \/ ~lapsed[d] /\ SamePayload(c, d) /\ entry[d] = "pending" /\ To(c, "poll")
          \/ /\ ~lapsed[d]
             /\ ~SamePayload(c, d) \/ entry[d] = "succeeded"
             /\ Replay(c, d)
  /\ UNCHANGED <<job, keys, desk, staff>>

\* deleteExpiredEntry names the entry it means by the expiry it read.
Purge(c) ==
  /\ At(c, {"purge", "drop"})
  /\ entry' = [d \in Calls |-> IF d = call[c].saw THEN "none" ELSE entry[d]]
  /\ IF At(c, {"purge"}) THEN Again(c) ELSE Answered(c, "error")
  /\ UNCHANGED <<job, lapsed, did, desk, staff>>

\* waitForStoredResponse: one look, or the deadline.
Poll(c) ==
  /\ At(c, {"poll"})
  /\ \/ Answered(c, "error")
     \/ \E d \in EntriesOf(c) :
          /\ entry[d] = "succeeded"
          /\ IF lapsed[d] THEN Seeing(c, "drop", d) ELSE Replay(c, d)
  /\ UNCHANGED <<job, keys, desk, staff>>

\* Fault: entries have no unique key.
NeverTaken(c) == FALSE
\* adminId, scope and idempotencyKey are unique.
KeyTaken(c) == EntriesOf(c) # {}

\* createPendingEntry, alone or in the transaction: the unique key lets in one, and an
\* insert waits for one that is not committed.
Create(c) ==
  /\ At(c, {"create"}) /\ ~KeyHeld(c)
  /\ IF KeyTaken(c)
       THEN Again(c) /\ UNCHANGED entry
       ELSE /\ entry' = [entry EXCEPT ![c] = IF Op(c) \in Changing THEN "open"
                                             ELSE "pending"]
            /\ To(c, CASE Op(c) = "claim" -> "look"
                       [] Op(c) \in {"release", "reassign"} -> "take"
                       [] OTHER -> "read")
  /\ UNCHANGED <<job, lapsed, did, desk, staff>>

\* executeInTransaction looks once more inside the transaction.
TxFind(c) ==
  /\ At(c, {"create"}) /\ Op(c) \in Changing
  /\ \E d \in EntriesOf(c) : Replay(c, d)
  /\ UNCHANGED <<job, keys, desk, staff>>

----------------------------------------------------------------------------
\* The assignments: the actions of claim, release and reassign.

Current(r)  == {x \in Calls : row[x] # None /\ row[x].active /\ row[x].resource = r}
RowFree(x)  == \A d \in Calls : lock[d] # x
Resource(c) == IF Op(c) = "claim" THEN job[c].on ELSE row[job[c].on].resource

\* Fault: no index keeps the assignments of a resource apart.
NoIndex(r) == TRUE
\* The index of active assignments lets an insert wait for one not committed yet.
IndexFree(r) == \A d \in Calls : adding[d] # None => adding[d].resource # r

\* SELECT ... FOR UPDATE of a claim: the row in the snapshot, then the wait for it.
Look(c) ==
  /\ At(c, {"look"})
  /\ \/ Current(job[c].on) = {} /\ To(c, "insert")
     \/ \E x \in Current(job[c].on) : Seeing(c, "take", x)
  /\ UNCHANGED <<job, keys, desk, staff>>

TakeForClaim(c) ==
  LET x == call[c].saw
  IN /\ At(c, {"take"}) /\ Op(c) = "claim"
     /\ RowFree(x)
     /\ \/ ~row[x].active /\ To(c, "insert") /\ UNCHANGED did
        \/ /\ row[x].active /\ row[x].owner = job[c].admin
           /\ did' = [did EXCEPT ![c] = "same"]
           /\ To(c, "store")
        \/ row[x].active /\ row[x].owner # job[c].admin /\ To(c, "unpend") /\ UNCHANGED did
     /\ UNCHANGED <<job, entry, lapsed, desk, staff>>

MayClose(c, x) ==
  IF Op(c) = "release" THEN job[c].admin = row[x].owner \/ job[c].admin \in Supers
  ELSE row[x].owner # job[c].arg

\* release and reassign lock the row they were given, check it and close it.
TakeToClose(c) ==
  LET x == job[c].on
  IN /\ At(c, {"take"}) /\ Op(c) \in {"release", "reassign"}
     /\ RowFree(x)
     /\ IF row[x].active /\ MayClose(c, x)
          THEN /\ lock' = [lock EXCEPT ![c] = x]
               /\ To(c, IF Op(c) = "release" THEN "commit" ELSE "insert")
          ELSE To(c, "unpend") /\ UNCHANGED lock
     /\ UNCHANGED <<job, keys, row, adding, staff>>

\* INSERT ... WHERE NOT EXISTS; a transaction does not see the row it has closed.
Insert(c) ==
  LET r == Resource(c)
  IN /\ At(c, {"insert"})
     /\ IndexFree(r)
     /\ IF Current(r) \subseteq {lock[c]}
          THEN /\ adding' = [adding EXCEPT ![c] =
                    [resource |-> r, active |-> TRUE,
                     owner |-> IF Op(c) = "claim" THEN job[c].admin ELSE job[c].arg]]
               /\ To(c, "commit")
               /\ UNCHANGED lock
          ELSE /\ To(c, "unpend")
               /\ lock' = [lock EXCEPT ![c] = None]
               /\ UNCHANGED adding
     /\ UNCHANGED <<job, keys, row, staff>>

\* What the transaction of c leaves in the table.
Written(c) ==
  [x \in Calls |-> IF x = c /\ adding[c] # None THEN adding[c]
                  ELSE IF x = lock[c] THEN [row[x] EXCEPT !.active = FALSE] ELSE row[x]]

\* The commit; what the action does after it, or the commit's reply, may fail: then
\* the action throws although its change is there.
Commit(c) ==
  /\ At(c, {"commit"})
  /\ row' = Written(c)
  /\ lock' = [lock EXCEPT ![c] = None]
  /\ adding' = [adding EXCEPT ![c] = None]
  /\ \/ did' = [did EXCEPT ![c] = "changed"] /\ To(c, "store")
     \/ did' = [did EXCEPT ![c] = "thrown"] /\ To(c, "unpend")
  /\ UNCHANGED <<job, entry, lapsed, staff>>

\* A statement of the action fails or its transaction runs out of time.
ActionFails(c) ==
  /\ At(c, {"look", "take", "insert", "commit"})
  /\ lock' = [lock EXCEPT ![c] = None]
  /\ adding' = [adding EXCEPT ![c] = None]
  /\ To(c, "unpend")
  /\ UNCHANGED <<job, keys, row, staff>>

\* The result is kept with the key; when that fails the entry stays pending.
Store(c) ==
  /\ At(c, {"store"})
  /\ entry' = [entry EXCEPT ![c] = "succeeded"]
  /\ Answered(c, c)
  /\ UNCHANGED <<job, lapsed, did, desk, staff>>

\* The action threw: its entry is deleted.
Unpend(c) ==
  /\ At(c, {"unpend"})
  /\ entry' = [entry EXCEPT ![c] = "none"]
  /\ Answered(c, "failed")
  /\ UNCHANGED <<job, lapsed, did, desk, staff>>

----------------------------------------------------------------------------
\* Deactivation and restoring, in one transaction with the key.

Abort(c) == /\ entry' = [entry EXCEPT ![c] = "none"]
            /\ Answered(c, "failed")
            /\ UNCHANGED <<did, staff>>

\* The client is told, or the reply of the commit is lost.
CommitKey(c) == /\ entry' = [entry EXCEPT ![c] = "succeeded"]
                /\ \E a \in {c, "error"} : Answered(c, a)

NothingToDo(c) == (job[c].on \in inactive) = (Op(c) = "deactivate")

\* The target is read on a connection of its own, and its version checked.
Read(c) ==
  /\ At(c, {"read"})
  /\ IF version[job[c].on] # job[c].arg THEN Abort(c)
     ELSE IF NothingToDo(c)
       THEN CommitKey(c) /\ did' = [did EXCEPT ![c] = "same"] /\ UNCHANGED staff
     ELSE To(c, "write") /\ UNCHANGED <<entry, did, staff>>
  /\ UNCHANGED <<job, lapsed, desk>>

\* The UPDATE is conditional on the version and the status that were read.
StillAsRead(c) == version[job[c].on] = job[c].arg /\ ~NothingToDo(c)

Write(c) ==
  /\ At(c, {"write"})
  /\ IF StillAsRead(c)
       THEN /\ inactive' = IF Op(c) = "deactivate" THEN inactive \cup {job[c].on}
                           ELSE inactive \ {job[c].on}
            /\ version' = [version EXCEPT ![job[c].on] = @ + 1]
            /\ did' = [did EXCEPT ![c] = "changed"]
            /\ CommitKey(c)
       ELSE Abort(c)
  /\ UNCHANGED <<job, lapsed, desk>>

----------------------------------------------------------------------------
\* A statement on the key table fails, with or without having its effect, or the
\* transaction that holds the key does, and the call ends: so it does when its process
\* dies right after the effect of the statement.
KeyStatementFails(c) ==
  /\ \/ At(c, {"find", "purge", "drop", "poll", "create", "store", "unpend"})
        /\ UNCHANGED entry
     \/ At(c, {"read", "write"}) /\ entry' = [entry EXCEPT ![c] = "none"]
     \/ At(c, {"store"}) /\ entry' = [entry EXCEPT ![c] = "succeeded"]
     \/ At(c, {"unpend"}) /\ entry' = [entry EXCEPT ![c] = "none"]
     \/ /\ At(c, {"create"}) /\ Op(c) \in Keeping
        /\ ~KeyHeld(c) /\ ~KeyTaken(c)
        /\ entry' = [entry EXCEPT ![c] = "pending"]
  /\ Answered(c, "error")
  /\ UNCHANGED <<job, lapsed, did, desk, staff>>

\* A process ends: its calls get no answer, its transactions are rolled back.
Crash(p) ==
  LET hit == {c \in Calls : call[c].proc = p}
  IN /\ hit # {}
     /\ call' = [c \in Calls |-> IF c \in hit THEN Ended("error") ELSE call[c]]
     /\ entry' = [c \in Calls |-> IF c \in hit /\ entry[c] = "open" THEN "none"
                                  ELSE entry[c]]
     /\ lock' = [c \in Calls |-> IF c \in hit THEN None ELSE lock[c]]
     /\ adding' = [c \in Calls |-> IF c \in hit THEN None ELSE adding[c]]
     /\ UNCHANGED <<job, lapsed, did, row, staff>>

\* A day passes: longer than any run takes.
Lapse(c) ==
  /\ Stored(c) /\ ~lapsed[c] /\ At(c, {"done"})
  /\ lapsed' = [lapsed EXCEPT ![c] = TRUE]
  /\ UNCHANGED <<job, call, entry, did, desk, staff>>

Step(c) == \/ Follow(c) \/ Find(c) \/ Purge(c) \/ Poll(c) \/ Create(c) \/ TxFind(c)
           \/ Look(c) \/ TakeForClaim(c) \/ TakeToClose(c) \/ Insert(c) \/ Commit(c)
           \/ Store(c) \/ Unpend(c) \/ Read(c) \/ Write(c)

Next == \/ \E c \in Calls : \/ Arrive(c) \/ Step(c) \/ ActionFails(c)
                            \/ KeyStatementFails(c) \/ Lapse(c)
        \/ \E p \in Procs : Crash(p)

Spec == Init /\ [][Next]_vars

----------------------------------------------------------------------------
\* The call has changed something.  Its effect may be repeated under its key when its
\* entry has passed its day, or when its action threw after the commit and the key was
\* freed for a retry.
Changed(c) == did[c] \in {"changed", "thrown"}
Excused(c) == lapsed[c] \/ (did[c] = "thrown" /\ entry[c] = "none")

\* Under one key an administrator's command changes something once: no retry, second
\* process, lost reply, crash or clean-up of old entries lets it change anything again,
\* unless the action threw after its commit.
EffectOnce ==
  [][\A c, d \in Calls :
       SameKey(c, d) /\ Changed(c) /\ ~Excused(c) /\ Changed(d)' => Changed(d)]_vars

\* A result given to a call, of its own, replayed, awaited or shared with a run of its
\* process, is the result of a run of that administrator's same request.
AnswersFromRuns ==
  \A c \in Calls : call[c].answer \in Calls =>
    LET d == call[c].answer IN SameKey(c, d) /\ SamePayload(c, d) /\ did[d] # "nothing"

\* One version of an administrator is changed by one command, however many read it.
VersionSpentOnce ==
  \A c, d \in Calls :
    /\ did[c] = "changed" /\ did[d] = "changed"
    /\ job[c].op \in Changing /\ job[d].op \in Changing /\ job[c].on = job[d].on
    /\ job[c].arg = job[d].arg
    => c = d

\* The assignments keep the promise of DutyRoster.
Roster      == INSTANCE DutyRoster WITH
                 owners <- [r \in Resources |-> {row[x].owner : x \in Current(r)}]
KeepsRoster == Roster!Spec
=============================================================================
