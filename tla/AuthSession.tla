---------------------------- MODULE AuthSession ----------------------------
(***************************************************************************)
(* The sessions of one identity, a consumer or an administrator, and the   *)
(* requests that issue, rotate and revoke them: login, the completion of a *)
(* Google sign-in, refresh, logout, logout everywhere, change and reset of *)
(* the password, revocation by id.  Both services keep the same table and  *)
(* rotate in the same way; "side" says which one it is.                    *)
(*                                                                         *)
(* Transactions are READ COMMITTED.  A rotation is one step: its           *)
(* compare-and-swap waits for the row and checks it again, and the new row *)
(* is seen by nobody before the commit.  An UPDATE of many rows is two     *)
(* steps, the snapshot that finds the unrevoked rows and the write, which  *)
(* skips those revoked since; a row inserted in between it never sees.     *)
(***************************************************************************)
EXTENDS Naturals, Sequences, FiniteSets

CONSTANTS Requests,  \* HTTP requests, each for one operation
          Ids,       \* bound: the session ids that may be drawn
          Resets,    \* bound: password reset tokens
          Handoffs,  \* bound: Google sign-ins
          None

ASSUME NoneAssumption == None \notin Ids \cup Resets \cup Handoffs

VARIABLES
  side,      \* "consumer" or "admin"
  family,    \* sessionFamilyId of a row, None where there is no row
  revoked,   \* revokedAt is set
  expired,   \* expiresAt has passed
  next,      \* replacedById
  changes,   \* the requests that set the password, in order
  reset,     \* reset tokens: "none", "active" or "gone"
  handoff,   \* oauth_login_handoff records: "none", "saved" or "gone"
  pc, job,   \* where each request is and what it asks for
  arg,       \* the session, reset token or handoff it was given
  targets    \* the rows its UPDATE of many rows has found

rows     == <<family, revoked, expired, next>>
identity == <<changes, reset, handoff>>
requests == <<pc, job, arg, targets>>
vars     == <<side, rows, identity, requests>>

Rows    == {s \in Ids : family[s] # None}
Live    == {s \in Rows : ~revoked[s]}
Fresh   == Ids \ Rows
InTx    == {q \in Requests : pc[q] = "changing"}

Jobs == {"none", "login", "oauth", "refresh", "logout", "everywhere", "change", "reset",
         "ask", "kick"}

\* The job has started when pc is not "new"; a request that ended keeps its answer.
Places == {"new", "verified", "rotating", "conflict", "sweeping", "found", "changing",
           "revoking", "asked", "kicking", "ok", "denied", "reuse", "dead"}

TypeOK ==
  /\ side \in {"consumer", "admin"}
  /\ family \in [Ids -> Ids \cup {None}]
  /\ revoked \in [Ids -> BOOLEAN]
  /\ expired \in [Ids -> BOOLEAN]
  /\ next \in [Ids -> Ids \cup {None}]
  /\ changes \in Seq(Requests)
  /\ reset \in [Resets -> {"none", "active", "gone"}]
  /\ handoff \in [Handoffs -> {"none", "saved", "gone"}]
  /\ pc \in [Requests -> Places]
  /\ job \in [Requests -> Jobs]
  /\ arg \in [Requests -> Ids \cup Resets \cup Handoffs \cup {None}]
  /\ targets \in [Requests -> SUBSET (Rows \cup Resets)]
  /\ \A q \in Requests : targets[q] # {} => pc[q] \in {"sweeping", "changing", "asked"}

\* The identity has signed up and is logged in on one device.
Init ==
  /\ side \in {"consumer", "admin"}
  /\ \E s \in Ids : family = [i \in Ids |-> IF i = s THEN s ELSE None]
  /\ revoked = [s \in Ids |-> FALSE]
  /\ expired = [s \in Ids |-> FALSE]
  /\ next = [s \in Ids |-> None]
  /\ changes = <<>>
  /\ reset = [t \in Resets |-> "none"]
  /\ handoff = [h \in Handoffs |-> "none"]
  /\ pc = [q \in Requests |-> "new"]
  /\ job = [q \in Requests |-> "none"]
  /\ arg = [q \in Requests |-> None]
  /\ targets = [q \in Requests |-> {}]

----------------------------------------------------------------------------
\* A request takes up its job with what it was given.
Begin(q, j, a, where) ==
  /\ pc[q] = "new"
  /\ job' = [job EXCEPT ![q] = j]
  /\ arg' = [arg EXCEPT ![q] = a]
  /\ pc' = [pc EXCEPT ![q] = where]
  /\ UNCHANGED side

Goto(q, where) == /\ pc' = [pc EXCEPT ![q] = where]
                  /\ UNCHANGED <<side, job, arg>>

\* Fault: the rows found are kept past the statement.
KeepTargets(q) == targets

Release(q) == [targets EXCEPT ![q] = {}]

End(q, answer) == Goto(q, answer) /\ targets' = Release(q)

\* login: the password is verified before the session is created.
Login(q) == Begin(q, "login", None, "verified") /\ UNCHANGED <<targets, rows, identity>>

\* createSessionAndIssueTokens: the row starts a family of its own.
Issue(q) ==
  /\ pc[q] = "verified"
  /\ \E s \in Fresh : family' = [family EXCEPT ![s] = s]
  /\ End(q, "ok")
  /\ UNCHANGED <<revoked, expired, next, identity>>

\* Fault: consumeStatePayload reads the record and leaves it in place.
KeepHandoff(h) == handoff

\* DELETE ... RETURNING: one statement takes the record away.
TakeHandoff(h) == [handoff EXCEPT ![h] = "gone"]

\* completeOAuth: only the record speaks for the identity; no password is read.
CompleteOAuth(q, h) ==
  /\ side = "consumer"
  /\ handoff[h] = "saved"
  /\ Begin(q, "oauth", h, "verified")
  /\ handoff' = TakeHandoff(h)
  /\ UNCHANGED <<targets, rows, changes, reset>>

\* The Google callback saves a record for two minutes; a later one cannot be taken.
GoogleCallback(h) ==
  /\ side = "consumer" /\ handoff[h] = "none"
  /\ handoff' = [handoff EXCEPT ![h] = "saved"]
  /\ UNCHANGED <<side, rows, changes, reset, requests>>

HandoffExpires(h) ==
  /\ handoff[h] = "saved"
  /\ handoff' = [handoff EXCEPT ![h] = "gone"]
  /\ UNCHANGED <<side, rows, changes, reset, requests>>

----------------------------------------------------------------------------
\* refreshAccess, the reads before the transaction.  A token is its row's only one,
\* so the row's hash always matches; a token of a rotated row is turned away here.
Refresh(q, s) ==
  /\ s \in Rows
  /\ Begin(q, "refresh", s, IF revoked[s] \/ expired[s] THEN "denied" ELSE "rotating")
  /\ UNCHANGED <<targets, rows, identity>>

\* Fault: the swap compares the hash alone, which a rotation leaves in place.
RotatableByHash(s) == ~expired[s]

\* The WHERE of markSessionRotated.
Rotatable(s) == ~revoked[s] /\ next[s] = None /\ ~expired[s]

Rotate(q) ==
  LET s == arg[q] IN
  /\ pc[q] = "rotating" /\ Rotatable(s)
  /\ \E n \in Fresh :
       /\ family' = [family EXCEPT ![n] = family[s]]
       /\ next' = [next EXCEPT ![s] = n]
       /\ revoked' = [revoked EXCEPT ![s] = TRUE]
  /\ End(q, "ok")
  /\ UNCHANGED <<expired, identity>>

\* count # 1: the transaction is undone, the family is to be revoked.
Conflict(q) ==
  /\ pc[q] = "rotating" /\ ~Rotatable(arg[q])
  /\ Goto(q, "conflict")
  /\ UNCHANGED <<targets, rows, identity>>

----------------------------------------------------------------------------
\* Fault: only the session that was presented is revoked.
PresentedOnly(q) == Live \cap {arg[q]}

\* revokeSessionFamily
OfFamily(q) == {s \in Live : family[s] = family[arg[q]]}

\* The snapshot of an UPDATE of one statement.
Sweep(q) ==
  /\ pc[q] \in {"conflict", "revoking"}
  /\ targets' = [targets EXCEPT ![q] = IF pc[q] = "conflict" THEN OfFamily(q) ELSE Live]
  /\ Goto(q, "sweeping")
  /\ UNCHANGED <<rows, identity>>

RevokeTargets(q) == revoked' = [s \in Ids |-> revoked[s] \/ s \in targets[q]]

Swept(q) ==
  /\ pc[q] = "sweeping"
  /\ RevokeTargets(q)
  /\ End(q, IF job[q] = "refresh" THEN "reuse" ELSE "ok")
  /\ UNCHANGED <<family, expired, next, identity>>

\* Logout revokes the row of its token, if it still works; the answer is the same.
Logout(q, s) ==
  /\ s \in Rows
  /\ Begin(q, "logout", s, "ok")
  /\ revoked' = [revoked EXCEPT ![s] = TRUE]
  /\ UNCHANGED <<targets, family, expired, next, identity>>

\* Logout everywhere; an administrator's forced logout and suspension do the same.
Everywhere(q) ==
  /\ side = "consumer"
  /\ Begin(q, "everywhere", None, "revoking")
  /\ UNCHANGED <<targets, rows, identity>>

\* revokeSessionByIdAndAudit reads the row, then writes it by id alone.
Kick(q, s) ==
  /\ side = "admin" /\ s \in Rows
  /\ Begin(q, "kick", s, IF revoked[s] THEN "ok" ELSE "kicking")
  /\ UNCHANGED <<targets, rows, identity>>

Kicked(q) ==
  /\ pc[q] = "kicking"
  /\ revoked' = [revoked EXCEPT ![arg[q]] = TRUE]
  /\ End(q, "ok")
  /\ UNCHANGED <<family, expired, next, identity>>

----------------------------------------------------------------------------
\* changePassword verifies the current password outside the transaction.
Change(q) ==
  /\ side = "consumer"
  /\ Begin(q, "change", None, "found")
  /\ UNCHANGED <<targets, rows, identity>>

\* findActiveTokenByHash: what is not active is refused.
Reset(q, t) ==
  /\ reset[t] # "none"
  /\ Begin(q, "reset", t, IF reset[t] = "active" THEN "found" ELSE "denied")
  /\ UNCHANGED <<targets, rows, identity>>

\* Fault: consumeToken without deletedAt in its WHERE.
ConsumableAgain(t) == reset[t] # "none"

Consumable(t) == reset[t] = "active"

SetPassword(q) == changes' = Append(changes, q)

Consume(q) == reset' = IF job[q] = "reset" THEN [reset EXCEPT ![arg[q]] = "gone"] ELSE reset

\* One transaction sets the password and revokes: a consumer's change of password,
\* an administrator's reset.  The identity's row keeps others out; first the snapshot
\* of the second UPDATE, then the commit.
BeginPasswordTx(q) ==
  /\ pc[q] = "found" /\ InTx = {}
  /\ job[q] = "reset" => side = "admin" /\ Consumable(arg[q])
  /\ targets' = [targets EXCEPT ![q] = Live]
  /\ Goto(q, "changing")
  /\ UNCHANGED <<rows, identity>>

CommitPasswordTx(q) ==
  /\ pc[q] = "changing"
  /\ SetPassword(q) /\ Consume(q)
  /\ RevokeTargets(q)
  /\ End(q, "ok")
  /\ UNCHANGED <<family, expired, next, handoff>>

\* consumeTokenAndUpdatePassword: a consumer's sessions are revoked after it commits.
ResetConsumer(q) ==
  /\ pc[q] = "found" /\ job[q] = "reset" /\ side = "consumer" /\ InTx = {}
  /\ Consumable(arg[q])
  /\ SetPassword(q) /\ Consume(q)
  /\ Goto(q, "revoking")
  /\ UNCHANGED <<targets, rows, handoff>>

ResetRefused(q) ==
  /\ pc[q] = "found" /\ job[q] = "reset" /\ InTx = {} /\ ~Consumable(arg[q])
  /\ End(q, "denied")
  /\ UNCHANGED <<rows, identity>>

\* A new link invalidates the older ones, then is created: for a consumer in two
\* statements, for an administrator in one transaction, whose snapshot comes first.
ActiveResets == {t \in Resets : reset[t] = "active"}

Invalidated(T) == [t \in Resets |-> IF t \in T THEN "gone" ELSE reset[t]]

Ask(q) ==
  /\ side = "consumer"
  /\ Begin(q, "ask", None, "asked")
  /\ reset' = Invalidated(ActiveResets)
  /\ UNCHANGED <<targets, rows, changes, handoff>>

AskForAdmin(q) ==
  /\ side = "admin"
  /\ Begin(q, "ask", None, "asked")
  /\ targets' = [targets EXCEPT ![q] = ActiveResets]
  /\ UNCHANGED <<rows, identity>>

Asked(q) ==
  /\ pc[q] = "asked"
  /\ \E t \in Resets : /\ reset[t] = "none"
                       /\ reset' = [Invalidated(targets[q]) EXCEPT ![t] = "active"]
  /\ End(q, "ok")
  /\ UNCHANGED <<rows, changes, handoff>>

----------------------------------------------------------------------------
Expire(s) ==
  /\ s \in Rows /\ ~expired[s]
  /\ expired' = [expired EXCEPT ![s] = TRUE]
  /\ UNCHANGED <<side, family, revoked, next, identity, requests>>

\* The instance dies or a statement fails: an open transaction is undone, what was
\* committed stays, and nothing takes the request up again.
Crash(q) ==
  /\ pc[q] \notin {"new", "ok", "denied", "reuse", "dead"}
  /\ End(q, "dead")
  /\ UNCHANGED <<rows, identity>>

Step(q) == \/ Issue(q) \/ Rotate(q) \/ Conflict(q) \/ Sweep(q) \/ Swept(q) \/ Kicked(q)
           \/ BeginPasswordTx(q) \/ CommitPasswordTx(q) \/ ResetConsumer(q)
           \/ ResetRefused(q) \/ Asked(q)

Arrive(q) == \/ Login(q) \/ Everywhere(q) \/ Change(q) \/ Ask(q) \/ AskForAdmin(q)
             \/ \E s \in Ids : Refresh(q, s) \/ Logout(q, s) \/ Kick(q, s)
             \/ \E h \in Handoffs : CompleteOAuth(q, h)
             \/ \E t \in Resets : Reset(q, t)

Next == \/ \E q \in Requests : Arrive(q) \/ Step(q) \/ Crash(q)
        \/ \E h \in Handoffs : GoogleCallback(h) \/ HandoffExpires(h)
        \/ \E s \in Ids : Expire(s)

Spec == Init /\ [][Next]_vars

----------------------------------------------------------------------------
\* A family has one working token: however refreshes of one token race, one row of
\* the chain is not revoked, or none.
OneLivePerFamily ==
  \A s, t \in Live : family[s] = family[t] => s = t

\* The rows of a family form a chain: a row replaces exactly one other, which is
\* revoked and of the same family, or is the first of its family.
RotationChain ==
  /\ \A s \in Ids : next[s] # None => /\ revoked[s] /\ next[s] \in Rows
                                      /\ family[next[s]] = family[s]
  /\ \A s, t \in Ids : next[s] # None /\ next[s] = next[t] => s = t
  /\ \A s \in Rows : family[s] # s => \E t \in Rows : next[t] = s

\* A refresh that was told its token is reused has taken the other one's session
\* with it: the row that won the race no longer works.
ReuseKillsWinner ==
  \A q \in Requests : pc[q] = "reuse" /\ next[arg[q]] # None => revoked[next[arg[q]]]

\* A Google sign-in lets one request in, however often its record is presented.
OneSessionPerHandoff ==
  \A p, q \in Requests : job[p] = "oauth" /\ job[q] = "oauth" /\ arg[p] = arg[q] => p = q

\* A reset token sets the password once.
ResetOnce ==
  \A i, j \in 1..Len(changes) :
    /\ job[changes[i]] = "reset" /\ job[changes[j]] = "reset"
    /\ arg[changes[i]] = arg[changes[j]]
    => i = j

\* The inductive invariant behind them.  A row's family has a first row, and an id
\* that was not drawn has no trace.
RowsWellFormed ==
  \A s \in Ids : IF family[s] = None THEN next[s] = None /\ ~revoked[s]
                                     ELSE family[s] \in Rows

\* A refresh that lost its swap can never win it, and its UPDATE has found the row
\* that won unless that row is revoked already.
Sweeping(q) == pc[q] = "sweeping" /\ job[q] = "refresh"
Lost(q) ==
  /\ pc[q] \in {"rotating", "conflict", "reuse"} => job[q] = "refresh"
  /\ pc[q] = "revoking" => job[q] # "refresh"
  /\ pc[q] \in {"rotating", "conflict", "reuse", "kicking"} \/ Sweeping(q) => arg[q] \in Rows
  /\ pc[q] \in {"conflict", "reuse"} \/ Sweeping(q) => ~Rotatable(arg[q])
  /\ Sweeping(q) => \/ next[arg[q]] = None
                    \/ next[arg[q]] \in targets[q]
                    \/ revoked[next[arg[q]]]
  /\ pc[q] \in {"sweeping", "changing"} => targets[q] \subseteq Rows
LostTheRace == \A q \in Requests : Lost(q)

\* One transaction at a time sets the password, and a reset token that set it is gone.
PasswordSound ==
  /\ \A p, q \in InTx : p = q
  /\ \A q \in Requests : /\ job[q] = "reset" => arg[q] \in Resets
                         /\ pc[q] \in {"found", "changing"} => job[q] \in {"change", "reset"}
  /\ \A i \in 1..Len(changes) :
       /\ job[changes[i]] \in {"change", "reset"}
       /\ pc[changes[i]] \in {"revoking", "sweeping", "ok", "dead"}
       /\ job[changes[i]] = "reset" => reset[arg[changes[i]]] = "gone"
  /\ \A q \in InTx, i \in 1..Len(changes) :
       job[q] = "reset" /\ job[changes[i]] = "reset" => arg[changes[i]] # arg[q]

HandoffSound == \A q \in Requests : job[q] = "oauth" => /\ arg[q] \in Handoffs
                                                        /\ handoff[arg[q]] = "gone"

Inv == /\ TypeOK /\ RowsWellFormed /\ OneLivePerFamily /\ RotationChain /\ LostTheRace
       /\ ReuseKillsWinner /\ PasswordSound /\ ResetOnce /\ HandoffSound /\ OneSessionPerHandoff

\* What the services promise, read off the table.
Families == INSTANCE TokenFamily WITH Tokens <- Ids, issued <- Rows,
              live <- [f \in Ids |-> {s \in Live : family[s] = f}]
KeepsFamilies == Families!Spec
=============================================================================
