------------------------- MODULE AuthSession_proofs -------------------------
(***************************************************************************)
(* Proofs about AuthSession: its types, that a family of sessions has one  *)
(* working token, that it implements TokenFamily, and that a reset token   *)
(* and a sign-in record work once, for any requests and ids.               *)
(***************************************************************************)
EXTENDS AuthSession, TLAPS

\* All a step may do to the table: revoke rows, start a family, rotate one row.
Grown ==
  /\ UNCHANGED <<family, next>>
  /\ revoked' \in [Ids -> BOOLEAN]
  /\ \A s \in Ids : revoked[s] => revoked'[s]
  /\ \A s \in Ids : revoked'[s] => revoked[s] \/ s \in Rows

Drawn ==
  /\ \E s \in Fresh : family' = [family EXCEPT ![s] = s]
  /\ UNCHANGED <<revoked, next>>

Rotated ==
  \E s \in Rows, n \in Fresh :
    /\ Rotatable(s)
    /\ family' = [family EXCEPT ![n] = family[s]]
    /\ next' = [next EXCEPT ![s] = n]
    /\ revoked' = [revoked EXCEPT ![s] = TRUE]

Ageing == \A s \in Ids : expired[s] => expired'[s]

TableStep == (Grown \/ Drawn \/ Rotated) /\ Ageing

\* All a step may do to the requests: one of them moves, or none.
Alone(p) ==
  \A q \in Requests \ {p} : /\ pc'[q] = pc[q] /\ job'[q] = job[q]
                            /\ arg'[q] = arg[q] /\ targets'[q] = targets[q]

----------------------------------------------------------------------------
LEMMA Sweeps ==
  ASSUME Inv, NEW q \in Requests, pc[q] \in {"sweeping", "changing"},
         RevokeTargets(q), UNCHANGED <<family, next>>
  PROVE  Grown
BY DEF Inv, TypeOK, LostTheRace, Lost, RevokeTargets, Grown, Rows

LEMMA RevokesOne ==
  ASSUME Inv, NEW s \in Rows, revoked' = [revoked EXCEPT ![s] = TRUE],
         UNCHANGED <<family, next>>
  PROVE  Grown
BY DEF Inv, TypeOK, Grown, Rows

LEMMA NothingRevoked ==
  ASSUME Inv, UNCHANGED <<family, next, revoked>>
  PROVE  Grown
BY DEF Inv, TypeOK, Grown

LEMMA TableSteps ==
  ASSUME Inv, [Next]_vars
  PROVE  TableStep
<1> USE DEF TableStep, rows, identity, requests
<1>a. TypeOK
  BY DEF Inv
<1>0. CASE UNCHANGED vars
  BY <1>0, NothingRevoked DEF vars, Ageing
<1>1. CASE \E q \in Requests : Arrive(q)
  <2> PICK q \in Requests : Arrive(q)
    BY <1>1
  <2>1. CASE \E s \in Ids : Logout(q, s)
    <3> PICK s \in Ids : Logout(q, s)
      BY <2>1
    <3>1. s \in Rows /\ revoked' = [revoked EXCEPT ![s] = TRUE] /\ UNCHANGED <<family, next, expired>>
      BY DEF Logout
    <3> QED BY <3>1, RevokesOne DEF Ageing
  <2>2. CASE ~ \E s \in Ids : Logout(q, s)
    <3>1. UNCHANGED <<family, next, revoked, expired>>
      BY <2>2 DEF Arrive, Login, Everywhere, Change, Ask, AskForAdmin, Refresh, Kick,
                  CompleteOAuth, Reset
    <3> QED BY <3>1, NothingRevoked DEF Ageing
  <2> QED BY <2>1, <2>2
<1>2. CASE \E q \in Requests : Step(q)
  <2> PICK q \in Requests : Step(q)
    BY <1>2
  <2>1. CASE Issue(q)
    BY <2>1 DEF Issue, Drawn, Ageing
  <2>2. CASE Rotate(q)
    <3>1. arg[q] \in Rows
      BY <2>2 DEF Rotate, Inv, LostTheRace, Lost
    <3> QED BY <2>2, <3>1 DEF Rotate, Rotated, Ageing
  <2>3. CASE Swept(q)
    <3>1. pc[q] = "sweeping" /\ RevokeTargets(q) /\ UNCHANGED <<family, next, expired>>
      BY <2>3 DEF Swept
    <3> QED BY <3>1, Sweeps DEF Ageing
  <2>4. CASE Kicked(q)
    <3>1. /\ arg[q] \in Rows /\ revoked' = [revoked EXCEPT ![arg[q]] = TRUE]
          /\ UNCHANGED <<family, next, expired>>
      BY <2>4 DEF Kicked, Inv, LostTheRace, Lost
    <3> QED BY <3>1, RevokesOne DEF Ageing
  <2>5. CASE CommitPasswordTx(q)
    <3>1. pc[q] = "changing" /\ RevokeTargets(q) /\ UNCHANGED <<family, next, expired>>
      BY <2>5 DEF CommitPasswordTx
    <3> QED BY <3>1, Sweeps DEF Ageing
  <2>6. CASE \/ Conflict(q) \/ Sweep(q) \/ BeginPasswordTx(q) \/ ResetConsumer(q)
             \/ ResetRefused(q) \/ Asked(q)
    <3>1. UNCHANGED <<family, next, revoked, expired>>
      BY <2>6 DEF Conflict, Sweep, BeginPasswordTx, ResetConsumer, ResetRefused, Asked
    <3> QED BY <3>1, NothingRevoked DEF Ageing
  <2> QED BY <2>1, <2>2, <2>3, <2>4, <2>5, <2>6 DEF Step
<1>3. CASE \E q \in Requests : Crash(q)
  BY <1>3, NothingRevoked DEF Crash, Ageing
<1>4. CASE \E h \in Handoffs : GoogleCallback(h) \/ HandoffExpires(h)
  BY <1>4, NothingRevoked DEF GoogleCallback, HandoffExpires, Ageing
<1>5. CASE \E s \in Ids : Expire(s)
  <2>1. UNCHANGED <<family, next, revoked>> /\ Ageing
    BY <1>5, <1>a DEF Expire, Ageing, TypeOK
  <2> QED BY <2>1, NothingRevoked
<1> QED BY <1>0, <1>1, <1>2, <1>3, <1>4, <1>5 DEF Next

\* The table keeps its shape under each of the three.
LEMMA TableKeeps ==
  ASSUME Inv, TableStep
  PROVE  /\ family' \in [Ids -> Ids \cup {None}] /\ revoked' \in [Ids -> BOOLEAN]
         /\ next' \in [Ids -> Ids \cup {None}]
         /\ Rows \subseteq Rows'
         /\ RowsWellFormed' /\ OneLivePerFamily' /\ RotationChain'
         /\ \A s \in Ids : revoked[s] => revoked'[s]
         /\ \A s \in Ids : ~Rotatable(s) => ~Rotatable(s)' /\ next'[s] = next[s]
<1> USE NoneAssumption DEF TableStep, Rows, Live, Fresh
<1>0. /\ family \in [Ids -> Ids \cup {None}] /\ revoked \in [Ids -> BOOLEAN]
      /\ next \in [Ids -> Ids \cup {None}]
      /\ RowsWellFormed /\ OneLivePerFamily /\ RotationChain
  BY DEF Inv, TypeOK
<1>1. CASE Grown
  BY <1>0, <1>1 DEF Grown, Ageing, RowsWellFormed, OneLivePerFamily, RotationChain, Rotatable
<1>2. CASE Drawn
  <2> PICK s \in Fresh : family' = [family EXCEPT ![s] = s]
    BY <1>2 DEF Drawn
  <2>1. UNCHANGED <<revoked, next>>
    BY <1>2 DEF Drawn
  <2>2. /\ family' \in [Ids -> Ids \cup {None}]
        /\ family'[s] = s /\ \A i \in Ids \ {s} : family'[i] = family[i]
    BY <1>0
  <2>3. \A i \in Rows : family[i] # s
    BY <1>0 DEF RowsWellFormed
  <2>4. next[s] = None /\ ~revoked[s]
    BY <1>0 DEF RowsWellFormed
  <2> QED BY <1>0, <2>1, <2>2, <2>3, <2>4
          DEF Ageing, RowsWellFormed, OneLivePerFamily, RotationChain, Rotatable
<1>3. CASE Rotated
  <2> PICK s \in Rows, n \in Fresh :
        /\ Rotatable(s)
        /\ family' = [family EXCEPT ![n] = family[s]]
        /\ next' = [next EXCEPT ![s] = n]
        /\ revoked' = [revoked EXCEPT ![s] = TRUE]
    BY <1>3 DEF Rotated
  <2>1. s # n /\ ~revoked[s] /\ next[s] = None /\ family[s] \in Rows
    BY <1>0 DEF Rotatable, RowsWellFormed
  <2>2. next[n] = None /\ ~revoked[n]
    BY <1>0 DEF RowsWellFormed
  <2>3. /\ family' \in [Ids -> Ids \cup {None}]
        /\ family'[n] = family[s] /\ \A i \in Ids \ {n} : family'[i] = family[i]
    BY <1>0
  <2>4. /\ next' \in [Ids -> Ids \cup {None}]
        /\ next'[s] = n /\ \A i \in Ids \ {s} : next'[i] = next[i]
    BY <1>0
  <2>5. /\ revoked' \in [Ids -> BOOLEAN]
        /\ revoked'[s] /\ \A i \in Ids \ {s} : revoked'[i] = revoked[i]
    BY <1>0
  <2>6. Rows' = Rows \cup {n}
    BY <1>0, <2>1, <2>3
  <2>7. RowsWellFormed'
    BY <1>0, <2>1, <2>2, <2>3, <2>4, <2>5 DEF RowsWellFormed
  <2>8. OneLivePerFamily'
    BY <1>0, <2>1, <2>2, <2>3, <2>5 DEF OneLivePerFamily
  <2>9. RotationChain'
    <3>1. \A i \in Ids : next[i] # n
      BY <1>0 DEF RotationChain
    <3> QED BY <1>0, <2>1, <2>2, <2>3, <2>4, <2>5, <3>1 DEF RotationChain
  <2> QED BY <1>0, <2>1, <2>3, <2>4, <2>5, <2>6, <2>7, <2>8, <2>9 DEF Ageing, Rotatable
<1> QED BY <1>1, <1>2, <1>3

----------------------------------------------------------------------------
LEMMA TypeStep ==
  ASSUME Inv, [Next]_vars
  PROVE  TypeOK'
<1>0. TableStep /\ TypeOK /\ LostTheRace /\ PasswordSound
  BY TableSteps DEF Inv
<1>1. /\ family' \in [Ids -> Ids \cup {None}] /\ revoked' \in [Ids -> BOOLEAN]
      /\ next' \in [Ids -> Ids \cup {None}] /\ Rows \subseteq Rows'
  BY <1>0, TableKeeps
<1> DEFINE Table == /\ family \in [Ids -> Ids \cup {None}] /\ revoked \in [Ids -> BOOLEAN]
                    /\ next \in [Ids -> Ids \cup {None}]
           Ageless == expired \in [Ids -> BOOLEAN]
           Known == /\ side \in {"consumer", "admin"}
                    /\ changes \in Seq(Requests)
                    /\ reset \in [Resets -> {"none", "active", "gone"}]
                    /\ handoff \in [Handoffs -> {"none", "saved", "gone"}]
           Asking == /\ pc \in [Requests -> Places] /\ job \in [Requests -> Jobs]
                     /\ arg \in [Requests -> Ids \cup Resets \cup Handoffs \cup {None}]
           Holding == /\ targets \in [Requests -> SUBSET (Rows \cup Resets)]
                      /\ \A q \in Requests :
                           targets[q] # {} => pc[q] \in {"sweeping", "changing", "asked"}
<1>2. Table'
  BY <1>1
<1>3. Ageless /\ Known /\ Asking /\ Holding
  BY <1>0 DEF TypeOK
<1>4. CASE UNCHANGED vars
  BY <1>4, <1>0 DEF vars, rows, identity, requests, TypeOK, Rows
<1>5. CASE \E q \in Requests : Arrive(q)
  <2> PICK q \in Requests : Arrive(q)
    BY <1>5
  <2> USE DEF Arrive, Login, Everywhere, Change, Ask, AskForAdmin, Refresh, Logout, Kick,
              CompleteOAuth, Reset, rows, identity
  <2>1. Ageless'
    BY <1>3
  <2>2. Known'
    BY <1>3 DEF Begin, Invalidated, TakeHandoff
  <2>3. Asking'
    <3>1. \E j \in Jobs, a \in Ids \cup Resets \cup Handoffs \cup {None}, w \in Places :
            Begin(q, j, a, w)
      BY DEF Jobs, Places, Rows
    <3> QED BY <1>3, <3>1 DEF Begin
  <2>4. targets' = targets \/ (pc'[q] = "asked" /\ targets' = [targets EXCEPT ![q] = ActiveResets])
    BY <1>3 DEF Begin
  <2>5. pc[q] = "new" /\ \A p \in Requests \ {q} : pc'[p] = pc[p]
    BY <1>3 DEF Begin
  <2>6. Holding'
    BY <1>1, <1>3, <2>4, <2>5 DEF ActiveResets
  <2> QED BY <1>2, <2>1, <2>2, <2>3, <2>6 DEF TypeOK
<1>6. CASE \E q \in Requests : Step(q) \/ Crash(q)
  <2> PICK q \in Requests : Step(q) \/ Crash(q)
    BY <1>6
  <2> USE DEF Step, Crash, Issue, Rotate, Conflict, Sweep, Swept, Kicked, BeginPasswordTx,
              CommitPasswordTx, ResetConsumer, ResetRefused, Asked, rows, identity
  <2>1. Ageless'
    <3>1. CASE Rotate(q)
      <4>1. arg[q] \in Ids
        BY <3>1, <1>0 DEF LostTheRace, Lost, Rows
      <4> QED BY <1>3, <3>1, <4>1
    <3> QED BY <1>3, <3>1
  <2>2. /\ side' = side
        /\ changes' = changes \/ changes' = Append(changes, q)
        /\ handoff' = handoff
    BY DEF Goto, End, SetPassword
  <2>3. reset' \in [Resets -> {"none", "active", "gone"}]
    BY <1>3 DEF Consume, Invalidated
  <2>4. Known'
    <3>1. Append(changes, q) \in Seq(Requests)
      BY <1>3
    <3> HIDE DEF Step, Crash
    <3> QED BY <1>3, <2>2, <2>3, <3>1
  <2>5. \E w \in Places : Goto(q, w)
    BY DEF End, Places
  <2>6. Asking'
    BY <1>3, <2>5 DEF Goto
  <2>7. \/ targets' = [targets EXCEPT ![q] = {}]
        \/ targets' = targets /\ targets[q] = {}
        \/ /\ pc'[q] \in {"sweeping", "changing"}
           /\ \E T \in SUBSET Rows : targets' = [targets EXCEPT ![q] = T]
    <3>1. CASE Sweep(q) \/ BeginPasswordTx(q)
      BY <1>3, <3>1 DEF Goto, OfFamily, Live, Rows
    <3>2. CASE Conflict(q) \/ ResetConsumer(q)
      BY <1>3, <3>2
    <3> QED BY <3>1, <3>2 DEF End, Release
  <2>8. Holding'
    BY <1>1, <1>3, <2>5, <2>7 DEF Goto
  <2> QED BY <1>2, <2>1, <2>4, <2>6, <2>8 DEF TypeOK
<1>7. CASE \E h \in Handoffs : GoogleCallback(h) \/ HandoffExpires(h)
  BY <1>0, <1>7 DEF GoogleCallback, HandoffExpires, TypeOK, rows, requests, Rows
<1>8. CASE \E s \in Ids : Expire(s)
  BY <1>0, <1>8 DEF Expire, TypeOK, identity, requests, Rows
<1> QED BY <1>4, <1>5, <1>6, <1>7, <1>8 DEF Next

LEMMA OneMoves ==
  ASSUME TypeOK, [Next]_vars
  PROVE  \/ UNCHANGED requests
         \/ \E p \in Requests : (Arrive(p) \/ Step(p) \/ Crash(p)) /\ Alone(p)
<1>1. CASE \E p \in Requests : Arrive(p)
  <2> PICK p \in Requests : Arrive(p)
    BY <1>1
  <2>1. \E j, a, w : Begin(p, j, a, w)
    BY DEF Arrive, Login, Everywhere, Change, Ask, AskForAdmin, Refresh, Logout, Kick,
           CompleteOAuth, Reset
  <2>2. targets' = targets \/ \E T : targets' = [targets EXCEPT ![p] = T]
    BY DEF Arrive, Login, Everywhere, Change, Ask, AskForAdmin, Refresh, Logout, Kick,
           CompleteOAuth, Reset
  <2> QED BY <2>1, <2>2 DEF Begin, Alone, TypeOK
<1>2. CASE \E p \in Requests : Step(p) \/ Crash(p)
  <2> PICK p \in Requests : Step(p) \/ Crash(p)
    BY <1>2
  <2> USE DEF Step, Crash, Issue, Rotate, Conflict, Sweep, Swept, Kicked, BeginPasswordTx,
              CommitPasswordTx, ResetConsumer, ResetRefused, Asked, End, Release
  <2>1. \E w : Goto(p, w)
    OBVIOUS
  <2>2. targets' = targets \/ \E T : targets' = [targets EXCEPT ![p] = T]
    OBVIOUS
  <2> QED BY <2>1, <2>2 DEF Goto, Alone, TypeOK
<1> QED BY <1>1, <1>2 DEF Next, vars, GoogleCallback, HandoffExpires, Expire

LEMMA Begins ==
  ASSUME TypeOK, NEW q \in Requests, NEW j, NEW a, NEW w, Begin(q, j, a, w)
  PROVE  pc[q] = "new" /\ pc'[q] = w /\ job'[q] = j /\ arg'[q] = a
BY DEF Begin, TypeOK

\* What a request is and where it goes when it arrives.
LEMMA Arrives ==
  ASSUME TypeOK, NEW q \in Requests, Arrive(q)
  PROVE  /\ pc[q] = "new"
         /\ \/ job'[q] = "refresh" /\ pc'[q] \in {"rotating", "denied"} /\ arg'[q] \in Rows
            \/ job'[q] = "kick" /\ pc'[q] \in {"kicking", "ok"} /\ arg'[q] \in Rows
            \/ job'[q] = "everywhere" /\ pc'[q] = "revoking"
            \/ job'[q] = "reset" /\ pc'[q] \in {"found", "denied"} /\ arg'[q] \in Resets
            \/ job'[q] = "change" /\ pc'[q] = "found"
            \/ job'[q] \in {"login", "ask", "logout"} /\ pc'[q] \in {"verified", "asked", "ok"}
            \/ /\ job'[q] = "oauth" /\ pc'[q] = "verified" /\ arg'[q] \in Handoffs
               /\ handoff[arg'[q]] = "saved" /\ handoff' = TakeHandoff(arg'[q])
<1>1. CASE Login(q) \/ Ask(q) \/ AskForAdmin(q) \/ \E s \in Ids : Logout(q, s)
  BY <1>1, Begins DEF Login, Ask, AskForAdmin, Logout
<1>2. CASE Everywhere(q) \/ Change(q)
  BY <1>2, Begins DEF Everywhere, Change
<1>3. CASE \E s \in Ids : Refresh(q, s)
  BY <1>3, Begins DEF Refresh
<1>4. CASE \E s \in Ids : Kick(q, s)
  BY <1>4, Begins DEF Kick
<1>5. CASE \E t \in Resets : Reset(q, t)
  BY <1>5, Begins DEF Reset
<1>6. CASE \E h \in Handoffs : CompleteOAuth(q, h)
  BY <1>6, Begins DEF CompleteOAuth
<1> QED BY <1>1, <1>2, <1>3, <1>4, <1>5, <1>6 DEF Arrive

\* A refresh and what it has found, while the table changes under it.
LEMMA RaceStep ==
  ASSUME Inv, [Next]_vars
  PROVE  LostTheRace' /\ ReuseKillsWinner'
<1>1. /\ Rows \subseteq Rows'
      /\ \A s \in Ids : revoked[s] => revoked'[s]
      /\ \A s \in Ids : ~Rotatable(s) => ~Rotatable(s)'
      /\ \A s \in Ids : ~Rotatable(s) => next'[s] = next[s]
  BY TableSteps, TableKeeps
<1>2. TypeOK /\ LostTheRace /\ ReuseKillsWinner /\ RotationChain
  BY DEF Inv
<1>3. \A s \in Rows : s \in Ids
  BY DEF Rows
<1>4. \A s \in Ids : next[s] # None => next[s] \in Ids
  BY <1>2 DEF TypeOK
<1> DEFINE Won(q) == pc[q] = "reuse" /\ next[arg[q]] # None => revoked[next[arg[q]]]
<1>5. \A q \in Requests : Lost(q) /\ Won(q)
  BY <1>2 DEF LostTheRace, ReuseKillsWinner
<1>6. ASSUME NEW q \in Requests,
             pc'[q] = pc[q] /\ job'[q] = job[q] /\ arg'[q] = arg[q] /\ targets'[q] = targets[q]
      PROVE  Lost(q)' /\ Won(q)'
  <2>1. Lost(q) /\ Won(q)
    BY <1>5
  <2>2. Lost(q)'
    BY <1>1, <1>3, <1>4, <1>6, <2>1 DEF Lost, Sweeping
  <2>3. Won(q)'
    BY <1>1, <1>3, <1>4, <1>6, <2>1 DEF Lost
  <2> QED BY <2>2, <2>3
<1>7. ASSUME NEW q \in Requests, Arrive(q)
      PROVE  Lost(q)' /\ Won(q)'
  <2>1. pc'[q] \notin {"conflict", "reuse", "sweeping", "changing"}
    BY <1>2, <1>7, Arrives
  <2>2. /\ pc'[q] = "rotating" => job'[q] = "refresh"
        /\ pc'[q] = "revoking" => job'[q] # "refresh"
        /\ pc'[q] \in {"rotating", "kicking"} => arg'[q] \in Rows
    BY <1>2, <1>7, Arrives
  <2> QED BY <1>1, <2>1, <2>2 DEF Lost, Sweeping
<1>8. ASSUME NEW q \in Requests, Step(q) \/ Crash(q)
      PROVE  Lost(q)' /\ Won(q)'
  <2>0. Lost(q) /\ job' = job /\ arg' = arg
    BY <1>5, <1>8 DEF Step, Crash, Issue, Rotate, Conflict, Sweep, Swept, Kicked, BeginPasswordTx,
                      CommitPasswordTx, ResetConsumer, ResetRefused, Asked, End, Goto
  <2>1. CASE Conflict(q)
    <3>1. /\ pc[q] = "rotating" /\ pc'[q] = "conflict" /\ ~Rotatable(arg[q])
      BY <2>1, <1>2 DEF Conflict, Goto, TypeOK
    <3> QED BY <1>1, <1>3, <2>0, <3>1 DEF Lost, Sweeping
  <2>2. CASE Sweep(q) /\ pc[q] = "conflict"
    <3>1. pc'[q] = "sweeping" /\ targets'[q] = OfFamily(q) /\ next' = next /\ revoked' = revoked
      BY <2>2, <1>2 DEF Sweep, Goto, TypeOK, rows
    <3>2. /\ job[q] = "refresh" /\ arg[q] \in Rows /\ ~Rotatable(arg[q])
      BY <2>0, <2>2 DEF Lost
    <3>3. OfFamily(q) \subseteq Rows
      BY DEF OfFamily, Live
    <3>4. next[arg[q]] # None /\ ~revoked[next[arg[q]]] => next[arg[q]] \in OfFamily(q)
      BY <1>2, <1>3, <3>2 DEF RotationChain, OfFamily, Live
    <3> QED BY <1>1, <1>3, <2>0, <3>1, <3>2, <3>3, <3>4 DEF Lost, Sweeping
  <2>3. CASE Sweep(q) /\ pc[q] # "conflict"
    <3>1. pc[q] = "revoking" /\ pc'[q] = "sweeping" /\ targets'[q] = Live
      BY <2>3, <1>2 DEF Sweep, Goto, TypeOK
    <3>2. job[q] # "refresh" /\ Live \subseteq Rows
      BY <2>0, <3>1 DEF Lost, Live
    <3> QED BY <1>1, <2>0, <3>1, <3>2 DEF Lost, Sweeping
  <2>4. CASE Swept(q)
    <3>1. /\ pc[q] = "sweeping" /\ pc'[q] = IF job[q] = "refresh" THEN "reuse" ELSE "ok"
          /\ next' = next /\ \A s \in Ids : s \in targets[q] => revoked'[s]
      BY <2>4, <1>2 DEF Swept, End, Goto, TypeOK, RevokeTargets
    <3>2. CASE job[q] = "refresh"
      <4>1. /\ arg[q] \in Rows /\ ~Rotatable(arg[q])
            /\ \/ next[arg[q]] = None \/ next[arg[q]] \in targets[q] \/ revoked[next[arg[q]]]
        BY <2>0, <3>1, <3>2 DEF Lost, Sweeping
      <4> QED BY <1>1, <1>3, <1>4, <2>0, <3>1, <3>2, <4>1 DEF Lost, Sweeping
    <3>3. CASE job[q] # "refresh"
      BY <2>0, <3>1, <3>3 DEF Lost, Sweeping
    <3> QED BY <3>2, <3>3
  <2>5. CASE BeginPasswordTx(q)
    <3>1. pc'[q] = "changing" /\ targets'[q] = Live
      BY <2>5, <1>2 DEF BeginPasswordTx, Goto, TypeOK
    <3> QED BY <1>1, <3>1 DEF Lost, Sweeping, Live
  <2>6. CASE ResetConsumer(q)
    <3>1. pc'[q] = "revoking" /\ job[q] = "reset"
      BY <2>6, <1>2 DEF ResetConsumer, Goto, TypeOK
    <3> QED BY <2>0, <3>1 DEF Lost, Sweeping
  <2>7. CASE \/ Issue(q) \/ Rotate(q) \/ Kicked(q) \/ CommitPasswordTx(q) \/ ResetRefused(q)
             \/ Asked(q) \/ Crash(q)
    <3>1. pc'[q] \in {"ok", "denied", "dead"}
      BY <2>7, <1>2 DEF Issue, Rotate, Kicked, CommitPasswordTx, ResetRefused, Asked, Crash,
                        End, Goto, TypeOK
    <3> QED BY <3>1 DEF Lost, Sweeping
  <2> QED BY <1>8, <2>1, <2>2, <2>3, <2>4, <2>5, <2>6, <2>7 DEF Step
<1>9. \A q \in Requests : Lost(q)' /\ Won(q)'
  <2>1. CASE UNCHANGED requests
    BY <1>6, <2>1 DEF requests
  <2>2. CASE \E p \in Requests : (Arrive(p) \/ Step(p) \/ Crash(p)) /\ Alone(p)
    <3> PICK p \in Requests : (Arrive(p) \/ Step(p) \/ Crash(p)) /\ Alone(p)
      BY <2>2
    <3> TAKE q \in Requests
    <3>1. CASE q = p
      BY <1>7, <1>8, <3>1
    <3>2. CASE q # p
      BY <1>6, <3>2 DEF Alone
    <3> QED BY <3>1, <3>2
  <2> QED BY <1>2, <2>1, <2>2, OneMoves
<1> QED BY <1>9 DEF LostTheRace, ReuseKillsWinner

----------------------------------------------------------------------------
\* A request that set the password has nothing left to set, and its token is gone.
Done(q) == /\ job[q] \in {"change", "reset"}
           /\ pc[q] \in {"revoking", "sweeping", "ok", "dead"}
           /\ job[q] = "reset" => reset[arg[q]] = "gone"

\* The same after the step, of a request that is not read off the next state.
DoneNext(q) == /\ job'[q] \in {"change", "reset"}
               /\ pc'[q] \in {"revoking", "sweeping", "ok", "dead"}
               /\ job'[q] = "reset" => reset'[arg'[q]] = "gone"

LEMMA GoneStays ==
  ASSUME TypeOK, [Next]_vars
  PROVE  \A t \in Resets : reset[t] = "gone" => reset'[t] = "gone"
<1>1. ASSUME NEW p \in Requests, Arrive(p)
      PROVE  \A t \in Resets : reset[t] = "gone" => reset'[t] = "gone"
  BY <1>1 DEF Arrive, Login, Everywhere, Change, Ask, AskForAdmin, Refresh, Logout, Kick,
              CompleteOAuth, Reset, identity, Invalidated, TypeOK
<1>2. ASSUME NEW p \in Requests, Step(p) \/ Crash(p)
      PROVE  \A t \in Resets : reset[t] = "gone" => reset'[t] = "gone"
  BY <1>2 DEF Step, Crash, Issue, Rotate, Conflict, Sweep, Swept, Kicked, BeginPasswordTx,
              CommitPasswordTx, ResetConsumer, ResetRefused, Asked, identity, Consume,
              Invalidated, TypeOK
<1> QED BY <1>1, <1>2 DEF Next, vars, identity, GoogleCallback, HandoffExpires, Expire

\* The password is set by a committing transaction or by a consumer's reset alone.
LEMMA SetsPassword ==
  ASSUME TypeOK, [Next]_vars
  PROVE  \/ changes' = changes
         \/ \E p \in Requests : CommitPasswordTx(p) \/ ResetConsumer(p)
BY DEF Next, vars, identity, GoogleCallback, HandoffExpires, Expire, Arrive, Login, Everywhere,
       Change, Ask, AskForAdmin, Refresh, Logout, Kick, CompleteOAuth, Reset, Step, Crash, Issue,
       Rotate, Conflict, Sweep, Swept, Kicked, BeginPasswordTx, ResetRefused, Asked

LEMMA DoneStays ==
  ASSUME Inv, [Next]_vars, NEW q \in Requests, Done(q)
  PROVE  Done(q)' /\ arg'[q] = arg[q] /\ job'[q] = job[q]
<1>1. TypeOK /\ LostTheRace /\ PasswordSound
  BY DEF Inv
<1>2. job[q] = "reset" => arg[q] \in Resets
  BY <1>1 DEF PasswordSound
<1>3. ASSUME Arrive(q)
      PROVE  FALSE
  BY <1>1, <1>3, Arrives DEF Done
<1>4. ASSUME Step(q) \/ Crash(q)
      PROVE  Done(q)' /\ arg' = arg /\ job' = job
  <2>1. arg' = arg /\ job' = job /\ pc'[q] \in {"sweeping", "ok", "dead"}
    <3>1. job[q] # "refresh"
      BY DEF Done
    <3> QED BY <1>1, <1>4, <3>1
            DEF Done, Step, Crash, Issue, Rotate, Conflict, Sweep, Swept, Kicked, BeginPasswordTx,
                CommitPasswordTx, ResetConsumer, ResetRefused, Asked, End, Goto, TypeOK
  <2> QED BY <1>1, <1>2, <2>1, GoneStays DEF Done
<1>5. ASSUME pc'[q] = pc[q], job'[q] = job[q], arg'[q] = arg[q]
      PROVE  Done(q)'
  BY <1>1, <1>2, <1>5, GoneStays DEF Done
<1>6. CASE UNCHANGED requests
  BY <1>5, <1>6 DEF requests
<1>7. CASE \E p \in Requests : (Arrive(p) \/ Step(p) \/ Crash(p)) /\ Alone(p)
  <2> PICK p \in Requests : (Arrive(p) \/ Step(p) \/ Crash(p)) /\ Alone(p)
    BY <1>7
  <2>1. CASE p = q
    BY <1>3, <1>4, <2>1
  <2>2. CASE p # q
    BY <1>5, <2>2 DEF Alone
  <2> QED BY <2>1, <2>2
<1> QED BY <1>1, <1>6, <1>7, OneMoves

LEMMA PasswordStep ==
  ASSUME Inv, [Next]_vars
  PROVE  PasswordSound' /\ ResetOnce'
<1>1. TypeOK /\ TypeOK' /\ PasswordSound /\ ResetOnce
  BY TypeStep DEF Inv
<1>2. changes \in Seq(Requests) /\ Len(changes) \in Nat /\ \A i \in 1..Len(changes) : changes[i] \in Requests
  BY <1>1 DEF TypeOK
<1>3. \A i \in 1..Len(changes) : Done(changes[i])
  BY <1>1 DEF PasswordSound, Done
<1>4. \A q \in Requests : Done(q) => Done(q)' /\ arg'[q] = arg[q] /\ job'[q] = job[q]
  BY DoneStays
<1>5. \A q \in Requests : job[q] = "reset" => arg[q] \in Resets
  BY <1>1 DEF PasswordSound
<1>6. \A q \in Requests : /\ job'[q] = "reset" => arg'[q] \in Resets
                          /\ pc'[q] \in {"found", "changing"} => job'[q] \in {"change", "reset"}
  <2>1. ASSUME NEW q \in Requests, Arrive(q)
        PROVE  /\ job'[q] = "reset" => arg'[q] \in Resets
               /\ pc'[q] \in {"found", "changing"} => job'[q] \in {"change", "reset"}
    BY <1>1, <2>1, Arrives
  <2>2. ASSUME NEW q \in Requests, Step(q) \/ Crash(q)
        PROVE  /\ job'[q] = "reset" => arg'[q] \in Resets
               /\ pc'[q] \in {"found", "changing"} => job'[q] \in {"change", "reset"}
    BY <1>1, <2>2 DEF PasswordSound, Step, Crash, Issue, Rotate, Conflict, Sweep, Swept, Kicked,
                      BeginPasswordTx, CommitPasswordTx, ResetConsumer, ResetRefused, Asked, End,
                      Goto, TypeOK
  <2> QED BY <1>1, <2>1, <2>2, OneMoves DEF PasswordSound, Alone, requests
\* Whoever is in its transaction after the step began it now or was there before.
<1>7. \A q \in InTx' : q \in InTx \/ BeginPasswordTx(q)
  <2>1. ASSUME NEW q \in Requests, Arrive(q)
        PROVE  pc'[q] # "changing"
    BY <1>1, <2>1, Arrives
  <2>2. ASSUME NEW q \in Requests, Step(q) \/ Crash(q), pc'[q] = "changing"
        PROVE  BeginPasswordTx(q)
    BY <1>1, <2>2 DEF Step, Crash, Issue, Rotate, Conflict, Sweep, Swept, Kicked,
                      CommitPasswordTx, ResetConsumer, ResetRefused, Asked, End,
                      Goto, TypeOK
  <2> QED BY <1>1, <2>1, <2>2, OneMoves DEF InTx, Alone, requests
<1>8. \A q \in InTx : q \in InTx' => job'[q] = job[q] /\ arg'[q] = arg[q]
  <2>1. ASSUME NEW q \in InTx, Arrive(q)
        PROVE  FALSE
    BY <1>1, <2>1, Arrives DEF InTx
  <2>2. ASSUME NEW q \in InTx, Step(q) \/ Crash(q)
        PROVE  job'[q] = job[q] /\ arg'[q] = arg[q]
    BY <2>2 DEF Step, Crash, Issue, Rotate, Conflict, Sweep, Swept, Kicked,
                BeginPasswordTx, CommitPasswordTx, ResetConsumer, ResetRefused, Asked, End, Goto
  <2> QED BY <1>1, <2>1, <2>2, OneMoves DEF InTx, Alone, requests
<1>9. \A p, q \in InTx' : p = q
  <2> SUFFICES ASSUME NEW p \in InTx', NEW q \in InTx' PROVE p = q
    OBVIOUS
  <2>1. CASE p \in InTx /\ q \in InTx
    BY <1>1, <2>1 DEF PasswordSound
  <2>2. CASE BeginPasswordTx(p)
    <3>1. InTx = {} /\ pc' = [pc EXCEPT ![p] = "changing"]
      BY <2>2 DEF BeginPasswordTx, Goto
    <3> QED BY <1>1, <3>1 DEF InTx, TypeOK
  <2>3. CASE BeginPasswordTx(q)
    <3>1. InTx = {} /\ pc' = [pc EXCEPT ![q] = "changing"]
      BY <2>3 DEF BeginPasswordTx, Goto
    <3> QED BY <1>1, <3>1 DEF InTx, TypeOK
  <2> QED BY <1>7, <2>1, <2>2, <2>3
<1>10. CASE changes' = changes
  <2>1. \A i \in 1..Len(changes) : /\ Done(changes[i])'
                                    /\ arg'[changes[i]] = arg[changes[i]]
                                    /\ job'[changes[i]] = job[changes[i]]
    BY <1>2, <1>3, <1>4, <1>10
  <2>2. \A q \in InTx', i \in 1..Len(changes) :
          job'[q] = "reset" /\ job[changes[i]] = "reset" => arg[changes[i]] # arg'[q]
    <3> SUFFICES ASSUME NEW q \in InTx', NEW i \in 1..Len(changes),
                        job'[q] = "reset", job[changes[i]] = "reset"
                 PROVE  arg[changes[i]] # arg'[q]
      OBVIOUS
    <3>1. CASE q \in InTx
      BY <1>1, <1>8, <3>1 DEF PasswordSound
    <3>2. CASE BeginPasswordTx(q)
      <4>1. job[q] = "reset" => reset[arg[q]] = "active"
        BY <3>2 DEF BeginPasswordTx, Consumable
      <4>2. job' = job /\ arg' = arg
        BY <3>2 DEF BeginPasswordTx, Goto
      <4> QED BY <1>3, <4>1, <4>2 DEF Done
    <3> QED BY <1>7, <3>1, <3>2
  <2>3. ResetOnce'
    BY <1>1, <1>10, <2>1 DEF ResetOnce
  <2> QED BY <1>6, <1>9, <1>10, <2>1, <2>2, <2>3 DEF PasswordSound, Done
<1>11. CASE \E p \in Requests : CommitPasswordTx(p) \/ ResetConsumer(p)
  <2> PICK p \in Requests : CommitPasswordTx(p) \/ ResetConsumer(p)
    BY <1>11
  <2> DEFINE n == Len(changes)
  <2>1. /\ changes' = Append(changes, p) /\ job' = job /\ arg' = arg
        /\ pc'[p] \in {"ok", "revoking"}
        /\ job[p] = "reset" => reset' = [reset EXCEPT ![arg[p]] = "gone"]
    BY <1>1 DEF CommitPasswordTx, ResetConsumer, SetPassword, Consume, End, Goto, TypeOK
  <2>2. /\ Len(changes') = n + 1 /\ changes'[n + 1] = p
        /\ \A i \in 1..n : changes'[i] = changes[i]
        /\ \A i \in 1..(n + 1) : i \in 1..n \/ i = n + 1
    BY <1>2, <2>1
  <2>3. pc[p] \in {"found", "changing"} /\ job[p] \in {"change", "reset"}
    BY <1>1 DEF CommitPasswordTx, ResetConsumer, PasswordSound
  <2>4. Done(p)'
    <3>1. job[p] = "reset" => arg[p] \in Resets
      BY <1>5
    <3> QED BY <1>1, <2>1, <2>3, <3>1 DEF Done, TypeOK
  <2>0. \A q \in Requests : Done(q) => DoneNext(q)
    BY DoneStays DEF Done, DoneNext
  <2>5. \A i \in 1..(n + 1) : DoneNext(changes'[i])
    <3> TAKE i \in 1..(n + 1)
    <3>1. CASE i \in 1..n
      <4>1. DoneNext(changes[i])
        BY <1>2, <1>3, <2>0, <3>1
      <4> QED BY <2>2, <3>1, <4>1
    <3>2. CASE i = n + 1
      <4>1. DoneNext(p)
        BY <2>4 DEF Done, DoneNext
      <4> QED BY <2>2, <3>2, <4>1
    <3> QED BY <2>2, <3>1, <3>2
  <2>6. \A i \in 1..n : job[p] = "reset" /\ job[changes[i]] = "reset" => arg[changes[i]] # arg[p]
    <3>1. CASE CommitPasswordTx(p)
      BY <1>1, <3>1 DEF CommitPasswordTx, PasswordSound, InTx
    <3>2. CASE ResetConsumer(p)
      BY <1>3, <3>2 DEF ResetConsumer, Consumable, Done
    <3> QED BY <3>1, <3>2
  <2>7. ResetOnce'
    BY <1>1, <2>1, <2>2, <2>6 DEF ResetOnce
  <2>8. InTx' = {}
    <3>1. CASE CommitPasswordTx(p)
      <4>1. p \in InTx /\ pc'[p] = "ok"
        BY <1>1, <3>1 DEF CommitPasswordTx, InTx, End, Goto, TypeOK
      <4>2. ASSUME NEW q \in InTx'
            PROVE  q \in InTx
        <5>1. CASE BeginPasswordTx(q)
          <6>1. InTx = {}
            BY <5>1 DEF BeginPasswordTx
          <6> QED BY <4>1, <6>1
        <5> QED BY <1>7, <5>1
      <4> QED BY <1>1, <4>1, <4>2 DEF PasswordSound, InTx
    <3>2. CASE ResetConsumer(p)
      BY <1>1, <3>2 DEF ResetConsumer, Goto, InTx, TypeOK
    <3> QED BY <3>1, <3>2
  <2> QED BY <1>6, <2>2, <2>5, <2>7, <2>8 DEF PasswordSound, DoneNext
<1> QED BY <1>1, <1>10, <1>11, SetsPassword

LEMMA HandoffStep ==
  ASSUME Inv, [Next]_vars
  PROVE  HandoffSound' /\ OneSessionPerHandoff'
<1>1. TypeOK /\ HandoffSound /\ OneSessionPerHandoff
  BY DEF Inv
<1>2. \A h \in Handoffs : handoff[h] = "gone" => handoff'[h] = "gone"
  BY <1>1 DEF Next, vars, identity, GoogleCallback, HandoffExpires, Expire, Arrive, Login,
       Everywhere, Change, Ask, AskForAdmin, Refresh, Logout, Kick, CompleteOAuth, Reset, Step,
       Crash, Issue, Rotate, Conflict, Sweep, Swept, Kicked, BeginPasswordTx, CommitPasswordTx,
       ResetConsumer, ResetRefused, Asked, TakeHandoff, TypeOK
<1>3. ASSUME NEW p \in Requests, Step(p) \/ Crash(p)
      PROVE  job' = job /\ arg' = arg
  BY <1>3 DEF Step, Crash, Issue, Rotate, Conflict, Sweep, Swept, Kicked, BeginPasswordTx,
              CommitPasswordTx, ResetConsumer, ResetRefused, Asked, End, Goto
<1>4. CASE UNCHANGED <<job, arg>>
  BY <1>1, <1>2, <1>4 DEF HandoffSound, OneSessionPerHandoff
<1>5. CASE \E p \in Requests : Arrive(p) /\ Alone(p)
  <2> PICK p \in Requests : Arrive(p) /\ Alone(p)
    BY <1>5
  <2>1. CASE job'[p] # "oauth"
    BY <1>1, <1>2, <2>1 DEF Alone, HandoffSound, OneSessionPerHandoff
  <2>2. CASE job'[p] = "oauth"
    <3>1. /\ arg'[p] \in Handoffs /\ handoff[arg'[p]] = "saved"
          /\ handoff' = TakeHandoff(arg'[p])
      BY <1>1, <2>2, Arrives
    <3>2. handoff'[arg'[p]] = "gone"
      BY <1>1, <3>1 DEF TakeHandoff, TypeOK
    <3> QED BY <1>1, <1>2, <2>2, <3>1, <3>2 DEF Alone, HandoffSound, OneSessionPerHandoff
  <2> QED BY <2>1, <2>2
<1> QED BY <1>1, <1>3, <1>4, <1>5, OneMoves DEF requests

----------------------------------------------------------------------------
LEMMA InitInv == Init => Inv
<1> SUFFICES ASSUME Init PROVE Inv
  OBVIOUS
<1> USE NoneAssumption
<1>1. PICK s \in Ids : family = [i \in Ids |-> IF i = s THEN s ELSE None]
  BY DEF Init
<1>2. s # None /\ Rows = {s}
  BY <1>1 DEF Rows
<1>3. changes = <<>> /\ changes \in Seq(Requests) /\ Len(changes) = 0
  BY DEF Init
<1>4. TypeOK
  BY <1>1, <1>3 DEF Init, TypeOK, Jobs, Places
<1>5. RowsWellFormed /\ OneLivePerFamily /\ RotationChain
  BY <1>1, <1>2 DEF Init, RowsWellFormed, OneLivePerFamily, RotationChain, Live
<1>6. LostTheRace /\ ReuseKillsWinner
  BY DEF Init, LostTheRace, Lost, Sweeping, ReuseKillsWinner
<1>7. PasswordSound /\ ResetOnce
  BY <1>3 DEF Init, PasswordSound, ResetOnce, InTx
<1>8. HandoffSound /\ OneSessionPerHandoff
  BY DEF Init, HandoffSound, OneSessionPerHandoff
<1> QED BY <1>4, <1>5, <1>6, <1>7, <1>8 DEF Inv

LEMMA InvStep == Inv /\ [Next]_vars => Inv'
<1> SUFFICES ASSUME Inv, [Next]_vars PROVE Inv'
  OBVIOUS
<1>1. TypeOK' /\ RowsWellFormed' /\ OneLivePerFamily' /\ RotationChain'
  BY TypeStep, TableSteps, TableKeeps
<1>2. LostTheRace' /\ ReuseKillsWinner'
  BY RaceStep
<1>3. PasswordSound' /\ ResetOnce' /\ HandoffSound' /\ OneSessionPerHandoff'
  BY PasswordStep, HandoffStep
<1> QED BY <1>1, <1>2, <1>3 DEF Inv

\* The strengthened invariant of the sessions of one identity.
THEOREM Invariance == Spec => []Inv
BY InitInv, InvStep, PTL DEF Spec

\* The types of the table, the identity and the requests.
THEOREM TypeCorrect == Spec => []TypeOK
<1>1. Inv => TypeOK
  BY DEF Inv
<1> QED BY <1>1, Invariance, PTL

\* Whatever refreshes, logouts, resets and crashes do, at most one token of a family works.
THEOREM OneWorkingToken == Spec => []OneLivePerFamily
<1>1. Inv => OneLivePerFamily
  BY DEF Inv
<1> QED BY <1>1, Invariance, PTL

\* The rows of a family are a chain of replacements.
THEOREM RotationIsAChain == Spec => []RotationChain
<1>1. Inv => RotationChain
  BY DEF Inv
<1> QED BY <1>1, Invariance, PTL

\* A refresh that reports reuse has revoked the row that won the race.
THEOREM ReuseIsAnswered == Spec => []ReuseKillsWinner
<1>1. Inv => ReuseKillsWinner
  BY DEF Inv
<1> QED BY <1>1, Invariance, PTL

\* A Google sign-in record lets one request in.
THEOREM HandoffsOnce == Spec => []OneSessionPerHandoff
<1>1. Inv => OneSessionPerHandoff
  BY DEF Inv
<1> QED BY <1>1, Invariance, PTL

\* A reset token sets the password once.
THEOREM ResetsOnce == Spec => []ResetOnce
<1>1. Inv => ResetOnce
  BY DEF Inv
<1> QED BY <1>1, Invariance, PTL

----------------------------------------------------------------------------
\* The tokens of a family that work, as TokenFamily sees them.
Working == [f \in Ids |-> {s \in Live : family[s] = f}]

LEMMA GrownCloses ==
  ASSUME Inv, Grown
  PROVE  \E F \in SUBSET Ids : Families!Close(F)
<1>1. TypeOK /\ RowsWellFormed /\ OneLivePerFamily /\ UNCHANGED <<family, next>>
  BY DEF Inv, Grown
<1> DEFINE F == {f \in Ids : \A s \in Live' : family[s] # f}
<1>2. Rows' = Rows /\ Live' \subseteq Live
  BY <1>1 DEF Grown, Rows, Live
<1>3. Working' = [f \in Ids |-> IF f \in F THEN {} ELSE Working[f]]
  <2>1. ASSUME NEW f \in Ids
        PROVE  {s \in Live' : family'[s] = f} = IF f \in F THEN {} ELSE {s \in Live : family[s] = f}
    BY <1>1, <1>2 DEF OneLivePerFamily
  <2> QED BY <2>1 DEF Working
<1>4. F \in SUBSET Ids
  OBVIOUS
<1> QED BY <1>2, <1>3, <1>4 DEF Families!Close, Working

LEMMA DrawnOpens ==
  ASSUME Inv, Drawn
  PROVE  \E f \in Ids : Families!Open(f)
<1>1. TypeOK /\ RowsWellFormed /\ UNCHANGED <<revoked, next>>
  BY DEF Inv, Drawn
<1>2. PICK n \in Fresh : family' = [family EXCEPT ![n] = n]
  BY DEF Drawn
<1>3. n \in Ids /\ n \notin Rows /\ n # None /\ ~revoked[n] /\ \A s \in Rows : family[s] # n
  BY <1>1, NoneAssumption DEF Fresh, Rows, RowsWellFormed
<1>4. family'[n] = n /\ \A s \in Ids \ {n} : family'[s] = family[s]
  BY <1>1, <1>2, <1>3 DEF TypeOK
<1>5. Rows' = Rows \cup {n} /\ Live' = Live \cup {n}
  BY <1>1, <1>3, <1>4 DEF Rows, Live
<1>6. Working' = [Working EXCEPT ![n] = {n}]
  <2>1. ASSUME NEW f \in Ids
        PROVE  {s \in Live' : family'[s] = f} = IF f = n THEN {n} ELSE {s \in Live : family[s] = f}
    BY <1>3, <1>4, <1>5 DEF Live, Rows
  <2> QED BY <1>3, <2>1 DEF Working
<1> QED BY <1>3, <1>5, <1>6 DEF Families!Open, Working

LEMMA RotatedExchanges ==
  ASSUME Inv, Rotated
  PROVE  \E f, s, n \in Ids : Families!Exchange(f, s, n)
<1>1. TypeOK /\ RowsWellFormed /\ OneLivePerFamily
  BY DEF Inv
<1>2. PICK s \in Rows, n \in Fresh :
        /\ Rotatable(s)
        /\ family' = [family EXCEPT ![n] = family[s]]
        /\ revoked' = [revoked EXCEPT ![s] = TRUE]
  BY DEF Rotated
<1> DEFINE f == family[s]
<1>3. /\ n \in Ids /\ n \notin Rows /\ s \in Live /\ s # n /\ f \in Ids /\ f # None
      /\ ~revoked[n]
  BY <1>1, <1>2 DEF Fresh, Rows, Live, RowsWellFormed, Rotatable
<1>4. /\ family'[n] = f /\ \A i \in Ids \ {n} : family'[i] = family[i]
      /\ revoked'[s] /\ \A i \in Ids \ {s} : revoked'[i] = revoked[i]
  BY <1>1, <1>2, <1>3 DEF TypeOK, Rows
<1>5. Rows' = Rows \cup {n} /\ Live' = (Live \ {s}) \cup {n}
  BY <1>1, <1>3, <1>4 DEF Rows, Live
<1>6. {i \in Live : family[i] = f} = {s}
  BY <1>1, <1>3 DEF OneLivePerFamily
<1>7. Working' = [Working EXCEPT ![f] = {n}]
  <2>1. ASSUME NEW g \in Ids
        PROVE  {i \in Live' : family'[i] = g} = IF g = f THEN {n} ELSE {i \in Live : family[i] = g}
    BY <1>3, <1>4, <1>5, <1>6 DEF Live, Rows
  <2> QED BY <1>3, <2>1 DEF Working
<1>8. Families!Exchange(f, s, n)
  BY <1>3, <1>5, <1>6, <1>7 DEF Families!Exchange, Working
<1> QED BY <1>3, <1>8 DEF Live, Rows

LEMMA StepKeepsFamilies ==
  Inv /\ [Next]_vars => [Families!Next]_<<Working, Rows>>
<1> SUFFICES ASSUME Inv, [Next]_vars PROVE Families!Next
  BY DEF Families!Next
<1> USE DEF Families!Next
<1>1. CASE Grown
  BY <1>1, GrownCloses
<1>2. CASE Drawn
  BY <1>2, DrawnOpens
<1>3. CASE Rotated
  BY <1>3, RotatedExchanges
<1> QED BY <1>1, <1>2, <1>3, TableSteps DEF TableStep

LEMMA InitFamilies == Init => Families!Init
<1> SUFFICES ASSUME Init PROVE Families!Init
  OBVIOUS
<1>1. PICK s \in Ids : family = [i \in Ids |-> IF i = s THEN s ELSE None]
  BY DEF Init
<1>2. Rows = {s} /\ Live = {s} /\ family[s] = s
  BY <1>1, NoneAssumption DEF Init, Rows, Live
<1>3. Working = [f \in Ids |-> IF f \in {s} THEN {f} ELSE {}]
  BY <1>1, <1>2 DEF Working
<1> QED BY <1>2, <1>3 DEF Families!Init, Working

\* The sessions implement the families of tokens: no interleaving of requests, and no
\* crash, makes a step that TokenFamily does not allow.
THEOREM FamiliesKept == Spec => KeepsFamilies
<1>1. Inv /\ [Next]_vars => [Families!Next]_<<Working, Rows>>
  BY StepKeepsFamilies
<1>2. KeepsFamilies <=> Families!Init /\ [][Families!Next]_<<Working, Rows>>
  BY DEF KeepsFamilies, Families!Spec, Working
<1> QED BY <1>1, <1>2, InitFamilies, Invariance, PTL DEF Spec
=============================================================================
