------------------------ MODULE AdminCommands_proofs ------------------------
(***************************************************************************)
(* Proofs about the administrators' commands, for any number of calls,     *)
(* processes, administrators, resources and keys.                          *)
(***************************************************************************)
EXTENDS AdminCommands, TLAPS

Early  == {"new", "follow", "find", "create", "purge", "poll", "drop"}
Onward == {"take", "insert", "commit", "store", "unpend"}
Acting == Onward \cup {"look"}
InTx   == {"read", "write"}

\* Where a call is tells what its entry is, and whether its action has run.
PlaceHolds(c) ==
  /\ At(c, Early) => entry[c] = "none"
  /\ At(c, Acting) => entry[c] = "pending" /\ Op(c) \in Keeping
  /\ At(c, InTx) => entry[c] = "open" /\ Op(c) \in Changing
  /\ At(c, {"look"}) => Op(c) = "claim"
  /\ At(c, {"insert"}) => Op(c) # "release"
  /\ At(c, {"done"}) => entry[c] # "open"
  /\ ~At(c, {"store", "unpend", "done"}) => did[c] = "nothing"
  /\ At(c, {"store"}) \/ entry[c] = "succeeded" => did[c] # "nothing"
  /\ At(c, {"unpend"}) => did[c] # "changed"
  /\ call[c].proc = None <=> At(c, {"new", "done"})
  /\ call[c].answer # None => At(c, {"done"})

\* The entry a clean-up names has passed its day, the run a follower waits for is of
\* the same request, and so is the run whose result is given.
SeenHolds(c) ==
  /\ lapsed[c] => At(c, {"done"})
  /\ At(c, {"purge", "drop"}) => call[c].saw \in Calls /\ lapsed[call[c].saw]
  /\ At(c, {"follow"}) =>
       /\ call[c].saw \in Calls
       /\ SameKey(c, call[c].saw) /\ SamePayload(c, call[c].saw)
  /\ call[c].answer \in Calls =>
       /\ SameKey(c, call[c].answer) /\ SamePayload(c, call[c].answer)
       /\ did[call[c].answer] # "nothing"

\* A change whose action returned has its entry to say so, for its day.
EffectHolds(c) ==
  /\ did[c] = "changed" /\ ~lapsed[c] => entry[c] # "none"
  /\ did[c] = "changed" /\ Op(c) \in Changing => job[c].arg < version[job[c].on]

\* What a call asks for has the form its operation needs.
TargetHolds(c) == job[c] # None =>
  /\ Op(c) = "claim" => job[c].on \in Resources
  /\ Op(c) \in {"release", "reassign"} => job[c].on \in Calls /\ row[job[c].on] # None
  /\ Op(c) = "reassign" => job[c].arg \in Admins
  /\ Op(c) \in Changing => job[c].on \in Admins /\ job[c].arg \in Nat
  /\ lock[c] # None => lock[c] = job[c].on /\ Op(c) \in {"release", "reassign"}

CallHolds(c) == PlaceHolds(c) /\ SeenHolds(c) /\ EffectHolds(c) /\ TargetHolds(c)
OneEntry     == \A c, d \in Calls : /\ SameKey(c, d)
                                    /\ entry[c] # "none" /\ entry[d] # "none"
                                    => c = d
IInv == TypeOK /\ OneEntry /\ \A c \in Calls : CallHolds(c)

\* What is asked for, has passed or is done stays so, and versions grow.
Grows ==
  /\ \A c \in Calls : /\ job[c] # None => job'[c] = job[c]
                      /\ lapsed[c] => lapsed'[c]
                      /\ did[c] # "nothing" => did'[c] = did[c]
                      /\ row[c] # None => row'[c] # None
  /\ \A a \in Admins : version'[a] >= version[a]

Same(c) == /\ job'[c] = job[c] /\ call'[c] = call[c] /\ entry'[c] = entry[c]
           /\ lapsed'[c] = lapsed[c] /\ did'[c] = did[c] /\ lock'[c] = lock[c]

----------------------------------------------------------------------------
\* What the helpers that move a call do to it.
Moved(c, p, s) ==
  /\ call' \in [Calls -> Running]
  /\ call'[c].at = p /\ call'[c].saw = s
  /\ call'[c].proc = call[c].proc /\ call'[c].answer = call[c].answer
  /\ \A d \in Calls : d # c => call'[d] = call[d]

LEMMA ToMoves ==
  ASSUME TypeOK, NEW c \in Calls, NEW p \in Places, To(c, p)
  PROVE  Moved(c, p, None)
<1> DEFINE r == [call[c] EXCEPT !.at = p, !.saw = None]
<1>1. call[c] \in Running /\ call \in [Calls -> Running]
  BY DEF TypeOK
<1>2. r \in Running /\ r.at = p /\ r.saw = None /\ r.proc = call[c].proc
      /\ r.answer = call[c].answer
  BY <1>1 DEF Running
<1>3. call' = [call EXCEPT ![c] = r]
  BY <1>1 DEF To
<1> QED BY <1>1, <1>2, <1>3 DEF Moved

LEMMA SeeingMoves ==
  ASSUME TypeOK, NEW c \in Calls, NEW p \in Places, NEW x \in Calls, Seeing(c, p, x)
  PROVE  Moved(c, p, x)
<1> DEFINE r == [call[c] EXCEPT !.at = p, !.saw = x]
<1>1. call[c] \in Running /\ call \in [Calls -> Running]
  BY DEF TypeOK
<1>2. r \in Running /\ r.at = p /\ r.saw = x /\ r.proc = call[c].proc
      /\ r.answer = call[c].answer
  BY <1>1 DEF Running
<1>3. call' = [call EXCEPT ![c] = r]
  BY <1>1 DEF Seeing
<1> QED BY <1>1, <1>2, <1>3 DEF Moved

Finished(c, a) ==
  /\ call' \in [Calls -> Running]
  /\ call'[c].at = "done" /\ call'[c].saw = None /\ call'[c].proc = None
  /\ call'[c].answer = a
  /\ \A d \in Calls : d # c => call'[d] = call[d]

LEMMA EndedRuns ==
  ASSUME NEW a \in Calls \cup {"failed", "error", None}
  PROVE  /\ Ended(a) \in Running
         /\ Ended(a).at = "done" /\ Ended(a).saw = None /\ Ended(a).proc = None
         /\ Ended(a).answer = a
BY DEF Running, Places, Ended

LEMMA AnsweredFinishes ==
  ASSUME TypeOK, NEW c \in Calls, NEW a \in Calls \cup {"failed", "error", None},
         Answered(c, a)
  PROVE  Finished(c, a)
BY EndedRuns DEF TypeOK, Answered, Finished

LEMMA AgainMoves ==
  ASSUME TypeOK, NEW c \in Calls, Again(c)
  PROVE  Moved(c, "find", None) \/ Moved(c, "poll", None) \/ Finished(c, "error")
<1>1. CASE call[c].attempts = 0
  <2> DEFINE r == [call[c] EXCEPT !.at = "find", !.saw = None, !.attempts = 1]
  <2>1. call[c] \in Running /\ call \in [Calls -> Running]
    BY DEF TypeOK
  <2>4. "find" \in Places /\ 1 \in 0..1
    BY DEF Places
  <2>2. r \in Running /\ r.at = "find" /\ r.saw = None /\ r.proc = call[c].proc
        /\ r.answer = call[c].answer
    BY <2>1, <2>4 DEF Running
  <2>3. call' = [call EXCEPT ![c] = r]
    BY <1>1, <2>1 DEF Again
  <2> QED BY <2>1, <2>2, <2>3 DEF Moved
<1>2. CASE call[c].attempts # 0 /\ To(c, "poll")
  BY <1>2, ToMoves DEF Places
<1>3. CASE call[c].attempts # 0 /\ Answered(c, "error")
  BY <1>3, AnsweredFinishes
<1> QED BY <1>1, <1>2, <1>3 DEF Again

LEMMA OthersHold ==
  ASSUME IInv, Grows, TypeOK', NEW c \in Calls, Same(c)
  PROVE  CallHolds(c)'
<1>1. CallHolds(c)
  BY DEF IInv
<1>2. PlaceHolds(c)'
  BY <1>1 DEF CallHolds, PlaceHolds, Same, At, Op
<1>3. SeenHolds(c)'
  BY <1>1 DEF CallHolds, SeenHolds, Same, At, Op, Grows, SameKey, SamePayload, EntryKey, Scope
<1>4. EffectHolds(c)'
  <2>1. version \in [Admins -> Nat] /\ version' \in [Admins -> Nat]
    BY DEF IInv, TypeOK
  <2>2. did[c] = "changed" => job[c] # None
    BY <1>1 DEF CallHolds, PlaceHolds, At, IInv, TypeOK
  <2>3. did[c] = "changed" /\ Op(c) \in Changing => job[c].arg < version'[job[c].on]
    BY <1>1, <2>1, <2>2 DEF CallHolds, EffectHolds, TargetHolds, Grows
  <2> QED BY <1>1, <2>2, <2>3 DEF CallHolds, EffectHolds, Same, Op
<1>5. TargetHolds(c)'
  BY <1>1 DEF CallHolds, TargetHolds, Same, Op, Grows
<1> QED BY <1>2, <1>3, <1>4, <1>5 DEF CallHolds

\* A step of one call: what is left to show is about that call.
Alone(c) == \A d \in Calls : d # c => Same(d)

LEMMA OneCallSteps ==
  ASSUME IInv, Grows, TypeOK', NEW c \in Calls, Alone(c), CallHolds(c)',
         entry'[c] # "none" => job[c] # None,
         entry'[c] # "none" =>
           \/ entry[c] # "none"
           \/ \A d \in Calls : SameKey(c, d) => entry[d] = "none"
  PROVE  IInv'
<1>1. \A d \in Calls : CallHolds(d)'
  BY OthersHold DEF Alone
<1>2. \A d \in Calls : entry[d] # "none" => job[d] # None
  BY DEF IInv, CallHolds, PlaceHolds, At, TypeOK, Early
<1>3. \A d \in Calls : entry'[d] # "none" => job'[d] # None
  BY <1>1 DEF CallHolds, PlaceHolds, At, TypeOK, Early
<1>4. ASSUME NEW d \in Calls, NEW e \in Calls, SameKey(d, e)',
             entry'[d] # "none", entry'[e] # "none"
      PROVE  d = e
  <2>1. CASE d # c /\ e # c
    BY <1>4, <2>1 DEF Alone, Same, IInv, OneEntry, SameKey, EntryKey, Scope
  <2>2. ASSUME NEW x \in Calls, x # c, SameKey(c, x)', entry'[c] # "none", entry'[x] # "none"
        PROVE  FALSE
    <3>1. entry[x] # "none" /\ job'[x] = job[x]
      BY <2>2 DEF Alone, Same
    <3>2. CASE entry[c] # "none"
      <4>1. job'[c] = job[c]
        BY <1>2, <3>2 DEF Grows
      <4> QED BY <2>2, <3>1, <3>2, <4>1 DEF IInv, OneEntry, SameKey, EntryKey, Scope
    <3>3. CASE entry[c] = "none"
      <4>1. job'[c] = job[c]
        BY <2>2 DEF Grows
      <4>2. SameKey(c, x)
        BY <2>2, <3>1, <4>1 DEF SameKey, EntryKey, Scope
      <4> QED BY <2>2, <3>1, <3>3, <4>2
    <3> QED BY <2>2, <3>2, <3>3 DEF Alone
  <2> QED BY <1>4, <2>1, <2>2 DEF SameKey
<1> QED BY <1>1, <1>4 DEF IInv, OneEntry

----------------------------------------------------------------------------
\* A result that may be given to c.
Given(c, a) ==
  /\ a \in Calls \cup {"failed", "error", None}
  /\ a \in Calls => SameKey(c, a) /\ SamePayload(c, a) /\ did[a] # "nothing"

Moves(c) ==
  \/ \E p \in {"find", "create", "poll"} : Moved(c, p, None)
  \/ \E p \in {"purge", "drop"}, x \in Calls : lapsed[x] /\ Moved(c, p, x)
  \/ \E a \in Calls \cup {"failed", "error", None} : Given(c, a) /\ Finished(c, a)

\* The steps before the action, which change nothing but where the call is.
LEMMA EarlyMoves ==
  ASSUME IInv, NEW c \in Calls, At(c, Early \ {"new"}), Moves(c),
         UNCHANGED <<job, keys, desk, staff>>
  PROVE  IInv' /\ Grows
<1> USE DEF keys, desk, staff
<1>1. TypeOK /\ CallHolds(c) /\ entry[c] = "none" /\ did[c] = "nothing" /\ ~lapsed[c]
      /\ job[c] # None
  BY DEF IInv, CallHolds, PlaceHolds, SeenHolds, At, Early, TypeOK
<1>2. /\ call' \in [Calls -> Running]
      /\ call'[c].at \in (Early \ {"new", "follow"}) \cup {"done"}
      /\ \A d \in Calls : d # c => call'[d] = call[d]
  BY DEF Moves, Moved, Finished, Early
<1>3. lock[c] = None /\ adding[c] = None
  BY <1>1 DEF TypeOK, At, Early
<1>4. TypeOK'
  BY <1>1, <1>2, <1>3 DEF TypeOK, Early
<1>5. version \in [Admins -> Nat] /\ Grows /\ Alone(c)
  BY <1>1, <1>2 DEF TypeOK, Grows, Alone, Same
<1>6. PlaceHolds(c)'
  <2>1. CASE \E p \in {"find", "create", "poll", "purge", "drop"}, x \in Calls \cup {None} :
               Moved(c, p, x)
    BY <1>1, <2>1 DEF Moved, CallHolds, PlaceHolds, At, Early, Acting, Onward, InTx, Op
  <2>2. CASE \E a \in Calls \cup {"failed", "error", None} : Finished(c, a)
    BY <1>1, <2>2 DEF Finished, CallHolds, PlaceHolds, At, Early, Acting, Onward, InTx, Op
  <2> QED BY <2>1, <2>2 DEF Moves
<1>7. SeenHolds(c)'
  <2>1. CASE \E p \in {"find", "create", "poll"} : Moved(c, p, None)
    <3>1. call[c].answer = None
      BY <1>1 DEF CallHolds, PlaceHolds, At, Early
    <3> QED BY <1>1, <2>1, <3>1, Names DEF Moved, SeenHolds, At
  <2>2. CASE \E p \in {"purge", "drop"}, x \in Calls : lapsed[x] /\ Moved(c, p, x)
    <3>1. call[c].answer = None
      BY <1>1 DEF CallHolds, PlaceHolds, At, Early
    <3> QED BY <1>1, <2>2, <3>1, Names DEF Moved, SeenHolds, At
  <2>3. CASE \E a \in Calls \cup {"failed", "error", None} : Given(c, a) /\ Finished(c, a)
    <3>1. PICK a \in Calls \cup {"failed", "error", None} : Given(c, a) /\ Finished(c, a)
      BY <2>3
    <3>2. a \in Calls => SameKey(c, a)' /\ SamePayload(c, a)' /\ did'[a] # "nothing"
      BY <3>1 DEF Given, SameKey, SamePayload, EntryKey, Scope
    <3> QED BY <1>1, <3>1, <3>2 DEF Finished, SeenHolds, At
  <2> QED BY <2>1, <2>2, <2>3 DEF Moves
<1>8. EffectHolds(c)' /\ TargetHolds(c)'
  BY <1>1 DEF CallHolds, EffectHolds, TargetHolds, Op
<1> QED BY <1>1, <1>4, <1>5, <1>6, <1>7, <1>8, OneCallSteps DEF CallHolds

LEMMA ReplayGives ==
  ASSUME IInv, NEW c \in Calls, NEW d \in EntriesOf(c), Replay(c, d)
  PROVE  Moves(c)
<1>1. d \in Calls /\ SameKey(c, d) /\ TypeOK
  BY DEF EntriesOf, IInv
<1>2. entry[d] = "succeeded" => did[d] # "nothing"
  BY <1>1 DEF IInv, CallHolds, PlaceHolds
<1>3. CASE SamePayload(c, d) /\ entry[d] = "succeeded"
  <2>1. Answered(c, d)
    BY <1>3 DEF Replay
  <2> QED BY <1>1, <1>2, <1>3, <2>1, AnsweredFinishes DEF Moves, Given
<1>4. CASE ~(SamePayload(c, d) /\ entry[d] = "succeeded")
  <2>1. Answered(c, "error")
    BY <1>4 DEF Replay
  <2> QED BY <1>1, <2>1, AnsweredFinishes, Names DEF Moves, Given
<1> QED BY <1>3, <1>4

LEMMA ErrorGives ==
  ASSUME IInv, NEW c \in Calls, Answered(c, "error")
  PROVE  Moves(c)
BY AnsweredFinishes, Names DEF IInv, Moves, Given

LEMMA FollowSteps ==
  ASSUME IInv, NEW c \in Calls, Follow(c)
  PROVE  IInv' /\ Grows
<1> DEFINE s == call[c].saw
           a == call[s].answer
<1>1. TypeOK /\ CallHolds(c) /\ s \in Calls /\ SameKey(c, s) /\ SamePayload(c, s)
  BY DEF IInv, CallHolds, SeenHolds, Follow, At
<1>2. CallHolds(s) /\ a \in Calls \cup {"failed", "error", None}
  BY <1>1 DEF IInv, TypeOK, Running
<1>3. Given(c, a)
  BY <1>1, <1>2 DEF Given, CallHolds, SeenHolds, SameKey, SamePayload
<1>4. Finished(c, a)
  BY <1>1, <1>2, AnsweredFinishes DEF Follow
<1>5. Moves(c)
  BY <1>2, <1>3, <1>4 DEF Moves
<1> QED BY <1>5, EarlyMoves DEF Follow, At, Early

LEMMA FindSteps ==
  ASSUME IInv, NEW c \in Calls, Find(c)
  PROVE  IInv' /\ Grows
<1>1. Moves(c)
  <2>1. TypeOK
    BY DEF IInv
  <2>2. CASE To(c, "create") \/ To(c, "poll")
    BY <2>1, <2>2, ToMoves DEF Moves, Places
  <2>3. CASE Answered(c, "error")
    BY <2>3, ErrorGives
  <2>4. CASE \E d \in EntriesOf(c) : lapsed[d] /\ Seeing(c, "purge", d)
    BY <2>1, <2>4, SeeingMoves DEF Moves, Places, EntriesOf
  <2>5. CASE \E d \in EntriesOf(c) : Replay(c, d)
    BY <2>5, ReplayGives
  <2> QED BY <2>2, <2>3, <2>4, <2>5 DEF Find
<1> QED BY <1>1, EarlyMoves DEF Find, At, Early

LEMMA PollSteps ==
  ASSUME IInv, NEW c \in Calls, Poll(c)
  PROVE  IInv' /\ Grows
<1>1. Moves(c)
  <2>1. TypeOK
    BY DEF IInv
  <2>2. CASE Answered(c, "error")
    BY <2>2, ErrorGives
  <2>3. CASE \E d \in EntriesOf(c) : lapsed[d] /\ Seeing(c, "drop", d)
    BY <2>1, <2>3, SeeingMoves DEF Moves, Places, EntriesOf
  <2>4. CASE \E d \in EntriesOf(c) : Replay(c, d)
    BY <2>4, ReplayGives
  <2> QED BY <2>2, <2>3, <2>4 DEF Poll
<1> QED BY <1>1, EarlyMoves DEF Poll, At, Early

LEMMA TxFindSteps ==
  ASSUME IInv, NEW c \in Calls, TxFind(c)
  PROVE  IInv' /\ Grows
<1>1. Moves(c)
  BY ReplayGives DEF TxFind
<1> QED BY <1>1, EarlyMoves DEF TxFind, At, Early

----------------------------------------------------------------------------
\* The action that runs between the statements on the key.
DeskKept(c) ==
  /\ row' \in [Calls -> Assignments \cup {None}]
  /\ lock' \in [Calls -> Calls \cup {None}]
  /\ adding' \in [Calls -> Assignments \cup {None}]
  /\ \A d \in Calls : /\ d # c => lock'[d] = lock[d] /\ adding'[d] = adding[d]
                      /\ row[d] # None => row'[d] # None
  /\ lock'[c] # None => /\ At(c, {"insert", "commit"})'
                        /\ lock'[c] = job[c].on /\ Op(c) \in {"release", "reassign"}
  /\ adding'[c] # None => At(c, {"commit"})'

LEMMA ActingMoves ==
  ASSUME IInv, NEW c \in Calls, At(c, Acting),
         NEW p \in Onward, NEW x \in Calls \cup {None}, Moved(c, p, x),
         p = "insert" => Op(c) # "release",
         NEW w \in {"nothing", "same", "changed", "thrown"}, did' = [did EXCEPT ![c] = w],
         did[c] # "nothing" => w = did[c],
         p \notin {"store", "unpend"} => w = "nothing",
         p = "store" => w # "nothing",
         p = "unpend" => w # "changed",
         DeskKept(c), UNCHANGED <<job, entry, lapsed, staff>>
  PROVE  IInv' /\ Grows
<1> USE DEF staff
<1>1. TypeOK /\ CallHolds(c) /\ entry[c] = "pending" /\ Op(c) \in Keeping
      /\ job[c] # None /\ ~lapsed[c] /\ call[c].answer = None
  BY DEF IInv, CallHolds, PlaceHolds, SeenHolds, At, Acting, Onward, TypeOK
<1>2. /\ call' \in [Calls -> Running] /\ call'[c].at = p
      /\ \A d \in Calls : d # c => call'[d] = call[d]
      /\ did' \in [Calls -> {"nothing", "same", "changed", "thrown"}]
      /\ \A d \in Calls : d # c => did'[d] = did[d]
  BY <1>1 DEF TypeOK, Moved
<1>3. TypeOK'
  BY <1>1, <1>2 DEF TypeOK, Acting, Onward, DeskKept, At
<1>4. Grows /\ Alone(c)
  BY <1>1, <1>2 DEF TypeOK, Grows, Alone, Same, DeskKept
<1>5. PlaceHolds(c)'
  BY <1>1, <1>2 DEF CallHolds, PlaceHolds, Moved, At, Acting, Onward, Early, InTx, Op, TypeOK
<1>6. SeenHolds(c)'
  BY <1>1, Names DEF SeenHolds, Moved, At, Acting, Onward
<1>7. EffectHolds(c)'
  BY <1>1 DEF EffectHolds, Op, Keeping, Changing
<1>8. TargetHolds(c)'
  BY <1>1 DEF CallHolds, TargetHolds, Op, DeskKept
<1> QED BY <1>1, <1>3, <1>4, <1>5, <1>6, <1>7, <1>8, OneCallSteps DEF CallHolds

\* What is known of a call that runs its action.
LEMMA ActingCall ==
  ASSUME IInv, NEW c \in Calls, At(c, Acting)
  PROVE  /\ TypeOK /\ CallHolds(c) /\ job[c] # None
         /\ ~At(c, {"store", "unpend"}) => did[c] = "nothing"
         /\ ~At(c, {"insert", "commit"}) => lock[c] = None /\ adding[c] = None
BY DEF IInv, CallHolds, PlaceHolds, At, Acting, Onward, TypeOK

LEMMA LookSteps ==
  ASSUME IInv, NEW c \in Calls, Look(c)
  PROVE  IInv' /\ Grows
<1>1. TypeOK /\ did[c] = "nothing" /\ At(c, Acting) /\ lock[c] = None /\ adding[c] = None
      /\ Op(c) = "claim"
  BY ActingCall DEF Look, At, Acting, Onward, CallHolds, PlaceHolds
<1>2. PICK p \in {"insert", "take"}, x \in Calls \cup {None} : Moved(c, p, x)
  BY <1>1, ToMoves, SeeingMoves DEF Look, Current, Places
<1>3. did' = [did EXCEPT ![c] = "nothing"] /\ UNCHANGED <<job, entry, lapsed, staff>>
  BY <1>1 DEF Look, keys, TypeOK
<1>4. DeskKept(c)
  BY <1>1 DEF Look, desk, TypeOK, DeskKept
<1> QED BY <1>1, <1>2, <1>3, <1>4, ActingMoves DEF Onward

LEMMA TakeForClaimSteps ==
  ASSUME IInv, NEW c \in Calls, TakeForClaim(c)
  PROVE  IInv' /\ Grows
<1>1. TypeOK /\ did[c] = "nothing" /\ At(c, Acting) /\ lock[c] = None /\ adding[c] = None
      /\ Op(c) = "claim"
  BY ActingCall DEF TakeForClaim, At, Acting, Onward
<1>2. DeskKept(c) /\ UNCHANGED <<job, entry, lapsed, staff>>
  BY <1>1 DEF TakeForClaim, desk, TypeOK, DeskKept
<1>3. CASE To(c, "store") /\ did' = [did EXCEPT ![c] = "same"]
  BY <1>1, <1>2, <1>3, ToMoves, ActingMoves DEF Onward, Places
<1>4. CASE (To(c, "insert") \/ To(c, "unpend")) /\ UNCHANGED did
  <2>1. PICK p \in {"insert", "unpend"} : Moved(c, p, None)
    BY <1>1, <1>4, ToMoves DEF Places
  <2>2. did' = [did EXCEPT ![c] = "nothing"]
    BY <1>1, <1>4 DEF TypeOK
  <2> QED BY <1>1, <1>2, <2>1, <2>2, ActingMoves DEF Onward
<1> QED BY <1>3, <1>4 DEF TakeForClaim

LEMMA TakeToCloseSteps ==
  ASSUME IInv, NEW c \in Calls, TakeToClose(c)
  PROVE  IInv' /\ Grows
<1> DEFINE x == job[c].on
<1>1. TypeOK /\ did[c] = "nothing" /\ At(c, Acting) /\ lock[c] = None /\ adding[c] = None
  BY ActingCall DEF TakeToClose, At, Acting, Onward
<1>2. x \in Calls
  BY <1>1, ActingCall DEF TakeToClose, CallHolds, TargetHolds
<1>3. did' = [did EXCEPT ![c] = "nothing"] /\ UNCHANGED <<job, entry, lapsed, row, adding, staff>>
  BY <1>1 DEF TakeToClose, keys, TypeOK
<1>4. CASE /\ lock' = [lock EXCEPT ![c] = x]
           /\ To(c, IF Op(c) = "release" THEN "commit" ELSE "insert")
  <2>1. PICK p \in {"commit", "insert"} : Moved(c, p, None) /\ (p = "insert" => Op(c) # "release")
    BY <1>1, <1>4, ToMoves DEF Places
  <2>2. DeskKept(c)
    BY <1>1, <1>2, <1>3, <1>4, <2>1 DEF TypeOK, DeskKept, Moved, At, TakeToClose
  <2> QED BY <1>1, <1>3, <2>1, <2>2, ActingMoves DEF Onward
<1>5. CASE To(c, "unpend") /\ UNCHANGED lock
  <2>1. Moved(c, "unpend", None)
    BY <1>1, <1>5, ToMoves DEF Places
  <2>2. DeskKept(c)
    BY <1>1, <1>3, <1>5 DEF TypeOK, DeskKept
  <2> QED BY <1>1, <1>3, <2>1, <2>2, ActingMoves DEF Onward
<1> QED BY <1>4, <1>5 DEF TakeToClose

\* The row an insert writes.
New(c) == [resource |-> Resource(c), active |-> TRUE,
           owner |-> IF Op(c) = "claim" THEN job[c].admin ELSE job[c].arg]

LEMMA NewIsAssignment ==
  ASSUME IInv, NEW c \in Calls, At(c, {"insert"})
  PROVE  New(c) \in Assignments /\ Op(c) \in {"claim", "reassign"}
<1>1. TypeOK /\ CallHolds(c) /\ job[c] # None /\ Op(c) \in {"claim", "reassign"}
  BY ActingCall DEF IInv, At, Acting, Onward, CallHolds, PlaceHolds, Keeping
<1>2. job[c] \in Jobs
  BY <1>1 DEF TypeOK
<1>3. Resource(c) \in Resources
  BY <1>1 DEF CallHolds, TargetHolds, Resource, Assignments, TypeOK, Op
<1>4. (IF Op(c) = "claim" THEN job[c].admin ELSE job[c].arg) \in Admins
  BY <1>1, <1>2 DEF CallHolds, TargetHolds, Jobs, Op
<1> QED BY <1>1, <1>3, <1>4 DEF New, Assignments

LEMMA InsertSteps ==
  ASSUME IInv, NEW c \in Calls, Insert(c)
  PROVE  IInv' /\ Grows
<1>1. TypeOK /\ did[c] = "nothing" /\ At(c, Acting)
  BY ActingCall DEF Insert, At, Acting, Onward
<1>2. did' = [did EXCEPT ![c] = "nothing"] /\ UNCHANGED <<job, entry, lapsed, row, staff>>
  BY <1>1 DEF Insert, keys, TypeOK
<1>3. CASE To(c, "commit") /\ UNCHANGED lock
  <2>1. Moved(c, "commit", None)
    BY <1>1, <1>3, ToMoves DEF Places
  <2>2. New(c) \in Assignments /\ Op(c) \in {"claim", "reassign"}
    BY NewIsAssignment DEF Insert
  <2>3. ~To(c, "unpend")
    BY <1>1, <2>1, ToMoves DEF Moved, Places
  <2>4. adding' = [adding EXCEPT ![c] = New(c)]
    BY <2>3 DEF Insert, New
  <2>5. adding' \in [Calls -> Assignments \cup {None}]
        /\ \A d \in Calls : d # c => adding'[d] = adding[d]
    BY <1>1, <2>2, <2>4 DEF TypeOK
  <2>7. lock[c] # None => lock[c] = job[c].on /\ Op(c) \in {"release", "reassign"}
    BY <1>1, ActingCall DEF CallHolds, TargetHolds
  <2>8. DeskKept(c)
    BY <1>1, <1>2, <1>3, <2>1, <2>5, <2>7 DEF TypeOK, DeskKept, Moved, At
  <2> QED BY <1>1, <1>2, <2>1, <2>8, ActingMoves DEF Onward
<1>4. CASE To(c, "unpend") /\ lock' = [lock EXCEPT ![c] = None] /\ UNCHANGED adding
  <2>1. Moved(c, "unpend", None)
    BY <1>1, <1>4, ToMoves DEF Places
  <2>2. DeskKept(c)
    BY <1>1, <1>2, <1>4 DEF TypeOK, DeskKept, Insert, At
  <2> QED BY <1>1, <1>2, <2>1, <2>2, ActingMoves DEF Onward
<1> QED BY <1>3, <1>4 DEF Insert

LEMMA CommitSteps ==
  ASSUME IInv, NEW c \in Calls, Commit(c)
  PROVE  IInv' /\ Grows
<1>1. TypeOK /\ did[c] = "nothing" /\ At(c, Acting)
  BY ActingCall DEF Commit, At, Acting, Onward
<1>2. PICK p \in {"store", "unpend"} :
        /\ Moved(c, p, None)
        /\ did' = [did EXCEPT ![c] = IF p = "store" THEN "changed" ELSE "thrown"]
  BY <1>1, ToMoves DEF Commit, Places
<1>3. \A x \in Calls : /\ Written(c)[x] \in Assignments \cup {None}
                       /\ row[x] # None => Written(c)[x] # None
  <2> TAKE x \in Calls
  <2>1. row[x] \in Assignments => [row[x] EXCEPT !.active = FALSE] \in Assignments
    BY DEF Assignments
  <2>2. adding[c] # None => adding[c] \in Assignments
    BY <1>1 DEF TypeOK
  <2>3. lock[c] = x => row[x] # None
    BY <1>1, ActingCall, Names DEF CallHolds, TargetHolds
  <2> QED BY <1>1, <2>1, <2>2, <2>3, NoneIsNoRecord DEF Written, TypeOK
<1>4. DeskKept(c)
  BY <1>1, <1>3 DEF Commit, TypeOK, DeskKept, Written
<1> QED BY <1>1, <1>2, <1>4, ActingMoves DEF Commit, Onward

LEMMA ActionFailsSteps ==
  ASSUME IInv, NEW c \in Calls, ActionFails(c)
  PROVE  IInv' /\ Grows
<1>1. TypeOK /\ did[c] = "nothing" /\ At(c, Acting)
  BY ActingCall DEF ActionFails, At, Acting, Onward
<1>2. Moved(c, "unpend", None)
  BY <1>1, ToMoves DEF ActionFails, Places
<1>3. DeskKept(c)
  BY <1>1 DEF ActionFails, TypeOK, DeskKept
<1>4. did' = [did EXCEPT ![c] = "nothing"] /\ UNCHANGED <<job, entry, lapsed, staff>>
  BY <1>1 DEF ActionFails, TypeOK, keys
<1> QED BY <1>1, <1>2, <1>3, <1>4, ActingMoves DEF Onward

----------------------------------------------------------------------------
\* The steps that end a call, its own entry with it.
LEMMA EndingSteps ==
  ASSUME IInv, NEW c \in Calls, ~At(c, {"new", "follow", "look", "take", "insert", "commit", "done"}),
         NEW a \in Calls \cup {"failed", "error", None}, Finished(c, a),
         a \in Calls => a = c,
         NEW e \in {"none", "pending", "succeeded"}, entry' = [entry EXCEPT ![c] = e],
         NEW w \in {"nothing", "same", "changed", "thrown"}, did' = [did EXCEPT ![c] = w],
         did[c] # "nothing" => w = did[c],
         e = "succeeded" \/ a \in Calls => w # "nothing",
         w = "changed" => e # "none",
         e # "none" => \/ entry[c] # "none"
                       \/ \A d \in Calls : SameKey(c, d) => entry[d] = "none",
         inactive' \in SUBSET Admins, version' \in [Admins -> Nat],
         \A b \in Admins : version'[b] >= version[b],
         w = "changed" /\ Op(c) \in Changing => job[c].arg < version'[job[c].on],
         UNCHANGED <<job, lapsed, desk>>
  PROVE  IInv' /\ Grows
<1> USE DEF desk
<1>1. TypeOK /\ CallHolds(c) /\ job[c] # None /\ ~lapsed[c]
      /\ lock[c] = None /\ adding[c] = None
  BY DEF IInv, CallHolds, SeenHolds, At, TypeOK
<1>2. /\ call' \in [Calls -> Running]
      /\ \A d \in Calls : d # c => call'[d] = call[d]
      /\ did' \in [Calls -> {"nothing", "same", "changed", "thrown"}]
      /\ entry' \in [Calls -> {"none", "open", "pending", "succeeded"}]
      /\ entry'[c] = e /\ did'[c] = w
      /\ \A d \in Calls : d # c => did'[d] = did[d] /\ entry'[d] = entry[d]
  BY <1>1 DEF TypeOK, Finished
<1>3. TypeOK'
  BY <1>1, <1>2 DEF TypeOK, Finished
<1>4. Grows /\ Alone(c)
  BY <1>1, <1>2 DEF TypeOK, Grows, Alone, Same
<1>5. PlaceHolds(c)'
  BY <1>1, <1>2 DEF PlaceHolds, Finished, At, Acting, Onward, Early, InTx
<1>6. SeenHolds(c)'
  BY <1>1, <1>2 DEF SeenHolds, Finished, At, SameKey, SamePayload
<1>7. EffectHolds(c)'
  BY <1>1, <1>2 DEF EffectHolds, Finished, Op
<1>8. TargetHolds(c)'
  BY <1>1 DEF CallHolds, TargetHolds, Op
<1> QED BY <1>1, <1>2, <1>3, <1>4, <1>5, <1>6, <1>7, <1>8, OneCallSteps DEF CallHolds

LEMMA StoreSteps ==
  ASSUME IInv, NEW c \in Calls, Store(c)
  PROVE  IInv' /\ Grows
<1>1. TypeOK /\ entry[c] = "pending" /\ did[c] # "nothing" /\ Op(c) \in Keeping
  BY DEF IInv, CallHolds, PlaceHolds, Store, At, Acting, Onward
<1>2. Finished(c, c)
  BY <1>1, AnsweredFinishes DEF Store
<1>3. did[c] \in {"nothing", "same", "changed", "thrown"} /\ did' = [did EXCEPT ![c] = did[c]]
  BY <1>1 DEF TypeOK, Store
<1>4. ~At(c, {"new", "follow", "look", "take", "insert", "commit", "done"})
  BY DEF Store, At
<1>5. version' = version /\ inactive' = inactive /\ UNCHANGED <<job, lapsed, desk>>
      /\ entry' = [entry EXCEPT ![c] = "succeeded"]
  BY DEF Store, staff
<1>6. version' \in [Admins -> Nat] /\ inactive' \in SUBSET Admins
      /\ \A b \in Admins : version'[b] >= version[b]
  BY <1>1, <1>5 DEF TypeOK
<1>7. Op(c) \notin Changing
  BY <1>1 DEF Keeping, Changing
<1> QED BY <1>1, <1>2, <1>3, <1>4, <1>5, <1>6, <1>7, EndingSteps

LEMMA StaffKept ==
  ASSUME IInv, UNCHANGED staff
  PROVE  /\ version' \in [Admins -> Nat] /\ inactive' \in SUBSET Admins
         /\ \A b \in Admins : version'[b] >= version[b]
<1>1. version' = version /\ inactive' = inactive
  BY DEF staff
<1> QED BY <1>1 DEF IInv, TypeOK

LEMMA UnpendSteps ==
  ASSUME IInv, NEW c \in Calls, Unpend(c)
  PROVE  IInv' /\ Grows
<1>1. TypeOK /\ entry[c] = "pending" /\ Op(c) \in Keeping /\ did[c] # "changed"
  BY DEF IInv, CallHolds, PlaceHolds, Unpend, At, Acting, Onward
<1>2. Finished(c, "failed") /\ "failed" \notin Calls
  BY <1>1, AnsweredFinishes, Names DEF Unpend
<1>3. did[c] \in {"nothing", "same", "changed", "thrown"} /\ did' = [did EXCEPT ![c] = did[c]]
  BY <1>1 DEF TypeOK, Unpend
<1>4. /\ ~At(c, {"new", "follow", "look", "take", "insert", "commit", "done"})
      /\ entry' = [entry EXCEPT ![c] = "none"] /\ UNCHANGED <<job, lapsed, desk, staff>>
  BY DEF Unpend, At
<1>5. Op(c) \notin Changing
  BY <1>1 DEF Keeping, Changing
<1> QED BY <1>1, <1>2, <1>3, <1>4, <1>5, StaffKept, EndingSteps

\* What is known of a call inside its transaction.
LEMMA InTxCall ==
  ASSUME IInv, NEW c \in Calls, At(c, InTx)
  PROVE  /\ TypeOK /\ entry[c] = "open" /\ did[c] = "nothing" /\ Op(c) \in Changing
         /\ job[c].on \in Admins /\ job[c].arg \in Nat
         /\ ~At(c, {"new", "follow", "look", "take", "insert", "commit", "done"})
<1>1. job[c] # None
  BY DEF IInv, TypeOK, At, InTx
<1> QED BY <1>1 DEF IInv, CallHolds, PlaceHolds, TargetHolds, At, InTx

\* The transaction rolls back, or its statement fails.
LEMMA AbortSteps ==
  ASSUME IInv, NEW c \in Calls, At(c, InTx), NEW a \in {"failed", "error"}, Answered(c, a),
         entry' = [entry EXCEPT ![c] = "none"], UNCHANGED <<job, lapsed, did, desk, staff>>
  PROVE  IInv' /\ Grows
<1>1. Finished(c, a) /\ a \notin Calls
  BY InTxCall, AnsweredFinishes, Names
<1>2. did' = [did EXCEPT ![c] = "nothing"]
  BY InTxCall DEF TypeOK
<1> QED BY <1>1, <1>2, InTxCall, StaffKept, EndingSteps

LEMMA CommitKeySteps ==
  ASSUME IInv, NEW c \in Calls, At(c, InTx), CommitKey(c),
         NEW w \in {"same", "changed"}, did' = [did EXCEPT ![c] = w],
         inactive' \in SUBSET Admins, version' \in [Admins -> Nat],
         \A b \in Admins : version'[b] >= version[b],
         w = "changed" => job[c].arg < version'[job[c].on],
         UNCHANGED <<job, lapsed, desk>>
  PROVE  IInv' /\ Grows
<1>1. PICK a \in {c, "error"} : Answered(c, a)
  BY DEF CommitKey
<1>2. Finished(c, a) /\ (a \in Calls => a = c) /\ a \in Calls \cup {"failed", "error", None}
      /\ a # "failed"
  BY <1>1, InTxCall, AnsweredFinishes, Names
<1>3. entry' = [entry EXCEPT ![c] = "succeeded"]
  BY DEF CommitKey
<1> QED BY <1>2, <1>3, InTxCall, EndingSteps

LEMMA ReadSteps ==
  ASSUME IInv, NEW c \in Calls, Read(c)
  PROVE  IInv' /\ Grows
<1>1. At(c, InTx)
  BY DEF Read, At, InTx
<1>2. CASE Abort(c)
  BY <1>1, <1>2, AbortSteps DEF Abort, Read
<1>3. CASE CommitKey(c) /\ did' = [did EXCEPT ![c] = "same"] /\ UNCHANGED staff
  BY <1>1, <1>3, StaffKept, CommitKeySteps DEF Read
<1>4. CASE To(c, "write") /\ UNCHANGED <<entry, did, staff>>
  <2>1. Moved(c, "write", None) /\ UNCHANGED <<job, keys, desk, staff>>
    BY <1>1, <1>4, InTxCall, ToMoves DEF Places, Read, keys
  <2> USE DEF keys, desk, staff
  <2>2. TypeOK /\ CallHolds(c) /\ lock[c] = None /\ adding[c] = None /\ job[c] # None
        /\ call[c].answer = None /\ ~lapsed[c]
    BY <1>1 DEF IInv, CallHolds, PlaceHolds, SeenHolds, TypeOK, At, InTx
  <2>3. TypeOK'
    BY <2>1, <2>2 DEF TypeOK, Moved
  <2>4. Grows /\ Alone(c)
    BY <2>1, <2>2 DEF TypeOK, Grows, Alone, Same, Moved
  <2>5. PlaceHolds(c)'
    BY <1>1, <2>1, <2>2 DEF CallHolds, PlaceHolds, Moved, At, Acting, Onward, Early, InTx, Op
  <2>6. SeenHolds(c)' /\ EffectHolds(c)' /\ TargetHolds(c)'
    BY <1>1, <2>1, <2>2, InTxCall, Names DEF CallHolds, SeenHolds, EffectHolds, TargetHolds, Moved, At, Op
  <2> QED BY <2>1, <2>2, <2>3, <2>4, <2>5, <2>6, OneCallSteps DEF CallHolds
<1> QED BY <1>2, <1>3, <1>4 DEF Read

LEMMA WriteSteps ==
  ASSUME IInv, NEW c \in Calls, Write(c)
  PROVE  IInv' /\ Grows
<1>1. At(c, InTx)
  BY DEF Write, At, InTx
<1>2. CASE ~StillAsRead(c)
  BY <1>1, <1>2, AbortSteps DEF Abort, Write
<1>3. CASE StillAsRead(c)
  <2>1. version' = [version EXCEPT ![job[c].on] = @ + 1] /\ version[job[c].on] = job[c].arg
        /\ version \in [Admins -> Nat] /\ job[c].on \in Admins /\ inactive \in SUBSET Admins
    BY <1>1, <1>3, InTxCall DEF Write, StillAsRead, TypeOK
  <2>2. version' \in [Admins -> Nat] /\ job[c].arg < version'[job[c].on]
        /\ \A b \in Admins : version'[b] >= version[b]
    BY <2>1
  <2>3. inactive' \in SUBSET Admins
    BY <1>3, <2>1 DEF Write
  <2> QED BY <1>1, <1>3, <2>2, <2>3, CommitKeySteps DEF Write
<1> QED BY <1>2, <1>3

LEMMA KeyStatementFailsSteps ==
  ASSUME IInv, NEW c \in Calls, KeyStatementFails(c)
  PROVE  IInv' /\ Grows
<1>1. TypeOK /\ CallHolds(c) /\ "error" \notin Calls
  BY Names DEF IInv
<1>2. Answered(c, "error") /\ Finished(c, "error") /\ UNCHANGED <<job, lapsed, did, desk, staff>>
  BY <1>1, AnsweredFinishes DEF KeyStatementFails
<1>3. did[c] \in {"nothing", "same", "changed", "thrown"} /\ did' = [did EXCEPT ![c] = did[c]]
  BY <1>1, <1>2 DEF TypeOK
<1>4. CASE At(c, {"find", "purge", "drop", "poll", "create"}) /\ UNCHANGED entry
  BY <1>2, <1>4, ErrorGives, EarlyMoves DEF At, Early, keys
<1>5. ASSUME At(c, {"store", "unpend"}), NEW e \in {"none", "pending", "succeeded"},
             entry' = [entry EXCEPT ![c] = e], e = "succeeded" => At(c, {"store"}),
             e = "none" => At(c, {"unpend"})
      PROVE  IInv' /\ Grows
  <2>1. /\ entry[c] = "pending" /\ Op(c) \notin Changing
        /\ e = "succeeded" => did[c] # "nothing"
        /\ e = "none" => did[c] # "changed"
        /\ ~At(c, {"new", "follow", "look", "take", "insert", "commit", "done"})
    BY <1>1, <1>5 DEF CallHolds, PlaceHolds, At, Acting, Onward, Keeping, Changing
  <2> QED BY <1>1, <1>2, <1>3, <1>5, <2>1, StaffKept, EndingSteps
<1>6. CASE At(c, {"store", "unpend"}) /\ UNCHANGED entry
  <2>1. entry[c] = "pending" /\ entry' = [entry EXCEPT ![c] = "pending"]
    BY <1>1, <1>6 DEF CallHolds, PlaceHolds, At, Acting, Onward, TypeOK
  <2> QED BY <1>5, <1>6, <2>1
<1>7. CASE At(c, {"read", "write"}) /\ entry' = [entry EXCEPT ![c] = "none"]
  BY <1>2, <1>7, AbortSteps DEF At, InTx
<1>8. CASE At(c, {"store"}) /\ entry' = [entry EXCEPT ![c] = "succeeded"]
  <2>1. At(c, {"store", "unpend"})
    BY <1>8 DEF At
  <2> QED BY <1>5, <1>8, <2>1
<1>10. CASE At(c, {"unpend"}) /\ entry' = [entry EXCEPT ![c] = "none"]
  <2>1. At(c, {"store", "unpend"})
    BY <1>10 DEF At
  <2> QED BY <1>5, <1>10, <2>1
<1>9. CASE /\ At(c, {"create"}) /\ ~KeyHeld(c) /\ ~KeyTaken(c)
           /\ entry' = [entry EXCEPT ![c] = "pending"]
  <2>1. did[c] = "nothing"
        /\ ~At(c, {"new", "follow", "look", "take", "insert", "commit", "done"})
    BY <1>1, <1>9 DEF CallHolds, PlaceHolds, At
  <2>2. \A d \in Calls : SameKey(c, d) => entry[d] = "none"
    BY <1>1, <1>9 DEF KeyHeld, KeyTaken, EntriesOf, Stored, TypeOK
  <2> QED BY <1>1, <1>2, <1>3, <1>9, <2>1, <2>2, StaffKept, EndingSteps
<1> QED
  <2>1. At(c, {"find", "purge", "drop", "poll", "create", "store", "unpend"}) =>
          \/ At(c, {"find", "purge", "drop", "poll", "create"}) \/ At(c, {"store", "unpend"})
    BY DEF At
  <2> QED BY <2>1, <1>4, <1>6, <1>7, <1>8, <1>9, <1>10 DEF KeyStatementFails

LEMMA CreateSteps ==
  ASSUME IInv, NEW c \in Calls, Create(c)
  PROVE  IInv' /\ Grows
<1>1. TypeOK /\ CallHolds(c) /\ entry[c] = "none" /\ did[c] = "nothing" /\ ~lapsed[c]
      /\ job[c] # None /\ call[c].answer = None
  BY DEF IInv, CallHolds, PlaceHolds, SeenHolds, At, Early, TypeOK, Create
<1>2. CASE KeyTaken(c)
  <2>1. Again(c) /\ UNCHANGED <<job, keys, desk, staff>>
    BY <1>2 DEF Create, keys
  <2>2. "error" \in Calls \cup {"failed", "error", None} /\ Given(c, "error")
    BY Names DEF Given
  <2>3. Moves(c)
    BY <1>1, <2>1, <2>2, AgainMoves DEF Moves
  <2> QED BY <2>1, <2>3, EarlyMoves DEF Create, At, Early
<1>3. CASE ~KeyTaken(c)
  <2> DEFINE e == IF Op(c) \in Changing THEN "open" ELSE "pending"
             p == CASE Op(c) = "claim" -> "look"
                    [] Op(c) \in {"release", "reassign"} -> "take"
                    [] OTHER -> "read"
  <2>1. entry' = [entry EXCEPT ![c] = e] /\ To(c, p) /\ UNCHANGED <<job, lapsed, did, desk, staff>>
    BY <1>3 DEF Create
  <2>2. /\ p \in {"look", "take", "read"} /\ Op(c) \in Keeping \cup Changing
        /\ p = "read" <=> Op(c) \in Changing
        /\ p = "look" => Op(c) = "claim"
    BY <1>1 DEF TypeOK, Jobs, Op, Keeping, Changing
  <2>3. Moved(c, p, None)
    BY <1>1, <2>1, <2>2, ToMoves DEF Places
  <2>4. lock[c] = None /\ adding[c] = None
    BY <1>1 DEF TypeOK, At, Create
  <2>5. /\ entry' \in [Calls -> {"none", "open", "pending", "succeeded"}]
        /\ entry'[c] = e /\ \A d \in Calls : d # c => entry'[d] = entry[d]
    BY <1>1, <2>1 DEF TypeOK
  <2>6. TypeOK'
    BY <1>1, <2>1, <2>2, <2>3, <2>4, <2>5 DEF TypeOK, Moved, desk, staff
  <2>7. Grows /\ Alone(c)
    BY <1>1, <2>1, <2>3, <2>5 DEF TypeOK, Grows, Alone, Same, Moved, desk, staff
  <2>8. PlaceHolds(c)'
    BY <1>1, <2>1, <2>2, <2>3, <2>5 DEF CallHolds, PlaceHolds, Moved, At, Acting, Onward, Early,
       InTx, Op, Create, Keeping, Changing
  <2>9. SeenHolds(c)' /\ EffectHolds(c)' /\ TargetHolds(c)'
    BY <1>1, <2>1, <2>2, <2>3, Names DEF CallHolds, SeenHolds, EffectHolds, TargetHolds, Moved,
       At, Op, desk, staff
  <2>10. \A d \in Calls : SameKey(c, d) => entry[d] = "none"
    BY <1>1, <1>3 DEF Create, KeyHeld, KeyTaken, EntriesOf, Stored, TypeOK
  <2> QED BY <1>1, <2>6, <2>7, <2>8, <2>9, <2>10, OneCallSteps DEF CallHolds
<1> QED BY <1>2, <1>3

LEMMA LapseSteps ==
  ASSUME IInv, NEW c \in Calls, Lapse(c)
  PROVE  IInv' /\ Grows
<1> USE DEF Lapse, desk, staff
<1>1. TypeOK /\ CallHolds(c) /\ At(c, {"done"}) /\ lapsed' \in [Calls -> BOOLEAN]
      /\ lapsed'[c] /\ \A d \in Calls : d # c => lapsed'[d] = lapsed[d]
  BY DEF IInv, TypeOK
<1>2. TypeOK'
  BY <1>1 DEF TypeOK
<1>3. Grows /\ Alone(c)
  BY <1>1 DEF TypeOK, Grows, Alone, Same
<1>4. CallHolds(c)'
  BY <1>1 DEF CallHolds, PlaceHolds, SeenHolds, EffectHolds, TargetHolds, At, Op, SameKey,
     SamePayload, EntryKey, Scope
<1> QED BY <1>1, <1>2, <1>3, <1>4, OneCallSteps DEF Stored, CallHolds, PlaceHolds, At, Early, TypeOK

LEMMA AskedIsTyped ==
  ASSUME TypeOK, NEW j \in Asked
  PROVE  /\ j \in Jobs
         /\ j.op = "claim" => j.on \in Resources
         /\ j.op \in {"release", "reassign"} => j.on \in Calls /\ row[j.on] # None
         /\ j.op = "reassign" => j.arg \in Admins
         /\ j.op \in Changing => j.on \in Admins /\ j.arg \in Nat
<1> DEFINE rows == {x \in Calls : row[x] # None}
           V == UNION {0..version[a] : a \in Admins}
<1>1. V \subseteq Nat
  BY DEF TypeOK
<1>2. Active \subseteq Admins
  BY DEF Active
<1>3. CASE j \in [admin : Active, key : Keys, op : {"claim"}, on : Resources, arg : {None}]
  BY <1>2, <1>3 DEF Jobs, Keeping, Changing
<1>4. CASE j \in [admin : Active, key : Keys, op : {"release"}, on : rows, arg : {None}]
  BY <1>2, <1>4 DEF Jobs, Keeping, Changing
<1>5. CASE j \in [admin : Active \cap Supers, key : Keys, op : {"reassign"}, on : rows,
                  arg : Active]
  BY <1>2, <1>5 DEF Jobs, Keeping, Changing
<1>6. CASE j \in [admin : Active \cap Supers, key : Keys, op : Changing, on : Admins, arg : V]
  BY <1>1, <1>2, <1>6 DEF Jobs, Keeping, Changing
<1> QED BY <1>3, <1>4, <1>5, <1>6 DEF Asked

LEMMA ArriveSteps ==
  ASSUME IInv, NEW c \in Calls, Arrive(c)
  PROVE  IInv' /\ Grows
<1> USE DEF keys, desk, staff
<1>1. TypeOK /\ CallHolds(c) /\ entry[c] = "none" /\ did[c] = "nothing" /\ ~lapsed[c]
      /\ job[c] = None /\ lock[c] = None /\ adding[c] = None
      /\ call[c].at = "new" /\ call[c].proc = None /\ call[c].answer = None
  BY DEF IInv, CallHolds, PlaceHolds, SeenHolds, At, Early, TypeOK, Arrive
<1>2. PICK j \in Asked, p \in Procs :
        /\ job' = [job EXCEPT ![c] = j]
        /\ \/ call' = [call EXCEPT ![c].at = "find", ![c].proc = p]
           \/ \E d \in RunsOf(p, j) :
               IF job[d].on = j.on /\ job[d].arg = j.arg
                 THEN call' = [call EXCEPT ![c].at = "follow", ![c].proc = p, ![c].saw = d]
                 ELSE Answered(c, "error")
  BY DEF Arrive
<1>3. j \in Jobs /\ j # None /\ p # None
  BY <1>1, AskedIsTyped, NoneIsNoRecord, Names
<1>4. /\ job' \in [Calls -> Jobs \cup {None}] /\ job'[c] = j
      /\ \A d \in Calls : d # c => job'[d] = job[d]
  BY <1>1, <1>2, <1>3 DEF TypeOK
<1>5. TargetHolds(c)'
  BY <1>1, <1>4, AskedIsTyped DEF TargetHolds, Op, Arrive
<1>6. ASSUME /\ call' \in [Calls -> Running]
             /\ call'[c].at \in {"find", "follow", "done"}
             /\ call'[c].proc = IF call'[c].at = "done" THEN None ELSE p
             /\ call'[c].answer # None => call'[c].answer \notin Calls /\ call'[c].at = "done"
             /\ \A d \in Calls : d # c => call'[d] = call[d]
             /\ call'[c].at = "follow" => \E d \in Calls : /\ call'[c].saw = d
                                                           /\ SameKey(c, d)'
                                                           /\ SamePayload(c, d)'
      PROVE  IInv' /\ Grows
  <2>1. TypeOK'
    BY <1>1, <1>3, <1>4, <1>6 DEF TypeOK, Arrive
  <2>2. Grows /\ Alone(c)
    BY <1>1, <1>4, <1>6 DEF TypeOK, Grows, Alone, Same, Arrive
  <2>3. PlaceHolds(c)'
    BY <1>1, <1>3, <1>6 DEF PlaceHolds, At, Acting, Onward, Early, InTx, Arrive
  <2>4. SeenHolds(c)' /\ EffectHolds(c)'
    BY <1>1, <1>6, Names DEF SeenHolds, EffectHolds, At, Arrive
  <2> QED BY <1>1, <1>5, <2>1, <2>2, <2>3, <2>4, OneCallSteps DEF CallHolds, Arrive
<1>7. CASE call' = [call EXCEPT ![c].at = "find", ![c].proc = p]
  <2> DEFINE r == [call[c] EXCEPT !.at = "find", !.proc = p]
  <2>1. call[c] \in Running /\ call \in [Calls -> Running] /\ "find" \in Places
    BY <1>1 DEF TypeOK, Places
  <2>2. r \in Running /\ r.at = "find" /\ r.proc = p /\ r.answer = None
    BY <1>1, <2>1 DEF Running
  <2>3. call' = [call EXCEPT ![c] = r]
    BY <1>7, <2>1
  <2> QED BY <1>6, <2>1, <2>2, <2>3
<1>8. ASSUME NEW d \in RunsOf(p, j), job[d].on = j.on, job[d].arg = j.arg,
             call' = [call EXCEPT ![c].at = "follow", ![c].proc = p, ![c].saw = d]
      PROVE  IInv' /\ Grows
  <2> DEFINE r == [call[c] EXCEPT !.at = "follow", !.proc = p, !.saw = d]
  <2>1. call[c] \in Running /\ call \in [Calls -> Running] /\ "follow" \in Places
    BY <1>1 DEF TypeOK, Places
  <2>2. d \in Calls /\ d # c /\ job[d] # None
    BY <1>1, <1>3 DEF RunsOf, IInv, CallHolds, PlaceHolds, At, TypeOK
  <2>3. r \in Running /\ r.at = "follow" /\ r.proc = p /\ r.answer = None /\ r.saw = d
    BY <1>1, <2>1, <2>2 DEF Running
  <2>4. call' = [call EXCEPT ![c] = r]
    BY <1>8, <2>1
  <2>5. SameKey(c, d)' /\ SamePayload(c, d)'
    BY <1>3, <1>4, <1>8, <2>2 DEF SameKey, SamePayload, EntryKey, Scope, RunsOf
  <2> QED BY <1>6, <2>1, <2>2, <2>3, <2>4, <2>5
<1>9. CASE Answered(c, "error")
  BY <1>1, <1>6, <1>9, AnsweredFinishes, Names DEF Finished
<1> QED BY <1>2, <1>7, <1>8, <1>9

\* Entries only go.
LEMMA EntriesGo ==
  ASSUME IInv, Grows, TypeOK', \A d \in Calls : CallHolds(d)',
         \A d \in Calls : entry'[d] # "none" => entry[d] # "none"
  PROVE  IInv'
<1>1. \A d \in Calls : entry'[d] # "none" => job'[d] = job[d]
  BY DEF IInv, CallHolds, PlaceHolds, At, TypeOK, Early, Grows
<1> QED BY <1>1 DEF IInv, OneEntry, SameKey, EntryKey, Scope

LEMMA PurgeSteps ==
  ASSUME IInv, NEW c \in Calls, Purge(c)
  PROVE  IInv' /\ Grows
<1>0. PICK s \in Calls : s = call[c].saw
  BY DEF IInv, CallHolds, SeenHolds, Purge
<1>1. TypeOK /\ CallHolds(c) /\ entry[c] = "none" /\ did[c] = "nothing" /\ ~lapsed[c]
      /\ job[c] # None /\ call[c].answer = None /\ s \in Calls /\ lapsed[s]
      /\ lock[c] = None /\ adding[c] = None /\ call[c].proc # None
  BY <1>0 DEF IInv, CallHolds, PlaceHolds, SeenHolds, At, Early, TypeOK, Purge
<1>2. UNCHANGED <<job, lapsed, did, row, lock, adding, inactive, version>>
  BY DEF Purge, desk, staff
<1>3. s # c /\ CallHolds(s) /\ At(s, {"done"})
  BY <1>1 DEF IInv, CallHolds, SeenHolds
<1>4. /\ entry' \in [Calls -> {"none", "open", "pending", "succeeded"}]
      /\ \A d \in Calls : entry'[d] = IF d = s THEN "none" ELSE entry[d]
  BY <1>0, <1>1 DEF Purge, TypeOK
<1>5. Moved(c, "find", None) \/ Moved(c, "poll", None) \/ Finished(c, "error")
  BY <1>1, AgainMoves, AnsweredFinishes DEF Purge
<1>6. /\ call' \in [Calls -> Running]
      /\ call'[c].at \in {"find", "poll", "done"}
      /\ call'[c].proc = IF call'[c].at = "done" THEN None ELSE call[c].proc
      /\ call'[c].answer # None => call'[c].answer \notin Calls /\ call'[c].at = "done"
      /\ \A d \in Calls : d # c => call'[d] = call[d]
  BY <1>1, <1>5, Names DEF Moved, Finished
<1>7. TypeOK'
  BY <1>1, <1>4, <1>6, <1>2 DEF TypeOK
<1>8. Grows /\ \A d \in Calls \ {c, s} : Same(d)
  BY <1>1, <1>4, <1>6, <1>2 DEF TypeOK, Grows, Same
<1>9. CallHolds(c)'
  <2>1. PlaceHolds(c)'
    BY <1>1, <1>4, <1>6, <1>2 DEF CallHolds, PlaceHolds, At, Acting, Onward, Early, InTx
  <2>2. SeenHolds(c)' /\ EffectHolds(c)' /\ TargetHolds(c)'
    BY <1>1, <1>6, <1>2, Names DEF CallHolds, SeenHolds, EffectHolds, TargetHolds, At, Op
  <2> QED BY <2>1, <2>2 DEF CallHolds
<1>10. CallHolds(s)'
  <2>1. PlaceHolds(s)'
    BY <1>1, <1>3, <1>4, <1>6, <1>2 DEF CallHolds, PlaceHolds, At, Acting, Onward, Early, InTx, Op
  <2>2. SeenHolds(s)'
    BY <1>1, <1>3, <1>6, <1>2 DEF CallHolds, SeenHolds, At, SameKey, SamePayload, EntryKey, Scope
  <2>3. EffectHolds(s)' /\ TargetHolds(s)'
    BY <1>1, <1>3, <1>6, <1>2 DEF CallHolds, EffectHolds, TargetHolds, Excused, Op
  <2> QED BY <2>1, <2>2, <2>3 DEF CallHolds
<1> QED BY <1>4, <1>7, <1>8, <1>9, <1>10, OthersHold, EntriesGo

LEMMA CrashSteps ==
  ASSUME IInv, NEW p \in Procs, Crash(p)
  PROVE  IInv' /\ Grows
<1> USE DEF staff
<1> DEFINE Hit(c) == call[c].proc = p
<1>1. TypeOK /\ p # None
  BY Names DEF IInv
<1>2. \A c \in Calls : Hit(c) => job[c] # None /\ ~At(c, {"new", "done"}) /\ ~lapsed[c]
  BY <1>1 DEF IInv, CallHolds, PlaceHolds, SeenHolds, At, TypeOK
<1>3. /\ call' \in [Calls -> Running]
      /\ entry' \in [Calls -> {"none", "open", "pending", "succeeded"}]
      /\ lock' \in [Calls -> Calls \cup {None}]
      /\ adding' \in [Calls -> Assignments \cup {None}]
      /\ \A c \in Calls :
           /\ call'[c] = IF Hit(c) THEN Ended("error") ELSE call[c]
           /\ entry'[c] = IF Hit(c) /\ entry[c] = "open" THEN "none" ELSE entry[c]
           /\ lock'[c] = IF Hit(c) THEN None ELSE lock[c]
           /\ adding'[c] = IF Hit(c) THEN None ELSE adding[c]
      /\ UNCHANGED <<job, lapsed, did, row, staff>>
  BY <1>1, EndedRuns DEF Crash, TypeOK
<1>4. Ended("error").at = "done" /\ Ended("error").proc = None /\ Ended("error").answer = "error"
      /\ "error" \notin Calls
  BY EndedRuns, Names
<1>5. TypeOK'
  BY <1>1, <1>2, <1>3, <1>4 DEF TypeOK, At
<1>6. Grows
  BY <1>1, <1>3 DEF TypeOK, Grows
<1>7. ASSUME NEW c \in Calls PROVE CallHolds(c)'
  <2>1. CASE ~Hit(c)
    BY <1>3, <1>5, <1>6, <2>1, OthersHold DEF Same
  <2>2. CASE Hit(c)
    <3>1. CallHolds(c)
      BY DEF IInv
    <3>2. PlaceHolds(c)'
      BY <1>2, <1>3, <1>4, <2>2, <3>1 DEF CallHolds, PlaceHolds, At, Acting, Onward, Early, InTx, Op
    <3>3. SeenHolds(c)' /\ TargetHolds(c)'
      BY <1>2, <1>3, <1>4, <2>2, <3>1 DEF CallHolds, SeenHolds, TargetHolds, At, Op
    <3>4. EffectHolds(c)'
      <4>1. entry[c] = "open" => did[c] = "nothing"
        BY <3>1 DEF CallHolds, PlaceHolds, At, IInv, TypeOK, Running, Places, Acting, Onward, Early, InTx
      <4>2. ~lapsed[c]
        BY <1>2, <2>2
      <4> QED BY <1>3, <2>2, <3>1, <4>1, <4>2 DEF CallHolds, EffectHolds, Op
    <3> QED BY <3>2, <3>3, <3>4 DEF CallHolds
  <2> QED BY <2>1, <2>2
<1> QED BY <1>3, <1>5, <1>6, <1>7, EntriesGo

----------------------------------------------------------------------------
LEMMA InitHolds ==
  ASSUME Init
  PROVE  IInv
<1>1. \A c \in Calls : call[c] = [Ended(None) EXCEPT !.at = "new"]
  BY DEF Init
<1>2. \A c \in Calls : /\ call[c] \in Running /\ call[c].at = "new"
                       /\ call[c].proc = None /\ call[c].answer = None
  <2>1. Ended(None) \in Running /\ Ended(None).proc = None /\ Ended(None).answer = None
        /\ "new" \in Places
    BY EndedRuns DEF Places
  <2> QED BY <1>1, <2>1 DEF Running
<1>3. TypeOK
  BY <1>2 DEF Init, TypeOK
<1>4. \A c \in Calls : CallHolds(c)
  BY <1>2, Names DEF Init, CallHolds, PlaceHolds, SeenHolds, EffectHolds, TargetHolds, At, Acting, Onward,
     Early, InTx
<1>5. OneEntry
  BY DEF Init, OneEntry
<1> QED BY <1>3, <1>4, <1>5 DEF IInv

\* Every step keeps the invariant and takes nothing back.
LEMMA NextHolds ==
  ASSUME IInv, [Next]_vars
  PROVE  IInv' /\ Grows
<1>1. ASSUME NEW c \in Calls, Step(c)
      PROVE  IInv' /\ Grows
  BY <1>1, FollowSteps, FindSteps, PurgeSteps, PollSteps, CreateSteps, TxFindSteps, LookSteps,
     TakeForClaimSteps, TakeToCloseSteps, InsertSteps, CommitSteps, StoreSteps, UnpendSteps,
     ReadSteps, WriteSteps DEF Step
<1>2. ASSUME NEW c \in Calls,
             Arrive(c) \/ ActionFails(c) \/ KeyStatementFails(c) \/ Lapse(c)
      PROVE  IInv' /\ Grows
  BY <1>2, ArriveSteps, ActionFailsSteps, KeyStatementFailsSteps, LapseSteps
<1>3. ASSUME NEW p \in Procs, Crash(p)
      PROVE  IInv' /\ Grows
  BY <1>3, CrashSteps
<1>4. CASE UNCHANGED vars
  <2> USE <1>4 DEF vars, keys, desk, staff
  <2>1. Grows /\ TypeOK'
    BY DEF IInv, TypeOK, Grows
  <2>2. \A c \in Calls : CallHolds(c)'
    BY <2>1, OthersHold DEF Same
  <2> QED BY <2>1, <2>2, EntriesGo
<1> QED BY <1>1, <1>2, <1>3, <1>4 DEF Next

THEOREM Invariance == Spec => []IInv
<1>1. IInv /\ [Next]_vars => IInv'
  BY NextHolds
<1> QED BY InitHolds, <1>1, PTL DEF Spec

\* Every call, entry and assignment has the form the code gives it.
THEOREM TypeCorrect == Spec => []TypeOK
<1>1. IInv => TypeOK
  BY DEF IInv
<1> QED BY Invariance, <1>1, PTL

\* A result given to a call is the result of a run of the same request.
THEOREM AnswersAreOfRuns == Spec => []AnswersFromRuns
<1>1. IInv => AnswersFromRuns
  BY DEF IInv, CallHolds, SeenHolds, AnswersFromRuns
<1> QED BY Invariance, <1>1, PTL

\* A call changes something by the commit of its action, or by its conditional UPDATE.
LEMMA ChangesByCommit ==
  ASSUME IInv, [Next]_vars, NEW d \in Calls, did'[d] \in {"changed", "thrown"},
         did'[d] # did[d]
  PROVE  Commit(d) \/ (Write(d) /\ StillAsRead(d))
<1>1. did \in [Calls -> {"nothing", "same", "changed", "thrown"}]
  BY DEF IInv, TypeOK
<1>2. did' # did
  OBVIOUS
<1>3. PICK c \in Calls : TakeForClaim(c) \/ Commit(c) \/ Read(c) \/ Write(c)
  BY <1>2 DEF Next, Step, vars, keys, Arrive, Follow, Find, Purge, Poll, Create, TxFind, Look,
     TakeToClose, Insert, Store, Unpend, ActionFails, KeyStatementFails, Lapse, Crash
<1>4. ~TakeForClaim(c)
  BY <1>1 DEF TakeForClaim
<1>5. ~Read(c)
  BY <1>1 DEF Read, Abort
<1>6. CASE Commit(c)
  BY <1>1, <1>6 DEF Commit
<1>7. CASE Write(c)
  BY <1>1, <1>7 DEF Write, Abort
<1> QED BY <1>3, <1>4, <1>5, <1>6, <1>7

\* Under one key a command has its effect once, or again after its action threw behind
\* its commit and the key was freed, or after the day of its entry.
THEOREM EffectIsOnce == Spec => EffectOnce
<1>1. ASSUME IInv, [Next]_vars
      PROVE  \A c, d \in Calls :
               SameKey(c, d) /\ Changed(c) /\ ~Excused(c) /\ Changed(d)' => Changed(d)
  <2>1. SUFFICES ASSUME NEW c \in Calls, NEW d \in Calls, SameKey(c, d), Changed(c),
                        ~Excused(c), Changed(d)', ~Changed(d)
                 PROVE  FALSE
    OBVIOUS
  <2>2. Commit(d) \/ (Write(d) /\ StillAsRead(d))
    BY <1>1, <2>1, ChangesByCommit DEF Changed
  <2>3. At(d, {"commit", "write"})
    BY <2>2 DEF Commit, Write, At
  <2>4. entry[d] # "none"
    BY <1>1, <2>3 DEF IInv, CallHolds, PlaceHolds, At, Acting, Onward, InTx
  <2>5. entry[c] # "none"
    BY <1>1, <2>1 DEF IInv, CallHolds, EffectHolds, Changed, Excused
  <2> QED BY <1>1, <2>1, <2>4, <2>5 DEF IInv, OneEntry
<1> QED BY Invariance, <1>1, PTL DEF Spec, EffectOnce

\* One version of an administrator is changed by one command.
THEOREM OneCommandPerVersion == Spec => []VersionSpentOnce
<1>1. Init => VersionSpentOnce
  BY DEF Init, VersionSpentOnce
<1>2. ASSUME IInv, VersionSpentOnce, [Next]_vars
      PROVE  VersionSpentOnce'
  <2>1. Grows
    BY <1>2, NextHolds
  <2>2. \A c \in Calls : did'[c] = "changed" => job'[c] = job[c]
    <3> TAKE c \in Calls
    <3>1. CASE did[c] = "changed"
      BY <2>1, <3>1, <1>2 DEF Grows, IInv, CallHolds, PlaceHolds, At, TypeOK
    <3>2. CASE did'[c] = "changed" /\ did[c] # "changed"
      BY <1>2, <3>2, ChangesByCommit DEF Commit, Write
    <3> QED BY <3>1, <3>2
  <2>3. ASSUME NEW c \in Calls, NEW d \in Calls, did[c] = "changed", did'[d] = "changed",
               did[d] # "changed", Op(c) \in Changing, Op(d) \in Changing, job[c].on = job[d].on
        PROVE  job[c].arg # job[d].arg
    <3>1. job[c].arg < version[job[c].on]
      BY <1>2, <2>3 DEF IInv, CallHolds, EffectHolds
    <3>2. ~Commit(d)
      BY <1>2, <2>3 DEF Commit, IInv, CallHolds, PlaceHolds, At, Acting, Onward, Keeping, Changing
    <3>3. version[job[d].on] = job[d].arg
      BY <1>2, <2>3, <3>2, ChangesByCommit DEF StillAsRead
    <3>4. job[c].on \in Admins /\ job[c].arg \in Nat /\ version \in [Admins -> Nat]
      BY <1>2, <2>3 DEF IInv, CallHolds, PlaceHolds, TargetHolds, At, TypeOK
    <3> QED BY <2>3, <3>1, <3>3, <3>4
  <2>4. ASSUME NEW c \in Calls, NEW d \in Calls, did'[c] = "changed", did[c] # "changed",
               did'[d] = "changed", did[d] # "changed"
        PROVE  c = d
    <3>1. Commit(c) \/ (Write(c) /\ StillAsRead(c))
      BY <1>2, <2>4, ChangesByCommit
    <3>2. \A x \in Calls : x # c => did'[x] = did[x]
      BY <1>2, <3>1 DEF Commit, Write, IInv, TypeOK
    <3> QED BY <2>4, <3>2
  <2> QED
    <3> SUFFICES ASSUME NEW c \in Calls, NEW d \in Calls, did'[c] = "changed", did'[d] = "changed",
                        job'[c].op \in Changing, job'[d].op \in Changing,
                        job'[c].on = job'[d].on, job'[c].arg = job'[d].arg
                 PROVE  c = d
      BY DEF VersionSpentOnce
    <3>1. Op(c) \in Changing /\ Op(d) \in Changing /\ job[c].on = job[d].on
          /\ job[c].arg = job[d].arg
      BY <2>2 DEF Op
    <3> QED BY <1>2, <2>3, <2>4, <3>1 DEF VersionSpentOnce, Op
<1> QED BY Invariance, <1>1, <1>2, PTL DEF Spec

----------------------------------------------------------------------------
\* What a transaction on the assignments has done so far.
DeskHolds(c) ==
  /\ did[c] = "nothing" => row[c] = None
  /\ adding[c] # None => /\ Op(c) \in {"claim", "reassign"}
                         /\ adding[c].active /\ adding[c].resource = Resource(c)
                         /\ Op(c) = "reassign" => adding[c].owner = job[c].arg
                         /\ Current(adding[c].resource) \subseteq {lock[c]}
  /\ lock[c] # None => /\ row[lock[c]] # None /\ row[lock[c]].active
                       /\ Op(c) = "reassign" => row[lock[c]].owner # job[c].arg
  /\ At(c, {"insert", "commit"}) /\ Op(c) # "claim" => lock[c] # None
  /\ At(c, {"commit"}) /\ Op(c) # "release" => adding[c] # None

\* A row is locked by one transaction, and a resource is being assigned by one.
Apart ==
  /\ \A c, d \in Calls : lock[c] # None /\ lock[c] = lock[d] => c = d
  /\ \A c, d \in Calls : /\ adding[c] # None /\ adding[d] # None
                         /\ adding[c].resource = adding[d].resource
                         => c = d
  /\ \A r \in Resources : \A x, y \in Current(r) : x = y

DeskInv == Apart /\ \A c \in Calls : DeskHolds(c)

\* A step that leaves the assignments alone and brings no call to the write of a row,
\* but a claim that found the resource free.
Quietly ==
  /\ UNCHANGED desk
  /\ \A d \in Calls : At(d, {"insert", "commit"})' =>
       \/ call'[d].at = call[d].at
       \/ call'[d].at = "insert" /\ Op(d) = "claim" /\ job[d] # None

LEMMA QuietSteps ==
  ASSUME IInv, IInv', Grows, DeskInv, Quietly
  PROVE  DeskInv'
<1> USE DEF desk
<1>1. TypeOK /\ TypeOK' /\ row' = row /\ lock' = lock /\ adding' = adding
  BY DEF IInv, Quietly
<1>2. \A d \in Calls : At(d, {"insert", "commit"})' => job'[d] = job[d]
  BY <1>1 DEF Quietly, Grows, TypeOK, At
<1>3. ASSUME NEW d \in Calls
      PROVE  DeskHolds(d)'
  <2>1. DeskHolds(d)
    BY DEF DeskInv
  <2>2. did'[d] = "nothing" => did[d] = "nothing"
    BY <1>1 DEF Grows, TypeOK
  <2>3. lock[d] # None => job'[d] = job[d]
    BY <1>1, <1>2 DEF TypeOK, At
  <2>4. adding[d] # None => job'[d] = job[d]
    BY <1>1, <1>2 DEF TypeOK, At
  <2>5. adding[d] # None =>
          /\ adding[d].resource = Resource(d)'
          /\ Current(adding[d].resource)' \subseteq {lock[d]}
    BY <1>1, <2>1, <2>4 DEF DeskHolds, Resource, Current, Op
  <2>6. /\ At(d, {"insert", "commit"})' /\ Op(d)' # "claim" => lock[d] # None
        /\ At(d, {"commit"})' /\ Op(d)' # "release" => adding[d] # None
    BY <1>2, <2>1 DEF Quietly, DeskHolds, At, Op
  <2> QED BY <1>1, <2>1, <2>2, <2>3, <2>4, <2>5, <2>6 DEF DeskHolds, Op
<1>4. Apart'
  BY <1>1 DEF DeskInv, Apart, Current
<1> QED BY <1>3, <1>4 DEF DeskInv

\* The steps of one call that are quiet.
LEMMA QuietCalls ==
  ASSUME IInv, NEW c \in Calls,
         \/ Arrive(c) \/ Follow(c) \/ Find(c) \/ Purge(c) \/ Poll(c) \/ Create(c) \/ TxFind(c)
         \/ Look(c) \/ TakeForClaim(c) \/ Store(c) \/ Unpend(c) \/ Read(c) \/ Write(c)
         \/ KeyStatementFails(c) \/ Lapse(c)
  PROVE  Quietly
<1> DEFINE Away == /\ call'[c].at \notin {"insert", "commit"}
                   /\ \A d \in Calls : d # c => call'[d] = call[d]
<1>1. TypeOK /\ UNCHANGED desk
  BY DEF IInv, Arrive, Follow, Find, Purge, Poll, Create, TxFind, Look, TakeForClaim, Store,
     Unpend, Read, Abort, Write, KeyStatementFails, Lapse
<1>2. Away => Quietly
  BY <1>1 DEF Quietly, At
<1>3. \A p \in Places \ {"insert", "commit"} : To(c, p) => Away
  BY <1>1, ToMoves DEF Moved
<1>4. \A p \in {"purge", "poll", "drop", "take"}, x \in Calls : Seeing(c, p, x) => Away
  BY <1>1, SeeingMoves DEF Moved, Places
<1>5. \A a \in Calls \cup {"failed", "error", None} : Answered(c, a) => Away
  BY <1>1, AnsweredFinishes DEF Finished
<1>6. Again(c) => Away
  BY <1>1, AgainMoves DEF Moved, Finished
<1>7. \A d \in Calls : Replay(c, d) => Away
  BY <1>5 DEF Replay
<1> HIDE DEF Away
<1>8. CASE Arrive(c)
  <2>1. PICK p \in Procs :
          \/ call' = [call EXCEPT ![c].at = "find", ![c].proc = p]
          \/ \E d \in Calls :
               call' = [call EXCEPT ![c].at = "follow", ![c].proc = p, ![c].saw = d]
          \/ Answered(c, "error")
    BY <1>8 DEF Arrive, RunsOf
  <2>2. Answered(c, "error") \/ Away
    <3>1. call \in [Calls -> Running]
      BY <1>1 DEF TypeOK
    <3> QED BY <2>1, <3>1 DEF Running, Away
  <2> QED BY <1>2, <1>5, <2>2
<1>9. CASE Follow(c)
  <2>1. call[c].saw \in Calls /\ call[call[c].saw].answer \in Calls \cup {"failed", "error", None}
    BY <1>1, <1>9 DEF IInv, CallHolds, SeenHolds, Follow, TypeOK, Running
  <2> QED BY <1>2, <1>5, <1>9, <2>1 DEF Follow
<1>10. CASE Find(c) \/ Poll(c) \/ TxFind(c) \/ Purge(c)
  BY <1>2, <1>3, <1>4, <1>5, <1>6, <1>7, <1>10 DEF Find, Poll, TxFind, Purge, EntriesOf, Places
<1>11. CASE Create(c)
  BY <1>2, <1>3, <1>6, <1>11 DEF Create, Places
<1>12. CASE Look(c) \/ TakeForClaim(c)
  <2>1. Op(c) = "claim" /\ job[c] # None
    BY <1>1, <1>12 DEF IInv, CallHolds, PlaceHolds, Look, TakeForClaim, At, TypeOK
  <2>2. To(c, "insert") => Quietly
    BY <1>1, <2>1, ToMoves DEF Moved, Quietly, Places, At
  <2> QED BY <1>2, <1>3, <1>4, <1>12, <2>2 DEF Look, TakeForClaim, Current, Places
<1>13. CASE Store(c) \/ Unpend(c) \/ KeyStatementFails(c)
  BY <1>2, <1>5, <1>13 DEF Store, Unpend, KeyStatementFails
<1>14. CASE Read(c) \/ Write(c)
  BY <1>2, <1>3, <1>5, <1>14 DEF Read, Write, Abort, CommitKey, Places
<1>15. CASE Lapse(c)
  BY <1>1, <1>15 DEF Lapse, Quietly
<1> QED BY <1>8, <1>9, <1>10, <1>11, <1>12, <1>13, <1>14, <1>15

\* For a call whose part of the assignments is untouched.
LEMMA DeskOthersHold ==
  ASSUME IInv, IInv', DeskInv, NEW d \in Calls, Same(d), adding'[d] = adding[d], row' = row
  PROVE  DeskHolds(d)'
<1>1. adding[d] # None \/ lock[d] # None => job[d] # None
  BY DEF IInv, TypeOK
<1> QED BY <1>1 DEF DeskInv, DeskHolds, Same, Resource, Current, Op, At

LEMMA TakeToCloseDesk ==
  ASSUME IInv, IInv', Grows, DeskInv, NEW c \in Calls, TakeToClose(c)
  PROVE  DeskInv'
<1> DEFINE x == job[c].on
<1>1. TypeOK /\ TypeOK' /\ adding[c] = None /\ UNCHANGED <<job, keys, row, adding, staff>>
      /\ CallHolds(c) /\ job[c] # None /\ Op(c) \in {"release", "reassign"}
  BY ActingCall DEF TakeToClose, At, Acting, Onward, IInv
<1>2. x \in Calls /\ row[x] # None
  BY <1>1 DEF CallHolds, TargetHolds
<1>3. CASE To(c, "unpend") /\ UNCHANGED lock
  <2>1. Quietly
    BY <1>1, <1>3, ToMoves DEF Moved, Places, Quietly, desk, At
  <2> QED BY <2>1, QuietSteps
<1>4. CASE /\ row[x].active /\ MayClose(c, x) /\ lock' = [lock EXCEPT ![c] = x]
           /\ To(c, IF Op(c) = "release" THEN "commit" ELSE "insert")
  <2>1. Moved(c, IF Op(c) = "release" THEN "commit" ELSE "insert", None)
    BY <1>1, <1>4, ToMoves DEF Places
  <2>2. lock'[c] = x /\ \A d \in Calls : d # c => lock'[d] = lock[d]
    BY <1>1, <1>4 DEF TypeOK
  <2>3. \A d \in Calls : d # c => DeskHolds(d)'
    BY <1>1, <2>1, <2>2, DeskOthersHold DEF Moved, Same, keys
  <2>4. DeskHolds(c)'
    <3>1. x # None /\ row'[x] = row[x] /\ job'[c] = job[c] /\ did'[c] = did[c] /\ adding'[c] = None
      BY <1>1, <1>2, Names DEF keys
    <3>2. Op(c) = "reassign" => row[x].owner # job[c].arg
      BY <1>4 DEF MayClose
    <3>3. call'[c].at = IF Op(c) = "release" THEN "commit" ELSE "insert"
      BY <2>1 DEF Moved
    <3> QED BY <1>1, <1>2, <1>4, <2>2, <3>1, <3>2, <3>3 DEF DeskInv, DeskHolds, At, Op
  <2>5. Apart'
    BY <1>1, <2>2 DEF DeskInv, Apart, Current, TakeToClose, RowFree
  <2> QED BY <2>3, <2>4, <2>5 DEF DeskInv
<1> QED BY <1>3, <1>4 DEF TakeToClose

LEMMA InsertDesk ==
  ASSUME IInv, IInv', Grows, DeskInv, NEW c \in Calls, Insert(c)
  PROVE  DeskInv'
<1> DEFINE r == Resource(c)
           new == New(c)
<1>1. TypeOK /\ TypeOK' /\ adding[c] = None /\ UNCHANGED <<job, keys, row, staff>>
      /\ CallHolds(c) /\ job[c] # None /\ Op(c) \in {"claim", "reassign"} /\ DeskHolds(c)
      /\ call[c].at = "insert"
  BY ActingCall DEF Insert, At, Acting, Onward, CallHolds, PlaceHolds, Keeping, IInv, TypeOK, DeskInv
<1>2. CASE To(c, "unpend") /\ lock' = [lock EXCEPT ![c] = None] /\ UNCHANGED adding
  <2>1. Moved(c, "unpend", None)
    BY <1>1, <1>2, ToMoves DEF Places
  <2>2. lock'[c] = None /\ \A d \in Calls : d # c => lock'[d] = lock[d]
    BY <1>1, <1>2 DEF TypeOK
  <2>3. \A d \in Calls : d # c => DeskHolds(d)'
    BY <1>1, <1>2, <2>1, <2>2, DeskOthersHold DEF Moved, Same, keys
  <2>4. DeskHolds(c)'
    BY <1>1, <1>2, <2>1, <2>2 DEF DeskHolds, Moved, At, keys
  <2>5. Apart'
    BY <1>1, <1>2, <2>2 DEF DeskInv, Apart, Current
  <2> QED BY <2>3, <2>4, <2>5 DEF DeskInv
<1>3. CASE /\ Current(r) \subseteq {lock[c]} /\ To(c, "commit") /\ UNCHANGED lock
           /\ adding' = [adding EXCEPT ![c] = new]
  <2>1. Moved(c, "commit", None)
    BY <1>1, <1>3, ToMoves DEF Places
  <2>2. adding'[c] = new /\ \A d \in Calls : d # c => adding'[d] = adding[d]
    BY <1>1, <1>3 DEF TypeOK
  <2>3. \A d \in Calls : d # c => DeskHolds(d)'
    BY <1>1, <1>3, <2>1, <2>2, DeskOthersHold DEF Moved, Same, keys
  <2>4. DeskHolds(c)'
    <3>2. Resource(c)' = r /\ Current(r)' = Current(r) /\ Op(c)' = Op(c)
      BY <1>1 DEF Resource, Op, Current
    <3>3. (Op(c) # "claim" => lock[c] # None) /\ (did'[c] = "nothing" => row'[c] = None)
      BY <1>1 DEF DeskHolds, At, keys
    <3>4. adding'[c].resource = r /\ adding'[c].active
          /\ (Op(c) = "reassign" => adding'[c].owner = job'[c].arg)
      BY <1>1, <2>2 DEF New
    <3>5. new # None
      BY <1>1, NewIsAssignment, NoneIsNoRecord DEF At
    <3> QED BY <1>1, <1>3, <2>2, <3>2, <3>3, <3>4, <3>5 DEF DeskHolds, At
  <2>5. Apart'
    BY <1>1, <1>3, <2>2 DEF DeskInv, Apart, Current, Insert, IndexFree, New
  <2> QED BY <2>3, <2>4, <2>5 DEF DeskInv
<1> QED BY <1>2, <1>3 DEF Insert, New

LEMMA ActionFailsDesk ==
  ASSUME IInv, IInv', Grows, DeskInv, NEW c \in Calls, ActionFails(c)
  PROVE  DeskInv'
<1>1. TypeOK /\ UNCHANGED <<job, keys, row, staff>> /\ Moved(c, "unpend", None)
  BY ToMoves DEF ActionFails, IInv, Places
<1>2. /\ lock'[c] = None /\ adding'[c] = None
      /\ \A d \in Calls : d # c => lock'[d] = lock[d] /\ adding'[d] = adding[d]
  BY <1>1 DEF ActionFails, TypeOK
<1>3. \A d \in Calls : d # c => DeskHolds(d)'
  BY <1>1, <1>2, DeskOthersHold DEF Moved, Same, keys
<1>4. DeskHolds(c)'
  BY <1>1, <1>2 DEF DeskInv, DeskHolds, Moved, At, keys
<1>5. Apart'
  BY <1>1, <1>2 DEF DeskInv, Apart, Current
<1> QED BY <1>3, <1>4, <1>5 DEF DeskInv

LEMMA CrashDesk ==
  ASSUME IInv, IInv', Grows, DeskInv, NEW p \in Procs, Crash(p)
  PROVE  DeskInv'
<1> DEFINE Hit(c) == call[c].proc = p
<1>1. TypeOK /\ UNCHANGED <<job, lapsed, did, row, staff>>
  BY DEF IInv, Crash
<1>2. \A c \in Calls :
           /\ call'[c] = IF Hit(c) THEN Ended("error") ELSE call[c]
           /\ lock'[c] = IF Hit(c) THEN None ELSE lock[c]
           /\ adding'[c] = IF Hit(c) THEN None ELSE adding[c]
  BY <1>1 DEF Crash, TypeOK
<1>3. ASSUME NEW c \in Calls PROVE DeskHolds(c)'
  <2>1. CASE ~Hit(c)
    <3>1. entry'[c] = entry[c]
      BY <2>1 DEF Crash
    <3> QED BY <1>1, <1>2, <2>1, <3>1, DeskOthersHold DEF Same
  <2>2. CASE Hit(c)
    BY <1>1, <1>2, <2>2, EndedRuns DEF DeskInv, DeskHolds, At
  <2> QED BY <2>1, <2>2
<1>4. Apart'
  BY <1>1, <1>2 DEF DeskInv, Apart, Current
<1> QED BY <1>3, <1>4 DEF DeskInv

LEMMA CommitDesk ==
  ASSUME IInv, IInv', Grows, DeskInv, NEW c \in Calls, Commit(c)
  PROVE  DeskInv'
<1>1. TypeOK /\ UNCHANGED <<job, entry, lapsed, staff>> /\ did[c] = "nothing" /\ DeskHolds(c)
  BY ActingCall DEF Commit, At, Acting, Onward, IInv, DeskInv
<1>2. PICK p \in {"store", "unpend"} : Moved(c, p, None)
  BY <1>1, ToMoves DEF Commit, Places
<1>3. /\ lock'[c] = None /\ adding'[c] = None /\ did'[c] # "nothing"
      /\ \A d \in Calls : d # c => /\ lock'[d] = lock[d] /\ adding'[d] = adding[d]
                                   /\ did'[d] = did[d] /\ call'[d] = call[d]
  BY <1>1, <1>2 DEF Commit, TypeOK, Moved
<1>4. row[c] = None /\ lock[c] # c
  BY <1>1, Names DEF DeskHolds
<1>5. \A x \in Calls : row'[x] = IF x = c /\ adding[c] # None THEN adding[c]
                                ELSE IF x = lock[c] THEN [row[x] EXCEPT !.active = FALSE]
                                ELSE row[x]
  BY DEF Commit, Written
<1>6. \A x \in Calls : row[x] # None => /\ row'[x].resource = row[x].resource
                                        /\ x # lock[c] => row'[x] = row[x]
                                        /\ row'[x] # None /\ row'[x].active => x # lock[c]
  <2> TAKE x \in Calls
  <2>1. row[x] # None => row[x] \in Assignments /\ x # c
    BY <1>1, <1>4 DEF TypeOK
  <2> QED BY <1>5, <2>1 DEF Assignments
<1>7. \A r \in Resources : \A x \in Current(r)' :
        \/ x \in Current(r) /\ x # lock[c]
        \/ x = c /\ adding[c] # None /\ adding[c].resource = r
  <2> SUFFICES ASSUME NEW r \in Resources, NEW x \in Current(r)'
               PROVE  \/ x \in Current(r) /\ x # lock[c]
                      \/ x = c /\ adding[c] # None /\ adding[c].resource = r
    OBVIOUS
  <2>1. x \in Calls /\ row'[x] # None /\ row'[x].active /\ row'[x].resource = r
    BY DEF Current
  <2>2. CASE row[x] # None
    BY <1>6, <2>1, <2>2 DEF Current
  <2>3. CASE row[x] = None
    <3>1. x # lock[c]
      BY <1>1, <2>1, <2>3, Names DEF DeskHolds
    <3> QED BY <1>5, <2>1, <2>3, <3>1
  <2> QED BY <2>2, <2>3
<1>8. ASSUME NEW d \in Calls, d # c PROVE DeskHolds(d)'
  <2>1. DeskHolds(d) /\ CallHolds(d)
    BY DEF DeskInv, IInv
  <2>2. did'[d] = "nothing" => row'[d] = None
    <3>1. row[d] = None => d # lock[c]
      BY <1>1, Names DEF DeskHolds
    <3> QED BY <1>3, <1>5, <1>8, <2>1, <3>1 DEF DeskHolds
  <2>3. ASSUME lock[d] # None
        PROVE  row'[lock[d]] = row[lock[d]]
    <3>1. lock[d] \in Calls /\ lock[d] # lock[c] /\ row[lock[d]] # None
      BY <1>1, <1>8, <2>1, <2>3 DEF DeskInv, Apart, DeskHolds, TypeOK
    <3> QED BY <1>6, <3>1
  <2>4. ASSUME adding[d] # None
        PROVE  /\ adding[d].resource = Resource(d)'
               /\ Current(adding[d].resource)' \subseteq {lock[d]}
    <3>1. adding[d] \in Assignments /\ adding[d].resource \in Resources /\ job[d] # None
      BY <1>1, <2>4 DEF TypeOK, Assignments
    <3>2. adding[d].resource = Resource(d)'
      <4>1. adding[d].resource = Resource(d) /\ Op(d) \in {"claim", "reassign"}
        BY <2>1, <2>4 DEF DeskHolds
      <4>2. Op(d) = "reassign" => job[d].on \in Calls /\ row[job[d].on] # None
        BY <2>1, <3>1 DEF CallHolds, TargetHolds
      <4>3. Op(d) = "reassign" => row'[job[d].on].resource = row[job[d].on].resource
        BY <1>6, <4>2
      <4> QED BY <1>1, <4>1, <4>3 DEF Resource, Op
    <3>3. ~(adding[c] # None /\ adding[c].resource = adding[d].resource)
      BY <1>8, <2>4 DEF DeskInv, Apart
    <3>4. PICK r \in Resources : r = adding[d].resource
      BY <3>1
    <3>5. Current(r)' \subseteq {lock[d]}
      BY <1>7, <2>1, <2>4, <3>3, <3>4 DEF DeskHolds
    <3>6. Current(adding[d].resource)' = Current(r)'
      BY <1>3, <1>8, <3>4 DEF Current
    <3> QED BY <3>2, <3>5, <3>6
  <2> QED BY <1>1, <1>3, <1>8, <2>1, <2>2, <2>3, <2>4 DEF DeskHolds, Op, At
<1>9. DeskHolds(c)'
  BY <1>2, <1>3 DEF DeskHolds, Moved, At
<1>10. Apart'
  <2>1. \A d \in Calls, e \in Calls :
          /\ lock'[d] # None /\ lock'[d] = lock'[e] => d = e
          /\ adding'[d] # None /\ adding'[e] # None
               /\ adding'[d].resource = adding'[e].resource => d = e
    BY <1>3 DEF DeskInv, Apart
  <2>2. ASSUME NEW r \in Resources, NEW x \in Current(r)', NEW y \in Current(r)'
        PROVE  x = y
    <3>1. adding[c] # None => Current(adding[c].resource) \subseteq {lock[c]}
      BY <1>1 DEF DeskHolds
    <3>2. \A u, v \in Current(r) : u = v
      BY DEF DeskInv, Apart
    <3> QED BY <1>7, <3>1, <3>2
  <2> QED BY <2>1, <2>2 DEF Apart
<1> QED BY <1>8, <1>9, <1>10 DEF DeskInv

LEMMA DeskHeld ==
  ASSUME IInv, DeskInv, [Next]_vars
  PROVE  DeskInv'
<1>1. IInv' /\ Grows
  BY NextHolds
<1>2. CASE UNCHANGED vars
  <2>1. Quietly
    BY <1>2 DEF Quietly, vars, desk
  <2> QED BY <1>1, <2>1, QuietSteps
<1>3. ASSUME NEW c \in Calls, Step(c)
      PROVE  DeskInv'
  BY <1>1, <1>3, QuietCalls, QuietSteps, TakeToCloseDesk, InsertDesk, CommitDesk DEF Step
<1>4. ASSUME NEW c \in Calls, Arrive(c) \/ ActionFails(c) \/ KeyStatementFails(c) \/ Lapse(c)
      PROVE  DeskInv'
  BY <1>1, <1>4, QuietCalls, QuietSteps, ActionFailsDesk
<1>5. ASSUME NEW p \in Procs, Crash(p)
      PROVE  DeskInv'
  BY <1>1, <1>5, CrashDesk
<1> QED BY <1>2, <1>3, <1>4, <1>5 DEF Next

\* What a commit does to the assignments in force.
LEMMA CommitRows ==
  ASSUME IInv, DeskInv, NEW c \in Calls, Commit(c)
  PROVE  /\ row[c] = None
         /\ adding[c] # None => /\ row'[c] = adding[c]
                                /\ \A r : r = adding[c].resource <=> c \in Current(r)'
         /\ \A x \in Calls : x # c /\ row'[x] # None /\ row'[x].active => x # lock[c]
         /\ \A x \in Calls : x # c /\ x # lock[c] => row'[x] = row[x]
         /\ adding[c] = None => row'[c] = None
<1>1. TypeOK /\ did[c] = "nothing" /\ DeskHolds(c)
  BY ActingCall DEF Commit, At, Acting, Onward, IInv, DeskInv
<1>2. row[c] = None /\ lock[c] # c
  BY <1>1, Names DEF DeskHolds
<1>3. \A x \in Calls : row'[x] = IF x = c /\ adding[c] # None THEN adding[c]
                                ELSE IF x = lock[c] THEN [row[x] EXCEPT !.active = FALSE]
                                ELSE row[x]
  BY DEF Commit, Written
<1>4. \A x \in Calls : x = lock[c] => ~row'[x].active
  <2> TAKE x \in Calls
  <2>1. x = lock[c] => row[x] \in Assignments /\ x # c
    BY <1>1, <1>2, Names DEF DeskHolds, TypeOK
  <2> QED BY <1>3, <2>1 DEF Assignments
<1> QED BY <1>1, <1>2, <1>3, <1>4 DEF DeskHolds, Current

\* The owners of a resource.
Owners(r) == {row[x].owner : x \in Current(r)}

LEMMA CommitIsPromised ==
  ASSUME IInv, DeskInv, NEW c \in Calls, Commit(c)
  PROVE  \E r \in Resources :
           /\ \A q \in Resources : q # r => Owners(q)' = Owners(q)
           /\ \/ Owners(r) # {} /\ Owners(r)' = {}
              \/ \E a \in Admins : Owners(r) # {a} /\ Owners(r)' = {a}
<1>1. TypeOK /\ CallHolds(c) /\ DeskHolds(c) /\ job[c] # None /\ Op(c) \in Keeping
      /\ At(c, {"commit"})
  BY ActingCall DEF Commit, At, Acting, Onward, IInv, DeskInv, CallHolds, PlaceHolds
<1>2. \A x \in Calls : x \notin {c, lock[c]} => row'[x] = row[x]
  BY CommitRows
<1>3. \A q \in Resources : /\ \A x \in Current(q) : row[x] # None /\ x # c
                           /\ \A x \in Current(q)' : x \in Calls /\ row'[x] # None /\ x # lock[c]
  <2>1. lock[c] # c
    BY <1>1, CommitRows, Names DEF DeskHolds
  <2> QED BY <2>1, CommitRows DEF Current
<1>4. \A q \in Resources : c \notin Current(q)' /\ lock[c] \notin Current(q)
                             => Owners(q)' = Owners(q)
  <2> SUFFICES ASSUME NEW q \in Resources, c \notin Current(q)', lock[c] \notin Current(q)
               PROVE  Owners(q)' = Owners(q)
    OBVIOUS
  <2>1. \A x \in Calls : x \in Current(q)' <=> x \in Current(q)
    BY <1>2, <1>3, CommitRows DEF Current
  <2>2. Current(q)' = Current(q)
    BY <2>1 DEF Current
  <2>3. \A x \in Current(q) : row'[x] = row[x]
    BY <1>2, <1>3, <2>2 DEF Current
  <2> QED BY <2>2, <2>3 DEF Owners
<1>5. CASE adding[c] = None
  <2>1. PICK x \in Calls : x = lock[c] /\ row[x] \in Assignments /\ row[x].active
    BY <1>1, <1>5 DEF DeskHolds, At, TypeOK
  <2>2. PICK r \in Resources : r = row[x].resource
    BY <2>1 DEF Assignments
  <2>3. x \in Current(r)
    BY <1>1, <2>1, <2>2, Names DEF Current, DeskHolds
  <2>4. \A y \in Current(r) : y = x
    BY <2>2, <2>3 DEF DeskInv, Apart
  <2>5. \A q \in Resources : c \notin Current(q)'
    BY <1>5, CommitRows DEF Current
  <2>6. Current(r)' = {}
    <3>1. \A y \in Current(r)' : y \in Current(r)
      BY <1>2, <1>3, <2>5 DEF Current
    <3> QED BY <1>3, <2>1, <2>4, <3>1
  <2>7. Owners(r) # {} /\ Owners(r)' = {}
    BY <2>3, <2>6 DEF Owners
  <2>8. \A q \in Resources : q # r => x \notin Current(q)
    BY <2>2 DEF Current
  <2> QED BY <1>4, <2>1, <2>5, <2>7, <2>8
<1>6. CASE adding[c] # None
  <2>1. PICK r \in Resources, a \in Admins : r = adding[c].resource /\ a = adding[c].owner
    BY <1>1, <1>6 DEF TypeOK, Assignments
  <2>2. Current(r) \subseteq {lock[c]}
    BY <1>1, <1>6, <2>1 DEF DeskHolds
  <2>3. c \in Current(r)' /\ row'[c] = adding[c]
    BY <1>6, <2>1, CommitRows
  <2>4. \A y \in Current(r)' : y = c
    <3>1. \A y \in Current(r)' : y # c => y \in Current(r)
      BY <1>2, <1>3 DEF Current
    <3> QED BY <1>3, <2>2, <3>1
  <2>5. Owners(r)' = {a}
    BY <2>1, <2>3, <2>4 DEF Owners
  <2>6. Owners(r) # {a}
    <3>1. \A y \in Current(r) : row[y].owner # a
      <4> SUFFICES ASSUME NEW y \in Current(r) PROVE row[y].owner # a
        OBVIOUS
      <4>1. y = lock[c] /\ lock[c] # None
        BY <1>1, <2>2, Names DEF Current
      <4>2. Op(c) = "reassign"
        BY <1>1, <1>6, <4>1 DEF DeskHolds, CallHolds, TargetHolds
      <4> QED BY <1>1, <1>6, <2>1, <4>1, <4>2 DEF DeskHolds
    <3> QED BY <3>1 DEF Owners
  <2>7. \A q \in Resources : q # r => c \notin Current(q)'
    BY <1>6, <2>1, CommitRows
  <2>8. \A q \in Resources : q # r => lock[c] \notin Current(q)
    <3> SUFFICES ASSUME NEW q \in Resources, lock[c] \in Current(q) PROVE q = r
      OBVIOUS
    <3>1. lock[c] \in Calls /\ lock[c] # None /\ row[lock[c]].resource = q
      BY Names DEF Current
    <3>2. Op(c) = "reassign" /\ lock[c] = job[c].on
      BY <1>1, <1>6, <3>1 DEF DeskHolds, CallHolds, TargetHolds
    <3> QED BY <1>1, <1>6, <2>1, <3>1, <3>2 DEF DeskHolds, Resource
  <2> QED BY <1>4, <2>1, <2>5, <2>6, <2>7, <2>8
<1> QED BY <1>5, <1>6

LEMMA RosterSteps ==
  ASSUME IInv, DeskInv, [Next]_vars
  PROVE  [Roster!Next]_([r \in Resources |-> Owners(r)])
<1> DEFINE O == [r \in Resources |-> Owners(r)]
<1>1. CASE row' = row
  BY <1>1 DEF Owners, Current
<1>2. ASSUME NEW c \in Calls, Commit(c)
      PROVE  Roster!Next
  <2>1. PICK r \in Resources :
           /\ \A q \in Resources : q # r => Owners(q)' = Owners(q)
           /\ \/ Owners(r) # {} /\ Owners(r)' = {}
              \/ \E a \in Admins : Owners(r) # {a} /\ Owners(r)' = {a}
    BY <1>2, CommitIsPromised
  <2>2. O' = [O EXCEPT ![r] = Owners(r)']
    BY <2>1
  <2>3. CASE Owners(r) # {} /\ Owners(r)' = {}
    <3>1. Roster!Leave(r)
      BY <2>2, <2>3 DEF Roster!Leave, Owners
    <3> QED BY <3>1 DEF Roster!Next
  <2>4. ASSUME NEW a \in Admins, Owners(r) # {a}, Owners(r)' = {a}
        PROVE  Roster!Take(r, a) \/ Roster!HandOver(r, a)
    BY <2>2, <2>4 DEF Roster!Take, Roster!HandOver, Owners
  <2> QED BY <2>1, <2>3, <2>4 DEF Roster!Next
<1>3. row' # row => \E c \in Calls : Commit(c)
  BY DEF Next, Step, vars, desk, Arrive, Follow, Find, Purge, Poll, Create, TxFind, Look,
     TakeForClaim, TakeToClose, Insert, Store, Unpend, Read, Abort, Write, ActionFails,
     KeyStatementFails, Lapse, Crash
<1> QED BY <1>1, <1>2, <1>3

\* The assignments keep the promise of DutyRoster.
THEOREM RosterIsKept == Spec => KeepsRoster
<1> DEFINE O == [r \in Resources |-> {row[x].owner : x \in Current(r)}]
<1>1. Init => DeskInv /\ Roster!Init
  <2> SUFFICES ASSUME Init PROVE DeskInv /\ Roster!Init
    OBVIOUS
  <2>1. \A r : Current(r) = {}
    BY DEF Init, Current
  <2>2. DeskInv
    BY <2>1, InitHolds DEF Init, DeskInv, DeskHolds, Apart, At, Ended, IInv, TypeOK
  <2>3. Roster!Init
    BY <2>1 DEF Roster!Init
  <2> QED BY <2>2, <2>3
<1>2. IInv /\ DeskInv /\ [Next]_vars => DeskInv'
  BY DeskHeld
<1>3. ASSUME IInv, DeskInv, [Next]_vars
      PROVE  [Roster!Next]_O
  BY <1>3, RosterSteps DEF Owners
<1> QED BY Invariance, <1>1, <1>2, <1>3, PTL DEF Spec, KeepsRoster, Roster!Spec
=============================================================================
