-------------------------- MODULE IdempotencyProofs --------------------------
(***************************************************************************)
(* The idempotency protocol is correct for every set of calls, keys and    *)
(* requests, every retention and every interleaving, crashes and lost      *)
(* acknowledgements included.                                              *)
(***************************************************************************)
EXTENDS Idempotency, TLAPS

-------------------------------------------------------------------------------
(* The inductive invariant.                                                *)

\* A row describes the call that inserted it, which is past its claim, and a
\* completed row holds an effect that was committed.
RowsDescribeOwners ==
    \A k \in Keys :
        rows[k] # NoRow =>
            LET o == rows[k].owner IN
            /\ call[o].key = k
            /\ rows[k].hash = call[o].request
            /\ rows[k].expiresAt = call[o].at + TTL
            /\ pc[o] \in {"transaction", "fail", "done", "crashed"}
            /\ rows[k].status = "completed"
                  => Applied(o) /\ rows[k].entity = o

\* No call takes effect before its transaction.
EffectsComeFromTransactions ==
    \A c \in Calls :
        pc[c] \in {"idle", "deleteExpired", "insert", "readExisting",
                   "transaction"}
            => ~Applied(c)

NoCallFromTheFuture == \A c \in Calls : call[c].at <= now

\* Only a finished call has been told anything.
AnswersEndCalls == \A c \in Calls : pc[c] # "done" => answer[c] = Unanswered

IInv ==
    /\ TypeOK
    /\ AnswersEndCalls
    /\ RowsDescribeOwners
    /\ EffectsComeFromTransactions
    /\ NoCallFromTheFuture
    /\ EffectKeepsItsKey
    /\ EffectsAreSeparated
    /\ ReplayIsSound

\* What settling a row changes, and what it leaves alone.
LEMMA SettledRow ==
    ASSUME NEW row \in Row, NEW status \in Statuses, NEW e \in Calls \cup {NoCall}
    PROVE  /\ Settled(row, status, e) \in Row
           /\ Settled(row, status, e).owner = row.owner
           /\ Settled(row, status, e).hash = row.hash
           /\ Settled(row, status, e).expiresAt = row.expiresAt
           /\ Settled(row, status, e).status = status
           /\ Settled(row, status, e).entity = e
  BY DEF Settled, Row

-------------------------------------------------------------------------------
(* Types.                                                                  *)

\* The variables keep their types.
THEOREM TypeCorrect == Spec => []TypeOK
<1> USE TimeAssumption, NullAssumption
<1>1. Init => TypeOK
  BY DEF Init, TypeOK, Row, Statuses, Steps, Unanswered, Answers
<1>2. TypeOK /\ [Next]_vars => TypeOK'
  <2> SUFFICES ASSUME TypeOK, [Next]_vars PROVE TypeOK'
    OBVIOUS
  <2> USE DEF TypeOK, Go, Key, Steps
  <2>1. CASE Tick
    BY <2>1 DEF Tick
  <2>2. ASSUME NEW c \in Calls, Start(c) PROVE TypeOK'
    BY <2>2 DEF Start
  <2>3. ASSUME NEW c \in Calls, DeleteExpired(c) PROVE TypeOK'
    BY <2>3 DEF DeleteExpired
  <2>4. ASSUME NEW c \in Calls, InsertClaims(c) PROVE TypeOK'
    <3>1. NewRow(c) \in Row
      BY DEF NewRow, Row, Statuses
    <3> QED
      BY <2>4, <3>1 DEF InsertClaims
  <2>5. ASSUME NEW c \in Calls, InsertConflicts(c) PROVE TypeOK'
    BY <2>5 DEF InsertConflicts
  <2>6. ASSUME NEW c \in Calls, ReadExisting(c) PROVE TypeOK'
    <3>1. Refused \in Answers
      BY DEF Refused, Answers
    <3>2. ASSUME rows[Key(c)] # NoRow
          PROVE  Result(rows[Key(c)].entity) \in Answers
      BY <3>2 DEF Result, Answers, Row
    <3> QED
      BY <2>6, <3>1, <3>2 DEF ReadExisting, Reply
  <2>7. ASSUME NEW c \in Calls, Commit(c) PROVE TypeOK'
    <3>1. Result(c) \in Answers
      BY DEF Result, Answers
    <3>2. rows' \in [Keys -> Row \cup {NoRow}]
      <4>1. Settled(rows[Key(c)], "completed", c) \in Row
        BY <2>7, SettledRow DEF Commit, HoldsRow, Statuses
      <4> QED
        BY <2>7, <4>1 DEF Commit
    <3> QED
      BY <2>7, <3>1, <3>2 DEF Commit, Reply
  <2>8. ASSUME NEW c \in Calls, RollBack(c) PROVE TypeOK'
    BY <2>8 DEF RollBack
  <2>9. ASSUME NEW c \in Calls, Fail(c) PROVE TypeOK'
    <3>1. Refused \in Answers
      BY DEF Refused, Answers
    <3>2. rows' \in [Keys -> Row \cup {NoRow}]
      <4>1. HoldsRow(c) => Settled(rows[Key(c)], "failed", NoCall) \in Row
        BY SettledRow DEF HoldsRow, Statuses
      <4> QED
        BY <2>9, <4>1 DEF Fail
    <3> QED
      BY <2>9, <3>1, <3>2 DEF Fail, Reply
  <2>10. ASSUME NEW c \in Calls, Crash(c) PROVE TypeOK'
    BY <2>10 DEF Crash
  <2>11. CASE UNCHANGED vars
    BY <2>11 DEF vars
  <2> QED
    BY <2>1, <2>2, <2>3, <2>4, <2>5, <2>6, <2>7, <2>8, <2>9, <2>10, <2>11
    DEF Next, CallStep
<1> QED
  BY <1>1, <1>2, PTL DEF Spec

-------------------------------------------------------------------------------
(* Safety.                                                                 *)

\* The invariant holds before any call.
LEMMA InitIInv == Init => IInv
<1> SUFFICES ASSUME Init PROVE IInv
  OBVIOUS
<1> USE TimeAssumption, NullAssumption DEF Init
<1>1. TypeOK
  BY DEF TypeOK, Row, Statuses, Steps, Unanswered, Answers
<1>2. RowsDescribeOwners
  BY DEF RowsDescribeOwners
<1>3. EffectsComeFromTransactions
  BY DEF EffectsComeFromTransactions, Applied
<1>4. NoCallFromTheFuture
  <2>1. ASSUME NEW c \in Calls PROVE call[c].at <= now
    <3>1. call[c] \in [key : Keys, request : Requests, at : {0}]
      OBVIOUS
    <3>2. call[c].at = 0 /\ now = 0
      BY <3>1
    <3> QED
      BY <3>2
  <2> QED
    BY <2>1 DEF NoCallFromTheFuture
<1>5. EffectKeepsItsKey /\ EffectsAreSeparated /\ AnswersEndCalls
  BY DEF EffectKeepsItsKey, EffectsAreSeparated, AnswersEndCalls, Applied
<1>6. ReplayIsSound
  BY DEF ReplayIsSound, Unanswered
<1> QED
  BY <1>1, <1>2, <1>3, <1>4, <1>5, <1>6 DEF IInv

\* Every statement of every call keeps the invariant.
LEMMA StepIInv == TypeOK' /\ IInv /\ [Next]_vars => IInv'
<1> SUFFICES ASSUME TypeOK', IInv, [Next]_vars PROVE IInv'
  OBVIOUS
<1> USE TimeAssumption, NullAssumption
    DEF IInv, TypeOK, Key, Go, Steps, Applied
<1>0. AnswersEndCalls'
  BY DEF AnswersEndCalls, Next, CallStep, Tick, Start, DeleteExpired,
    InsertClaims, InsertConflicts, ReadExisting, Commit, RollBack, Fail, Crash,
    Reply, vars
<1>1. CASE Tick
  <2> USE <1>1 DEF Tick
  <2>1. RowsDescribeOwners' /\ EffectsComeFromTransactions' /\ ReplayIsSound'
    BY DEF RowsDescribeOwners, EffectsComeFromTransactions, ReplayIsSound
  <2>2. NoCallFromTheFuture'
    BY DEF NoCallFromTheFuture
  <2>3. EffectKeepsItsKey' /\ EffectsAreSeparated'
    BY DEF EffectKeepsItsKey, EffectsAreSeparated
  <2> QED
    BY <1>0, <2>1, <2>2, <2>3
<1>2. ASSUME NEW c \in Calls, Start(c) PROVE IInv'
  <2> USE <1>2 DEF Start
  <2>0. /\ ~Applied(c)
        /\ \A d \in Calls : d # c => call'[d] = call[d]
        /\ call'[c].key = call[c].key /\ call'[c].request = call[c].request
        /\ call'[c].at = now
    BY DEF EffectsComeFromTransactions
  <2>1. RowsDescribeOwners'
    BY <2>0 DEF RowsDescribeOwners, Row
  <2>2. EffectsComeFromTransactions'
    BY <2>0 DEF EffectsComeFromTransactions
  <2>3. NoCallFromTheFuture'
    BY <2>0 DEF NoCallFromTheFuture
  <2>4. EffectKeepsItsKey' /\ EffectsAreSeparated'
    BY <2>0 DEF EffectKeepsItsKey, EffectsAreSeparated
  <2>5. ReplayIsSound'
    BY <2>0 DEF ReplayIsSound
  <2> QED
    BY <1>0, <2>1, <2>2, <2>3, <2>4, <2>5
<1>3. ASSUME NEW c \in Calls, DeleteExpired(c) PROVE IInv'
  <2> USE <1>3 DEF DeleteExpired
  <2>1. RowsDescribeOwners'
    BY DEF RowsDescribeOwners, Row
  <2>2. EffectsComeFromTransactions' /\ NoCallFromTheFuture'
    BY DEF EffectsComeFromTransactions, NoCallFromTheFuture
  <2>3. EffectKeepsItsKey'
    BY DEF EffectKeepsItsKey, RowsDescribeOwners, NoCallFromTheFuture,
           Expired, Row
  <2>4. EffectsAreSeparated' /\ ReplayIsSound'
    BY DEF EffectsAreSeparated, ReplayIsSound
  <2> QED
    BY <1>0, <2>1, <2>2, <2>3, <2>4
<1>4. ASSUME NEW c \in Calls, InsertClaims(c) PROVE IInv'
  <2> USE <1>4 DEF InsertClaims
  <2>1. RowsDescribeOwners'
    BY DEF RowsDescribeOwners, NewRow, Row
  <2>2. EffectsComeFromTransactions' /\ NoCallFromTheFuture'
    BY DEF EffectsComeFromTransactions, NoCallFromTheFuture
  <2>3. EffectKeepsItsKey'
    BY DEF EffectKeepsItsKey
  <2>4. EffectsAreSeparated' /\ ReplayIsSound'
    BY DEF EffectsAreSeparated, ReplayIsSound
  <2> QED
    BY <1>0, <2>1, <2>2, <2>3, <2>4
<1>5. ASSUME NEW c \in Calls, InsertConflicts(c) PROVE IInv'
  BY <1>0, <1>5 DEF InsertConflicts, RowsDescribeOwners, EffectsComeFromTransactions,
    NoCallFromTheFuture, EffectKeepsItsKey, EffectsAreSeparated, ReplayIsSound,
    Row
<1>6. ASSUME NEW c \in Calls, ReadExisting(c) PROVE IInv'
  <2>0. /\ pc[c] = "readExisting" /\ pc' = [pc EXCEPT ![c] = "done"]
        /\ UNCHANGED <<now, call, rows, appliedAt, lost>>
    BY <1>6 DEF ReadExisting, Reply
  <2>1. RowsDescribeOwners' /\ EffectsComeFromTransactions'
    BY <2>0 DEF RowsDescribeOwners, EffectsComeFromTransactions, Row
  <2> USE <1>6 DEF ReadExisting, Reply
  <2>2. NoCallFromTheFuture' /\ EffectKeepsItsKey' /\ EffectsAreSeparated'
    BY DEF NoCallFromTheFuture, EffectKeepsItsKey, EffectsAreSeparated
  <2>3. ReplayIsSound'
    BY DEF ReplayIsSound, RowsDescribeOwners, SameRequest, Result, Refused, Row
  <2> QED
    BY <1>0, <2>1, <2>2, <2>3
<1>7. ASSUME NEW c \in Calls, Commit(c) PROVE IInv'
  <2> USE <1>7 DEF Commit, Reply, HoldsRow
  <2>0. /\ ~Applied(c)
        /\ Applied(c)' /\ appliedAt'[c] = now
        /\ \A d \in Calls : d # c => appliedAt'[d] = appliedAt[d]
        /\ \A k \in Keys : k # call[c].key => rows'[k] = rows[k]
        /\ rows'[call[c].key] = Settled(rows[call[c].key], "completed", c)
        /\ rows[call[c].key] \in Row
        /\ rows[call[c].key].owner = c
        /\ pc'[c] \in {"fail", "done"}
        /\ \A d \in Calls : d # c => pc'[d] = pc[d]
    BY DEF EffectsComeFromTransactions
  <2>a. /\ rows'[call[c].key] \in Row
        /\ rows'[call[c].key].owner = c
        /\ rows'[call[c].key].hash = rows[call[c].key].hash
        /\ rows'[call[c].key].expiresAt = rows[call[c].key].expiresAt
        /\ rows'[call[c].key].status = "completed"
        /\ rows'[call[c].key].entity = c
    <3>1. "completed" \in Statuses
      BY DEF Statuses
    <3> QED
      BY <2>0, <3>1, SettledRow
  <2>1. RowsDescribeOwners'
    BY <2>0, <2>a DEF RowsDescribeOwners, Row
  <2>2. EffectsComeFromTransactions' /\ NoCallFromTheFuture'
    BY <2>0 DEF EffectsComeFromTransactions, NoCallFromTheFuture
  <2>3. EffectKeepsItsKey'
    BY <2>0, <2>a DEF EffectKeepsItsKey
  <2>4. EffectsAreSeparated'
    <3>1. \A d \in Calls : (d # c /\ Key(d) = Key(c) /\ Applied(d))
                             => now > call[d].at + TTL
      BY DEF EffectKeepsItsKey
    <3> QED
      BY <2>0, <3>1 DEF EffectsAreSeparated
  <2>5. ReplayIsSound'
    BY <2>0 DEF ReplayIsSound, Result
  <2> QED
    BY <1>0, <2>1, <2>2, <2>3, <2>4, <2>5
<1>8. ASSUME NEW c \in Calls, RollBack(c) PROVE IInv'
  BY <1>0, <1>8 DEF RollBack, RowsDescribeOwners, EffectsComeFromTransactions,
    NoCallFromTheFuture, EffectKeepsItsKey, EffectsAreSeparated, ReplayIsSound,
    Row
<1>9. ASSUME NEW c \in Calls, Fail(c) PROVE IInv'
  <2> USE <1>9 DEF Fail, Reply
  <2>0. \A k \in Keys :
          /\ rows[k] = NoRow <=> rows'[k] = NoRow
          /\ rows[k] # NoRow =>
                /\ rows'[k].owner = rows[k].owner
                /\ rows'[k].hash = rows[k].hash
                /\ rows'[k].expiresAt = rows[k].expiresAt
                /\ \/ rows'[k] = rows[k]
                   \/ rows'[k].status = "failed"
    <3>1. CASE HoldsRow(c)
      <4>1. /\ \A k \in Keys : k # call[c].key => rows'[k] = rows[k]
            /\ rows'[call[c].key] = Settled(rows[call[c].key], "failed", NoCall)
            /\ rows[call[c].key] \in Row
        BY <3>1 DEF HoldsRow
      <4>2. "failed" \in Statuses
        BY DEF Statuses
      <4>3. /\ rows'[call[c].key] \in Row
            /\ rows'[call[c].key].owner = rows[call[c].key].owner
            /\ rows'[call[c].key].hash = rows[call[c].key].hash
            /\ rows'[call[c].key].expiresAt = rows[call[c].key].expiresAt
            /\ rows'[call[c].key].status = "failed"
        BY <4>1, <4>2, SettledRow
      <4> QED
        BY <3>1, <4>1, <4>3 DEF HoldsRow
    <3> QED
      BY <3>1
  <2>1. RowsDescribeOwners'
    BY <2>0 DEF RowsDescribeOwners, Row
  <2>2. EffectsComeFromTransactions' /\ NoCallFromTheFuture'
    BY DEF EffectsComeFromTransactions, NoCallFromTheFuture
  <2>3. EffectKeepsItsKey'
    BY <2>0 DEF EffectKeepsItsKey
  <2>4. EffectsAreSeparated' /\ ReplayIsSound'
    BY DEF EffectsAreSeparated, ReplayIsSound, Refused
  <2> QED
    BY <1>0, <2>1, <2>2, <2>3, <2>4
<1>10. ASSUME NEW c \in Calls, Crash(c) PROVE IInv'
  BY <1>0, <1>10 DEF Crash, RowsDescribeOwners, EffectsComeFromTransactions,
    NoCallFromTheFuture, EffectKeepsItsKey, EffectsAreSeparated, ReplayIsSound,
    Row
<1>11. CASE UNCHANGED vars
  BY <1>0, <1>11 DEF vars, RowsDescribeOwners, EffectsComeFromTransactions,
    NoCallFromTheFuture, EffectKeepsItsKey, EffectsAreSeparated, ReplayIsSound
<1> QED
  BY <1>1, <1>2, <1>3, <1>4, <1>5, <1>6, <1>7, <1>8, <1>9, <1>10, <1>11
  DEF Next, CallStep

\* The invariant holds in every state.
LEMMA Invariance == Spec => []IInv
<1>1. Spec => []TypeOK
  BY TypeCorrect
<1> QED
  BY <1>1, InitIInv, StepIInv, PTL DEF Spec

\* At most one effect per key and retention window.
THEOREM EffectsSeparated == Spec => []EffectsAreSeparated
<1>1. IInv => EffectsAreSeparated
  BY DEF IInv
<1> QED
  BY <1>1, Invariance, PTL

\* A live key is never taken over from the call whose effect it stands for.
THEOREM EffectsKeepTheirKeys == Spec => []EffectKeepsItsKey
<1>1. IInv => EffectKeepsItsKey
  BY DEF IInv
<1> QED
  BY <1>1, Invariance, PTL

\* A replayed result is the committed effect of the same request and key.
THEOREM ReplaysAreSound == Spec => []ReplayIsSound
<1>1. IInv => ReplayIsSound
  BY DEF IInv
<1> QED
  BY <1>1, Invariance, PTL

-------------------------------------------------------------------------------
(* Successes.                                                              *)

\* A call on its way to fail has no effect, unless it lost the acknowledgement
\* of its COMMIT; the owner of a failed row is over, and was told of the error.
FailuresAreFinal ==
    /\ \A c \in Calls : pc[c] = "fail" => c \in lost \/ ~Applied(c)
    /\ \A k \in Keys :
         (rows[k] # NoRow /\ rows[k].status = "failed")
            => /\ answer[rows[k].owner].kind # "result"
               /\ pc[rows[k].owner] \in {"done", "crashed"}
               /\ rows[k].owner \in lost \/ ~Applied(rows[k].owner)

\* Only the owner of a row makes it a failed one, and it is then refused.
LEMMA StepFinal ==
    ASSUME IInv, FailuresAreFinal, [Next]_vars
    PROVE  FailuresAreFinal'
<1> USE TimeAssumption, NullAssumption
    DEF IInv, TypeOK, Key, Go, Steps, Applied, FailuresAreFinal
<1>1. CASE Tick \/ UNCHANGED vars
  BY <1>1 DEF Tick, vars
<1>2. ASSUME NEW c \in Calls, Start(c) \/ InsertConflicts(c) \/ Crash(c)
      PROVE  FailuresAreFinal'
  BY <1>2 DEF Start, InsertConflicts, Crash, Row
<1>3. ASSUME NEW c \in Calls, ReadExisting(c) PROVE FailuresAreFinal'
  <2>1. /\ pc[c] = "readExisting" /\ pc' = [pc EXCEPT ![c] = "done"]
        /\ UNCHANGED <<rows, appliedAt, lost>>
        /\ \E a : answer' = [answer EXCEPT ![c] = a]
    BY <1>3 DEF ReadExisting, Reply
  <2>2. \A k \in Keys : rows[k] # NoRow => rows[k].owner # c
    BY <2>1 DEF RowsDescribeOwners
  <2> QED
    BY <2>1, <2>2 DEF Row
<1>4. ASSUME NEW c \in Calls, DeleteExpired(c) PROVE FailuresAreFinal'
  BY <1>4 DEF DeleteExpired, Row
<1>5. ASSUME NEW c \in Calls, InsertClaims(c) PROVE FailuresAreFinal'
  BY <1>5 DEF InsertClaims, NewRow, Row
<1>6. ASSUME NEW c \in Calls, Commit(c) PROVE FailuresAreFinal'
  <2>1. /\ call[c].key \in Keys /\ rows[call[c].key] \in Row
        /\ rows[call[c].key].owner = c
        /\ rows' = [rows EXCEPT ![call[c].key] = Settled(@, "completed", c)]
        /\ appliedAt' = [appliedAt EXCEPT ![c] = now]
        /\ \/ pc' = [pc EXCEPT ![c] = "done"] /\ lost' = lost
           \/ pc' = [pc EXCEPT ![c] = "fail"] /\ lost' = lost \cup {c}
        /\ answer' = answer \/ answer' = [answer EXCEPT ![c] = Result(c)]
    BY <1>6 DEF Commit, HoldsRow, Reply
  <2>2. "completed" \in Statuses
    BY DEF Statuses
  <2>3. rows'[call[c].key].status = "completed"
    BY <2>1, <2>2, SettledRow
  <2>4. \A k \in Keys : (rows[k] # NoRow /\ k # call[c].key)
                           => rows'[k] = rows[k] /\ rows[k].owner # c
    BY <2>1 DEF RowsDescribeOwners
  <2>5. \A d \in Calls : pc'[d] = "fail" => d \in lost' \/ appliedAt'[d] = Never
    BY <2>1
  <2>6. \A k \in Keys :
          (rows'[k] # NoRow /\ rows'[k].status = "failed")
             => k # call[c].key /\ rows'[k] = rows[k] /\ rows[k].owner # c
    BY <2>1, <2>3, <2>4
  <2> QED
    BY <2>1, <2>5, <2>6 DEF Row
<1>7. ASSUME NEW c \in Calls, RollBack(c) PROVE FailuresAreFinal'
  BY <1>7 DEF RollBack, EffectsComeFromTransactions, Row
<1>8. ASSUME NEW c \in Calls, Fail(c) PROVE FailuresAreFinal'
  <2>1. /\ pc' = [pc EXCEPT ![c] = "done"]
        /\ answer' = [answer EXCEPT ![c] = Refused]
        /\ UNCHANGED <<appliedAt, lost>>
        /\ c \in lost \/ ~Applied(c)
    BY <1>8 DEF Fail, Reply
  <2>2. CASE HoldsRow(c)
    <3>1. /\ rows[call[c].key] \in Row /\ rows[call[c].key].owner = c
          /\ rows' = [rows EXCEPT
                        ![call[c].key] = Settled(@, "failed", NoCall)]
      BY <1>8, <2>2 DEF Fail, HoldsRow
    <3>2. "failed" \in Statuses
      BY DEF Statuses
    <3>3. rows'[call[c].key].owner = c
      BY <3>1, <3>2, SettledRow
    <3>4. \A k \in Keys : k # call[c].key => rows'[k] = rows[k]
      BY <3>1
    <3> QED
      BY <2>1, <3>3, <3>4 DEF Row, Refused
  <2>3. CASE ~HoldsRow(c)
    BY <1>8, <2>1, <2>3 DEF Fail, Row, Refused
  <2> QED
    BY <2>2, <2>3
<1> QED
  BY <1>1, <1>2, <1>3, <1>4, <1>5, <1>6, <1>7, <1>8 DEF Next, CallStep

\* Whoever was told of a success was told of one its key still stands for,
\* unless the call that made it lost the acknowledgement of its own COMMIT.
THEOREM SuccessesAreKept == Spec => []SuccessIsNotRevoked
<1>1. Init => FailuresAreFinal
  BY DEF Init, FailuresAreFinal
<1>2. IInv /\ FailuresAreFinal => SuccessIsNotRevoked
  <2> SUFFICES ASSUME IInv, FailuresAreFinal,
                      NEW k \in Keys, rows[k] # NoRow, rows[k].status = "failed",
                      rows[k].owner \notin lost,
                      NEW c \in Calls, answer[c] = Result(rows[k].owner)
               PROVE  FALSE
    BY DEF FailuresAreFinal, SuccessIsNotRevoked
  <2>1. ~Applied(rows[k].owner)
    BY DEF FailuresAreFinal
  <2>2. answer[c].kind = "result" /\ answer[c].entity = rows[k].owner
    BY DEF Result
  <2> QED
    BY <2>1, <2>2 DEF IInv, ReplayIsSound
<1> QED
  BY <1>1, <1>2, StepFinal, Invariance, PTL DEF Spec

\* Where a COMMIT that succeeds always says so, nothing is lost, and a key
\* marked failed stands for a mutation that left nothing behind.
THEOREM FailedKeysHaveNoEffect ==
    ASSUME ~AckMayBeLost
    PROVE  Spec => [](\A k \in Keys : (rows[k] # NoRow /\ rows[k].status = "failed")
                                         => ~Applied(rows[k].owner))
<1> DEFINE NoneLost == lost = {}
<1>1. Init => NoneLost
  BY DEF Init
<1>2. NoneLost /\ [Next]_vars => NoneLost'
  BY DEF Next, CallStep, Tick, Start, DeleteExpired, InsertClaims,
    InsertConflicts, ReadExisting, Commit, RollBack, Fail, Crash, vars
<1>3. NoneLost /\ SuccessIsNotRevoked
        => \A k \in Keys : (rows[k] # NoRow /\ rows[k].status = "failed")
                               => ~Applied(rows[k].owner)
  BY DEF SuccessIsNotRevoked
<1> QED
  BY <1>1, <1>2, <1>3, SuccessesAreKept, PTL DEF Spec

-------------------------------------------------------------------------------
(* Refinement.                                                             *)

\* The effect each key stands for, as KeepsPromise reads it off the rows.
Current == [k \in Keys |-> IF rows[k] # NoRow /\ Applied(rows[k].owner)
                             THEN rows[k].owner ELSE NoCall]

\* The empty table is the promise with no effects.
LEMMA InitRefines == Init => Promise!Init
  BY DEF Init, Promise!Init, Unanswered, Promise!Unanswered

\* Every statement is a step of the promise or leaves it alone.
LEMMA StepRefines ==
    IInv /\ TypeOK' /\ [Next]_vars => [Promise!Next]_(Promise!vars)
<1> SUFFICES ASSUME IInv, TypeOK', [Next]_vars
             PROVE  Promise!Next \/ UNCHANGED Promise!vars
  OBVIOUS
<1> USE TimeAssumption, NullAssumption DEF Key, Go, Applied
<1>0. /\ TypeOK
      /\ \A c \in Calls : pc[c] # "done" => Promise!Open(c)
  BY DEF IInv, AnswersEndCalls, Promise!Open, Promise!Unanswered, Unanswered
<1>1. CASE Tick
  BY <1>1 DEF Tick, Promise!Next, Promise!Tick
<1>2. ASSUME NEW c \in Calls, Start(c) PROVE Promise!Start(c)
  BY <1>0, <1>2 DEF Start, IInv, EffectsComeFromTransactions, Promise!Start
<1>3. ASSUME NEW c \in Calls, DeleteExpired(c)
      PROVE  (\E k \in Keys : Promise!Forget(k)) \/ UNCHANGED Promise!vars
  <2> DEFINE k == Key(c)
  <2>1. k \in Keys
    BY <1>0 DEF TypeOK
  <2>2. CASE UNCHANGED rows
    BY <1>3, <2>2 DEF DeleteExpired, Promise!vars
  <2>3. CASE /\ rows[k] # NoRow /\ Expired(rows[k], call[c].at)
             /\ rows' = [rows EXCEPT ![k] = NoRow]
    <3>1. /\ Current' = [Current EXCEPT ![k] = NoCall]
          /\ UNCHANGED <<now, call, appliedAt, answer>>
      BY <1>0, <1>3, <2>1, <2>3 DEF DeleteExpired, Current, TypeOK
    <3>2. CASE ~Applied(rows[k].owner)
      <4>1. Current[k] = NoCall
        BY <2>1, <3>2 DEF Current
      <4>2. Current' = Current
        BY <3>1, <4>1, <2>1 DEF Current
      <4> QED
        BY <3>1, <4>2 DEF Promise!vars, Current
    <3>3. CASE Applied(rows[k].owner)
      <4>1. rows[k] \in Row /\ Current[k] = rows[k].owner
        BY <1>0, <2>1, <2>3, <3>3 DEF Current, TypeOK
      <4>2. Current[k] \in Calls
        BY <4>1 DEF Row
      <4>3. rows[k].expiresAt = call[Current[k]].at + TTL
        BY <4>1, <2>1, <2>3 DEF IInv, RowsDescribeOwners
      <4>4. now > call[Current[k]].at + TTL
        <5>1. call[c].at <= now /\ call[c].at \in Nat /\ now \in Nat
          BY <1>0 DEF IInv, NoCallFromTheFuture, TypeOK
        <5>2. call[Current[k]].at \in Nat
          BY <1>0, <4>2 DEF TypeOK
        <5> QED
          BY <2>3, <4>3, <5>1, <5>2 DEF Expired
      <4>5. Promise!Forget(k)
        BY <3>1, <4>2, <4>4 DEF Promise!Forget, Current
      <4> QED
        BY <2>1, <4>5, Zenon DEF Promise!Forget
    <3> QED
      BY <3>2, <3>3
  <2> QED
    BY <1>3, <2>2, <2>3 DEF DeleteExpired
<1>4. ASSUME NEW c \in Calls, InsertClaims(c) PROVE UNCHANGED Promise!vars
  <2>1. /\ Key(c) \in Keys /\ rows[Key(c)] = NoRow
        /\ rows' = [rows EXCEPT ![Key(c)] = NewRow(c)]
        /\ UNCHANGED <<now, call, appliedAt, answer>>
    BY <1>0, <1>4 DEF InsertClaims, TypeOK
  <2>2. NewRow(c).owner = c /\ ~Applied(c)
    BY <1>4 DEF NewRow, InsertClaims, IInv, EffectsComeFromTransactions
  <2>3. Current' = Current
    BY <1>0, <2>1, <2>2 DEF Current, TypeOK
  <2> QED
    BY <2>1, <2>3 DEF Promise!vars, Current
<1>5. ASSUME NEW c \in Calls, InsertConflicts(c) PROVE UNCHANGED Promise!vars
  BY <1>5 DEF InsertConflicts, Promise!vars
<1>6. ASSUME NEW c \in Calls, ReadExisting(c)
      PROVE  Promise!Replay(c) \/ Promise!Refuse(c)
  <2> DEFINE row == rows[Key(c)]
  <2>1. /\ Key(c) \in Keys /\ Promise!Open(c)
        /\ UNCHANGED <<now, call, rows, appliedAt>>
    BY <1>0, <1>6 DEF ReadExisting, TypeOK
  <2>2. CASE answer' = [answer EXCEPT ![c] = Refused]
    BY <2>1, <2>2 DEF Promise!Refuse, Promise!Refused, Refused, Current
  <2>3. CASE /\ row # NoRow /\ SameRequest(c, row) /\ row.status = "completed"
             /\ answer' = [answer EXCEPT ![c] = Result(row.entity)]
    <3>1. /\ row \in Row /\ row.owner \in Calls
          /\ Applied(row.owner) /\ row.entity = row.owner
          /\ row.hash = call[row.owner].request
      BY <1>0, <2>1, <2>3 DEF TypeOK, IInv, RowsDescribeOwners, Row
    <3>2. Current[Key(c)] = row.owner
      BY <2>1, <2>3, <3>1 DEF Current
    <3> QED
      BY <2>1, <2>3, <3>1, <3>2
      DEF Promise!Replay, Promise!Result, Result, SameRequest, Current
  <2> QED
    BY <1>6, <2>2, <2>3 DEF ReadExisting, Reply
<1>7. ASSUME NEW c \in Calls, Commit(c) PROVE Promise!Apply(c)
  <2> DEFINE k == Key(c)
  <2>1. /\ k \in Keys /\ rows[k] \in Row /\ rows[k].owner = c /\ ~Applied(c)
        /\ rows' = [rows EXCEPT ![k] = Settled(@, "completed", c)]
        /\ appliedAt' = [appliedAt EXCEPT ![c] = now]
        /\ UNCHANGED <<now, call>>
    BY <1>0, <1>7
    DEF Commit, HoldsRow, TypeOK, IInv, EffectsComeFromTransactions
  <2>2. Current[k] = NoCall
    BY <2>1 DEF Current
  <2>3. Settled(rows[k], "completed", c).owner = c
        /\ Settled(rows[k], "completed", c) # NoRow
    <3>1. "completed" \in Statuses
      BY DEF Statuses
    <3>2. Settled(rows[k], "completed", c) \in Row
      BY <2>1, <3>1, SettledRow
    <3>3. Settled(rows[k], "completed", c).owner = c
      BY <2>1, <3>1, SettledRow
    <3> QED
      BY <3>2, <3>3
  <2>4. Current' = [Current EXCEPT ![k] = c]
    <3>1. appliedAt'[c] # Never
      BY <1>0, <2>1 DEF TypeOK
    <3>2. rows'[k] # NoRow /\ rows'[k].owner = c
      BY <1>0, <2>1, <2>3 DEF TypeOK
    <3>3. ASSUME NEW j \in Keys, j # k PROVE Current'[j] = Current[j]
      <4>1. rows'[j] = rows[j]
        BY <1>0, <2>1, <3>3 DEF TypeOK
      <4>2. ASSUME rows[j] # NoRow
            PROVE  rows[j].owner # c /\ appliedAt'[rows[j].owner] = appliedAt[rows[j].owner]
        <5>1. rows[j].owner \in Calls /\ call[rows[j].owner].key = j
          BY <1>0, <4>2 DEF TypeOK, Row, IInv, RowsDescribeOwners
        <5> QED
          BY <1>0, <2>1, <3>3, <5>1 DEF TypeOK
      <4> QED
        BY <4>1, <4>2 DEF Current
    <3>4. Current'[k] = c
      BY <2>1, <3>1, <3>2 DEF Current
    <3>5. /\ Current = [j \in Keys |-> Current[j]]
          /\ Current' = [j \in Keys |-> Current'[j]]
      BY DEF Current
    <3> HIDE DEF Current
    <3> QED
      BY <2>1, <3>3, <3>4, <3>5
  <2>5. answer' \in {answer, [answer EXCEPT ![c] = Promise!Result(c)]}
    BY <1>7 DEF Commit, Reply, Result, Promise!Result
  <2>6. Promise!Open(c)
    BY <1>0, <1>7 DEF Commit
  <2> QED
    BY <2>1, <2>2, <2>4, <2>5, <2>6 DEF Promise!Apply, Current
<1>8. ASSUME NEW c \in Calls, RollBack(c) PROVE UNCHANGED Promise!vars
  BY <1>8 DEF RollBack, Promise!vars
<1>9. ASSUME NEW c \in Calls, Fail(c) PROVE Promise!Refuse(c)
  <2>1. /\ answer' = [answer EXCEPT ![c] = Refused]
        /\ UNCHANGED <<now, call, appliedAt>>
        /\ Promise!Open(c)
    BY <1>0, <1>9 DEF Fail, Reply
  <2>2. ASSUME NEW k \in Keys
        PROVE  /\ rows[k] = NoRow <=> rows'[k] = NoRow
               /\ rows[k] # NoRow => rows'[k].owner = rows[k].owner
    <3>1. CASE HoldsRow(c) /\ k = Key(c)
      <4>1. rows[k] \in Row /\ rows'[k] = Settled(rows[k], "failed", NoCall)
        BY <1>0, <1>9, <3>1 DEF Fail, HoldsRow, TypeOK
      <4>2. "failed" \in Statuses
        BY DEF Statuses
      <4>3. rows'[k] \in Row /\ rows'[k].owner = rows[k].owner
        BY <4>1, <4>2, SettledRow
      <4> QED
        BY <4>1, <4>3
    <3>2. CASE ~(HoldsRow(c) /\ k = Key(c))
      BY <1>0, <1>9, <3>2 DEF Fail, TypeOK
    <3> QED
      BY <3>1, <3>2
  <2>3. Current' = Current
    BY <2>1, <2>2 DEF Current
  <2> QED
    BY <2>1, <2>3 DEF Promise!Refuse, Promise!Refused, Refused, Current
<1>10. ASSUME NEW c \in Calls, Crash(c) PROVE UNCHANGED Promise!vars
  BY <1>10 DEF Crash, Promise!vars
<1>11. CASE UNCHANGED vars
  BY <1>11 DEF vars, Promise!vars
<1>12. \A c \in Calls : Key(c) \in Keys
  BY <1>0 DEF TypeOK
<1>13. ASSUME NEW c \in Calls, CallStep(c) \/ Crash(c)
       PROVE  Promise!Next \/ UNCHANGED Promise!vars
  <2>1. CASE Start(c)
    BY <1>2, <2>1 DEF Promise!Next
  <2>2. CASE DeleteExpired(c)
    BY <1>3, <2>2 DEF Promise!Next
  <2>3. CASE ReadExisting(c)
    BY <1>6, <2>3 DEF Promise!Next
  <2>4. CASE Commit(c)
    BY <1>7, <2>4 DEF Promise!Next
  <2>5. CASE Fail(c)
    BY <1>9, <2>5 DEF Promise!Next
  <2>6. CASE InsertClaims(c) \/ InsertConflicts(c) \/ RollBack(c) \/ Crash(c)
    BY <1>4, <1>5, <1>8, <1>10, <2>6
  <2> QED
    BY <1>13, <2>1, <2>2, <2>3, <2>4, <2>5, <2>6 DEF CallStep
<1> QED
  BY <1>1, <1>11, <1>13 DEF Next

\* The protocol implements the promise: an atomic effect per key, its replay,
\* refusals, and forgetting after the retention.
THEOREM ImplementsPromise == Spec => KeepsPromise
<1>1. Spec => []IInv /\ []TypeOK
  BY Invariance, TypeCorrect, PTL
<1> QED
  BY <1>1, InitRefines, StepRefines, PTL DEF Spec, KeepsPromise, Promise!Spec
===============================================================================
