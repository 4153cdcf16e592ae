---------------------------- MODULE ReportsProofs ----------------------------
(***************************************************************************)
(* Proofs about report generation and the AI credential, for any number of *)
(* calls and keys.                                                         *)
(***************************************************************************)
EXTENDS Reports, TLAPS

-------------------------------------------------------------------------------
(* The inductive invariant.                                                *)

Over == {"done", "abandoned"}
Outcomes == {"ok", "authentication"}

\* What a call knows of itself.
CallIsConsistent(c) ==
    /\ call[c].pc \in {"read", "pending", "generate", "markValid", "complete",
                       "failReport", "markInvalid"} => call[c].op = "report"
    /\ call[c].pc \in {"encrypt", "write"} => call[c].op # "report" /\ ~call[c].openai
    /\ call[c].pc \notin Over \cup {"start"} => call[c].key \in Keys
    /\ call[c].outcome = "authentication" =>
          call[c].op = "report" /\ call[c].openai /\ call[c].pending
    /\ call[c].pc = "markValid" => call[c].outcome = "ok" /\ call[c].openai
    /\ call[c].pc = "markInvalid" => call[c].outcome = "authentication"
    /\ call[c].pc \in {"read", "pending", "encrypt", "write"} => call[c].outcome = "none"
    /\ call[c].pc \in {"read", "pending", "encrypt", "write"} => ~call[c].pending
    /\ call[c].pc = "read" => ~call[c].overtaken

\* How far the report of a call is, from where the call is.
ReportFollowsCall(c) ==
    /\ call[c].pc \in {"start", "read", "pending", "encrypt", "write"} => reports[c] = "none"
    /\ call[c].pc \in {"generate", "markValid", "complete"} =>
          reports[c] = "pending" /\ call[c].pending
    /\ call[c].pc = "failReport" =>
          /\ call[c].pending
          /\ reports[c] = "pending" \/ (reports[c] = "completed" /\ c \in lost)
    /\ call[c].pc = "failKey" => reports[c] \in {"none", "failed"} \/ c \in lost
    /\ call[c].pc = "markInvalid" => reports[c] \in {"none", "failed"} \/ c \in lost
    /\ call[c].pc = "done" => reports[c] # "pending" \/ c \in lost

\* What the row of a key says of the call that claimed it.
ClaimFollowsCall(k) ==
    LET c == claims[k].owner IN
    /\ claims[k].status = "none" <=> c = NoCall
    /\ c \in Calls =>
        /\ call[c].pc # "start"
        /\ call[c].pc \notin Over => call[c].key = k /\ call[c].op = claims[k].op
        /\ claims[k].status = "processing" => call[c].pc \notin {"done", "markInvalid"}
        /\ claims[k].status = "failed" => call[c].pc \in Over \cup {"markInvalid"}
        /\ (claims[k].status = "completed" /\ claims[k].op = "report") =>
              reports[c] = "completed" \/ c \in lost

\* A secret in memory is the stored one, unless the call has been overtaken.
HeldSecretIsStored(c) ==
    /\ HoldsSecret(c)
    /\ call[c].pc = "failKey" => call[c].outcome = "authentication"
    => \/ call[c].overtaken
       \/ credential # NoCredential => call[c].secret = credential.secret

\* Rows are named by calls that inserted them, so that no name is used twice.
NameIsTaken(d) ==
    d # NoCall => call[d].pc \in Over \cup {"failKey", "markInvalid"}

NamesAreTaken ==
    /\ credential # NoCredential => NameIsTaken(credential.id)
    /\ \A c \in Calls : NameIsTaken(call[c].seen.id)

\* Among the states of one row, a version has one secret.
VersionHasOneSecret(c) ==
    (call[c].pc \in {"encrypt", "write"} /\ credential # NoCredential) =>
        /\ call[c].expected = 0 => call[c].seen.id # credential.id
        /\ call[c].seen.id = credential.id =>
             /\ call[c].expected <= credential.version
             /\ call[c].expected = credential.version => call[c].seen.secret = credential.secret

CallInv ==
    \A c \in Calls : CallIsConsistent(c) /\ ReportFollowsCall(c)

IInv ==
    /\ TypeOK
    /\ CallInv
    /\ \A k \in Keys : ClaimFollowsCall(k)
    /\ HandedOutReportIsCompleted
    /\ FailedKeyHasNoLiveReport
    /\ \A c \in Calls : HeldSecretIsStored(c)
    /\ StatusIsOfStoredSecret
    /\ NamesAreTaken
    /\ \A c \in Calls : VersionHasOneSecret(c)

-------------------------------------------------------------------------------
(* Types.                                                                  *)

\* The steps of call c.
StepOf(c) ==
    \/ \E k \in Keys : \/ \E op \in Ops, openai \in BOOLEAN : Start(c, op, k, openai)
                      \/ Replay(c, k) \/ Refuse(c, k)
    \/ Read(c) \/ CreatePending(c) \/ MarkValid(c) \/ Complete(c)
    \/ \E outcome \in Outcomes : Generate(c, outcome)
    \/ FailReport(c) \/ FailKey(c) \/ MarkInvalid(c)
    \/ Encrypt(c) \/ Write(c)
    \/ Error(c) \/ Abandon(c)

\* A step is one of a call, or a key that is forgotten.
LEMMA StepCases ==
    Next <=> (\E c \in Calls : StepOf(c)) \/ (\E k \in Keys : Forget(k))
  BY DEF Next, StepOf, Outcomes

\* Settling a key keeps the type of the rows.
LEMMA SettleType ==
    ASSUME TypeOK, NEW c \in Calls, NEW status \in {"completed", "failed"},
           Settle(c, status)
    PROVE  claims' \in [Keys -> Claim]
  <1> DEFINE k == call[c].key
  <1>1. \A x \in Keys : [claims[x] EXCEPT !.status = status] \in Claim
    BY DEF TypeOK, Claim
  <1>2. claims' = [x \in Keys |-> IF x = k THEN [claims[x] EXCEPT !.status = status] ELSE claims[x]]
    BY DEF Settle, TypeOK
  <1> QED
    BY <1>1, <1>2 DEF TypeOK

\* How the memory of a call changes in its own steps, field by field.
Steps == {"start", "read", "pending", "generate", "markValid", "complete",
          "encrypt", "write", "failReport", "failKey", "markInvalid", "done", "abandoned"}

SameRequest(x, y) ==
    /\ x.op = y.op /\ x.key = y.key /\ x.openai = y.openai
    /\ x.expected = y.expected /\ x.seen = y.seen /\ x.overtaken = y.overtaken

SameMemory(x, y) ==
    SameRequest(x, y) /\ x.secret = y.secret /\ x.pending = y.pending /\ x.outcome = y.outcome

Becomes(c, x) ==
    /\ call' \in [Calls -> CallState]
    /\ call'[c] = x
    /\ \A d \in Calls \ {c} : call'[d] = call[d]

Moves(c, step) ==
    /\ call' \in [Calls -> CallState]
    /\ call'[c].pc = step
    /\ SameMemory(call'[c], call[c])
    /\ \A d \in Calls \ {c} : call'[d] = call[d]

\* Replacing the record of a call touches no other.
LEMMA UpdateBecomes ==
    ASSUME TypeOK, NEW c \in Calls, NEW x \in CallState, call' = [call EXCEPT ![c] = x]
    PROVE  Becomes(c, x)
  BY DEF TypeOK, Becomes

\* Going on keeps what a call remembers.
LEMMA GoMoves ==
    ASSUME TypeOK, NEW c \in Calls, NEW step \in Steps, Go(c, step)
    PROVE  Moves(c, step)
  <1> DEFINE x == [call[c] EXCEPT !.pc = step]
  <1>1. call[c] \in CallState
    BY DEF TypeOK
  <1>2. x \in CallState /\ x.pc = step /\ SameMemory(x, call[c])
    BY <1>1 DEF CallState, SameMemory, SameRequest, Steps
  <1>3. call' = [call EXCEPT ![c] = x]
    BY DEF Go
  <1> HIDE DEF x
  <1>4. Becomes(c, x)
    BY <1>2, <1>3, UpdateBecomes
  <1> QED
    BY <1>2, <1>4 DEF Becomes, Moves

\* What a throw leads to depends on whether the call knows of its report.
LEMMA ThrowMoves ==
    ASSUME TypeOK, NEW c \in Calls, Throw(c)
    PROVE  /\ call[c].pending => Moves(c, "failReport")
           /\ ~call[c].pending => Moves(c, "failKey")
  <1>1. CASE call[c].pending
    BY <1>1, GoMoves DEF Throw, FirstOfCatch, Steps
  <1>2. CASE ~call[c].pending
    BY <1>2, GoMoves DEF Throw, FirstOfCatch, Steps
  <1> QED
    BY <1>1, <1>2

\* A call that is over has the type of a call.
LEMMA EndedType ==
    ASSUME NEW how \in Over
    PROVE  Ended(how) \in CallState /\ Ended(how) = [Unstarted EXCEPT !.pc = how]
  BY DEF Over, Ended, Unstarted, CallState, Ops, Seen

\* A call that is over remembers nothing.
LEMMA EndedFields ==
    ASSUME NEW how \in Over
    PROVE  /\ Ended(how).pc = how /\ Ended(how).openai = FALSE
           /\ Ended(how).outcome = "none" /\ Ended(how).seen.id = NoCall
  BY DEF Over, Ended, Unstarted

\* A call that stops is over.
LEMMA StopBecomes ==
    ASSUME TypeOK, NEW c \in Calls, Stop(c)
    PROVE  Becomes(c, Ended("done"))
  BY EndedType, UpdateBecomes DEF Stop, Over

\* An overtaken call is as before, but for its history.
LEMMA OvertakeType ==
    ASSUME TypeOK, NEW g \in Calls
    PROVE  /\ Overtake(g) \in CallState
           /\ Overtake(g).overtaken = (call[g].overtaken \/ HoldsSecret(g))
           /\ \A f \in {"pc", "op", "key", "openai", "secret", "pending", "outcome",
                       "expected", "seen"} : Overtake(g)[f] = call[g][f]
  <1>1. call[g] \in CallState
    BY DEF TypeOK
  <1>2. HoldsSecret(g) \in BOOLEAN
    BY <1>1 DEF HoldsSecret, CallState
  <1>3. (call[g].overtaken \/ HoldsSecret(g)) \in BOOLEAN
    BY <1>1, <1>2 DEF CallState
  <1> DEFINE b == call[g].overtaken \/ HoldsSecret(g)
  <1>4. Overtake(g) = [call[g] EXCEPT !.overtaken = b]
    BY DEF Overtake
  <1>5. b \in BOOLEAN
    BY <1>3
  <1> HIDE DEF b
  <1>6. [call[g] EXCEPT !.overtaken = b] \in CallState
    BY <1>1, <1>5 DEF CallState
  <1> QED
    BY <1>1, <1>4, <1>5, <1>6 DEF CallState, b

\* What the steps that do more than move on make of their call.
Begun(c, op, k, openai) ==
    /\ call' \in [Calls -> CallState]
    /\ \A d \in Calls \ {c} : call'[d] = call[d]
    /\ call'[c].pc = IF op = "report" THEN "read" ELSE IF op = "store" THEN "encrypt" ELSE "write"
    /\ call'[c].op = op /\ call'[c].key = k /\ call'[c].openai = openai
    /\ call'[c].pending = FALSE /\ call'[c].outcome = "none" /\ call'[c].overtaken = FALSE
    /\ credential = NoCredential =>
          call'[c].expected = 0 /\ call'[c].seen.id = NoCall
    /\ credential # NoCredential =>
          /\ call'[c].expected = credential.version
          /\ call'[c].seen.id = credential.id /\ call'[c].seen.secret = credential.secret

\* The fields of a stored credential have their types.
LEMMA CredentialType ==
    ASSUME TypeOK, credential # NoCredential
    PROVE  /\ credential \in Credential
           /\ credential.id \in Calls \cup {NoCall} /\ credential.secret \in Calls \cup {NoCall}
           /\ credential.version \in Nat \ {0}
  BY DEF TypeOK, Credential

\* A call that claims its key begins.
LEMMA StartBegins ==
    ASSUME TypeOK, NEW c \in Calls, NEW op \in Ops, NEW k \in Keys, NEW openai \in BOOLEAN,
           Start(c, op, k, openai)
    PROVE  Begun(c, op, k, openai)
  <1> DEFINE pc == CASE op = "report" -> "read" [] op = "store" -> "encrypt"
                     [] OTHER -> "write"
             expected == IF credential = NoCredential THEN 0 ELSE credential.version
             seen == IF credential = NoCredential THEN [id |-> NoCall, secret |-> NoCall]
                     ELSE [id |-> credential.id, secret |-> credential.secret]
             x == [Unstarted EXCEPT !.pc = pc, !.op = op, !.key = k, !.openai = openai,
                                    !.expected = expected, !.seen = seen]
  <1>1. call' = [call EXCEPT ![c] = x]
    BY DEF Start, Unstarted
  <1>2. pc = IF op = "report" THEN "read" ELSE IF op = "store" THEN "encrypt" ELSE "write"
    BY DEF Ops
  <1>3. expected \in Nat /\ seen \in Seen
    BY CredentialType DEF Seen
  <1>4. x.seen = seen /\ x.expected = expected /\ x.pc = pc /\ x.op = op /\ x.key = k
        /\ x.openai = openai /\ x.pending = FALSE /\ x.outcome = "none" /\ x.overtaken = FALSE
    BY DEF Unstarted
  <1>5. x \in CallState
    <2> HIDE DEF seen, expected
    <2>1. pc \in Steps
      BY <1>2 DEF Steps
    <2> HIDE DEF pc
    <2> QED
      BY <1>3, <2>1 DEF CallState, Unstarted, Steps, Ops
  <1>6. Becomes(c, x)
    <2> HIDE DEF x
    <2> QED
      BY <1>1, <1>5, UpdateBecomes
  <1> HIDE DEF x
  <1> QED
    BY <1>2, <1>4, <1>6 DEF Becomes, Begun

\* Reading takes the stored secret, or throws without one.
LEMMA ReadMoves ==
    ASSUME TypeOK, NEW c \in Calls, Read(c)
    PROVE  \/ call[c].openai /\ credential = NoCredential /\ Throw(c)
           \/ /\ call' \in [Calls -> CallState]
              /\ \A d \in Calls \ {c} : call'[d] = call[d]
              /\ call'[c].pc = "pending"
              /\ SameRequest(call'[c], call[c])
              /\ call'[c].pending = call[c].pending /\ call'[c].outcome = call[c].outcome
              /\ call[c].openai =>
                    credential # NoCredential /\ call'[c].secret = credential.secret
  <1> DEFINE secret == IF call[c].openai THEN credential.secret ELSE NoCall
             x == [call[c] EXCEPT !.pc = "pending", !.secret = secret]
  <1>1. CASE ~(call[c].openai /\ credential = NoCredential)
    <2>1. call[c] \in CallState
      BY DEF TypeOK
    <2>2. secret \in Calls \cup {NoCall}
      BY <1>1, CredentialType
    <2>3. x \in CallState /\ x.pc = "pending" /\ x.secret = secret /\ SameRequest(x, call[c])
          /\ x.pending = call[c].pending /\ x.outcome = call[c].outcome
      <3> HIDE DEF secret
      <3> QED
        BY <2>1, <2>2 DEF CallState, SameRequest
    <2>4. call' = [call EXCEPT ![c] = x]
      BY <1>1 DEF Read
    <2>5. call[c].openai => credential # NoCredential /\ secret = credential.secret
      BY <1>1
    <2> HIDE DEF x, secret
    <2>6. Becomes(c, x)
      BY <2>3, <2>4, UpdateBecomes
    <2> QED
      BY <2>3, <2>5, <2>6 DEF Becomes
  <1>2. CASE call[c].openai /\ credential = NoCredential
    BY <1>2 DEF Read
  <1> QED
    BY <1>1, <1>2

\* A call knows of the report it began, unless it lost the answer of its
\* COMMIT.
LEMMA CreateMoves ==
    ASSUME TypeOK, NEW c \in Calls, CreatePending(c)
    PROVE  \/ /\ lost' = lost
              /\ call' \in [Calls -> CallState]
              /\ \A d \in Calls \ {c} : call'[d] = call[d]
              /\ call'[c].pc = "generate" /\ call'[c].pending
              /\ SameRequest(call'[c], call[c])
              /\ call'[c].secret = call[c].secret /\ call'[c].outcome = call[c].outcome
           \/ lost' = lost \cup {c} /\ Throw(c)
  <1> DEFINE x == [call[c] EXCEPT !.pc = "generate", !.pending = TRUE]
  <1>1. CASE call' = [call EXCEPT ![c] = x] /\ UNCHANGED lost
    <2>1. call[c] \in CallState
      BY DEF TypeOK
    <2>2. x \in CallState /\ x.pc = "generate" /\ x.pending /\ SameRequest(x, call[c])
          /\ x.secret = call[c].secret /\ x.outcome = call[c].outcome
      BY <2>1 DEF CallState, SameRequest
    <2> HIDE DEF x
    <2>3. Becomes(c, x)
      BY <1>1, <2>2, UpdateBecomes
    <2> QED
      BY <1>1, <2>2, <2>3 DEF Becomes
  <1>2. CASE Throw(c) /\ lost' = lost \cup {c}
    BY <1>2
  <1> QED
    BY <1>1, <1>2 DEF CreatePending, Acknowledge

\* The provider's outcome decides how a call goes on.
LEMMA GenerateMoves ==
    ASSUME TypeOK, NEW c \in Calls, NEW outcome \in Outcomes, Generate(c, outcome)
    PROVE  /\ call' \in [Calls -> CallState]
           /\ \A d \in Calls \ {c} : call'[d] = call[d]
           /\ call'[c].pc = AfterGenerate(c, outcome) /\ call'[c].outcome = outcome
           /\ SameRequest(call'[c], call[c])
           /\ call'[c].secret = call[c].secret /\ call'[c].pending = call[c].pending
           /\ call'[c].pc \in {"failReport", "failKey", "markValid", "complete"}
  <1> DEFINE pc == AfterGenerate(c, outcome)
             x == [call[c] EXCEPT !.pc = pc, !.outcome = outcome]
  <1>1. call[c] \in CallState
    BY DEF TypeOK
  <1>2. pc \in {"failReport", "failKey", "markValid", "complete"}
    BY DEF AfterGenerate, FirstOfCatch
  <1>3. call' = [call EXCEPT ![c] = x]
    BY DEF Generate
  <1> HIDE DEF pc
  <1>4. x \in CallState /\ x.pc = pc /\ x.outcome = outcome /\ SameRequest(x, call[c])
        /\ x.secret = call[c].secret /\ x.pending = call[c].pending
    BY <1>1, <1>2 DEF CallState, SameRequest, Outcomes
  <1> HIDE DEF x
  <1>5. Becomes(c, x)
    BY <1>3, <1>4, UpdateBecomes
  <1> QED
    BY <1>2, <1>4, <1>5 DEF Becomes, pc

\* The other calls after a write: they may have been overtaken.
Overtaken(c) ==
    \A d \in Calls \ {c} :
        /\ call'[d].pc = call[d].pc
        /\ call'[d].op = call[d].op /\ call'[d].key = call[d].key
        /\ call'[d].openai = call[d].openai /\ call'[d].secret = call[d].secret
        /\ call'[d].pending = call[d].pending /\ call'[d].outcome = call[d].outcome
        /\ call'[d].expected = call[d].expected /\ call'[d].seen = call[d].seen
        /\ call'[d].overtaken = (call[d].overtaken \/ HoldsSecret(d))

\* A write that its claim and its version allow changes the credential; any
\* other throws.
LEMMA WriteMoves ==
    ASSUME TypeOK, NEW c \in Calls, Write(c)
    PROVE  \/ ~(Accepts(c) /\ HoldsClaim(c)) /\ Throw(c)
           \/ /\ Accepts(c) /\ HoldsClaim(c)
              /\ call' \in [Calls -> CallState]
              /\ Overtaken(c)
              /\ call'[c] = Ended("done")
                 \/ (call'[c].pc = "failKey" /\ SameMemory(call'[c], call[c]))
              /\ credential' = IF call[c].op = "delete" THEN NoCredential
                               ELSE IF credential = NoCredential THEN Inserted(c)
                               ELSE Rotated(credential, c)
  <1>1. CASE Accepts(c) /\ HoldsClaim(c)
    <2> DEFINE y == [call[c] EXCEPT !.pc = "failKey"]
    <2>1. call[c] \in CallState
      BY DEF TypeOK
    <2>2. y \in CallState /\ y.pc = "failKey" /\ SameMemory(y, call[c])
      BY <2>1 DEF CallState, SameMemory, SameRequest
    <2>3. PICK x \in {Ended("done")} \cup (IF AckMayBeLost THEN {y} ELSE {}) :
             call' = [g \in Calls |-> IF g = c THEN x ELSE Overtake(g)]
      BY <1>1 DEF Write
    <2> HIDE DEF y
    <2>4. x = Ended("done") \/ x = y
      BY <2>3
    <2>5. x \in CallState
      BY <2>2, <2>4, EndedType DEF Over
    <2>6. call' \in [Calls -> CallState]
      BY <2>3, <2>5, OvertakeType
    <2>7. Overtaken(c)
      BY <2>3, OvertakeType DEF Overtaken
    <2>8. call'[c] = x
      BY <2>3
    <2> QED
      BY <1>1, <2>2, <2>4, <2>6, <2>7, <2>8 DEF Write
  <1>2. CASE ~(Accepts(c) /\ HoldsClaim(c))
    BY <1>2 DEF Write
  <1> QED
    BY <1>1, <1>2

\* A call that is abandoned is over.
LEMMA AbandonBecomes ==
    ASSUME TypeOK, NEW c \in Calls, Abandon(c)
    PROVE  Becomes(c, Ended("abandoned"))
  BY EndedType, UpdateBecomes DEF Abandon, Over

\* A rotation keeps the row and raises its version.
LEMMA RotatedFields ==
    ASSUME TypeOK, NEW c \in Calls, credential # NoCredential
    PROVE  /\ Rotated(credential, c) \in Credential
           /\ Rotated(credential, c).id = credential.id
           /\ Rotated(credential, c).version = credential.version + 1
           /\ Rotated(credential, c).secret = c
           /\ Rotated(credential, c).status = "unverified"
  <1> DEFINE v == credential.version + 1
             x == [credential EXCEPT !.version = v, !.secret = c, !.status = "unverified"]
  <1>1. credential \in Credential /\ v \in Nat \ {0}
    BY CredentialType
  <1>2. Rotated(credential, c) = x
    BY DEF Rotated
  <1> HIDE DEF v
  <1>3. x \in Credential /\ x.id = credential.id /\ x.version = v /\ x.secret = c
        /\ x.status = "unverified"
    BY <1>1 DEF Credential
  <1> QED
    BY <1>2, <1>3 DEF v

\* The writers of the credential keep its type.
LEMMA CredentialStep ==
    ASSUME TypeOK, NEW c \in Calls, Write(c) \/ MarkValid(c) \/ MarkInvalid(c)
    PROVE  credential' \in Credential \cup {NoCredential}
  <1>1. Inserted(c) \in Credential
    BY DEF Inserted, NewCredential, Credential
  <1>2. ASSUME credential # NoCredential
        PROVE  /\ Rotated(credential, c) \in Credential
               /\ \A status \in {"valid", "invalid"} :
                    [credential EXCEPT !.status = status] \in Credential
    <2>1. credential \in Credential
      BY <1>2, CredentialType
    <2>2. Rotated(credential, c) \in Credential
      BY <1>2, RotatedFields
    <2> QED
      BY <2>1, <2>2 DEF Credential
  <1>3. CASE Write(c)
    BY <1>1, <1>2, <1>3 DEF Write, TypeOK
  <1>4. CASE MarkValid(c)
    BY <1>2, <1>4 DEF MarkValid, Mark, TypeOK
  <1>5. CASE MarkInvalid(c)
    BY <1>2, <1>5 DEF MarkInvalid, Mark, TypeOK
  <1> QED
    BY <1>3, <1>4, <1>5

\* Every step keeps the types of calls.
LEMMA CallStep ==
    ASSUME TypeOK, NEW c \in Calls, StepOf(c)
    PROVE  call' \in [Calls -> CallState]
  <1>1. CASE \E k \in Keys, op \in Ops, openai \in BOOLEAN : Start(c, op, k, openai)
    BY <1>1, StartBegins DEF Begun
  <1>2. CASE \E k \in Keys : Replay(c, k) \/ Refuse(c, k)
    BY <1>2, StopBecomes DEF Replay, Refuse, Becomes
  <1>3. CASE Read(c)
    BY <1>3, ReadMoves, ThrowMoves DEF Moves, TypeOK, CallState
  <1>4. CASE CreatePending(c)
    BY <1>4, CreateMoves, ThrowMoves DEF Moves
  <1>5. CASE \E outcome \in Outcomes : Generate(c, outcome)
    BY <1>5, GenerateMoves
  <1>6. CASE MarkValid(c)
    BY <1>6, ThrowMoves, GoMoves DEF MarkValid, Moves, Steps
  <1>7. CASE Complete(c)
    BY <1>7, ThrowMoves, StopBecomes DEF Complete, Acknowledge, Moves, Becomes
  <1>8. CASE FailReport(c) \/ Encrypt(c)
    BY <1>8, GoMoves DEF FailReport, Encrypt, Moves, Steps
  <1>9. CASE FailKey(c)
    BY <1>9, GoMoves, StopBecomes DEF FailKey, Moves, Becomes, Steps
  <1>10. CASE MarkInvalid(c)
    BY <1>10, StopBecomes DEF MarkInvalid, Becomes
  <1>11. CASE Write(c)
    BY <1>11, WriteMoves, ThrowMoves DEF Moves
  <1>12. CASE Error(c)
    BY <1>12, ThrowMoves DEF Error, Moves
  <1>13. CASE Abandon(c)
    BY <1>13, AbandonBecomes DEF Becomes
  <1> QED
    BY <1>1, <1>2, <1>3, <1>4, <1>5, <1>6, <1>7, <1>8, <1>9, <1>10, <1>11, <1>12, <1>13
       DEF StepOf

\* Every step keeps the type of the keys.
LEMMA ClaimsStep ==
    ASSUME TypeOK, NEW c \in Calls, StepOf(c)
    PROVE  claims' \in [Keys -> Claim]
  <1>1. ASSUME NEW op \in Ops, NEW k \in Keys, NEW openai \in BOOLEAN,
               Start(c, op, k, openai)
        PROVE  claims' \in [Keys -> Claim]
    <2>1. [op |-> op, status |-> "processing", owner |-> c] \in Claim
      BY DEF Claim
    <2> QED
      BY <1>1, <2>1 DEF Start, TypeOK
  <1>2. ASSUME claims' = claims
        PROVE  claims' \in [Keys -> Claim]
    BY <1>2 DEF TypeOK
  <1>3. CASE Complete(c)
    BY <1>2, <1>3, SettleType DEF Complete
  <1>4. CASE FailKey(c)
    BY <1>2, <1>4, SettleType DEF FailKey
  <1>5. CASE Write(c)
    BY <1>2, <1>5, SettleType DEF Write
  <1> QED
    BY <1>1, <1>2, <1>3, <1>4, <1>5 DEF StepOf, Replay, Refuse, Read, CreatePending,
       MarkValid, Generate, FailReport, MarkInvalid, Encrypt, Error, Abandon

\* Every step keeps the types.
LEMMA TypeStep ==
    ASSUME TypeOK, Next
    PROVE  TypeOK'
  <1>1. ASSUME NEW c \in Calls, StepOf(c)
        PROVE  TypeOK'
    <2>1. call' \in [Calls -> CallState] /\ claims' \in [Keys -> Claim]
      BY <1>1, CallStep, ClaimsStep
    <2>2. credential' \in Credential \cup {NoCredential}
      BY <1>1, CredentialStep DEF TypeOK, StepOf, Start, Replay, Refuse, Read, CreatePending,
         Complete, Generate, FailReport, FailKey, Encrypt, Error, Abandon
    <2>3. reports' \in [Calls -> {"none", "pending", "completed", "failed"}]
      BY <1>1 DEF TypeOK, StepOf, Start, Replay, Refuse, Read, CreatePending, Complete,
         Generate, MarkValid, FailReport, FailKey, MarkInvalid, Encrypt, Write, Error, Abandon
    <2>4. answer' \in [Calls -> Calls \cup {NoCall}]
      <3>1. \A k \in Keys : claims[k].owner \in Calls \cup {NoCall}
        BY DEF TypeOK, Claim
      <3> QED
        BY <1>1, <3>1 DEF TypeOK, StepOf, Start, Replay, Refuse, Read, CreatePending, Complete,
           Generate, MarkValid, FailReport, FailKey, MarkInvalid, Encrypt, Write, Error, Abandon
    <2>5. lost' \in SUBSET Calls
      BY <1>1 DEF TypeOK, StepOf, Start, Replay, Refuse, Read, CreatePending, Complete, Acknowledge,
         Generate, MarkValid, FailReport, FailKey, MarkInvalid, Encrypt, Write, Error, Abandon
    <2>6. verdict' \in Verdict
      <3>1. [secret |-> call[c].secret, outcome |-> call[c].outcome,
             overtaken |-> call[c].overtaken] \in Verdict
        BY DEF TypeOK, CallState, Verdict
      <3> QED
        BY <1>1, <3>1 DEF TypeOK, StepOf, Start, Replay, Refuse, Read, CreatePending, Complete,
           Generate, MarkValid, Mark, FailReport, FailKey, MarkInvalid, Encrypt, Write, Error, Abandon
    <2> QED
      BY <2>1, <2>2, <2>3, <2>4, <2>5, <2>6 DEF TypeOK
  <1>2. ASSUME NEW k \in Keys, Forget(k)
        PROVE  TypeOK'
    <2>1. NoClaim \in Claim
      BY DEF NoClaim, Claim
    <2> QED
      BY <1>2, <2>1 DEF TypeOK, Forget
  <1> QED
    BY <1>1, <1>2, StepCases

\* The types hold before any call.
LEMMA TypeInit ==
    ASSUME Init
    PROVE  TypeOK
  <1>1. Unstarted \in CallState /\ NoClaim \in Claim
    BY DEF Unstarted, NoClaim, CallState, Claim, Ops, Seen
  <1>2. NewCredential(NoCall, NoCall) \in Credential
    BY DEF NewCredential, Credential
  <1>3. [secret |-> NoCall, outcome |-> "none", overtaken |-> FALSE] \in Verdict
    BY DEF Verdict
  <1> QED
    BY <1>1, <1>2, <1>3 DEF Init, TypeOK

\* Every variable keeps its type in every behaviour.
THEOREM TypeCorrect ==
    Spec => []TypeOK
  <1>1. Init => TypeOK
    BY TypeInit
  <1>2. TypeOK /\ [Next]_vars => TypeOK'
    <2>1. ASSUME TypeOK, UNCHANGED vars
          PROVE  TypeOK'
      BY <2>1 DEF TypeOK, vars
    <2> QED
      BY <2>1, TypeStep
  <1> QED
    BY <1>1, <1>2, PTL DEF Spec

-------------------------------------------------------------------------------
(* Calls and their reports.                                                *)

\* What a step of another call leaves to call d.
Untouched(d) ==
    /\ call'[d].pc = call[d].pc
    /\ call'[d].op = call[d].op /\ call'[d].key = call[d].key
    /\ call'[d].openai = call[d].openai /\ call'[d].secret = call[d].secret
    /\ call'[d].pending = call[d].pending /\ call'[d].outcome = call[d].outcome
    /\ call'[d].expected = call[d].expected /\ call'[d].seen = call[d].seen
    /\ \/ call'[d].overtaken = call[d].overtaken
       \/ call'[d].overtaken = (call[d].overtaken \/ HoldsSecret(d))
    /\ reports'[d] = reports[d]
    /\ d \in lost' <=> d \in lost

\* A step of a call leaves the others as they are.
LEMMA CallsAreApart ==
    ASSUME TypeOK, NEW c \in Calls, StepOf(c), NEW d \in Calls \ {c}
    PROVE  Untouched(d)
  <1>1. reports'[d] = reports[d] /\ (d \in lost' <=> d \in lost)
    BY DEF TypeOK, StepOf, Start, Replay, Refuse, Read, CreatePending, Complete, Acknowledge,
       Generate, MarkValid, FailReport, FailKey, MarkInvalid, Encrypt, Write, Error, Abandon
  <1>2. CASE Write(c)
    BY <1>1, <1>2, WriteMoves, ThrowMoves DEF Overtaken, Moves, Untouched
  <1>3. CASE ~Write(c)
    <2>1. CASE \E k \in Keys, op \in Ops, openai \in BOOLEAN : Start(c, op, k, openai)
      <3>1. PICK k \in Keys, op \in Ops, openai \in BOOLEAN : Start(c, op, k, openai)
        BY <2>1
      <3>2. call'[d] = call[d]
        <4>1. Begun(c, op, k, openai)
          BY <3>1, StartBegins
        <4> QED
          BY <4>1 DEF Begun
      <3> QED
        BY <1>1, <3>2 DEF Untouched
    <2>2. CASE \E k \in Keys : Replay(c, k) \/ Refuse(c, k)
      BY <1>1, <2>2, StopBecomes DEF Replay, Refuse, Becomes, Untouched
    <2>3. CASE Read(c)
      BY <1>1, <2>3, ReadMoves, ThrowMoves DEF Moves, Untouched
    <2>4. CASE CreatePending(c)
      BY <1>1, <2>4, CreateMoves, ThrowMoves DEF Moves, Untouched
    <2>5. CASE \E outcome \in Outcomes : Generate(c, outcome)
      BY <1>1, <2>5, GenerateMoves DEF Untouched
    <2>6. CASE MarkValid(c)
      BY <1>1, <2>6, ThrowMoves, GoMoves DEF MarkValid, Moves, Steps, Untouched
    <2>7. CASE Complete(c)
      BY <1>1, <2>7, ThrowMoves, StopBecomes DEF Complete, Acknowledge, Moves, Becomes, Untouched
    <2>8. CASE FailReport(c) \/ Encrypt(c)
      BY <1>1, <2>8, GoMoves DEF FailReport, Encrypt, Moves, Steps, Untouched
    <2>9. CASE FailKey(c)
      BY <1>1, <2>9, GoMoves, StopBecomes DEF FailKey, Moves, Becomes, Steps, Untouched
    <2>10. CASE MarkInvalid(c)
      BY <1>1, <2>10, StopBecomes DEF MarkInvalid, Becomes, Untouched
    <2>11. CASE Error(c)
      BY <1>1, <2>11, ThrowMoves DEF Error, Moves, Untouched
    <2>12. CASE Abandon(c)
      BY <1>1, <2>12, AbandonBecomes DEF Becomes, Untouched
    <2> QED
      BY <1>3, <2>1, <2>2, <2>3, <2>4, <2>5, <2>6, <2>7, <2>8, <2>9, <2>10, <2>11, <2>12
         DEF StepOf
  <1> QED
    BY <1>2, <1>3

\* A step keeps a call consistent with its own report.
LEMMA CallStepKeeps ==
    ASSUME TypeOK, CallInv, NEW c \in Calls, StepOf(c)
    PROVE  CallIsConsistent(c)' /\ ReportFollowsCall(c)'
  <1> USE DEF CallIsConsistent, ReportFollowsCall, At
  <1>0. CallIsConsistent(c) /\ ReportFollowsCall(c) /\ call[c] \in CallState
    BY DEF CallInv, TypeOK
  <1>1. ASSUME NEW op \in Ops, NEW k \in Keys, NEW openai \in BOOLEAN, Start(c, op, k, openai)
        PROVE  CallIsConsistent(c)' /\ ReportFollowsCall(c)'
    <2>1. Begun(c, op, k, openai)
      BY <1>1, StartBegins
    <2>2. reports' = reports /\ reports[c] = "none" /\ (openai => op = "report")
      BY <1>0, <1>1 DEF Start
    <2> QED
      BY <2>1, <2>2 DEF Begun, Over, Ops
  <1>2. CASE \E k \in Keys : Replay(c, k) \/ Refuse(c, k)
    <2>1. call'[c] = Ended("done") /\ reports' = reports /\ reports[c] = "none"
      BY <1>0, <1>2, StopBecomes DEF Replay, Refuse, Becomes
    <2> QED
      BY <2>1, EndedFields DEF Over
  <1>3. CASE Read(c)
    BY <1>0, <1>3, ReadMoves, ThrowMoves DEF Read, Moves, SameRequest, SameMemory, Over
  <1>4. CASE CreatePending(c)
    <2>1. call[c].pc = "pending" /\ reports'[c] = "pending"
      BY <1>4 DEF CreatePending, TypeOK
    <2> QED
      BY <1>0, <1>4, <2>1, CreateMoves, ThrowMoves DEF Moves, SameRequest, SameMemory, Over
  <1>5. ASSUME NEW outcome \in Outcomes, Generate(c, outcome)
        PROVE  CallIsConsistent(c)' /\ ReportFollowsCall(c)'
    <2>1. /\ call[c].pc = "generate" /\ reports' = reports
          /\ outcome = "authentication" => call[c].openai
      BY <1>5 DEF Generate
    <2> QED
      BY <1>0, <1>5, <2>1, GenerateMoves
         DEF AfterGenerate, FirstOfCatch, SameRequest, Over, Outcomes
  <1>6. CASE MarkValid(c)
    <2>1. call[c].pc = "markValid" /\ reports' = reports
      BY <1>6 DEF MarkValid
    <2>2. Moves(c, "complete") \/ Moves(c, "failReport")
      BY <1>0, <1>6, <2>1, ThrowMoves, GoMoves DEF MarkValid, Steps
    <2> QED
      BY <1>0, <2>1, <2>2 DEF Moves, SameRequest, SameMemory, Over
  <1>7. CASE Complete(c)
    <2>1. CASE HoldsClaim(c)
      <3>1. call[c].pc = "complete" /\ reports'[c] = "completed"
        BY <1>7, <2>1 DEF Complete, TypeOK
      <3>2. CASE Stop(c)
        BY <3>1, <3>2, StopBecomes, EndedFields DEF Becomes, Over
      <3>3. CASE Throw(c) /\ lost' = lost \cup {c}
        BY <1>0, <3>1, <3>3, ThrowMoves DEF Moves, SameMemory, SameRequest, Over
      <3> QED
        BY <1>7, <2>1, <3>2, <3>3 DEF Complete, Acknowledge
    <2>2. CASE ~HoldsClaim(c)
      BY <1>0, <1>7, <2>2, ThrowMoves DEF Complete, Moves, SameMemory, SameRequest, Over
    <2> QED
      BY <2>1, <2>2
  <1>8. CASE FailReport(c)
    <2>1. call[c].pc = "failReport" /\ reports'[c] = "failed" /\ Moves(c, "failKey")
      BY <1>8, GoMoves DEF FailReport, TypeOK, Steps
    <2> QED
      BY <1>0, <2>1 DEF Moves, SameMemory, SameRequest, Over
  <1>9. CASE FailKey(c)
    <2>1. call[c].pc = "failKey" /\ reports' = reports /\ lost' = lost
      BY <1>9 DEF FailKey
    <2>2. \/ call[c].outcome = "authentication" /\ Moves(c, "markInvalid")
          \/ call'[c] = Ended("done")
      BY <1>9, GoMoves, StopBecomes DEF FailKey, Becomes, Steps
    <2>3. call[c].op = "report" \/ call[c].outcome # "authentication"
      BY <1>0
    <2> QED
      BY <1>0, <2>1, <2>2, EndedFields, <2>3 DEF Moves, SameMemory, SameRequest, Over
  <1>10. CASE MarkInvalid(c)
    <2>1. /\ call[c].pc = "markInvalid" /\ reports' = reports /\ lost' = lost
          /\ call'[c] = Ended("done")
      BY <1>10, StopBecomes DEF MarkInvalid, Becomes
    <2> QED
      BY <1>0, <2>1, EndedFields DEF Over
  <1>11. CASE Encrypt(c)
    <2>1. call[c].pc = "encrypt" /\ reports' = reports /\ Moves(c, "write")
      BY <1>11, GoMoves DEF Encrypt, Steps
    <2> QED
      BY <1>0, <2>1 DEF Moves, SameMemory, SameRequest, Over
  <1>12. CASE Write(c)
    <2>1. call[c].pc = "write" /\ reports' = reports /\ lost' = lost /\ ~call[c].pending
      BY <1>0, <1>12 DEF Write
    <2>2. \/ call'[c] = Ended("done")
          \/ call'[c].pc = "failKey" /\ SameMemory(call'[c], call[c])
      BY <1>12, <2>1, WriteMoves, ThrowMoves DEF Moves
    <2> QED
      BY <1>0, <2>1, <2>2, EndedFields DEF SameMemory, SameRequest, Over
  <1>13. CASE Error(c)
    <2>1. /\ call[c].pc \in {"read", "pending", "generate", "markValid", "complete", "write"}
          /\ reports' = reports /\ lost' = lost
      BY <1>13 DEF Error
    <2> QED
      BY <1>0, <1>13, <2>1, ThrowMoves DEF Error, Moves, SameMemory, SameRequest, Over
  <1>14. CASE Abandon(c)
    <2>1. call'[c] = Ended("abandoned")
      BY <1>14, AbandonBecomes DEF Becomes
    <2> QED
      BY <2>1, EndedFields DEF Over
  <1> QED
    BY <1>1, <1>2, <1>3, <1>4, <1>5, <1>6, <1>7, <1>8, <1>9, <1>10, <1>11, <1>12, <1>13,
       <1>14 DEF StepOf

\* Every step keeps that of every call.
LEMMA CallInvStep ==
    ASSUME TypeOK, CallInv, Next
    PROVE  CallInv'
  <1>1. ASSUME NEW c \in Calls, StepOf(c), NEW d \in Calls
        PROVE  CallIsConsistent(d)' /\ ReportFollowsCall(d)'
    <2>1. CASE d = c
      BY <1>1, <2>1, CallStepKeeps
    <2>2. CASE d # c
      <3>1. Untouched(d) /\ CallIsConsistent(d) /\ ReportFollowsCall(d)
        BY <1>1, <2>2, CallsAreApart DEF CallInv
      <3>2. ReportFollowsCall(d)'
        BY <3>1 DEF Untouched, ReportFollowsCall
      <3>3. call[d].pc = "read" => call'[d].overtaken = call[d].overtaken
        <4>1. call[d].overtaken \in BOOLEAN
          BY DEF TypeOK, CallState
        <4>2. call[d].pc = "read" => ~HoldsSecret(d)
          BY DEF HoldsSecret
        <4> QED
          BY <3>1, <4>1, <4>2 DEF Untouched
      <3>4. CallIsConsistent(d)'
        BY <3>1, <3>3 DEF Untouched, CallIsConsistent
      <3> QED
        BY <3>2, <3>4
    <2> QED
      BY <2>1, <2>2
  <1>2. ASSUME NEW k \in Keys, Forget(k)
        PROVE  CallInv'
    BY <1>2 DEF Forget, CallInv, CallIsConsistent, ReportFollowsCall
  <1> QED
    BY <1>1, <1>2, StepCases DEF CallInv

-------------------------------------------------------------------------------
(* Keys and the calls that claimed them.                                   *)

ClaimInv == \A k \in Keys : ClaimFollowsCall(k)

\* Settling a key changes its status and no other key.
LEMMA SettleFields ==
    ASSUME TypeOK, NEW c \in Calls, NEW status, Settle(c, status), call[c].key \in Keys
    PROVE  /\ claims'[call[c].key].status = status
           /\ claims'[call[c].key].owner = claims[call[c].key].owner
           /\ claims'[call[c].key].op = claims[call[c].key].op
           /\ \A x \in Keys \ {call[c].key} : claims'[x] = claims[x]
  BY DEF TypeOK, Settle, Claim

\* A key changes by its holder, or by a call that claims it.
LEMMA OnlyHolderSettles ==
    ASSUME TypeOK, CallInv, NEW c \in Calls, StepOf(c), NEW k \in Keys, claims[k].owner # c
    PROVE  claims'[k] = claims[k] \/ \E op \in Ops, openai \in BOOLEAN : Start(c, op, k, openai)
  <1>1. CASE Complete(c) \/ FailKey(c) \/ Write(c)
    <2>1. call[c].key \in Keys
      BY <1>1 DEF CallInv, CallIsConsistent, Complete, FailKey, Write, At, Over
    <2>2. claims' = claims \/ (HoldsClaim(c) /\ \E status \in {"completed", "failed"} : Settle(c, status))
      BY <1>1 DEF Complete, FailKey, Write
    <2> QED
      BY <2>1, <2>2, SettleFields DEF HoldsClaim
  <1>2. CASE \E x \in Keys, op \in Ops, openai \in BOOLEAN : Start(c, op, x, openai)
    <2> PICK x \in Keys, op \in Ops, openai \in BOOLEAN : Start(c, op, x, openai)
      BY <1>2
    <2>1. x # k => claims'[k] = claims[k]
      BY DEF Start, TypeOK
    <2> QED
      BY <2>1
  <1>3. CASE claims' = claims
    BY <1>3
  <1> QED
    BY <1>1, <1>2, <1>3 DEF StepOf, Replay, Refuse, Read, CreatePending, Generate,
       MarkValid, FailReport, MarkInvalid, Encrypt, Error, Abandon

\* The step of a call to its own key.
LEMMA OwnClaimFollows ==
    ASSUME TypeOK, CallInv, NEW c \in Calls, StepOf(c), NEW k \in Keys,
           ClaimFollowsCall(k), claims[k].owner = c
    PROVE  ClaimFollowsCall(k)'
  <1> USE DEF ClaimFollowsCall, At
  <1>0. /\ CallIsConsistent(c) /\ ReportFollowsCall(c) /\ CallIsConsistent(c)' /\ ReportFollowsCall(c)'
        /\ claims[k] \in Claim /\ c # NoCall /\ call[c].pc # "start"
        /\ call[c].pc \notin Over => call[c].key = k /\ call[c].op = claims[k].op
    BY CallStepKeeps, NullAssumption DEF CallInv, TypeOK
  <1>1. ASSUME NEW step \in Steps \ {"start", "done", "markInvalid"},
               claims' = claims, reports' = reports, lost' = lost \/ lost' = lost \cup {c},
               call[c].pc \notin Over \cup {"markInvalid"},
               call'[c].pc = step, call'[c].key = call[c].key, call'[c].op = call[c].op
        PROVE  ClaimFollowsCall(k)'
    BY <1>0, <1>1 DEF Over
  <1>2. CASE Read(c) \/ Encrypt(c) \/ Error(c)
    <2>1. /\ claims' = claims /\ reports' = reports /\ lost' = lost
          /\ call[c].pc \notin Over \cup {"markInvalid"}
      BY <1>2 DEF Read, Encrypt, Error, Over
    <2>2. /\ call'[c].pc \in {"pending", "write", "failReport", "failKey"}
          /\ call'[c].key = call[c].key /\ call'[c].op = call[c].op
      BY <1>2, ReadMoves, ThrowMoves, GoMoves DEF Encrypt, Error, Moves, SameMemory, SameRequest, Steps
    <2> QED
      BY <1>1, <2>1, <2>2 DEF Steps
  <1>3. CASE CreatePending(c)
    <2>1. /\ claims' = claims /\ call[c].pc = "pending" /\ reports[c] = "none"
          /\ lost' = lost \/ lost' = lost \cup {c}
      BY <1>0, <1>3 DEF CreatePending, Acknowledge, ReportFollowsCall
    <2>2. /\ call'[c].pc \in {"generate", "failReport", "failKey"}
          /\ call'[c].key = call[c].key /\ call'[c].op = call[c].op
      BY <1>3, CreateMoves, ThrowMoves DEF Moves, SameMemory, SameRequest
    <2> QED
      BY <1>0, <2>1, <2>2 DEF Over
  <1>4. CASE \E outcome \in Outcomes : Generate(c, outcome)
    <2>1. /\ claims' = claims /\ reports' = reports /\ lost' = lost
          /\ call[c].pc \notin Over \cup {"markInvalid"}
      BY <1>4 DEF Generate, Over
    <2>2. /\ call'[c].pc \in {"failReport", "failKey", "markValid", "complete"}
          /\ call'[c].key = call[c].key /\ call'[c].op = call[c].op
      BY <1>4, GenerateMoves DEF SameRequest
    <2> QED
      BY <1>1, <2>1, <2>2 DEF Steps
  <1>5. CASE MarkValid(c)
    <2>1. /\ claims' = claims /\ reports' = reports /\ lost' = lost
          /\ call[c].pc \notin Over \cup {"markInvalid"}
      BY <1>5 DEF MarkValid, Over
    <2>2. /\ call'[c].pc \in {"failReport", "failKey", "complete"}
          /\ call'[c].key = call[c].key /\ call'[c].op = call[c].op
      BY <1>5, ThrowMoves, GoMoves DEF MarkValid, Moves, SameMemory, SameRequest, Steps
    <2> QED
      BY <1>1, <2>1, <2>2 DEF Steps
  <1>6. CASE Complete(c)
    <2>1. call[c].pc = "complete" /\ call[c].key = k
      BY <1>0, <1>6 DEF Complete, Over
    <2>2. HoldsClaim(c)
      BY <2>1 DEF HoldsClaim
    <2>3. Settle(c, "completed") /\ reports'[c] = "completed"
      BY <1>6, <2>2 DEF Complete, TypeOK
    <2>4. \/ call'[c] = Ended("done")
          \/ /\ call'[c].pc \in {"failReport", "failKey"}
             /\ call'[c].key = call[c].key /\ call'[c].op = call[c].op
      BY <1>6, <2>2, StopBecomes, ThrowMoves
         DEF Complete, Acknowledge, Becomes, Moves, SameMemory, SameRequest
    <2>5. /\ claims'[k].status = "completed" /\ claims'[k].owner = c
          /\ claims'[k].op = claims[k].op
      BY <2>1, <2>3, SettleFields
    <2> QED
      BY <1>0, <2>1, <2>3, <2>4, <2>5, EndedFields DEF Over
  <1>7. CASE Write(c) /\ Accepts(c)
    <2>1. /\ call[c].pc = "write" /\ call[c].key = k /\ claims[k].op # "report"
      BY <1>0, <1>7 DEF Write, Over, CallIsConsistent
    <2>2. HoldsClaim(c)
      BY <2>1 DEF HoldsClaim
    <2>3. Settle(c, "completed")
      BY <1>7, <2>2 DEF Write
    <2>4. \/ call'[c] = Ended("done")
          \/ call'[c].pc = "failKey" /\ SameMemory(call'[c], call[c])
      BY <1>7, <2>2, WriteMoves
    <2>5. /\ claims'[k].status = "completed" /\ claims'[k].owner = c
          /\ claims'[k].op = claims[k].op
      BY <2>1, <2>3, SettleFields
    <2> QED
      BY <1>0, <2>1, <2>4, <2>5, EndedFields DEF Over, SameMemory, SameRequest
  <1>8. CASE Write(c) /\ ~Accepts(c)
    <2>1. /\ claims' = claims /\ reports' = reports /\ lost' = lost /\ call[c].pc = "write"
      BY <1>8 DEF Write
    <2>2. /\ call'[c].pc \in {"failReport", "failKey"}
          /\ call'[c].key = call[c].key /\ call'[c].op = call[c].op
      BY <1>8, WriteMoves, ThrowMoves DEF Moves, SameMemory, SameRequest
    <2> QED
      BY <1>1, <2>1, <2>2 DEF Steps, Over
  <1>9. CASE FailReport(c)
    <2>1. /\ call[c].pc = "failReport" /\ claims' = claims /\ lost' = lost
          /\ Moves(c, "failKey")
      BY <1>9, GoMoves DEF FailReport, Steps
    <2>2. reports[c] = "completed" => c \in lost
      BY <1>0, <2>1 DEF ReportFollowsCall
    <2> QED
      BY <1>0, <2>1, <2>2 DEF Moves, SameMemory, SameRequest, Over
  <1>10. CASE FailKey(c)
    <2>1. call[c].pc = "failKey" /\ call[c].key = k
      BY <1>0, <1>10 DEF FailKey, Over
    <2>2. HoldsClaim(c)
      BY <2>1 DEF HoldsClaim
    <2>3. Settle(c, "failed")
      BY <1>10, <2>2 DEF FailKey
    <2>4. Moves(c, "markInvalid") \/ call'[c] = Ended("done")
      BY <1>10, GoMoves, StopBecomes DEF FailKey, Becomes, Steps
    <2>5. /\ claims'[k].status = "failed" /\ claims'[k].owner = c
          /\ claims'[k].op = claims[k].op
      BY <2>1, <2>3, SettleFields
    <2> QED
      BY <1>0, <2>1, <2>4, <2>5, EndedFields DEF Over, Moves, SameMemory, SameRequest
  <1>11. CASE MarkInvalid(c)
    <2>1. /\ call[c].pc = "markInvalid" /\ claims' = claims /\ reports' = reports /\ lost' = lost
          /\ call'[c].pc = "done"
      BY <1>11, StopBecomes, EndedFields DEF MarkInvalid, Becomes, Over
    <2> QED
      BY <1>0, <2>1 DEF Over
  <1>12. CASE Abandon(c)
    <2>1. /\ claims' = claims /\ reports' = reports /\ lost' = lost /\ call'[c].pc = "abandoned"
      BY <1>12, AbandonBecomes, EndedFields DEF Abandon, Becomes, Over
    <2> QED
      BY <1>0, <2>1 DEF Over
  <1>13. ~\E x \in Keys : Replay(c, x) \/ Refuse(c, x) \/
            \E op \in Ops, openai \in BOOLEAN : Start(c, op, x, openai)
    BY <1>0 DEF Replay, Refuse, Start
  <1> QED
    BY <1>2, <1>3, <1>4, <1>5, <1>6, <1>7, <1>8, <1>9, <1>10, <1>11, <1>12, <1>13 DEF StepOf

\* Every step keeps keys in line with their holders.
LEMMA ClaimInvStep ==
    ASSUME TypeOK, CallInv, ClaimInv, Next
    PROVE  ClaimInv'
  <1>1. ASSUME NEW c \in Calls, StepOf(c), NEW k \in Keys
        PROVE  ClaimFollowsCall(k)'
    <2> DEFINE d == claims[k].owner
    <2>0. ClaimFollowsCall(k) /\ claims[k] \in Claim
      BY DEF ClaimInv, TypeOK
    <2>1. CASE d = c
      BY <1>1, <2>0, <2>1, OwnClaimFollows
    <2>2. CASE d # c
      <3>1. claims'[k] = claims[k] \/ \E op \in Ops, openai \in BOOLEAN : Start(c, op, k, openai)
        BY <1>1, <2>2, OnlyHolderSettles DEF TypeOK
      <3>2. CASE claims'[k] = claims[k]
        <4>1. d \in Calls => Untouched(d)
          BY <1>1, <2>2, CallsAreApart
        <4> QED
          BY <2>0, <3>2, <4>1 DEF ClaimFollowsCall, Untouched
      <3>3. ASSUME NEW op \in Ops, NEW openai \in BOOLEAN, Start(c, op, k, openai)
            PROVE  ClaimFollowsCall(k)'
        <4>1. Begun(c, op, k, openai)
          BY <3>3, StartBegins
        <4>2. claims'[k] = [op |-> op, status |-> "processing", owner |-> c]
          BY <3>3 DEF Start, TypeOK
        <4> QED
          BY <4>1, <4>2, NullAssumption DEF Begun, ClaimFollowsCall, Over
      <3> QED
        BY <3>1, <3>2, <3>3
    <2> QED
      BY <2>1, <2>2
  <1>2. ASSUME NEW x \in Keys, Forget(x), NEW k \in Keys
        PROVE  ClaimFollowsCall(k)'
    <2>1. claims'[k] = claims[k] \/ claims'[k] = NoClaim
      BY <1>2 DEF Forget, TypeOK
    <2>2. call' = call /\ reports' = reports /\ lost' = lost /\ ClaimFollowsCall(k)
      BY <1>2 DEF Forget, ClaimInv
    <2> QED
      BY <2>1, <2>2, NullAssumption DEF ClaimFollowsCall, NoClaim
  <1> QED
    BY <1>1, <1>2, StepCases DEF ClaimInv

-------------------------------------------------------------------------------
(* What callers are told.                                                  *)

\* A completed report stays completed, but for a lost acknowledgement.
LEMMA CompletedIsKept ==
    ASSUME TypeOK, CallInv, NEW c \in Calls, StepOf(c), NEW d \in Calls,
           reports[d] = "completed" \/ d \in lost
    PROVE  reports'[d] = "completed" \/ d \in lost'
  <1>1. CASE d # c
    BY <1>1, CallsAreApart DEF Untouched
  <1>2. CASE d = c
    <2>1. lost \subseteq lost'
      BY DEF StepOf, Start, Replay, Refuse, Read, CreatePending, Complete, Acknowledge,
         Generate, MarkValid, FailReport, FailKey, MarkInvalid, Encrypt, Write, Error, Abandon
    <2>2. CASE reports' = reports
      BY <2>1, <2>2
    <2>3. CASE CreatePending(c)
      BY <1>2, <2>1, <2>3 DEF CallInv, ReportFollowsCall, CreatePending, At
    <2>4. CASE Complete(c)
      BY <1>2, <2>1, <2>4 DEF Complete, TypeOK
    <2>5. CASE FailReport(c)
      BY <1>2, <2>1, <2>5 DEF CallInv, ReportFollowsCall, FailReport, At
    <2> QED
      BY <2>2, <2>3, <2>4, <2>5 DEF StepOf, Start, Replay, Refuse, Read, Generate, MarkValid,
         FailKey, MarkInvalid, Encrypt, Write, Error, Abandon
  <1> QED
    BY <1>1, <1>2

\* Every step keeps reports that were handed out completed.
LEMMA HandedOutStep ==
    ASSUME TypeOK, CallInv, ClaimInv, HandedOutReportIsCompleted, Next
    PROVE  HandedOutReportIsCompleted'
  <1>1. ASSUME NEW c \in Calls, StepOf(c), NEW e \in Calls, answer'[e] # NoCall
        PROVE  reports'[answer'[e]] = "completed" \/ answer'[e] \in lost'
    <2>1. CASE answer'[e] = answer[e]
      <3>1. answer[e] \in Calls
        BY <1>1, <2>1 DEF TypeOK
      <3>2. reports[answer[e]] = "completed" \/ answer[e] \in lost
        BY <1>1, <2>1 DEF HandedOutReportIsCompleted
      <3> QED
        BY <1>1, <2>1, <3>1, <3>2, CompletedIsKept
    <2>2. CASE Complete(c)
      <3>1. answer'[e] = answer[e] \/ (answer'[e] = c /\ reports'[c] = "completed")
        BY <2>2 DEF Complete, TypeOK
      <3> QED
        BY <2>1, <3>1
    <2>3. ASSUME NEW k \in Keys, Replay(c, k), answer'[e] # answer[e]
          PROVE  reports'[answer'[e]] = "completed" \/ answer'[e] \in lost'
      <3>1. /\ claims[k].status = "completed" /\ claims[k].op = "report"
            /\ answer'[e] = claims[k].owner
            /\ reports' = reports /\ lost' = lost
        BY <1>1, <2>3 DEF Replay, Replays, TypeOK
      <3>2. claims[k].owner \in Calls
        BY <1>1, <3>1 DEF TypeOK, Claim
      <3> QED
        BY <3>1, <3>2 DEF ClaimInv, ClaimFollowsCall
    <2> QED
      BY <1>1, <2>1, <2>2, <2>3 DEF StepOf, Start, Refuse, Read, CreatePending, Generate,
         MarkValid, FailReport, FailKey, MarkInvalid, Encrypt, Write, Error, Abandon
  <1>2. ASSUME NEW k \in Keys, Forget(k)
        PROVE  HandedOutReportIsCompleted'
    BY <1>2 DEF Forget, HandedOutReportIsCompleted
  <1> QED
    BY <1>1, <1>2, StepCases DEF HandedOutReportIsCompleted

\* Every step keeps failed keys without live reports.
LEMMA FailedKeyStep ==
    ASSUME TypeOK, CallInv, ClaimInv, FailedKeyHasNoLiveReport, Next
    PROVE  FailedKeyHasNoLiveReport'
  <1>1. ASSUME NEW c \in Calls, StepOf(c), NEW k \in Keys, claims'[k].status = "failed"
        PROVE  reports'[claims'[k].owner] \in {"none", "failed"} \/ claims'[k].owner \in lost'
    <2> DEFINE d == claims[k].owner
    <2>1. ClaimFollowsCall(k) /\ claims[k] \in Claim
      BY DEF ClaimInv, TypeOK
    <2>2. CASE claims'[k] = claims[k]
      <3>1. /\ d \in Calls /\ call[d].pc \in Over \cup {"markInvalid"}
            /\ reports[d] \in {"none", "failed"} \/ d \in lost
        BY <1>1, <2>1, <2>2 DEF ClaimFollowsCall, Claim, FailedKeyHasNoLiveReport
      <3>2. CASE d # c
        BY <1>1, <2>2, <3>1, <3>2, CallsAreApart DEF Untouched
      <3>3. CASE d = c
        <4>1. MarkInvalid(c) \/ Abandon(c)
          BY <1>1, <3>1, <3>3 DEF StepOf, Start, Replay, Refuse, Read, CreatePending, Complete,
             Generate, MarkValid, FailReport, FailKey, Encrypt, Write, Error, At, Over
        <4> QED
          BY <2>2, <3>1, <4>1 DEF MarkInvalid, Abandon
      <3> QED
        BY <3>2, <3>3
    <2>3. CASE FailKey(c) /\ claims'[k] # claims[k]
      <3>1. /\ call[c].pc = "failKey" /\ HoldsClaim(c) /\ Settle(c, "failed")
            /\ reports' = reports /\ lost' = lost
        BY <2>3 DEF FailKey, At
      <3>2. call[c].key \in Keys /\ (reports[c] \in {"none", "failed"} \/ c \in lost)
        BY <3>1 DEF CallInv, CallIsConsistent, ReportFollowsCall, Over
      <3>3. k = call[c].key /\ claims'[k].owner = c
        BY <2>3, <3>1, <3>2, SettleFields DEF HoldsClaim
      <3> QED
        BY <3>1, <3>2, <3>3
    <2>4. CASE Complete(c) \/ Write(c)
      <3>1. call[c].key \in Keys
        BY <2>4 DEF CallInv, CallIsConsistent, Complete, Write, At, Over
      <3>2. claims' = claims \/ Settle(c, "completed")
        BY <2>4 DEF Complete, Write
      <3>3. claims'[k] = claims[k]
        BY <1>1, <3>1, <3>2, SettleFields
      <3> QED
        BY <2>2, <3>3
    <2>5. ASSUME NEW x \in Keys, NEW op \in Ops, NEW openai \in BOOLEAN, Start(c, op, x, openai)
          PROVE  claims'[k] = claims[k]
      BY <1>1, <2>5 DEF Start, TypeOK
    <2> QED
      BY <1>1, <2>2, <2>3, <2>4, <2>5 DEF StepOf, Replay, Refuse, Read, CreatePending, Generate,
         MarkValid, FailReport, MarkInvalid, Encrypt, Error, Abandon
  <1>2. ASSUME NEW x \in Keys, Forget(x)
        PROVE  FailedKeyHasNoLiveReport'
    BY <1>2 DEF Forget, FailedKeyHasNoLiveReport, NoClaim, TypeOK
  <1> QED
    BY <1>1, <1>2, StepCases DEF FailedKeyHasNoLiveReport

-------------------------------------------------------------------------------
(* The credential and those who use it.                                    *)

\* A credential changes by a status of some call's secret, or by an accepted
\* write.
LEMMA CredentialChanges ==
    ASSUME TypeOK, NEW c \in Calls, StepOf(c)
    PROVE  \/ credential' = credential /\ verdict' = verdict
           \/ /\ credential # NoCredential
              /\ \/ call[c].pc = "markValid" /\ credential'.status = "valid"
                 \/ call[c].pc = "markInvalid" /\ credential'.status = "invalid"
              /\ credential'.id = credential.id /\ credential'.version = credential.version
              /\ credential'.secret = credential.secret
              /\ verdict'.secret = call[c].secret /\ verdict'.outcome = call[c].outcome
              /\ verdict'.overtaken = call[c].overtaken
           \/ Write(c) /\ Accepts(c) /\ HoldsClaim(c) /\ verdict' = verdict
  <1>1. ASSUME NEW status, credential # NoCredential, Mark(c, status)
        PROVE  /\ credential'.status = status
               /\ credential'.id = credential.id /\ credential'.version = credential.version
               /\ credential'.secret = credential.secret
               /\ verdict'.secret = call[c].secret /\ verdict'.outcome = call[c].outcome
               /\ verdict'.overtaken = call[c].overtaken
    <2>1. credential \in Credential
      BY <1>1, CredentialType
    <2> QED
      BY <1>1, <2>1 DEF Mark, Credential
  <1>2. CASE MarkValid(c)
    BY <1>1, <1>2 DEF MarkValid, At
  <1>3. CASE MarkInvalid(c)
    BY <1>1, <1>3 DEF MarkInvalid, At
  <1>4. CASE Write(c)
    BY <1>4 DEF Write
  <1> QED
    BY <1>2, <1>3, <1>4 DEF StepOf, Start, Replay, Refuse, Read, CreatePending, Complete,
       Generate, FailReport, FailKey, Encrypt, Error, Abandon

\* A writer holds no secret.
LEMMA WriterHoldsNone ==
    ASSUME TypeOK, CallInv, NEW c \in Calls, Write(c), Accepts(c), HoldsClaim(c)
    PROVE  ~HoldsSecret(c)'
  <1>1. call[c].openai = FALSE
    BY DEF CallInv, CallIsConsistent, Write, At, TypeOK, CallState
  <1>2. call'[c].openai = FALSE
    BY <1>1, WriteMoves, EndedFields DEF Over, SameMemory, SameRequest
  <1> QED
    BY <1>2 DEF HoldsSecret

HeldInv == \A c \in Calls : HeldSecretIsStored(c)

\* A step of the holder itself, unless it writes.
LEMMA OwnHeldStep ==
    ASSUME TypeOK, CallInv, HeldInv, NEW c \in Calls, StepOf(c),
           ~(Write(c) /\ Accepts(c) /\ HoldsClaim(c))
    PROVE  HeldSecretIsStored(c)'
  <1>0. HeldSecretIsStored(c) /\ call[c] \in CallState /\ CallIsConsistent(c)
    BY DEF HeldInv, TypeOK, CallInv
  <1>14. credential' # NoCredential =>
            credential # NoCredential /\ credential'.secret = credential.secret
    BY CredentialChanges
  <1>1. ASSUME HoldsSecret(c), call[c].pc # "failKey", SameRequest(call'[c], call[c]),
               call'[c].secret = call[c].secret
        PROVE  HeldSecretIsStored(c)'
    BY <1>0, <1>14, <1>1 DEF SameRequest, HeldSecretIsStored
  <1>2. ASSUME ~HoldsSecret(c)'
        PROVE  HeldSecretIsStored(c)'
    BY <1>2 DEF HeldSecretIsStored
  <1>3. ASSUME call'[c].openai = FALSE
        PROVE  HeldSecretIsStored(c)'
    BY <1>2, <1>3 DEF HoldsSecret
  <1>4. call[c].openai \in BOOLEAN
    BY <1>0 DEF CallState
  <1>5. CASE \E x \in Keys, op \in Ops, openai \in BOOLEAN : Start(c, op, x, openai)
    <2> PICK x \in Keys, op \in Ops, openai \in BOOLEAN : Start(c, op, x, openai)
      BY <1>5
    <2>1. Begun(c, op, x, openai)
      BY StartBegins
    <2> QED
      BY <1>2, <2>1 DEF Begun, HoldsSecret
  <1>6. CASE \E x \in Keys : Replay(c, x) \/ Refuse(c, x)
    BY <1>3, <1>6, StopBecomes, EndedFields DEF Replay, Refuse, Becomes, Over
  <1>7. CASE Read(c)
    <2>1. call[c].pc = "read" /\ ~call[c].pending /\ call[c].outcome = "none"
          /\ credential' = credential
      BY <1>0, <1>7 DEF Read, At, CallIsConsistent
    <2>2. CASE Throw(c)
      BY <2>1, <2>2, ThrowMoves DEF Moves, SameMemory, HeldSecretIsStored
    <2>3. CASE ~Throw(c)
      <3>1. /\ call'[c].openai = call[c].openai
            /\ call[c].openai => call'[c].secret = credential'.secret
        BY <1>7, <2>1, <2>3, ReadMoves DEF SameRequest
      <3> QED
        BY <1>3, <1>4, <3>1 DEF HeldSecretIsStored
    <2> QED
      BY <2>2, <2>3
  <1>8. CASE CreatePending(c) \/ MarkValid(c) \/ Complete(c) \/ FailReport(c)
              \/ \E outcome \in Outcomes : Generate(c, outcome)
    <2>1. call[c].pc \in {"pending", "generate", "markValid", "complete", "failReport"}
      BY <1>8 DEF CreatePending, MarkValid, Complete, FailReport, Generate, At
    <2>2. \/ SameRequest(call'[c], call[c]) /\ call'[c].secret = call[c].secret
          \/ call'[c].openai = FALSE
      BY <1>8, CreateMoves, GenerateMoves, ThrowMoves, GoMoves, StopBecomes, EndedFields
         DEF MarkValid, Complete, Acknowledge, FailReport, Moves, Becomes, SameMemory, Over, Steps
    <2>3. call[c].openai => HoldsSecret(c)
      BY <2>1 DEF HoldsSecret
    <2>4. ~call[c].openai => HeldSecretIsStored(c)'
      BY <1>3, <1>4, <2>2 DEF SameRequest
    <2> QED
      BY <1>1, <1>3, <2>1, <2>2, <2>3, <2>4
  <1>9. CASE FailKey(c)
    <2>1. /\ call[c].pc = "failKey"
          /\ \/ call'[c].openai = FALSE
             \/ /\ call[c].outcome = "authentication"
                /\ SameRequest(call'[c], call[c]) /\ call'[c].secret = call[c].secret
      BY <1>9, GoMoves, StopBecomes, EndedFields
         DEF FailKey, At, Moves, Becomes, SameMemory, Over, Steps
    <2>2. call[c].openai => HoldsSecret(c)
      BY <2>1 DEF HoldsSecret
    <2> QED
      BY <1>0, <1>14, <1>3, <1>4, <2>1, <2>2 DEF SameRequest, HeldSecretIsStored
  <1>10. CASE MarkInvalid(c) \/ Abandon(c)
    BY <1>3, <1>10, StopBecomes, AbandonBecomes, EndedFields DEF MarkInvalid, Becomes, Over
  <1>11. CASE Encrypt(c) \/ Write(c)
    <2>1. ~call[c].openai
      BY <1>0, <1>11 DEF Encrypt, Write, At, CallIsConsistent
    <2>2. call'[c].openai = call[c].openai
      BY <1>11, GoMoves, WriteMoves, ThrowMoves
         DEF Encrypt, Moves, SameMemory, SameRequest, Steps
    <2> QED
      BY <1>3, <1>4, <2>1, <2>2
  <1>12. CASE Error(c)
    <2>1. SameMemory(call'[c], call[c]) /\ call'[c].pc \in {"failReport", "failKey"}
          /\ (call'[c].pc = "failReport" <=> call[c].pending)
          /\ call[c].pc \in {"read", "pending", "generate", "markValid", "complete", "write"}
      BY <1>12, ThrowMoves DEF Error, Moves
    <2>2. CASE call[c].openai /\ call[c].pc \in {"pending", "generate", "markValid", "complete"}
      BY <1>1, <2>1, <2>2 DEF HoldsSecret, SameMemory
    <2>3. CASE ~call[c].openai
      BY <1>3, <1>4, <2>1, <2>3 DEF SameMemory, SameRequest
    <2>4. CASE call[c].pc \in {"read", "write"}
      <3>1. call'[c].pc = "failKey" /\ call'[c].outcome = "none"
        BY <1>0, <2>1, <2>4 DEF CallIsConsistent, SameMemory
      <3> QED
        BY <3>1 DEF HeldSecretIsStored
    <2> QED
      BY <2>1, <2>2, <2>3, <2>4
  <1> QED
    BY <1>5, <1>6, <1>7, <1>8, <1>9, <1>10, <1>11, <1>12 DEF StepOf

\* A call that was not overtaken keeps holding the stored secret.
LEMMA HeldStep ==
    ASSUME TypeOK, CallInv, HeldInv, Next
    PROVE  HeldInv'
  <1>1. ASSUME NEW c \in Calls, StepOf(c), NEW d \in Calls
        PROVE  HeldSecretIsStored(d)'
    <2>0. HeldSecretIsStored(d) /\ call[d] \in CallState /\ CallIsConsistent(d)
      BY DEF HeldInv, TypeOK, CallInv
    <2>1. CASE Write(c) /\ Accepts(c) /\ HoldsClaim(c)
      <3>1. CASE d = c
        BY <2>1, <3>1, WriterHoldsNone DEF HeldSecretIsStored
      <3>2. CASE d # c
        <4>1. /\ HoldsSecret(d)' <=> HoldsSecret(d)
              /\ call'[d].overtaken = (call[d].overtaken \/ HoldsSecret(d))
          BY <2>1, <3>2, WriteMoves DEF Overtaken, HoldsSecret
        <4> QED
          BY <4>1 DEF HeldSecretIsStored
      <3> QED
        BY <3>1, <3>2
    <2>2. CASE ~(Write(c) /\ Accepts(c) /\ HoldsClaim(c))
      <3>1. credential' # NoCredential =>
                credential # NoCredential /\ credential'.secret = credential.secret
        BY <1>1, <2>2, CredentialChanges
      <3>2. CASE d # c
        <4>1. Untouched(d)
          BY <1>1, <3>2, CallsAreApart
        <4>2. call[d].overtaken => call'[d].overtaken
          BY <4>1 DEF Untouched
        <4>3. HoldsSecret(d)' <=> HoldsSecret(d)
          BY <4>1 DEF Untouched, HoldsSecret
        <4> QED
          BY <2>0, <3>1, <4>1, <4>2, <4>3 DEF Untouched, HeldSecretIsStored
      <3>3. CASE d = c
        BY <1>1, <2>2, <3>3, OwnHeldStep
      <3> QED
        BY <3>2, <3>3
    <2> QED
      BY <2>1, <2>2
  <1>2. ASSUME NEW k \in Keys, Forget(k)
        PROVE  HeldInv'
    BY <1>2 DEF Forget, HeldInv, HeldSecretIsStored, HoldsSecret
  <1> QED
    BY <1>1, <1>2, StepCases DEF HeldInv

\* Every step keeps the status that of the stored secret.
LEMMA StatusStep ==
    ASSUME TypeOK, CallInv, HeldInv, StatusIsOfStoredSecret, Next
    PROVE  StatusIsOfStoredSecret'
  <1>1. ASSUME NEW c \in Calls, StepOf(c)
        PROVE  StatusIsOfStoredSecret'
    <2>0. CallIsConsistent(c) /\ HeldSecretIsStored(c)
      BY DEF CallInv, HeldInv
    <2>1. CASE credential' = credential /\ verdict' = verdict
      BY <2>1 DEF StatusIsOfStoredSecret
    <2>2. CASE Write(c) /\ Accepts(c) /\ HoldsClaim(c)
      <3>1. credential' = NoCredential \/ credential'.status = "unverified"
        BY <2>2, WriteMoves, RotatedFields DEF Inserted, NewCredential
      <3> QED
        BY <3>1 DEF StatusIsOfStoredSecret
    <2>3. ASSUME credential # NoCredential, credential'.secret = credential.secret,
                 verdict'.secret = call[c].secret, verdict'.outcome = call[c].outcome,
                 verdict'.overtaken = call[c].overtaken,
                 \/ call[c].pc = "markValid" /\ credential'.status = "valid"
                 \/ call[c].pc = "markInvalid" /\ credential'.status = "invalid"
          PROVE  StatusIsOfStoredSecret'
      <3>1. HoldsSecret(c) /\ call[c].pc # "failKey"
        BY <2>0, <2>3 DEF CallIsConsistent, HoldsSecret
      <3>2. call[c].overtaken \/ call[c].secret = credential.secret
        BY <2>0, <2>3, <3>1 DEF HeldSecretIsStored
      <3>3. verdict'.outcome = IF credential'.status = "valid" THEN "ok" ELSE "authentication"
        BY <2>0, <2>3 DEF CallIsConsistent
      <3> QED
        BY <2>3, <3>2, <3>3 DEF StatusIsOfStoredSecret
    <2> QED
      BY <1>1, <2>1, <2>2, <2>3, CredentialChanges
  <1>2. ASSUME NEW k \in Keys, Forget(k)
        PROVE  StatusIsOfStoredSecret'
    BY <1>2 DEF Forget, StatusIsOfStoredSecret
  <1> QED
    BY <1>1, <1>2, StepCases

-------------------------------------------------------------------------------
(* Rows, versions and secrets.                                             *)

\* NameIsTaken in the next state.
WillBeTaken(d) ==
    d # NoCall => call'[d].pc \in Over \cup {"failKey", "markInvalid"}

\* A name that is taken stays taken.
LEMMA TakenStaysTaken ==
    ASSUME TypeOK, CallInv, NEW c \in Calls, StepOf(c), NEW d \in Calls \cup {NoCall},
           NameIsTaken(d)
    PROVE  WillBeTaken(d)
  <1>1. CASE d \in Calls /\ d # c
    BY <1>1, CallsAreApart DEF Untouched, NameIsTaken, WillBeTaken
  <1>2. CASE d = NoCall
    BY <1>2 DEF WillBeTaken
  <1>3. CASE d = c
    <2>1. call[c].pc \in Over \cup {"failKey", "markInvalid"}
      BY <1>3, NullAssumption DEF NameIsTaken
    <2>2. FailKey(c) \/ MarkInvalid(c) \/ Abandon(c)
      BY <2>1 DEF StepOf, Start, Replay, Refuse, Read, CreatePending, Complete, Generate,
         MarkValid, FailReport, Encrypt, Write, Error, At, Over
    <2>3. call'[c].pc \in Over \cup {"markInvalid"}
      BY <2>2, GoMoves, StopBecomes, AbandonBecomes, EndedFields
         DEF FailKey, MarkInvalid, Moves, Becomes, Over, Steps
    <2> QED
      BY <1>3, <2>3 DEF WillBeTaken
  <1> QED
    BY <1>1, <1>2, <1>3

\* Where the caller's view of the credential comes from.
LEMMA SeenChanges ==
    ASSUME TypeOK, NEW c \in Calls, StepOf(c)
    PROVE  \/ call'[c].seen = call[c].seen /\ call'[c].expected = call[c].expected
              /\ (call'[c].pc \in {"encrypt", "write"} => call[c].pc = "encrypt")
           \/ call'[c].pc \in Over /\ call'[c].seen.id = NoCall
           \/ \E op \in Ops, k \in Keys, openai \in BOOLEAN :
                 Start(c, op, k, openai) /\ Begun(c, op, k, openai)
  <1>1. CASE \E k \in Keys, op \in Ops, openai \in BOOLEAN : Start(c, op, k, openai)
    BY <1>1, StartBegins
  <1>2. CASE \E k \in Keys : Replay(c, k) \/ Refuse(c, k)
    BY <1>2, StopBecomes, EndedFields DEF Replay, Refuse, Becomes, Over
  <1>3. CASE Read(c) \/ CreatePending(c) \/ Error(c)
    BY <1>3, ReadMoves, CreateMoves, ThrowMoves DEF Error, Moves, SameMemory, SameRequest
  <1>4. CASE \E outcome \in Outcomes : Generate(c, outcome)
    BY <1>4, GenerateMoves DEF SameRequest
  <1>5. CASE MarkValid(c)
    BY <1>5, ThrowMoves, GoMoves DEF MarkValid, Moves, SameMemory, SameRequest, Steps
  <1>6. CASE Complete(c)
    BY <1>6, ThrowMoves, StopBecomes, EndedFields
       DEF Complete, Acknowledge, Becomes, Moves, SameMemory, SameRequest, Over
  <1>7. CASE FailReport(c) \/ Encrypt(c)
    BY <1>7, GoMoves DEF FailReport, Encrypt, At, Moves, SameMemory, SameRequest, Steps
  <1>8. CASE FailKey(c)
    BY <1>8, GoMoves, StopBecomes, EndedFields
       DEF FailKey, Becomes, Moves, SameMemory, SameRequest, Over, Steps
  <1>9. CASE MarkInvalid(c) \/ Abandon(c)
    BY <1>9, StopBecomes, AbandonBecomes, EndedFields DEF MarkInvalid, Becomes, Over
  <1>10. CASE Write(c)
    BY <1>10, WriteMoves, ThrowMoves, EndedFields DEF Moves, SameMemory, SameRequest, Over
  <1> QED
    BY <1>1, <1>2, <1>3, <1>4, <1>5, <1>6, <1>7, <1>8, <1>9, <1>10 DEF StepOf

\* What a write makes of the row.
LEMMA WriteChanges ==
    ASSUME TypeOK, NEW c \in Calls, Write(c), Accepts(c), HoldsClaim(c)
    PROVE  \/ credential' = NoCredential
           \/ credential = NoCredential /\ credential'.id = c
           \/ /\ credential # NoCredential
              /\ credential'.id = credential.id /\ credential'.version = credential.version + 1
  <1>1. CASE call[c].op = "delete"
    BY <1>1, WriteMoves
  <1>2. CASE call[c].op # "delete" /\ credential = NoCredential
    BY <1>2, WriteMoves DEF Inserted, NewCredential
  <1>3. CASE call[c].op # "delete" /\ credential # NoCredential
    BY <1>3, WriteMoves, RotatedFields
  <1> QED
    BY <1>1, <1>2, <1>3

\* Every step keeps the names of rows and secrets taken.
LEMMA NamesStep ==
    ASSUME TypeOK, CallInv, NamesAreTaken, Next
    PROVE  NamesAreTaken'
  <1>1. ASSUME NEW c \in Calls, StepOf(c)
        PROVE  NamesAreTaken'
    <2>1. ASSUME credential' # NoCredential
          PROVE  WillBeTaken(credential'.id)
      <3>1. CASE credential # NoCredential /\ credential'.id = credential.id
        <4>1. NameIsTaken(credential.id) /\ credential.id \in Calls \cup {NoCall}
          BY <3>1, CredentialType DEF NamesAreTaken
        <4> QED
          BY <1>1, <3>1, <4>1, TakenStaysTaken
      <3>2. CASE Write(c) /\ Accepts(c) /\ HoldsClaim(c) /\ credential'.id = c
        <4>1. call'[c].pc \in Over \cup {"failKey"}
          BY <3>2, WriteMoves, EndedFields DEF Over
        <4> QED
          BY <3>2, <4>1 DEF WillBeTaken
      <3> QED
        BY <1>1, <2>1, <3>1, <3>2, CredentialChanges, WriteChanges
    <2>2. ASSUME NEW d \in Calls
          PROVE  WillBeTaken(call'[d].seen.id)
      <3>0. NameIsTaken(call[d].seen.id) /\ call[d].seen.id \in Calls \cup {NoCall}
        BY DEF NamesAreTaken, TypeOK, CallState, Seen
      <3>1. CASE call'[d].seen = call[d].seen
        BY <1>1, <3>0, <3>1, TakenStaysTaken
      <3>2. CASE call'[d].seen.id = NoCall
        BY <3>2 DEF WillBeTaken
      <3>3. CASE credential # NoCredential /\ call'[d].seen.id = credential.id
        <4>1. NameIsTaken(credential.id) /\ credential.id \in Calls \cup {NoCall}
          BY <3>3, CredentialType DEF NamesAreTaken
        <4> QED
          BY <1>1, <3>3, <4>1, TakenStaysTaken
      <3>4. CASE d # c
        BY <1>1, <3>1, <3>4, CallsAreApart DEF Untouched
      <3>5. CASE d = c
        BY <1>1, <3>1, <3>2, <3>3, <3>5, SeenChanges DEF Begun
      <3> QED
        BY <3>4, <3>5
    <2> QED
      BY <2>1, <2>2 DEF NamesAreTaken, NameIsTaken, WillBeTaken
  <1>2. ASSUME NEW k \in Keys, Forget(k)
        PROVE  NamesAreTaken'
    BY <1>2 DEF Forget, NamesAreTaken, NameIsTaken
  <1> QED
    BY <1>1, <1>2, StepCases

VersionInv == \A c \in Calls : VersionHasOneSecret(c)

\* Every step keeps one secret per version of a row.
LEMMA VersionStep ==
    ASSUME TypeOK, CallInv, NamesAreTaken, VersionInv, Next
    PROVE  VersionInv'
  <1>1. ASSUME NEW c \in Calls, StepOf(c), NEW d \in Calls,
               call'[d].pc \in {"encrypt", "write"}, credential' # NoCredential
        PROVE  /\ call'[d].expected = 0 => call'[d].seen.id # credential'.id
               /\ call'[d].seen.id = credential'.id =>
                    /\ call'[d].expected <= credential'.version
                    /\ call'[d].expected = credential'.version
                          => call'[d].seen.secret = credential'.secret
    <2>0. call[d].expected \in Nat /\ VersionHasOneSecret(d)
      BY DEF VersionInv, TypeOK, CallState
    <2>1. CASE /\ call'[d].seen = call[d].seen /\ call'[d].expected = call[d].expected
               /\ call[d].pc \in {"encrypt", "write"}
      <3>1. CASE credential # NoCredential /\ credential'.id = credential.id
                 /\ credential'.version = credential.version
                 /\ credential'.secret = credential.secret
        BY <2>0, <2>1, <3>1 DEF VersionHasOneSecret
      <3>2. CASE credential # NoCredential /\ credential'.id = credential.id
                 /\ credential'.version = credential.version + 1
        <4>1. credential.version \in Nat
          BY <3>2, CredentialType
        <4> QED
          BY <2>0, <2>1, <3>2, <4>1 DEF VersionHasOneSecret
      <3>3. CASE Write(c) /\ credential'.id = c
        <4>1. call[c].pc = "write" /\ c # NoCall
          BY <3>3, NullAssumption DEF Write, At
        <4>2. call[d].seen.id # c
          BY <4>1 DEF NamesAreTaken, NameIsTaken, Over
        <4> QED
          BY <2>1, <3>3, <4>2
      <3> QED
        BY <1>1, <3>1, <3>2, <3>3, CredentialChanges, WriteChanges
    <2>2. CASE d # c
      BY <1>1, <2>1, <2>2, CallsAreApart DEF Untouched
    <2>3. ASSUME d = c, NEW op \in Ops, NEW k \in Keys, NEW openai \in BOOLEAN,
                 Start(c, op, k, openai), Begun(c, op, k, openai)
          PROVE  /\ call'[d].expected = 0 => call'[d].seen.id # credential'.id
                 /\ call'[d].seen.id = credential'.id =>
                      /\ call'[d].expected <= credential'.version
                      /\ call'[d].expected = credential'.version
                            => call'[d].seen.secret = credential'.secret
      <3>1. credential' = credential
        BY <2>3 DEF Start
      <3>2. credential.version \in Nat \ {0}
        BY <1>1, <3>1, CredentialType
      <3> QED
        BY <1>1, <2>3, <3>1, <3>2 DEF Begun
    <2>4. CASE d = c
      BY <1>1, <2>1, <2>3, <2>4, SeenChanges DEF Over
    <2> QED
      BY <2>2, <2>4
  <1>2. ASSUME NEW k \in Keys, Forget(k)
        PROVE  VersionInv'
    BY <1>2 DEF Forget, VersionInv, VersionHasOneSecret
  <1> QED
    BY <1>1, <1>2, StepCases DEF VersionInv, VersionHasOneSecret

\* A write replaces the secret that its caller saw, or a row it never saw.
LEMMA UpdateIsNotLost ==
    ASSUME TypeOK, CallInv, VersionInv, NEW c \in Calls, Next,
           credential # NoCredential, credential' # credential,
           At(c, "write"), ~At(c, "write")'
    PROVE  call[c].seen.secret = credential.secret \/ call[c].seen.id # credential.id
  <1>1. ~\E k \in Keys : Forget(k)
    BY DEF Forget
  <1>2. PICK e \in Calls : StepOf(e)
    BY <1>1, StepCases
  <1>3. e = c
    <2>1. ASSUME e # c
          PROVE  FALSE
      <3>1. Untouched(c)
        BY <1>2, <2>1, CallsAreApart
      <3> QED
        BY <3>1 DEF Untouched, At
    <2> QED
      BY <2>1
  <1>4. Write(c) /\ Accepts(c)
    BY <1>2, <1>3, CredentialChanges DEF At
  <1>5. call[c].expected = credential.version
    BY <1>4 DEF Accepts, VersionMatches
  <1> QED
    BY <1>5 DEF VersionInv, VersionHasOneSecret, At

-------------------------------------------------------------------------------
(* Theorems.                                                               *)

\* The invariant holds before any call.
LEMMA InvariantInit ==
    ASSUME Init
    PROVE  IInv
  <1>1. TypeOK
    BY TypeInit
  <1>2. \A c \in Calls : call[c].pc = "start" /\ call[c].outcome = "none" /\ ~call[c].openai
                       /\ call[c].seen.id = NoCall /\ ~call[c].overtaken
                       /\ reports[c] = "none" /\ answer[c] = NoCall
    BY DEF Init, Unstarted
  <1>3. \A k \in Keys : claims[k].status = "none" /\ claims[k].owner = NoCall
    BY DEF Init, NoClaim
  <1>4. credential # NoCredential =>
            credential.id = NoCall /\ credential.status = "unverified"
    BY DEF Init, NewCredential
  <1>5. CallInv
    BY <1>2 DEF CallInv, CallIsConsistent, ReportFollowsCall, Over
  <1>6. ClaimInv
    BY <1>3, NullAssumption DEF ClaimInv, ClaimFollowsCall
  <1>7. HandedOutReportIsCompleted /\ FailedKeyHasNoLiveReport
    BY <1>2, <1>3 DEF HandedOutReportIsCompleted, FailedKeyHasNoLiveReport
  <1>8. HeldInv /\ VersionInv
    BY <1>2 DEF HeldInv, HeldSecretIsStored, HoldsSecret, VersionInv, VersionHasOneSecret
  <1>9. StatusIsOfStoredSecret /\ NamesAreTaken
    BY <1>2, <1>4 DEF StatusIsOfStoredSecret, NamesAreTaken, NameIsTaken
  <1> QED
    BY <1>1, <1>5, <1>6, <1>7, <1>8, <1>9 DEF IInv, ClaimInv, HeldInv, VersionInv

\* Every step keeps the invariant.
LEMMA InvariantStep ==
    ASSUME IInv, [Next]_vars
    PROVE  IInv'
  <1>1. CASE Next
    <2>1. TypeOK' /\ CallInv' /\ ClaimInv'
      BY <1>1, TypeStep, CallInvStep, ClaimInvStep DEF IInv, ClaimInv
    <2>2. HandedOutReportIsCompleted' /\ FailedKeyHasNoLiveReport'
      BY <1>1, HandedOutStep, FailedKeyStep DEF IInv, ClaimInv
    <2>3. HeldInv' /\ StatusIsOfStoredSecret'
      BY <1>1, HeldStep, StatusStep DEF IInv, HeldInv
    <2>4. NamesAreTaken' /\ VersionInv'
      BY <1>1, NamesStep, VersionStep DEF IInv, VersionInv
    <2> QED
      BY <2>1, <2>2, <2>3, <2>4 DEF IInv, ClaimInv, HeldInv, VersionInv
  <1>2. CASE UNCHANGED vars
    BY <1>2 DEF IInv, vars, TypeOK, CallInv, CallIsConsistent, ReportFollowsCall,
       ClaimFollowsCall, HandedOutReportIsCompleted, FailedKeyHasNoLiveReport,
       HeldSecretIsStored, HoldsSecret, StatusIsOfStoredSecret, NamesAreTaken, NameIsTaken,
       VersionHasOneSecret
  <1> QED
    BY <1>1, <1>2

\* The inductive invariant holds throughout report generation and the changes of
\* the credential.
THEOREM Invariant ==
    Spec => []IInv
  BY InvariantInit, InvariantStep, PTL DEF Spec

\* A report that a caller was handed by generate, or by a replay of its key,
\* stays completed, unless its generation lost the acknowledgement of a COMMIT.
THEOREM HandedOutReportsAreCompleted ==
    Spec => []HandedOutReportIsCompleted
  <1>1. IInv => HandedOutReportIsCompleted
    BY DEF IInv
  <1> QED
    BY <1>1, Invariant, PTL

\* The catch block of generate settles the report before the key, so a failed
\* key leaves neither a pending nor a completed report.
THEOREM FailedKeysHaveNoLiveReports ==
    Spec => []FailedKeyHasNoLiveReport
  <1>1. IInv => FailedKeyHasNoLiveReport
    BY DEF IInv
  <1> QED
    BY <1>1, Invariant, PTL

\* markStatus describes the stored secret, unless the call that wrote it had been
\* overtaken by store or delete.
THEOREM StatusesAreOfStoredSecrets ==
    Spec => []StatusIsOfStoredSecret
  <1>1. IInv => StatusIsOfStoredSecret
    BY DEF IInv
  <1> QED
    BY <1>1, Invariant, PTL

\* generate, store and delete settle what they began on every path on which the
\* process and the catch block survive.
THEOREM EndedCallsSettle ==
    Spec => []EndedCallsHaveSettled
  <1>1. IInv => EndedCallsHaveSettled
    BY NullAssumption DEF IInv, CallInv, ReportFollowsCall, ClaimFollowsCall,
       EndedCallsHaveSettled, At
  <1> QED
    BY <1>1, Invariant, PTL

\* The version that store and delete compare identifies the secret the caller
\* had seen, within the life of one row.
THEOREM UpdatesAreNotLost ==
    Spec => NoLostUpdate
  <1>1. IInv /\ [Next]_vars =>
          [\A c \in Calls :
             /\ credential # NoCredential /\ credential' # credential
             /\ At(c, "write") /\ ~At(c, "write")'
             => call[c].seen.secret = credential.secret
                \/ call[c].seen.id # credential.id]_vars
    BY UpdateIsNotLost DEF IInv, VersionInv
  <1> QED
    BY <1>1, Invariant, PTL DEF Spec, NoLostUpdate
===============================================================================
