------------------------------- MODULE Reports -------------------------------
(***************************************************************************)
(* Report generation and the AI credential it uses: ReportService.generate *)
(* in src/lib/reports/service.ts, AiCredentialService.store, delete and    *)
(* markStatus in src/lib/ai/credential-service.ts, over the repositories   *)
(* of src/lib/db/repositories.ts.                                          *)
(*                                                                         *)
(* Every statement or transaction of a call is a step, and the request to  *)
(* the provider is one between two transactions.  A process may die        *)
(* anywhere and leaves its rows behind.  The claim of an idempotency key   *)
(* is one step: its statements are the subject of Idempotency.             *)
(*                                                                         *)
(* A call names what it creates: its report, a credential row it inserted, *)
(* the secret it stored.                                                   *)
(***************************************************************************)
EXTENDS Naturals

CONSTANTS
    Calls,          \* requests to generate a report, store or delete the key
    Keys,           \* idempotency keys, each for one operation
    NoKey,          \* null
    NoCall,         \* null; also names the credential stored before all calls
    NoCredential,   \* no row of ai_provider_credentials
    AckMayBeLost    \* whether a COMMIT may succeed and yet report an error

ASSUME NullAssumption == NoCall \notin Calls /\ NoKey \notin Keys
ASSUME AckAssumption == AckMayBeLost \in BOOLEAN

VARIABLES
    claims,     \* claims[k]: the row of idempotency_keys
    credential, \* the row of ai_provider_credentials, for provider openai
    reports,    \* reports[c]: status of the report call c created
    call,       \* call[c]: where call c is, and what it holds in memory
    answer,     \* answer[c]: the report that call c returned to its caller
    lost,       \* generations that saw an error from a COMMIT that took effect
    verdict     \* what the status of the credential was last written from

vars == <<claims, credential, reports, call, answer, lost, verdict>>

-------------------------------------------------------------------------------
(* Types.                                                                  *)

Ops == {"report", "store", "delete"}

Claim == [op : Ops \cup {"none"},
          status : {"none", "processing", "completed", "failed"},
          owner : Calls \cup {NoCall}]

Credential == [id : Calls \cup {NoCall}, version : Nat \ {0},
               secret : Calls \cup {NoCall},
               status : {"unverified", "valid", "invalid"}]

\* A stored credential, as far as its users can tell rows and secrets apart.
Seen == [id : Calls \cup {NoCall}, secret : Calls \cup {NoCall}]

\* expected and seen are the version and the credential that the caller had on
\* its screen; pending is whether generate knows the report it began; outcome is
\* what the provider said, whatever fails afterwards; overtaken (a history, not in
\* the code) is whether the secret it holds has been replaced or deleted.
CallState == [pc : {"start", "read", "pending", "generate", "markValid", "complete",
                    "encrypt", "write", "failReport", "failKey", "markInvalid", "done", "abandoned"},
              op : Ops, key : Keys \cup {NoKey}, openai : BOOLEAN,
              secret : Calls \cup {NoCall}, pending : BOOLEAN,
              outcome : {"none", "ok", "authentication"},
              expected : Nat, seen : Seen, overtaken : BOOLEAN]

Verdict == [secret : Calls \cup {NoCall}, outcome : {"none", "ok", "authentication"},
            overtaken : BOOLEAN]

\* TYPE INVARIANT.
TypeOK ==
    /\ claims \in [Keys -> Claim]
    /\ credential \in Credential \cup {NoCredential}
    /\ reports \in [Calls -> {"none", "pending", "completed", "failed"}]
    /\ call \in [Calls -> CallState]
    /\ answer \in [Calls -> Calls \cup {NoCall}]
    /\ lost \in SUBSET Calls
    /\ verdict \in Verdict

NoClaim == [op |-> "none", status |-> "none", owner |-> NoCall]

NewCredential(id, secret) ==
    [id |-> id, version |-> 1, secret |-> secret, status |-> "unverified"]

Unstarted == [pc |-> "start", op |-> "report", key |-> NoKey, openai |-> FALSE,
              secret |-> NoCall, pending |-> FALSE, outcome |-> "none",
              expected |-> 0, seen |-> [id |-> NoCall, secret |-> NoCall],
              overtaken |-> FALSE]

Init ==
    /\ claims = [k \in Keys |-> NoClaim]
    /\ credential \in {NoCredential, NewCredential(NoCall, NoCall)}
    /\ reports = [c \in Calls |-> "none"]
    /\ call = [c \in Calls |-> Unstarted]
    /\ answer = [c \in Calls |-> NoCall]
    /\ lost = {}
    /\ verdict = [secret |-> NoCall, outcome |-> "none", overtaken |-> FALSE]

-------------------------------------------------------------------------------
(* Helpers.                                                                *)

At(c, step) == call[c].pc = step
Go(c, step) == call' = [call EXCEPT ![c].pc = step]

\* The end of a call, and of its memory.
Ended(how) == [Unstarted EXCEPT !.pc = how]
Stop(c) == call' = [call EXCEPT ![c] = Ended("done")]

\* Updates of a key go by the id of the row that was claimed.
HoldsClaim(c) == claims[call[c].key].owner = c

\* Slips a change of the code could make, kept for mutation checking.
SkipReport(c) == "failKey"
AnyVersion(row, v) == TRUE
StatusKept(row, secret) == [row EXCEPT !.version = @ + 1, !.secret = secret]
ReplaysUnfinished(row) == row.status # "none"
UnversionedInsert(c) == [NewCredential(c, c) EXCEPT !.version = 0]
SettleNothing(c, status) == claims' = claims

Settle(c, status) == claims' = [claims EXCEPT ![call[c].key].status = status]

\* What the catch block of generate starts with; that of store and delete has
\* no report.
FirstOfCatch(c) == IF call[c].pending THEN "failReport" ELSE "failKey"

Throw(c) == Go(c, FirstOfCatch(c))

\* A transaction of c has committed: c goes on, or sees an error all the same.
Acknowledge(c, continue) ==
    \/ continue /\ UNCHANGED lost
    \/ AckMayBeLost /\ Throw(c) /\ lost' = lost \cup {c}

AfterGenerate(c, outcome) ==
    IF outcome = "authentication" THEN FirstOfCatch(c)
    ELSE IF call[c].openai THEN "markValid" ELSE "complete"

Replays(row) == row.status = "completed"

VersionMatches(row, v) == row.version = v

\* The SET of store: a new secret has not been verified.
Rotated(row, secret) == [row EXCEPT !.version = @ + 1, !.secret = secret,
                                    !.status = "unverified"]

Inserted(c) == NewCredential(c, c)

\* The calls that go on with a secret they have read.
HoldsSecret(c) ==
    /\ call[c].openai
    /\ call[c].pc \in {"pending", "generate", "markValid", "complete", "failReport",
                       "failKey", "markInvalid"}

Overtake(g) == [call[g] EXCEPT !.overtaken = @ \/ HoldsSecret(g)]

Mark(c, status) ==
    /\ credential' = [credential EXCEPT !.status = status]
    /\ verdict' = [secret |-> call[c].secret, outcome |-> call[c].outcome,
                   overtaken |-> call[c].overtaken]

-------------------------------------------------------------------------------
(* Every call begins with its claim.                                       *)

Start(c, op, k, openai) ==
    /\ At(c, "start")
    /\ openai => op = "report"
    /\ claims[k] = NoClaim
    /\ claims' = [claims EXCEPT ![k] = [op |-> op, status |-> "processing", owner |-> c]]
    /\ call' = [call EXCEPT ![c] =
         [Unstarted EXCEPT
            !.pc = CASE op = "report" -> "read" [] op = "store" -> "encrypt"
                     [] OTHER -> "write",
            !.op = op, !.key = k, !.openai = openai,
            !.expected = IF credential = NoCredential THEN 0 ELSE credential.version,
            !.seen = IF credential = NoCredential THEN @
                     ELSE [id |-> credential.id, secret |-> credential.secret]]]
    /\ UNCHANGED <<credential, reports, answer, lost, verdict>>

\* A completed key: generate returns the stored report as it is now.
Replay(c, k) ==
    /\ At(c, "start")
    /\ Replays(claims[k])
    /\ answer' = [answer EXCEPT ![c] =
                   IF claims[k].op = "report" THEN claims[k].owner ELSE NoCall]
    /\ Stop(c)
    /\ UNCHANGED <<claims, credential, reports, lost, verdict>>

\* A key that is processing or failed, or whose row holds another request.
Refuse(c, k) ==
    /\ At(c, "start")
    /\ claims[k] # NoClaim
    /\ Stop(c)
    /\ UNCHANGED <<claims, credential, reports, answer, lost, verdict>>

-------------------------------------------------------------------------------
(* ReportService.generate.                                                 *)

\* The summary, and getDecrypted when the provider is openai.
Read(c) ==
    /\ At(c, "read")
    /\ IF call[c].openai /\ credential = NoCredential
         THEN Throw(c)
         ELSE call' = [call EXCEPT ![c] =
                [@ EXCEPT !.pc = "pending",
                          !.secret = IF call[c].openai THEN credential.secret ELSE NoCall]]
    /\ UNCHANGED <<claims, credential, reports, answer, lost, verdict>>

\* pendingId is assigned after the transaction.
CreatePending(c) ==
    /\ At(c, "pending")
    /\ reports' = [reports EXCEPT ![c] = "pending"]
    /\ Acknowledge(c, call' = [call EXCEPT ![c] =
                        [@ EXCEPT !.pc = "generate", !.pending = TRUE]])
    /\ UNCHANGED <<claims, credential, answer, verdict>>

\* The provider's answer; the deterministic generator knows no authentication.
Generate(c, outcome) ==
    /\ At(c, "generate")
    /\ outcome = "authentication" => call[c].openai
    /\ call' = [call EXCEPT ![c] =
                  [@ EXCEPT !.pc = AfterGenerate(c, outcome), !.outcome = outcome]]
    /\ UNCHANGED <<claims, credential, reports, answer, lost, verdict>>

\* markStatus goes by provider, and throws when there is no row.
MarkValid(c) ==
    /\ At(c, "markValid")
    /\ IF credential = NoCredential
         THEN Throw(c) /\ UNCHANGED <<credential, verdict>>
         ELSE Mark(c, "valid") /\ Go(c, "complete")
    /\ UNCHANGED <<claims, reports, answer, lost>>

\* The report and the key in one transaction, which fails without the key's row.
Complete(c) ==
    /\ At(c, "complete")
    /\ IF HoldsClaim(c)
         THEN /\ reports' = [reports EXCEPT ![c] = "completed"]
              /\ Settle(c, "completed")
              /\ Acknowledge(c, Stop(c))
              /\ answer' = IF c \in lost' THEN answer ELSE [answer EXCEPT ![c] = c]
         ELSE /\ Throw(c)
              /\ UNCHANGED <<reports, claims, lost, answer>>
    /\ UNCHANGED <<credential, verdict>>

FailReport(c) ==
    /\ At(c, "failReport")
    /\ reports' = [reports EXCEPT ![c] = "failed"]
    /\ Go(c, "failKey")
    /\ UNCHANGED <<claims, credential, answer, lost, verdict>>

\* Only generate goes on, to tell a key that the provider rejected.
FailKey(c) ==
    /\ At(c, "failKey")
    /\ IF HoldsClaim(c)
         THEN /\ Settle(c, "failed")
              /\ IF call[c].outcome = "authentication" THEN Go(c, "markInvalid") ELSE Stop(c)
         ELSE Stop(c) /\ UNCHANGED claims
    /\ UNCHANGED <<credential, reports, answer, lost, verdict>>

\* An error of this update is logged and dropped.
MarkInvalid(c) ==
    /\ At(c, "markInvalid")
    /\ \/ credential # NoCredential /\ Mark(c, "invalid")
       \/ UNCHANGED <<credential, verdict>>
    /\ Stop(c)
    /\ UNCHANGED <<claims, reports, answer, lost>>

-------------------------------------------------------------------------------
(* AiCredentialService.                                                    *)

Encrypt(c) ==
    /\ At(c, "encrypt")
    /\ Go(c, "write")
    /\ UNCHANGED <<claims, credential, reports, answer, lost, verdict>>

\* Whether the guarded INSERT, UPDATE or DELETE finds its row as expected.
Accepts(c) ==
    IF call[c].op = "store" /\ call[c].expected = 0
      THEN credential = NoCredential
      ELSE credential # NoCredential /\ VersionMatches(credential, call[c].expected)

\* The transaction of store or of delete.
Write(c) ==
    /\ At(c, "write")
    /\ IF Accepts(c) /\ HoldsClaim(c)
         THEN /\ credential' = IF call[c].op = "delete" THEN NoCredential
                               ELSE IF credential = NoCredential THEN Inserted(c)
                               ELSE Rotated(credential, c)
              /\ Settle(c, "completed")
              /\ \E next \in {Ended("done")} \cup
                            IF AckMayBeLost THEN {[call[c] EXCEPT !.pc = "failKey"]} ELSE {} :
                   call' = [g \in Calls |-> IF g = c THEN next ELSE Overtake(g)]
         ELSE /\ Throw(c)
              /\ UNCHANGED <<credential, claims>>
    /\ UNCHANGED <<reports, answer, lost, verdict>>

-------------------------------------------------------------------------------
(* The environment.                                                        *)

\* A statement of a try block throws.
Error(c) ==
    /\ call[c].pc \in {"read", "pending", "generate", "markValid", "complete", "write"}
    /\ Throw(c)
    /\ UNCHANGED <<claims, credential, reports, answer, lost, verdict>>

\* The process dies, an update of the catch block throws, or so does the
\* encryption, which is not in the try block.
Abandon(c) ==
    /\ call[c].pc \notin {"start", "done", "abandoned"}
    /\ call' = [call EXCEPT ![c] = Ended("abandoned")]
    /\ UNCHANGED <<claims, credential, reports, answer, lost, verdict>>

\* The retention of a key is over, and another claim deletes its row.
Forget(k) ==
    /\ claims[k] # NoClaim
    /\ claims' = [claims EXCEPT ![k] = NoClaim]
    /\ UNCHANGED <<credential, reports, call, answer, lost, verdict>>

Next ==
    \/ \E c \in Calls :
         \/ \E k \in Keys :
              \/ \E op \in Ops, openai \in BOOLEAN : Start(c, op, k, openai)
              \/ Replay(c, k) \/ Refuse(c, k)
         \/ Read(c) \/ CreatePending(c) \/ MarkValid(c) \/ Complete(c)
         \/ \E outcome \in {"ok", "authentication"} : Generate(c, outcome)
         \/ FailReport(c) \/ FailKey(c) \/ MarkInvalid(c)
         \/ Encrypt(c) \/ Write(c)
         \/ Error(c) \/ Abandon(c)
    \/ \E k \in Keys : Forget(k)

Spec == Init /\ [][Next]_vars

-------------------------------------------------------------------------------
(* Properties.                                                             *)

\* A report that a caller has been handed, by its own call or by a replay, is
\* and stays completed, unless its generation lost the acknowledgement of a
\* COMMIT: then the catch block marks it failed under the reader's eyes.
HandedOutReportIsCompleted ==
    \A c \in Calls : answer[c] # NoCall =>
        reports[answer[c]] = "completed" \/ answer[c] \in lost

\* A key that reports a failure has left no report that is pending or completed.
FailedKeyHasNoLiveReport ==
    \A k \in Keys : claims[k].status = "failed" =>
        \/ reports[claims[k].owner] \in {"none", "failed"}
        \/ claims[k].owner \in lost

\* A change of the stored secret replaces the one that its caller had on the
\* screen, however many change it at once; only a row that was deleted and
\* inserted again, whose versions start anew, may carry another.
NoLostUpdate ==
    [][\A c \in Calls :
         /\ credential # NoCredential /\ credential' # credential
         /\ At(c, "write") /\ ~At(c, "write")'
         => call[c].seen.secret = credential.secret \/ call[c].seen.id # credential.id]_vars

\* The status of the stored secret is what the provider said of that secret,
\* unless the call that asked had been overtaken by a change of the secret.
StatusIsOfStoredSecret ==
    (credential # NoCredential /\ credential.status # "unverified") =>
        \/ verdict.overtaken
        \/ /\ verdict.secret = credential.secret
           /\ verdict.outcome = IF credential.status = "valid" THEN "ok"
                                ELSE "authentication"

\* A call that is over has settled what it began: its report is completed or
\* failed and its key as well, unless its process died, its catch block failed,
\* or it never learned that its report had begun.
EndedCallsHaveSettled ==
    \A c \in Calls : At(c, "done") =>
        /\ reports[c] = "pending" => c \in lost
        /\ \A k \in Keys : claims[k].owner = c => claims[k].status # "processing"
===============================================================================
