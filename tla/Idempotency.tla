----------------------------- MODULE Idempotency -----------------------------
(***************************************************************************)
(* The idempotency protocol every mutation of the application runs:        *)
(* IdempotencyRepository in src/lib/db/repositories.ts (claim, complete,   *)
(* fail) and the way runIdempotentUpdate and its siblings in               *)
(* src/lib/application/workspace-service.ts drive it.                      *)
(*                                                                         *)
(* Calls are concurrent requests, in any number of server processes.  The  *)
(* claim is three autocommitted statements (DELETE, INSERT ... ON CONFLICT *)
(* DO NOTHING, SELECT) that all use the instant read when claim began, so  *)
(* calls interleave between them.  The mutation and complete share one     *)
(* database transaction.  A process may die anywhere, and the              *)
(* acknowledgement of a COMMIT may be lost on the way back.                *)
(***************************************************************************)
EXTENDS Naturals

CONSTANTS
    Calls,      \* invocations of one mutating operation in one workspace
    Keys,       \* idempotency keys
    Requests,   \* request bodies, up to equality of their hashes
    TTL,        \* retention of a key, in clock units
    MaxTime,    \* bound on the clock
    NoCall,     \* the absence of a call: no entity in a response
    Never,      \* the absence of an instant
    NoRow,      \* the absence of a row
    AckMayBeLost \* whether a COMMIT may succeed and yet report an error

ASSUME TimeAssumption == TTL \in Nat /\ MaxTime \in Nat
ASSUME AckAssumption == AckMayBeLost \in BOOLEAN

VARIABLES
    now,        \* the clock the servers share
    call,       \* call[c]: key, request, and the instant claim captured
    rows,       \* rows[k]: the row of idempotency_keys for k, or NoRow
    pc,         \* pc[c]: the next statement of c
    appliedAt,  \* history: when the effect of c was committed, or Never
    answer,     \* answer[c]: what the caller of c was told
    lost        \* history: the calls whose COMMIT succeeded, yet reported an error

vars == <<now, call, rows, pc, appliedAt, answer, lost>>

-------------------------------------------------------------------------------
(* Types.                                                                  *)

Statuses == {"processing", "completed", "failed"}

Steps == {"idle", "deleteExpired", "insert", "readExisting", "transaction",
          "fail", "done", "crashed"}

\* The id of a row is a fresh UUID made by the claim that inserts it: it is
\* represented by the call that owns it.
Row == [owner : Calls, hash : Requests, status : Statuses,
        entity : Calls \cup {NoCall}, expiresAt : Nat]

ASSUME NullAssumption == NoCall \notin Calls /\ Never \notin Nat /\ NoRow \notin Row

Unanswered == [kind |-> "none", entity |-> NoCall]
Refused    == [kind |-> "refused", entity |-> NoCall]
Result(d)  == [kind |-> "result", entity |-> d]
Answers    == [kind : {"none", "refused", "result"},
               entity : Calls \cup {NoCall}]

\* TYPE INVARIANT.
TypeOK ==
    /\ now \in Nat
    /\ call \in [Calls -> [key : Keys, request : Requests, at : Nat]]
    /\ rows \in [Keys -> Row \cup {NoRow}]
    /\ pc \in [Calls -> Steps]
    /\ appliedAt \in [Calls -> Nat \cup {Never}]
    /\ answer \in [Calls -> Answers]
    /\ lost \subseteq Calls

Init ==
    /\ now = 0
    /\ call \in [Calls -> [key : Keys, request : Requests, at : {0}]]
    /\ rows = [k \in Keys |-> NoRow]
    /\ pc = [c \in Calls |-> "idle"]
    /\ appliedAt = [c \in Calls |-> Never]
    /\ answer = [c \in Calls |-> Unanswered]
    /\ lost = {}

-------------------------------------------------------------------------------
(* Helpers.                                                                *)

Key(c) == call[c].key

Go(c, step) == pc' = [pc EXCEPT ![c] = step]

Reply(c, a) ==
    /\ answer' = [answer EXCEPT ![c] = a]
    /\ Go(c, "done")

Applied(c) == appliedAt[c] # Never

\* Slips a change of the code could make, kept for mutation checking.
ExpiredAlways(row, at) == TRUE
HoldsAnyRow(c) == rows[Key(c)] # NoRow
AnyRequest(c, row) == TRUE
NewRowUnhashed(c) == [owner |-> c, hash |-> NoCall, status |-> "processing",
                      entity |-> NoCall, expiresAt |-> call[c].at + TTL]

\* lt(idempotencyKeys.expiresAt, now), with the instant c captured.
Expired(row, at) == row.expiresAt < at

NewRow(c) == [owner |-> c, hash |-> call[c].request, status |-> "processing",
              entity |-> NoCall, expiresAt |-> call[c].at + TTL]

Settled(row, status, entity) ==
    [row EXCEPT !.status = status, !.entity = entity]

\* UPDATE ... WHERE id = c's row finds the row c inserted, if it is still there.
HoldsRow(c) == rows[Key(c)] # NoRow /\ rows[Key(c)].owner = c

SameRequest(c, row) == row.hash = call[c].request

-------------------------------------------------------------------------------
(* claim.                                                                  *)

Start(c) ==
    /\ pc[c] = "idle"
    /\ call' = [call EXCEPT ![c].at = now]
    /\ Go(c, "deleteExpired")
    /\ UNCHANGED <<now, rows, appliedAt, answer, lost>>

DeleteExpired(c) ==
    /\ pc[c] = "deleteExpired"
    /\ IF rows[Key(c)] # NoRow /\ Expired(rows[Key(c)], call[c].at)
         THEN rows' = [rows EXCEPT ![Key(c)] = NoRow]
         ELSE UNCHANGED rows
    /\ Go(c, "insert")
    /\ UNCHANGED <<now, call, appliedAt, answer, lost>>

InsertClaims(c) ==
    /\ pc[c] = "insert"
    /\ rows[Key(c)] = NoRow
    /\ rows' = [rows EXCEPT ![Key(c)] = NewRow(c)]
    /\ Go(c, "transaction")
    /\ UNCHANGED <<now, call, appliedAt, answer, lost>>

InsertConflicts(c) ==
    /\ pc[c] = "insert"
    /\ rows[Key(c)] # NoRow
    /\ Go(c, "readExisting")
    /\ UNCHANGED <<now, call, rows, appliedAt, answer, lost>>

\* The SELECT after a conflict: the stored response answers a call that asked
\* for the same thing; a vanished row, another request or an unfinished row
\* is an error to the caller.
ReadExisting(c) ==
    LET row == rows[Key(c)] IN
    /\ pc[c] = "readExisting"
    /\ \/ /\ row # NoRow
          /\ SameRequest(c, row)
          /\ row.status = "completed"
          /\ Reply(c, Result(row.entity))
       \/ /\ \/ row = NoRow
             \/ row # NoRow /\ ~SameRequest(c, row)
             \/ row # NoRow /\ row.status # "completed"
          /\ Reply(c, Refused)
    /\ UNCHANGED <<now, call, rows, appliedAt, lost>>

-------------------------------------------------------------------------------
(* The mutation.                                                           *)

\* The transaction: the mutation, its audit event, and complete by row id.
Commit(c) ==
    /\ pc[c] = "transaction"
    /\ HoldsRow(c)
    /\ rows' = [rows EXCEPT ![Key(c)] = Settled(@, "completed", c)]
    /\ appliedAt' = [appliedAt EXCEPT ![c] = now]
    /\ \/ /\ Reply(c, Result(c))
          /\ UNCHANGED lost
       \/ /\ AckMayBeLost
          /\ Go(c, "fail")
          /\ lost' = lost \cup {c}
          /\ UNCHANGED answer
    /\ UNCHANGED <<now, call>>

\* The mutation throws, complete finds no row, or the COMMIT is refused:
\* nothing of the transaction remains.
RollBack(c) ==
    /\ pc[c] = "transaction"
    /\ Go(c, "fail")
    /\ UNCHANGED <<now, call, rows, appliedAt, answer, lost>>

\* The catch block: fail by row id, whatever its status, then rethrow.  When
\* the row is gone, NotFound is thrown in place of the first error.
Fail(c) ==
    /\ pc[c] = "fail"
    /\ IF HoldsRow(c)
         THEN rows' = [rows EXCEPT ![Key(c)] = Settled(@, "failed", NoCall)]
         ELSE UNCHANGED rows
    /\ Reply(c, Refused)
    /\ UNCHANGED <<now, call, appliedAt, lost>>

-------------------------------------------------------------------------------
(* The environment.                                                        *)

\* The process of c dies, or loses the database, before it can answer.
Crash(c) ==
    /\ pc[c] \notin {"idle", "done", "crashed"}
    /\ Go(c, "crashed")
    /\ UNCHANGED <<now, call, rows, appliedAt, answer, lost>>

Tick ==
    /\ now < MaxTime
    /\ now' = now + 1
    /\ UNCHANGED <<call, rows, pc, appliedAt, answer, lost>>

CallStep(c) ==
    \/ Start(c) \/ DeleteExpired(c) \/ InsertClaims(c) \/ InsertConflicts(c)
    \/ ReadExisting(c) \/ Commit(c) \/ RollBack(c) \/ Fail(c)

Next == Tick \/ \E c \in Calls : CallStep(c) \/ Crash(c)

Spec == Init /\ [][Next]_vars

-------------------------------------------------------------------------------
(* Properties.                                                             *)

\* Two calls of one key both take effect only if the later effect comes after
\* the retention of the earlier key, counted from the start of the call that
\* claimed it: what the expiry test of claim and the row id of complete give
\* together, whatever was slow in between.
EffectsAreSeparated ==
    \A c, d \in Calls :
        (c # d /\ Key(c) = Key(d) /\ Applied(c) /\ Applied(d))
            => \/ appliedAt[d] > call[c].at + TTL
               \/ appliedAt[c] > call[d].at + TTL

\* A caller is only ever given a result that exists, that was made under its
\* own key, and for the request it sent.
ReplayIsSound ==
    \A c \in Calls :
        answer[c].kind = "result" =>
            LET d == answer[c].entity IN
            /\ d \in Calls
            /\ Applied(d)
            /\ Key(d) = Key(c)
            /\ call[d].request = call[c].request

\* A key marked failed stands for a mutation that left nothing behind: no
\* caller, whether it made the mutation or was replayed its response, was told
\* of a success that the key now denies, and no late catch block of another
\* call takes a success back.  The one exception is the call whose own COMMIT
\* reported an error after it had succeeded: its catch block marks the
\* completed row failed, also when a retry was answered from that row before;
\* that call itself is told of the error.
SuccessIsNotRevoked ==
    \A k \in Keys :
        (rows[k] # NoRow /\ rows[k].status = "failed")
            => /\ answer[rows[k].owner].kind # "result"
               /\ rows[k].owner \notin lost
                    => /\ ~Applied(rows[k].owner)
                       /\ \A c \in Calls : answer[c] # Result(rows[k].owner)

\* A call that has taken effect is the one its key still stands for, unless
\* the key's retention is over: no competitor can take over a live key.
EffectKeepsItsKey ==
    \A c \in Calls :
        Applied(c) =>
            \/ rows[Key(c)] # NoRow /\ rows[Key(c)].owner = c
            \/ now > call[c].at + TTL

\* The abstract promise, with the effect a key stands for read off the row of
\* the call that made it, whatever status a later fail gave that row.
Promise == INSTANCE EffectOnce WITH
    current <- [k \in Keys |->
                  IF rows[k] # NoRow /\ Applied(rows[k].owner)
                    THEN rows[k].owner ELSE NoCall]

\* Every step of the protocol is a step of the promise, or none.
KeepsPromise == Promise!Spec
===============================================================================
