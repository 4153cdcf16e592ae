-------------------------------- MODULE Risks --------------------------------
(***************************************************************************)
(* Risk analyses and risk signals under concurrent requests: analyzeRisks  *)
(* and updateRiskStatus of src/lib/application/workspace-service.ts over   *)
(* AnalysisRepository and RiskRepository of src/lib/db/repositories.ts.    *)
(*                                                                         *)
(* An analysis reads its input (a range and the payments, budgets and      *)
(* policies it finds), evaluates the rules, and stores the outcome in one  *)
(* transaction at READ COMMITTED: the snapshot, unique by the hash of the  *)
(* input; the signals, unique by rule id; and the end of every signal that *)
(* it did not find.  An INSERT or UPDATE holds the rows it has written to  *)
(* the end of its transaction; another one waits for them and then looks   *)
(* at them again.  The rules themselves are RiskRules.                     *)
(***************************************************************************)
EXTENDS Naturals, FiniteSets

CONSTANTS
    Calls,      \* concurrent requests
    Inputs,     \* inputs of an analysis: equal inputs have equal hashes
    Rules,      \* rule ids
    RulesOf,    \* RulesOf[i]: the ids that the rules yield on input i
    MaxVersion, \* bound on the version a user updates a signal to
    NoInput,    \* the input of a call that analyses none
    NoRule,     \* the rule of a call that updates none
    NoSignal    \* a rule that has no signal

ASSUME RulesOfAssumption == RulesOf \in [Inputs -> SUBSET Rules]
ASSUME BoundAssumption == MaxVersion \in Nat \ {0}

VARIABLES
    snapshots, \* the inputs that have a committed snapshot
    signals,   \* signals[r]: the committed signal of rule r, or NoSignal
    call       \* call[c]: what request c does

vars == <<snapshots, signals, call>>

-------------------------------------------------------------------------------
(* Types.                                                                  *)

Status == {"open", "investigating", "resolved"}

\* snapshot is the analysis that found the signal last.  by is history: who
\* set the status.
Signal == [status : Status, version : Nat \ {0}, snapshot : Inputs,
           by : {"analysis", "user"}]

\* The values that stand for none are not among the values.
ASSUME NullsAssumption ==
    NoInput \notin Inputs /\ NoRule \notin Rules /\ NoSignal \notin Signal

\* writes[r]: the row of r the transaction has written and not yet committed.
\* open[r] is history: the version of the signal of r when the statement of
\* resolveStale began, or 0 if it had none or was resolved.
Call == [pc : {"idle", "snapshot", "upsert", "resolve", "list", "update",
               "commit", "done", "replayed", "failed"},
         input : Inputs \cup {NoInput},
         todo : SUBSET Rules,
         open : [Rules -> Nat],
         rule : Rules \cup {NoRule},
         expected : Nat,
         status : Status,
         writes : [Rules -> Signal \cup {NoSignal}],
         result : SUBSET Rules]

\* TYPE INVARIANT.
TypeOK ==
    /\ snapshots \subseteq Inputs
    /\ signals \in [Rules -> Signal \cup {NoSignal}]
    /\ call \in [Calls -> Call]

NoWrites == [r \in Rules |-> NoSignal]
Idle == [pc |-> "idle", input |-> NoInput, todo |-> {},
         open |-> [r \in Rules |-> 0], rule |-> NoRule, expected |-> 0,
         status |-> "open", writes |-> NoWrites, result |-> {}]

Init ==
    /\ snapshots = {}
    /\ signals = [r \in Rules |-> NoSignal]
    /\ call = [c \in Calls |-> Idle]

-------------------------------------------------------------------------------
(* Helpers.                                                                *)

At(c, step) == call[c].pc = step
Exists(r) == signals[r] # NoSignal
Unresolved(signal) == signal # NoSignal /\ signal.status # "resolved"
Found(c) == RulesOf[call[c].input]

\* Another transaction holds the row of r, or the unique key of a new one.
Locked(c, r) == \E d \in Calls \ {c} : call[d].writes[r] # NoSignal

\* Another transaction has inserted a snapshot of this input.
Inserting(c) ==
    \E d \in Calls \ {c} :
        (At(d, "upsert") \/ At(d, "resolve")) /\ call[d].input = call[c].input

\* Slips a change of the code could make, kept for mutation checking.
AnyVersion(c) == TRUE
UpsertedUnversioned(c, r) ==
    IF Exists(r)
      THEN [signals[r] EXCEPT !.snapshot = call[c].input]
      ELSE [status |-> "open", version |-> 0, snapshot |-> call[c].input,
            by |-> "analysis"]
Reopened(c, r) ==
    IF Exists(r)
      THEN [signals[r] EXCEPT !.snapshot = call[c].input, !.status = "open"]
      ELSE [status |-> "open", version |-> 1, snapshot |-> call[c].input,
            by |-> "analysis"]
StaleIfOpen(c) ==
    {r \in Rules \ Found(c) : Exists(r) /\ signals[r].status = "open"}
ResolvedBySnapshot(c, r) ==
    [signals[r] EXCEPT !.status = "resolved", !.version = @ + 1, !.by = "analysis",
                       !.snapshot = call[c].input]

\* The row that upsertForSnapshot leaves: a new one, or the old one with the
\* new snapshot, whose status stays.
Upserted(c, r) ==
    IF Exists(r)
      THEN [signals[r] EXCEPT !.snapshot = call[c].input]
      ELSE [status |-> "open", version |-> 1, snapshot |-> call[c].input,
            by |-> "analysis"]

\* The WHERE of resolveStale, on the committed rows.
Stale(c) == {r \in Rules : Unresolved(signals[r]) /\ r \notin Found(c)}

Versions == [r \in Rules |-> IF Unresolved(signals[r]) THEN signals[r].version ELSE 0]

\* The row that resolveStale leaves.
Resolved(c, r) ==
    [signals[r] EXCEPT !.status = "resolved", !.version = @ + 1, !.by = "analysis"]

\* The row that updateStatus leaves.
Updated(c, r) ==
    [signals[r] EXCEPT !.status = call[c].status, !.version = @ + 1, !.by = "user"]

\* eq(riskSignals.version, input.expectedVersion), on the committed row.
VersionMatches(c) == signals[call[c].rule].version = call[c].expected

Put(c, r, row) == [call[c] EXCEPT !.writes[r] = row, !.todo = @ \ {r}]
End(c, pc, result) == [Idle EXCEPT !.pc = pc, !.input = call[c].input,
                                   !.result = result]
Do(c, record) == call' = [call EXCEPT ![c] = record]
Free(c) == At(c, "idle") \/ At(c, "done") \/ At(c, "replayed") \/ At(c, "failed")

-------------------------------------------------------------------------------
(* analyzeRisks.                                                           *)

\* The reads before the transaction, in any state of the facts, and the rules
\* evaluated on them.
Analyze(c, input) ==
    /\ Free(c)
    /\ Do(c, [Idle EXCEPT !.pc = "snapshot", !.input = input])
    /\ UNCHANGED <<snapshots, signals>>

\* A slip: createOrGet before the transaction instead of in it.
CreateOrGetOutside(c) ==
    /\ At(c, "snapshot")
    /\ IF call[c].input \in snapshots
         THEN Do(c, [call[c] EXCEPT !.pc = "list"])
         ELSE Do(c, [call[c] EXCEPT !.pc = "upsert", !.todo = Found(c)])
    /\ snapshots' = snapshots \cup {call[c].input}
    /\ UNCHANGED signals

\* The INSERT of createOrGet, which waits for one of the same input.  On a
\* conflict the analysis is a replay.
CreateOrGet(c) ==
    /\ At(c, "snapshot")
    /\ ~Inserting(c)
    /\ IF call[c].input \in snapshots
         THEN Do(c, [call[c] EXCEPT !.pc = "list"])
         ELSE Do(c, [call[c] EXCEPT !.pc = "upsert", !.todo = Found(c)])
    /\ UNCHANGED <<snapshots, signals>>

\* upsertForSnapshot reaches one of its rows.
Upsert(c, r) ==
    /\ At(c, "upsert")
    /\ r \in call[c].todo
    /\ ~Locked(c, r)
    /\ Do(c, Put(c, r, Upserted(c, r)))
    /\ UNCHANGED <<snapshots, signals>>

\* The UPDATE of resolveStale selects its rows.
SelectStale(c) ==
    /\ At(c, "upsert")
    /\ call[c].todo = {}
    /\ Do(c, [call[c] EXCEPT !.pc = "resolve", !.todo = Stale(c),
                             !.open = Versions])
    /\ UNCHANGED <<snapshots, signals>>

\* It reaches one of them, which may have been resolved meanwhile.
ResolveStale(c, r) ==
    /\ At(c, "resolve")
    /\ r \in call[c].todo
    /\ ~Locked(c, r)
    /\ IF Unresolved(signals[r])
         THEN Do(c, Put(c, r, Resolved(c, r)))
         ELSE Do(c, [call[c] EXCEPT !.todo = @ \ {r}])
    /\ UNCHANGED <<snapshots, signals>>

\* risks.list of a replay, filtered by the rules it has evaluated itself.
List(c) ==
    /\ At(c, "list")
    /\ Do(c, End(c, "replayed", {r \in Found(c) : Exists(r)}))
    /\ UNCHANGED <<snapshots, signals>>

-------------------------------------------------------------------------------
(* updateRiskStatus.                                                       *)

\* A user names a version of a signal it has seen: the current or an older.
Update(c, r, expected, status) ==
    /\ Free(c)
    /\ Exists(r)
    /\ expected <= signals[r].version /\ expected < MaxVersion
    /\ Do(c, [Idle EXCEPT !.pc = "update", !.rule = r, !.expected = expected,
                          !.status = status])
    /\ UNCHANGED <<snapshots, signals>>

\* The UPDATE, or OptimisticLockError.
UpdateStatus(c) ==
    LET r == call[c].rule IN
    /\ At(c, "update")
    /\ ~Locked(c, r)
    /\ IF VersionMatches(c)
         THEN Do(c, [Put(c, r, Updated(c, r)) EXCEPT !.pc = "commit"])
         ELSE Do(c, End(c, "failed", {}))
    /\ UNCHANGED <<snapshots, signals>>

-------------------------------------------------------------------------------

Written(c) == {r \in Rules : call[c].writes[r] # NoSignal}

\* The audit event and the COMMIT.
Commit(c) ==
    /\ At(c, "commit") \/ (At(c, "resolve") /\ call[c].todo = {})
    /\ signals' = [r \in Rules |-> IF r \in Written(c) THEN call[c].writes[r]
                                                       ELSE signals[r]]
    /\ snapshots' = snapshots \cup ({call[c].input} \ {NoInput})
    /\ Do(c, End(c, "done", IF At(c, "commit") THEN {call[c].rule} ELSE Found(c)))

\* A statement throws, the database ends a deadlock, or the process dies: the
\* transaction rolls back.
RollBack(c) ==
    /\ ~Free(c)
    /\ Do(c, End(c, "failed", {}))
    /\ UNCHANGED <<snapshots, signals>>

Next ==
    \E c \in Calls :
        \/ \E i \in Inputs : Analyze(c, i)
        \/ CreateOrGet(c)
        \/ \E r \in Rules : Upsert(c, r)
        \/ SelectStale(c)
        \/ \E r \in Rules : ResolveStale(c, r)
        \/ List(c)
        \/ \E r \in Rules, v \in 1..MaxVersion, s \in Status : Update(c, r, v, s)
        \/ UpdateStatus(c)
        \/ Commit(c)
        \/ RollBack(c)

Spec == Init /\ [][Next]_vars

-------------------------------------------------------------------------------
(* Properties.                                                             *)

\* What an analysis is answered holds a signal of every rule it found, also
\* when another analysis of the same input is under way or has stored it.
AnswerIsComplete ==
    \A c \in Calls :
        At(c, "replayed") \/ (At(c, "done") /\ call[c].input # NoInput)
            => call[c].result = Found(c)

\* A signal names a stored analysis whose input yields its rule: its evidence
\* can be found again, also after others resolved it.
SignalIsOfItsSnapshot ==
    \A r \in Rules :
        Exists(r) => /\ signals[r].snapshot \in snapshots
                     /\ r \in RulesOf[signals[r].snapshot]

\* c commits an analysis, or an update, in this step.
Analyses(c) == At(c, "resolve") /\ call'[c].pc = "done"
Updates(c) == At(c, "commit") /\ call'[c].pc = "done"

\* A resolved signal is opened by nobody but a user, and by that only at the
\* version this user saw.
OnlyUsersReopen ==
    [][\A r \in Rules :
         Exists(r) /\ ~Unresolved(signals[r]) /\ Unresolved(signals'[r])
            => \E c \in Calls : Updates(c) /\ call[c].rule = r]_vars

\* An update of a user replaces the very version the user saw: no analysis and
\* no other user came in between.
NoLostUpdate ==
    [][\A c \in Calls :
         Updates(c) => signals[call[c].rule].version = call[c].expected]_vars

\* When an analysis commits, every signal that was unresolved as resolveStale
\* began and that the analysis has not found is resolved, whatever users and
\* other analyses did meanwhile, unless it was resolved and then reopened, two
\* changes of its version.
StaleIsResolved ==
    [][\A c \in Calls : \A r \in Rules :
         Analyses(c) /\ call[c].open[r] # 0 /\ r \notin Found(c)
                     /\ Unresolved(signals'[r])
            => signals'[r].version >= call[c].open[r] + 2]_vars

\* When a new analysis commits, every rule it found has a signal that is not
\* resolved, unless a user resolved it: its answer counts "active fingerprints".
\* It does not hold: an analysis of a narrower range may have resolved it.
FoundIsActive ==
    [][\A c \in Calls :
         Analyses(c) => \A r \in Found(c) :
             Unresolved(signals'[r]) \/ signals'[r].by = "user"]_vars
===============================================================================
