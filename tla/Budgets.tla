------------------------------- MODULE Budgets -------------------------------
(***************************************************************************)
(* Budgets and their revisions under concurrent requests: createBudget,    *)
(* updateBudget and archiveWallet of                                       *)
(* src/lib/application/workspace-service.ts over BudgetRepository and      *)
(* BudgetRevisionRepository of src/lib/db/repositories.ts.                 *)
(*                                                                         *)
(* Each request is a database transaction at READ COMMITTED: every         *)
(* statement reads what is committed when it runs, an UPDATE waits for the *)
(* transaction that holds the row and then tests its WHERE on the new      *)
(* version, and the writes of a transaction become visible together.  A    *)
(* transaction that throws leaves nothing.  Claims and replays of these    *)
(* requests are Idempotency's; here every request is a fresh one.          *)
(*                                                                         *)
(* A budget has one scope level (createBudgetInputSchema), here a wallet   *)
(* or the workspace; periods are half open, in whole time units.           *)
(***************************************************************************)
EXTENDS Naturals, FiniteSets

CONSTANTS
    Txs,        \* concurrent requests
    BudgetIds,  \* ids of budgets that may be created
    Wallets,    \* wallets of the workspace
    Workspace,  \* the scope of a budget that has no wallet
    Horizon,    \* bound on periods
    MaxVersion, \* bound on the versions of a budget
    Keep,       \* a field an update leaves alone
    NoBudget,   \* a budget id that is not in use
    NoWallet    \* the wallet of a request that archives none

ASSUME BoundsAssumption ==
    Horizon \in Nat \ {0} /\ MaxVersion \in Nat \ {0}

VARIABLES
    budgets,    \* budgets[b]: the committed row of b, or NoBudget
    revisions,  \* the committed rows of budget_revisions
    archived,   \* the archived wallets
    tx          \* tx[t]: the request t is serving

vars == <<budgets, revisions, archived, tx>>

-------------------------------------------------------------------------------
(* Types.                                                                  *)

Period == {p \in [start : 0..Horizon, end : 0..Horizon] : p.start < p.end}
Scope == Wallets \cup {Workspace}
Status == {"active", "paused", "archived"}
Budget == [scope : Scope, period : Period, status : Status,
           version : 1..MaxVersion]

\* A revision has the version of the row that record was given and a snapshot
\* of its fields.  named is history: the version the request expected.
Revision == [budget : BudgetIds, version : 1..MaxVersion, named : 0..MaxVersion,
             snapshot : [scope : Scope, period : Period, status : Status]]

Change == [period : Period \cup {Keep}, status : Status \cup {Keep}]
NoChange == [period |-> Keep, status |-> Keep]

\* The values that stand for none are not among the values.
ASSUME NullsAssumption ==
    /\ NoBudget \notin Budget /\ NoBudget \notin BudgetIds
    /\ Keep \notin Period /\ Keep \notin Status
    /\ NoWallet \notin Wallets

\* writes[b]: the row of b the transaction has written and not yet committed;
\* inserts: the revisions it has inserted.  ahead is history: whether an update
\* expected a version that the budget it read did not have yet.
Transaction == [pc : {"idle", "insert", "check", "update", "list", "archive"},
                id : BudgetIds \cup {NoBudget},
                row : Budget \cup {NoBudget},
                expected : 0..MaxVersion,
                ahead : BOOLEAN,
                change : Change,
                wallet : Wallets \cup {NoWallet},
                todo : SUBSET (BudgetIds \X (1..MaxVersion)),
                writes : [BudgetIds -> Budget \cup {NoBudget}],
                inserts : SUBSET Revision]

\* TYPE INVARIANT.
TypeOK ==
    /\ budgets \in [BudgetIds -> Budget \cup {NoBudget}]
    /\ revisions \subseteq Revision
    /\ archived \subseteq Wallets
    /\ tx \in [Txs -> Transaction]

Idle == [pc |-> "idle", id |-> NoBudget, row |-> NoBudget, expected |-> 0,
         ahead |-> FALSE, change |-> NoChange, wallet |-> NoWallet, todo |-> {},
         writes |-> [b \in BudgetIds |-> NoBudget], inserts |-> {}]

Init ==
    /\ budgets = [b \in BudgetIds |-> NoBudget]
    /\ revisions = {}
    /\ archived = {}
    /\ tx = [t \in Txs |-> Idle]

-------------------------------------------------------------------------------
(* Helpers.                                                                *)

Exists(b) == budgets[b] # NoBudget
Live(row) == row.status # "archived"

\* Slips a change of the code could make, kept for mutation checking.
AnyVersion(t) == TRUE

\* lt(periodStart, end) and gt(periodEnd, start).
Meet(p, q) == p.start < q.end /\ p.end > q.start

\* findOverlap among the committed rows, leaving out the budget itself.
Overlapped(b, scope, period) ==
    \E c \in BudgetIds \ {b} :
        /\ Exists(c)
        /\ budgets[c].scope = scope
        /\ Live(budgets[c])
        /\ Meet(budgets[c].period, period)

\* The row an UPDATE of BudgetRepository.update writes.
Changed(row, change) ==
    [row EXCEPT !.period = IF change.period = Keep THEN @ ELSE change.period,
                !.status = IF change.status = Keep THEN @ ELSE change.status,
                !.version = @ + 1]

\* The row BudgetRevisionRepository.record inserts for the row an UPDATE or an
\* INSERT returned.
Recorded(b, row, named) ==
    [budget |-> b, version |-> row.version, named |-> named,
     snapshot |-> [scope |-> row.scope, period |-> row.period, status |-> row.status]]

\* budget_revision_budget_version_unique: an INSERT of a version that is there
\* throws, and the transaction can only roll back.
Taken(b, version) == \E r \in revisions : r.budget = b /\ r.version = version

\* Another transaction holds the row of b.
Locked(t, b) == \E u \in Txs \ {t} : tx[u].writes[b] # NoBudget

\* eq(budgets.version, input.expectedVersion), on the committed row.
VersionMatches(t) == budgets[tx[t].id].version = tx[t].expected

At(t, step) == tx[t].pc = step
Rest(t) == tx' = [tx EXCEPT ![t] = Idle]
Abort(t) == Rest(t) /\ UNCHANGED <<budgets, revisions, archived>>

-------------------------------------------------------------------------------
(* createBudget.                                                           *)

\* findOverlap, on the input.
CreateChecks(t, b, scope, period) ==
    /\ At(t, "idle")
    /\ ~Exists(b) /\ \A u \in Txs : tx[u].id # b
    /\ ~Overlapped(b, scope, period)
    /\ tx' = [tx EXCEPT ![t].pc = "insert", ![t].id = b,
                        ![t].row = [scope |-> scope, period |-> period,
                                    status |-> "active", version |-> 1]]
    /\ UNCHANGED <<budgets, revisions, archived>>

\* The insert, its revision, and the commit.
CreateCommits(t) ==
    /\ At(t, "insert")
    /\ ~Taken(tx[t].id, tx[t].row.version)
    /\ budgets' = [budgets EXCEPT ![tx[t].id] = tx[t].row]
    /\ revisions' = revisions \cup {Recorded(tx[t].id, tx[t].row, 0)}
    /\ Rest(t)
    /\ UNCHANGED archived

-------------------------------------------------------------------------------
(* updateBudget.                                                           *)

\* getById finds an archived budget, which refuses, or another.  The version a
\* caller expects may be any positive number: only the UPDATE looks at it.
UpdateReads(t, b, expected) ==
    /\ At(t, "idle")
    /\ Exists(b)
    /\ Live(budgets[b])
    /\ tx' = [tx EXCEPT ![t].pc = "check", ![t].id = b,
                        ![t].row = budgets[b], ![t].expected = expected,
                        ![t].ahead = expected > budgets[b].version]
    /\ UNCHANGED <<budgets, revisions, archived>>

\* findOverlap, on the period the budget will have, unless it is archived.
UpdateChecks(t, change) ==
    LET read == tx[t].row
        period == IF change.period = Keep THEN read.period ELSE change.period
    IN
    /\ At(t, "check")
    /\ change # NoChange
    /\ IF change.status # "archived" /\ Overlapped(tx[t].id, read.scope, period)
         THEN Abort(t)
         ELSE /\ tx' = [tx EXCEPT ![t].pc = "update", ![t].change = change,
                                  ![t].row = NoBudget]
              /\ UNCHANGED <<budgets, revisions, archived>>

\* The UPDATE, its revision and the commit, or OptimisticLockError.  It waits
\* for a transaction that has the row.
UpdateCommits(t) ==
    LET b == tx[t].id
        row == Changed(budgets[b], tx[t].change)
    IN
    /\ At(t, "update")
    /\ ~Locked(t, b)
    /\ budgets[b].version < MaxVersion
    /\ IF VersionMatches(t)
         THEN /\ ~Taken(b, row.version)
              /\ budgets' = [budgets EXCEPT ![b] = row]
              /\ revisions' = revisions \cup {Recorded(b, row, tx[t].expected)}
              /\ Rest(t)
              /\ UNCHANGED archived
         ELSE Abort(t)

-------------------------------------------------------------------------------
(* archiveWallet.                                                          *)

\* The UPDATE of the wallet, which holds its row until the end.
ArchiveBegins(t, w) ==
    /\ At(t, "idle")
    /\ w \notin archived
    /\ \A u \in Txs : tx[u].wallet # w
    /\ tx' = [tx EXCEPT ![t].pc = "list", ![t].wallet = w]
    /\ UNCHANGED <<budgets, revisions, archived>>

\* budgets.list, with the version each budget has now.
ArchiveLists(t) ==
    /\ At(t, "list")
    /\ tx' = [tx EXCEPT ![t].pc = "archive",
                        ![t].todo = {<<b, budgets[b].version>> : b \in
                            {c \in BudgetIds : /\ Exists(c)
                                               /\ budgets[c].scope = tx[t].wallet
                                               /\ Live(budgets[c])}}]
    /\ UNCHANGED <<budgets, revisions, archived>>

\* budgets.update of one listed budget, and its revision.  getById may find the
\* budget archived and the UPDATE another version: both abort the transaction.
ArchiveWrites(t, b, expected) ==
    LET row == Changed(budgets[b], [period |-> Keep, status |-> "archived"]) IN
    /\ At(t, "archive")
    /\ <<b, expected>> \in tx[t].todo
    /\ ~Locked(t, b)
    /\ budgets[b].version < MaxVersion
    /\ IF Live(budgets[b]) /\ budgets[b].version = expected
         THEN /\ ~Taken(b, row.version)
              /\ tx' = [tx EXCEPT
                    ![t].todo = @ \ {<<b, expected>>},
                    ![t].writes[b] = row,
                    ![t].inserts = @ \cup {Recorded(b, row, expected)}]
              /\ UNCHANGED <<budgets, revisions, archived>>
         ELSE Abort(t)

ArchiveCommits(t) ==
    /\ At(t, "archive")
    /\ tx[t].todo = {}
    /\ budgets' = [b \in BudgetIds |->
                    IF tx[t].writes[b] # NoBudget THEN tx[t].writes[b] ELSE budgets[b]]
    /\ revisions' = revisions \cup tx[t].inserts
    /\ archived' = archived \cup {tx[t].wallet}
    /\ Rest(t)

-------------------------------------------------------------------------------

\* A statement throws or the process dies: the transaction rolls back.
RollsBack(t) == ~At(t, "idle") /\ Abort(t)

\* createWallet brings an archived wallet back, without its budgets.
Restore(w) ==
    /\ w \in archived
    /\ \A u \in Txs : tx[u].wallet # w
    /\ archived' = archived \ {w}
    /\ UNCHANGED <<budgets, revisions, tx>>

Next ==
    \/ \E t \in Txs :
        \/ \E b \in BudgetIds, s \in Scope, p \in Period : CreateChecks(t, b, s, p)
        \/ CreateCommits(t)
        \/ \E b \in BudgetIds, v \in 1..MaxVersion : UpdateReads(t, b, v)
        \/ \E change \in Change : UpdateChecks(t, change)
        \/ UpdateCommits(t)
        \/ \E w \in Wallets : ArchiveBegins(t, w)
        \/ ArchiveLists(t)
        \/ \E b \in BudgetIds, v \in 1..MaxVersion : ArchiveWrites(t, b, v)
        \/ ArchiveCommits(t)
        \/ RollsBack(t)
    \/ \E w \in Wallets : Restore(w)

Spec == Init /\ [][Next]_vars

-------------------------------------------------------------------------------
(* Properties.                                                             *)

\* Two budgets of one scope that are both active or paused have disjoint
\* periods, which createBudget and updateBudget check.  It does not hold: two
\* concurrent requests both pass the check.
NoOverlap ==
    \A b, c \in BudgetIds :
        (/\ b # c /\ Exists(b) /\ Exists(c)
         /\ budgets[b].scope = budgets[c].scope
         /\ Live(budgets[b]) /\ Live(budgets[c]))
            => ~Meet(budgets[b].period, budgets[c].period)

RevisionsOf(b) == {r \in revisions : r.budget = b}

\* The history of a budget is the chain of its versions, from the first to the
\* one it has: concurrent updates and an archive leave no version out and
\* record none twice, each version was made by a request that had named the
\* version before it, so that no change is lost to another one, and the last
\* snapshot is the row.
HistoryIsComplete ==
    \A b \in BudgetIds : Exists(b) =>
        /\ {r.version : r \in RevisionsOf(b)} = 1..budgets[b].version
        /\ \A r, s \in RevisionsOf(b) : r.version = s.version => r = s
        /\ \A r \in RevisionsOf(b) :
              /\ r.named + 1 = r.version
              /\ r.version = budgets[b].version
                    => r = Recorded(b, budgets[b], r.named)

\* The step ends an update of b that named a version ahead of the one it read.
AheadUpdateEnds(b) ==
    \E t \in Txs : /\ At(t, "update") /\ tx[t].id = b /\ tx[t].ahead
                  /\ tx' = [tx EXCEPT ![t] = Idle]

\* An archived budget changes no more, also when the request that archives it
\* overtakes one that had read it before.  The exception is an update that
\* names a version ahead of the one it reads: getById then looks at another
\* row than the UPDATE changes, and an archived budget comes back.
ArchivedIsFinal ==
    [][\A b \in BudgetIds :
         (Exists(b) /\ ~Live(budgets[b]))
            => budgets'[b] = budgets[b] \/ AheadUpdateEnds(b)]_vars
===============================================================================
