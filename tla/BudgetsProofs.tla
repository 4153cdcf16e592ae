---------------------------- MODULE BudgetsProofs ----------------------------
(***************************************************************************)
(* Proofs about Budgets, for any requests, budgets, wallets and bounds.    *)
(*                                                                         *)
(* What the archived budgets and the revisions rest on is the version: the *)
(* WHERE of BudgetRepository.update and the locks of the rows a            *)
(* transaction wrote.  IInv says what a transaction under way knows of the *)
(* committed rows when it writes.                                          *)
(***************************************************************************)
EXTENDS Budgets, TLAPS

USE BoundsAssumption, NullsAssumption

-------------------------------------------------------------------------------
(* The inductive invariant.                                                *)

Step(t) == tx[t].pc
Wrote(t, b) == tx[t].writes[b] # NoBudget
ArchivedRow(row) == [row EXCEPT !.status = "archived", !.version = @ + 1]

\* The version a budget has, and 0 for one that is not there yet.
Version(b) == IF Exists(b) THEN budgets[b].version ELSE 0

\* HistoryIsComplete, for the budgets that are not there yet as well: those
\* have no revision.
History ==
    \A b \in BudgetIds :
        /\ \A v \in 1..Version(b) : \E r \in revisions : r.budget = b /\ r.version = v
        /\ \A r \in revisions : r.budget = b =>
              /\ r.version \in 1..Version(b)
              /\ r.named + 1 = r.version
              /\ r.version = Version(b) => r = Recorded(b, budgets[b], r.named)
        /\ \A r, s \in revisions :
              (r.budget = b /\ s.budget = b /\ r.version = s.version) => r = s

\* A budget about to be inserted does not exist, and no other request is about
\* to insert it.
Creating ==
    \A t \in Txs : Step(t) = "insert" =>
        /\ tx[t].id \in BudgetIds /\ ~Exists(tx[t].id)
        /\ tx[t].row \in Budget /\ tx[t].row.version = 1
        /\ \A u \in Txs : (u # t /\ Step(u) = "insert") => tx[u].id # tx[t].id

\* A budget that still has the version its update expects has not been
\* archived since the update read it: archiving would have given it another.
\* An update that named a version ahead knows nothing.
Updating ==
    \A t \in Txs : Step(t) \in {"check", "update"} =>
        /\ tx[t].id \in BudgetIds /\ Exists(tx[t].id)
        /\ \/ tx[t].ahead
           \/ /\ tx[t].expected <= budgets[tx[t].id].version
              /\ tx[t].expected = budgets[tx[t].id].version => Live(budgets[tx[t].id])
        /\ Step(t) = "check" => tx[t].row \in Budget

\* A row written and not committed archives the committed row, and one
\* transaction at most has written it.
Archiving ==
    /\ \A t \in Txs : Step(t) \in {"list", "archive"} => tx[t].wallet \in Wallets
    /\ \A t \in Txs, b \in BudgetIds : Wrote(t, b) =>
        /\ Step(t) = "archive"
        /\ Exists(b) /\ Live(budgets[b])
        /\ budgets[b].version < MaxVersion
        /\ tx[t].writes[b] = ArchivedRow(budgets[b])
        /\ \A u \in Txs : u # t => ~Wrote(u, b)

\* A transaction has inserted the revisions of the rows it wrote, and no other.
Inserting ==
    \A t \in Txs :
        /\ \A b \in BudgetIds : Wrote(t, b) =>
              Recorded(b, tx[t].writes[b], budgets[b].version) \in tx[t].inserts
        /\ \A r \in tx[t].inserts :
              /\ Wrote(t, r.budget)
              /\ r = Recorded(r.budget, tx[t].writes[r.budget], budgets[r.budget].version)

\* A listed budget exists: no statement deletes a budget.
Listed == \A t \in Txs : \A e \in tx[t].todo : Exists(e[1])

IInv == TypeOK /\ History /\ Creating /\ Updating /\ Archiving /\ Inserting /\ Listed

-------------------------------------------------------------------------------
(* Rows.                                                                   *)

\* The row an update writes is a row, of the next version.
LEMMA ChangedRow ==
    ASSUME NEW row \in Budget, NEW change \in Change, row.version < MaxVersion
    PROVE  /\ Changed(row, change) \in Budget
           /\ Changed(row, change).version = row.version + 1
           /\ Changed(row, change).scope = row.scope
<1>1. /\ row.scope \in Scope /\ row.period \in Period /\ row.status \in Status
      /\ row.version \in 1..MaxVersion
      /\ DOMAIN row = {"scope", "period", "status", "version"}
  BY DEF Budget
<1>2. /\ change.period \in Period \cup {Keep}
      /\ change.status \in Status \cup {Keep}
  BY DEF Change
<1>3. row.version + 1 \in 1..MaxVersion
  BY <1>1
<1> DEFINE period == IF change.period = Keep THEN row.period ELSE change.period
           status == IF change.status = Keep THEN row.status ELSE change.status
<1>4. period \in Period /\ status \in Status
  BY <1>1, <1>2
<1>5. row = [scope |-> row.scope, period |-> row.period, status |-> row.status,
             version |-> row.version]
  BY DEF Budget
<1>6. Changed(row, change) = [row EXCEPT !.period = period, !.status = status,
                                         !.version = row.version + 1]
  BY <1>1, Zenon DEF Changed
<1> HIDE DEF period, status
<1>7. QED BY <1>1, <1>3, <1>4, <1>6 DEF Budget

\* The row archiveWallet writes is the archived row.
LEMMA ArchivedIsChanged ==
    ASSUME NEW row \in Budget, row.version < MaxVersion
    PROVE  /\ Changed(row, [period |-> Keep, status |-> "archived"]) = ArchivedRow(row)
           /\ ArchivedRow(row) \in Budget
           /\ ArchivedRow(row).version = row.version + 1
           /\ ArchivedRow(row).status = "archived"
           /\ ArchivedRow(row).scope = row.scope
<1> DEFINE change == [period |-> Keep, status |-> "archived"]
<1>1. Keep # "archived" BY DEF Status
<1>2. change \in Change BY DEF Change, Status
<1>3. Changed(row, change) = ArchivedRow(row)
  BY <1>1 DEF Changed, ArchivedRow, Budget
<1>4. ArchivedRow(row).status = "archived" BY DEF ArchivedRow, Budget
<1>5. /\ Changed(row, change) \in Budget
      /\ Changed(row, change).version = row.version + 1
      /\ Changed(row, change).scope = row.scope
  <2> HIDE DEF change
  <2>1. QED BY <1>2, ChangedRow
<1>6. QED BY <1>3, <1>4, <1>5

\* A request at rest is a transaction that has written nothing.
LEMMA IdleTransaction ==
    /\ Idle \in Transaction
    /\ Idle.pc = "idle"
    /\ \A b \in BudgetIds : Idle.writes[b] = NoBudget
    /\ Idle.todo = {} /\ Idle.inserts = {}
<1>1. NoChange \in Change BY DEF NoChange, Change
<1>2. QED BY <1>1 DEF Idle, Transaction

\* The revision of a row is a revision, of its budget and version.
LEMMA RecordedRevision ==
    ASSUME NEW b \in BudgetIds, NEW row \in Budget, NEW n \in 0..MaxVersion
    PROVE  /\ Recorded(b, row, n) \in Revision
           /\ Recorded(b, row, n).budget = b
           /\ Recorded(b, row, n).version = row.version
           /\ Recorded(b, row, n).named = n
  BY DEF Recorded, Revision, Budget

\* Rows of the next version that are recorded under the version before keep the
\* history complete.
LEMMA HistoryGrows ==
    ASSUME TypeOK, History, NEW W \in SUBSET BudgetIds,
           budgets' \in [BudgetIds -> Budget \cup {NoBudget}],
           \A b \in BudgetIds \ W : budgets'[b] = budgets[b],
           \A b \in W : budgets'[b] \in Budget /\ budgets'[b].version = Version(b) + 1,
           revisions' = revisions \cup {Recorded(b, budgets'[b], Version(b)) : b \in W}
    PROVE  History' /\ revisions' \subseteq Revision
<1>1. \A b \in BudgetIds : Version(b) \in 0..MaxVersion
  BY DEF Version, Exists, TypeOK, Budget
<1>2. \A b \in W : /\ Recorded(b, budgets'[b], Version(b)) \in Revision
                   /\ Recorded(b, budgets'[b], Version(b)).budget = b
                   /\ Recorded(b, budgets'[b], Version(b)).version = Version(b) + 1
                   /\ Recorded(b, budgets'[b], Version(b)).named = Version(b)
  BY <1>1, RecordedRevision
<1>3. revisions' \subseteq Revision
  BY <1>2 DEF TypeOK
<1>4. ASSUME NEW b \in BudgetIds
      PROVE  /\ \A v \in 1..Version(b)' : \E r \in revisions' : r.budget = b /\ r.version = v
             /\ \A r \in revisions' : r.budget = b =>
                   /\ r.version \in 1..Version(b)'
                   /\ r.named + 1 = r.version
                   /\ r.version = Version(b)' => r = Recorded(b, budgets'[b], r.named)
             /\ \A r, s \in revisions' :
                   (r.budget = b /\ s.budget = b /\ r.version = s.version) => r = s
  <2>1. CASE b \notin W
    <3>1. Version(b)' = Version(b) /\ budgets'[b] = budgets[b]
      BY <2>1 DEF Version, Exists
    <3>2. \A r : (r \in revisions' /\ r.budget = b) <=> (r \in revisions /\ r.budget = b)
      BY <1>2, <2>1
    <3>3. QED BY <3>1, <3>2 DEF History
  <2>2. CASE b \in W
    <3> DEFINE new == Recorded(b, budgets'[b], Version(b))
    <3>1. Version(b)' = Version(b) + 1
      BY <2>2 DEF Version, Exists
    <3>2. \A r : (r \in revisions' /\ r.budget = b)
                   <=> ((r \in revisions /\ r.budget = b) \/ r = new)
      BY <1>2, <2>2
    <3>3. new.version = Version(b) + 1 /\ new.named = Version(b) /\ new.budget = b
      BY <1>2, <2>2
    <3>4. new = Recorded(b, budgets'[b], new.named)
      BY <3>3
    <3>5. Version(b) \in Nat
      BY <1>1
    <3> HIDE DEF new
    <3>6. ASSUME NEW v \in 1..Version(b)'
          PROVE  \E r \in revisions' : r.budget = b /\ r.version = v
      <4>1. v \in 1..Version(b) \/ v = Version(b) + 1 BY <3>1, <3>5
      <4>2. QED BY <3>2, <3>3, <4>1 DEF History
    <3>7. ASSUME NEW r \in revisions', r.budget = b
          PROVE  /\ r.version \in 1..Version(b)' /\ r.named + 1 = r.version
                 /\ r.version = Version(b)' => r = Recorded(b, budgets'[b], r.named)
      <4>1. CASE r = new BY <3>1, <3>3, <3>4, <3>5, <4>1
      <4>2. CASE r \in revisions
        <5>1. r.version \in 1..Version(b) /\ r.named + 1 = r.version
          BY <3>7, <4>2 DEF History
        <5>2. QED BY <3>1, <3>5, <5>1
      <4>3. QED BY <3>2, <3>7, <4>1, <4>2
    <3>8. ASSUME NEW r \in revisions', NEW s \in revisions',
                 r.budget = b, s.budget = b, r.version = s.version
          PROVE  r = s
      <4>1. \A q \in revisions : q.budget = b => q.version # Version(b) + 1
        BY <3>5 DEF History
      <4>2. QED BY <3>2, <3>3, <3>8, <4>1 DEF History
    <3>9. QED BY <3>6, <3>7, <3>8
  <2>3. QED BY <2>1, <2>2
<1>5. History'
  BY <1>4 DEF History
<1>6. QED BY <1>3, <1>5

\* What the invariant keeps of the history is the property.
LEMMA HistoryIsWhole ==
    ASSUME TypeOK, History PROVE HistoryIsComplete
<1> DEFINE Versions(b) == {r.version : r \in RevisionsOf(b)}
           Once(b) == \A r, s \in RevisionsOf(b) : r.version = s.version => r = s
           Chain(b) == \A r \in RevisionsOf(b) :
                          /\ r.named + 1 = r.version
                          /\ r.version = budgets[b].version
                                => r = Recorded(b, budgets[b], r.named)
<1>1. ASSUME NEW b \in BudgetIds, Exists(b)
      PROVE  Versions(b) = 1..budgets[b].version /\ Once(b) /\ Chain(b)
  <2>1. Version(b) = budgets[b].version BY <1>1 DEF Version
  <2>2. \A r : r \in RevisionsOf(b) <=> r \in revisions /\ r.budget = b
    BY DEF RevisionsOf
  <2>3. Versions(b) = 1..budgets[b].version
    <3>1. \A r \in RevisionsOf(b) : r.version \in 1..budgets[b].version
      BY <2>1, <2>2 DEF History
    <3>2. \A v \in 1..budgets[b].version : \E r \in RevisionsOf(b) : r.version = v
      BY <2>1, <2>2 DEF History
    <3>3. QED BY <3>1, <3>2
  <2>4. Once(b) BY <2>2 DEF History
  <2>5. Chain(b) BY <2>1, <2>2 DEF History
  <2> HIDE DEF Versions, Once, Chain
  <2>6. QED BY <2>3, <2>4, <2>5
<1>2. HistoryIsComplete
        <=> \A b \in BudgetIds : Exists(b) =>
               Versions(b) = 1..budgets[b].version /\ Once(b) /\ Chain(b)
  BY DEF HistoryIsComplete
<1> HIDE DEF Versions, Once, Chain
<1>3. QED BY <1>1, <1>2

-------------------------------------------------------------------------------
(* Steps that leave the tables alone.                                      *)

\* A rollback keeps the invariant.
LEMMA AbortKeepsIInv ==
    ASSUME IInv, NEW t \in Txs, Abort(t)
    PROVE  IInv'
<1> USE DEF IInv, Step, Wrote, Exists
<1>1. /\ tx' = [tx EXCEPT ![t] = Idle]
      /\ UNCHANGED <<budgets, revisions, archived>>
  BY DEF Abort, Rest
<1>2. tx \in [Txs -> Transaction] BY DEF TypeOK
<1>3. tx'[t] = Idle /\ \A u \in Txs \ {t} : tx'[u] = tx[u]
  BY <1>1, <1>2
<1>4. TypeOK' BY <1>1, <1>2, IdleTransaction DEF TypeOK
<1>5. History' BY <1>1 DEF History, Version
<1>6. Creating' BY <1>1, <1>3, IdleTransaction DEF Creating
<1>7. Updating' BY <1>1, <1>3, IdleTransaction DEF Updating
<1>8. Archiving' BY <1>1, <1>3, IdleTransaction DEF Archiving
<1>9. Inserting' BY <1>1, <1>3, IdleTransaction DEF Inserting
<1>10. Listed' BY <1>1, <1>3, IdleTransaction DEF Listed
<1>11. QED BY <1>4, <1>5, <1>6, <1>7, <1>8, <1>9, <1>10

-------------------------------------------------------------------------------
(* Every step keeps the invariant.                                         *)

\* The invariant holds before any request.
LEMMA InitIInv ==
    ASSUME Init PROVE IInv
<1> USE DEF Init, IInv, Step, Wrote, Exists
<1>1. TypeOK
  BY IdleTransaction DEF TypeOK
<1>2. History
  BY DEF History, Version
<1>3. Creating /\ Updating /\ Archiving /\ Inserting /\ Listed
  BY IdleTransaction DEF Creating, Updating, Archiving, Inserting, Listed
<1>4. QED BY <1>1, <1>2, <1>3

\* A checked budget has an id of its own.
LEMMA CreateChecksKeepsIInv ==
    ASSUME IInv, NEW t \in Txs, NEW b \in BudgetIds, NEW s \in Scope, NEW p \in Period,
           CreateChecks(t, b, s, p)
    PROVE  IInv'
<1> USE DEF IInv, Step, Wrote, Exists, At
<1> DEFINE row == [scope |-> s, period |-> p, status |-> "active", version |-> 1]
<1>1. /\ tx' = [tx EXCEPT ![t].pc = "insert", ![t].id = b, ![t].row = row]
      /\ UNCHANGED <<budgets, revisions, archived>>
      /\ tx[t].pc = "idle" /\ ~Exists(b) /\ \A u \in Txs : tx[u].id # b
  BY DEF CreateChecks
<1>2. row \in Budget
  BY DEF Budget, Status
<1>3. tx \in [Txs -> Transaction] BY DEF TypeOK
<1>4. /\ tx'[t] = [tx[t] EXCEPT !.pc = "insert", !.id = b, !.row = row]
      /\ \A u \in Txs \ {t} : tx'[u] = tx[u]
      /\ tx' \in [Txs -> Transaction]
  BY <1>1, <1>2, <1>3 DEF Transaction
<1>5. /\ tx'[t].pc = "insert" /\ tx'[t].id = b /\ tx'[t].row = row
      /\ tx'[t].writes = tx[t].writes
      /\ tx'[t].todo = tx[t].todo /\ tx'[t].inserts = tx[t].inserts
  BY <1>3, <1>4 DEF Transaction
<1>6. row.version = 1 OBVIOUS
<1> HIDE DEF row
<1>7. TypeOK' BY <1>1, <1>4 DEF TypeOK
<1>8. History' BY <1>1 DEF History, Version
<1>9. Creating' BY <1>1, <1>2, <1>4, <1>5, <1>6 DEF Creating
<1>10. Updating' BY <1>1, <1>4, <1>5 DEF Updating
<1>11. Archiving' BY <1>1, <1>4, <1>5 DEF Archiving
<1>12. Inserting' BY <1>1, <1>4, <1>5 DEF Inserting
<1>13. Listed' BY <1>1, <1>4, <1>5 DEF Listed
<1>14. QED BY <1>7, <1>8, <1>9, <1>10, <1>11, <1>12, <1>13

\* An inserted budget has its first revision.
LEMMA CreateCommitsKeepsIInv ==
    ASSUME IInv, NEW t \in Txs, CreateCommits(t)
    PROVE  IInv'
<1> USE DEF IInv, Step, Wrote, Exists, At
<1> DEFINE b == tx[t].id
           row == tx[t].row
<1>1. /\ tx[t].pc = "insert"
      /\ budgets' = [budgets EXCEPT ![b] = row]
      /\ revisions' = revisions \cup {Recorded(b, row, 0)}
      /\ tx' = [tx EXCEPT ![t] = Idle]
      /\ archived' = archived
  BY DEF CreateCommits, Rest
<1>2. /\ b \in BudgetIds /\ ~Exists(b) /\ row \in Budget /\ row.version = 1
      /\ \A u \in Txs : (u # t /\ tx[u].pc = "insert") => tx[u].id # b
  BY <1>1 DEF Creating
<1>3. tx \in [Txs -> Transaction] /\ budgets \in [BudgetIds -> Budget \cup {NoBudget}]
  BY DEF TypeOK
<1>4. tx'[t] = Idle /\ \A u \in Txs \ {t} : tx'[u] = tx[u]
  BY <1>1, <1>3
<1> HIDE DEF b, row
<1>5. /\ budgets'[b] = row /\ \A c \in BudgetIds \ {b} : budgets'[c] = budgets[c]
      /\ budgets' \in [BudgetIds -> Budget \cup {NoBudget}]
  BY <1>1, <1>2, <1>3
<1>6. History' /\ revisions' \subseteq Revision
  <2>1. Version(b) = 0 BY <1>2 DEF Version
  <2>2. revisions' = revisions \cup {Recorded(c, budgets'[c], Version(c)) : c \in {b}}
    BY <1>1, <1>5, <2>1
  <2>3. {b} \in SUBSET BudgetIds
        /\ \A c \in {b} : budgets'[c] \in Budget /\ budgets'[c].version = Version(c) + 1
    BY <1>2, <1>5, <2>1
  <2>4. QED BY <1>5, <2>2, <2>3, HistoryGrows
<1>7. TypeOK' BY <1>1, <1>3, <1>5, <1>6, IdleTransaction DEF TypeOK
<1>8. row # NoBudget BY <1>2
<1>9. Creating' BY <1>1, <1>2, <1>4, <1>5, IdleTransaction DEF Creating
<1>10. Updating' BY <1>1, <1>2, <1>4, <1>5, IdleTransaction DEF Updating
<1>11. Archiving' BY <1>1, <1>2, <1>4, <1>5, IdleTransaction DEF Archiving
<1>12. Inserting'
  <2>1. \A u \in Txs : tx[u].writes[b] = NoBudget BY <1>2 DEF Archiving
  <2>2. \A u \in Txs : \A r \in tx[u].inserts : r.budget \in BudgetIds
    BY <1>3 DEF Transaction, Revision
  <2>3. QED BY <1>4, <1>5, <2>1, <2>2, IdleTransaction DEF Inserting
<1>13. Listed' BY <1>1, <1>2, <1>4, <1>5, <1>8, IdleTransaction DEF Listed
<1>14. QED BY <1>6, <1>7, <1>9, <1>10, <1>11, <1>12, <1>13

\* A read budget is live, and at the expected version or a later one, unless
\* the request is ahead.
LEMMA UpdateReadsKeepsIInv ==
    ASSUME IInv, NEW t \in Txs, NEW b \in BudgetIds, NEW v \in 1..MaxVersion,
           UpdateReads(t, b, v)
    PROVE  IInv'
<1> USE DEF IInv, Step, Wrote, Exists, At
<1> DEFINE ahead == v > budgets[b].version
           now == [tx[t] EXCEPT !.pc = "check", !.id = b, !.row = budgets[b],
                                !.expected = v, !.ahead = ahead]
<1>1. /\ tx' = [tx EXCEPT ![t].pc = "check", ![t].id = b, ![t].row = budgets[b],
                          ![t].expected = v, ![t].ahead = ahead]
      /\ UNCHANGED <<budgets, revisions, archived>>
      /\ tx[t].pc = "idle" /\ Exists(b) /\ Live(budgets[b])
  BY DEF UpdateReads
<1>2. /\ tx \in [Txs -> Transaction] /\ tx[t] \in Transaction
      /\ budgets[b] \in Budget /\ budgets[b].version \in 1..MaxVersion
      /\ v \in 0..MaxVersion /\ ahead \in BOOLEAN
  BY <1>1 DEF TypeOK, Budget
<1>3. tx' = [tx EXCEPT ![t] = now]
  BY <1>1, <1>2, Zenon
<1> HIDE DEF ahead
<1>5. /\ now \in Transaction /\ now.pc = "check" /\ now.id = b /\ now.row = budgets[b]
      /\ now.expected = v /\ now.ahead = ahead /\ now.writes = tx[t].writes
      /\ now.todo = tx[t].todo /\ now.inserts = tx[t].inserts
  BY <1>2 DEF Transaction
<1> HIDE DEF now
<1>6. /\ tx'[t] = now /\ \A u \in Txs \ {t} : tx'[u] = tx[u]
      /\ tx' \in [Txs -> Transaction]
  BY <1>2, <1>3, <1>5
<1>7. TypeOK' BY <1>1, <1>6 DEF TypeOK
<1>8. History' BY <1>1 DEF History, Version
<1>9. Creating' BY <1>1, <1>5, <1>6 DEF Creating
<1>10. Updating'
  <2>1. ahead \/ (v <= budgets[b].version /\ (v = budgets[b].version => Live(budgets[b])))
    BY <1>1, <1>2 DEF ahead
  <2>2. QED BY <1>1, <1>2, <1>5, <1>6, <2>1 DEF Updating
<1>11. Archiving' BY <1>1, <1>5, <1>6 DEF Archiving
<1>12. Inserting' BY <1>1, <1>5, <1>6 DEF Inserting
<1>13. Listed' BY <1>1, <1>5, <1>6 DEF Listed
<1>14. QED BY <1>7, <1>8, <1>9, <1>10, <1>11, <1>12, <1>13

\* The overlap check changes nothing that is stored.
LEMMA UpdateChecksKeepsIInv ==
    ASSUME IInv, NEW t \in Txs, NEW change \in Change, UpdateChecks(t, change)
    PROVE  IInv'
<1>1. CASE Abort(t) BY <1>1, AbortKeepsIInv
<1>2. CASE ~Abort(t)
  <2> USE DEF IInv, Step, Wrote, Exists, At
  <2>1. /\ tx' = [tx EXCEPT ![t].pc = "update", ![t].change = change, ![t].row = NoBudget]
        /\ UNCHANGED <<budgets, revisions, archived>>
        /\ tx[t].pc = "check"
    BY <1>2 DEF UpdateChecks
  <2>2. tx \in [Txs -> Transaction] BY DEF TypeOK
  <2>3. /\ tx'[t] = [tx[t] EXCEPT !.pc = "update", !.change = change, !.row = NoBudget]
        /\ \A u \in Txs \ {t} : tx'[u] = tx[u]
        /\ tx' \in [Txs -> Transaction]
    <3> DEFINE now == [tx[t] EXCEPT !.pc = "update", !.change = change, !.row = NoBudget]
    <3>1. tx[t] \in Transaction BY <2>2
    <3>2. now \in Transaction BY <3>1 DEF Transaction
    <3>3. tx' = [tx EXCEPT ![t] = now] BY <2>1, <2>2, Zenon
    <3> HIDE DEF now
    <3>4. /\ tx'[t] = now /\ \A u \in Txs \ {t} : tx'[u] = tx[u]
          /\ tx' \in [Txs -> Transaction]
      BY <2>2, <3>2, <3>3
    <3>5. QED BY <3>4 DEF now
  <2>4. /\ tx'[t].pc = "update" /\ tx'[t].id = tx[t].id
        /\ tx'[t].expected = tx[t].expected /\ tx'[t].ahead = tx[t].ahead
        /\ tx'[t].writes = tx[t].writes /\ tx'[t].inserts = tx[t].inserts
        /\ tx'[t].todo = tx[t].todo
    BY <2>2, <2>3 DEF Transaction
  <2>5. TypeOK' BY <2>1, <2>3 DEF TypeOK
  <2>6. History' BY <2>1 DEF History, Version
  <2>7. Creating' BY <2>1, <2>3, <2>4 DEF Creating
  <2>8. Updating' BY <2>1, <2>3, <2>4 DEF Updating
  <2>9. Archiving' BY <2>1, <2>3, <2>4 DEF Archiving
  <2>10. Inserting' BY <2>1, <2>3, <2>4 DEF Inserting
  <2>11. Listed' BY <2>1, <2>3, <2>4 DEF Listed
  <2>12. QED BY <2>5, <2>6, <2>7, <2>8, <2>9, <2>10, <2>11
<1>3. QED BY <1>1, <1>2

\* An update gives its budget the next version and records it.
LEMMA UpdateCommitsKeepsIInv ==
    ASSUME IInv, NEW t \in Txs, UpdateCommits(t)
    PROVE  IInv'
<1>1. CASE Abort(t) BY <1>1, AbortKeepsIInv
<1>2. CASE ~Abort(t)
  <2> USE DEF IInv, Step, Wrote, Exists, At
  <2> DEFINE b == tx[t].id
             row == Changed(budgets[b], tx[t].change)
  <2>1. /\ tx[t].pc = "update" /\ ~Locked(t, b) /\ budgets[b].version < MaxVersion
        /\ budgets' = [budgets EXCEPT ![b] = row]
        /\ revisions' = revisions \cup {Recorded(b, row, tx[t].expected)}
        /\ tx' = [tx EXCEPT ![t] = Idle]
        /\ archived' = archived
        /\ tx[t].expected = budgets[b].version
    BY <1>2 DEF UpdateCommits, VersionMatches, Rest
  <2>2. b \in BudgetIds /\ Exists(b)
    BY <2>1 DEF Updating
  <2>3. /\ tx \in [Txs -> Transaction] /\ tx[t].change \in Change
        /\ budgets \in [BudgetIds -> Budget \cup {NoBudget}] /\ budgets[b] \in Budget
        /\ budgets[b].version \in 1..MaxVersion
    BY <2>2 DEF TypeOK, Transaction, Budget
  <2>4. row \in Budget /\ row.version = budgets[b].version + 1 /\ row # NoBudget
    BY <2>1, <2>3, ChangedRow
  <2>5. tx'[t] = Idle /\ \A u \in Txs \ {t} : tx'[u] = tx[u]
    BY <2>1, <2>3
  <2> HIDE DEF b, row
  <2>6. /\ budgets'[b] = row /\ \A c \in BudgetIds \ {b} : budgets'[c] = budgets[c]
        /\ budgets' \in [BudgetIds -> Budget \cup {NoBudget}]
    BY <2>1, <2>2, <2>3, <2>4
  <2>7. History' /\ revisions' \subseteq Revision
    <3>1. Version(b) = budgets[b].version BY <2>2 DEF Version
    <3>2. revisions' = revisions \cup {Recorded(c, budgets'[c], Version(c)) : c \in {b}}
      BY <2>1, <2>6, <3>1
    <3>3. {b} \in SUBSET BudgetIds
          /\ \A c \in {b} : budgets'[c] \in Budget /\ budgets'[c].version = Version(c) + 1
      BY <2>2, <2>4, <2>6, <3>1
    <3>4. QED BY <2>6, <3>2, <3>3, HistoryGrows
  <2>10. TypeOK' BY <2>1, <2>3, <2>6, <2>7, IdleTransaction DEF TypeOK
  <2>12. Creating' BY <2>1, <2>2, <2>5, <2>6, IdleTransaction DEF Creating
  <2>13. Updating'
    <3> SUFFICES ASSUME NEW u \in Txs, u # t, tx[u].pc \in {"check", "update"}
                 PROVE  /\ tx[u].id \in BudgetIds /\ budgets'[tx[u].id] # NoBudget
                        /\ \/ tx[u].ahead
                           \/ /\ tx[u].expected <= budgets'[tx[u].id].version
                              /\ tx[u].expected = budgets'[tx[u].id].version
                                    => Live(budgets'[tx[u].id])
                        /\ tx[u].pc = "check" => tx[u].row \in Budget
      BY <2>5, IdleTransaction DEF Updating
    <3>1. tx[u].expected \in Nat BY <2>3 DEF Transaction
    <3>2. CASE tx[u].id = b BY <3>1, <3>2, <2>3, <2>4, <2>6 DEF Updating
    <3>3. CASE tx[u].id # b BY <3>3, <2>6 DEF Updating
    <3>4. QED BY <3>2, <3>3
  <2>14. \A u \in Txs : tx'[u].writes[b] = NoBudget
    BY <2>1, <2>2, <2>5, IdleTransaction DEF Locked
  <2>15. Archiving' BY <2>1, <2>2, <2>5, <2>6, <2>14, IdleTransaction DEF Archiving
  <2>16. Inserting'
    <3>1. \A u \in Txs : \A r \in tx[u].inserts : r.budget \in BudgetIds
      BY <2>3 DEF Transaction, Revision
    <3>2. \A u \in Txs : u # t => tx[u].writes[b] = NoBudget
      BY <2>5, <2>14
    <3>3. QED BY <2>5, <2>6, <3>1, <3>2, IdleTransaction DEF Inserting
  <2>17. Listed'
    <3>1. \A u \in Txs : \A e \in tx[u].todo : e[1] \in BudgetIds
      BY <2>3 DEF Transaction
    <3>2. QED BY <3>1, <2>4, <2>5, <2>6, IdleTransaction DEF Listed
  <2>18. QED BY <2>7, <2>10, <2>12, <2>13, <2>15, <2>16, <2>17
<1>3. QED BY <1>1, <1>2

\* Holding the wallet row concerns no budget.
LEMMA ArchiveBeginsKeepsIInv ==
    ASSUME IInv, NEW t \in Txs, NEW w \in Wallets, ArchiveBegins(t, w)
    PROVE  IInv'
<1> USE DEF IInv, Step, Wrote, Exists, At
<1> DEFINE now == [tx[t] EXCEPT !.pc = "list", !.wallet = w]
<1>1. /\ tx' = [tx EXCEPT ![t].pc = "list", ![t].wallet = w]
      /\ UNCHANGED <<budgets, revisions, archived>> /\ tx[t].pc = "idle"
  BY DEF ArchiveBegins
<1>2. tx \in [Txs -> Transaction] /\ tx[t] \in Transaction BY DEF TypeOK
<1>3. /\ now \in Transaction /\ now.pc = "list" /\ now.wallet = w
      /\ now.writes = tx[t].writes /\ now.todo = tx[t].todo
      /\ now.inserts = tx[t].inserts
  BY <1>2 DEF Transaction
<1>4. tx' = [tx EXCEPT ![t] = now] BY <1>1, <1>2, Zenon
<1> HIDE DEF now
<1>5. /\ tx'[t] = now /\ \A u \in Txs \ {t} : tx'[u] = tx[u]
      /\ tx' \in [Txs -> Transaction]
  BY <1>2, <1>3, <1>4
<1>6. TypeOK' BY <1>1, <1>5 DEF TypeOK
<1>7. History' BY <1>1 DEF History, Version
<1>8. Creating' BY <1>1, <1>3, <1>5 DEF Creating
<1>9. Updating' BY <1>1, <1>3, <1>5 DEF Updating
<1>10. Archiving' BY <1>1, <1>3, <1>5 DEF Archiving
<1>11. Inserting' BY <1>1, <1>3, <1>5 DEF Inserting
<1>12. Listed' BY <1>1, <1>3, <1>5 DEF Listed
<1>13. QED BY <1>6, <1>7, <1>8, <1>9, <1>10, <1>11, <1>12

\* Listed budgets exist.
LEMMA ArchiveListsKeepsIInv ==
    ASSUME IInv, NEW t \in Txs, ArchiveLists(t)
    PROVE  IInv'
<1> USE DEF IInv, Step, Wrote, Exists, At
<1> DEFINE listed == {<<b, budgets[b].version>> : b \in
                        {c \in BudgetIds : /\ Exists(c)
                                           /\ budgets[c].scope = tx[t].wallet
                                           /\ Live(budgets[c])}}
           now == [tx[t] EXCEPT !.pc = "archive", !.todo = listed]
<1>1. /\ tx' = [tx EXCEPT ![t].pc = "archive", ![t].todo = listed]
      /\ UNCHANGED <<budgets, revisions, archived>> /\ tx[t].pc = "list"
  BY DEF ArchiveLists
<1>2. tx \in [Txs -> Transaction] /\ tx[t] \in Transaction BY DEF TypeOK
<1>3. listed \in SUBSET (BudgetIds \X (1..MaxVersion))
  BY DEF TypeOK, Budget
<1> HIDE DEF listed
<1>4. /\ now \in Transaction /\ now.pc = "archive" /\ now.wallet = tx[t].wallet
      /\ now.writes = tx[t].writes /\ now.todo = listed
      /\ now.inserts = tx[t].inserts
      /\ \A e \in now.todo : Exists(e[1])
  <2>1. now \in Transaction /\ now.pc = "archive" /\ now.wallet = tx[t].wallet
        /\ now.writes = tx[t].writes /\ now.todo = listed
      /\ now.inserts = tx[t].inserts
    BY <1>2, <1>3 DEF Transaction
  <2>2. \A e \in listed : Exists(e[1])
    BY DEF listed
  <2>3. QED BY <2>1, <2>2
<1>5. tx' = [tx EXCEPT ![t] = now] BY <1>1, <1>2, Zenon
<1> HIDE DEF now
<1>6. /\ tx'[t] = now /\ \A u \in Txs \ {t} : tx'[u] = tx[u]
      /\ tx' \in [Txs -> Transaction]
  BY <1>2, <1>4, <1>5
<1>7. TypeOK' BY <1>1, <1>6 DEF TypeOK
<1>8. History' BY <1>1 DEF History, Version
<1>9. Creating' BY <1>1, <1>4, <1>6 DEF Creating
<1>10. Updating' BY <1>1, <1>4, <1>6 DEF Updating
<1>11. Archiving' BY <1>1, <1>4, <1>6 DEF Archiving
<1>12. Inserting' BY <1>1, <1>4, <1>6 DEF Inserting
<1>13. Listed' BY <1>1, <1>4, <1>6 DEF Listed
<1>14. QED BY <1>7, <1>8, <1>9, <1>10, <1>11, <1>12, <1>13

\* A row written by archiveWallet is the archived row, held by it alone.
LEMMA ArchiveWritesKeepsIInv ==
    ASSUME IInv, NEW t \in Txs, NEW b \in BudgetIds, NEW v \in 1..MaxVersion,
           ArchiveWrites(t, b, v)
    PROVE  IInv'
<1>1. CASE Abort(t) BY <1>1, AbortKeepsIInv
<1>2. CASE ~Abort(t)
  <2> USE DEF IInv, Step, Wrote, Exists, At
  <2> DEFINE row == Changed(budgets[b], [period |-> Keep, status |-> "archived"])
             left == tx[t].todo \ {<<b, v>>}
             writes == [tx[t].writes EXCEPT ![b] = row]
             inserts == tx[t].inserts \cup {Recorded(b, row, v)}
             now == [tx[t] EXCEPT !.todo = left, !.writes = writes, !.inserts = inserts]
  <2>1. /\ tx' = [tx EXCEPT ![t].todo = @ \ {<<b, v>>}, ![t].writes[b] = row,
                            ![t].inserts = @ \cup {Recorded(b, row, v)}]
        /\ UNCHANGED <<budgets, revisions, archived>>
        /\ tx[t].pc = "archive" /\ ~Locked(t, b) /\ <<b, v>> \in tx[t].todo
        /\ budgets[b].version < MaxVersion /\ Live(budgets[b]) /\ budgets[b].version = v
    BY <1>2 DEF ArchiveWrites
  <2>2. /\ tx \in [Txs -> Transaction] /\ tx[t] \in Transaction
        /\ tx[t].todo \in SUBSET (BudgetIds \X (1..MaxVersion))
        /\ tx[t].writes \in [BudgetIds -> Budget \cup {NoBudget}]
        /\ tx[t].inserts \in SUBSET Revision
        /\ budgets[b] \in Budget \cup {NoBudget}
    BY DEF TypeOK, Transaction
  <2>3. Exists(b)
    BY <2>1 DEF Listed
  <2>4. /\ row = ArchivedRow(budgets[b]) /\ row \in Budget /\ row # NoBudget
    BY <2>1, <2>2, <2>3, ArchivedIsChanged
  <2>5. /\ left \in SUBSET (BudgetIds \X (1..MaxVersion)) /\ left \subseteq tx[t].todo
        /\ writes \in [BudgetIds -> Budget \cup {NoBudget}] /\ writes[b] = row
        /\ \A c \in BudgetIds \ {b} : writes[c] = tx[t].writes[c]
    BY <2>2, <2>4
  <2> HIDE DEF row
  <2>a. inserts \in SUBSET Revision /\ Recorded(b, row, v).budget = b
    BY <2>2, <2>4, RecordedRevision
  <2>6. tx' = [tx EXCEPT ![t] = now]
    <3>1. tx' = [tx EXCEPT ![t].todo = left, ![t].writes = writes, ![t].inserts = inserts]
      BY <2>1, <2>2
    <3> HIDE DEF left, writes, inserts
    <3>2. QED BY <2>2, <3>1
  <2> HIDE DEF left, writes, inserts
  <2>7. /\ now \in Transaction /\ now.pc = "archive" /\ now.wallet = tx[t].wallet
        /\ now.writes = writes /\ now.todo = left /\ now.inserts = inserts
    BY <2>1, <2>2, <2>5, <2>a DEF Transaction
  <2> HIDE DEF now
  <2>8. /\ tx'[t] = now /\ \A u \in Txs \ {t} : tx'[u] = tx[u]
        /\ tx' \in [Txs -> Transaction]
    BY <2>2, <2>6, <2>7
  <2>9. TypeOK' BY <2>1, <2>8 DEF TypeOK
  <2>10. History' BY <2>1 DEF History, Version
  <2>11. Creating' BY <2>1, <2>7, <2>8 DEF Creating
  <2>12. Updating' BY <2>1, <2>7, <2>8 DEF Updating
  <2>13. \A u \in Txs : u # t => tx[u].writes[b] = NoBudget
    BY <2>1 DEF Locked
  <2>14. Archiving'
    <3>1. \A u \in Txs : tx'[u].pc \in {"list", "archive"} => tx'[u].wallet \in Wallets
      BY <2>1, <2>7, <2>8 DEF Archiving
    <3>2. ASSUME NEW u \in Txs, NEW c \in BudgetIds, tx'[u].writes[c] # NoBudget
          PROVE  /\ tx'[u].pc = "archive"
                 /\ budgets'[c] # NoBudget /\ Live(budgets'[c])
                 /\ budgets'[c].version < MaxVersion
                 /\ tx'[u].writes[c] = ArchivedRow(budgets'[c])
                 /\ \A o \in Txs : o # u => tx'[o].writes[c] = NoBudget
      <4>0. budgets' = budgets BY <2>1
      <4>1. CASE c = b
        BY <4>0, <4>1, <3>2, <2>1, <2>3, <2>4, <2>5, <2>7, <2>8, <2>13
      <4>2. CASE c # b
        <5>1. \A o \in Txs : tx'[o].writes[c] = tx[o].writes[c]
          BY <4>2, <2>5, <2>7, <2>8
        <5>2. tx'[u].pc = tx[u].pc BY <2>1, <2>7, <2>8
        <5>3. QED BY <4>0, <5>1, <5>2, <3>2 DEF Archiving
      <4>3. QED BY <4>1, <4>2
    <3> HIDE DEF IInv
    <3>3. QED BY <3>1, <3>2, Zenon DEF Archiving
  <2>15. Inserting'
    <3>1. \A u \in Txs : u # t => tx'[u].writes = tx[u].writes
                                /\ tx'[u].inserts = tx[u].inserts
      BY <2>8
    <3>2. \A c \in BudgetIds : tx'[t].writes[c] # NoBudget =>
             Recorded(c, tx'[t].writes[c], budgets'[c].version) \in tx'[t].inserts
      BY <2>1, <2>5, <2>7, <2>8 DEF Inserting, inserts
    <3>3. ASSUME NEW r \in tx'[t].inserts
          PROVE  /\ tx'[t].writes[r.budget] # NoBudget
                 /\ r = Recorded(r.budget, tx'[t].writes[r.budget],
                                 budgets'[r.budget].version)
      <4>1. CASE r = Recorded(b, row, v)
        BY <4>1, <2>1, <2>4, <2>5, <2>7, <2>8, <2>a
      <4>2. CASE r \in tx[t].inserts
        <5>1. /\ r.budget \in BudgetIds /\ tx[t].writes[r.budget] # NoBudget
              /\ r = Recorded(r.budget, tx[t].writes[r.budget], budgets[r.budget].version)
          BY <4>2, <2>2 DEF Inserting, Revision
        <5>2. CASE r.budget = b
          BY <5>1, <5>2, <2>1, <2>3, <2>4, <2>5, <2>7, <2>8 DEF Archiving
        <5>3. CASE r.budget # b
          BY <5>1, <5>3, <2>1, <2>5, <2>7, <2>8
        <5>4. QED BY <5>2, <5>3
      <4>3. QED BY <3>3, <4>1, <4>2, <2>7, <2>8 DEF inserts
    <3>4. ASSUME NEW u \in Txs
          PROVE  /\ \A c \in BudgetIds : tx'[u].writes[c] # NoBudget =>
                       Recorded(c, tx'[u].writes[c], budgets'[c].version) \in tx'[u].inserts
                 /\ \A r \in tx'[u].inserts :
                       /\ tx'[u].writes[r.budget] # NoBudget
                       /\ r = Recorded(r.budget, tx'[u].writes[r.budget],
                                       budgets'[r.budget].version)
      <4>1. CASE u = t
        <5> HIDE DEF IInv
        <5>1. QED BY <4>1, <3>2, <3>3, Zenon
      <4>2. CASE u # t
        <5>1. Inserting /\ budgets' = budgets BY <2>1
        <5>2. tx'[u].writes = tx[u].writes /\ tx'[u].inserts = tx[u].inserts
          BY <4>2, <3>1
        <5> HIDE DEF IInv
        <5>3. QED BY <5>1, <5>2, Zenon DEF Inserting
      <4>3. QED BY <4>1, <4>2
    <3> HIDE DEF IInv
    <3>5. QED BY <3>4, Zenon DEF Inserting
  <2>16. Listed' BY <2>1, <2>5, <2>7, <2>8 DEF Listed
  <2>17. QED BY <2>9, <2>10, <2>11, <2>12, <2>14, <2>15, <2>16
<1>3. QED BY <1>1, <1>2

\* The commit of archiveWallet gives each row it wrote its next version.
LEMMA ArchiveCommitsKeepsIInv ==
    ASSUME IInv, NEW t \in Txs, ArchiveCommits(t)
    PROVE  IInv'
<1> USE DEF IInv, Step, Wrote, Exists, At
<1> DEFINE written == {b \in BudgetIds : tx[t].writes[b] # NoBudget}
           row(b) == tx[t].writes[b]
<1>1. /\ tx[t].pc = "archive"
      /\ budgets' = [b \in BudgetIds |-> IF b \in written THEN row(b) ELSE budgets[b]]
      /\ revisions' = revisions \cup tx[t].inserts
      /\ archived' = archived \cup {tx[t].wallet}
      /\ tx' = [tx EXCEPT ![t] = Idle]
  BY DEF ArchiveCommits, Rest
<1>2. /\ tx \in [Txs -> Transaction]
      /\ budgets \in [BudgetIds -> Budget \cup {NoBudget}]
      /\ tx[t].wallet \in Wallets
  BY <1>1 DEF TypeOK, Archiving
<1>3. tx'[t] = Idle /\ \A u \in Txs \ {t} : tx'[u] = tx[u]
  BY <1>1, <1>2
<1>4. ASSUME NEW b \in written
      PROVE  /\ budgets[b] \in Budget /\ budgets[b].version \in 1..MaxVersion
             /\ row(b) \in Budget /\ row(b) # NoBudget
             /\ row(b).version = budgets[b].version + 1
             /\ \A u \in Txs : u # t => tx[u].writes[b] = NoBudget
  <2>1. /\ b \in BudgetIds /\ budgets[b] # NoBudget /\ budgets[b].version < MaxVersion
        /\ row(b) = ArchivedRow(budgets[b])
        /\ \A u \in Txs : u # t => tx[u].writes[b] = NoBudget
    BY <1>4 DEF Archiving
  <2>2. budgets[b] \in Budget BY <1>2, <2>1
  <2>3. budgets[b].version \in 1..MaxVersion BY <2>2 DEF Budget
  <2> HIDE DEF row, written
  <2>4. QED BY <2>1, <2>2, <2>3, ArchivedIsChanged
<1>5. /\ \A b \in written : budgets'[b] = row(b)
      /\ \A b \in BudgetIds \ written : budgets'[b] = budgets[b]
      /\ DOMAIN budgets' = BudgetIds
      /\ written \subseteq BudgetIds
  BY <1>1
<1>6. \A b \in BudgetIds \ written : tx[t].writes[b] = NoBudget
  OBVIOUS
<1>a. tx[t].inserts = {Recorded(b, row(b), budgets[b].version) : b \in written}
  <2>1. \A r \in tx[t].inserts : r.budget \in BudgetIds
    BY <1>2 DEF Transaction, Revision
  <2>2. \A r \in tx[t].inserts :
           \E b \in written : r = Recorded(b, row(b), budgets[b].version)
    BY <2>1 DEF Inserting
  <2>3. \A b \in written : Recorded(b, row(b), budgets[b].version) \in tx[t].inserts
    BY DEF Inserting
  <2>4. QED BY <2>2, <2>3
<1> HIDE DEF written, row
<1>b. budgets' \in [BudgetIds -> Budget \cup {NoBudget}]
  <2>1. \A b \in BudgetIds : budgets'[b] \in Budget \cup {NoBudget}
    BY <1>2, <1>4, <1>5
  <2>2. QED BY <1>1, <2>1
<1>9. History' /\ revisions' \subseteq Revision
  <2>1. \A b \in written : Version(b) = budgets[b].version
    BY <1>4 DEF Version
  <2>2. {Recorded(b, row(b), budgets[b].version) : b \in written}
          = {Recorded(b, budgets'[b], Version(b)) : b \in written}
    BY <1>5, <2>1
  <2>3. \A b \in written : budgets'[b] \in Budget /\ budgets'[b].version = Version(b) + 1
    BY <1>4, <1>5, <2>1
  <2>4. revisions' = revisions \cup {Recorded(b, budgets'[b], Version(b)) : b \in written}
    BY <1>1, <1>a, <2>2
  <2>5. QED BY <1>5, <1>b, <2>3, <2>4, HistoryGrows
<1>8. TypeOK'
  <2>1. tx' \in [Txs -> Transaction] BY <1>1, <1>2, IdleTransaction
  <2>2. archived' \subseteq Wallets BY <1>1, <1>2 DEF TypeOK
  <2>3. QED BY <1>9, <1>b, <2>1, <2>2 DEF TypeOK
<1>10. Creating'
  <2>1. \A u \in Txs : tx[u].pc = "insert" => tx[u].id \notin written
    BY <1>4 DEF Creating
  <2>2. QED BY <1>3, <1>5, <2>1, IdleTransaction DEF Creating
<1>11. Updating'
  <2> SUFFICES ASSUME NEW u \in Txs, u # t, tx[u].pc \in {"check", "update"}
               PROVE  /\ tx[u].id \in BudgetIds /\ budgets'[tx[u].id] # NoBudget
                      /\ \/ tx[u].ahead
                         \/ /\ tx[u].expected <= budgets'[tx[u].id].version
                            /\ tx[u].expected = budgets'[tx[u].id].version
                                  => Live(budgets'[tx[u].id])
                      /\ tx[u].pc = "check" => tx[u].row \in Budget
    BY <1>3, IdleTransaction DEF Updating
  <2>1. tx[u].expected \in Nat BY <1>2 DEF Transaction
  <2>2. CASE tx[u].id \in written BY <2>1, <2>2, <1>4, <1>5 DEF Updating
  <2>3. CASE tx[u].id \notin written BY <2>3, <1>5 DEF Updating
  <2>4. QED BY <2>2, <2>3
<1>12. Archiving'
  <2>1. \A b \in written : \A u \in Txs : tx'[u].writes[b] = NoBudget
    BY <1>3, <1>4, <1>5, IdleTransaction
  <2>2. QED BY <1>3, <1>5, <2>1, IdleTransaction DEF Archiving
<1>13. Inserting'
  <2>1. \A b \in written : \A u \in Txs : tx'[u].writes[b] = NoBudget
    BY <1>3, <1>4, <1>5, IdleTransaction
  <2>2. \A u \in Txs : \A r \in tx[u].inserts : r.budget \in BudgetIds
    BY <1>2 DEF Transaction, Revision
  <2>3. QED BY <1>3, <1>5, <2>1, <2>2, IdleTransaction DEF Inserting
<1>14. Listed'
  <2>1. \A u \in Txs : \A e \in tx[u].todo : e[1] \in BudgetIds
    BY <1>2 DEF Transaction
  <2>2. QED BY <1>3, <1>4, <1>5, <2>1, IdleTransaction DEF Listed
<1>15. QED BY <1>8, <1>9, <1>10, <1>11, <1>12, <1>13, <1>14

\* A wallet that comes back changes no budget.
LEMMA RestoreKeepsIInv ==
    ASSUME IInv, NEW w \in Wallets, Restore(w)
    PROVE  IInv'
BY DEF IInv, Restore, TypeOK, History, Version, Creating, Updating, Archiving, Inserting,
       Listed, Step, Wrote, Exists

\* Every step keeps the invariant.
LEMMA StepIInv ==
    ASSUME IInv, [Next]_vars
    PROVE  IInv'
<1>1. CASE UNCHANGED vars
  BY <1>1 DEF vars, IInv, TypeOK, History, Version, Creating, Updating, Archiving, Inserting,
              Listed, Step, Wrote, Exists
<1>2. ASSUME NEW t \in Txs, RollsBack(t) PROVE IInv'
  BY <1>2, AbortKeepsIInv DEF RollsBack
<1>3. QED
  BY <1>1, <1>2, CreateChecksKeepsIInv, CreateCommitsKeepsIInv, UpdateReadsKeepsIInv,
     UpdateChecksKeepsIInv, UpdateCommitsKeepsIInv, ArchiveBeginsKeepsIInv,
     ArchiveListsKeepsIInv, ArchiveWritesKeepsIInv, ArchiveCommitsKeepsIInv,
     RestoreKeepsIInv, Zenon
  DEF Next

\* The invariant holds in every state.
LEMMA Invariance == Spec => []IInv
<1>1. Init => IInv BY InitIInv
<1>2. IInv /\ [Next]_vars => IInv' BY StepIInv
<1>3. QED BY <1>1, <1>2, PTL DEF Spec

-------------------------------------------------------------------------------
(* Theorems.                                                               *)

\* The tables and the requests keep their types.
THEOREM TypeCorrect == Spec => []TypeOK
<1>1. IInv => TypeOK BY DEF IInv
<1>2. QED BY <1>1, Invariance, PTL

\* A budget has one revision of every version it had, whatever requests create,
\* update and archive it at once.
THEOREM HistoriesAreComplete == Spec => []HistoryIsComplete
<1>1. IInv => HistoryIsComplete BY HistoryIsWhole DEF IInv
<1>2. QED BY <1>1, Invariance, PTL

\* A step that changes an archived budget is an update that named a version
\* ahead of the one it read.
LEMMA StepFinal ==
    ASSUME IInv, [Next]_vars, NEW b \in BudgetIds,
           Exists(b), ~Live(budgets[b]), budgets'[b] # budgets[b]
    PROVE  AheadUpdateEnds(b)
<1> USE DEF IInv, Step, Wrote, At
<1>0. budgets \in [BudgetIds -> Budget \cup {NoBudget}]
  BY DEF TypeOK
<1>1. ASSUME NEW t \in Txs, CreateCommits(t) PROVE FALSE
  <2>1. tx[t].id # b BY <1>1 DEF CreateCommits, Creating
  <2>2. QED BY <1>0, <1>1, <2>1 DEF CreateCommits
<1>2. ASSUME NEW t \in Txs, UpdateCommits(t)
      PROVE  /\ At(t, "update") /\ tx[t].id = b /\ tx[t].ahead
             /\ tx' = [tx EXCEPT ![t] = Idle]
  <2>1. /\ tx[t].pc = "update" /\ VersionMatches(t) /\ tx' = [tx EXCEPT ![t] = Idle]
        /\ \E row : budgets' = [budgets EXCEPT ![tx[t].id] = row]
    BY <1>2 DEF UpdateCommits, Abort, Rest
  <2>2. tx[t].id = b BY <1>0, <2>1
  <2>3. tx[t].ahead BY <2>1, <2>2 DEF Updating, VersionMatches
  <2>4. QED BY <2>1, <2>2, <2>3
<1>3. ASSUME NEW t \in Txs, ArchiveCommits(t) PROVE FALSE
  <2>1. tx[t].writes[b] = NoBudget BY DEF Archiving
  <2>2. QED BY <1>3, <2>1 DEF ArchiveCommits
<1>4. \E t \in Txs : CreateCommits(t) \/ UpdateCommits(t) \/ ArchiveCommits(t)
  <2>1. ASSUME NEW t \in Txs
        PROVE  /\ \A c \in BudgetIds, s \in Scope, p \in Period :
                      CreateChecks(t, c, s, p) => UNCHANGED budgets
               /\ \A c \in BudgetIds, v \in 1..MaxVersion :
                      UpdateReads(t, c, v) => UNCHANGED budgets
               /\ \A change \in Change : UpdateChecks(t, change) => UNCHANGED budgets
               /\ \A w \in Wallets : ArchiveBegins(t, w) => UNCHANGED budgets
               /\ ArchiveLists(t) => UNCHANGED budgets
               /\ \A c \in BudgetIds, v \in 1..MaxVersion :
                      ArchiveWrites(t, c, v) => UNCHANGED budgets
               /\ RollsBack(t) => UNCHANGED budgets
    BY DEF CreateChecks, UpdateReads, UpdateChecks, ArchiveBegins, ArchiveLists,
           ArchiveWrites, RollsBack, Abort
  <2>2. \A w \in Wallets : Restore(w) => UNCHANGED budgets
    BY DEF Restore
  <2>3. UNCHANGED vars => UNCHANGED budgets
    BY DEF vars
  <2>4. budgets' # budgets OBVIOUS
  <2> HIDE DEF IInv
  <2>5. QED BY <2>1, <2>2, <2>3, <2>4, Zenon DEF Next
<1>5. QED BY <1>1, <1>2, <1>3, <1>4 DEF AheadUpdateEnds

\* A budget that is archived is changed by no request, not even by one that
\* read it before it was archived, unless that one named a version ahead.
THEOREM ArchivedBudgetsAreFinal == Spec => ArchivedIsFinal
<1>1. IInv /\ [Next]_vars => [\A b \in BudgetIds :
            (Exists(b) /\ ~Live(budgets[b]))
               => budgets'[b] = budgets[b] \/ AheadUpdateEnds(b)]_vars
  BY StepFinal
<1>2. QED BY <1>1, Invariance, PTL DEF Spec, ArchivedIsFinal
===============================================================================
