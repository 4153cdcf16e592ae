--------------------------- MODULE SyncLeaseProofs ---------------------------
(***************************************************************************)
(* Proofs about SyncLease, for any runs, sources, lease and batch.         *)
(*                                                                         *)
(* IInv says what a run under way may rely on: everything before its next  *)
(* payment is in the ledger, for payments are never deleted, and while the *)
(* row carries its token nobody has moved the cursor it started from.      *)
(* From it follows that the sync implements Coverage.                      *)
(***************************************************************************)
EXTENDS SyncLease, TLAPS

USE LeaseAssumption

-------------------------------------------------------------------------------
(* The inductive invariant.                                                *)

\* The ledger holds the first n payments of s.
Holds(s, n) == \A i \in 1..n : <<s, i>> \in ledger

\* A row is leased only while it is syncing, and no cursor passes its source.
Rows ==
    \A s \in Sources : /\ cursors[s].left > 0 => cursors[s].status = "syncing"
                       /\ cursors[s].cursor <= available[s]

Working == {"setSyncing", "fetch", "event", "wallet", "payment", "complete"}

\* What a run that has leased its source relies on.
Progress(r) ==
    run[r].pc \in Working =>
        /\ run[r].next - 1 <= available[Src(r)]
        /\ Holds(Src(r), run[r].next - 1)
        /\ run[r].pc \in {"event", "wallet", "payment"} =>
                run[r].next <= run[r].last /\ run[r].last <= available[Src(r)]
        /\ run[r].pc = "complete" => run[r].last = run[r].next - 1
        /\ HoldsToken(r) => Row(r).cursor <= run[r].next - 1

IInv ==
    /\ TypeOK
    /\ NothingSkipped
    /\ OneAuditPerPayment
    /\ Rows
    /\ \A r \in Runs : Progress(r)

-------------------------------------------------------------------------------
(* Every step keeps the invariant.                                         *)

\* A run that stopped, or that is in its catch block, relies on nothing.
LEMMA StoppedRun ==
    ASSUME NEW s \in Sources
    PROVE  Stopped(s) \in RunState /\ Stopped(s).pc = "idle"
BY DEF Stopped, RunState

\* A step that leaves every table alone keeps the invariant if the run it moves
\* makes the progress it claims.
LEMMA OnlyRunMoves ==
    ASSUME IInv, NEW r \in Runs, NEW now \in RunState,
           run' = [run EXCEPT ![r] = now],
           UNCHANGED <<available, cursors, archived, ledger, audits>>,
           walletStatus' \in {"idle", "syncing", "partial", "ready", "failed"},
           chainEvents' \in SUBSET Payments,
           Progress(r)'
    PROVE  IInv'
<1>1. run \in [Runs -> RunState] BY DEF IInv, TypeOK
<1>2. TypeOK' BY <1>1 DEF IInv, TypeOK
<1>3. /\ NothingSkipped' /\ OneAuditPerPayment' /\ Rows'
  BY DEF IInv, NothingSkipped, OneAuditPerPayment, Rows
<1>4. ASSUME NEW q \in Runs, q # r PROVE Progress(q)'
  <2>1. run'[q] = run[q] BY <1>1, <1>4
  <2>2. Progress(q) BY DEF IInv
  <2>3. QED BY <2>1, <2>2 DEF Progress, Holds, HoldsToken, Row, Src
<1>5. QED BY <1>2, <1>3, <1>4 DEF IInv

\* Throwing keeps the invariant, whatever has been stored.
LEMMA ThrowKeepsIInv ==
    ASSUME IInv, NEW r \in Runs, Throw(r),
           UNCHANGED <<available, cursors, walletStatus, archived, chainEvents, ledger, audits>>
    PROVE  IInv'
<1> DEFINE now == [run[r] EXCEPT !.pc = "catch", !.todo = {"cursor", "wallet"}]
<1>1. run \in [Runs -> RunState] /\ run[r] \in RunState BY DEF IInv, TypeOK
<1>2. now \in RunState /\ now.pc = "catch" BY <1>1 DEF RunState
<1>3. run' = [run EXCEPT ![r] = now] BY <1>1, Zenon DEF Throw
<1> HIDE DEF now
<1>4. Progress(r)' BY <1>1, <1>2, <1>3 DEF Progress, Working
<1>5. chainEvents \in SUBSET Payments
      /\ walletStatus \in {"idle", "syncing", "partial", "ready", "failed"}
  BY DEF IInv, TypeOK
<1>6. QED BY <1>2, <1>3, <1>4, <1>5, OnlyRunMoves

\* So does stopping.
LEMMA StopKeepsIInv ==
    ASSUME IInv, NEW r \in Runs, Stop(r),
           UNCHANGED <<available, cursors, walletStatus, archived, chainEvents, ledger, audits>>
    PROVE  IInv'
<1>1. run \in [Runs -> RunState] /\ Src(r) \in Sources BY DEF IInv, TypeOK, RunState, Src
<1>2. Stopped(Src(r)) \in RunState /\ Stopped(Src(r)).pc = "idle" BY <1>1, StoppedRun
<1>3. Progress(r)' BY <1>1, <1>2 DEF Stop, Progress, Working
<1>4. chainEvents \in SUBSET Payments
      /\ walletStatus \in {"idle", "syncing", "partial", "ready", "failed"}
  BY DEF IInv, TypeOK
<1>5. QED BY <1>2, <1>3, <1>4, OnlyRunMoves DEF Stop

\* A step that gives the row of its run's source to that run, or to nobody,
\* disturbs no other run: those do not hold the row any more.
LEMMA RowMoves ==
    ASSUME IInv, NEW r \in Runs, NEW now \in RunState, NEW row \in CursorRow,
           run' = [run EXCEPT ![r] = now],
           cursors' = [cursors EXCEPT ![Src(r)] = row],
           UNCHANGED <<available, archived, chainEvents, ledger, audits>>,
           walletStatus' \in {"idle", "syncing", "partial", "ready", "failed"},
           row.token \in {r, NoRun},
           row.left > 0 => row.status = "syncing",
           row.cursor <= available[Src(r)], Holds(Src(r), row.cursor),
           Progress(r)'
    PROVE  IInv'
<1>1. /\ run \in [Runs -> RunState] /\ cursors \in [Sources -> CursorRow]
      /\ Src(r) \in Sources
  BY DEF IInv, TypeOK, RunState, Src
<1>2. /\ cursors'[Src(r)] = row
      /\ \A s \in Sources \ {Src(r)} : cursors'[s] = cursors[s]
      /\ cursors' \in [Sources -> CursorRow]
  BY <1>1
<1>3. TypeOK' BY <1>1, <1>2 DEF IInv, TypeOK
<1>4. NothingSkipped' BY <1>2 DEF IInv, NothingSkipped, Holds
<1>5. OneAuditPerPayment' /\ Rows' BY <1>2 DEF IInv, OneAuditPerPayment, Rows
<1>6. ASSUME NEW q \in Runs, q # r PROVE Progress(q)'
  <2>1. run'[q] = run[q] /\ run[q].source \in Sources BY <1>1, <1>6 DEF RunState
  <2>2. Progress(q) BY DEF IInv
  <2>3. CASE Src(q) = Src(r)
    <3>1. ~HoldsToken(q)' BY <1>2, <1>6, <2>1, <2>3 DEF HoldsToken, Row, Src
    <3>2. QED BY <2>1, <2>2, <3>1 DEF Progress, Holds, Src
  <2>4. CASE Src(q) # Src(r)
    BY <1>2, <2>1, <2>2, <2>4 DEF Progress, Holds, HoldsToken, Row, Src
  <2>5. QED BY <2>3, <2>4
<1>7. QED BY <1>3, <1>4, <1>5, <1>6 DEF IInv

\* The invariant holds before any run.
LEMMA InitIInv ==
    ASSUME Init PROVE IInv
<1>1. TypeOK
  <2>1. \A s \in Sources : Stopped(s) \in RunState BY StoppedRun
  <2>2. run \in [Runs -> RunState] BY <2>1 DEF Init
  <2>3. cursors \in [Sources -> CursorRow] BY DEF Init, CursorRow
  <2>4. QED BY <2>2, <2>3 DEF Init, TypeOK
<1>2. \A r \in Runs : Progress(r)
  <2>1. \A r \in Runs : run[r].pc = "idle" BY StoppedRun DEF Init
  <2>2. QED BY <2>1 DEF Progress, Working
<1>3. Rows BY <1>1 DEF Init, Rows, TypeOK
<1>4. NothingSkipped /\ OneAuditPerPayment
  BY DEF Init, NothingSkipped, OneAuditPerPayment
<1>5. QED BY <1>1, <1>2, <1>3, <1>4 DEF IInv

\* The reads before the lease promise nothing.
LEMMA BeginKeepsIInv ==
    ASSUME IInv, NEW r \in Runs, NEW s \in Sources, Begin(r, s)
    PROVE  IInv'
<1> DEFINE now == [Stopped(s) EXCEPT !.pc = "acquire"]
<1>1. now \in RunState /\ now.pc = "acquire"
  <2>1. Stopped(s) \in RunState BY StoppedRun
  <2>2. QED BY <2>1 DEF RunState
<1>2. run' = [run EXCEPT ![r] = now]
      /\ UNCHANGED <<available, cursors, walletStatus, archived, chainEvents, ledger, audits>>
  BY DEF Begin
<1> HIDE DEF now
<1>3. run \in [Runs -> RunState] /\ chainEvents \in SUBSET Payments
      /\ walletStatus \in {"idle", "syncing", "partial", "ready", "failed"}
  BY DEF IInv, TypeOK
<1>4. Progress(r)' BY <1>1, <1>2, <1>3 DEF Progress, Working
<1>5. QED BY <1>1, <1>2, <1>3, <1>4, OnlyRunMoves

\* The row acquire writes.
LEMMA LeasedRow ==
    ASSUME NEW old \in CursorRow, NEW r \in Runs
    PROVE  LET row == [old EXCEPT !.status = "syncing", !.token = r, !.left = LeaseTicks]
           IN  /\ row \in CursorRow /\ row.token = r /\ row.status = "syncing"
               /\ row.cursor = old.cursor
<1>1. LeaseTicks \in 0..LeaseTicks OBVIOUS
<1>2. /\ r \in Runs \cup {NoRun}
      /\ "syncing" \in {"idle", "syncing", "partial", "ready", "failed"}
  OBVIOUS
<1> DEFINE ticks == 0..LeaseTicks
           positions == 0..MaxPayments
           statuses == {"idle", "syncing", "partial", "ready", "failed"}
<1>3. CursorRow = [status : statuses, token : Runs \cup {NoRun}, left : ticks,
                   cursor : positions]
  BY DEF CursorRow
<1>4. LeaseTicks \in ticks /\ "syncing" \in statuses BY <1>1
<1> HIDE DEF ticks, positions, statuses
<1>5. QED BY <1>2, <1>3, <1>4

\* The run that acquired.
LEMMA LeasedRun ==
    ASSUME NEW old \in RunState, NEW n \in 0..MaxPayments
    PROVE  LET now == [old EXCEPT !.pc = "setSyncing", !.next = n + 1]
           IN  /\ now \in RunState /\ now.pc = "setSyncing" /\ now.next = n + 1
               /\ now.source = old.source
<1>1. n + 1 \in 1..MaxPayments + 1 OBVIOUS
<1> DEFINE positions == 1..MaxPayments + 1
           lasts == 0..MaxPayments
<1>2. RunState = [pc : {"idle", "acquire", "setSyncing", "fetch", "event",
                        "wallet", "payment", "complete", "catch"},
                  source : Sources, next : positions, last : lasts,
                  more : BOOLEAN, todo : SUBSET {"cursor", "wallet"}]
  BY DEF RunState
<1>3. n + 1 \in positions BY <1>1
<1> HIDE DEF positions, lasts
<1>4. QED BY <1>2, <1>3

\* A run that acquires starts where the stored cursor is.
LEMMA AcquireKeepsIInv ==
    ASSUME IInv, NEW r \in Runs, Acquire(r)
    PROVE  IInv'
<1> DEFINE row == [Row(r) EXCEPT !.status = "syncing", !.token = r, !.left = LeaseTicks]
           now == [run[r] EXCEPT !.pc = "setSyncing", !.next = Row(r).cursor + 1]
<1>1. /\ run \in [Runs -> RunState] /\ run[r] \in RunState /\ Src(r) \in Sources
      /\ cursors \in [Sources -> CursorRow] /\ Row(r) \in CursorRow
      /\ chainEvents \in SUBSET Payments /\ Row(r).cursor \in 0..MaxPayments
      /\ walletStatus \in {"idle", "syncing", "partial", "ready", "failed"}
      /\ available[Src(r)] \in 0..MaxPayments
  BY DEF IInv, TypeOK, RunState, CursorRow, Src, Row
<1>2. CASE ~Free(Row(r)) BY <1>2, StopKeepsIInv DEF Acquire
<1>3. CASE Free(Row(r))
  <2>1. /\ cursors' = [cursors EXCEPT ![Src(r)] = row]
        /\ UNCHANGED <<available, walletStatus, archived, chainEvents, ledger, audits>>
        /\ run' = [run EXCEPT ![r].pc = "setSyncing", ![r].next = Row(r).cursor + 1]
    BY <1>3 DEF Acquire, Row
  <2>2. run' = [run EXCEPT ![r] = now] BY <1>1, <2>1, Zenon
  <2>3. /\ row \in CursorRow /\ row.token = r /\ row.status = "syncing"
        /\ row.cursor = Row(r).cursor
    BY <1>1, LeasedRow
  <2>4. /\ now \in RunState /\ now.pc = "setSyncing" /\ now.next = Row(r).cursor + 1
        /\ now.source = Src(r)
    BY <1>1, LeasedRun DEF Src
  <2> HIDE DEF row, now
  <2>5. Row(r).cursor <= available[Src(r)] /\ Holds(Src(r), Row(r).cursor)
    BY <1>1 DEF IInv, Rows, NothingSkipped, Holds, Row
  <2>6. run'[r] = now /\ Src(r)' = Src(r) BY <1>1, <2>2, <2>4 DEF Src
  <2>7. cursors'[Src(r)] = row BY <1>1, <2>1
  <2>8. now.next - 1 = Row(r).cursor BY <1>1, <2>4
  <2>9. Progress(r)'
    <3>1. /\ run'[r].next - 1 = Row(r).cursor /\ run'[r].pc = "setSyncing"
          /\ Row(r)'.cursor = Row(r).cursor /\ ledger' = ledger /\ available' = available
      BY <2>1, <2>3, <2>4, <2>6, <2>7, <2>8 DEF Row
    <3>2. Holds(Src(r), run[r].next - 1)' BY <2>5, <2>6, <3>1 DEF Holds
    <3>3. Row(r)'.cursor <= run'[r].next - 1 BY <1>1, <3>1
    <3>4. QED BY <2>5, <2>6, <3>1, <3>2, <3>3 DEF Progress
  <2>10. QED BY <1>1, <2>1, <2>2, <2>3, <2>4, <2>5, <2>9, RowMoves
<1>4. QED BY <1>2, <1>3

\* A run that only goes on to another step, without touching its counters.
LEMMA GoneRun ==
    ASSUME NEW old \in RunState,
           NEW step \in {"fetch", "wallet", "payment"}
    PROVE  LET now == [old EXCEPT !.pc = step]
           IN  /\ now \in RunState /\ now.pc = step /\ now.next = old.next
               /\ now.last = old.last /\ now.source = old.source
BY DEF RunState

\* The wallet status is nobody's guard.
LEMMA SetSyncingKeepsIInv ==
    ASSUME IInv, NEW r \in Runs, SetSyncing(r)
    PROVE  IInv'
<1> DEFINE now == [run[r] EXCEPT !.pc = "fetch"]
<1>1. run \in [Runs -> RunState] /\ run[r] \in RunState /\ chainEvents \in SUBSET Payments
  BY DEF IInv, TypeOK
<1>2. /\ run[r].pc = "setSyncing" /\ walletStatus' = "syncing"
      /\ UNCHANGED <<available, cursors, archived, chainEvents, ledger, audits>>
      /\ run' = [run EXCEPT ![r] = now]
  BY DEF SetSyncing, At, Go
<1>3. /\ now \in RunState /\ now.pc = "fetch" /\ now.next = run[r].next
      /\ now.source = run[r].source
  BY <1>1, GoneRun
<1> HIDE DEF now
<1>4. run'[r] = now BY <1>1, <1>2
<1>5. Progress(r)'
  BY <1>2, <1>3, <1>4 DEF IInv, Progress, Working, Holds, HoldsToken, Row, Src
<1>6. QED BY <1>1, <1>2, <1>3, <1>5, OnlyRunMoves

\* A batch starts at the cursor and ends within the source.
LEMMA FetchKeepsIInv ==
    ASSUME IInv, NEW r \in Runs, Fetch(r)
    PROVE  IInv'
<1> DEFINE n == run[r].next
           last == EndOfBatch(n - 1, Src(r))
           step == IF n <= last THEN "event" ELSE "complete"
           more == last < available[Src(r)]
           now == [run[r] EXCEPT !.pc = step, !.last = last, !.more = more]
<1>1. /\ run \in [Runs -> RunState] /\ run[r] \in RunState /\ chainEvents \in SUBSET Payments
      /\ Src(r) \in Sources /\ available[Src(r)] \in 0..MaxPayments
      /\ n \in 1..MaxPayments + 1
      /\ walletStatus \in {"idle", "syncing", "partial", "ready", "failed"}
  BY DEF IInv, TypeOK, RunState, Src
<1>2. /\ run[r].pc = "fetch"
      /\ UNCHANGED <<available, cursors, walletStatus, archived, chainEvents, ledger, audits>>
      /\ run' = [run EXCEPT ![r] = now]
  BY <1>1, Zenon DEF Fetch, At
<1>3. /\ n - 1 <= available[Src(r)] /\ Holds(Src(r), n - 1)
      /\ HoldsToken(r) => Row(r).cursor <= n - 1
  BY <1>2 DEF IInv, Progress, Working
<1>4. last \in 0..MaxPayments /\ last <= available[Src(r)] /\ last >= n - 1
  BY <1>1, <1>3 DEF EndOfBatch
<1>5. step \in {"event", "complete"} /\ (step = "event" => n <= last)
      /\ (step = "complete" => last = n - 1) /\ more \in BOOLEAN
  BY <1>1, <1>4
<1> HIDE DEF last, step, more
<1>6. /\ now \in RunState /\ now.pc = step /\ now.next = n /\ now.last = last
      /\ now.source = Src(r)
  BY <1>1, <1>4, <1>5 DEF RunState, Src
<1> HIDE DEF now
<1>7. run'[r] = now BY <1>1, <1>2
<1>8. Progress(r)'
  BY <1>2, <1>3, <1>4, <1>5, <1>6, <1>7 DEF Progress, Holds, HoldsToken, Row, Src
<1>9. QED BY <1>1, <1>2, <1>6, <1>8, OnlyRunMoves

\* A chain event changes nothing a run relies on.
LEMMA IngestChainEventKeepsIInv ==
    ASSUME IInv, NEW r \in Runs, IngestChainEvent(r)
    PROVE  IInv'
<1> DEFINE now == [run[r] EXCEPT !.pc = "wallet"]
<1>1. /\ run \in [Runs -> RunState] /\ run[r] \in RunState /\ chainEvents \in SUBSET Payments
      /\ walletStatus \in {"idle", "syncing", "partial", "ready", "failed"}
      /\ Src(r) \in Sources /\ available[Src(r)] \in 0..MaxPayments
      /\ run[r].next \in 1..MaxPayments + 1 /\ run[r].last \in 0..MaxPayments
  BY DEF IInv, TypeOK, RunState, Src
<1>2. /\ run[r].pc = "event" /\ chainEvents' = chainEvents \cup {Current(r)}
      /\ UNCHANGED <<available, cursors, walletStatus, archived, ledger, audits>>
      /\ run' = [run EXCEPT ![r] = now]
  BY DEF IngestChainEvent, At, Go
<1>3. run[r].next <= run[r].last
  BY <1>2 DEF IInv, Progress, Working
<1>4. Current(r) \in Payments
  BY <1>1, <1>3 DEF Current, Payments
<1>5. /\ now \in RunState /\ now.pc = "wallet" /\ now.next = run[r].next
      /\ now.last = run[r].last /\ now.source = run[r].source
  BY <1>1, GoneRun
<1> HIDE DEF now
<1>6. run'[r] = now BY <1>1, <1>2
<1>7. Progress(r)'
  BY <1>2, <1>5, <1>6 DEF IInv, Progress, Working, Holds, HoldsToken, Row, Src
<1>8. chainEvents' \in SUBSET Payments BY <1>1, <1>2, <1>4
<1>9. walletStatus' \in {"idle", "syncing", "partial", "ready", "failed"} BY <1>1, <1>2
<1>10. QED BY <1>2, <1>5, <1>7, <1>8, <1>9, OnlyRunMoves

\* Nor does the check of the wallet.
LEMMA CheckWalletKeepsIInv ==
    ASSUME IInv, NEW r \in Runs, CheckWallet(r)
    PROVE  IInv'
<1>1. CASE archived BY <1>1, ThrowKeepsIInv DEF CheckWallet
<1>2. CASE ~archived
  <2> DEFINE now == [run[r] EXCEPT !.pc = "payment"]
  <2>1. /\ run \in [Runs -> RunState] /\ run[r] \in RunState
        /\ chainEvents \in SUBSET Payments
        /\ walletStatus \in {"idle", "syncing", "partial", "ready", "failed"}
    BY DEF IInv, TypeOK
  <2>2. /\ run[r].pc = "wallet" /\ run' = [run EXCEPT ![r] = now]
        /\ UNCHANGED <<available, cursors, walletStatus, archived, chainEvents, ledger, audits>>
    BY <1>2 DEF CheckWallet, At, Go
  <2>3. /\ now \in RunState /\ now.pc = "payment" /\ now.next = run[r].next
        /\ now.last = run[r].last /\ now.source = run[r].source
    BY <2>1, GoneRun
  <2> HIDE DEF now
  <2>4. run'[r] = now BY <2>1, <2>2
  <2>5. Progress(r)'
    BY <2>2, <2>3, <2>4 DEF IInv, Progress, Working, Holds, HoldsToken, Row, Src
  <2>6. QED BY <2>1, <2>2, <2>3, <2>5, OnlyRunMoves
<1>3. QED BY <1>1, <1>2

\* An ingested payment extends what its run may rely on, and takes nothing from others.
LEMMA IngestPaymentKeepsIInv ==
    ASSUME IInv, NEW r \in Runs, IngestPayment(r)
    PROVE  IInv'
<1> DEFINE n == run[r].next
           step == IF MoreToIngest(n, run[r].last) THEN "event" ELSE "complete"
           now == [run[r] EXCEPT !.pc = step, !.next = n + 1]
<1>1. /\ run \in [Runs -> RunState] /\ run[r] \in RunState
      /\ Src(r) \in Sources /\ available[Src(r)] \in 0..MaxPayments
      /\ n \in 1..MaxPayments + 1 /\ run[r].last \in 0..MaxPayments
      /\ cursors \in [Sources -> CursorRow] /\ Row(r).cursor \in 0..MaxPayments
  BY DEF IInv, TypeOK, RunState, CursorRow, Row, Src
<1>2. /\ run[r].pc = "payment" /\ ledger' = ledger \cup {Current(r)}
      /\ RecordIngested(Current(r))
      /\ UNCHANGED <<available, cursors, walletStatus, archived, chainEvents>>
      /\ run' = [run EXCEPT ![r] = now]
  BY <1>1, Zenon DEF IngestPayment, At
<1>3. /\ n <= run[r].last /\ run[r].last <= available[Src(r)] /\ Holds(Src(r), n - 1)
      /\ HoldsToken(r) => Row(r).cursor <= n - 1
  BY <1>2 DEF IInv, Progress, Working
<1>4. Current(r) \in Payments /\ Current(r) = <<Src(r), n>>
  BY <1>1, <1>3 DEF Current, Payments
<1>5. /\ step \in {"event", "complete"} /\ (step = "event" => n + 1 <= run[r].last)
      /\ (step = "complete" => run[r].last = n) /\ n + 1 \in 1..MaxPayments + 1
  BY <1>1, <1>3 DEF MoreToIngest
<1> HIDE DEF step
<1>6. /\ now \in RunState /\ now.pc = step /\ now.next = n + 1
      /\ now.last = run[r].last /\ now.source = Src(r)
  BY <1>1, <1>5 DEF RunState, Src
<1> HIDE DEF now
<1>7. run'[r] = now /\ run' \in [Runs -> RunState]
      /\ \A q \in Runs \ {r} : run'[q] = run[q]
  BY <1>1, <1>2, <1>6
<1>8. \A i \in 1..n : <<Src(r), i>> \in ledger'
  <2>1. \A i \in 1..n : i \in 1..n - 1 \/ i = n BY <1>1
  <2>2. QED BY <1>2, <1>3, <1>4, <2>1 DEF Holds
<1>9. Progress(r)'
  <2>1. run'[r].next - 1 = n BY <1>1, <1>6, <1>7
  <2>2. n <= available[Src(r)] BY <1>1, <1>3
  <2>3. HoldsToken(r) => Row(r).cursor <= n BY <1>1, <1>3
  <2>4. Src(r)' = Src(r) BY <1>6, <1>7 DEF Src
  <2>5. Holds(Src(r), run[r].next - 1)' BY <1>8, <2>1, <2>4 DEF Holds
  <2>6. QED
    BY <1>2, <1>3, <1>5, <1>6, <1>7, <2>1, <2>2, <2>3, <2>5
    DEF Progress, HoldsToken, Row, Src
<1>10. ASSUME NEW q \in Runs, q # r PROVE Progress(q)'
  BY <1>2, <1>7, <1>10 DEF IInv, Progress, Holds, HoldsToken, Row, Src
<1>11. NothingSkipped' BY <1>2 DEF IInv, NothingSkipped
<1>12. Rows' BY <1>2 DEF IInv, Rows
<1>13. audits \in [Payments -> Nat] /\ ledger \in SUBSET Payments BY DEF IInv, TypeOK
<1>14. OneAuditPerPayment' /\ audits' \in [Payments -> Nat]
  BY <1>2, <1>4, <1>13 DEF IInv, OneAuditPerPayment, RecordIngested
<1>15. TypeOK' BY <1>2, <1>4, <1>7, <1>13, <1>14 DEF IInv, TypeOK
<1>16. QED BY <1>9, <1>10, <1>11, <1>12, <1>14, <1>15 DEF IInv

\* The row the run's source has after complete or fail: nobody's, without a
\* lease.
LEMMA ReleasedRow ==
    ASSUME NEW old \in CursorRow, NEW n \in 0..MaxPayments,
           NEW status \in {"partial", "ready", "failed"}
    PROVE  LET new == [status |-> status, token |-> NoRun, left |-> 0, cursor |-> n]
               kept == [old EXCEPT !.status = status, !.token = NoRun, !.left = 0]
           IN  /\ new \in CursorRow
               /\ kept \in CursorRow /\ kept.token = NoRun /\ kept.left = 0
               /\ kept.cursor = old.cursor
<1> DEFINE ticks == 0..LeaseTicks
           positions == 0..MaxPayments
           statuses == {"idle", "syncing", "partial", "ready", "failed"}
<1>1. CursorRow = [status : statuses, token : Runs \cup {NoRun}, left : ticks,
                   cursor : positions]
  BY DEF CursorRow
<1>2. 0 \in ticks /\ status \in statuses /\ NoRun \in Runs \cup {NoRun} /\ n \in positions
  OBVIOUS
<1> HIDE DEF ticks, positions, statuses
<1>3. QED BY <1>1, <1>2

\* The closing transaction stores a cursor the ledger has reached.
LEMMA CompleteKeepsIInv ==
    ASSUME IInv, NEW r \in Runs, Complete(r)
    PROVE  IInv'
<1>1. CASE ~HoldsToken(r) BY <1>1, ThrowKeepsIInv DEF Complete
<1>2. CASE HoldsToken(r)
  <2> DEFINE outcome == IF run[r].more THEN "partial" ELSE "ready"
             row == [status |-> outcome, token |-> NoRun, left |-> 0, cursor |-> run[r].last]
             thrown == [run[r] EXCEPT !.pc = "catch", !.todo = {"cursor", "wallet"}]
  <2>1. /\ run \in [Runs -> RunState] /\ run[r] \in RunState /\ Row(r) \in CursorRow
        /\ Src(r) \in Sources /\ available[Src(r)] \in 0..MaxPayments
        /\ run[r].next \in 1..MaxPayments + 1 /\ run[r].last \in 0..MaxPayments
    BY DEF IInv, TypeOK, RunState, Row, Src
  <2>2. /\ run[r].pc = "complete" /\ cursors' = [cursors EXCEPT ![Src(r)] = row]
        /\ walletStatus' = outcome /\ (Stop(r) \/ Throw(r))
        /\ UNCHANGED <<available, archived, chainEvents, ledger, audits>>
    BY <1>2 DEF Complete, At
  <2>3. outcome \in {"partial", "ready"} OBVIOUS
  <2>4. /\ run[r].last <= available[Src(r)] /\ Holds(Src(r), run[r].last)
    BY <2>1, <2>2 DEF IInv, Progress, Working
  <2> HIDE DEF outcome
  <2>5. row \in CursorRow /\ row.token = NoRun /\ row.left = 0 /\ row.cursor = run[r].last
    BY <2>1, <2>3, ReleasedRow
  <2>6. thrown \in RunState /\ thrown.pc = "catch" BY <2>1 DEF RunState
  <2>7. Throw(r) => run' = [run EXCEPT ![r] = thrown] BY <2>1, Zenon DEF Throw
  <2> HIDE DEF row, thrown
  <2>8. Stopped(Src(r)) \in RunState /\ Stopped(Src(r)).pc = "idle" BY <2>1, StoppedRun
  <2>9. PICK now \in RunState :
            run' = [run EXCEPT ![r] = now] /\ now.pc \in {"idle", "catch"}
    BY <2>2, <2>6, <2>7, <2>8 DEF Stop
  <2>10. Progress(r)' BY <2>1, <2>9 DEF Progress, Working
  <2>11. /\ ~(row.left > 0) /\ row.token \in {r, NoRun}
         /\ row.cursor <= available[Src(r)] /\ Holds(Src(r), row.cursor)
    BY <2>4, <2>5
  <2>12. walletStatus' \in {"idle", "syncing", "partial", "ready", "failed"}
    BY <2>2, <2>3
  <2>13. QED BY <2>2, <2>5, <2>9, <2>10, <2>11, <2>12, RowMoves
<1>3. QED BY <1>1, <1>2

\* After one of the two updates of the catch block the run relies on nothing.
LEMMA SettledRun ==
    ASSUME IInv, NEW r \in Runs, NEW update \in {"cursor", "wallet"}, Settle(r, update)
    PROVE  \E now \in RunState : /\ run' = [run EXCEPT ![r] = now]
                                 /\ Progress(r)'
<1>1. /\ run \in [Runs -> RunState] /\ run[r] \in RunState /\ Src(r) \in Sources
  BY DEF IInv, TypeOK, RunState, Src
<1>2. CASE Stop(r)
  <2>1. Stopped(Src(r)) \in RunState /\ Stopped(Src(r)).pc = "idle" BY <1>1, StoppedRun
  <2>2. Progress(r)' BY <1>1, <1>2, <2>1 DEF Stop, Progress, Working
  <2>3. QED BY <1>2, <2>1, <2>2 DEF Stop
<1>3. CASE ~Stop(r)
  <2> DEFINE now == [run[r] EXCEPT !.todo = run[r].todo \ {update}]
  <2>1. run[r].pc = "catch" /\ run' = [run EXCEPT ![r].todo = @ \ {update}]
    BY <1>3 DEF Settle, At
  <2>2. run' = [run EXCEPT ![r] = now] BY <1>1, <2>1, Zenon
  <2>3. now \in RunState /\ now.pc = "catch" BY <1>1, <2>1 DEF RunState
  <2> HIDE DEF now
  <2>4. Progress(r)' BY <1>1, <2>2, <2>3 DEF Progress, Working
  <2>5. QED BY <2>2, <2>3, <2>4
<1>4. QED BY <1>2, <1>3

\* A failure releases the row and leaves its cursor.
LEMMA FailCursorKeepsIInv ==
    ASSUME IInv, NEW r \in Runs, FailCursor(r)
    PROVE  IInv'
<1> DEFINE row == [Row(r) EXCEPT !.status = "failed", !.token = NoRun, !.left = 0]
<1>1. /\ Row(r) \in CursorRow /\ Src(r) \in Sources /\ chainEvents \in SUBSET Payments
      /\ walletStatus \in {"idle", "syncing", "partial", "ready", "failed"}
      /\ Row(r).cursor \in 0..MaxPayments
  BY DEF IInv, TypeOK, RunState, CursorRow, Row, Src
<1>2. PICK now \in RunState : run' = [run EXCEPT ![r] = now] /\ Progress(r)'
  BY SettledRun DEF FailCursor
<1>3. UNCHANGED <<available, archived, chainEvents, ledger, audits, walletStatus>>
  BY DEF FailCursor, Settle
<1>4. CASE cursors' = cursors
  BY <1>1, <1>2, <1>3, <1>4, OnlyRunMoves
<1>5. CASE cursors' # cursors
  <2>1. cursors' = [cursors EXCEPT ![Src(r)] = row]
    BY <1>5 DEF FailCursor, Row
  <2>2. row \in CursorRow /\ row.token = NoRun /\ row.left = 0 /\ row.cursor = Row(r).cursor
    BY <1>1, ReleasedRow
  <2>3. Row(r).cursor <= available[Src(r)] /\ Holds(Src(r), Row(r).cursor)
    BY <1>1 DEF IInv, Rows, NothingSkipped, Holds, Row
  <2> HIDE DEF row
  <2>4. /\ ~(row.left > 0) /\ row.token \in {r, NoRun}
        /\ row.cursor <= available[Src(r)] /\ Holds(Src(r), row.cursor)
    BY <2>2, <2>3
  <2>5. QED BY <1>1, <1>2, <1>3, <2>1, <2>2, <2>4, RowMoves
<1>6. QED BY <1>4, <1>5

\* A failure marks the wallet.
LEMMA FailWalletKeepsIInv ==
    ASSUME IInv, NEW r \in Runs, FailWallet(r)
    PROVE  IInv'
<1>1. chainEvents \in SUBSET Payments BY DEF IInv, TypeOK
<1>2. PICK now \in RunState : run' = [run EXCEPT ![r] = now] /\ Progress(r)'
  BY SettledRun DEF FailWallet
<1>3. UNCHANGED <<available, archived, chainEvents, ledger, audits, cursors>>
      /\ walletStatus' = "failed"
  BY DEF FailWallet, Settle
<1>4. QED BY <1>1, <1>2, <1>3, OnlyRunMoves

\* Time, payments that arrive, and the wallet's archival disturb no run.
LEMMA EnvironmentKeepsIInv ==
    ASSUME IInv,
           Tick \/ (\E s \in Sources : NewPayment(s)) \/ Archive \/ Restore
    PROVE  IInv'
<1>1. CASE Tick
  <2>1. cursors \in [Sources -> CursorRow] BY DEF IInv, TypeOK
  <2>2. /\ \A s \in Sources : cursors'[s] =
              [cursors[s] EXCEPT !.left = IF cursors[s].left > 0 THEN cursors[s].left - 1 ELSE 0]
        /\ DOMAIN cursors' = Sources
        /\ cursors' = [s \in Sources |-> cursors'[s]]
        /\ UNCHANGED <<available, walletStatus, archived, run, chainEvents, ledger, audits>>
    BY <1>1 DEF Tick
  <2>3. \A s \in Sources :
            /\ cursors'[s] \in CursorRow /\ cursors'[s].status = cursors[s].status
            /\ cursors'[s].token = cursors[s].token /\ cursors'[s].cursor = cursors[s].cursor
            /\ cursors'[s].left > 0 => cursors[s].left > 0
    BY <2>1, <2>2 DEF CursorRow
  <2>4. TypeOK' BY <2>2, <2>3 DEF IInv, TypeOK
  <2>5. NothingSkipped' /\ OneAuditPerPayment' /\ Rows'
    BY <2>2, <2>3 DEF IInv, NothingSkipped, OneAuditPerPayment, Rows
  <2>6. ASSUME NEW r \in Runs PROVE Progress(r)'
    <3>1. Src(r) \in Sources BY DEF IInv, TypeOK, RunState, Src
    <3>2. Src(r)' = Src(r) /\ run' = run BY <2>2 DEF Src
    <3>3. HoldsToken(r)' = HoldsToken(r) /\ Row(r)'.cursor = Row(r).cursor
      BY <2>3, <3>1, <3>2 DEF HoldsToken, Row
    <3>4. QED BY <2>2, <3>2, <3>3 DEF IInv, Progress, Holds
  <2>7. QED BY <2>4, <2>5, <2>6 DEF IInv
<1>2. ASSUME NEW s \in Sources, NewPayment(s) PROVE IInv'
  <2>1. available \in [Sources -> 0..MaxPayments] BY DEF IInv, TypeOK
  <2>2. /\ available' \in [Sources -> 0..MaxPayments]
        /\ \A q \in Sources : available[q] <= available'[q]
        /\ UNCHANGED <<cursors, walletStatus, archived, run, chainEvents, ledger, audits>>
    BY <1>2, <2>1 DEF NewPayment
  <2>3. TypeOK' BY <2>2 DEF IInv, TypeOK
  <2>4. NothingSkipped' /\ OneAuditPerPayment'
    BY <2>2 DEF IInv, NothingSkipped, OneAuditPerPayment
  <2>5. Rows'
    <3>1. \A q \in Sources : cursors[q].cursor \in 0..MaxPayments
      BY DEF IInv, TypeOK, CursorRow
    <3>2. QED BY <2>1, <2>2, <3>1 DEF IInv, Rows
  <2>6. ASSUME NEW r \in Runs PROVE Progress(r)'
    <3>1. /\ Src(r) \in Sources /\ run[r].next \in 1..MaxPayments + 1
          /\ run[r].last \in 0..MaxPayments
      BY DEF IInv, TypeOK, RunState, Src
    <3>2. /\ available[Src(r)] <= available'[Src(r)] /\ available[Src(r)] \in Nat
          /\ available'[Src(r)] \in Nat
      BY <2>1, <2>2, <3>1
    <3>3. QED BY <2>2, <3>1, <3>2 DEF IInv, Progress, Holds, HoldsToken, Row, Src
  <2>7. QED BY <2>3, <2>4, <2>5, <2>6 DEF IInv
<1>3. CASE Archive \/ Restore
  BY <1>3 DEF Archive, Restore, IInv, TypeOK, NothingSkipped, OneAuditPerPayment, Rows,
              Progress, Holds, HoldsToken, Row, Src
<1>4. QED BY <1>1, <1>2, <1>3

\* Every step keeps the invariant.
LEMMA StepIInv ==
    ASSUME IInv, [Next]_vars
    PROVE  IInv'
<1>1. CASE UNCHANGED vars
  BY <1>1 DEF vars, IInv, TypeOK, NothingSkipped, OneAuditPerPayment, Rows, Progress,
              Holds, HoldsToken, Row, Src
<1>2. ASSUME NEW r \in Runs, Error(r) PROVE IInv'
  BY <1>2, ThrowKeepsIInv DEF Error
<1>3. ASSUME NEW r \in Runs, Crash(r) PROVE IInv'
  BY <1>3, StopKeepsIInv DEF Crash
<1>4. QED
  BY <1>1, <1>2, <1>3, BeginKeepsIInv, AcquireKeepsIInv, SetSyncingKeepsIInv,
     FetchKeepsIInv, IngestChainEventKeepsIInv, CheckWalletKeepsIInv,
     IngestPaymentKeepsIInv, CompleteKeepsIInv, FailCursorKeepsIInv, FailWalletKeepsIInv, EnvironmentKeepsIInv, Zenon
  DEF Next, Proceed

\* The invariant holds in every state.
LEMMA Invariance == Spec => []IInv
<1>1. Init => IInv BY InitIInv
<1>2. IInv /\ [Next]_vars => IInv' BY StepIInv
<1>3. QED BY <1>1, <1>2, PTL DEF Spec

-------------------------------------------------------------------------------
(* Theorems.                                                               *)

\* Rows, runs and stores keep their types.
THEOREM TypeCorrect == Spec => []TypeOK
<1>1. IInv => TypeOK BY DEF IInv
<1>2. QED BY <1>1, Invariance, PTL

\* No stored cursor passes a payment that is not in the ledger, for any number
\* of runs that overlap, fail, die or lose their lease.
THEOREM NoPaymentIsSkipped == Spec => []NothingSkipped
<1>1. IInv => NothingSkipped BY DEF IInv
<1>2. QED BY <1>1, Invariance, PTL

\* A payment is audited once however often it is ingested.
THEOREM PaymentsAreAuditedOnce == Spec => []OneAuditPerPayment
<1>1. IInv => OneAuditPerPayment BY DEF IInv
<1>2. QED BY <1>1, Invariance, PTL

\* Four actions write the rows of sync_cursors.
LEMMA CursorWriters ==
    ASSUME [Next]_vars, cursors' # cursors
    PROVE  \/ Tick
           \/ \E r \in Runs : Acquire(r) \/ Complete(r) \/ FailCursor(r)
<1>1. UNCHANGED vars => cursors' = cursors BY DEF vars
<1>2. ASSUME NEW r \in Runs
      PROVE  /\ \A q \in Sources : Begin(r, q) => cursors' = cursors
             /\ SetSyncing(r) => cursors' = cursors
             /\ Fetch(r) => cursors' = cursors
             /\ IngestChainEvent(r) => cursors' = cursors
             /\ CheckWallet(r) => cursors' = cursors
             /\ IngestPayment(r) => cursors' = cursors
             /\ FailWallet(r) => cursors' = cursors
             /\ Error(r) => cursors' = cursors
             /\ Crash(r) => cursors' = cursors
  BY DEF Begin, SetSyncing, Fetch, IngestChainEvent, CheckWallet, IngestPayment, FailWallet, Error,
         Crash
<1>3. /\ \A q \in Sources : NewPayment(q) => cursors' = cursors
      /\ Archive \/ Restore => cursors' = cursors
  BY DEF NewPayment, Archive, Restore
<1>4. QED BY <1>1, <1>2, <1>3, Zenon DEF Next, Proceed

\* The token fences the cursor: a run whose lease was taken over cannot set it
\* back.
LEMMA CursorsAdvance ==
    ASSUME IInv, [Next]_vars, NEW s \in Sources
    PROVE  cursors'[s].cursor >= cursors[s].cursor
<1>1. cursors \in [Sources -> CursorRow] /\ cursors[s].cursor \in Nat
  BY DEF IInv, TypeOK, CursorRow
<1>2. CASE cursors' = cursors BY <1>1, <1>2
<1>3. ASSUME NEW r \in Runs, Acquire(r), cursors' # cursors
      PROVE  cursors'[s].cursor = cursors[s].cursor
  <2>1. cursors' = [cursors EXCEPT ![Src(r)] =
                      [cursors[Src(r)] EXCEPT !.status = "syncing", !.token = r,
                                              !.left = LeaseTicks]]
    BY <1>3 DEF Acquire
  <2>2. QED BY <1>1, <2>1 DEF CursorRow
<1>4. ASSUME NEW r \in Runs, Complete(r), cursors' # cursors
      PROVE  cursors'[s].cursor >= cursors[s].cursor
  <2>1. /\ HoldsToken(r) /\ run[r].pc = "complete"
        /\ \E status : cursors' = [cursors EXCEPT ![Src(r)] =
              [status |-> status, token |-> NoRun, left |-> 0, cursor |-> run[r].last]]
    BY <1>4 DEF Complete, At
  <2>2. Row(r).cursor <= run[r].last
    BY <2>1 DEF IInv, Progress, Working
  <2>3. run[r].last \in Nat /\ Src(r) \in Sources
    BY DEF IInv, TypeOK, RunState, Src
  <2>4. CASE s = Src(r) BY <1>1, <2>1, <2>2, <2>3, <2>4 DEF Row
  <2>5. CASE s # Src(r) BY <1>1, <2>1, <2>5
  <2>6. QED BY <2>4, <2>5
<1>5. ASSUME NEW r \in Runs, FailCursor(r), cursors' # cursors
      PROVE  cursors'[s].cursor = cursors[s].cursor
  <2>1. cursors' = [cursors EXCEPT ![Src(r)] =
                      [cursors[Src(r)] EXCEPT !.status = "failed", !.token = NoRun,
                                              !.left = 0]]
    BY <1>5 DEF FailCursor
  <2>2. QED BY <1>1, <2>1 DEF CursorRow
<1>6. CASE Tick
  BY <1>1, <1>6 DEF Tick, CursorRow
<1>7. cursors' # cursors =>
          \/ Tick
          \/ \E r \in Runs : Acquire(r) \/ Complete(r) \/ FailCursor(r)
  BY CursorWriters
<1>8. QED BY <1>1, <1>2, <1>3, <1>4, <1>5, <1>6, <1>7

\* A stored cursor never goes back, for any runs, leases and batches.
THEOREM CursorsNeverGoBack == Spec => CursorNeverGoesBack
<1>1. IInv /\ [Next]_vars =>
        [\A s \in Sources : cursors'[s].cursor >= cursors[s].cursor]_vars
  BY CursorsAdvance
<1>2. QED BY <1>1, Invariance, PTL DEF Spec, CursorNeverGoesBack

\* A live lease passes to no other run.
THEOREM LiveLeasesAreKept == Spec => LiveLeaseIsKept
<1>1. ASSUME IInv, [Next]_vars, NEW s \in Sources,
             cursors[s].left > 0, cursors'[s].token # cursors[s].token
      PROVE  cursors'[s].token = NoRun
  <2>1. cursors \in [Sources -> CursorRow] /\ cursors[s].left \in Nat
    BY <1>1 DEF IInv, TypeOK, CursorRow
  <2>2. cursors[s].status = "syncing" /\ ~(cursors[s].left = 0)
    BY <1>1, <2>1 DEF IInv, Rows
  <2>3. ASSUME NEW r \in Runs, Acquire(r) PROVE FALSE
    <3>1. Free(Row(r)) BY <1>1, <2>3 DEF Acquire
    <3>2. cursors' = [cursors EXCEPT ![Src(r)] =
                        [cursors[Src(r)] EXCEPT !.status = "syncing", !.token = r,
                                                !.left = LeaseTicks]]
      BY <2>3, <3>1 DEF Acquire
    <3>3. s # Src(r) BY <2>2, <3>1 DEF Free, Row
    <3>4. QED BY <1>1, <2>1, <3>2, <3>3
  <2>4. ASSUME NEW r \in Runs, Complete(r) PROVE cursors'[s].token = NoRun
    BY <1>1, <2>1, <2>4 DEF Complete
  <2>5. ASSUME NEW r \in Runs, FailCursor(r) PROVE cursors'[s].token = NoRun
    <3>1. cursors' = [cursors EXCEPT ![Src(r)] =
                        [cursors[Src(r)] EXCEPT !.status = "failed", !.token = NoRun,
                                                !.left = 0]]
      BY <1>1, <2>5 DEF FailCursor
    <3>2. s = Src(r) BY <1>1, <2>1, <3>1
    <3>3. QED BY <2>1, <3>1, <3>2 DEF CursorRow
  <2>6. CASE Tick
    BY <1>1, <2>1, <2>6 DEF Tick, CursorRow
  <2>7. cursors' # cursors BY <1>1
  <2>8. QED BY <1>1, <2>3, <2>4, <2>5, <2>6, <2>7, CursorWriters
<1>2. IInv /\ [Next]_vars =>
        [\A s \in Sources :
            (cursors[s].left > 0 /\ cursors'[s].token # cursors[s].token)
                => cursors'[s].token = NoRun]_vars
  BY <1>1
<1>3. QED BY <1>2, Invariance, PTL DEF Spec, LiveLeaseIsKept

-------------------------------------------------------------------------------
(* The promise.                                                            *)

\* The ledger holds payments that exist.
LedgerExists == ledger \subseteq Existing

\* Only a payment that arrives changes what exists.
LEMMA AvailableWriters ==
    ASSUME [Next]_vars, available' # available
    PROVE  \E s \in Sources : NewPayment(s)
<1>1. UNCHANGED vars => available' = available BY DEF vars
<1>2. ASSUME NEW r \in Runs
      PROVE  /\ \A q \in Sources : Begin(r, q) => available' = available
             /\ Proceed(r) => available' = available
             /\ Error(r) \/ Crash(r) => available' = available
  BY DEF Begin, Proceed, Acquire, SetSyncing, Fetch, IngestChainEvent, CheckWallet, IngestPayment,
         Complete, FailCursor, FailWallet, Settle, Error, Crash
<1>3. Tick \/ Archive \/ Restore => available' = available BY DEF Tick, Archive, Restore
<1>4. QED BY <1>1, <1>2, <1>3, Zenon DEF Next

\* Only an ingestion changes the ledger.
LEMMA LedgerWriters ==
    ASSUME [Next]_vars, ledger' # ledger
    PROVE  \E r \in Runs : IngestPayment(r)
<1>1. UNCHANGED vars => ledger' = ledger BY DEF vars
<1>2. ASSUME NEW r \in Runs
      PROVE  /\ \A q \in Sources : Begin(r, q) => ledger' = ledger
             /\ Proceed(r) /\ ~IngestPayment(r) => ledger' = ledger
             /\ Error(r) \/ Crash(r) => ledger' = ledger
  BY DEF Begin, Proceed, Acquire, SetSyncing, Fetch, IngestChainEvent, CheckWallet,
         Complete, FailCursor, FailWallet, Settle, Error, Crash
<1>3. /\ \A q \in Sources : NewPayment(q) => ledger' = ledger
      /\ Tick \/ Archive \/ Restore => ledger' = ledger
  BY DEF NewPayment, Tick, Archive, Restore
<1>4. QED BY <1>1, <1>2, <1>3, Zenon DEF Next

\* The ledger only grows, by payments that exist: a run ingests what its batch
\* holds, and a batch ends within its source.
LEMMA LedgerGrows ==
    ASSUME IInv, LedgerExists, [Next]_vars
    PROVE  ledger \subseteq ledger' /\ ledger' \subseteq Existing
<1>1. CASE ledger' = ledger BY <1>1 DEF LedgerExists
<1>2. CASE ledger' # ledger
  <2>1. PICK r \in Runs : IngestPayment(r) BY <1>2, LedgerWriters
  <2>2. ledger' = ledger \cup {<<Src(r), run[r].next>>}
    BY <2>1 DEF IngestPayment, Current
  <2>3. run[r].next <= run[r].last /\ run[r].last <= available[Src(r)]
    BY <2>1 DEF IngestPayment, At, IInv, Progress, Working
  <2>4. /\ Src(r) \in Sources /\ run[r].next \in 1..MaxPayments + 1
        /\ run[r].last \in 0..MaxPayments /\ available[Src(r)] \in 0..MaxPayments
    BY DEF IInv, TypeOK, RunState, Src
  <2>5. run[r].next \in 1..MaxPayments /\ run[r].next <= available[Src(r)]
    BY <2>3, <2>4
  <2>6. <<Src(r), run[r].next>> \in Existing
    BY <2>4, <2>5 DEF Existing, Payments
  <2>7. QED BY <2>2, <2>6 DEF LedgerExists
<1>3. QED BY <1>1, <1>2

\* What exists never goes away.
LEMMA ExistingGrows ==
    ASSUME IInv, NEW s \in Sources, NewPayment(s)
    PROVE  Existing \subseteq Existing'
<1>1. available \in [Sources -> 0..MaxPayments] BY DEF IInv, TypeOK
<1>2. \A q \in Sources : available'[q] \in Nat /\ available[q] <= available'[q]
  BY <1>1 DEF NewPayment
<1>3. QED BY <1>1, <1>2 DEF Existing, Payments

\* What the cursors have passed grows, and is in the ledger.
LEMMA CoveredGrows ==
    ASSUME IInv, IInv', [Next]_vars
    PROVE  Covered \subseteq Covered' /\ Covered' \subseteq ledger'
<1>1. /\ \A s \in Sources : cursors[s].cursor \in 0..MaxPayments
      /\ \A s \in Sources : cursors'[s].cursor \in 0..MaxPayments
  BY DEF IInv, TypeOK, CursorRow
<1>2. Covered \subseteq Covered'
  <2> SUFFICES ASSUME NEW s \in Sources, NEW i \in 1..MaxPayments, i <= cursors[s].cursor
               PROVE  i <= cursors'[s].cursor
    BY DEF Covered, Payments
  <2>1. QED BY <1>1, CursorsAdvance
<1>3. Covered' \subseteq ledger'
  <2> SUFFICES ASSUME NEW s \in Sources, NEW i \in 1..MaxPayments, i <= cursors'[s].cursor
               PROVE  <<s, i>> \in ledger'
    BY DEF Covered, Payments
  <2>1. QED BY <1>1 DEF IInv, NothingSkipped
<1>4. QED BY <1>2, <1>3

\* Every step is one of Coverage, or changes nothing it sees: most change
\* neither the ledger nor a cursor, which Advance allows.
LEMMA StepRefines ==
    IInv /\ IInv' /\ LedgerExists /\ [Next]_vars =>
        LedgerExists' /\ [Promise!Next]_(Promise!vars)
<1> SUFFICES ASSUME IInv, IInv', LedgerExists, [Next]_vars
             PROVE  LedgerExists' /\ [Promise!Next]_(Promise!vars)
  OBVIOUS
<1>1. CASE available' # available
  <2>1. PICK s \in Sources : NewPayment(s) BY <1>1, AvailableWriters
  <2>2. UNCHANGED <<cursors, ledger>> BY <2>1 DEF NewPayment
  <2>3. Existing \subseteq Existing' BY <2>1, ExistingGrows
  <2>4. Covered' = Covered BY <2>2 DEF Covered
  <2>5. QED BY <2>2, <2>3, <2>4 DEF LedgerExists, Promise!Next, Promise!Appear
<1>2. CASE available' = available
  <2>1. Existing' = Existing BY <1>2 DEF Existing
  <2>2. ledger \subseteq ledger' /\ ledger' \subseteq Existing BY LedgerGrows
  <2>3. Covered \subseteq Covered' /\ Covered' \subseteq ledger' BY CoveredGrows
  <2>4. QED BY <2>1, <2>2, <2>3
            DEF LedgerExists, Promise!Next, Promise!Advance, Promise!Grow
<1>3. QED BY <1>1, <1>2

\* Synchronisation implements Coverage, for any number of runs and sources, and
\* any lease and batch: no run, overlapping, failing, dead or late, takes back
\* what a cursor covers or lets one cover what the ledger does not hold.
THEOREM ImplementsPromise == Spec => KeepsPromise
<1>1. Init => LedgerExists /\ Promise!Init
  <2> SUFFICES ASSUME Init PROVE LedgerExists /\ Promise!Init
    OBVIOUS
  <2>1. Covered = {} BY DEF Init, Covered, Payments
  <2>2. QED BY <2>1 DEF Init, LedgerExists, Promise!Init
<1>2. QED BY <1>1, StepRefines, Invariance, PTL DEF Spec, KeepsPromise, Promise!Spec
===============================================================================
