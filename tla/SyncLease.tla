------------------------------ MODULE SyncLease ------------------------------
(***************************************************************************)
(* Synchronising one wallet: WorkspaceSyncService.sync in                  *)
(* src/lib/sync/service.ts with the leases of SyncRepository and the       *)
(* ingestion it drives.                                                    *)
(*                                                                         *)
(* Runs are concurrent requests in any number of server processes.  Each   *)
(* statement or transaction is a step; the lease of a source is counted    *)
(* down by Tick, so a slow run may go on after its lease is over, while    *)
(* another run has taken the source.  A process may die anywhere.          *)
(*                                                                         *)
(* A source holds payments 1, 2, ... in order and a cursor is how many of  *)
(* them a run has taken: what ArcCursor shows of block cursors.            *)
(***************************************************************************)
EXTENDS Naturals, FiniteSets

CONSTANTS
    Runs,           \* concurrent invocations of sync
    Sources,        \* the adapters configured for the wallet
    LeaseTicks,     \* leaseMs, in clock units
    Batch,          \* payments one run of an adapter takes at most
    MaxPayments,    \* bound on the payments of a source
    NoRun,          \* a null lease token
    AckMayBeLost    \* whether a COMMIT may succeed and yet report an error

ASSUME LeaseAssumption ==
    /\ LeaseTicks \in Nat \ {0} /\ Batch \in Nat \ {0} /\ MaxPayments \in Nat
    /\ NoRun \notin Runs
    /\ AckMayBeLost \in BOOLEAN

VARIABLES
    available,  \* available[s]: payments that exist at source s
    cursors,    \* cursors[s]: the row of sync_cursors for the wallet and s
    walletStatus, \* wallets.sync_status
    archived,   \* wallets.archived_at is set
    run,        \* run[r]: where run r is, and what it holds in memory
    chainEvents, \* the payments whose chain event is stored
    ledger,     \* the payments stored in payment_events
    audits      \* audits[p]: "payment.ingested" audit events of payment p

vars == <<available, cursors, walletStatus, archived, run, chainEvents, ledger,
          audits>>

-------------------------------------------------------------------------------
(* Types.                                                                  *)

Payments == Sources \X (1..MaxPayments)

\* A fresh lease token per acquisition: represented by the run that acquired,
\* which holds no other lease while it lives.
CursorRow == [status : {"idle", "syncing", "partial", "ready", "failed"},
              token : Runs \cup {NoRun}, left : 0..LeaseTicks,
              cursor : 0..MaxPayments]

RunState == [pc : {"idle", "acquire", "setSyncing", "fetch", "event",
                   "wallet", "payment", "complete", "catch"},
             source : Sources,
             next : 1..MaxPayments + 1, last : 0..MaxPayments,
             more : BOOLEAN, todo : SUBSET {"cursor", "wallet"}]

\* TYPE INVARIANT.
TypeOK ==
    /\ available \in [Sources -> 0..MaxPayments]
    /\ cursors \in [Sources -> CursorRow]
    /\ walletStatus \in {"idle", "syncing", "partial", "ready", "failed"}
    /\ archived \in BOOLEAN
    /\ run \in [Runs -> RunState]
    /\ chainEvents \in SUBSET Payments
    /\ ledger \in SUBSET Payments
    /\ audits \in [Payments -> Nat]

Stopped(s) == [pc |-> "idle", source |-> s, next |-> 1, last |-> 0,
               more |-> FALSE, todo |-> {}]

Init ==
    /\ available \in [Sources -> 0..MaxPayments]
    /\ cursors = [s \in Sources |-> [status |-> "idle", token |-> NoRun,
                                     left |-> 0, cursor |-> 0]]
    /\ walletStatus = "idle"
    /\ archived = FALSE
    /\ run \in [Runs -> {Stopped(s) : s \in Sources}]
    /\ chainEvents = {}
    /\ ledger = {}
    /\ audits = [p \in Payments |-> 0]

-------------------------------------------------------------------------------
(* Helpers.                                                                *)

Src(r) == run[r].source
Row(r) == cursors[Src(r)]
Current(r) == <<Src(r), run[r].next>>

At(r, step) == run[r].pc = step
Go(r, step) == run' = [run EXCEPT ![r].pc = step]

\* The end of a run, and of what it had in memory.
Stop(r) == run' = [run EXCEPT ![r] = Stopped(Src(r))]

\* catch: Promise.allSettled starts both updates.
Throw(r) == run' = [run EXCEPT ![r].pc = "catch", ![r].todo = {"cursor", "wallet"}]

\* Slips a change of the code could make, kept for mutation checking.
FreeWhenNotSyncing(row) == row.status # "syncing"
HoldsAny(r) == TRUE
AuditAlways(p) == audits' = [audits EXCEPT ![p] = @ + 1]
EndOfBatchUnbounded(n, s) == n + Batch
MoreToIngestButOne(n, last) == n + 1 < last

\* The setWhere of acquire: nobody syncs, or the lease is over.
Free(row) == row.status # "syncing" \/ row.left = 0

\* complete and fail update the row only while it carries the run's token,
\* expired or not.
HoldsToken(r) == Row(r).token = r

\* The audit event of an ingestion that inserted its payment.
RecordIngested(p) ==
    audits' = IF p \in ledger THEN audits ELSE [audits EXCEPT ![p] = @ + 1]

EndOfBatch(n, s) == IF n + Batch <= available[s] THEN n + Batch ELSE available[s]

MoreToIngest(n, last) == n < last

-------------------------------------------------------------------------------
(* sync.                                                                   *)

\* The reads that precede the lease.
Begin(r, s) ==
    /\ At(r, "idle")
    /\ ~archived
    /\ run' = [run EXCEPT ![r] = [Stopped(s) EXCEPT !.pc = "acquire"]]
    /\ UNCHANGED <<available, cursors, walletStatus, archived, chainEvents,
                   ledger, audits>>

\* acquire: one upsert, guarded by Free.
Acquire(r) ==
    /\ At(r, "acquire")
    /\ IF Free(Row(r))
         THEN /\ cursors' = [cursors EXCEPT ![Src(r)] =
                    [@ EXCEPT !.status = "syncing", !.token = r,
                              !.left = LeaseTicks]]
              /\ run' = [run EXCEPT ![r].pc = "setSyncing",
                                    ![r].next = Row(r).cursor + 1]
         ELSE /\ Stop(r)
              /\ UNCHANGED cursors
    /\ UNCHANGED <<available, walletStatus, archived, chainEvents, ledger, audits>>

SetSyncing(r) ==
    /\ At(r, "setSyncing")
    /\ walletStatus' = "syncing"
    /\ Go(r, "fetch")
    /\ UNCHANGED <<available, cursors, archived, chainEvents, ledger, audits>>

\* adapter.sync, from the cursor the lease returned.
Fetch(r) ==
    LET last == EndOfBatch(run[r].next - 1, Src(r)) IN
    /\ At(r, "fetch")
    /\ run' = [run EXCEPT ![r].pc = IF run[r].next <= last THEN "event" ELSE "complete",
                          ![r].last = last,
                          ![r].more = last < available[Src(r)]]
    /\ UNCHANGED <<available, cursors, walletStatus, archived, chainEvents,
                   ledger, audits>>

\* ChainEventRepository.ingest: insert unless it is there.
IngestChainEvent(r) ==
    /\ At(r, "event")
    /\ chainEvents' = chainEvents \cup {Current(r)}
    /\ Go(r, "wallet")
    /\ UNCHANGED <<available, cursors, walletStatus, archived, ledger, audits>>

\* ingestPayment reads the wallet first, and refuses one that is archived.
CheckWallet(r) ==
    /\ At(r, "wallet")
    /\ IF archived THEN Throw(r) ELSE Go(r, "payment")
    /\ UNCHANGED <<available, cursors, walletStatus, archived, chainEvents,
                   ledger, audits>>

\* The transaction of ingestPayment inserts the payment unless it is there, and
\* audits the insertion.
IngestPayment(r) ==
    /\ At(r, "payment")
    /\ ledger' = ledger \cup {Current(r)}
    /\ RecordIngested(Current(r))
    /\ run' = [run EXCEPT ![r].pc = IF MoreToIngest(run[r].next, run[r].last)
                                      THEN "event" ELSE "complete",
                          ![r].next = @ + 1]
    /\ UNCHANGED <<available, cursors, walletStatus, archived, chainEvents>>

\* The closing transaction: the cursor, the wallet and the audit event, or
\* nothing when the lease has been taken over.
Complete(r) ==
    LET outcome == IF run[r].more THEN "partial" ELSE "ready" IN
    /\ At(r, "complete")
    /\ IF HoldsToken(r)
         THEN /\ cursors' = [cursors EXCEPT ![Src(r)] =
                    [status |-> outcome, token |-> NoRun, left |-> 0,
                     cursor |-> run[r].last]]
              /\ walletStatus' = outcome
              /\ Stop(r) \/ (AckMayBeLost /\ Throw(r))
         ELSE /\ Throw(r)
              /\ UNCHANGED <<cursors, walletStatus>>
    /\ UNCHANGED <<available, archived, chainEvents, ledger, audits>>

\* The adapter, an ingestion or an update throws.
Error(r) ==
    /\ run[r].pc \in {"setSyncing", "fetch", "event", "wallet", "payment", "complete"}
    /\ Throw(r)
    /\ UNCHANGED <<available, cursors, walletStatus, archived, chainEvents,
                   ledger, audits>>

\* The two updates of the catch block, in either order.
Settle(r, update) ==
    /\ At(r, "catch")
    /\ update \in run[r].todo
    /\ IF run[r].todo = {update}
         THEN Stop(r)
         ELSE run' = [run EXCEPT ![r].todo = @ \ {update}]
    /\ UNCHANGED <<available, archived, chainEvents, ledger, audits>>

FailCursor(r) ==
    /\ Settle(r, "cursor")
    /\ IF HoldsToken(r)
         THEN cursors' = [cursors EXCEPT ![Src(r)] =
                [@ EXCEPT !.status = "failed", !.token = NoRun, !.left = 0]]
         ELSE UNCHANGED cursors
    /\ UNCHANGED walletStatus

\* wallets.updateSyncState has no token to check.
FailWallet(r) ==
    /\ Settle(r, "wallet")
    /\ walletStatus' = "failed"
    /\ UNCHANGED cursors

-------------------------------------------------------------------------------
(* The environment.                                                        *)

\* The process of r dies; whatever row it leased stays as it is.
Crash(r) ==
    /\ ~At(r, "idle")
    /\ Stop(r)
    /\ UNCHANGED <<available, cursors, walletStatus, archived, chainEvents,
                   ledger, audits>>

\* A lease unit passes.
Tick ==
    /\ \E s \in Sources : cursors[s].left > 0
    /\ cursors' = [s \in Sources |->
                    [cursors[s] EXCEPT !.left = IF @ > 0 THEN @ - 1 ELSE 0]]
    /\ UNCHANGED <<available, walletStatus, archived, run, chainEvents, ledger,
                   audits>>

NewPayment(s) ==
    /\ available[s] < MaxPayments
    /\ available' = [available EXCEPT ![s] = @ + 1]
    /\ UNCHANGED <<cursors, walletStatus, archived, run, chainEvents, ledger,
                   audits>>

\* archiveWallet, which leaves runs and cursors alone.
Archive ==
    /\ ~archived
    /\ archived' = TRUE
    /\ UNCHANGED <<available, cursors, walletStatus, run, chainEvents, ledger,
                   audits>>

\* createWallet for the address of an archived wallet brings its row back, with
\* the status and cursors it had.
Restore ==
    /\ archived
    /\ archived' = FALSE
    /\ UNCHANGED <<available, cursors, walletStatus, run, chainEvents, ledger,
                   audits>>

Proceed(r) ==
    \/ Acquire(r) \/ SetSyncing(r) \/ Fetch(r) \/ IngestChainEvent(r)
    \/ CheckWallet(r) \/ IngestPayment(r) \/ Complete(r) \/ FailCursor(r) \/ FailWallet(r)

Next ==
    \/ \E r \in Runs : \/ \E s \in Sources : Begin(r, s)
                       \/ Proceed(r) \/ Error(r) \/ Crash(r)
    \/ \E s \in Sources : NewPayment(s)
    \/ Tick
    \/ Archive \/ Restore

Spec == Init /\ [][Next]_vars

\* Time passes, a process that lives goes on, somebody asks for another run of
\* every source sooner or later, and processes do not always die right before
\* they would have taken a free lease.
FairSpec ==
    /\ Spec
    /\ WF_vars(Tick)
    /\ \A r \in Runs : WF_vars(Proceed(r))
    /\ \A s \in Sources :
         /\ WF_vars(\E r \in Runs : Begin(r, s))
         /\ SF_vars(\E r \in Runs : Src(r) = s /\ Free(Row(r)) /\ Acquire(r))

-------------------------------------------------------------------------------
(* What a cursor promises.                                                 *)

\* The payments that exist, and those the stored cursors have passed.
Existing == {p \in Payments : p[2] <= available[p[1]]}
Covered == {p \in Payments : p[2] <= cursors[p[1]].cursor}

Promise == INSTANCE Coverage WITH
    exists <- Existing, stored <- ledger, covered <- Covered

-------------------------------------------------------------------------------
(* Properties.                                                             *)

\* The sync keeps the promise of Coverage, whichever runs overlap, outlive their
\* leases, fail or die: no cursor goes back or passes a payment that is not in
\* the ledger, and the ledger loses nothing and holds nothing that is not there.
KeepsPromise == Promise!Spec

\* Everything a stored cursor has passed is in the ledger, whichever run stored
\* it and however many others were running, failing or dying.
NothingSkipped ==
    \A s \in Sources : \A i \in 1..cursors[s].cursor : <<s, i>> \in ledger

\* A payment in the ledger has exactly one ingestion audit event, and a payment
\* that is not there has none, although batches overlap and are retried.
OneAuditPerPayment ==
    \A p \in Payments : audits[p] = IF p \in ledger THEN 1 ELSE 0

\* A stored cursor never goes back: a run that lost its lease cannot overwrite
\* the progress of the run that took over.
CursorNeverGoesBack ==
    [][\A s \in Sources : cursors'[s].cursor >= cursors[s].cursor]_vars

\* Only the run that holds a lease ends it, or the one that takes over after
\* it is over: no run loses a live lease to another.
LiveLeaseIsKept ==
    [][\A s \in Sources :
         (cursors[s].left > 0 /\ cursors'[s].token # cursors[s].token)
            => cursors'[s].token = NoRun]_vars

\* The lease of a run that died does not block its source for ever.
Orphaned(s) ==
    /\ cursors[s].status = "syncing"
    /\ \A r \in Runs : cursors[s].token = r => run[r].pc \in {"idle", "acquire"}
OrphanedLeaseIsReclaimed ==
    \A s \in Sources : (Orphaned(s) /\ ~archived) ~> (~Orphaned(s) \/ archived)
===============================================================================
