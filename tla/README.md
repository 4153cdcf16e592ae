# Verification of Agent CFO

Agent CFO is a Next.js application over PostgreSQL that keeps, per workspace,
the wallets of AI agents, the payments they made, budgets, risks and reports.
Several server processes serve the same database, requests are retried by their
callers, and payments come from a chain through RPC nodes that fail, lag and
repeat themselves. This directory models what that makes hard, checks it with
TLC and proves the most important properties with TLAPS.

Paths are those of the repository. Line numbers of every definition are in
`PROJECT.json` ("map").

## The system

| Component | State it keeps | Operations | What makes it hard | What makes it correct |
|---|---|---|---|---|
| Idempotency (`lib/db/repositories.ts`, `runIdempotentUpdate` and its siblings in `lib/application/workspace-service.ts`) | `idempotency_keys` | claim, complete, fail | three statements per claim, expiry, crashes, lost acknowledgements of COMMIT | at most one effect per key and retention; a replay is the effect of the same request |
| Arc cursor (`lib/sync/arc-rpc-adapter.ts`) | the JSON cursor of `sync_cursors` | plan, split, fetch, store | forward scan and backfill share a budget; failed runs, lagging nodes, new settings | no gap, no rescan, ready means complete, every cursor can be read back |
| Synchronisation (`lib/sync/service.ts`, `SyncRepository`) | `sync_cursors`, `wallets.sync_status`, payments, chain events | acquire, ingest, complete, fail | leases that end under a slow run, crashes, two runs at once | nothing skipped, one audit per payment, cursors only advance, dead leases are reclaimed |
| Budgets (`BudgetRepository`, `BudgetRevisionRepository`, `createBudget`, `updateBudget`, `archiveWallet`) | `budgets`, `budget_revisions` | create, update, archive | check-then-write at READ COMMITTED, optimistic versions | the history is the chain of versions, archived is final |
| Wallets (`WalletRepository`) | `wallets` | create, restore, archive, setPrimary | two or three statements per change of the primary wallet, no constraint on it | a later choice repairs what races left; archiving keeps a primary wallet |
| Transaction intents, tasks (`TransactionIntentRepository`, `TaskRepository`) | `transaction_intents`, `tasks` | create, approve, submit, complete; create, updateStatus | checks before the transaction, several submissions, optimistic versions | one submission wins; an intent stays within its budget's scope |
| Provider policies and risk analysis (`lib/analytics/persistent-risk.ts`, `AnalysisRepository`, `RiskRepository`, `ProviderPolicyRepository`) | `provider_policies`, `risk_signals`, `analysis_snapshots` | set policy, analyse, update status | analyses interleave with each other and with status updates; sliding windows and medians at their limits | answers hold every signal found; evidence is of one analysis; stale signals are resolved; only users reopen; the rules agree with direct definitions |
| Reports and AI credentials (`lib/reports/service.ts`, `lib/ai/*`, `lib/secrets/vault.ts`) | `reports`, `ai_provider_credentials` | generate; store, delete, markStatus | a provider call between two transactions; crashes; replaced keys | a report ends completed or failed; a status describes the key it was obtained with |
| Identity (`lib/auth/service.ts`) | `users`, `identity_accounts`, workspaces | resolve | concurrent first logins, identities that move | one user per Privy user, which it keeps |
| OAuth and MCP (`lib/mcp/*`) | clients, authorization codes, signing keys | register, authorize, exchange, call tools | concurrent exchange of one code; a subject that passes through four services | a code is used once; its token is accepted |
| Rate limits (`lib/security/rate-limit.ts`) | `rate_limit_counters` | consume | one atomic upsert counts and decides | not modelled |
| Analytics, USDC (`lib/analytics/*`, `lib/domain/usdc.ts`) | none | pure functions | exact decimals, boundaries of ranges, the same figure computed in three places | tables add up; summaries agree with the rules |
| Browser pages (`components/auth`, `components/workspace`, `components/dashboard`) | session, rows, the workspace they were loaded for | sign in and out, change identities, load, change, load again | requests of one session answered in another, versions that are out of date | a page shows rows of who is signed in, settles, and gets over a refusal |
| Routes, layout, PDF, demo data, scripts | none that matters | | | not modelled |

Every mutation goes through Idempotency. Synchronisation acquires a lease, calls
the adapter with the stored cursor (Arc cursor), ingests what it returns and
stores the new cursor with the wallet's status. Archiving a wallet archives its
budgets; synchronisation and budgets read the wallet. Reports read payments,
budgets and risks and use the stored AI credential. Every request is first resolved
to a user and a workspace: by a Privy session on the web, by a token over MCP. The
pages of the browser call the same operations with the versions they show.

## Modules

| Module | Models |
|---|---|
| `EffectOnce` | the promise of the idempotency layer, without rows or statements |
| `Idempotency` | the protocol that keeps it |
| `Coverage` | what a resumable cursor promises, without blocks, ranges or leases |
| `ArcCursor` | the plan of a run and the cursor it leaves, over any sequence of runs |
| `SyncLease` | concurrent runs of one wallet over leases |
| `Budgets` | concurrent requests that create, update and archive budgets |
| `Reports` | concurrent calls that generate reports, and store or delete the AI credential they use |
| `Access` | concurrent requests that sign in, authorize, exchange codes and use tokens |
| `Risks` | concurrent risk analyses and status updates of risk signals |
| `RiskRules` | the eight risk rules, as operators |
| `RiskFacts` | what analyses of a range find while payments, budgets and policies change |
| `Summaries` | what summaries, dashboards and the public demo make of the facts of `RiskFacts` |
| `Wallets` | concurrent transactions that create, restore, choose and archive wallets |
| `Intents` | transaction intents over the wallets of `Wallets` and a budget |
| `Pages` | a page of the browser application, its session, loads and changes |
| `MC...` | instances for TLC: values, symmetry, and in `MCRisks` which of two sides moves; no definition is replaced |
| `...Proofs` | theorems about the module they extend |

### Idempotency

`rows[k]` is the row of `idempotency_keys` for key `k` of one workspace and
operation. A row's id is a fresh UUID, so it is represented by the call that
inserted it. `claim` is `Start` (the instant `now` is read), `DeleteExpired`,
`InsertClaims` or `InsertConflicts`, and `ReadExisting`: three autocommitted
statements between which other calls run. `Commit` is the transaction of the
mutation with `complete`; `RollBack` is any way it fails; `Fail` is the catch
block. `Crash` may happen anywhere. With `AckMayBeLost`, a COMMIT may succeed and
yet reach the catch block; `lost` is the history of the calls this happened to, which
no step reads. `SuccessIsNotRevoked` is about everybody who was told of a success, by its own
call or by a replay: the key denies it only when the call that made it is in `lost`. Request hashes are the requests themselves (SHA-256
is taken to be injective). One clock serves all servers.

`EffectOnce` is the specification: `Apply`, `Replay`, `Refuse`, `Forget` after
the retention. The refinement maps `current[k]` to the owner of the key's row
when that owner's effect is committed; statuses and program counters disappear.

### ArcCursor

A block stands for the outgoing transfers in it; `ingested` is the set of blocks
in the ledger. `PlanRanges`, `PlanCursor` and `More` are `planRanges`, `Chunks` is
`splitRange`, `Decodable` is the assertion of `decodeCursor`. A run is one step,
since runs of a source exclude each other (that is SyncLease's subject):
`Run(latest)` commits, `FailedRun(latest)` ingests a prefix in block order and
commits nothing. `latest` is any head a node may report, at most `lag` behind.
`Deploy` changes the start block and the run size; stored cursors stay. Block
numbers are unbounded integers in the code and in the model. What `getLogs` answers is taken
to reach as far as the head that was reported: a provider that answers it from another node,
behind the first, is not modelled.

`Coverage` is what both `ArcCursor` and `SyncLease` promise: what a stored cursor covers never
shrinks and is in the ledger, and the ledger loses nothing and holds only what its source has.
Here `covered` is the interval from the cursor's first block to before its next one, and
`stored` the blocks ingested; a new block is `Appear`, a failed run `Ingest`, a run that commits
`Advance` (whatever node answers it), and a deployment changes nothing.

### SyncLease

`run[r]` is a request inside `sync`; its `pc` names the next statement or
transaction. `cursors[s]` is the row of `sync_cursors`; `left` counts down what
remains of the lease. `Tick` lets leases end under a run that goes on. The cursor
of a source is how many of its payments were taken: that both modules implement
`Coverage` (`KeepsPromise` in either) is what makes this an abstraction of a block cursor. Here
`covered` is what the rows of `sync_cursors` have passed, of all sources together; a
payment that arrives is `Appear`, and any other step is an `Advance` or a stutter.
`CheckWallet` is separate from `IngestPayment` because the wallet is read before the
transaction. `FailCursor` and `FailWallet` are the two updates that `Promise.allSettled` starts, in either order. `Archive`
and `Restore` are the operations on wallets that runs can meet.

### Budgets

One transaction per request at READ COMMITTED: each read is a step on committed
rows, the last step makes the writes visible. `ArchiveWrites` keeps rows in
`writes` until `ArchiveCommits`, and `Locked` makes other updates wait for them,
as PostgreSQL does. `UpdateReads` is the `getById` of `update`, `UpdateChecks` its
overlap test, `UpdateCommits` the guarded UPDATE with its revision. The version a request
names is any number: the code looks at it nowhere but in the WHERE (`VersionMatches`).
`revisions` is a set of rows, each INSERT adds one (`Recorded`) at the version its UPDATE
returned, and the unique index refuses one that is there (`Taken`); that the set is the
unbroken chain of versions is what `HistoryIsComplete` claims. `named`, in a revision, and `ahead`
of a transaction are histories: the version the request had named, and whether the
budget it read did not have that version yet. Amounts and
thresholds are left out: no property depends on them, and an update that changes
only those is the same as one that keeps the period and status by naming the
current ones.

### Reports

`call[c]` is a request inside `ReportService.generate` or inside `store` or `delete`
of `AiCredentialService`; its `pc` names the next statement, transaction or request.
The claim of a key is one step, `Start`, `Replay` or `Refuse`, since its statements
are Idempotency's subject; a key belongs to one operation, as the unique index of
`idempotency_keys` has it. `Read`, `CreatePending`, `Generate`, `MarkValid` and
`Complete` are the try block of `generate`, with the answer of the provider between
two transactions; `FailReport`, `FailKey` and `MarkInvalid` are its catch block.
`CreatePending` assigns `pending` only after its COMMIT, so that a call whose
acknowledgement is lost does not know the report it began. `Write` is the
transaction of `store` or `delete`, with the optimistic check of `Accepts`; a row
that was deleted and inserted again has another `id` and starts at version 1.
`Error` is any statement of a try block that throws. `Abandon` is a process that
dies, a catch block that itself throws, and an encryption that throws outside the
try block. `Forget` is the end of a key's retention.

Secrets are represented by the call that stored them; models, hints, titles and
contents of reports are left out. Three variables are histories which no step
reads: `lost` (calls that saw an error from a COMMIT that took effect), `verdict`
(what the credential's status was last written from) and `overtaken` in a call
(its secret was replaced or deleted since it was read). They name what the code
does not guarantee, and only that is exempt from the properties:

* a report that completed may be marked failed by its own catch block when the
  acknowledgement of its COMMIT is lost, and one that began unnoticed stays pending;
* `markStatus` goes by provider and not by version, so that a slow call writes its
  outcome on a secret that was stored in the meantime;
* versions start anew after a deletion, so that an old expected version may match
  a credential its caller has never seen.

### Access

`call[c]` is one request: a web request or an authorization (`Start` to `Context`, then
`CreateCode`), an exchange of a code (`Exchange`, `Consume`, `Sign`) or an MCP request
(`StartMcp`, `Lookup`, `Member`). `accounts[i]` is the user of identity `i` in
`identity_accounts`; users, codes and tokens are named by the call that made them.

`Start` takes what Privy links to its user at that instant, and the call may stay in
`read` for long: that is an identity token which is older than the state of Privy.
`Read` is the first SELECT, `Create` the transaction that makes a user with its
workspace, membership and first identity, `CreateFails` and `Reread` its catch block.
The second transaction is several steps: `Upsert` locks one row after another (`held`),
`SelectStale` sees what is committed then, and `Commit` deletes what was stale and makes
the rest visible. An upsert leaves the user of an existing row alone (`Inserted`), which
is what the properties turn on. `Error` is any statement that fails, an aborted
deadlock of two transactions and a process that dies.

A code whose INSERT took effect without the caller being told is as good as none and
not modelled. `Consume` may be followed by an end without a token. Codes carry the user
that authorized them in place of its workspace; clients, scopes, redirects and
verifiers are compared with what the same code stores and are left out. Tokens may
also come from another issuer, for any Privy user and workspace, as `createMcpTokenVerifier`
allows one to be configured.

Privy links an account to one of its users at a time (`Link`, `Unlink`). `owners` remembers
to whom it was ever linked; no step reads it. `OneUserPerPrivyUser` uses it to name what
the code does not guarantee: a session that brings an account which was another Privy
user's before is resolved to the user who still has that account, if its own Privy user
has none yet.

### Risks, RiskRules and RiskFacts

`call[c]` of `Risks` is one `analyzeRisks` or `updateRiskStatus`. `Analyze` is everything
before the transaction: the input is what was read, so that a call may hold one that is
out of date. `CreateOrGet`, `Upsert` (row by row), `SelectStale` with `ResolveStale`, and
`Commit` are the transaction; `List` is the answer of a replay. A transaction keeps the
rows it wrote in `writes` until `Commit`; `Locked` and `Inserting` make others wait for
them, and `ResolveStale` looks at a row again once it has it, as PostgreSQL does. Two
analyses may wait for each other: PostgreSQL ends one (`RollBack`). The claim of
`updateRiskStatus` is Idempotency's subject. `by` and `open` are histories that no step
reads.

`RulesOf` is a constant of `Risks`, which holds for any rules. In its runs it is what
`RiskRules` yields on three inputs; `RiskRules` translates all of `persistent-risk.ts`. It
has sets where the code has lists, and orders them where the code's order matters
(the window of `VelocityRules`, stable sorts before a median). The loop with two
indices is the function `Lefts`.

`RiskFacts` applies the rules to a range whose facts change: late payments (`Ingest`), a
budget that is paused (`UpdateBudget`) and a policy (`SetPolicy`), and follows one signal from the
analysis that stored it. `ResolvedStaysAway` is what makes it harmless *within one range* that an
upsert never reopens a signal; across ranges it is not (`FoundIsActive` of `Risks`, see below).
What is said of the facts alone is asked `BeforeStore`, when no signal is followed yet: no
fact depends on the one that is followed, so that nothing is lost.

### Summaries

`Summaries` extends `RiskFacts` with what `getWorkspaceSummary`, `getWalletSummary` and
`getWorkspaceDashboard` answer at any moment: `ForecastStatus` and `BudgetRow` (budgets),
`GroupRows` (providers and categories), `Metrics`, `SpendActivityPoints` and `MetricTrends`
(the chart), `BuildPersistentDashboard`, and for the public demo `SummarizeBy` and
`BuildAgentSpendSummary`, which count payment by payment where the others group first. A
percentage is a whole number of tenths, cut as `bigint` division cuts it (`Cut`).

The same figures are computed in several places of the code. `SummaryAddsUp` relates the
tables to the payments, the wallets' summaries to the workspace's, the demo's tables to the
workspace's, and a range to the one before it; `SummaryAgreesWithRules` relates the forecasts of the
summaries to `BudgetRules` and `ForecastRules`. Two differences are part of the
latter's statement, as the code has them: a budget may be at risk without a signal when
only one payment or no time has passed.

### Wallets and Intents

A call of `Wallets` is a transaction whose UPDATE statements are steps. `todo` is what an
UPDATE has matched when it began, `writes` what it wrote, which is also its lock; `Clear`,
`Archive` and `Promote` wait for `Locked` rows and look at them again, as READ COMMITTED does. The
last statement and COMMIT are one step. `company` is a history no step reads: the
operations of other calls that were under way at some time during the call.

Nothing in the schema keeps a workspace at one primary wallet, and calls that race leave two
or none. The properties say what holds nevertheless: a choice that met no creation and no
archiving (`ChoiceIsTheOnlyPrimary`) repairs whatever was left before it, and an archiving that
met nobody keeps a primary wallet (`ArchiveKeepsAPrimary`).

`Intents` adds `createTransactionIntent`, whose reads of wallet and budget (`ReadWallet`,
`ReadBudget`) come before the transaction (`Insert`), and the guarded UPDATEs `Approve`, `Submit`
and `Complete`. `WalletStep` archives the budget of an archived wallet; `ChangeBudget` is
`updateBudget`. `told` is a history: the submissions answered with success. To keep the
state space in reach a creation takes the place of one of the concurrent calls.

### Pages

The components differ in what they ask and in what they do with the answer, not in how: a
change is a record of six flags (`asks`, `onRow`, `versioned`, `reloads`, `clears`, `alone`), a page a
set of changes, and a run covers all pages of the application. `session` is the state of the
provider, `Session` what components see of it; `Effect` is the `useEffect` of a page, which aborts
its load when the session changes; `change[s]` is one of the mutations and refreshes under way,
which nothing aborts, until the load of the rows after it (phase `reload`) is over. Most disable
each other while they run (`alone`); `RefreshAll` of the wallets page does not, nor do decisions
about different providers. Rows are one row with a version per workspace.

`SignIn` has no condition but that nobody is signed in: a logout, or a login that expires, may
leave another user's session, loads and changes behind. The pages do not survive everything of that.
`astray` is a history, set by `Effect`, the only place where a page notices a session: it
is true while a change or refresh was under way that is not of the session the page is given
(`Crosses`). `ShownIsOfSession` says that a page which is not loading has settled (`PageSettled`)
unless that happened; with it, rows of one user appear under the label of another, or the
label is the old one and the page waits for ever. While the load of the page runs nothing is
claimed: after a login that expired, the previous session and its rows stay until the
next user's session is there.

## Runs

| Run | Bounds | Shows |
|---|---|---|
| `MCIdempotency` | 3 calls, 2 keys, 2 requests, retention 1, time 3, lost acknowledgements | `EffectsAreSeparated`, `ReplayIsSound`, `SuccessIsNotRevoked`, and that the protocol implements `EffectOnce` (`KeepsPromise`) |
| `MCArcCursor` | 8 blocks, 2 start blocks, run sizes 2 and 3, chunks of 2, lag up to 2 | `NoGap`, `ReadyIsComplete`, `RunIsBounded`, `NoRescan`, and that the cursor implements `Coverage` (`KeepsPromise`); without lag `PromptCursorIsDecodable` and `EventuallyComplete` |
| `MCArcCursorBricked` | lag 1 | violation: a stored cursor that no later run accepts |
| `MCSyncLease` | 2 runs, 2 payments, batches of 2, leases of 1 | `NothingSkipped`, `OneAuditPerPayment`, that the sync implements `Coverage` (`KeepsPromise`), `OrphanedLeaseIsReclaimed` |
| `MCBudgets` | 2 requests, 2 budgets, 1 wallet and the workspace, 3 versions | `HistoryIsComplete`, `ArchivedIsFinal` |
| `MCReports` | 3 calls, 2 keys, lost acknowledgements | `HandedOutReportIsCompleted`, `FailedKeyHasNoLiveReport`, `EndedCallsHaveSettled`, `StatusIsOfStoredSecret`, `NoLostUpdate` |
| `MCAccess` | 3 requests, 2 Privy users, 1 Google account | `OneUserPerPrivyUser`, `NoOrphanUsers`, `PrivyUserKeepsUser`, `CodeIsUsedOnce` |
| `MCAccessSubject` | | violation: a token of this server that the MCP server refuses as not linked |
| `MCRisks` | 2 requests, 3 inputs, 3 versions | `AnswerIsComplete`, `SignalIsOfItsSnapshot`, `OnlyUsersReopen`, `StaleIsResolved` |
| `MCRisks`, the facts | 7 payments, 2 budgets, 1 reviewed provider, 1 revision of a budget, 3 of a policy, 2 ranges | `ResolvedStaysAway`; `RulesAreExact`: velocity, price spikes and task baselines (`VelocityIsExact`, `SpikeIsExact`, `BaselineIsExact`) against definitions without windows or sorts, and unique rule ids; `SummaryAddsUp`, `SummaryAgreesWithRules` |
| `MCIntents` | 2 concurrent calls, 2 wallets, 1 intent, 2 hashes | `ChoiceIsTheOnlyPrimary`, `ArchiveKeepsAPrimary`, `OneSubmissionWins` |
| `MCPages` | 2 users of one browser, 2 changes or refreshes at once, 1 change of rows, every page | `ShownIsOfSession` |
| `MCPagesRetry` | 1 user, 2 changes at once, 2 changes of rows, every page | `RetriesGetThrough` |

`MCRisks` checks `Risks` and `RiskFacts` with `Summaries` in one run: they share no variable, and one side
moves while the other rests (`FactsMove`, `SignalsMove`).

The type invariants (`TypeOK`, `PageTypeOK`) are theorems and not among the properties of the runs.

Why these bounds are enough to be worth running: three calls of one key are a
slow first call, a competitor that takes the key over after its retention and a
replay of either; times up to 3 with retention 1 let a key expire twice. Eight
blocks with runs of two or three make several forward and backward runs meet,
with the budget ending in the middle of either. Two runs are the zombie and its
successor, two payments make a batch that fails half way. Two requests and
three versions are an update that read before an archive and writes after it.
Three calls over two keys are a generation, a rotation of its secret and a replay,
or a deletion, an insertion and an update that expects the version before both.
Three requests are two first logins that race and a third one that meets what they
left, or an authorization and two exchanges of its code; one account that moves
between two Privy users is what makes a session disagree with the stored accounts.
Two analyses and status updates over two ranges that hold the same payments and one
that holds a part of them are an analysis that is stale before it commits, one that
resolves what the other finds, and a user between the two. The seven payments have
five within exactly a minute and a sixth a millisecond later, a payment of five times
the median, four tasks, two providers and two categories, so that every rule is
found in some states and missed by one payment in others; analyses of any subset of
them in any order are covered.
Two calls over two wallets are every pair of operations, on the same and on different
wallets, and sequences of pairs: what one pair leaves (two primary wallets, none, an archived
one) the next begins with. Two users, each of whom may have two changes or refreshes under way, are a
page that loads in one session and is answered in another, and a refresh next to a change; one
user whose rows change twice is a row changed elsewhere under a page's feet, and the retry
after that.
The proofs carry the safety properties to all sizes.

`CHECK_DEADLOCK FALSE` stands where the model really stops: when the clock or
the chain has reached its bound, or every call is over.

## Fairness

`ArcCursor!FairSpec` assumes that runs of a wallet keep getting through: the
caller of a partial run is told `hasMore` and asks again, and the RPC source is
not down for ever. It assumes nothing about the chain; the conclusion is stated
for a chain that stops growing (the bound `MaxHead`) since a chain that outruns
the run size starves the backfill for ever, which the code accepts.

`SyncLease!FairSpec` assumes that time passes, that a process which lives goes on
with its next statement (a database client with timeouts returns), that somebody
asks again for a sync of every source, and (strong fairness) that processes do
not always die right before they would have taken a free lease.

`Pages!Fairness` assumes that every request is answered or fails (weak fairness), that the
network does not lose every refusal of a version and every load after a change
(strong fairness: the user tries again), and nothing of what users do. `RetriesGetThrough` is
stated for a user who stays signed in and for pages that load again after a refusal. The budgets and settings pages do not, and there every retry is refused until
something else loads the rows.

## Proofs

All theorems are proved for every value of the constants under the modules'
named assumptions (`TimeAssumption`, `SizesAssumption`, `LeaseAssumption`,
`BoundsAssumption`, `AckAssumption`, `RulesOfAssumption`, `BoundAssumption`, `PagesAssumption`, `NothingAssumption`,
`FactsAssumption`, `RangesAssumption`, `NullAssumption`, `IntentNullAssumption` and the
assumptions that null values are not values), which
TLC evaluates in every run. `FactsAssumption` is what the schema and the parsers see to: the
tables are finite, payments have ids of their own and positive amounts, thresholds are
percentages up to 100 with two decimals (`BasisPoints`). `RangesAssumption` is that a range
ends after it starts; the code refuses others.

* `IdempotencyProofs`. The invariant `IInv` says that a row describes the call
  that inserted it (key, hash, expiry, and a program counter past the claim), that
  no call has an effect before its transaction, and that captured instants are not
  in the future. `EffectKeepsItsKey` is what makes `EffectsAreSeparated`
  inductive: a competitor can only commit while it holds the key's row, and the
  previous effect keeps that row until its retention is over.
  `ReplaysAreSound` follows. For `SuccessesAreKept`, `FailuresAreFinal` adds that a call on its way
  to its catch block has no effect unless it is in `lost`, and that the owner of a failed row is
  over; the answer of a replay leads back to the call that made it through `ReplayIsSound`. `FailedKeysHaveNoEffect`
  assumes that COMMITs are acknowledged (without that it is false), and
  `ImplementsPromise` maps each step to one of `EffectOnce` or a stutter.
* `ArcCursorProofs`. `ChunksTile` shows that chunks neither lose nor add a block;
  `FirstPlan` and `NextPlan` compute what a run fetches from the cursors before and
  after it. `IInv` adds to `NoGap` that the backfill ends right before the coverage
  (`Joined`) and that ready means nothing is left on either side.
  `CursorsAreDecodable` strengthens this by the head when no node lags. `RunsAreBounded` counts
  the two intervals of `NextPlan` (`Scan`, `TwoScans`). For `ImplementsPromise` the ledger and
  the cursor stay within the chain (`WithinChain`), also when the node that answered was
  behind the one before.
* `SyncLeaseProofs`. What a run has in memory is trusted only as far as others
  cannot disturb it: everything before its next payment is in the ledger, for
  payments are never deleted, and while the row carries its token nobody has moved
  the cursor it started from. `ImplementsPromise` adds that the ledger holds only payments
  that exist (`LedgerExists`); that no cursor goes back is `CursorsAdvance`.
* `BudgetsProofs`. A transaction under way knows that the version it expects is at
  most the committed one, unless it is `ahead`, and that the rows it has written are locked and
  are the next version of the committed ones. So the revision it inserts is the one after the
  last, which keeps the chain whole (`HistoriesAreComplete`), also for the several revisions an archiving inserts at once. For `ArchivedBudgetsAreFinal` an
  update that is not ahead and whose version still matches has read the very row it changes.
* `ReportsProofs`. The invariant `IInv` ties a call to what it began: its own memory
  (`CallIsConsistent`), its report (`ReportFollowsCall`) and its key's row
  (`ClaimFollowsCall`) as functions of its `pc`, where retention may have taken the row
  away. `HeldSecretIsStored` says that a call which was not overtaken holds the stored
  secret, which makes `StatusIsOfStoredSecret` inductive; `NamesAreTaken` and
  `VersionHasOneSecret` say that a row has one secret per version, which is why the
  version a caller saw is enough to protect the secret it saw (`UpdatesAreNotLost`).
* `AccessProofs`. `PrivyStep` shows that no step changes the user of a Privy user that has
  one. With it, `UserIsOfSession` (the user of a call is that of its Privy user) only
  has to be shown where the user is chosen; for `Read` this needs `AccountsHaveOwners`:
  an account in the table was brought by a Privy user that has a user itself, so that an
  account nobody else ever had leads back to the Privy user of the session. `CodeInv`
  counts an exchange between `Consume` and `Sign` as the holder of its code's token
  (`Yielded`), which makes single use inductive. The module also proves `Pages`:
  `RowsAreOfSession` needs that a load of the page is of the session the page is given
  (`LoadIsOfSession`), which every `Effect` restores, and that what a user asked for is too unless it went astray
  (`ChangesAreOfSession`): a change keeps its label, and its token can only become that of who is signed
  in. It assumes nothing of when users sign in.
* `RisksProofs`, about `Risks`. A row that a transaction has written is made from the committed one
  (`WritesFit`), which stays as it is because locks are exclusive (`LocksAreExclusive`);
  this is why a user's version still matches at its COMMIT (`UpdatesAreNotLost`) and no
  analysis reopens a signal. A signal of a stored analysis never goes away
  (`SnapshotsHaveSignals`), so that a replay finds everything. For
  `StaleSignalsAreResolved` the version of a signal tells what became of it since
  `resolveStale` began (`StaleFits`): resolved once, or changed twice.
* `RisksProofs`, about `RiskFacts`. A snapshot is what an analysis may read, and `Before` orders
  snapshots in time: payments only come, budgets and policies only gain versions.
  `FoundBetween` is the core of `ResolvedRisksStayAway`: an id found in a snapshot and in a later
  one is found in every snapshot between. It is shown rule by rule, since an id names what its
  rule looked at: the versions of a budget or policy, the size of a group, the payments of a
  window or the median of what was sorted, none of which can change and return. The
  invariant `FactsInv` keeps as witnesses the snapshot that found the followed signal and, once it
  is resolved, a later one that did not.
  `RulesAreAlwaysExact` shows that the sliding window with its two indices (`Reach`, `Lefts`)
  finds a minute with that many payments when there is one, that half of what was sorted lies
  on either side of a median (ranks in a finite linear order), and that rules have ids of their own.
* `RisksProofs`, about `Summaries`. `SummariesAgreeWithRules` compares the quotients and
  percentages of the budget table with the cross-multiplied conditions of the rules.
  `SummariesAddUp` writes each table as a division of the payments in parts (`Parts`, `Counts`,
  `Shares`): groups, wallets, buckets of the chart, a range and the one before; and shows that the
  demo's loop over the payments leaves what grouping them yields (`TallyIs`). Sums over sets have
  no induction here: a claim about them is shown by a smallest set that breaks it, which cannot
  exist.
* `IntentsProofs`. `StepKinds` reduces the steps of a call to three kinds (it `Begins`, `GoesOn`
  or `IsOver`) and says what they leave of rows and of other calls. The invariant `WInv` says that
  a row a call has written is as it was but for the flag (`WritesFit`), which other calls
  respect because locks are exclusive (`LocksAreExclusive`), and that calls under way together are
  in each other's company (`CompanyIsKnown`). So a call without company is the only one that
  writes, and one among `setPrimary` calls sees no wallet come, go or be archived; what it
  matched is still all there is to clear when it commits (`ClearsAll`, `CreateAlone`,
  `ArchiveAlone`). `ToldIsStored` is the strengthening of `OneSubmissionWins`, `CreationFits` that of
  `IntentsAreCovered`.

Eight of these theorems have no run of their own, as a stronger or a neighbouring
property is checked: `EffectsKeepTheirKeys`, `FailedKeysHaveNoEffect`, `CursorsNeverGoBack`,
`LiveLeasesAreKept`,
`UsedCodesWereConsumed`, `UpdatesAreNotLost` of
`RisksProofs`, `WalletsInvariant` and `IntentsCovered`.

Every invariant, action property and refinement that a run checks is one of these theorems,
except what the two violated runs refute. Only model-checked is liveness (`EventuallyComplete`,
`OrphanedLeaseIsReclaimed`, `RetriesGetThrough`), which TLAPS cannot prove.

## Disagreements found

1. A cursor made by a node that lags behind the previous run fails the assertion of
   `decodeCursor` in every later run (`MCArcCursorBricked`).
2. The tokens that the OAuth server issues name an account instead of a Privy user and
   are refused by the MCP server (`MCAccessSubject`).

Two more are definitions that TLC finds violated when they take the place of the
properties in a configuration; they have no run of their own any more:

* `NoOverlap` of `Budgets` (`MCBudgets.cfg` with `Horizon = 2` and `INVARIANT NoOverlap`): two concurrent requests both
  pass the overlap check and leave overlapping budgets, which `createBudget` refuses
  (`workspace-service.ts:1100`).
* `FoundIsActive` of `Risks` (`MCRisks.cfg` with `PROPERTY FoundIsActive`): an analysis of a narrow range
  resolves signals that one of a wide range finds again and reports as active
  (`risks-page.tsx:144`), but leaves resolved.

Seen in the models without a run of their own, as no document says otherwise or
another run is worth more:

* `fail` overwrites a completed key when the acknowledgement of COMMIT is lost, also after a
  retry was answered with the success from that key (the exemption of `SuccessIsNotRevoked`);
  `FailedKeysHaveNoEffect` is proved for when none is lost.
* An update of a budget that names a version ahead of the current one passes the test of
  `repositories.ts:651` ("Archived budgets are immutable") while the budget is live, and changes
  or reactivates it when an archiving commits just that version before the UPDATE
  (the exemption of `ArchivedIsFinal`).
* The wallet's status is not fenced by the lease (`FailWallet` of `SyncLease`): a run that
  lost its lease marks the wallet failed after its successor completed it.
* A Privy user that is given an account whose email another user was created with can
  never sign in, though the account is free (`CreateFails` of `Access`).
* `createBudget` does not read the wallet, so that budgets are created for archived
  wallets, also next to `archiveWallet`.
* A budget so small that its warning amount rounds down to 0 warns before anything is
  spent (`Warning` of `RiskRules`).
* Concurrent changes leave two primary wallets or none; `setPrimary` also accepts a wallet that
  is archived (`SetPrimary` of `Wallets`).
* An intent is created for a wallet or a budget archived since it was read, and lives on when
  they are archived later or when it expires (`Intents`).
* When the session changes while a change or a refresh is under way, a page may show the rows of
  one user under the session of another, or wait for ever for rows it has thrown away, until it
  is loaded again (`astray` of `Pages`).
* When a login expires and somebody else signs in, the previous user's session and rows stay on
  the screen until the session of the next one is there (`Pages`).

## Assumptions about the environment

PostgreSQL statements are atomic; transactions run at READ COMMITTED, its default,
which nothing in the repository changes. UUIDs are unique. Server processes share
one clock, except where a module says otherwise. Loss of committed data is not
modelled.

## Not modelled

* Rate limits: one atomic upsert per request counts and decides.
* Registration of OAuth clients, scopes, signing keys, and the tools of the MCP server, which
  translate calls to the services that are modelled.
* Parsing and formatting of USDC amounts, paged lists, texts of reports and their PDF.
* HTTP routes: stateless translation of requests and errors; the statuses and versions that
  matter are in `Pages`.
* The conversion of chain logs to payments, the Circle Gateway sample and the fixtures of the demo
  with their risk rules.
* Layout, logging, scripts and generated migrations; cryptography is taken as ideal.

## Plan

What would add most next, in this order:

1. Abstract specifications of what reports, intents and access promise, as `EffectOnce` and
   `Coverage` are for theirs, with their refinements.
2. `OAuth` clients and signing keys: registration, rotation.
3. Analyses whose parallel queries are torn by a write between them (`Analyze` of `Risks` reads at
   once).
