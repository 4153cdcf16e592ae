------------------------------ MODULE ArcCursor ------------------------------
(***************************************************************************)
(* The resumable block cursor of the Arc adapter,                          *)
(* src/lib/sync/arc-rpc-adapter.ts: which blocks each run scans, newest    *)
(* first and then backwards to the configured start, and the cursor it     *)
(* leaves for the next run.                                                *)
(*                                                                         *)
(* One wallet, runs one after the other (SyncLease models who may run).    *)
(* A block stands for the outgoing transfers in it.  The chain grows       *)
(* between runs, a run may be answered by an RPC node that lags behind     *)
(* the head, the operator may redeploy with another start block or run     *)
(* size, and a run may fail at any point.                                  *)
(***************************************************************************)
EXTENDS Integers, FiniteSets

CONSTANTS
    StartBlocks,    \* values of ARC_SYNC_START_BLOCK
    RunSizes,       \* values of ARC_SYNC_MAX_BLOCKS_PER_RUN
    ChunkSize,      \* ARC_SYNC_CHUNK_SIZE: blocks per eth_getLogs call
    MaxLag,         \* bound on how far behind the head an RPC node answers
    MaxHead,        \* bound on the chain
    NoBlock,        \* backfillNextBlock when there is nothing left behind
    NoCursor        \* no run has completed

ASSUME SizesAssumption ==
    /\ StartBlocks \subseteq Nat
    /\ ChunkSize \in Nat \ {0}
    /\ RunSizes \subseteq {n \in Nat : n >= ChunkSize}
    /\ MaxLag \in Nat /\ MaxHead \in Nat

VARIABLES
    head,       \* the newest block of the chain
    startBlock, \* this.startBlock of the deployed adapter
    maxBlocks,  \* this.maxBlocksPerRun of the deployed adapter
    lag,        \* how far behind the head the RPC provider's nodes may be
    cursor,     \* the stored cursor
    ingested,   \* the blocks whose transfers are in the ledger
    status      \* the outcome of the last run

vars == <<head, startBlock, maxBlocks, lag, cursor, ingested, status>>

-------------------------------------------------------------------------------
(* Types.                                                                  *)

Cursor == [target : Nat, coverage : Nat, backfill : Nat \cup {NoBlock},
           forward : Nat, latest : Nat]

ASSUME NullAssumption == NoBlock \notin Nat /\ NoCursor \notin Cursor

BlockRange == [from : Nat, to : Nat]

\* TYPE INVARIANT.
TypeOK ==
    /\ head \in Nat
    /\ startBlock \in StartBlocks
    /\ maxBlocks \in RunSizes
    /\ lag \in 0..MaxLag
    /\ cursor \in Cursor \cup {NoCursor}
    /\ ingested \in SUBSET Nat
    /\ status \in {"idle", "partial", "ready", "failed"}

Init ==
    /\ head \in 0..MaxHead
    /\ startBlock \in StartBlocks
    /\ maxBlocks \in RunSizes
    /\ lag \in 0..MaxLag
    /\ cursor = NoCursor
    /\ ingested = {}
    /\ status = "idle"

-------------------------------------------------------------------------------
(* Planning: decodeCursor, planRanges, splitRange.                         *)

Lesser(a, b) == IF a <= b THEN a ELSE b
Greater(a, b) == IF a >= b THEN a ELSE b

\* The assertion decodeCursor makes of every stored cursor.
Decodable(c) ==
    /\ c.target <= c.coverage
    /\ c.coverage <= c.latest
    /\ c.forward <= c.latest + 1
    /\ IF c.backfill = NoBlock
         THEN c.coverage = c.target
         ELSE c.backfill >= c.target /\ c.backfill + 1 = c.coverage

Blocks(range) == range.from..range.to

\* Slips a change of the code could make, kept for mutation checking.
BackfillNeverEnds(first, target) == first - 1
BackfillSkipsOne(first, target) == IF first > target + 1 THEN first - 2 ELSE NoBlock
ForwardOverlapsOne(c, latest) ==
    [from |-> c.forward - 1, to |-> Lesser(c.forward + maxBlocks - 1, latest)]
RoomForgetsForward(c, latest) == maxBlocks
LeavesLastBackfill(c, latest) == c.backfill # NoBlock /\ c.backfill > c.target
MoreForgetsForward(c, latest) == c.backfill # NoBlock
ForwardFollowsNode(c, latest) == TRUE
ChunkEndsShort(from, to) == Lesser(from + ChunkSize - 2, to)

\* The last block of a forward scan of at most room blocks.
LastOf(from, to, room) == Lesser(from + room - 1, to)

\* The first block of a backward scan of at most room blocks.
FirstOf(from, to, room) == Greater(to - room + 1, from)

\* What is left to scan behind the first block that is covered.
BackfillAfter(first, target) == IF first > target THEN first - 1 ELSE NoBlock

FirstRange(latest) ==
    [from |-> FirstOf(startBlock, latest, maxBlocks), to |-> latest]

FirstCursor(latest) ==
    LET first == FirstOf(startBlock, latest, maxBlocks) IN
    [target |-> startBlock, coverage |-> first,
     backfill |-> BackfillAfter(first, startBlock),
     forward |-> latest + 1, latest |-> latest]

NeedsForward(c, latest) == c.forward <= latest

ForwardRange(c, latest) ==
    [from |-> c.forward, to |-> LastOf(c.forward, latest, maxBlocks)]

NextForward(c, latest) ==
    IF NeedsForward(c, latest) THEN ForwardRange(c, latest).to + 1
                               ELSE c.forward

\* The blocks the run may still scan after its forward range.
Room(c, latest) == maxBlocks - (NextForward(c, latest) - c.forward)

NeedsBackfill(c, latest) ==
    c.backfill # NoBlock /\ c.backfill >= c.target /\ Room(c, latest) > 0

BackfillRange(c, latest) ==
    [from |-> FirstOf(c.target, c.backfill, Room(c, latest)), to |-> c.backfill]

NextCursor(c, latest) ==
    LET first == IF NeedsBackfill(c, latest) THEN BackfillRange(c, latest).from
                                             ELSE c.coverage
    IN [target |-> c.target, coverage |-> first,
        backfill |-> IF NeedsBackfill(c, latest)
                       THEN BackfillAfter(first, c.target) ELSE c.backfill,
        forward |-> NextForward(c, latest), latest |-> latest]

PlanRanges(c, latest) ==
    IF c = NoCursor
      THEN {FirstRange(latest)}
      ELSE (IF NeedsForward(c, latest) THEN {ForwardRange(c, latest)} ELSE {})
           \cup (IF NeedsBackfill(c, latest) THEN {BackfillRange(c, latest)} ELSE {})

PlanCursor(c, latest) ==
    IF c = NoCursor THEN FirstCursor(latest) ELSE NextCursor(c, latest)

\* hasMore, of the cursor a run leaves.
More(c, latest) == c.forward <= latest \/ c.backfill # NoBlock

\* splitRange: one eth_getLogs call per chunk.
ChunkEnd(from, to) == Lesser(from + ChunkSize - 1, to)

Chunks(range) ==
    {[from |-> range.from + n * ChunkSize,
      to |-> ChunkEnd(range.from + n * ChunkSize, range.to)]
        : n \in 0..((range.to - range.from) \div ChunkSize)}

Fetched(ranges) == UNION {UNION {Blocks(ch) : ch \in Chunks(r)} : r \in ranges}

-------------------------------------------------------------------------------
(* Runs.                                                                   *)

\* The heads an RPC node may report.
Observable == {n \in 0..head : n >= head - lag}

\* The checks of sync before it plans: otherwise it throws.
Plannable(latest) ==
    /\ startBlock <= latest
    /\ cursor # NoCursor => Decodable(cursor)

\* A run that fetches, ingests and commits its cursor and the wallet's status.
Run(latest) ==
    /\ Plannable(latest)
    /\ ingested' = ingested \cup Fetched(PlanRanges(cursor, latest))
    /\ cursor' = PlanCursor(cursor, latest)
    /\ status' = IF More(cursor', latest) THEN "partial" ELSE "ready"
    /\ UNCHANGED <<head, startBlock, maxBlocks, lag>>

\* A run that fails before its cursor is committed.  Payments are ingested in
\* block order, so what it leaves is the part of its plan below some block.
FailedRun(latest) ==
    /\ \/ UNCHANGED ingested
       \/ /\ Plannable(latest)
          /\ \E last \in Fetched(PlanRanges(cursor, latest)) :
                ingested' = ingested \cup
                    {b \in Fetched(PlanRanges(cursor, latest)) : b <= last}
    /\ status' = "failed"
    /\ UNCHANGED <<head, startBlock, maxBlocks, lag, cursor>>

Mine ==
    /\ head < MaxHead
    /\ head' = head + 1
    /\ UNCHANGED <<startBlock, maxBlocks, lag, cursor, ingested, status>>

\* The adapter is deployed again with other environment variables.
Deploy ==
    /\ startBlock' \in StartBlocks
    /\ maxBlocks' \in RunSizes
    /\ UNCHANGED <<head, lag, cursor, ingested, status>>

Next ==
    \/ \E latest \in Observable : Run(latest) \/ FailedRun(latest)
    \/ Mine
    \/ Deploy

Spec == Init /\ [][Next]_vars

\* The wallet keeps being synchronised and some runs get through: the caller
\* of a partial run asks again, and the source is not down for ever.
SomeRun == \E latest \in Observable : Run(latest)
FairSpec == Spec /\ WF_vars(SomeRun)

-------------------------------------------------------------------------------
(* What a cursor promises.                                                 *)

\* The blocks a stored cursor claims.
Covered(c) == IF c = NoCursor THEN {} ELSE c.coverage..(c.forward - 1)

Promise == INSTANCE Coverage WITH
    exists <- 0..head, stored <- ingested, covered <- Covered(cursor)

-------------------------------------------------------------------------------
(* Properties.                                                             *)

\* Every cursor a run stores passes the assertion the next run makes of it.
CursorIsDecodable == cursor # NoCursor => Decodable(cursor)

\* It does when the RPC nodes do not lag behind each other, whatever fails or is
\* deployed in between: synchronisation cannot wedge itself.
PromptCursorIsDecodable == lag = 0 => CursorIsDecodable

\* The cursor keeps the promise of Coverage: through failed runs, deployments and
\* answers of nodes that lag, what it covers never shrinks and is in the ledger,
\* and the ledger holds only blocks of the chain.
KeepsPromise == Promise!Spec

\* The blocks a cursor claims as covered are all in the ledger: no run, failed
\* run, redeployment or lagging answer opens a gap between the two scans.
NoGap == cursor # NoCursor => cursor.coverage..(cursor.forward - 1) \subseteq ingested

\* A wallet is shown as ready only when everything from the cursor's target to
\* the head its last run observed is in the ledger.
ReadyIsComplete ==
    status = "ready" => cursor.target..cursor.latest \subseteq ingested

\* A run fetches no more blocks than its budget, however it shares them
\* between new blocks and history.
RunIsBounded ==
    \A latest \in Observable :
        Plannable(latest) =>
            Cardinality(Fetched(PlanRanges(cursor, latest))) <= maxBlocks

\* A run never fetches again what the stored cursor covers.
NoRescan ==
    cursor # NoCursor =>
        \A latest \in Observable :
            Plannable(latest) =>
                Fetched(PlanRanges(cursor, latest))
                    \cap (cursor.coverage..(cursor.forward - 1)) = {}

\* When the RPC nodes do not lag, once the chain stops growing and the
\* configured start is not ahead of it, the runs reach both the head and the
\* target: a partial wallet does not stay partial for ever.
EventuallyComplete ==
    (lag = 0 /\ <>[](startBlock <= head))
        => <>[](cursor # NoCursor /\ ~More(cursor, head))
===============================================================================
