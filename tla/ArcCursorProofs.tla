--------------------------- MODULE ArcCursorProofs ---------------------------
(***************************************************************************)
(* The Arc cursor is right for every chain, start block, run size, chunk   *)
(* size and lag: it leaves no gap, a ready wallet is complete, no block is *)
(* fetched twice, a run keeps to its budget of blocks, and, when no RPC    *)
(* node lags, the cursor can always be decoded.  It implements Coverage.   *)
(***************************************************************************)
EXTENDS ArcCursor, FiniteSetTheorems, TLAPS

-------------------------------------------------------------------------------
(* Chunks.                                                                 *)

\* Where a block lies among the chunks of a range.
LEMMA Quotient ==
    ASSUME NEW x \in Nat, NEW y \in Nat \ {0}
    PROVE  /\ x \div y \in Nat
           /\ y * (x \div y) <= x
           /\ x < y * (x \div y) + y
  OBVIOUS

\* A later block lies in the same chunk or a later one.
LEMMA QuotientMonotone ==
    ASSUME NEW x \in Nat, NEW z \in Nat, NEW y \in Nat \ {0}, x <= z
    PROVE  x \div y <= z \div y
  OBVIOUS

\* The chunks of a range are the range: no block is lost at a chunk boundary.
LEMMA ChunksTile ==
    ASSUME NEW r \in BlockRange, r.from <= r.to
    PROVE  UNION {Blocks(ch) : ch \in Chunks(r)} = Blocks(r)
<1> USE SizesAssumption DEF BlockRange, Blocks
<1>1. ASSUME NEW ch \in Chunks(r), NEW b \in Blocks(ch) PROVE b \in Blocks(r)
  <2>1. PICK n \in 0..((r.to - r.from) \div ChunkSize) :
          ch = [from |-> r.from + n * ChunkSize,
                to |-> ChunkEnd(r.from + n * ChunkSize, r.to)]
    BY <1>1 DEF Chunks
  <2>2. n * ChunkSize \in Nat
    OBVIOUS
  <2> QED
    BY <1>1, <2>1, <2>2 DEF ChunkEnd, Lesser
<1>2. ASSUME NEW b \in Blocks(r) PROVE \E ch \in Chunks(r) : b \in Blocks(ch)
  <2> DEFINE n == (b - r.from) \div ChunkSize
  <2>1. b - r.from \in Nat /\ r.to - r.from \in Nat /\ b - r.from <= r.to - r.from
    BY <1>2
  <2>2. n \in 0..((r.to - r.from) \div ChunkSize)
    BY <2>1, Quotient, QuotientMonotone
  <2>3. /\ ChunkSize * n <= b - r.from
        /\ b - r.from < ChunkSize * n + ChunkSize
    BY <2>1, Quotient
  <2> DEFINE first == r.from + n * ChunkSize
  <2>4. [from |-> first, to |-> ChunkEnd(first, r.to)] \in Chunks(r)
    BY <2>2 DEF Chunks
  <2>5. b \in first..ChunkEnd(first, r.to)
    <3>1. n * ChunkSize \in Nat /\ n * ChunkSize = ChunkSize * n
      BY <2>2
    <3> HIDE DEF n
    <3> QED
      BY <1>2, <2>3, <3>1 DEF ChunkEnd, Lesser
  <2> HIDE DEF first
  <2> QED
    BY <2>4, <2>5
<1> QED
  BY <1>1, <1>2

-------------------------------------------------------------------------------
(* Plans.                                                                  *)

\* What is left behind a cursor ends right before what it covers.
Joined(c) ==
    /\ c.target <= c.coverage
    /\ IF c.backfill = NoBlock
         THEN c.coverage = c.target
         ELSE c.backfill >= c.target /\ c.backfill + 1 = c.coverage

\* A first run fetches the newest blocks its budget allows.
LEMMA FirstPlan ==
    ASSUME TypeOK, NEW latest \in Nat, startBlock <= latest
    PROVE  LET c == FirstCursor(latest) IN
           /\ c \in Cursor /\ Joined(c) /\ c.coverage <= c.latest
           /\ c.latest = latest /\ c.forward = latest + 1
           /\ Fetched(PlanRanges(NoCursor, latest)) = c.coverage..latest
           /\ latest - c.coverage + 1 <= maxBlocks
<1> DEFINE first == FirstOf(startBlock, latest, maxBlocks)
<1>1. /\ startBlock \in Nat /\ maxBlocks \in Nat \ {0}
  BY SizesAssumption DEF TypeOK
<1>2. /\ first \in Nat /\ startBlock <= first /\ first <= latest
      /\ latest - first + 1 <= maxBlocks
  BY <1>1 DEF FirstOf, Greater
<1>3. /\ BackfillAfter(first, startBlock) \in Nat \cup {NoBlock}
      /\ BackfillAfter(first, startBlock) = NoBlock => first = startBlock
      /\ BackfillAfter(first, startBlock) # NoBlock =>
           /\ BackfillAfter(first, startBlock) >= startBlock
           /\ BackfillAfter(first, startBlock) + 1 = first
  BY <1>1, <1>2, NullAssumption DEF BackfillAfter
<1>4. FirstRange(latest) = [from |-> first, to |-> latest]
  BY DEF FirstRange
<1>5. Fetched(PlanRanges(NoCursor, latest)) = first..latest
  <2>1. FirstRange(latest) \in BlockRange
    BY <1>2, <1>4 DEF BlockRange
  <2>2. UNION {Blocks(ch) : ch \in Chunks(FirstRange(latest))}
          = Blocks(FirstRange(latest))
    BY <1>2, <1>4, <2>1, ChunksTile
  <2>3. PlanRanges(NoCursor, latest) = {FirstRange(latest)}
    BY DEF PlanRanges
  <2>4. Fetched({FirstRange(latest)}) = Blocks(FirstRange(latest))
    BY <2>2 DEF Fetched
  <2> QED
    BY <1>4, <2>3, <2>4 DEF Blocks
<1>6. /\ FirstCursor(latest).target = startBlock
      /\ FirstCursor(latest).coverage = first
      /\ FirstCursor(latest).backfill = BackfillAfter(first, startBlock)
      /\ FirstCursor(latest).forward = latest + 1
      /\ FirstCursor(latest).latest = latest
  BY DEF FirstCursor
<1>7. FirstCursor(latest) \in Cursor
  BY <1>1, <1>2, <1>3 DEF FirstCursor, Cursor
<1> HIDE DEF first
<1> QED
  BY <1>2, <1>3, <1>5, <1>6, <1>7 DEF Joined

\* A later run fetches the blocks between the old and the new cursor, on both
\* sides, and nothing else.
LEMMA NextPlan ==
    ASSUME TypeOK, NEW latest \in Nat, NEW c \in Cursor, Joined(c)
    PROVE  LET d == NextCursor(c, latest) IN
           /\ d \in Cursor /\ Joined(d)
           /\ d.target = c.target /\ d.latest = latest
           /\ d.coverage <= c.coverage
           /\ c.forward <= d.forward
           /\ c.forward <= latest + 1 => d.forward <= latest + 1
           /\ c.forward > latest => d.forward = c.forward
           /\ c # NoCursor
           /\ Fetched(PlanRanges(c, latest))
                = (c.forward..(d.forward - 1)) \cup (d.coverage..(c.coverage - 1))
           /\ (d.forward - c.forward) + (c.coverage - d.coverage) <= maxBlocks
<1> DEFINE d == NextCursor(c, latest)
           first == FirstOf(c.target, c.backfill, Room(c, latest))
<1>1. /\ maxBlocks \in Nat \ {0}
      /\ c.target \in Nat /\ c.coverage \in Nat /\ c.forward \in Nat
      /\ c.backfill \in Nat \cup {NoBlock}
      /\ c # NoCursor
  BY SizesAssumption, NullAssumption DEF TypeOK, Cursor
<1>2. NeedsForward(c, latest) =>
        /\ ForwardRange(c, latest).from = c.forward
        /\ ForwardRange(c, latest).to \in c.forward..latest
        /\ ForwardRange(c, latest).to - c.forward + 1 <= maxBlocks
  BY <1>1 DEF NeedsForward, ForwardRange, LastOf, Lesser
<1>3. /\ NextForward(c, latest) \in Nat
      /\ c.forward <= NextForward(c, latest)
      /\ c.forward <= latest + 1 => NextForward(c, latest) <= latest + 1
      /\ NeedsForward(c, latest) =>
           ForwardRange(c, latest).to = NextForward(c, latest) - 1
      /\ ~NeedsForward(c, latest) => NextForward(c, latest) = c.forward
  BY <1>1, <1>2 DEF NextForward
<1>4. Room(c, latest) \in Int
  BY <1>1, <1>3 DEF Room
<1>5. ASSUME NeedsBackfill(c, latest)
      PROVE  /\ c.backfill \in Nat /\ c.backfill + 1 = c.coverage
             /\ first \in Nat /\ c.target <= first /\ first <= c.backfill
             /\ c.backfill - first + 1 <= Room(c, latest)
  BY <1>1, <1>4, <1>5 DEF NeedsBackfill, Joined, FirstOf, Greater
<1>6. ASSUME NeedsBackfill(c, latest)
      PROVE  /\ BackfillAfter(first, c.target) \in Nat \cup {NoBlock}
             /\ BackfillAfter(first, c.target) = NoBlock => first = c.target
             /\ BackfillAfter(first, c.target) # NoBlock =>
                  /\ BackfillAfter(first, c.target) >= c.target
                  /\ BackfillAfter(first, c.target) + 1 = first
  BY <1>1, <1>5, <1>6, NullAssumption DEF BackfillAfter
<1>7. /\ d.target = c.target /\ d.latest = latest
      /\ d.forward = NextForward(c, latest)
      /\ d.coverage = IF NeedsBackfill(c, latest) THEN first ELSE c.coverage
      /\ d.backfill = IF NeedsBackfill(c, latest)
                        THEN BackfillAfter(first, c.target) ELSE c.backfill
      /\ d = [target |-> d.target, coverage |-> d.coverage,
              backfill |-> d.backfill, forward |-> d.forward,
              latest |-> d.latest]
  BY DEF NextCursor, BackfillRange
<1>8. Fetched(PlanRanges(c, latest))
        = (c.forward..(d.forward - 1)) \cup (d.coverage..(c.coverage - 1))
  <2> DEFINE FR == IF NeedsForward(c, latest)
                     THEN {ForwardRange(c, latest)} ELSE {}
             BR == IF NeedsBackfill(c, latest)
                     THEN {BackfillRange(c, latest)} ELSE {}
  <2>1. PlanRanges(c, latest) = FR \cup BR
    BY <1>1 DEF PlanRanges
  <2>2. Fetched(FR) = c.forward..(d.forward - 1)
    <3>1. CASE NeedsForward(c, latest)
      <4>1. ForwardRange(c, latest) \in BlockRange
        BY <1>1, <1>2, <3>1 DEF ForwardRange, BlockRange, LastOf, Lesser
      <4>2. UNION {Blocks(ch) : ch \in Chunks(ForwardRange(c, latest))}
              = c.forward..(d.forward - 1)
        BY <1>2, <1>3, <1>7, <3>1, <4>1, ChunksTile DEF Blocks
      <4> QED
        BY <3>1, <4>2 DEF Fetched
    <3>2. CASE ~NeedsForward(c, latest)
      BY <1>1, <1>3, <1>7, <3>2 DEF Fetched
    <3> QED
      BY <3>1, <3>2
  <2>3. Fetched(BR) = d.coverage..(c.coverage - 1)
    <3>1. CASE NeedsBackfill(c, latest)
      <4>1. /\ BackfillRange(c, latest) \in BlockRange
            /\ BackfillRange(c, latest).from = first
            /\ BackfillRange(c, latest).to = c.backfill
        BY <1>5, <3>1 DEF BackfillRange, BlockRange
      <4>2. UNION {Blocks(ch) : ch \in Chunks(BackfillRange(c, latest))}
              = first..c.backfill
        BY <1>5, <3>1, <4>1, ChunksTile DEF Blocks
      <4>3. c.backfill = c.coverage - 1 /\ d.coverage = first
        BY <1>1, <1>5, <1>7, <3>1
      <4> QED
        BY <3>1, <4>2, <4>3 DEF Fetched
    <3>2. CASE ~NeedsBackfill(c, latest)
      BY <1>1, <1>7, <3>2 DEF Fetched
    <3> QED
      BY <3>1, <3>2
  <2>4. Fetched(FR \cup BR) = Fetched(FR) \cup Fetched(BR)
    BY DEF Fetched
  <2> QED
    BY <2>1, <2>2, <2>3, <2>4
<1>9. d \in Cursor /\ Joined(d)
  <2> HIDE DEF d, first
  <2>1. d.coverage \in Nat /\ d.backfill \in Nat \cup {NoBlock}
    BY <1>1, <1>5, <1>6, <1>7
  <2>2. d \in Cursor
    BY <1>1, <1>3, <1>7, <2>1 DEF Cursor
  <2>3. Joined(d)
    BY <1>1, <1>5, <1>6, <1>7 DEF Joined
  <2> QED
    BY <2>2, <2>3
<1>10. d.coverage <= c.coverage
  BY <1>1, <1>5, <1>7
<1>11. (d.forward - c.forward) + (c.coverage - d.coverage) <= maxBlocks
  <2>1. NextForward(c, latest) - c.forward <= maxBlocks
    BY <1>1, <1>2, <1>3
  <2>2. CASE NeedsBackfill(c, latest)
    BY <1>1, <1>3, <1>5, <1>7, <2>2 DEF Room
  <2>3. CASE ~NeedsBackfill(c, latest)
    BY <1>1, <1>3, <1>7, <2>1, <2>3
  <2> QED
    BY <2>2, <2>3
<1>12. c.forward > latest => d.forward = c.forward
  BY <1>1, <1>3, <1>7 DEF NeedsForward
<1> QED
  BY <1>1, <1>3, <1>7, <1>8, <1>9, <1>10, <1>11, <1>12

-------------------------------------------------------------------------------
(* The invariant.                                                          *)

\* A ready wallet's cursor has nothing left on either side.
ReadyIsDone ==
    status = "ready" =>
        /\ cursor # NoCursor
        /\ cursor.backfill = NoBlock
        /\ cursor.latest < cursor.forward

IInv ==
    /\ TypeOK
    /\ cursor # NoCursor => Joined(cursor)
    /\ NoGap
    /\ ReadyIsDone

\* A run that commits its cursor keeps the invariant.
LEMMA RunKeepsIInv ==
    ASSUME IInv, NEW latest \in Observable, Run(latest)
    PROVE  IInv'
<1> USE SizesAssumption, NullAssumption
<1>0. /\ TypeOK /\ latest \in Nat /\ startBlock <= latest
      /\ UNCHANGED <<head, startBlock, maxBlocks, lag>>
      /\ cursor' = PlanCursor(cursor, latest)
      /\ ingested' = ingested \cup Fetched(PlanRanges(cursor, latest))
      /\ status' = IF More(cursor', latest) THEN "partial" ELSE "ready"
  BY DEF IInv, Observable, Run, Plannable, TypeOK
<1>1. CASE cursor = NoCursor
  <2>1. /\ cursor' \in Cursor /\ Joined(cursor')
        /\ cursor'.latest = latest /\ cursor'.forward = latest + 1
        /\ Fetched(PlanRanges(cursor, latest)) = cursor'.coverage..latest
    BY <1>0, <1>1, FirstPlan DEF PlanCursor
  <2>2. Fetched(PlanRanges(cursor, latest)) \subseteq Nat
    BY <2>1 DEF Cursor
  <2>3. NoGap'
    BY <1>0, <2>1 DEF NoGap, Cursor
  <2>4. ReadyIsDone'
    BY <1>0, <2>1 DEF ReadyIsDone, More, Cursor
  <2>5. TypeOK'
    BY <1>0, <2>1, <2>2 DEF TypeOK
  <2> QED
    BY <2>1, <2>3, <2>4, <2>5 DEF IInv
<1>2. CASE cursor # NoCursor
  <2>1. cursor \in Cursor /\ Joined(cursor)
    BY <1>0, <1>2 DEF IInv, TypeOK
  <2>2. /\ cursor' \in Cursor /\ Joined(cursor')
        /\ cursor'.latest = latest
        /\ Fetched(PlanRanges(cursor, latest))
             = (cursor.forward..(cursor'.forward - 1))
               \cup (cursor'.coverage..(cursor.coverage - 1))
    BY <1>0, <1>2, <2>1, NextPlan DEF PlanCursor
  <2>3. Fetched(PlanRanges(cursor, latest)) \subseteq Nat
    BY <2>1, <2>2 DEF Cursor
  <2>4. NoGap'
    <3>1. ASSUME NEW b \in cursor'.coverage..(cursor'.forward - 1)
          PROVE  b \in ingested'
      <4>1. \/ b \in cursor'.coverage..(cursor.coverage - 1)
            \/ b \in cursor.coverage..(cursor.forward - 1)
            \/ b \in cursor.forward..(cursor'.forward - 1)
        BY <2>1, <2>2 DEF Cursor
      <4> QED
        BY <1>0, <1>2, <2>2, <4>1 DEF IInv, NoGap
    <3> QED
      BY <3>1 DEF NoGap
  <2>5. ReadyIsDone'
    BY <1>0, <2>2, NullAssumption DEF ReadyIsDone, More, Cursor
  <2>6. TypeOK'
    BY <1>0, <2>2, <2>3 DEF TypeOK
  <2> QED
    BY <2>2, <2>4, <2>5, <2>6 DEF IInv
<1> QED
  BY <1>1, <1>2

\* What a plan fetches is the blocks of its ranges.
LEMMA FetchedBlocks ==
    ASSUME IInv, NEW latest \in Observable, Plannable(latest)
    PROVE  Fetched(PlanRanges(cursor, latest)) \subseteq Nat
<1>0. /\ TypeOK /\ latest \in Nat /\ startBlock <= latest
  BY SizesAssumption DEF IInv, Observable, Plannable, TypeOK
<1>1. CASE cursor = NoCursor
  BY <1>0, <1>1, FirstPlan DEF Cursor
<1>2. CASE cursor # NoCursor
  <2>1. cursor \in Cursor /\ Joined(cursor)
    BY <1>0, <1>2 DEF IInv, TypeOK
  <2>2. /\ NextCursor(cursor, latest) \in Cursor
        /\ Fetched(PlanRanges(cursor, latest))
             = (cursor.forward..(NextCursor(cursor, latest).forward - 1))
               \cup (NextCursor(cursor, latest).coverage..(cursor.coverage - 1))
    BY <1>0, <2>1, NextPlan
  <2> QED
    BY <2>1, <2>2 DEF Cursor
<1> QED
  BY <1>1, <1>2

\* The invariant holds in every state.
LEMMA Invariance == Spec => []IInv
<1> USE SizesAssumption, NullAssumption
<1>1. Init => IInv
  BY DEF Init, IInv, TypeOK, NoGap, ReadyIsDone
<1>2. IInv /\ [Next]_vars => IInv'
  <2> SUFFICES ASSUME IInv, [Next]_vars PROVE IInv'
    OBVIOUS
  <2>1. ASSUME NEW latest \in Observable, Run(latest) PROVE IInv'
    BY <2>1, RunKeepsIInv
  <2>2. ASSUME NEW latest \in Observable, FailedRun(latest) PROVE IInv'
    <3>1. Plannable(latest) => Fetched(PlanRanges(cursor, latest)) \subseteq Nat
      BY FetchedBlocks
    <3>2. ingested \subseteq ingested' /\ ingested' \in SUBSET Nat
      BY <2>2, <3>1 DEF FailedRun, IInv, TypeOK
    <3> QED
      BY <2>2, <3>2 DEF FailedRun, IInv, TypeOK, NoGap, ReadyIsDone, Joined
  <2>3. CASE Mine
    BY <2>3 DEF Mine, IInv, TypeOK, NoGap, ReadyIsDone, Joined
  <2>4. CASE Deploy
    BY <2>4 DEF Deploy, IInv, TypeOK, NoGap, ReadyIsDone, Joined
  <2>5. CASE UNCHANGED vars
    BY <2>5 DEF vars, IInv, TypeOK, NoGap, ReadyIsDone, Joined
  <2> QED
    BY <2>1, <2>2, <2>3, <2>4, <2>5 DEF Next
<1> QED
  BY <1>1, <1>2, PTL DEF Spec

-------------------------------------------------------------------------------
(* Theorems.                                                               *)

\* The variables keep their types.
THEOREM TypeCorrect == Spec => []TypeOK
<1>1. IInv => TypeOK
  BY DEF IInv
<1> QED
  BY <1>1, Invariance, PTL

\* No gap between the forward and the backward scan, whatever lags or fails.
THEOREM CoverageHasNoGap == Spec => []NoGap
<1>1. IInv => NoGap
  BY DEF IInv
<1> QED
  BY <1>1, Invariance, PTL

\* Ready means complete up to the head the run saw.
THEOREM ReadyWalletsAreComplete == Spec => []ReadyIsComplete
<1>1. IInv => ReadyIsComplete
  <2> SUFFICES ASSUME IInv, status = "ready"
               PROVE  cursor.target..cursor.latest \subseteq ingested
    BY DEF ReadyIsComplete
  <2>1. cursor \in Cursor /\ cursor.latest < cursor.forward
        /\ cursor.coverage = cursor.target
    BY DEF IInv, ReadyIsDone, TypeOK, Joined
  <2>2. cursor.coverage..(cursor.forward - 1) \subseteq ingested
    BY <2>1, NullAssumption DEF IInv, NoGap
  <2> QED
    BY <2>1, <2>2 DEF Cursor
<1> QED
  BY <1>1, Invariance, PTL

\* A run fetches only blocks its cursor does not cover.
THEOREM NothingIsFetchedTwice == Spec => []NoRescan
<1>1. IInv => NoRescan
  <2> SUFFICES ASSUME IInv, cursor # NoCursor,
                      NEW latest \in Observable, Plannable(latest)
               PROVE  Fetched(PlanRanges(cursor, latest))
                        \cap (cursor.coverage..(cursor.forward - 1)) = {}
    BY DEF NoRescan
  <2>1. /\ cursor \in Cursor /\ Joined(cursor) /\ TypeOK /\ latest \in Nat
    BY DEF IInv, TypeOK, Observable
  <2>2. /\ NextCursor(cursor, latest) \in Cursor
        /\ Fetched(PlanRanges(cursor, latest))
             = (cursor.forward..(NextCursor(cursor, latest).forward - 1))
               \cup (NextCursor(cursor, latest).coverage..(cursor.coverage - 1))
    BY <2>1, NextPlan
  <2> QED
    BY <2>1, <2>2 DEF Cursor
<1> QED
  BY <1>1, Invariance, PTL

\* The blocks of a scan from one block to before another.
LEMMA Scan ==
    ASSUME NEW m \in Nat, NEW n \in Nat, m <= n
    PROVE  /\ IsFiniteSet(m..(n - 1))
           /\ Cardinality(m..(n - 1)) = n - m
<1>1. n - 1 \in Int
  OBVIOUS
<1> DEFINE last == n - 1
<1> HIDE DEF last
<1>2. last \in Int
  BY <1>1 DEF last
<1>3. /\ IsFiniteSet(m..last)
      /\ Cardinality(m..last) = IF m > last THEN 0 ELSE last - m + 1
  BY <1>2, FS_Interval
<1> QED
  BY <1>3 DEF last

\* An interval and an adjacent or a distant one have at most the blocks of both.
LEMMA TwoScans ==
    ASSUME NEW a \in Nat, NEW b \in Nat, a <= b,
           NEW x \in Nat, NEW y \in Nat, x <= y
    PROVE  Cardinality((a..(b - 1)) \cup (x..(y - 1))) <= (b - a) + (y - x)
<1> DEFINE A == a..(b - 1)
           X == x..(y - 1)
<1>1. /\ IsFiniteSet(A) /\ Cardinality(A) = b - a
      /\ IsFiniteSet(X) /\ Cardinality(X) = y - x
  BY Scan
<1>2. /\ IsFiniteSet(A \cap X)
      /\ Cardinality(A \cup X) = Cardinality(A) + Cardinality(X) - Cardinality(A \cap X)
  BY <1>1, FS_Union, FS_Intersection
<1>3. Cardinality(A \cap X) \in Nat
  BY <1>2, FS_CardinalityType
<1> HIDE DEF A, X
<1>4. Cardinality(A \cup X) <= (b - a) + (y - x)
  BY <1>1, <1>2, <1>3
<1> QED
  BY <1>4 DEF A, X

\* The forward and the backward scan of a run share its budget of blocks: what
\* it fetches never exceeds maxBlocksPerRun, at the chunk boundaries or when
\* both scans are due.
THEOREM RunsAreBounded == Spec => []RunIsBounded
<1>1. IInv => RunIsBounded
  <2> SUFFICES ASSUME IInv, NEW latest \in Observable, Plannable(latest)
               PROVE  Cardinality(Fetched(PlanRanges(cursor, latest))) <= maxBlocks
    BY DEF RunIsBounded
  <2>0. /\ TypeOK /\ latest \in Nat /\ maxBlocks \in Nat /\ startBlock <= latest
    BY SizesAssumption DEF IInv, Observable, Plannable, TypeOK
  <2>1. CASE cursor = NoCursor
    <3> DEFINE first == FirstCursor(latest).coverage
    <3>1. /\ first \in Nat /\ latest - first + 1 <= maxBlocks
          /\ Fetched(PlanRanges(cursor, latest)) = first..latest
      BY <2>0, <2>1, FirstPlan DEF Cursor
    <3> HIDE DEF first
    <3>2. Cardinality(first..latest) = IF first > latest THEN 0 ELSE latest - first + 1
      BY <2>0, <3>1, FS_Interval
    <3> QED
      BY <2>0, <3>1, <3>2
  <2>2. CASE cursor # NoCursor
    <3> DEFINE d == NextCursor(cursor, latest)
    <3>1. cursor \in Cursor /\ Joined(cursor)
      BY <2>0, <2>2 DEF IInv, TypeOK
    <3>2. /\ d \in Cursor /\ d.coverage <= cursor.coverage /\ cursor.forward <= d.forward
          /\ Fetched(PlanRanges(cursor, latest))
               = (cursor.forward..(d.forward - 1)) \cup (d.coverage..(cursor.coverage - 1))
          /\ (d.forward - cursor.forward) + (cursor.coverage - d.coverage) <= maxBlocks
      BY <2>0, <3>1, NextPlan
    <3> HIDE DEF d
    <3>3. /\ cursor.forward \in Nat /\ cursor.coverage \in Nat
          /\ d.forward \in Nat /\ d.coverage \in Nat
      BY <3>1, <3>2 DEF Cursor
    <3> DEFINE n == (d.forward - cursor.forward) + (cursor.coverage - d.coverage)
    <3>4. Cardinality(Fetched(PlanRanges(cursor, latest))) <= n
      BY <3>2, <3>3, TwoScans
    <3>5. Cardinality(Fetched(PlanRanges(cursor, latest))) \in Nat
      <4>1. /\ IsFiniteSet(cursor.forward..(d.forward - 1))
            /\ IsFiniteSet(d.coverage..(cursor.coverage - 1))
        BY <3>2, <3>3, Scan
      <4> QED
        BY <3>2, <4>1, FS_Union, FS_CardinalityType
    <3> QED
      BY <2>0, <3>2, <3>3, <3>4, <3>5
  <2> QED
    BY <2>1, <2>2
<1> QED
  BY <1>1, Invariance, PTL

\* When RPC nodes do not lag, every stored cursor passes the assertion of the
\* next run: synchronisation cannot wedge itself.
THEOREM CursorsAreDecodable == Spec => []PromptCursorIsDecodable
<1> DEFINE DInv == (lag = 0 /\ cursor # NoCursor)
                      => Decodable(cursor) /\ cursor.latest <= head
<1> USE SizesAssumption, NullAssumption
<1>1. Init => DInv
  BY DEF Init
<1>2. IInv /\ IInv' /\ DInv /\ [Next]_vars => DInv'
  <2> SUFFICES ASSUME IInv, IInv', DInv, [Next]_vars PROVE DInv'
    OBVIOUS
  <2>1. ASSUME NEW latest \in Observable, Run(latest) PROVE DInv'
    <3> SUFFICES ASSUME lag' = 0 PROVE DInv'
      OBVIOUS
    <3>0. /\ TypeOK /\ latest \in Nat /\ lag = 0 /\ latest = head /\ startBlock <= latest
          /\ head' = head /\ cursor' = PlanCursor(cursor, latest)
      BY <2>1 DEF IInv, Observable, Run, Plannable, TypeOK
    <3>1. CASE cursor = NoCursor
      BY <3>0, <3>1, FirstPlan DEF PlanCursor, Decodable, Joined, Cursor
    <3>2. CASE cursor # NoCursor
      <4>1. cursor \in Cursor /\ Joined(cursor)
        BY <3>0, <3>2 DEF IInv, TypeOK
      <4>2. /\ cursor.forward <= latest + 1 /\ cursor.coverage <= latest
        BY <3>0, <3>2, <4>1 DEF Decodable, Cursor
      <4>3. /\ cursor' \in Cursor /\ Joined(cursor')
            /\ cursor'.latest = latest /\ cursor'.coverage <= cursor.coverage
            /\ cursor'.forward <= latest + 1
        BY <3>0, <3>2, <4>1, <4>2, NextPlan DEF PlanCursor
      <4> QED
        BY <3>0, <4>1, <4>2, <4>3 DEF Decodable, Joined, Cursor
    <3> QED
      BY <3>1, <3>2
  <2>2. ASSUME NEW latest \in Observable, FailedRun(latest) PROVE DInv'
    BY <2>2 DEF FailedRun, Decodable
  <2>3. CASE Mine
    BY <2>3 DEF Mine, IInv, TypeOK, Decodable, Cursor
  <2>4. CASE Deploy
    BY <2>4 DEF Deploy, Decodable
  <2>5. CASE UNCHANGED vars
    BY <2>5 DEF vars, Decodable
  <2> QED
    BY <2>1, <2>2, <2>3, <2>4, <2>5 DEF Next
<1>3. DInv => PromptCursorIsDecodable
  BY DEF PromptCursorIsDecodable, CursorIsDecodable
<1> QED
  BY <1>1, <1>2, <1>3, Invariance, PTL DEF Spec

-------------------------------------------------------------------------------
(* The promise.                                                            *)

\* The ledger and the cursor stay within the chain, whatever an RPC node that
\* lags had to say of its head.
WithinChain ==
    /\ ingested \subseteq 0..head
    /\ cursor # NoCursor => cursor.forward <= head + 1 /\ cursor.coverage <= head + 1

\* A run fetches blocks that exist.
LEMMA FetchedExist ==
    ASSUME IInv, WithinChain, NEW latest \in Observable, Plannable(latest)
    PROVE  Fetched(PlanRanges(cursor, latest)) \subseteq 0..head
<1>0. /\ TypeOK /\ latest \in Nat /\ latest <= head /\ head \in Nat /\ startBlock <= latest
  BY SizesAssumption DEF IInv, Observable, Plannable, TypeOK
<1>1. CASE cursor = NoCursor
  BY <1>0, <1>1, FirstPlan DEF Cursor
<1>2. CASE cursor # NoCursor
  <2> DEFINE d == NextCursor(cursor, latest)
  <2>1. cursor \in Cursor /\ Joined(cursor)
    BY <1>0, <1>2 DEF IInv, TypeOK
  <2>2. /\ d \in Cursor
        /\ cursor.forward <= latest + 1 => d.forward <= latest + 1
        /\ cursor.forward > latest => d.forward = cursor.forward
        /\ Fetched(PlanRanges(cursor, latest))
             = (cursor.forward..(d.forward - 1)) \cup (d.coverage..(cursor.coverage - 1))
    BY <1>0, <2>1, NextPlan
  <2> HIDE DEF d
  <2> QED
    BY <1>0, <1>2, <2>1, <2>2 DEF Cursor, WithinChain
<1> QED
  BY <1>1, <1>2

\* A run that commits advances the promised cursor: what it covers grows by what
\* it fetched, on either side.
LEMMA RunAdvances ==
    ASSUME IInv, WithinChain, NEW latest \in Observable, Run(latest)
    PROVE  WithinChain' /\ Promise!Advance
<1>0. /\ TypeOK /\ latest \in Nat /\ latest <= head /\ head \in Nat /\ startBlock <= latest
      /\ head' = head /\ cursor' = PlanCursor(cursor, latest)
      /\ ingested' = ingested \cup Fetched(PlanRanges(cursor, latest))
  BY SizesAssumption DEF IInv, Observable, Run, Plannable, TypeOK
<1>1. ingested' \subseteq 0..head
  BY <1>0, FetchedExist DEF Run, WithinChain
<1>2. /\ cursor' \in Cursor /\ cursor' # NoCursor
      /\ cursor'.forward <= head + 1 /\ cursor'.coverage <= head + 1
      /\ Covered(cursor) \subseteq cursor'.coverage..(cursor'.forward - 1)
  <2>1. CASE cursor = NoCursor
    BY <1>0, <2>1, FirstPlan, NullAssumption DEF PlanCursor, Cursor, Covered
  <2>2. CASE cursor # NoCursor
    <3>1. cursor \in Cursor /\ Joined(cursor)
      BY <1>0, <2>2 DEF IInv, TypeOK
    <3>2. /\ cursor' \in Cursor /\ cursor'.coverage <= cursor.coverage
          /\ cursor.forward <= cursor'.forward
          /\ cursor.forward <= latest + 1 => cursor'.forward <= latest + 1
          /\ cursor.forward > latest => cursor'.forward = cursor.forward
      BY <1>0, <2>2, <3>1, NextPlan DEF PlanCursor
    <3> QED
      BY <1>0, <2>2, <3>1, <3>2, NullAssumption DEF Cursor, Covered, WithinChain
  <2> QED
    BY <2>1, <2>2
<1>3. Covered(cursor') = cursor'.coverage..(cursor'.forward - 1)
  BY <1>2 DEF Covered
<1>4. Covered(cursor') \subseteq ingested'
  BY <1>2, <1>3, RunKeepsIInv DEF IInv, NoGap
<1> QED
  BY <1>0, <1>1, <1>2, <1>3, <1>4 DEF WithinChain, Promise!Advance, Promise!Grow

\* Every step is one of Coverage, or changes nothing it sees.
LEMMA StepRefines ==
    IInv /\ WithinChain /\ [Next]_vars => WithinChain' /\ [Promise!Next]_(Promise!vars)
<1> SUFFICES ASSUME IInv, WithinChain, [Next]_vars
             PROVE  WithinChain' /\ [Promise!Next]_(Promise!vars)
  OBVIOUS
<1>1. ASSUME NEW latest \in Observable, Run(latest)
      PROVE  WithinChain' /\ Promise!Next
  BY <1>1, RunAdvances DEF Promise!Next
<1>2. ASSUME NEW latest \in Observable, FailedRun(latest)
      PROVE  WithinChain' /\ Promise!Next
  <2>1. Plannable(latest) => Fetched(PlanRanges(cursor, latest)) \subseteq 0..head
    BY FetchedExist
  <2>2. ingested \subseteq ingested' /\ ingested' \subseteq 0..head
    BY <1>2, <2>1 DEF FailedRun, WithinChain
  <2> QED
    BY <1>2, <2>2
    DEF FailedRun, WithinChain, Covered, Promise!Next, Promise!Ingest, Promise!Grow
<1>3. CASE Mine
  BY <1>3 DEF Mine, IInv, TypeOK, Cursor, WithinChain, Covered, Promise!Next, Promise!Appear
<1>4. CASE Deploy \/ UNCHANGED vars
  BY <1>4 DEF Deploy, vars, WithinChain, Covered, Promise!vars
<1> QED
  BY <1>1, <1>2, <1>3, <1>4 DEF Next

\* The cursor of the Arc adapter implements Coverage: what it covers never
\* shrinks and is in the ledger, for every chain, lag, failure and deployment.
THEOREM ImplementsPromise == Spec => KeepsPromise
<1>1. Init => WithinChain /\ Promise!Init
  BY DEF Init, WithinChain, Covered, Promise!Init
<1> QED
  BY <1>1, StepRefines, Invariance, PTL DEF Spec, KeepsPromise, Promise!Spec
===============================================================================
