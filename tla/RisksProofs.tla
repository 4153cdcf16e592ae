------------------------------ MODULE RisksProofs ------------------------------
(***************************************************************************)
(* Proofs about Risks: types, complete answers, evidence that can be found *)
(* again, versions, and the end of stale signals, for any number of calls, *)
(* any inputs and any rules.                                               *)
(*                                                                         *)
(* Proofs about RiskFacts: what an analysis of a range finds early and     *)
(* late it finds at any time between, so that a signal that is resolved as *)
(* stale stays away; the windows and medians of the rules are what they    *)
(* are meant to be, and the rules of an analysis have ids of their own.    *)
(*                                                                         *)
(* Proofs about Summaries: the table of budgets agrees with the signals,   *)
(* and every table and the chart hold every payment once.                  *)
(***************************************************************************)
EXTENDS Risks, Summaries, FiniteSetTheorems, TLAPS

-------------------------------------------------------------------------------
(* The inductive invariant.                                                *)

\* An analysis has an input, an update has the rule of a signal, and a replay
\* has an input that is stored.
InputFits(c) ==
    /\ call[c].pc \in {"snapshot", "upsert", "resolve", "list", "replayed"}
         => call[c].input \in Inputs
    /\ call[c].pc \in {"update", "commit"}
         => /\ call[c].input = NoInput
            /\ call[c].rule \in Rules
            /\ Exists(call[c].rule)
    /\ At(c, "list") => call[c].input \in snapshots

\* What is left to do and what is written make up what a transaction is about.
WorkFits(c) ==
    /\ At(c, "upsert") => /\ call[c].todo \subseteq Found(c)
                          /\ Found(c) \subseteq call[c].todo \cup Written(c)
    /\ At(c, "resolve") => /\ call[c].todo \cap Found(c) = {}
                           /\ Found(c) \subseteq Written(c)
    /\ At(c, "commit") => call[c].rule \in Written(c)

\* A row that a transaction has written is made from the committed one, which
\* nobody else changes until the transaction ends.
WritesFit(c) ==
    \A r \in Written(c) :
        \/ /\ call[c].pc \in {"upsert", "resolve"}
           /\ r \in Found(c)
           /\ call[c].writes[r] = Upserted(c, r)
        \/ /\ At(c, "resolve")
           /\ r \notin Found(c)
           /\ Unresolved(signals[r])
           /\ call[c].writes[r] = Resolved(c, r)
        \/ /\ At(c, "commit")
           /\ r = call[c].rule
           /\ Exists(r)
           /\ VersionMatches(c)
           /\ call[c].writes[r] = Updated(c, r)

\* The version of a signal that resolveStale saw unresolved tells what became of
\* the signal since then; one that was passed over had been resolved.
Passed(c, r) ==
    \/ ~Unresolved(signals[r]) /\ signals[r].version >= call[c].open[r] + 1
    \/ signals[r].version >= call[c].open[r] + 2
StaleFits(c) ==
    At(c, "resolve") =>
        \A r \in Rules :
            call[c].open[r] # 0 /\ r \notin Found(c) =>
                /\ Exists(r)
                /\ \/ Unresolved(signals[r]) /\ signals[r].version >= call[c].open[r]
                   \/ signals[r].version >= call[c].open[r] + 1
                /\ r \in call[c].todo \/ r \in Written(c) \/ Passed(c, r)

\* An answer holds what was found.
AnswerFits(c) ==
    At(c, "replayed") \/ (At(c, "done") /\ call[c].input # NoInput)
        => call[c].result = Found(c)

CallInv(c) ==
    InputFits(c) /\ WorkFits(c) /\ WritesFit(c) /\ StaleFits(c) /\ AnswerFits(c)

LocksAreExclusive ==
    \A c, d \in Calls : \A r \in Rules :
        r \in Written(c) /\ r \in Written(d) => c = d

\* A stored analysis has signals for all it found.
SnapshotsHaveSignals ==
    \A i \in snapshots : \A r \in RulesOf[i] : Exists(r)

IInv ==
    /\ TypeOK
    /\ \A c \in Calls : CallInv(c)
    /\ LocksAreExclusive
    /\ SnapshotsHaveSignals
    /\ SignalIsOfItsSnapshot

-------------------------------------------------------------------------------
(* Steps that commit nothing.                                              *)

\* What a step of c that commits nothing does.
Quiet(c) ==
    /\ UNCHANGED <<snapshots, signals>>
    /\ call'[c] \in Call
    /\ call' = [call EXCEPT ![c] = call'[c]]
    /\ \A r \in Rules : r \in Written(c)' => r \in Written(c) \/ ~Locked(c, r)

\* The rules found on an input are rules.
LEMMA FoundAreRules ==
    ASSUME NEW c \in Calls, call[c].input \in Inputs
    PROVE  Found(c) \subseteq Rules
  BY RulesOfAssumption DEF Found

\* The rows that the statements write are signals.
LEMMA RowsAreSignals ==
    ASSUME TypeOK, NEW c \in Calls, NEW r \in Rules
    PROVE  /\ call[c].input \in Inputs => Upserted(c, r) \in Signal
           /\ Exists(r) => Resolved(c, r) \in Signal
           /\ Exists(r) => Updated(c, r) \in Signal
<1>1. call[c] \in Call
  BY DEF TypeOK
<1>2. call[c].status \in Status
  BY <1>1 DEF Call
<1>3. ASSUME Exists(r)
      PROVE  /\ signals[r] \in Signal
             /\ signals[r].version + 1 \in Nat \ {0}
  BY <1>3 DEF TypeOK, Exists, Signal
<1>4. ASSUME call[c].input \in Inputs PROVE Upserted(c, r) \in Signal
  <2>1. CASE Exists(r)
    BY <1>3, <1>4, <2>1 DEF Upserted, Signal
  <2>2. CASE ~Exists(r)
    BY <1>4, <2>2 DEF Upserted, Signal, Status
  <2>3. QED
    BY <2>1, <2>2
<1>5. Exists(r) => Resolved(c, r) \in Signal
  BY <1>3 DEF Resolved, Signal, Status
<1>6. Exists(r) => Updated(c, r) \in Signal
  BY <1>2, <1>3 DEF Updated, Signal
<1>7. QED
  BY <1>4, <1>5, <1>6

\* A step that gives call c another record and nothing else.
LEMMA Doing ==
    ASSUME TypeOK, NEW c \in Calls, NEW record, Do(c, record)
    PROVE  /\ call'[c] = record
           /\ call' = [call EXCEPT ![c] = call'[c]]
  BY DEF TypeOK, Do

\* Writing one row that nobody else holds.
Puts(c, r, row, pc) == Do(c, [Put(c, r, row) EXCEPT !.pc = pc])
IsPut(c, r, row, pc) ==
    /\ call'[c].pc = pc
    /\ call'[c].input = call[c].input
    /\ call'[c].todo = call[c].todo \ {r}
    /\ call'[c].open = call[c].open
    /\ call'[c].rule = call[c].rule
    /\ call'[c].expected = call[c].expected
    /\ call'[c].status = call[c].status
    /\ Written(c)' = Written(c) \cup {r}
    /\ call'[c].writes[r] = row
    /\ \A s \in Rules \ {r} : call'[c].writes[s] = call[c].writes[s]
\* A transaction that writes a row it has locked writes nothing else.
LEMMA Putting ==
    ASSUME TypeOK, NEW c \in Calls, NEW r \in Rules, NEW row \in Signal,
           NEW pc \in {"upsert", "resolve", "commit"},
           ~Locked(c, r),
           UNCHANGED <<snapshots, signals>>,
           Puts(c, r, row, pc)
    PROVE  Quiet(c) /\ IsPut(c, r, row, pc)
<1>1. call[c] \in Call /\ row # NoSignal
  BY NullsAssumption DEF TypeOK
<1>2. call'[c] = [call[c] EXCEPT !.pc = pc, !.todo = @ \ {r},
                                 !.writes = [@ EXCEPT ![r] = row]]
  BY <1>1, Doing DEF Puts, Put, Call
<1>3. /\ call'[c].writes = [call[c].writes EXCEPT ![r] = row]
      /\ call[c].writes \in [Rules -> Signal \cup {NoSignal}]
  BY <1>1, <1>2 DEF Call
<1>4. call'[c] \in Call
  <2>1. call'[c].writes \in [Rules -> Signal \cup {NoSignal}]
    BY <1>3
  <2>2. call'[c] = [call[c] EXCEPT !.pc = pc, !.todo = call[c].todo \ {r},
                                   !.writes = call'[c].writes]
    BY <1>1, <1>2, <1>3 DEF Call
  <2>3. QED
    BY <1>1, <2>1, <2>2 DEF Call
<1>5. /\ Written(c)' = Written(c) \cup {r}
      /\ call'[c].writes[r] = row
      /\ \A s \in Rules \ {r} : call'[c].writes[s] = call[c].writes[s]
  BY <1>1, <1>3 DEF Written
<1>6. IsPut(c, r, row, pc)
  BY <1>1, <1>2, <1>5 DEF IsPut, Call
<1>7. call' = [call EXCEPT ![c] = call'[c]]
  BY Doing DEF Puts
<1>8. QED
  BY <1>4, <1>5, <1>6, <1>7 DEF Quiet

\* Ending a call.
LEMMA Ending ==
    ASSUME TypeOK, NEW c \in Calls,
           NEW pc \in {"done", "replayed", "failed"}, NEW result \in SUBSET Rules,
           Do(c, End(c, pc, result))
    PROVE  /\ call'[c] \in Call
           /\ call' = [call EXCEPT ![c] = call'[c]]
           /\ call'[c].pc = pc /\ call'[c].input = call[c].input
           /\ call'[c].result = result
           /\ Written(c)' = {}
<1>1. call[c] \in Call
  BY DEF TypeOK
<1>2. call'[c] = End(c, pc, result)
  BY Doing
<1>3. call'[c] = [pc |-> pc, input |-> call[c].input, todo |-> {},
                  open |-> [r \in Rules |-> 0], rule |-> NoRule, expected |-> 0,
                  status |-> "open", writes |-> NoWrites, result |-> result]
  BY <1>2 DEF End, Idle
<1>4. call'[c] \in Call
  BY <1>1, <1>3 DEF Call, NoWrites, Status
<1>5. Written(c)' = {}
  BY <1>3 DEF Written, NoWrites
<1>6. QED
  BY <1>3, <1>4, <1>5, Doing

\* Such a step leaves what holds of other calls, and of rows and snapshots.
LEMMA Others ==
    ASSUME TypeOK, NEW c \in Calls, NEW d \in Calls \ {c}, Quiet(c), CallInv(d)
    PROVE  CallInv(d)'
<1>1. call'[d] = call[d] /\ snapshots' = snapshots /\ signals' = signals
  BY DEF Quiet, TypeOK
<1>2. InputFits(d)' /\ WorkFits(d)' /\ AnswerFits(d)'
  BY <1>1 DEF CallInv, InputFits, WorkFits, AnswerFits, At, Exists, Found, Written
<1>3. WritesFit(d)'
  BY <1>1 DEF CallInv, WritesFit, At, Exists, Found, Written, Upserted, Resolved,
              Updated, Unresolved, VersionMatches
<1>4. StaleFits(d)'
  BY <1>1 DEF CallInv, StaleFits, Passed, At, Exists, Found, Written, Unresolved
<1>5. QED
  BY <1>2, <1>3, <1>4 DEF CallInv

\* A step that commits nothing keeps the invariant if its own call does.
LEMMA QuietStep ==
    ASSUME IInv, NEW c \in Calls, Quiet(c), CallInv(c)'
    PROVE  IInv'
<1>1. \A d \in Calls \ {c} : call'[d] = call[d]
  BY DEF Quiet, IInv, TypeOK
<1>2. TypeOK'
  BY DEF Quiet, IInv, TypeOK
<1>3. \A d \in Calls : CallInv(d)'
  BY Others DEF IInv
<1>4. LocksAreExclusive'
  <2>1. SUFFICES ASSUME NEW d \in Calls, NEW e \in Calls, NEW r \in Rules,
                        r \in Written(d)', r \in Written(e)', d # e
                 PROVE  FALSE
    BY DEF LocksAreExclusive
  <2>2. \A x \in Calls \ {c} : r \in Written(x)' <=> r \in Written(x)
    BY <1>1 DEF Written
  <2>3. \A x \in Calls : r \in Written(x) <=> call[x].writes[r] # NoSignal
    BY DEF Written
  <2>4. \A x \in Calls \ {c} : r \in Written(c)' /\ r \in Written(x) => FALSE
    BY <2>3 DEF Quiet, Locked, IInv, LocksAreExclusive
  <2>5. QED
    BY <2>1, <2>2, <2>4 DEF IInv, LocksAreExclusive
<1>5. SnapshotsHaveSignals' /\ SignalIsOfItsSnapshot'
  BY DEF Quiet, IInv, SnapshotsHaveSignals, SignalIsOfItsSnapshot, Exists
<1>6. QED
  BY <1>2, <1>3, <1>4, <1>5 DEF IInv

-------------------------------------------------------------------------------
(* The actions that commit nothing.                                        *)

\* Outside a transaction nothing is written.
LEMMA NothingWritten ==
    ASSUME NEW c \in Calls, CallInv(c), call[c].pc \notin {"upsert", "resolve", "commit"}
    PROVE  Written(c) = {}
  BY DEF CallInv, WritesFit, At

\* A call with nothing written and no step that says more of it.
LEMMA Harmless ==
    ASSUME NEW c \in Calls, Written(c)' = {},
           call'[c].pc \in {"idle", "done", "failed", "snapshot", "update"},
           call'[c].pc = "snapshot" => call'[c].input \in Inputs,
           call'[c].pc = "update" => /\ call'[c].input = NoInput
                                     /\ call'[c].rule \in Rules
                                     /\ Exists(call[c].rule)',
           call'[c].pc = "done" => call'[c].input = NoInput \/ call'[c].result = Found(c)'
    PROVE  CallInv(c)'
  BY DEF CallInv, InputFits, WorkFits, WritesFit, StaleFits, AnswerFits, At

\* An analysis begins.
LEMMA AnalyzeStep ==
    ASSUME TypeOK, NEW c \in Calls, NEW i \in Inputs, Analyze(c, i)
    PROVE  Quiet(c) /\ CallInv(c)'
<1>1. call'[c] = [Idle EXCEPT !.pc = "snapshot", !.input = i]
  BY Doing DEF Analyze
<1>2. call'[c] = [pc |-> "snapshot", input |-> i, todo |-> {},
                  open |-> [r \in Rules |-> 0], rule |-> NoRule, expected |-> 0,
                  status |-> "open", writes |-> NoWrites, result |-> {}]
  BY <1>1 DEF Idle
<1>3. call'[c] \in Call /\ Written(c)' = {}
  BY <1>2 DEF Call, NoWrites, Status, Written
<1>4. Quiet(c)
  BY <1>3, Doing DEF Quiet, Analyze
<1>5. call'[c].pc = "snapshot" /\ call'[c].input = i
  BY <1>2
<1>6. CallInv(c)'
  BY <1>3, <1>5, Harmless
<1>7. QED
  BY <1>4, <1>6

\* A status update begins.
LEMMA UpdateStep ==
    ASSUME TypeOK, NEW c \in Calls, NEW r \in Rules, NEW v \in 1..MaxVersion,
           NEW s \in Status, Update(c, r, v, s)
    PROVE  Quiet(c) /\ CallInv(c)'
<1>1. call'[c] = [Idle EXCEPT !.pc = "update", !.rule = r, !.expected = v,
                              !.status = s]
  BY Doing DEF Update
<1>2. call'[c] = [pc |-> "update", input |-> NoInput, todo |-> {},
                  open |-> [q \in Rules |-> 0], rule |-> r, expected |-> v,
                  status |-> s, writes |-> NoWrites, result |-> {}]
  BY <1>1 DEF Idle
<1>3. call'[c] \in Call /\ Written(c)' = {}
  BY <1>2, BoundAssumption DEF Call, NoWrites, Written
<1>4. Quiet(c)
  BY <1>3, Doing DEF Quiet, Update
<1>5. /\ call'[c].pc = "update" /\ call'[c].input = NoInput
      /\ call'[c].rule \in Rules /\ Exists(call[c].rule)'
  BY <1>2 DEF Update, Exists
<1>6. CallInv(c)'
  BY <1>3, <1>5, Harmless
<1>7. QED
  BY <1>4, <1>6

\* A call that is rolled back leaves nothing.
LEMMA RollBackStep ==
    ASSUME TypeOK, NEW c \in Calls, RollBack(c)
    PROVE  Quiet(c) /\ CallInv(c)'
<1>1. Do(c, End(c, "failed", {})) /\ UNCHANGED <<snapshots, signals>>
  BY DEF RollBack
<1>2. Quiet(c) /\ call'[c].pc = "failed" /\ Written(c)' = {}
  BY <1>1, Ending DEF Quiet
<1>3. QED
  BY <1>2, Harmless

\* The snapshot is new, or the call is a replay.
LEMMA CreateOrGetStep ==
    ASSUME TypeOK, NEW c \in Calls, CallInv(c), CreateOrGet(c)
    PROVE  Quiet(c) /\ CallInv(c)'
<1>1. /\ call[c] \in Call /\ call[c].pc = "snapshot" /\ call[c].input \in Inputs
      /\ UNCHANGED <<snapshots, signals>>
  BY DEF TypeOK, CreateOrGet, At, CallInv, InputFits
<1>2. Written(c) = {}
  BY <1>1, NothingWritten
<1>3. CASE call[c].input \in snapshots
  <2>1. call'[c] = [call[c] EXCEPT !.pc = "list"]
    BY <1>3, Doing DEF CreateOrGet
  <2>2. /\ call'[c] \in Call /\ call'[c].pc = "list"
        /\ call'[c].input = call[c].input /\ call'[c].writes = call[c].writes
    BY <1>1, <2>1 DEF Call
  <2>3. Written(c)' = {}
    BY <1>2, <2>2 DEF Written
  <2>4. Quiet(c)
    BY <1>1, <1>3, <2>2, <2>3, Doing DEF Quiet, CreateOrGet
  <2>5. CallInv(c)'
    BY <1>1, <1>3, <2>2, <2>3 DEF CallInv, InputFits, WorkFits, WritesFit,
                                  StaleFits, AnswerFits, At
  <2>6. QED
    BY <2>4, <2>5
<1>4. CASE call[c].input \notin snapshots
  <2>1. call'[c] = [call[c] EXCEPT !.pc = "upsert", !.todo = Found(c)]
    BY <1>4, Doing DEF CreateOrGet
  <2>2. /\ call'[c] \in Call /\ call'[c].pc = "upsert"
        /\ call'[c].input = call[c].input /\ call'[c].writes = call[c].writes
        /\ call'[c].todo = Found(c)
    BY <1>1, <2>1, FoundAreRules DEF Call
  <2>3. Written(c)' = {} /\ Found(c)' = Found(c)
    BY <1>2, <2>2 DEF Written, Found
  <2>4. Quiet(c)
    BY <1>1, <1>4, <2>2, <2>3, Doing DEF Quiet, CreateOrGet
  <2>5. CallInv(c)'
    BY <1>1, <2>2, <2>3 DEF CallInv, InputFits, WorkFits, WritesFit,
                            StaleFits, AnswerFits, At
  <2>6. QED
    BY <2>4, <2>5
<1>5. QED
  BY <1>3, <1>4

\* A replay finds every signal of its analysis.
LEMMA ListStep ==
    ASSUME IInv, NEW c \in Calls, List(c)
    PROVE  Quiet(c) /\ CallInv(c)'
<1> DEFINE result == {r \in Found(c) : Exists(r)}
<1>1. /\ TypeOK /\ CallInv(c) /\ call[c].pc = "list"
      /\ call[c].input \in Inputs /\ call[c].input \in snapshots
      /\ UNCHANGED <<snapshots, signals>>
  BY DEF IInv, List, At, CallInv, InputFits
<1>2. result = Found(c) /\ result \in SUBSET Rules
  BY <1>1, FoundAreRules DEF IInv, SnapshotsHaveSignals, Found
<1>3. /\ call'[c] \in Call /\ call' = [call EXCEPT ![c] = call'[c]]
      /\ call'[c].pc = "replayed" /\ call'[c].input = call[c].input
      /\ call'[c].result = result /\ Written(c)' = {}
  BY <1>1, <1>2, Ending DEF List
<1>4. Quiet(c)
  BY <1>1, <1>3 DEF Quiet
<1>5. Found(c)' = Found(c)
  BY <1>3 DEF Found
<1>6. CallInv(c)'
  BY <1>1, <1>2, <1>3, <1>5 DEF CallInv, InputFits, WorkFits, WritesFit, StaleFits,
                                AnswerFits, At
<1>7. QED
  BY <1>4, <1>6

\* An upsert writes one of the signals that were found.
LEMMA UpsertStep ==
    ASSUME TypeOK, NEW c \in Calls, CallInv(c), NEW r \in Rules, Upsert(c, r)
    PROVE  Quiet(c) /\ CallInv(c)'
<1> DEFINE row == Upserted(c, r)
<1>1. /\ call[c] \in Call /\ call[c].pc = "upsert" /\ call[c].input \in Inputs
      /\ r \in call[c].todo /\ ~Locked(c, r)
      /\ UNCHANGED <<snapshots, signals>>
  BY DEF TypeOK, Upsert, At, CallInv, InputFits
<1>2. row \in Signal
  BY <1>1, RowsAreSignals
<1>3. Put(c, r, row) = [Put(c, r, row) EXCEPT !.pc = "upsert"]
  BY <1>1 DEF Put, Call
<1>4. Puts(c, r, row, "upsert")
  BY <1>3 DEF Upsert, Puts
<1> HIDE DEF row
<1>5. Quiet(c) /\ IsPut(c, r, row, "upsert")
  BY <1>1, <1>2, <1>4, Putting
<1>6. /\ call'[c].pc = "upsert" /\ call'[c].input = call[c].input
      /\ call'[c].todo = call[c].todo \ {r}
      /\ Written(c)' = Written(c) \cup {r}
      /\ call'[c].writes[r] = row
      /\ \A s \in Rules \ {r} : call'[c].writes[s] = call[c].writes[s]
  BY <1>5 DEF IsPut
<1>7. Found(c)' = Found(c) /\ r \in Found(c)
  BY <1>1, <1>6 DEF Found, CallInv, WorkFits, At
<1>8. InputFits(c)' /\ WorkFits(c)' /\ StaleFits(c)' /\ AnswerFits(c)'
  BY <1>1, <1>5, <1>6, <1>7 DEF CallInv, InputFits, WorkFits, StaleFits, AnswerFits, At
<1>9. \A s \in Rules : Upserted(c, s)' = Upserted(c, s)
  BY <1>1, <1>6 DEF Upserted, Exists
<1>10. WritesFit(c)'
  <2>1. \A s \in Written(c) : s \in Found(c) /\ call[c].writes[s] = Upserted(c, s)
    BY <1>1 DEF CallInv, WritesFit, At
  <2>2. ASSUME NEW s \in Written(c)'
        PROVE  s \in Found(c)' /\ call'[c].writes[s] = Upserted(c, s)'
    <3>1. CASE s = r
      BY <1>6, <1>7, <1>9, <3>1 DEF row
    <3>2. CASE s # r
      BY <1>6, <1>7, <1>9, <2>1, <2>2, <3>2 DEF Written
    <3>3. QED
      BY <3>1, <3>2
  <2>3. QED
    BY <1>6, <2>2 DEF WritesFit, At
<1>11. QED
  BY <1>5, <1>8, <1>10 DEF CallInv

\* What is stale is not among the signals that were found.
LEMMA SelectStaleStep ==
    ASSUME TypeOK, NEW c \in Calls, CallInv(c), SelectStale(c)
    PROVE  Quiet(c) /\ CallInv(c)'
<1>1. /\ call[c] \in Call /\ call[c].pc = "upsert" /\ call[c].input \in Inputs
      /\ call[c].todo = {} /\ Found(c) \subseteq Written(c)
      /\ UNCHANGED <<snapshots, signals>>
  BY DEF TypeOK, SelectStale, At, CallInv, InputFits, WorkFits
<1>2. call'[c] = [call[c] EXCEPT !.pc = "resolve", !.todo = Stale(c),
                                 !.open = Versions]
  BY Doing DEF SelectStale
<1>3. Stale(c) \in SUBSET Rules /\ Versions \in [Rules -> Nat]
  BY DEF TypeOK, Stale, Versions, Unresolved, Signal
<1>4. /\ call'[c] \in Call /\ call'[c].pc = "resolve"
      /\ call'[c].input = call[c].input /\ call'[c].writes = call[c].writes
      /\ call'[c].todo = Stale(c) /\ call'[c].open = Versions
  BY <1>1, <1>2, <1>3 DEF Call
<1>5. Written(c)' = Written(c) /\ Found(c)' = Found(c)
  BY <1>4 DEF Written, Found
<1>6. Quiet(c)
  BY <1>1, <1>4, <1>5, Doing DEF Quiet, SelectStale
<1>7. InputFits(c)' /\ WorkFits(c)' /\ AnswerFits(c)'
  BY <1>1, <1>4, <1>5 DEF InputFits, WorkFits, AnswerFits, At, Stale
<1>8. WritesFit(c)'
  <2>1. \A r \in Rules : Upserted(c, r)' = Upserted(c, r)
    BY <1>1, <1>4 DEF Upserted, Exists
  <2>2. \A r \in Written(c) : r \in Found(c) /\ call[c].writes[r] = Upserted(c, r)
    BY <1>1 DEF CallInv, WritesFit, At
  <2>3. QED
    BY <1>4, <1>5, <2>1, <2>2 DEF WritesFit, Written
<1>9. StaleFits(c)'
  <2>1. ASSUME NEW r \in Rules, Versions[r] # 0, r \notin Found(c)
        PROVE  /\ r \in Stale(c) /\ Unresolved(signals[r]) /\ Exists(r)
               /\ signals[r].version \in Nat /\ signals[r].version = Versions[r]
    BY <2>1 DEF Versions, Stale, Unresolved, Exists, TypeOK, Signal
  <2>2. \A r \in Rules : Exists(r)' <=> Exists(r)
    BY <1>1 DEF Exists
  <2>3. QED
    BY <1>1, <1>4, <1>5, <2>1, <2>2 DEF StaleFits
<1>10. QED
  BY <1>6, <1>7, <1>8, <1>9 DEF CallInv

\* A stale signal is resolved, or left to who changed it.
LEMMA ResolveStaleStep ==
    ASSUME TypeOK, NEW c \in Calls, CallInv(c), NEW r \in Rules, ResolveStale(c, r)
    PROVE  Quiet(c) /\ CallInv(c)'
<1>1. /\ call[c] \in Call /\ call[c].pc = "resolve" /\ call[c].input \in Inputs
      /\ r \in call[c].todo /\ r \notin Found(c) /\ ~Locked(c, r)
      /\ Found(c) \subseteq Written(c)
      /\ UNCHANGED <<snapshots, signals>>
  BY DEF TypeOK, ResolveStale, At, CallInv, InputFits, WorkFits
<1>2. \A s \in Written(c) :
         \/ s \in Found(c) /\ call[c].writes[s] = Upserted(c, s)
         \/ /\ s \notin Found(c) /\ Unresolved(signals[s])
            /\ call[c].writes[s] = Resolved(c, s)
  BY <1>1 DEF CallInv, WritesFit, At
<1>3. CASE Unresolved(signals[r])
  <2> DEFINE row == Resolved(c, r)
  <2>1. row \in Signal
    BY <1>3, RowsAreSignals DEF Exists, Unresolved
  <2>2. Put(c, r, row) = [Put(c, r, row) EXCEPT !.pc = "resolve"]
    BY <1>1 DEF Put, Call
  <2>3. Puts(c, r, row, "resolve")
    BY <1>3, <2>2 DEF ResolveStale, Puts
  <2> HIDE DEF row
  <2>4. Quiet(c) /\ IsPut(c, r, row, "resolve")
    BY <1>1, <2>1, <2>3, Putting
  <2>5. /\ call'[c].pc = "resolve" /\ call'[c].input = call[c].input
        /\ call'[c].todo = call[c].todo \ {r} /\ call'[c].open = call[c].open
        /\ Written(c)' = Written(c) \cup {r}
        /\ call'[c].writes[r] = row
        /\ \A s \in Rules \ {r} : call'[c].writes[s] = call[c].writes[s]
    BY <2>4 DEF IsPut
  <2>6. Found(c)' = Found(c)
    BY <2>5 DEF Found
  <2>7. InputFits(c)' /\ WorkFits(c)' /\ AnswerFits(c)'
    BY <1>1, <2>5, <2>6 DEF CallInv, InputFits, WorkFits, AnswerFits, At
  <2>8. WritesFit(c)'
    <3>1. \A s \in Rules : /\ Upserted(c, s)' = Upserted(c, s)
                           /\ Resolved(c, s)' = Resolved(c, s)
      BY <1>1, <2>5 DEF Upserted, Resolved, Exists
    <3>2. ASSUME NEW s \in Written(c)'
          PROVE  \/ s \in Found(c)' /\ call'[c].writes[s] = Upserted(c, s)'
                 \/ /\ s \notin Found(c)' /\ Unresolved(signals'[s])
                    /\ call'[c].writes[s] = Resolved(c, s)'
      <4>1. CASE s = r
        BY <1>1, <1>3, <2>5, <2>6, <3>1, <4>1 DEF row
      <4>2. CASE s # r
        <5>1. s \in Written(c) /\ s \in Rules
          BY <2>5, <3>2, <4>2 DEF Written
        <5>2. call'[c].writes[s] = call[c].writes[s] /\ signals' = signals
          BY <1>1, <2>5, <4>2, <5>1
        <5>3. QED
          BY <1>2, <2>6, <3>1, <5>1, <5>2
      <4>3. QED
        BY <4>1, <4>2
    <3>3. QED
      BY <2>5, <3>2 DEF WritesFit, At, Unresolved
  <2>9. StaleFits(c)'
    BY <1>1, <2>5, <2>6 DEF CallInv, StaleFits, Passed, At, Exists, Unresolved
  <2>10. QED
    BY <2>4, <2>7, <2>8, <2>9 DEF CallInv
<1>4. CASE ~Unresolved(signals[r])
  <2>1. call'[c] = [call[c] EXCEPT !.todo = @ \ {r}]
    BY <1>4, Doing DEF ResolveStale
  <2>2. /\ call'[c] \in Call /\ call'[c].pc = "resolve"
        /\ call'[c].input = call[c].input /\ call'[c].writes = call[c].writes
        /\ call'[c].todo = call[c].todo \ {r} /\ call'[c].open = call[c].open
    BY <1>1, <2>1 DEF Call
  <2>3. Written(c)' = Written(c) /\ Found(c)' = Found(c)
    BY <2>2 DEF Written, Found
  <2>4. Quiet(c)
    BY <1>1, <1>4, <2>2, <2>3, Doing DEF Quiet, ResolveStale
  <2>5. InputFits(c)' /\ WorkFits(c)' /\ AnswerFits(c)'
    BY <1>1, <2>2, <2>3 DEF CallInv, InputFits, WorkFits, AnswerFits, At
  <2>6. WritesFit(c)'
    <3>1. \A s \in Rules : /\ Upserted(c, s)' = Upserted(c, s)
                           /\ Resolved(c, s)' = Resolved(c, s)
      BY <1>1, <2>2 DEF Upserted, Resolved, Exists
    <3>2. QED
      BY <1>1, <1>2, <2>2, <2>3, <3>1 DEF WritesFit, At, Unresolved, Written
  <2>7. StaleFits(c)'
    <3>1. ASSUME NEW s \in Rules, call[c].open[s] # 0, s \notin Found(c)
          PROVE  /\ Exists(s)
                 /\ \/ Unresolved(signals[s]) /\ signals[s].version >= call[c].open[s]
                    \/ signals[s].version >= call[c].open[s] + 1
                 /\ s \in call[c].todo \ {r} \/ s \in Written(c) \/ Passed(c, s)
      BY <1>1, <1>4, <3>1 DEF CallInv, StaleFits, Passed, At
    <3>2. QED
      BY <1>1, <2>2, <2>3, <3>1 DEF StaleFits, Passed, Exists, Unresolved
  <2>8. QED
    BY <2>4, <2>5, <2>6, <2>7 DEF CallInv
<1>5. QED
  BY <1>3, <1>4

\* A user's update writes the version after the expected one.
LEMMA UpdateStatusStep ==
    ASSUME TypeOK, NEW c \in Calls, CallInv(c), UpdateStatus(c)
    PROVE  Quiet(c) /\ CallInv(c)'
<1>1. PICK r \in Rules : r = call[c].rule
  BY DEF UpdateStatus, At, CallInv, InputFits
<1> DEFINE row == Updated(c, r)
<1>2. /\ call[c] \in Call /\ call[c].pc = "update" /\ call[c].input = NoInput
      /\ Exists(r) /\ ~Locked(c, r)
      /\ UNCHANGED <<snapshots, signals>>
  BY <1>1 DEF TypeOK, UpdateStatus, At, CallInv, InputFits
<1>3. Written(c) = {}
  BY <1>1, <1>2, NothingWritten
<1>4. CASE VersionMatches(c)
  <2>1. row \in Signal
    BY <1>1, <1>2, RowsAreSignals
  <2>2. Puts(c, r, row, "commit")
    BY <1>1, <1>4 DEF UpdateStatus, Puts
  <2>3. Quiet(c) /\ IsPut(c, r, row, "commit")
    BY <1>1, <1>2, <2>1, <2>2, Putting
  <2>4. /\ call'[c].pc = "commit" /\ call'[c].input = NoInput
        /\ call'[c].rule = r /\ call'[c].expected = call[c].expected
        /\ call'[c].status = call[c].status /\ call'[c].writes[r] = row
    BY <1>1, <1>2, <2>3 DEF IsPut
  <2>5. Written(c)' = {r}
    BY <1>3, <2>3 DEF IsPut
  <2>6. /\ VersionMatches(c)' /\ Exists(r)'
        /\ row = [signals'[r] EXCEPT !.status = call'[c].status, !.version = @ + 1,
                                     !.by = "user"]
    BY <1>1, <1>2, <1>4, <2>4 DEF VersionMatches, Exists, Updated
  <2>7. CallInv(c)'
    <3>1. InputFits(c)' /\ WorkFits(c)' /\ StaleFits(c)' /\ AnswerFits(c)'
      BY <1>1, <1>2, <2>4, <2>5, <2>6 DEF InputFits, WorkFits, StaleFits, AnswerFits, At,
                                    Exists
    <3>2. call'[c].writes[r] = Updated(c, r)'
      BY <2>4, <2>6 DEF Updated
    <3>3. WritesFit(c)'
      BY <2>4, <2>5, <2>6, <3>2 DEF WritesFit, At
    <3>4. QED
      BY <3>1, <3>3 DEF CallInv
  <2>8. QED
    BY <2>3, <2>7
<1>5. CASE ~VersionMatches(c)
  <2>1. Do(c, End(c, "failed", {}))
    BY <1>5 DEF UpdateStatus
  <2>2. Quiet(c) /\ call'[c].pc = "failed" /\ Written(c)' = {}
    BY <1>1, <1>2, <2>1, Ending DEF Quiet
  <2>3. QED
    BY <2>2, Harmless
<1>6. QED
  BY <1>4, <1>5

-------------------------------------------------------------------------------
(* Commit.                                                                 *)

\* What a transaction that commits makes of a signal.
Grown(r) ==
    /\ Exists(r)' /\ signals'[r].snapshot \in snapshots'
    /\ r \in RulesOf[signals'[r].snapshot]
    /\ Exists(r) =>
         \/ /\ signals'[r].version = signals[r].version
            /\ signals'[r].status = signals[r].status
         \/ signals'[r].version = signals[r].version + 1

\* A COMMIT makes the rows that were written visible, and no others.
LEMMA CommitWrites ==
    ASSUME IInv, NEW c \in Calls, Commit(c)
    PROVE  /\ \A r \in Written(c) : signals'[r] = call[c].writes[r] /\ Grown(r)
           /\ \A r \in Rules \ Written(c) : signals'[r] = signals[r]
           /\ snapshots' = snapshots \cup ({call[c].input} \ {NoInput})
<1>1. /\ TypeOK /\ CallInv(c) /\ call[c] \in Call
      /\ call[c].pc \in {"resolve", "commit"}
      /\ signals' = [r \in Rules |-> IF r \in Written(c) THEN call[c].writes[r]
                                                        ELSE signals[r]]
      /\ snapshots' = snapshots \cup ({call[c].input} \ {NoInput})
  BY DEF IInv, TypeOK, Commit, At
<1>2. Written(c) \subseteq Rules
  BY DEF Written
<1>3. ASSUME NEW r \in Written(c) PROVE Grown(r)
  <2>1. r \in Rules /\ signals'[r] = call[c].writes[r] /\ Exists(r)'
    BY <1>1, <1>2, <1>3 DEF Exists, Written
  <2>2. Exists(r) => /\ signals[r] \in Signal
                     /\ signals[r].snapshot \in snapshots
                     /\ r \in RulesOf[signals[r].snapshot]
    BY <2>1, <1>1 DEF Exists, TypeOK, IInv, SignalIsOfItsSnapshot
  <2>3. CASE call[c].pc = "resolve" /\ r \in Found(c)
    <3>1. call[c].input \in Inputs /\ call[c].input \in snapshots'
      BY <1>1, <2>3, NullsAssumption DEF CallInv, InputFits
    <3>2. signals'[r] = Upserted(c, r)
      BY <1>1, <2>1, <2>3 DEF CallInv, WritesFit, At
    <3>3. signals'[r].snapshot = call[c].input
      BY <2>2, <3>2 DEF Upserted, Signal
    <3>4. Exists(r) => /\ signals'[r].version = signals[r].version
                       /\ signals'[r].status = signals[r].status
      BY <2>2, <3>2 DEF Upserted, Signal
    <3>5. QED
      BY <2>1, <2>3, <3>1, <3>3, <3>4 DEF Grown, Found
  <2>4. CASE call[c].pc = "resolve" /\ r \notin Found(c)
    <3>1. signals'[r] = Resolved(c, r) /\ Exists(r)
      BY <1>1, <2>1, <2>4 DEF CallInv, WritesFit, At, Unresolved, Exists
    <3>2. /\ signals'[r].snapshot = signals[r].snapshot
          /\ signals'[r].version = signals[r].version + 1
      BY <2>2, <3>1 DEF Resolved, Signal
    <3>3. QED
      BY <1>1, <2>1, <2>2, <3>1, <3>2 DEF Grown
  <2>5. CASE call[c].pc = "commit"
    <3>1. signals'[r] = Updated(c, r) /\ Exists(r)
      BY <1>1, <2>1, <2>5 DEF CallInv, WritesFit, At
    <3>2. /\ signals'[r].snapshot = signals[r].snapshot
          /\ signals'[r].version = signals[r].version + 1
      BY <2>2, <3>1 DEF Updated, Signal
    <3>3. QED
      BY <1>1, <2>1, <2>2, <3>1, <3>2 DEF Grown
  <2>6. QED
    BY <1>1, <2>3, <2>4, <2>5
<1>4. QED
  BY <1>1, <1>2, <1>3

\* A COMMIT keeps the invariant.
LEMMA CommitStep ==
    ASSUME IInv, NEW c \in Calls, Commit(c)
    PROVE  IInv'
<1>1. /\ TypeOK /\ CallInv(c) /\ call[c] \in Call
      /\ \/ /\ call[c].pc = "resolve" /\ call[c].input \in Inputs
            /\ Found(c) \subseteq Written(c)
            /\ Do(c, End(c, "done", Found(c)))
         \/ /\ call[c].pc = "commit" /\ call[c].input = NoInput
            /\ Do(c, End(c, "done", {call[c].rule}))
            /\ call[c].rule \in Rules
  BY DEF IInv, TypeOK, Commit, At, CallInv, InputFits, WorkFits
<1>2. /\ call'[c] \in Call /\ call' = [call EXCEPT ![c] = call'[c]]
      /\ call'[c].pc = "done" /\ call'[c].input = call[c].input
      /\ Written(c)' = {}
      /\ call[c].pc = "resolve" => call'[c].result = Found(c)
  <2>1. CASE call[c].pc = "resolve"
    <3>1. Found(c) \in SUBSET Rules
      BY <1>1, <2>1, FoundAreRules
    <3>2. QED
      BY <1>1, <2>1, <3>1, Ending
  <2>2. CASE call[c].pc = "commit"
    BY <1>1, <2>2, Ending
  <2>3. QED
    BY <1>1, <2>1, <2>2
<1>3. /\ \A r \in Written(c) : signals'[r] = call[c].writes[r] /\ Grown(r)
      /\ \A r \in Rules \ Written(c) : signals'[r] = signals[r]
      /\ snapshots' = snapshots \cup ({call[c].input} \ {NoInput})
  BY CommitWrites
<1>4. \A r \in Rules : Exists(r) => Exists(r)'
  BY <1>3 DEF Exists, Grown
<1>5. TypeOK'
  <2>1. signals' \in [Rules -> Signal \cup {NoSignal}]
    BY <1>1 DEF TypeOK, Commit, Call, Written
  <2>2. snapshots' \subseteq Inputs
    BY <1>1, <1>3 DEF TypeOK, Call
  <2>3. call' \in [Calls -> Call]
    BY <1>1, <1>2 DEF TypeOK
  <2>4. QED
    BY <2>1, <2>2, <2>3 DEF TypeOK
<1>6. \A d \in Calls \ {c} : call'[d] = call[d] /\ Written(d)' = Written(d)
  BY <1>1, <1>2 DEF TypeOK, Written
<1>7. ASSUME NEW d \in Calls \ {c} PROVE CallInv(d)'
  <2>1. CallInv(d) /\ call'[d] = call[d] /\ Written(d)' = Written(d)
        /\ Found(d)' = Found(d)
    BY <1>6 DEF IInv, Found
  <2>2. InputFits(d)' /\ WorkFits(d)' /\ AnswerFits(d)'
    BY <1>3, <1>4, <2>1 DEF CallInv, InputFits, WorkFits, AnswerFits, At
  <2>3. \A r \in Written(d) : r \in Rules /\ signals'[r] = signals[r]
    BY <1>3 DEF IInv, LocksAreExclusive, Written
  <2>4. WritesFit(d)'
    <3>1. ASSUME NEW r \in Written(d)
          PROVE  /\ Upserted(d, r)' = Upserted(d, r)
                 /\ Resolved(d, r)' = Resolved(d, r)
                 /\ Updated(d, r)' = Updated(d, r)
                 /\ Exists(r)' <=> Exists(r)
                 /\ r = call[d].rule => (VersionMatches(d)' <=> VersionMatches(d))
                 /\ Unresolved(signals'[r]) <=> Unresolved(signals[r])
      BY <2>1, <2>3 DEF Upserted, Resolved, Updated, Exists, VersionMatches
    <3>2. ASSUME NEW r \in Written(d)
          PROVE  \/ /\ call'[d].pc \in {"upsert", "resolve"}
                    /\ r \in Found(d)'
                    /\ call'[d].writes[r] = Upserted(d, r)'
                 \/ /\ At(d, "resolve")'
                    /\ r \notin Found(d)'
                    /\ Unresolved(signals'[r])
                    /\ call'[d].writes[r] = Resolved(d, r)'
                 \/ /\ At(d, "commit")'
                    /\ r = call'[d].rule
                    /\ Exists(r)'
                    /\ VersionMatches(d)'
                    /\ call'[d].writes[r] = Updated(d, r)'
      BY <2>1, <3>1 DEF CallInv, WritesFit, At
    <3>3. QED
      BY <2>1, <3>2 DEF WritesFit, Unresolved
  <2>5. StaleFits(d)'
    <3>1. SUFFICES ASSUME call[d].pc = "resolve", NEW r \in Rules,
                          call[d].open[r] # 0, r \notin Found(d)
                   PROVE  /\ Exists(r)'
                          /\ \/ /\ Unresolved(signals'[r])
                                /\ signals'[r].version >= call[d].open[r]
                             \/ signals'[r].version >= call[d].open[r] + 1
                          /\ \/ r \in call[d].todo
                             \/ r \in Written(d)
                             \/ /\ ~Unresolved(signals'[r])
                                /\ signals'[r].version >= call[d].open[r] + 1
                             \/ signals'[r].version >= call[d].open[r] + 2
      BY <2>1 DEF StaleFits, Passed, At, Unresolved
    <3>2. /\ Exists(r)
          /\ \/ Unresolved(signals[r]) /\ signals[r].version >= call[d].open[r]
             \/ signals[r].version >= call[d].open[r] + 1
          /\ r \in call[d].todo \/ r \in Written(d) \/ Passed(d, r)
      BY <2>1, <3>1 DEF CallInv, StaleFits, At
    <3>3. call[d].open[r] \in Nat /\ signals[r].version \in Nat /\ Exists(r)'
      BY <1>1, <1>4, <3>2 DEF TypeOK, Call, Signal, Exists
    <3>4. CASE r \notin Written(c)
      BY <1>3, <3>2, <3>3, <3>4 DEF Passed
    <3>5. CASE r \in Written(c)
      <4>1. signals'[r] # NoSignal /\ signals[r] # NoSignal
        BY <3>2, <3>3 DEF Exists
      <4>2. \/ /\ signals'[r].version = signals[r].version
               /\ signals'[r].status = signals[r].status
            \/ signals'[r].version = signals[r].version + 1
        BY <1>3, <3>2, <3>5 DEF Grown
      <4>3. QED
        BY <3>2, <3>3, <4>1, <4>2 DEF Passed, Unresolved
    <3>6. QED
      BY <3>4, <3>5
  <2>6. QED
    BY <2>2, <2>4, <2>5 DEF CallInv
<1>8. CallInv(c)'
  <2>1. Found(c)' = Found(c)
    BY <1>2 DEF Found
  <2>2. QED
    BY <1>1, <1>2, <2>1, Harmless
<1>9. LocksAreExclusive'
  BY <1>2, <1>6 DEF IInv, LocksAreExclusive
<1>10. SnapshotsHaveSignals'
  <2>1. ASSUME NEW i \in snapshots', NEW r \in RulesOf[i] PROVE Exists(r)'
    <3>1. CASE i \in snapshots
      <4>1. r \in Rules /\ Exists(r)
        BY <1>1, <2>1, <3>1, RulesOfAssumption DEF IInv, SnapshotsHaveSignals, TypeOK
      <4>2. QED
        BY <1>4, <4>1
    <3>2. CASE i \notin snapshots
      <4>1. i = call[c].input /\ call[c].pc = "resolve"
        BY <1>1, <1>3, <2>1, <3>2
      <4>2. r \in Written(c)
        BY <1>1, <2>1, <4>1 DEF Found
      <4>3. QED
        BY <1>3, <4>2 DEF Grown
    <3>3. QED
      BY <3>1, <3>2
  <2>2. QED
    BY <2>1 DEF SnapshotsHaveSignals, Exists
<1>11. SignalIsOfItsSnapshot'
  <2>1. ASSUME NEW r \in Rules, Exists(r)'
        PROVE  signals'[r].snapshot \in snapshots' /\ r \in RulesOf[signals'[r].snapshot]
    BY <1>3, <2>1 DEF Grown, IInv, SignalIsOfItsSnapshot, Exists
  <2>2. QED
    BY <2>1 DEF SignalIsOfItsSnapshot
<1>12. QED
  BY <1>5, <1>7, <1>8, <1>9, <1>10, <1>11 DEF IInv

-------------------------------------------------------------------------------
(* The invariant is inductive.                                             *)

\* The invariant holds before any call.
LEMMA InitInv == Init => IInv
<1> SUFFICES ASSUME Init PROVE IInv
  OBVIOUS
<1>1. ASSUME NEW c \in Calls
      PROVE  /\ call[c] \in Call /\ Written(c) = {}
             /\ call[c].pc = "idle"
  BY DEF Init, Idle, Call, NoWrites, Status, Written
<1>2. TypeOK
  BY <1>1 DEF Init, TypeOK
<1>3. \A c \in Calls : CallInv(c)
  BY <1>1 DEF CallInv, InputFits, WorkFits, WritesFit, StaleFits, AnswerFits, At
<1>4. LocksAreExclusive
  BY <1>1 DEF LocksAreExclusive
<1>5. SnapshotsHaveSignals /\ SignalIsOfItsSnapshot
  BY DEF Init, SnapshotsHaveSignals, SignalIsOfItsSnapshot, Exists
<1>6. QED
  BY <1>2, <1>3, <1>4, <1>5 DEF IInv

\* Every step keeps the invariant.
LEMMA NextStep == IInv /\ [Next]_vars => IInv'
<1> SUFFICES ASSUME IInv, [Next]_vars PROVE IInv'
  OBVIOUS
<1>1. CASE UNCHANGED vars
  <2>1. snapshots' = snapshots /\ signals' = signals /\ call' = call
    BY <1>1 DEF vars
  <2>2. TypeOK'
    BY <2>1 DEF IInv, TypeOK
  <2>3. ASSUME NEW c \in Calls PROVE CallInv(c)'
    <3>1. CallInv(c)
      BY DEF IInv
    <3>2. InputFits(c)' /\ WorkFits(c)' /\ AnswerFits(c)'
      BY <2>1, <3>1 DEF CallInv, InputFits, WorkFits, AnswerFits, At, Exists, Found,
                        Written
    <3>3. WritesFit(c)'
      BY <2>1, <3>1 DEF CallInv, WritesFit, At, Exists, Found, Written, Upserted,
                        Resolved, Updated, Unresolved, VersionMatches
    <3>4. StaleFits(c)'
      BY <2>1, <3>1 DEF CallInv, StaleFits, Passed, At, Exists, Found, Written,
                        Unresolved
    <3>5. QED
      BY <3>2, <3>3, <3>4 DEF CallInv
  <2>4. LocksAreExclusive' /\ SnapshotsHaveSignals' /\ SignalIsOfItsSnapshot'
    BY <2>1 DEF IInv, LocksAreExclusive, SnapshotsHaveSignals, SignalIsOfItsSnapshot,
                Written, Exists
  <2>5. QED
    BY <2>2, <2>3, <2>4 DEF IInv
<1>2. ASSUME NEW c \in Calls, NEW i \in Inputs, Analyze(c, i) PROVE IInv'
  BY <1>2, AnalyzeStep, QuietStep DEF IInv
<1>3. ASSUME NEW c \in Calls, CreateOrGet(c) PROVE IInv'
  BY <1>3, CreateOrGetStep, QuietStep DEF IInv
<1>4. ASSUME NEW c \in Calls, NEW r \in Rules, Upsert(c, r) PROVE IInv'
  BY <1>4, UpsertStep, QuietStep DEF IInv
<1>5. ASSUME NEW c \in Calls, SelectStale(c) PROVE IInv'
  BY <1>5, SelectStaleStep, QuietStep DEF IInv
<1>6. ASSUME NEW c \in Calls, NEW r \in Rules, ResolveStale(c, r) PROVE IInv'
  BY <1>6, ResolveStaleStep, QuietStep DEF IInv
<1>7. ASSUME NEW c \in Calls, List(c) PROVE IInv'
  BY <1>7, ListStep, QuietStep DEF IInv
<1>8. ASSUME NEW c \in Calls, NEW r \in Rules, NEW v \in 1..MaxVersion,
             NEW s \in Status, Update(c, r, v, s)
      PROVE  IInv'
  BY <1>8, UpdateStep, QuietStep DEF IInv
<1>9. ASSUME NEW c \in Calls, UpdateStatus(c) PROVE IInv'
  BY <1>9, UpdateStatusStep, QuietStep DEF IInv
<1>10. ASSUME NEW c \in Calls, Commit(c) PROVE IInv'
  BY <1>10, CommitStep
<1>11. ASSUME NEW c \in Calls, RollBack(c) PROVE IInv'
  BY <1>11, RollBackStep, QuietStep DEF IInv
<1>12. QED
  BY <1>1, <1>2, <1>3, <1>4, <1>5, <1>6, <1>7, <1>8, <1>9, <1>10, <1>11 DEF Next

\* THEOREM: the invariant above holds of every state that requests, users and
\* rollbacks reach.
THEOREM InvariantHolds == Spec => []IInv
<1>1. Init => IInv
  BY InitInv
<1>2. IInv /\ [Next]_vars => IInv'
  BY NextStep
<1>3. QED
  BY <1>1, <1>2, PTL DEF Spec

-------------------------------------------------------------------------------
(* Theorems.                                                               *)

\* THEOREM: calls, signals and snapshots have their types.
THEOREM TypeCorrect == Spec => []TypeOK
<1>1. IInv => TypeOK
  BY DEF IInv
<1>2. QED
  BY <1>1, InvariantHolds, PTL

\* THEOREM: analyzeRisks answers with a signal of every rule it found, also when
\* it replays the analysis of another request.
THEOREM AnswersAreComplete == Spec => []AnswerIsComplete
<1>1. IInv => AnswerIsComplete
  BY DEF IInv, CallInv, AnswerFits, AnswerIsComplete
<1>2. QED
  BY <1>1, InvariantHolds, PTL

\* THEOREM: the snapshot a signal names is stored and yields its rule.
THEOREM SignalsAreOfTheirSnapshots == Spec => []SignalIsOfItsSnapshot
<1>1. IInv => SignalIsOfItsSnapshot
  BY DEF IInv
<1>2. QED
  BY <1>1, InvariantHolds, PTL

\* Only a commit writes rows, and only a commit ends a transaction well.
LEMMA OnlyCommits ==
    ASSUME TypeOK, Next
    PROVE  /\ \A r \in Rules : signals'[r] # signals[r] => \E c \in Calls : Commit(c)
           /\ \A c \in Calls : Analyses(c) \/ Updates(c) => Commit(c)
<1>1. PICK d \in Calls :
        \/ Commit(d)
        \/ /\ signals' = signals
           /\ \E record : Do(d, record) /\ (record.pc # "done" \/ Free(d))
  <2>1. PICK d \in Calls :
          \/ \E i \in Inputs : Analyze(d, i)
          \/ CreateOrGet(d)
          \/ \E r \in Rules : Upsert(d, r)
          \/ SelectStale(d)
          \/ \E r \in Rules : ResolveStale(d, r)
          \/ List(d)
          \/ \E r \in Rules, v \in 1..MaxVersion, s \in Status : Update(d, r, v, s)
          \/ UpdateStatus(d)
          \/ Commit(d)
          \/ RollBack(d)
    BY DEF Next
  <2>2. call[d] \in Call
    BY DEF TypeOK
  <2>3. ASSUME NEW i \in Inputs, Analyze(d, i)
        PROVE  signals' = signals /\ \E record : Do(d, record) /\ Free(d)
    BY <2>3 DEF Analyze
  <2>4. ASSUME NEW r \in Rules, NEW v \in 1..MaxVersion, NEW s \in Status,
               Update(d, r, v, s)
        PROVE  signals' = signals /\ \E record : Do(d, record) /\ Free(d)
    BY <2>4 DEF Update
  <2>5. ASSUME CreateOrGet(d)
        PROVE  signals' = signals /\ \E record : Do(d, record) /\ record.pc # "done"
    <3>1. /\ [call[d] EXCEPT !.pc = "list"].pc # "done"
          /\ [call[d] EXCEPT !.pc = "upsert", !.todo = Found(d)].pc # "done"
      BY <2>2 DEF Call
    <3>2. QED
      BY <2>5, <3>1 DEF CreateOrGet
  <2>6. ASSUME NEW r, NEW row PROVE Put(d, r, row).pc = call[d].pc
    BY <2>2 DEF Put, Call
  <2>7. ASSUME NEW r \in Rules, Upsert(d, r)
        PROVE  signals' = signals /\ \E record : Do(d, record) /\ record.pc # "done"
    BY <2>6, <2>7 DEF Upsert, At
  <2>8. ASSUME SelectStale(d)
        PROVE  signals' = signals /\ \E record : Do(d, record) /\ record.pc # "done"
    <3>1. [call[d] EXCEPT !.pc = "resolve", !.todo = Stale(d), !.open = Versions].pc
            # "done"
      BY <2>2 DEF Call
    <3>2. QED
      BY <2>8, <3>1 DEF SelectStale
  <2>9. ASSUME NEW r \in Rules, ResolveStale(d, r)
        PROVE  signals' = signals /\ \E record : Do(d, record) /\ record.pc # "done"
    <3>1. [call[d] EXCEPT !.todo = @ \ {r}].pc = call[d].pc
      BY <2>2 DEF Call
    <3>2. QED
      BY <2>6, <2>9, <3>1 DEF ResolveStale, At
  <2>10. ASSUME NEW pc, NEW result PROVE End(d, pc, result).pc = pc
    BY DEF End, Idle
  <2>11. ASSUME List(d) \/ RollBack(d)
         PROVE  signals' = signals /\ \E record : Do(d, record) /\ record.pc # "done"
    BY <2>10, <2>11 DEF List, RollBack
  <2>12. ASSUME UpdateStatus(d)
         PROVE  signals' = signals /\ \E record : Do(d, record) /\ record.pc # "done"
    <3>1. [Put(d, call[d].rule, Updated(d, call[d].rule)) EXCEPT !.pc = "commit"].pc
            # "done"
      BY <2>2 DEF Put, Call
    <3>2. QED
      BY <2>10, <2>12, <3>1 DEF UpdateStatus
  <2>13. QED
    BY <2>1, <2>3, <2>4, <2>5, <2>7, <2>8, <2>9, <2>11, <2>12
<1>2. \A r \in Rules : signals'[r] # signals[r] => \E c \in Calls : Commit(c)
  BY <1>1
<1>3. ASSUME NEW c \in Calls, Analyses(c) \/ Updates(c) PROVE Commit(c)
  <2>1. call[c].pc \in {"resolve", "commit"} /\ call'[c].pc = "done" /\ ~Free(c)
    BY <1>3 DEF Analyses, Updates, At, Free
  <2>2. SUFFICES ASSUME NEW record, Do(d, record), record.pc # "done" \/ Free(d)
                 PROVE  FALSE
    <3>1. CASE Commit(d) /\ d # c
      BY <2>1, <3>1 DEF Commit, Do, TypeOK
    <3>2. QED
      BY <1>1, <3>1
  <2>3. /\ call'[d] = record
        /\ \A e \in Calls \ {d} : call'[e] = call[e]
    BY <2>2 DEF Do, TypeOK
  <2>4. QED
    BY <2>1, <2>2, <2>3
<1>4. QED
  BY <1>2, <1>3

\* THEOREM: no analysis reopens a resolved signal, only a user does.
THEOREM OnlyUsersReopenSignals == Spec => OnlyUsersReopen
<1> DEFINE Reopens ==
        \A r \in Rules :
            Exists(r) /\ ~Unresolved(signals[r]) /\ Unresolved(signals'[r])
                => \E c \in Calls : Updates(c) /\ call[c].rule = r
<1>1. ASSUME IInv, Next PROVE Reopens
  <2>1. SUFFICES ASSUME NEW r \in Rules, Exists(r), ~Unresolved(signals[r]),
                        Unresolved(signals'[r])
                 PROVE  \E c \in Calls : Updates(c) /\ call[c].rule = r
    OBVIOUS
  <2>2. PICK c \in Calls : Commit(c)
    BY <1>1, <2>1, OnlyCommits DEF IInv
  <2>3. r \in Written(c) /\ signals'[r] = call[c].writes[r]
    BY <1>1, <2>1, <2>2, CommitWrites
  <2>4. CASE At(c, "resolve")
    <3>1. signals'[r] = Upserted(c, r) /\ signals[r] \in Signal
      BY <1>1, <2>1, <2>3, <2>4 DEF IInv, TypeOK, CallInv, WritesFit, At, Exists
    <3>2. signals'[r].status = signals[r].status
      BY <2>1, <3>1 DEF Upserted, Signal
    <3>3. QED
      BY <2>1, <3>2 DEF Unresolved, Exists
  <2>5. CASE At(c, "commit")
    <3>1. call[c].rule = r
      BY <1>1, <2>3, <2>5 DEF IInv, CallInv, WritesFit, At
    <3>2. Do(c, End(c, "done", {call[c].rule}))
      BY <2>2, <2>5 DEF Commit
    <3>3. call'[c].pc = "done"
      BY <1>1, <2>1, <3>1, <3>2, Ending DEF IInv
    <3>4. QED
      BY <2>5, <3>1, <3>3 DEF Updates
  <2>6. QED
    BY <2>2, <2>4, <2>5 DEF Commit
<1>2. IInv /\ [Next]_vars => [Reopens]_vars
  BY <1>1
<1>3. QED
  BY <1>2, InvariantHolds, PTL DEF Spec, OnlyUsersReopen

\* THEOREM: an update of a user commits over the version it named: nobody changed
\* the signal between its UPDATE and its COMMIT.
THEOREM UpdatesAreNotLost == Spec => NoLostUpdate
<1> DEFINE Replaces ==
        \A c \in Calls :
            Updates(c) => signals[call[c].rule].version = call[c].expected
<1>1. IInv => Replaces
  BY DEF IInv, CallInv, WorkFits, WritesFit, Updates, At, VersionMatches
<1>2. IInv /\ [Next]_vars => [Replaces]_vars
  BY <1>1
<1>3. QED
  BY <1>2, InvariantHolds, PTL DEF Spec, NoLostUpdate

\* THEOREM: a committed analysis leaves no signal unresolved that it saw and did
\* not find, unless that was resolved and reopened meanwhile.
THEOREM StaleSignalsAreResolved == Spec => StaleIsResolved
<1> DEFINE Resolves ==
        \A c \in Calls : \A r \in Rules :
            Analyses(c) /\ call[c].open[r] # 0 /\ r \notin Found(c)
                        /\ Unresolved(signals'[r])
                => signals'[r].version >= call[c].open[r] + 2
<1>1. ASSUME IInv, Next PROVE Resolves
  <2>1. SUFFICES ASSUME NEW c \in Calls, NEW r \in Rules, Analyses(c),
                        call[c].open[r] # 0, r \notin Found(c), Unresolved(signals'[r])
                 PROVE  signals'[r].version >= call[c].open[r] + 2
    OBVIOUS
  <2>2. Commit(c) /\ At(c, "resolve") /\ call[c].todo = {}
    BY <1>1, <2>1, OnlyCommits DEF IInv, Analyses, Commit, At
  <2>3. Exists(r) /\ (r \in Written(c) \/ Passed(c, r))
    BY <1>1, <2>1, <2>2 DEF IInv, CallInv, StaleFits
  <2>4. CASE r \in Written(c)
    <3>1. signals'[r] = Resolved(c, r) /\ signals[r] \in Signal
      BY <1>1, <2>1, <2>2, <2>3, <2>4, CommitWrites
         DEF IInv, TypeOK, CallInv, WritesFit, At, Exists
    <3>2. signals'[r].status = "resolved"
      BY <3>1 DEF Resolved, Signal
    <3>3. QED
      BY <2>1, <3>2 DEF Unresolved
  <2>5. CASE r \notin Written(c)
    <3>1. signals'[r] = signals[r]
      BY <1>1, <2>2, <2>5, CommitWrites
    <3>2. QED
      BY <2>1, <2>3, <2>5, <3>1 DEF Passed, Unresolved
  <2>6. QED
    BY <2>4, <2>5
<1>2. IInv /\ [Next]_vars => [Resolves]_vars
  BY <1>1 DEF Resolves, Found, Analyses, Unresolved, vars
<1>3. QED
  BY <1>2, InvariantHolds, PTL DEF Spec, StaleIsResolved

-------------------------------------------------------------------------------
(* Sums of finite sets, without induction over them: a smallest set that   *)
(* breaks a claim is not there.                                            *)

\* A set of numbers that is not empty has a least one.
LEMMA LeastElement ==
    ASSUME NEW N \in SUBSET Nat, N # {}
    PROVE  \E n \in N : \A m \in N : n <= m
  <1>1. PICK n \in N : \A m \in N : <<m, n>> \notin OpToRel(<, Nat)
    BY WFMin, NatLessThanWellFounded
  <1>2. \A m \in N : <<m, n>> \notin {ss \in Nat \X Nat : ss[1] < ss[2]}
    BY <1>1, Zenon DEF OpToRel
  <1>3. ASSUME NEW m \in N
        PROVE  n <= m
    <2>1. <<m, n>> \in Nat \X Nat /\ <<m, n>>[1] = m /\ <<m, n>>[2] = n
      OBVIOUS
    <2>2. ~(m < n)
      BY <1>2, <2>1
    <2> QED
      BY <2>2
  <1> QED
    BY <1>3

\* Sets that are finite have a smallest one: none of its strict subsets is there.
LEMMA SmallestSet ==
    ASSUME NEW C, C # {}, \A s \in C : IsFiniteSet(s)
    PROVE  \E s \in C : \A r \in SUBSET s : r # s => r \notin C
  <1> DEFINE N == {Cardinality(s) : s \in C}
  <1>1. N \in SUBSET Nat /\ N # {}
    BY FS_CardinalityType
  <1>2. PICK n \in N : \A m \in N : n <= m
    BY <1>1, LeastElement
  <1>3. PICK s \in C : \A r \in C : Cardinality(s) <= Cardinality(r)
    BY <1>2
  <1>4. ASSUME NEW r \in SUBSET s, r # s
        PROVE  Cardinality(r) < Cardinality(s)
    BY <1>4, FS_Subset, FS_CardinalityType
  <1>5. ASSUME NEW r \in SUBSET s, r # s, r \in C
        PROVE  FALSE
    BY <1>3, <1>4, <1>5, FS_CardinalityType
  <1> QED
    BY <1>5

\* The function that adds val over the subsets of S, one chosen element at a time.
SumEq(val, S, f) ==
    f = [s \in SUBSET S |->
            IF s = {} THEN 0
            ELSE LET x == CHOOSE x \in s : TRUE IN val[x] + f[s \ {x}]]

SumFcn(val, S) == CHOOSE f : SumEq(val, S, f)
SumOf(val, S) == SumFcn(val, S)[S]

\* The function at one subset.
LEMMA SumStep ==
    ASSUME NEW val, NEW S, NEW f, SumEq(val, S, f), NEW s \in SUBSET S
    PROVE  f[s] = IF s = {} THEN 0
                  ELSE val[CHOOSE x \in s : TRUE] + f[s \ {CHOOSE x \in s : TRUE}]
  BY DEF SumEq

\* The sums of a set are the same in any set around it.
LEMMA SumsAgree ==
    ASSUME NEW val, NEW S, NEW T, IsFiniteSet(S),
           NEW f, SumEq(val, S, f), NEW g, SumEq(val, T, g)
    PROVE  \A s \in SUBSET (S \cap T) : f[s] = g[s]
  <1> DEFINE C == {s \in SUBSET (S \cap T) : f[s] # g[s]}
  <1> SUFFICES ASSUME C # {} PROVE FALSE
    OBVIOUS
  <1>1. \A s \in C : IsFiniteSet(s)
    BY FS_Subset
  <1>2. PICK s \in C : \A r \in SUBSET s : r # s => r \notin C
    BY <1>1, SmallestSet
  <1> DEFINE x == CHOOSE x \in s : TRUE
  <1>3. /\ s \in SUBSET S /\ s \in SUBSET T
        /\ f[s] # g[s]
    OBVIOUS
  <1>4. s # {} /\ x \in s
    <2>1. s = {} => f[s] = 0 /\ g[s] = 0
      BY <1>3, SumStep
    <2> QED
      BY <1>3, <2>1
  <1>5. f[s] = val[x] + f[s \ {x}] /\ g[s] = val[x] + g[s \ {x}]
    BY <1>3, <1>4, SumStep
  <1>6. s \ {x} \in SUBSET s /\ s \ {x} # s
    BY <1>4
  <1>7. s \ {x} \notin C
    BY <1>2, <1>6
  <1> QED
    BY <1>3, <1>5, <1>7

\* A finite set has a sum: the recursion is well founded.
LEMMA SumExists ==
    ASSUME NEW val, NEW S, IsFiniteSet(S)
    PROVE  SumEq(val, S, SumFcn(val, S))
  <1> DEFINE C == {s \in SUBSET S : ~\E f : SumEq(val, s, f)}
  <1>1. \A s \in SUBSET S : IsFiniteSet(s)
    BY FS_Subset
  <1>2. ASSUME NEW s \in C, \A r \in SUBSET s : r # s => r \notin C
        PROVE  FALSE
    <2>1. ASSUME NEW r \in SUBSET s, r # s
          PROVE  SumEq(val, r, SumFcn(val, r))
      BY <1>2, <2>1 DEF SumFcn
    <2> DEFINE f == [r \in SUBSET s |->
                        IF r = {} THEN 0
                        ELSE val[CHOOSE x \in r : TRUE]
                               + SumOf(val, r \ {CHOOSE x \in r : TRUE})]
    <2>2. ASSUME NEW r \in SUBSET s, r # {}
          PROVE  f[r \ {CHOOSE x \in r : TRUE}] = SumOf(val, r \ {CHOOSE x \in r : TRUE})
      <3> DEFINE q == r \ {CHOOSE x \in r : TRUE}
                 p == q \ {CHOOSE x \in q : TRUE}
      <3> HIDE DEF f
      <3>1. q \in SUBSET s /\ q # s /\ p \in SUBSET s /\ p \in SUBSET q /\ p # s
        BY <2>2
      <3>2. SumEq(val, q, SumFcn(val, q)) /\ SumEq(val, p, SumFcn(val, p))
        BY <2>1, <3>1
      <3>3. SumFcn(val, q)[p] = SumFcn(val, p)[p]
        <4>1. IsFiniteSet(q) /\ p \in SUBSET (q \cap p)
          BY <1>1, <3>1
        <4> QED
          BY <4>1, <3>2, SumsAgree
      <3>4. SumOf(val, q) = IF q = {} THEN 0
                            ELSE val[CHOOSE x \in q : TRUE] + SumFcn(val, q)[p]
        <4>1. q \in SUBSET q
          OBVIOUS
        <4> QED
          BY <4>1, <3>2, SumStep DEF SumOf
      <3>5. f[q] = IF q = {} THEN 0
                   ELSE val[CHOOSE x \in q : TRUE] + SumOf(val, p)
        BY <3>1 DEF f
      <3> QED
        BY <3>3, <3>4, <3>5 DEF SumOf
    <2>3. f = [r \in SUBSET s |->
                 IF r = {} THEN 0
                 ELSE LET x == CHOOSE x \in r : TRUE IN val[x] + f[r \ {x}]]
      <3> DEFINE g == [r \in SUBSET s |->
                         IF r = {} THEN 0
                         ELSE val[CHOOSE x \in r : TRUE] + f[r \ {CHOOSE x \in r : TRUE}]]
      <3>1. ASSUME NEW r \in SUBSET s
            PROVE  f[r] = g[r]
        <4>1. CASE r = {}
          BY <4>1
        <4>2. CASE r # {}
          <5> DEFINE x == CHOOSE x \in r : TRUE
          <5>1. f[r] = val[x] + SumOf(val, r \ {x})
            BY <4>2
          <5>2. g[r] = val[x] + f[r \ {x}]
            BY <4>2
          <5>3. f[r \ {x}] = SumOf(val, r \ {x})
            BY <2>2, <4>2
          <5> HIDE DEF f, g, x
          <5> QED
            BY <5>1, <5>2, <5>3
        <4> QED
          BY <4>1, <4>2
      <3>2. f = g
        <4> HIDE DEF f
        <4>1. f = [r \in SUBSET s |-> f[r]]
          BY DEF f
        <4>2. g = [r \in SUBSET s |-> g[r]]
          OBVIOUS
        <4> HIDE DEF g
        <4> QED
          BY <3>1, <4>1, <4>2
      <3> QED
        BY <3>2
    <2> QED
      BY <2>3 DEF SumEq
  <1>3. C = {}
    <2> SUFFICES ASSUME C # {} PROVE FALSE
      OBVIOUS
    <2>1. \A s \in C : IsFiniteSet(s)
      BY <1>1
    <2>2. PICK s \in C : \A r \in SUBSET s : r # s => r \notin C
      BY <2>1, SmallestSet
    <2> QED
      BY <1>2, <2>2
  <1> QED
    BY <1>3 DEF SumFcn

\* The sum over a subset is read off the function of the whole set.
LEMMA SumOfSubset ==
    ASSUME NEW val, NEW S, IsFiniteSet(S), NEW s \in SUBSET S
    PROVE  SumFcn(val, S)[s] = SumOf(val, s)
  BY FS_Subset, SumExists, SumsAgree DEF SumOf

\* A sum is one of its values and the sum of the rest.
LEMMA SumChosen ==
    ASSUME NEW val, NEW S, IsFiniteSet(S), S # {}
    PROVE  \E x \in S : SumOf(val, S) = val[x] + SumOf(val, S \ {x})
  <1>1. SumOf(val, S) = val[CHOOSE x \in S : TRUE]
                         + SumFcn(val, S)[S \ {CHOOSE x \in S : TRUE}]
    BY SumExists, SumStep DEF SumOf
  <1> QED
    BY <1>1, SumOfSubset

\* The sum of nothing is 0.
LEMMA SumOfNone ==
    ASSUME NEW val
    PROVE  SumOf(val, {}) = 0
  BY FS_EmptySet, SumExists, SumStep DEF SumOf

\* A finite sum of integers is an integer.
LEMMA SumType ==
    ASSUME NEW val, NEW S, IsFiniteSet(S), \A x \in S : val[x] \in Int
    PROVE  SumOf(val, S) \in Int
  <1> DEFINE C == {s \in SUBSET S : SumOf(val, s) \notin Int}
  <1> SUFFICES ASSUME C # {} PROVE FALSE
    OBVIOUS
  <1>1. \A s \in C : IsFiniteSet(s)
    BY FS_Subset
  <1>2. PICK s \in C : \A r \in SUBSET s : r # s => r \notin C
    BY <1>1, SmallestSet
  <1>3. s # {}
    BY SumOfNone
  <1>4. PICK x \in s : SumOf(val, s) = val[x] + SumOf(val, s \ {x})
    BY <1>1, <1>3, SumChosen
  <1>5. SumOf(val, s \ {x}) \in Int
    BY <1>2
  <1> QED
    BY <1>4, <1>5

\* The order in which a sum is taken does not matter.
LEMMA SumRemoves ==
    ASSUME NEW val, NEW S, IsFiniteSet(S), \A x \in S : val[x] \in Int, NEW y \in S
    PROVE  SumOf(val, S) = val[y] + SumOf(val, S \ {y})
  <1> DEFINE bad(s) == \E z \in s : SumOf(val, s) # val[z] + SumOf(val, s \ {z})
             C == {s \in SUBSET S : bad(s)}
  <1> SUFFICES ASSUME C # {} PROVE FALSE
    OBVIOUS
  <1>1. \A s \in SUBSET S : IsFiniteSet(s)
    BY FS_Subset
  <1>2. PICK s \in C : \A r \in SUBSET s : r # s => r \notin C
    BY <1>1, SmallestSet
  <1>3. PICK z \in s : SumOf(val, s) # val[z] + SumOf(val, s \ {z})
    OBVIOUS
  <1>4. PICK x \in s : SumOf(val, s) = val[x] + SumOf(val, s \ {x})
    BY <1>1, SumChosen
  <1>5. ASSUME NEW w \in s, NEW v \in s \ {w}
        PROVE  SumOf(val, s \ {w}) = val[v] + SumOf(val, (s \ {w}) \ {v})
    <2>1. s \ {w} \in SUBSET s /\ s \ {w} # s /\ s \ {w} \in SUBSET S
      OBVIOUS
    <2>2. ~bad(s \ {w})
      BY <1>2, <2>1
    <2> QED
      BY <2>2
  <1>6. x # z
    BY <1>3, <1>4
  <1>7. /\ SumOf(val, s \ {x}) = val[z] + SumOf(val, (s \ {x}) \ {z})
        /\ SumOf(val, s \ {z}) = val[x] + SumOf(val, (s \ {z}) \ {x})
    BY <1>5, <1>6
  <1>8. (s \ {x}) \ {z} = (s \ {z}) \ {x}
    OBVIOUS
  <1>9. SumOf(val, (s \ {x}) \ {z}) \in Int /\ val[x] \in Int /\ val[z] \in Int
    BY <1>1, SumType
  <1> QED
    BY <1>3, <1>4, <1>7, <1>8, <1>9

\* A sum of positive numbers grows with its set.
LEMMA SumGrows ==
    ASSUME NEW val, NEW T, IsFiniteSet(T), \A x \in T : val[x] \in Nat \ {0},
           NEW S \in SUBSET T
    PROVE  /\ SumOf(val, S) \in Nat
           /\ SumOf(val, S) <= SumOf(val, T)
           /\ SumOf(val, S) = SumOf(val, T) => S = T
  <1>1. \A s \in SUBSET T : IsFiniteSet(s) /\ SumOf(val, s) \in Int
    BY FS_Subset, SumType
  <1> DEFINE C == {s \in SUBSET T : S \subseteq s /\ S # s /\ SumOf(val, S) >= SumOf(val, s)}
  <1>2. C = {}
    <2> SUFFICES ASSUME C # {} PROVE FALSE
      OBVIOUS
    <2>1. PICK s \in C : \A r \in SUBSET s : r # s => r \notin C
      BY <1>1, SmallestSet
    <2>2. PICK y \in s : y \notin S
      OBVIOUS
    <2>3. SumOf(val, s) = val[y] + SumOf(val, s \ {y})
      BY <1>1, SumRemoves
    <2>4. s \ {y} \notin C /\ s \ {y} \in SUBSET T /\ S \subseteq s \ {y}
      BY <2>1, <2>2
    <2>5. SumOf(val, S) <= SumOf(val, s \ {y})
      BY <1>1, <2>4
    <2> QED
      BY <1>1, <2>3, <2>4, <2>5
  <1> DEFINE D == {s \in SUBSET T : SumOf(val, s) \notin Nat}
  <1>3. D = {}
    <2> SUFFICES ASSUME D # {} PROVE FALSE
      OBVIOUS
    <2>1. PICK s \in D : \A r \in SUBSET s : r # s => r \notin D
      BY <1>1, SmallestSet
    <2>2. PICK y \in s : TRUE
      BY SumOfNone
    <2>3. SumOf(val, s) = val[y] + SumOf(val, s \ {y})
      BY <1>1, SumRemoves
    <2>4. s \ {y} \notin D /\ s \ {y} \in SUBSET T
      BY <2>1, <2>2
    <2> QED
      BY <2>3, <2>4
  <1> QED
    BY <1>1, <1>2, <1>3

-------------------------------------------------------------------------------
(* Ranks in a finite linear order.                                         *)

\* R is a strict linear order on S.
OrderedBy(R, S) ==
    /\ \A x \in S : <<x, x>> \notin R
    /\ \A x, y \in S : x # y => <<x, y>> \in R \/ <<y, x>> \in R
    /\ \A x, y, z \in S : <<x, y>> \in R /\ <<y, z>> \in R => <<x, z>> \in R

\* The rank of x counts what is below it, as Sorted does.
Below(R, S, x) == {y \in S : <<y, x>> \in R}
Rank(R, S, x) == Cardinality(Below(R, S, x))

\* Ranks run from 0.
LEMMA RankType ==
    ASSUME NEW R, NEW S, IsFiniteSet(S), OrderedBy(R, S), NEW x \in S
    PROVE  Rank(R, S, x) \in 0..(Cardinality(S) - 1) /\ Cardinality(S) \in Nat
  <1>1. Below(R, S, x) \in SUBSET (S \ {x})
    BY DEF Below, OrderedBy
  <1>2. IsFiniteSet(S \ {x}) /\ Cardinality(S \ {x}) = Cardinality(S) - 1
    BY FS_RemoveElement
  <1>3. IsFiniteSet(Below(R, S, x)) /\ Rank(R, S, x) <= Cardinality(S) - 1
    BY <1>1, <1>2, FS_Subset DEF Rank
  <1> QED
    BY <1>3, FS_CardinalityType DEF Rank

\* What is below another has a lower rank.
LEMMA RankGrows ==
    ASSUME NEW R, NEW S, IsFiniteSet(S), OrderedBy(R, S), NEW x \in S, NEW y \in S,
           <<x, y>> \in R
    PROVE  Rank(R, S, x) < Rank(R, S, y)
  <1>1. /\ Below(R, S, x) \in SUBSET Below(R, S, y)
        /\ x \in Below(R, S, y) /\ x \notin Below(R, S, x)
    BY DEF Below, OrderedBy
  <1>2. IsFiniteSet(Below(R, S, y))
    BY FS_Subset DEF Below
  <1>3. Rank(R, S, x) <= Rank(R, S, y) /\ Rank(R, S, x) # Rank(R, S, y)
    BY <1>1, <1>2, FS_Subset DEF Rank
  <1> QED
    BY <1>3, RankType

\* Ranks order as R does.
LEMMA RankOrders ==
    ASSUME NEW R, NEW S, IsFiniteSet(S), OrderedBy(R, S), NEW x \in S, NEW y \in S
    PROVE  /\ <<x, y>> \in R <=> Rank(R, S, x) < Rank(R, S, y)
           /\ x = y <=> Rank(R, S, x) = Rank(R, S, y)
  <1>1. x # y => <<x, y>> \in R \/ <<y, x>> \in R
    BY DEF OrderedBy
  <1>2. Rank(R, S, x) \in Int /\ Rank(R, S, y) \in Int
    BY RankType
  <1>3. <<x, y>> \in R => Rank(R, S, x) < Rank(R, S, y)
    BY RankGrows
  <1>4. <<y, x>> \in R => Rank(R, S, y) < Rank(R, S, x)
    BY RankGrows
  <1> QED
    BY <1>1, <1>2, <1>3, <1>4

\* Every place is taken.
LEMMA RankIsTaken ==
    ASSUME NEW R, NEW S, IsFiniteSet(S), OrderedBy(R, S), NEW i \in 1..Cardinality(S)
    PROVE  \E x \in S : Rank(R, S, x) = i - 1
  <1> DEFINE n == Cardinality(S)
             f == [x \in S |-> Rank(R, S, x) + 1]
  <1>1. n \in Nat
    BY FS_CardinalityType
  <1>2. IsFiniteSet(1..n) /\ Cardinality(1..n) = n
    BY <1>1, FS_Interval
  <1>3. f \in [S -> 1..n]
    BY <1>1, RankType
  <1>4. ASSUME NEW x \in S, NEW y \in S, f[x] = f[y]
        PROVE  x = y
    <2>1. Rank(R, S, x) \in Int /\ Rank(R, S, y) \in Int
      BY RankType
    <2>2. Rank(R, S, x) = Rank(R, S, y)
      BY <1>4, <2>1
    <2> QED
      BY <2>2, RankOrders
  <1>5. f \in Injection(S, 1..n)
    BY <1>3, <1>4 DEF Injection, IsInjective
  <1>6. f \in Surjection(S, 1..n)
    BY <1>2, <1>5, FS_Injection
  <1>7. \E x \in S : f[x] = i
    BY <1>6 DEF Surjection
  <1> QED
    BY <1>7, RankType

\* f lists S in the order R.
Lists(f, R, S) ==
    /\ f \in [1..Cardinality(S) -> S]
    /\ \A i \in 1..Cardinality(S) : Rank(R, S, f[i]) = i - 1

\* A listing holds each element once, and in order.
LEMMA Listed ==
    ASSUME NEW R, NEW S, IsFiniteSet(S), OrderedBy(R, S), NEW f, Lists(f, R, S)
    PROVE  /\ Cardinality(S) \in Nat
           /\ Len(f) = Cardinality(S)
           /\ \A i, j \in 1..Cardinality(S) : <<f[i], f[j]>> \in R <=> i < j
           /\ \A i, j \in 1..Cardinality(S) : f[i] = f[j] => i = j
           /\ \A x \in S : \E i \in 1..Cardinality(S) : f[i] = x
  <1> DEFINE n == Cardinality(S)
  <1>1. n \in Nat
    BY FS_CardinalityType
  <1>2. f \in [1..n -> S] /\ \A i \in 1..n : Rank(R, S, f[i]) = i - 1
    BY DEF Lists
  <1>3. Len(f) = n
    BY <1>1, <1>2
  <1>4. ASSUME NEW i \in 1..n, NEW j \in 1..n
        PROVE  /\ <<f[i], f[j]>> \in R <=> i < j
               /\ f[i] = f[j] => i = j
    BY <1>1, <1>2, RankOrders
  <1>5. ASSUME NEW x \in S
        PROVE  \E i \in 1..n : f[i] = x
    <2> DEFINE i == Rank(R, S, x) + 1
    <2>1. Rank(R, S, x) \in 0..(n - 1)
      BY RankType
    <2>2. i \in 1..n /\ i - 1 = Rank(R, S, x)
      BY <1>1, <2>1
    <2> HIDE DEF i
    <2>3. f[i] \in S /\ Rank(R, S, f[i]) = Rank(R, S, x)
      BY <1>2, <2>2
    <2>4. f[i] = x
      BY <2>3, RankOrders
    <2> QED
      BY <2>2, <2>4
  <1> QED
    BY <1>1, <1>3, <1>4, <1>5

-------------------------------------------------------------------------------
(* Analyses of one range at different times, and the rules about budgets.  *)

Amount == [p \in Payments |-> p.amount]

\* Spent, a fold of the community modules, is such a sum.
LEMMA SpentIsSum ==
    ASSUME NEW ps \in SUBSET Payments
    PROVE  Spent(ps) = SumOf(Amount, ps)
  <1> DEFINE P(f) == f = [s \in SUBSET ps |->
                             IF s = {} THEN 0
                             ELSE LET x == CHOOSE x \in s : TRUE
                                  IN  x.amount + f[s \ {x}]]
  <1>1. Spent(ps) = (CHOOSE f : P(f))[ps]
    BY DEF Spent, MapThenSumSet, MapThenFoldSet
  <1>2. IsFiniteSet(ps)
    BY FactsAssumption, FS_Subset
  <1>3. ASSUME NEW f
        PROVE  [s \in SUBSET ps |->
                   IF s = {} THEN 0
                   ELSE LET x == CHOOSE x \in s : TRUE IN x.amount + f[s \ {x}]]
               = [s \in SUBSET ps |->
                   IF s = {} THEN 0
                   ELSE LET x == CHOOSE x \in s : TRUE IN Amount[x] + f[s \ {x}]]
    BY DEF Amount
  <1>4. \A f : P(f) <=> SumEq(Amount, ps, f)
    BY <1>3 DEF SumEq
  <1> HIDE DEF P
  <1>5. P(SumFcn(Amount, ps))
    BY <1>2, <1>4, SumExists
  <1>6. P(CHOOSE f : P(f))
    BY <1>5
  <1> DEFINE g == CHOOSE f : P(f)
  <1>7. SumEq(Amount, ps, g) /\ SumEq(Amount, ps, SumFcn(Amount, ps))
    BY <1>2, <1>4, <1>6, SumExists
  <1>8. g[ps] = SumFcn(Amount, ps)[ps]
    <2> HIDE DEF g
    <2> QED
      BY <1>2, <1>7, SumsAgree
  <1> QED
    BY <1>1, <1>8 DEF SumOf

\* Amounts are positive: sets that spend the same are the same, when one contains the other.
LEMMA SpentGrows ==
    ASSUME NEW qs \in SUBSET Payments, NEW ps \in SUBSET qs
    PROVE  /\ Spent(ps) \in Nat /\ Spent(qs) \in Nat
           /\ Spent(ps) <= Spent(qs)
           /\ Spent(ps) = Spent(qs) => ps = qs
  <1>1. /\ IsFiniteSet(qs) /\ ps \in SUBSET Payments
        /\ \A p \in qs : Amount[p] \in Nat \ {0}
    BY FactsAssumption, FS_Subset DEF Amount
  <1>2. SumOf(Amount, qs) \in Nat
    BY <1>1, SumGrows
  <1> QED
    BY <1>1, <1>2, SpentIsSum, SumGrows

\* Payments are known by their ids.
LEMMA IdsAreUnique ==
    ASSUME NEW ps \in SUBSET Payments, NEW qs \in SUBSET Payments, Ids(ps) = Ids(qs)
    PROVE  ps = qs
  <1>1. ASSUME NEW rs \in SUBSET Payments, NEW os \in SUBSET Payments,
               Ids(rs) = Ids(os), NEW p \in rs
        PROVE  p \in os
    <2>1. p.id \in Ids(os)
      BY <1>1 DEF Ids
    <2>2. PICK q \in os : q.id = p.id
      BY <2>1 DEF Ids
    <2>3. p \in Payments /\ q \in Payments
      OBVIOUS
    <2> QED
      BY <2>2, <2>3, FactsAssumption
  <1> QED
    BY <1>1

\* What an analysis may read, and when it reads it before another: payments only
\* arrive, rows are only revised, and each revision is a version of its own.
Snapshot(s) ==
    /\ s.payments \in SUBSET Payments
    /\ s.budgets \in [BudgetIds -> StoredBudget]
    /\ \A b \in BudgetIds : s.budgets[b].id = b
    /\ s.policies \in [Providers -> Policy \cup {None}]

Before(s, t) ==
    /\ s.payments \subseteq t.payments
    /\ \A b \in BudgetIds :
          /\ s.budgets[b].version <= t.budgets[b].version
          /\ s.budgets[b].version = t.budgets[b].version => s.budgets[b] = t.budgets[b]
    /\ \A k \in Providers :
          s.policies[k] # None =>
              /\ t.policies[k] # None
              /\ s.policies[k].version <= t.policies[k].version
              /\ s.policies[k].version = t.policies[k].version
                    => s.policies[k] = t.policies[k]

\* The ids an analysis finds.
RowsOf(s) == {s.budgets[b] : b \in BudgetIds}
IdsIn(rules) == {rule.id : rule \in rules}
FoundAt(s) == IdsIn(EvaluatePersistentRisks(s.payments, RowsOf(s), s.policies))

\* An id that is found before and after is found between.
InBetween(s, t, u) ==
    Snapshot(s) /\ Snapshot(t) /\ Snapshot(u) /\ Before(s, t) /\ Before(t, u)

\* A row that has the same version before and after is the same between.
LEMMA RowIsBetween ==
    ASSUME NEW s, NEW t, NEW u, InBetween(s, t, u), NEW b \in BudgetIds,
           s.budgets[b].version = u.budgets[b].version
    PROVE  s.budgets[b] = t.budgets[b] /\ t.budgets[b] = u.budgets[b]
  <1>1. /\ s.budgets[b].version \in Nat /\ t.budgets[b].version \in Nat
        /\ u.budgets[b].version \in Nat
    BY DEF InBetween, Snapshot, StoredBudget
  <1>2. s.budgets[b].version <= t.budgets[b].version
        /\ t.budgets[b].version <= u.budgets[b].version
    BY DEF InBetween, Before
  <1>3. s.budgets[b].version = t.budgets[b].version
        /\ t.budgets[b].version = u.budgets[b].version
    BY <1>1, <1>2
  <1> QED
    BY <1>3 DEF InBetween, Before

\* A budget rule depends on the payments that match.
LEMMA MatchingDecides ==
    ASSUME NEW ps, NEW qs, NEW b, Matching(ps, b) = Matching(qs, b)
    PROVE  /\ BudgetFacts(ps, b) = BudgetFacts(qs, b)
           /\ Warned(ps, b) = Warned(qs, b)
           /\ Projected(ps, b) = Projected(qs, b)
           /\ Overruns(ps, b) = Overruns(qs, b)
  BY Zenon DEF BudgetFacts, Warned, Projected, Overruns, Elapsed

\* What matches early and late is what matches between.
LEMMA MatchingIsBetween ==
    ASSUME NEW s, NEW t, NEW u, InBetween(s, t, u), NEW b,
           Ids(Matching(s.payments, b)) = Ids(Matching(u.payments, b))
    PROVE  /\ Matching(s.payments, b) = Matching(u.payments, b)
           /\ Matching(t.payments, b) = Matching(u.payments, b)
  <1>1. Matching(s.payments, b) = Matching(u.payments, b)
    <2>1. /\ Matching(s.payments, b) \in SUBSET Payments
          /\ Matching(u.payments, b) \in SUBSET Payments
      BY DEF InBetween, Snapshot, Matching
    <2> QED
      BY <2>1, IdsAreUnique
  <1> QED
    BY <1>1 DEF InBetween, Before, Matching

\* The id of a rule is what it was made with.
LEMMA RuleId ==
    ASSUME NEW id, NEW severity, NEW wallet, NEW task
    PROVE  Rule(id, severity, wallet, task).id = id
  BY DEF Rule

\* When an id is that of a warning, or of a forecast.
LEMMA BudgetIdIs ==
    ASSUME NEW s, NEW id
    PROVE  id \in IdsIn(BudgetRules(s.payments, RowsOf(s)))
             <=> \E b \in BudgetIds :
                   /\ s.budgets[b].status = "active"
                   /\ Warned(s.payments, s.budgets[b])
                   /\ id = <<"budget", BudgetFacts(s.payments, s.budgets[b])>>
  <1> DEFINE rule(b) == Rule(<<"budget", BudgetFacts(s.payments, b)>>,
                             IF Spent(Matching(s.payments, b)) >= b.amount
                               THEN "high" ELSE "medium",
                             b.wallet, b.task)
             from == {b \in RowsOf(s) : b.status = "active" /\ Warned(s.payments, b)}
  <1>1. BudgetRules(s.payments, RowsOf(s)) = {rule(b) : b \in from}
    BY DEF BudgetRules
  <1>2. \A b : rule(b).id = <<"budget", BudgetFacts(s.payments, b)>>
    BY RuleId
  <1> HIDE DEF rule
  <1>3. id \in IdsIn({rule(b) : b \in from}) <=> \E b \in from : id = rule(b).id
    BY DEF IdsIn
  <1> QED
    BY <1>1, <1>2, <1>3 DEF RowsOf

\* The forecast of a budget names its facts and the amount it projects.
LEMMA ForecastIdIs ==
    ASSUME NEW s, NEW id
    PROVE  id \in IdsIn(ForecastRules(s.payments, RowsOf(s)))
             <=> \E b \in BudgetIds :
                   /\ s.budgets[b].status = "active"
                   /\ ~Warned(s.payments, s.budgets[b])
                   /\ Overruns(s.payments, s.budgets[b])
                   /\ id = <<"budget_forecast", BudgetFacts(s.payments, s.budgets[b]),
                             Projected(s.payments, s.budgets[b])>>
  <1> DEFINE rule(b) == Rule(<<"budget_forecast", BudgetFacts(s.payments, b),
                               Projected(s.payments, b)>>,
                             "medium", b.wallet, b.task)
             from == {b \in RowsOf(s) : /\ b.status = "active"
                                       /\ ~Warned(s.payments, b)
                                       /\ Overruns(s.payments, b)}
  <1>1. ForecastRules(s.payments, RowsOf(s)) = {rule(b) : b \in from}
    BY DEF ForecastRules
  <1>2. \A b : rule(b).id = <<"budget_forecast", BudgetFacts(s.payments, b),
                               Projected(s.payments, b)>>
    BY RuleId
  <1> HIDE DEF rule
  <1>3. id \in IdsIn({rule(b) : b \in from}) <=> \E b \in from : id = rule(b).id
    BY DEF IdsIn
  <1> QED
    BY <1>1, <1>2, <1>3 DEF RowsOf

\* Equal facts of two budgets are of one budget, unchanged all the while.
LEMMA SameBudget ==
    ASSUME NEW s, NEW t, NEW u, InBetween(s, t, u),
           NEW b \in BudgetIds, NEW c \in BudgetIds,
           BudgetFacts(s.payments, s.budgets[b]) = BudgetFacts(u.payments, u.budgets[c])
    PROVE  /\ b = c /\ t.budgets[b] = s.budgets[b] /\ u.budgets[b] = s.budgets[b]
           /\ Matching(s.payments, s.budgets[b]) = Matching(t.payments, s.budgets[b])
  <1>1. /\ s.budgets[b].id = u.budgets[c].id
        /\ s.budgets[b].version = u.budgets[c].version
        /\ Ids(Matching(s.payments, s.budgets[b])) = Ids(Matching(u.payments, u.budgets[c]))
    BY DEF BudgetFacts
  <1>2. b = c
    BY <1>1 DEF InBetween, Snapshot
  <1>3. t.budgets[b] = s.budgets[b] /\ u.budgets[b] = s.budgets[b]
    BY <1>1, <1>2, RowIsBetween
  <1> QED
    BY <1>1, <1>2, <1>3, MatchingIsBetween

\* A warning that is found early and late is found between.
LEMMA BudgetBetween ==
    ASSUME NEW s, NEW t, NEW u, InBetween(s, t, u), NEW id,
           id \in IdsIn(BudgetRules(s.payments, RowsOf(s))),
           id \in IdsIn(BudgetRules(u.payments, RowsOf(u)))
    PROVE  id \in IdsIn(BudgetRules(t.payments, RowsOf(t)))
  <1>1. PICK b \in BudgetIds : /\ s.budgets[b].status = "active"
                               /\ Warned(s.payments, s.budgets[b])
                               /\ id = <<"budget", BudgetFacts(s.payments, s.budgets[b])>>
    BY BudgetIdIs
  <1>2. PICK c \in BudgetIds : id = <<"budget", BudgetFacts(u.payments, u.budgets[c])>>
    BY BudgetIdIs
  <1>3. BudgetFacts(s.payments, s.budgets[b]) = BudgetFacts(u.payments, u.budgets[c])
    BY <1>1, <1>2
  <1>4. /\ t.budgets[b] = s.budgets[b]
        /\ Matching(s.payments, s.budgets[b]) = Matching(t.payments, s.budgets[b])
    BY <1>3, SameBudget
  <1>5. /\ BudgetFacts(t.payments, t.budgets[b]) = BudgetFacts(s.payments, s.budgets[b])
        /\ Warned(t.payments, t.budgets[b])
    BY <1>1, <1>4, MatchingDecides
  <1>6. t.budgets[b].status = "active"
        /\ id = <<"budget", BudgetFacts(t.payments, t.budgets[b])>>
    BY <1>1, <1>4, <1>5
  <1> QED
    BY <1>5, <1>6, BudgetIdIs

\* A forecast that is found early and late is found between.
LEMMA ForecastBetween ==
    ASSUME NEW s, NEW t, NEW u, InBetween(s, t, u), NEW id,
           id \in IdsIn(ForecastRules(s.payments, RowsOf(s))),
           id \in IdsIn(ForecastRules(u.payments, RowsOf(u)))
    PROVE  id \in IdsIn(ForecastRules(t.payments, RowsOf(t)))
  <1>1. PICK b \in BudgetIds :
           /\ s.budgets[b].status = "active"
           /\ ~Warned(s.payments, s.budgets[b])
           /\ Overruns(s.payments, s.budgets[b])
           /\ id = <<"budget_forecast", BudgetFacts(s.payments, s.budgets[b]),
                     Projected(s.payments, s.budgets[b])>>
    BY ForecastIdIs
  <1>2. PICK c \in BudgetIds :
           id = <<"budget_forecast", BudgetFacts(u.payments, u.budgets[c]),
                  Projected(u.payments, u.budgets[c])>>
    BY ForecastIdIs
  <1>3. BudgetFacts(s.payments, s.budgets[b]) = BudgetFacts(u.payments, u.budgets[c])
    BY <1>1, <1>2
  <1>4. /\ t.budgets[b] = s.budgets[b]
        /\ Matching(s.payments, s.budgets[b]) = Matching(t.payments, s.budgets[b])
    BY <1>3, SameBudget
  <1>5. /\ BudgetFacts(t.payments, t.budgets[b]) = BudgetFacts(s.payments, s.budgets[b])
        /\ Projected(t.payments, t.budgets[b]) = Projected(s.payments, s.budgets[b])
        /\ ~Warned(t.payments, t.budgets[b]) /\ Overruns(t.payments, t.budgets[b])
    BY <1>1, <1>4, MatchingDecides
  <1>6. /\ t.budgets[b].status = "active"
        /\ id = <<"budget_forecast", BudgetFacts(t.payments, t.budgets[b]),
                  Projected(t.payments, t.budgets[b])>>
    BY <1>1, <1>4, <1>5
  <1> QED
    BY <1>5, <1>6, ForecastIdIs

-------------------------------------------------------------------------------
(* Rules about groups: repeats, policies and concentrations.               *)

GroupOf(ps, field, k) == {p \in ps : p[field] = k}

\* What GroupBy makes of a field.
LEMMA GroupIs ==
    ASSUME NEW ps, NEW field, NEW g
    PROVE  g \in GroupBy(ps, field)
             <=> \E k : k # None /\ g # {} /\ g = GroupOf(ps, field, k)
  <1>1. ASSUME g \in GroupBy(ps, field)
        PROVE  \E k : k # None /\ g # {} /\ g = GroupOf(ps, field, k)
    BY <1>1 DEF GroupBy, GroupOf
  <1>2. ASSUME NEW k, k # None, g # {}, g = GroupOf(ps, field, k)
        PROVE  g \in GroupBy(ps, field)
    <2>1. k \in {p[field] : p \in ps} \ {None}
      BY <1>2 DEF GroupOf
    <2> QED
      BY <1>2, <2>1 DEF GroupBy, GroupOf
  <1> QED
    BY <1>1, <1>2

\* A group that is the same before and after is the same between.
LEMMA GroupBetween ==
    ASSUME NEW rs, NEW qs \in SUBSET rs, NEW ps \in SUBSET qs, NEW field, NEW g,
           g \in GroupBy(ps, field), g \in GroupBy(rs, field)
    PROVE  g \in GroupBy(qs, field)
  <1>1. PICK k : k # None /\ g # {} /\ g = GroupOf(ps, field, k)
    BY GroupIs
  <1>2. PICK j : g = GroupOf(rs, field, j)
    BY GroupIs
  <1>3. j = k
    BY <1>1, <1>2 DEF GroupOf
  <1>4. g = GroupOf(qs, field, k)
    BY <1>1, <1>2, <1>3 DEF GroupOf
  <1> QED
    BY <1>1, <1>4, GroupIs

\* The facts of a repeated payment are the ids of its group.
LEMMA RepeatIdIs ==
    ASSUME NEW ps, NEW id
    PROVE  id \in IdsIn(RepeatRules(ps))
             <=> \E w \in GroupBy(ps, "wallet") : \E g \in GroupBy(w, "resource") :
                    Cardinality(g) >= 3 /\ id = <<"repeat_resource", Ids(g)>>
  <1> DEFINE rule(g) == Rule(<<"repeat_resource", Ids(g)>>, "medium",
                             KeyOf(g, "wallet"), None)
  <1>1. RepeatRules(ps) = {rule(g) : g \in Repeated(ps)}
    BY DEF RepeatRules
  <1>2. \A g : rule(g).id = <<"repeat_resource", Ids(g)>>
    BY RuleId
  <1> HIDE DEF rule
  <1>3. id \in IdsIn(RepeatRules(ps)) <=> \E g \in Repeated(ps) : id = rule(g).id
    BY <1>1 DEF IdsIn
  <1> QED
    BY <1>2, <1>3 DEF Repeated

\* A group that is the same early and late is the same between.
LEMMA RepeatBetween ==
    ASSUME NEW rs \in SUBSET Payments, NEW qs \in SUBSET rs, NEW ps \in SUBSET qs,
           NEW id, id \in IdsIn(RepeatRules(ps)), id \in IdsIn(RepeatRules(rs))
    PROVE  id \in IdsIn(RepeatRules(qs))
  <1>1. PICK w \in GroupBy(ps, "wallet") : \E g \in GroupBy(w, "resource") :
           Cardinality(g) >= 3 /\ id = <<"repeat_resource", Ids(g)>>
    BY RepeatIdIs
  <1>2. PICK g \in GroupBy(w, "resource") :
           Cardinality(g) >= 3 /\ id = <<"repeat_resource", Ids(g)>>
    BY <1>1
  <1>3. PICK v \in GroupBy(rs, "wallet") : \E h \in GroupBy(v, "resource") :
           id = <<"repeat_resource", Ids(h)>>
    BY RepeatIdIs
  <1>4. PICK h \in GroupBy(v, "resource") : id = <<"repeat_resource", Ids(h)>>
    BY <1>3
  <1>5. PICK x, k : /\ x # None /\ w # {} /\ w = GroupOf(ps, "wallet", x)
                    /\ k # None /\ g # {} /\ g = GroupOf(w, "resource", k)
    BY GroupIs
  <1>6. PICK y, j : v = GroupOf(rs, "wallet", y) /\ h = GroupOf(v, "resource", j)
    BY GroupIs
  <1>7. g = h
    <2>1. g \in SUBSET Payments /\ h \in SUBSET Payments /\ Ids(g) = Ids(h)
      BY <1>2, <1>4, <1>5, <1>6 DEF GroupOf
    <2> QED
      BY <2>1, IdsAreUnique
  <1>8. x = y /\ k = j
    BY <1>5, <1>6, <1>7 DEF GroupOf
  <1> DEFINE o == GroupOf(qs, "wallet", x)
  <1>9. g = GroupOf(o, "resource", k) /\ o # {}
    BY <1>5, <1>6, <1>7, <1>8 DEF GroupOf
  <1>10. o \in GroupBy(qs, "wallet") /\ g \in GroupBy(o, "resource")
    BY <1>5, <1>9, GroupIs
  <1> QED
    BY <1>2, <1>10, RepeatIdIs

\* The facts of a policy hold its version and the payments of the provider.
LEMMA PolicyIdIs ==
    ASSUME NEW ps, NEW policy, NEW id
    PROVE  id \in IdsIn(PolicyRules(ps, policy))
             <=> \E g \in GroupBy(ps, "provider") :
                    /\ Decision(policy, KeyOf(g, "provider")) # "allowed"
                    /\ id = <<"provider_policy", PolicyFacts(policy, g)>>
  <1> DEFINE rule(g) ==
               Rule(<<"provider_policy", PolicyFacts(policy, g)>>,
                    IF Decision(policy, KeyOf(g, "provider")) = "blocked"
                      THEN "high" ELSE "medium",
                    First(g).wallet, None)
             from == {h \in GroupBy(ps, "provider") :
                        Decision(policy, KeyOf(h, "provider")) # "allowed"}
  <1>1. PolicyRules(ps, policy) = {rule(g) : g \in from}
    BY DEF PolicyRules
  <1>2. \A g : rule(g).id = <<"provider_policy", PolicyFacts(policy, g)>>
    BY RuleId
  <1> HIDE DEF rule
  <1>3. id \in IdsIn(PolicyRules(ps, policy)) <=> \E g \in from : id = rule(g).id
    BY <1>1 DEF IdsIn
  <1> QED
    BY <1>2, <1>3

PolicyVersion(policy, k) == IF HasPolicy(policy, k) THEN policy[k].version ELSE None

\* A policy that has the same version before and after, or none, is the same between.
LEMMA PolicyIsBetween ==
    ASSUME NEW s, NEW t, NEW u, InBetween(s, t, u), NEW k,
           PolicyVersion(s.policies, k) = PolicyVersion(u.policies, k)
    PROVE  /\ PolicyVersion(t.policies, k) = PolicyVersion(s.policies, k)
           /\ Decision(t.policies, k) = Decision(s.policies, k)
  <1>1. /\ DOMAIN s.policies = Providers /\ DOMAIN t.policies = Providers
        /\ DOMAIN u.policies = Providers
        /\ k \in Providers => /\ s.policies[k] \in Policy \cup {None}
                              /\ t.policies[k] \in Policy \cup {None}
                              /\ u.policies[k] \in Policy \cup {None}
    BY DEF InBetween, Snapshot
  <1>2. CASE HasPolicy(s.policies, k)
    <2>1. k \in Providers /\ s.policies[k] # None /\ s.policies[k].version \in Nat
      BY <1>1, <1>2 DEF HasPolicy, Policy
    <2>2. t.policies[k] # None /\ u.policies[k] # None
      BY <2>1 DEF InBetween, Before
    <2>3. /\ HasPolicy(u.policies, k) /\ HasPolicy(t.policies, k)
          /\ t.policies[k].version \in Nat /\ u.policies[k].version \in Nat
      BY <1>1, <2>1, <2>2 DEF HasPolicy, Policy
    <2>4. s.policies[k].version = u.policies[k].version
      BY <1>2, <2>3 DEF PolicyVersion
    <2>5. /\ s.policies[k].version <= t.policies[k].version
          /\ t.policies[k].version <= u.policies[k].version
      BY <2>1, <2>2 DEF InBetween, Before
    <2>6. s.policies[k].version = t.policies[k].version
      BY <2>1, <2>3, <2>4, <2>5
    <2>7. s.policies[k] = t.policies[k]
      BY <2>1, <2>6 DEF InBetween, Before
    <2> QED
      BY <1>2, <2>3, <2>7 DEF PolicyVersion, Decision
  <1>3. CASE ~HasPolicy(s.policies, k)
    <2>1. PolicyVersion(u.policies, k) = None
      BY <1>3 DEF PolicyVersion
    <2>2. ~HasPolicy(u.policies, k)
      BY <1>1, <2>1, FactsAssumption DEF PolicyVersion, HasPolicy, Policy
    <2>3. ~HasPolicy(t.policies, k)
      BY <1>1, <2>2 DEF HasPolicy, InBetween, Before
    <2> QED
      BY <1>3, <2>3 DEF PolicyVersion, Decision
  <1> QED
    BY <1>2, <1>3

\* A policy rule, by its version and its payments.
LEMMA PolicyBetween ==
    ASSUME NEW s, NEW t, NEW u, InBetween(s, t, u), NEW id,
           id \in IdsIn(PolicyRules(s.payments, s.policies)),
           id \in IdsIn(PolicyRules(u.payments, u.policies))
    PROVE  id \in IdsIn(PolicyRules(t.payments, t.policies))
  <1>1. PICK g \in GroupBy(s.payments, "provider") :
           /\ Decision(s.policies, KeyOf(g, "provider")) # "allowed"
           /\ id = <<"provider_policy", PolicyFacts(s.policies, g)>>
    BY PolicyIdIs
  <1>2. PICK h \in GroupBy(u.payments, "provider") :
           id = <<"provider_policy", PolicyFacts(u.policies, h)>>
    BY PolicyIdIs
  <1> DEFINE k == KeyOf(g, "provider")
  <1>3. \A policy, f : PolicyFacts(policy, f) =
           [provider |-> KeyOf(f, "provider"),
            decision |-> Decision(policy, KeyOf(f, "provider")),
            version |-> PolicyVersion(policy, KeyOf(f, "provider")),
            payments |-> Ids(f)]
    BY DEF PolicyFacts, PolicyVersion
  <1>4. PolicyFacts(s.policies, g) = PolicyFacts(u.policies, h)
    BY <1>1, <1>2
  <1>5. /\ Ids(g) = Ids(h) /\ k = KeyOf(h, "provider")
        /\ PolicyVersion(s.policies, k) = PolicyVersion(u.policies, k)
    BY <1>3, <1>4
  <1>6. g = h
    <2>1. g \in SUBSET Payments /\ h \in SUBSET Payments
      BY GroupIs DEF GroupOf, InBetween, Snapshot
    <2> QED
      BY <1>5, <2>1, IdsAreUnique
  <1>7. g \in GroupBy(t.payments, "provider")
    BY <1>6, GroupBetween DEF InBetween, Before
  <1>8. /\ PolicyVersion(t.policies, k) = PolicyVersion(s.policies, k)
        /\ Decision(t.policies, k) = Decision(s.policies, k)
    BY <1>5, PolicyIsBetween
  <1>9. PolicyFacts(t.policies, g) = PolicyFacts(s.policies, g)
    BY <1>3, <1>8
  <1> QED
    BY <1>1, <1>7, <1>8, <1>9, PolicyIdIs

\* The facts of a concentration hold the total of the range.
LEMMA ConcentrationIs ==
    ASSUME NEW ps, NEW id, id \in IdsIn(ConcentrationRules(ps))
    PROVE  id[1] = "concentration" /\ id[3].total = Spent(ps)
  <1>1. PICK rule \in ConcentrationRules(ps) : id = rule.id
    BY DEF IdsIn
  <1>3. PICK field \in {"provider", "category"} : \E g \in Leaders(ps, field) :
           rule = Rule(<<"concentration", field,
                         [value |-> KeyOf(g, field), share |-> Share(g, ps),
                          payments |-> Ids(g), total |-> Spent(ps), spent |-> Spent(g)]>>,
                       IF Share(g, ps) >= 8500 THEN "high" ELSE "medium", None, None)
    BY DEF ConcentrationRules
  <1>2. PICK g \in Leaders(ps, field) :
           rule = Rule(<<"concentration", field,
                         [value |-> KeyOf(g, field), share |-> Share(g, ps),
                          payments |-> Ids(g), total |-> Spent(ps), spent |-> Spent(g)]>>,
                       IF Share(g, ps) >= 8500 THEN "high" ELSE "medium", None, None)
    BY <1>3
  <1>5. id = <<"concentration", field,
               [value |-> KeyOf(g, field), share |-> Share(g, ps),
                payments |-> Ids(g), total |-> Spent(ps), spent |-> Spent(g)]>>
    BY <1>1, <1>2, RuleId
  <1> QED
    BY <1>5

\* Equal totals are those of equal ranges.
LEMMA ConcentrationBetween ==
    ASSUME NEW rs \in SUBSET Payments, NEW qs \in SUBSET rs, NEW ps \in SUBSET qs,
           NEW id, id \in IdsIn(ConcentrationRules(ps)), id \in IdsIn(ConcentrationRules(rs))
    PROVE  id \in IdsIn(ConcentrationRules(qs))
  <1>1. Spent(ps) = Spent(rs)
    BY ConcentrationIs
  <1>2. ps = rs
    BY <1>1, SpentGrows
  <1> QED
    BY <1>2

-------------------------------------------------------------------------------
(* Payments in order, and spikes.                                          *)

\* The orders of the payments as relations.
EarlierOf(ps) == {r \in ps \X ps : Earlier(r[1], r[2])}
CheaperOf(ps) == {r \in ps \X ps : Cheaper(r[1], r[2])}

\* Payments are in a linear order of time.
LEMMA EarlierOrders ==
    ASSUME NEW ps \in SUBSET Payments
    PROVE  /\ OrderedBy(EarlierOf(ps), ps)
           /\ \A p, q \in ps : <<p, q>> \in EarlierOf(ps) <=> Earlier(p, q)
  <1>1. \A p, q \in ps : <<p, q>> \in EarlierOf(ps) <=> Earlier(p, q)
    BY DEF EarlierOf
  <1>2. \A p \in ps : ~Earlier(p, p)
    BY FactsAssumption DEF Earlier
  <1>3. \A p, q \in ps : p # q => Earlier(p, q) \/ Earlier(q, p)
    BY FactsAssumption DEF Earlier
  <1>4. \A p, q, r \in ps : Earlier(p, q) /\ Earlier(q, r) => Earlier(p, r)
    BY FactsAssumption DEF Earlier
  <1> QED
    BY <1>1, <1>2, <1>3, <1>4 DEF OrderedBy

\* And in one of price.
LEMMA CheaperOrders ==
    ASSUME NEW ps \in SUBSET Payments
    PROVE  /\ OrderedBy(CheaperOf(ps), ps)
           /\ \A p, q \in ps : <<p, q>> \in CheaperOf(ps) <=> Cheaper(p, q)
  <1>1. \A p, q \in ps : <<p, q>> \in CheaperOf(ps) <=> Cheaper(p, q)
    BY DEF CheaperOf
  <1>2. \A p \in ps : ~Cheaper(p, p)
    BY FactsAssumption DEF Earlier, Cheaper
  <1>3. \A p, q \in ps : p # q => Cheaper(p, q) \/ Cheaper(q, p)
    BY FactsAssumption DEF Earlier, Cheaper
  <1>4. \A p, q, r \in ps : Cheaper(p, q) /\ Cheaper(q, r) => Cheaper(p, r)
    BY FactsAssumption DEF Earlier, Cheaper
  <1> QED
    BY <1>1, <1>2, <1>3, <1>4 DEF OrderedBy

\* Sorted lists the payments in each of the two orders.
LEMMA InOrderLists ==
    ASSUME NEW ps \in SUBSET Payments
    PROVE  Lists(InOrder(ps), EarlierOf(ps), ps)
  <1> DEFINE R == EarlierOf(ps)
             n == Cardinality(ps)
  <1>1. IsFiniteSet(ps) /\ OrderedBy(R, ps)
    BY FactsAssumption, FS_Subset, EarlierOrders
  <1>2. ASSUME NEW x \in ps
        PROVE  Cardinality({y \in ps : Earlier(y, x)}) = Rank(R, ps, x)
    <2>1. {y \in ps : Earlier(y, x)} = Below(R, ps, x)
      BY EarlierOrders DEF Below
    <2> QED
      BY <2>1 DEF Rank
  <1>3. \A i \in 1..n : \E x \in ps : Cardinality({y \in ps : Earlier(y, x)}) = i - 1
    BY <1>1, <1>2, RankIsTaken
  <1>4. InOrder(ps) = [i \in 1..n |->
            CHOOSE x \in ps : Cardinality({y \in ps : Earlier(y, x)}) = i - 1]
    BY DEF InOrder, Sorted
  <1> QED
    BY <1>2, <1>3, <1>4 DEF Lists

\* Sorting by price lists every payment at its rank.
LEMMA CheaperLists ==
    ASSUME NEW ps \in SUBSET Payments
    PROVE  Lists(Sorted(ps, Cheaper), CheaperOf(ps), ps)
  <1> DEFINE R == CheaperOf(ps)
             n == Cardinality(ps)
  <1>1. IsFiniteSet(ps) /\ OrderedBy(R, ps)
    BY FactsAssumption, FS_Subset, CheaperOrders
  <1>2. ASSUME NEW x \in ps
        PROVE  Cardinality({y \in ps : Cheaper(y, x)}) = Rank(R, ps, x)
    <2>1. {y \in ps : Cheaper(y, x)} = Below(R, ps, x)
      BY CheaperOrders DEF Below
    <2> QED
      BY <2>1 DEF Rank
  <1>3. \A i \in 1..n : \E x \in ps : Cardinality({y \in ps : Cheaper(y, x)}) = i - 1
    BY <1>1, <1>2, RankIsTaken
  <1>4. Sorted(ps, Cheaper) = [i \in 1..n |->
            CHOOSE x \in ps : Cardinality({y \in ps : Cheaper(y, x)}) = i - 1]
    BY DEF Sorted
  <1> QED
    BY <1>2, <1>3, <1>4 DEF Lists

\* The first of some payments comes before the others.
LEMMA FirstIs ==
    ASSUME NEW ps \in SUBSET Payments, ps # {}
    PROVE  First(ps) \in ps /\ \A q \in ps \ {First(ps)} : Earlier(First(ps), q)
  <1>1. IsFiniteSet(ps) /\ Cardinality(ps) \in Nat /\ Cardinality(ps) # 0
    BY FactsAssumption, FS_Subset, FS_CardinalityType, FS_EmptySet
  <1>2. PICK x \in ps : Rank(EarlierOf(ps), ps, x) = 1 - 1
    BY <1>1, EarlierOrders, RankIsTaken
  <1>3. Below(EarlierOf(ps), ps, x) = {}
    <2>1. IsFiniteSet(Below(EarlierOf(ps), ps, x))
      BY <1>1, FS_Subset DEF Below
    <2> QED
      BY <1>2, <2>1, FS_EmptySet DEF Rank
  <1>4. \A q \in ps \ {x} : Earlier(x, q)
    BY <1>3, EarlierOrders DEF Below, OrderedBy
  <1> QED
    BY <1>4 DEF First

\* The facts of a spike hold the number of payments of its wallet.
LEMMA SpikeIs ==
    ASSUME NEW w \in SUBSET Payments, NEW rule \in SpikesOf(w)
    PROVE  /\ \E p \in w : rule.id[2].wallet = p.wallet
           /\ rule.id[2].size = Cardinality(w)
  <1> DEFINE ordered == Sorted(w, Cheaper)
  <1>1. IsFiniteSet(w) /\ OrderedBy(CheaperOf(w), w) /\ Lists(ordered, CheaperOf(w), w)
    BY FactsAssumption, FS_Subset, CheaperOrders, CheaperLists
  <1>2. Len(ordered) = Cardinality(w) /\ Cardinality(w) \in Nat
    BY <1>1, Listed
  <1>3. /\ ~(Len(ordered) < 5)
        /\ rule = Rule(<<"price_spike",
                         [wallet |-> Last(ordered).wallet, payment |-> Last(ordered).id,
                          median |-> Median(ordered).amount, size |-> Len(ordered)]>>,
                       "medium", Last(ordered).wallet, Last(ordered).task)
    BY DEF SpikesOf
  <1>4. Last(ordered) \in w
    BY <1>1, <1>2, <1>3 DEF Last, Lists
  <1>5. rule.id = <<"price_spike",
                    [wallet |-> Last(ordered).wallet, payment |-> Last(ordered).id,
                     median |-> Median(ordered).amount, size |-> Len(ordered)]>>
    BY <1>3, RuleId
  <1> QED
    BY <1>2, <1>4, <1>5

\* A wallet that had as many payments before as after had the same ones.
LEMMA SpikeBetween ==
    ASSUME NEW rs \in SUBSET Payments, NEW qs \in SUBSET rs, NEW ps \in SUBSET qs,
           NEW id, id \in IdsIn(SpikeRules(ps)), id \in IdsIn(SpikeRules(rs))
    PROVE  id \in IdsIn(SpikeRules(qs))
  <1>1. PICK w \in GroupBy(ps, "wallet") : \E rule \in SpikesOf(w) : id = rule.id
    BY DEF IdsIn, SpikeRules
  <1>2. PICK v \in GroupBy(rs, "wallet") : \E rule \in SpikesOf(v) : id = rule.id
    BY DEF IdsIn, SpikeRules
  <1>3. PICK x : w = GroupOf(ps, "wallet", x)
    BY GroupIs
  <1>4. PICK y : v = GroupOf(rs, "wallet", y)
    BY GroupIs
  <1>5. w \in SUBSET Payments /\ v \in SUBSET Payments
    BY <1>3, <1>4 DEF GroupOf
  <1>6. x = y /\ Cardinality(w) = Cardinality(v)
    <2>1. id[2].size = Cardinality(w) /\ \E p \in w : id[2].wallet = p.wallet
      BY <1>1, <1>5, SpikeIs
    <2>2. id[2].size = Cardinality(v) /\ \E p \in v : id[2].wallet = p.wallet
      BY <1>2, <1>5, SpikeIs
    <2>3. (\A p \in w : p.wallet = x) /\ (\A p \in v : p.wallet = y)
      BY <1>3, <1>4 DEF GroupOf
    <2>4. id[2].wallet = x /\ id[2].wallet = y
      BY <2>1, <2>2, <2>3
    <2>5. Cardinality(w) = Cardinality(v)
      BY <2>1, <2>2
    <2> QED
      BY <2>4, <2>5
  <1>7. w \in SUBSET v /\ IsFiniteSet(v)
    BY <1>3, <1>4, <1>5, <1>6, FactsAssumption, FS_Subset DEF GroupOf
  <1>8. w = v
    BY <1>6, <1>7, FS_Subset
  <1>9. w \in GroupBy(qs, "wallet")
    BY <1>8, GroupBetween
  <1> QED
    BY <1>1, <1>9 DEF IdsIn, SpikeRules

-------------------------------------------------------------------------------
(* The sliding window.                                                     *)

\* The smallest of some numbers is one of them.
LEMMA MinIs ==
    ASSUME NEW S \in SUBSET Nat, S # {}
    PROVE  Min(S) \in S /\ \A n \in S : Min(S) <= n
  <1>1. \E x \in S : \A y \in S : x <= y
    BY LeastElement
  <1> QED
    BY <1>1 DEF Min

\* What lies within a minute up to q: the window that ends at q.
Within(w, q) == {p \in w : (p = q \/ Earlier(p, q)) /\ q.at - p.at <= 60000}

\* The first index from which a window up to right is not too long.
Reach(f, right) == Min({i \in 1..right : ~TooLong(f, i, right)})

\* From Reach on no window is too long, and before it each one is.
LEMMA ReachIs ==
    ASSUME NEW w \in SUBSET Payments, NEW f, Lists(f, EarlierOf(w), w),
           NEW right \in 1..Cardinality(w)
    PROVE  /\ Cardinality(w) \in Nat
           /\ \A i \in 1..Cardinality(w) : f[i] \in w /\ f[i].at \in Int
           /\ \A i, j \in 1..Cardinality(w) : i <= j => f[i].at <= f[j].at
           /\ Reach(f, right) \in 1..right
           /\ \A i \in 1..right : i >= Reach(f, right) <=> ~TooLong(f, i, right)
  <1> DEFINE n == Cardinality(w)
  <1>1. IsFiniteSet(w) /\ OrderedBy(EarlierOf(w), w)
    BY FactsAssumption, FS_Subset, EarlierOrders
  <1>2. n \in Nat /\ \A i, j \in 1..n : <<f[i], f[j]>> \in EarlierOf(w) <=> i < j
    BY <1>1, Listed
  <1>3. \A i \in 1..n : f[i] \in w /\ f[i].at \in Int
    BY FactsAssumption DEF Lists
  <1>4. ASSUME NEW i \in 1..n, NEW j \in 1..n, i <= j
        PROVE  f[i].at <= f[j].at
    <2>1. CASE i = j
      BY <1>3, <2>1
    <2>2. CASE i < j
      <3>1. Earlier(f[i], f[j])
        BY <1>2, <1>3, <2>2, EarlierOrders
      <3> QED
        BY <1>3, <3>1 DEF Earlier
    <2> QED
      BY <1>2, <1>4, <2>1, <2>2
  <1> DEFINE S == {i \in 1..right : ~TooLong(f, i, right)}
  <1>5. right \in S /\ S \in SUBSET Nat
    BY <1>2, <1>3 DEF TooLong
  <1>6. Min(S) \in S /\ \A i \in S : Min(S) <= i
    BY <1>5, MinIs
  <1>7. ASSUME NEW i \in 1..right, i >= Min(S)
        PROVE  ~TooLong(f, i, right)
    <2>1. i \in 1..n /\ Min(S) \in 1..n /\ ~TooLong(f, Min(S), right) /\ right \in 1..n
      BY <1>2, <1>6
    <2>2. f[Min(S)].at <= f[i].at
      BY <1>4, <1>7, <2>1
    <2> QED
      BY <1>3, <2>1, <2>2 DEF TooLong
  <1> QED
    BY <1>2, <1>3, <1>4, <1>6, <1>7 DEF Reach

\* The left end of the sliding window, which never moves back, is that index: the
\* loop forgets no window.
LEMMA LeftsReach ==
    ASSUME NEW w \in SUBSET Payments, NEW f, Lists(f, EarlierOf(w), w)
    PROVE  Lefts(f) = [right \in 1..Cardinality(w) |-> Reach(f, right)]
  <1> DEFINE n == Cardinality(w)
             from(g, right) == IF right = 1 THEN 1 ELSE g[right - 1]
             P(g) == g = [right \in 1..Len(f) |->
                             Min({i \in from(g, right)..right : ~TooLong(f, i, right)})]
             reach == [right \in 1..n |-> Reach(f, right)]
  <1>1. IsFiniteSet(w) /\ OrderedBy(EarlierOf(w), w)
    BY FactsAssumption, FS_Subset, EarlierOrders
  <1>2. n \in Nat /\ Len(f) = n
    BY <1>1, Listed
  <1>3. Lefts(f) = CHOOSE g : P(g)
    BY DEF Lefts
  <1>4. ASSUME NEW g, NEW right \in 1..n,
               right # 1 => g[right - 1] = Reach(f, right - 1)
        PROVE  Min({i \in from(g, right)..right : ~TooLong(f, i, right)}) = Reach(f, right)
    <2>1. CASE right = 1
      BY <2>1 DEF Reach
    <2>2. CASE right # 1
      <3> DEFINE left == right - 1
      <3>1. left \in 1..n /\ left < right
        BY <1>2, <2>2
      <3>2. g[left] = Reach(f, left) /\ Reach(f, left) \in 1..left
        BY <1>4, <2>2, <3>1, ReachIs
      <3>3. ASSUME NEW i \in 1..right, ~TooLong(f, i, right)
            PROVE  i \in Reach(f, left)..right
        <4>1. SUFFICES ASSUME i < Reach(f, left) PROVE FALSE
          BY <3>2
        <4>2. i \in 1..left /\ i \in 1..n
          BY <1>2, <3>1, <3>2, <4>1
        <4>3. TooLong(f, i, left)
          BY <3>1, <3>2, <4>1, <4>2, ReachIs
        <4>4. /\ f[left].at <= f[right].at /\ f[i].at \in Int
              /\ f[left].at \in Int /\ f[right].at \in Int
          BY <3>1, <4>2, ReachIs
        <4> QED
          BY <3>3, <4>3, <4>4 DEF TooLong
      <3>4. {i \in from(g, right)..right : ~TooLong(f, i, right)}
              = {i \in 1..right : ~TooLong(f, i, right)}
        BY <2>2, <3>2, <3>3
      <3> QED
        BY <3>4 DEF Reach
    <2> QED
      BY <2>1, <2>2
  <1>5. P(reach)
    <2>1. ASSUME NEW right \in 1..n
          PROVE  reach[right] = Min({i \in from(reach, right)..right : ~TooLong(f, i, right)})
      <3>1. right # 1 => reach[right - 1] = Reach(f, right - 1)
        BY <1>2
      <3> HIDE DEF reach
      <3>2. Min({i \in from(reach, right)..right : ~TooLong(f, i, right)}) = Reach(f, right)
        BY <1>4, <3>1
      <3> QED
        BY <3>2 DEF reach
    <2>2. reach = [right \in 1..n |-> reach[right]]
      OBVIOUS
    <2> HIDE DEF reach
    <2> QED
      BY <1>2, <2>1, <2>2
  <1>6. ASSUME NEW g, P(g)
        PROVE  g = reach
    <2> DEFINE C == {right \in 1..n : g[right] # Reach(f, right)}
    <2>1. C = {}
      <3> SUFFICES ASSUME C # {} PROVE FALSE
        OBVIOUS
      <3>1. PICK right \in C : \A m \in C : right <= m
        <4>1. C \in SUBSET Nat
          BY <1>2
        <4> QED
          BY <4>1, LeastElement
      <3>2. right # 1 => g[right - 1] = Reach(f, right - 1)
        BY <1>2, <3>1
      <3>3. g[right] = Min({i \in from(g, right)..right : ~TooLong(f, i, right)})
        BY <1>2, <1>6
      <3> QED
        BY <1>4, <3>2, <3>3
    <2>2. DOMAIN g = 1..n /\ g = [right \in 1..n |-> g[right]]
      BY <1>2, <1>6
    <2> QED
      BY <2>1, <2>2
  <1> HIDE DEF P
  <1>7. P(CHOOSE g : P(g))
    BY <1>5
  <1> QED
    BY <1>3, <1>6, <1>7

\* The window that ends at right, as a set and by its size.
LEMMA WindowIs ==
    ASSUME NEW w \in SUBSET Payments, NEW f, Lists(f, EarlierOf(w), w),
           NEW right \in 1..Cardinality(w)
    PROVE  /\ {f[i] : i \in Reach(f, right)..right} = Within(w, f[right])
           /\ Cardinality(Within(w, f[right])) = right - Reach(f, right) + 1
  <1> DEFINE n == Cardinality(w)
             left == Reach(f, right)
             v == Within(w, f[right])
  <1>1. IsFiniteSet(w) /\ OrderedBy(EarlierOf(w), w)
    BY FactsAssumption, FS_Subset, EarlierOrders
  <1>2. /\ n \in Nat /\ left \in 1..right /\ right \in 1..n
        /\ \A i, j \in 1..n : <<f[i], f[j]>> \in EarlierOf(w) <=> i < j
        /\ \A i, j \in 1..n : f[i] = f[j] => i = j
        /\ \A x \in w : \E i \in 1..n : f[i] = x
        /\ \A i \in 1..n : f[i] \in w /\ f[i].at \in Int
        /\ \A i \in 1..right : i >= left <=> ~TooLong(f, i, right)
    <2>1. /\ n \in Nat /\ left \in 1..right
          /\ \A i \in 1..n : f[i] \in w /\ f[i].at \in Int
          /\ \A i \in 1..right : i >= left <=> ~TooLong(f, i, right)
      BY ReachIs
    <2>2. /\ \A i, j \in 1..n : <<f[i], f[j]>> \in EarlierOf(w) <=> i < j
          /\ \A i, j \in 1..n : f[i] = f[j] => i = j
          /\ \A x \in w : \E i \in 1..n : f[i] = x
      BY <1>1, Listed
    <2> QED
      BY <2>1, <2>2
  <1>3. \A i, j \in 1..n : Earlier(f[i], f[j]) <=> i < j
    BY <1>2, EarlierOrders
  <1>4. \A i \in 1..n : f[i] \in v <=> i \in left..right
    <2>1. \A i \in 1..n : (f[i] = f[right] \/ Earlier(f[i], f[right])) <=> i \in 1..right
      BY <1>2, <1>3
    <2>2. \A i \in 1..right : f[right].at - f[i].at <= 60000 <=> i >= left
      BY <1>2 DEF TooLong
    <2> HIDE DEF left
    <2> QED
      BY <1>2, <2>1, <2>2 DEF Within
  <1>5. {f[i] : i \in left..right} = v
    <2>1. v \subseteq w /\ left..right \subseteq 1..n
      BY <1>2 DEF Within
    <2> HIDE DEF v, left
    <2> QED
      BY <1>2, <1>4, <2>1
  <1>6. Cardinality(v) = right - left + 1
    <2> DEFINE g == [i \in left..right |-> f[i]]
    <2>1. left..right \subseteq 1..n
      BY <1>2
    <2>2. g \in [left..right -> v]
      BY <1>5
    <2>3. \A i, j \in left..right : g[i] = g[j] => i = j
      BY <1>2, <2>1
    <2>4. \A x \in v : \E i \in left..right : g[i] = x
      BY <1>5
    <2>5. g \in Bijection(left..right, v)
      BY <2>2, <2>3, <2>4 DEF Bijection, Injection, Surjection, IsInjective
    <2>6. IsFiniteSet(left..right) /\ Cardinality(left..right) = right - left + 1
      BY <1>2, FS_Interval
    <2> HIDE DEF g, v, left
    <2>7. ExistsBijection(left..right, v)
      BY <2>5 DEF ExistsBijection
    <2> QED
      BY <2>6, <2>7, FS_Bijection
  <1> QED
    BY <1>5, <1>6

\* q is the first payment at which five lie within a minute.
Burst(w, q) ==
    /\ q \in w
    /\ Cardinality(Within(w, q)) >= 5
    /\ \A p \in w : Earlier(p, q) => Cardinality(Within(w, p)) < 5

\* The windows of a wallet are what lies within a minute of a burst.
LEMMA WindowsAre ==
    ASSUME NEW w \in SUBSET Payments, NEW v
    PROVE  v \in Windows(w) <=> \E q : Burst(w, q) /\ v = Within(w, q)
  <1> DEFINE n == Cardinality(w)
             f == InOrder(w)
             full == {right \in 1..n : Cardinality(Within(w, f[right])) >= 5}
  <1>1. IsFiniteSet(w) /\ OrderedBy(EarlierOf(w), w) /\ Lists(f, EarlierOf(w), w)
    BY FactsAssumption, FS_Subset, EarlierOrders, InOrderLists
  <1> HIDE DEF f
  <1>2. /\ n \in Nat /\ Len(f) = n
        /\ \A i, j \in 1..n : <<f[i], f[j]>> \in EarlierOf(w) <=> i < j
        /\ \A x \in w : \E i \in 1..n : f[i] = x
        /\ \A i \in 1..n : f[i] \in w
    <2>1. \A i \in 1..n : f[i] \in w
      BY <1>1 DEF Lists
    <2> QED
      BY <1>1, <2>1, Listed
  <1>3. \A i, j \in 1..n : Earlier(f[i], f[j]) <=> i < j
    BY <1>2, EarlierOrders
  <1>4. \A right \in 1..n : Lefts(f)[right] = Reach(f, right)
    BY <1>1, LeftsReach
  <1>5. \A right \in 1..n :
           /\ Cardinality(Within(w, f[right])) = right - Reach(f, right) + 1
           /\ {f[i] : i \in Reach(f, right)..right} = Within(w, f[right])
    BY <1>1, WindowIs
  <1>6. full = {right \in 1..Len(f) : right - Lefts(f)[right] + 1 >= 5}
    BY <1>2, <1>4, <1>5
  <1> HIDE DEF full
  <1>7. Windows(w) = IF full = {} THEN {}
                     ELSE {{f[i] : i \in Lefts(f)[Min(full)]..Min(full)}}
    BY <1>6 DEF Windows, f
  <1>8. CASE full = {}
    <2>1. \A q : ~Burst(w, q)
      BY <1>2, <1>8 DEF Burst, full
    <2> QED
      BY <1>7, <1>8, <2>1
  <1>9. CASE full # {}
    <2> DEFINE right == Min(full)
    <2>1. /\ right \in 1..n /\ Cardinality(Within(w, f[right])) >= 5
          /\ \A m \in full : right <= m
      <3>1. full \in SUBSET Nat
        BY <1>2 DEF full
      <3>2. right \in full /\ \A m \in full : right <= m
        BY <1>9, <3>1, MinIs
      <3> QED
        BY <3>2 DEF full
    <2> HIDE DEF right
    <2>2. Windows(w) = {Within(w, f[right])}
      BY <1>4, <1>5, <1>7, <1>9, <2>1 DEF right
    <2>3. Burst(w, f[right])
      <3>1. ASSUME NEW p \in w, Earlier(p, f[right])
            PROVE  Cardinality(Within(w, p)) < 5
        <4>1. PICK i \in 1..n : f[i] = p
          BY <1>2
        <4>2. i < right
          BY <1>3, <2>1, <3>1, <4>1
        <4>3. i \notin full
          BY <1>2, <2>1, <4>1, <4>2
        <4>4. Cardinality(Within(w, p)) \in Int
          BY <1>1, FS_Subset, FS_CardinalityType DEF Within
        <4> QED
          BY <4>1, <4>3, <4>4 DEF full
      <3> QED
        BY <1>2, <2>1, <3>1 DEF Burst
    <2>4. ASSUME NEW q, Burst(w, q)
          PROVE  q = f[right]
      <3>1. PICK i \in 1..n : f[i] = q
        BY <1>2, <2>4 DEF Burst
      <3>2. i \in full
        BY <2>4, <3>1 DEF Burst, full
      <3>3. ~(right < i)
        <4> SUFFICES ASSUME right < i PROVE FALSE
          OBVIOUS
        <4>1. Earlier(f[right], q) /\ f[right] \in w
          BY <1>2, <1>3, <2>1, <3>1
        <4>2. Cardinality(Within(w, f[right])) < 5
          BY <2>4, <4>1 DEF Burst
        <4>3. Cardinality(Within(w, f[right])) \in Int
          BY <1>1, FS_Subset, FS_CardinalityType DEF Within
        <4> QED
          BY <2>1, <4>2, <4>3
      <3> QED
        BY <1>2, <2>1, <3>1, <3>2, <3>3
    <2> QED
      BY <2>2, <2>3, <2>4
  <1> QED
    BY <1>8, <1>9

\* The facts of a burst are the ids of its payments.
LEMMA VelocityIdIs ==
    ASSUME NEW ps \in SUBSET Payments, NEW id
    PROVE  id \in IdsIn(VelocityRules(ps))
             <=> \E w \in GroupBy(ps, "wallet") : \E q :
                    Burst(w, q) /\ id = <<"velocity", Ids(Within(w, q))>>
  <1> DEFINE rule(v) == Rule(<<"velocity", Ids(v)>>, "high", KeyOf(v, "wallet"), None)
             from == UNION {Windows(w) : w \in GroupBy(ps, "wallet")}
  <1>1. VelocityRules(ps) = {rule(v) : v \in from}
    BY DEF VelocityRules
  <1>2. \A v : rule(v).id = <<"velocity", Ids(v)>>
    BY RuleId
  <1> HIDE DEF rule
  <1>3. id \in IdsIn(VelocityRules(ps)) <=> \E v \in from : id = rule(v).id
    BY <1>1 DEF IdsIn
  <1>4. \A w \in GroupBy(ps, "wallet") : w \in SUBSET Payments
    BY GroupIs DEF GroupOf
  <1>5. \A v : v \in from <=> \E w \in GroupBy(ps, "wallet") : \E q :
                                 Burst(w, q) /\ v = Within(w, q)
    BY <1>4, WindowsAre
  <1> HIDE DEF from
  <1> QED
    BY <1>2, <1>3, <1>5

\* A first burst that is there before and after is the first between.
LEMMA VelocityBetween ==
    ASSUME NEW rs \in SUBSET Payments, NEW qs \in SUBSET rs, NEW ps \in SUBSET qs,
           NEW id, id \in IdsIn(VelocityRules(ps)), id \in IdsIn(VelocityRules(rs))
    PROVE  id \in IdsIn(VelocityRules(qs))
  <1>1. ps \in SUBSET Payments /\ qs \in SUBSET Payments
    OBVIOUS
  <1>2. PICK w \in GroupBy(ps, "wallet") : \E q :
           Burst(w, q) /\ id = <<"velocity", Ids(Within(w, q))>>
    BY <1>1, VelocityIdIs
  <1>3. PICK q : Burst(w, q) /\ id = <<"velocity", Ids(Within(w, q))>>
    BY <1>2
  <1>4. PICK v \in GroupBy(rs, "wallet") : \E r :
           Burst(v, r) /\ id = <<"velocity", Ids(Within(v, r))>>
    BY VelocityIdIs
  <1>5. PICK r : Burst(v, r) /\ id = <<"velocity", Ids(Within(v, r))>>
    BY <1>4
  <1>6. PICK x : x # None /\ w = GroupOf(ps, "wallet", x)
    BY GroupIs
  <1>7. PICK y : v = GroupOf(rs, "wallet", y)
    BY GroupIs
  <1>8. /\ w \in SUBSET Payments /\ v \in SUBSET Payments
        /\ q \in w /\ r \in v
    BY <1>3, <1>5, <1>6, <1>7 DEF GroupOf, Burst
  <1>9. Within(w, q) = Within(v, r)
    <2>1. Within(w, q) \in SUBSET Payments /\ Within(v, r) \in SUBSET Payments
      BY <1>8 DEF Within
    <2>2. Ids(Within(w, q)) = Ids(Within(v, r))
      BY <1>3, <1>5
    <2> QED
      BY <2>1, <2>2, IdsAreUnique
  <1>10. q = r
    <2>1. q \in Within(w, q) /\ r \in Within(v, r)
      BY <1>8, FactsAssumption DEF Within
    <2>2. (q = r \/ Earlier(q, r)) /\ (r = q \/ Earlier(r, q))
      BY <1>9, <2>1 DEF Within
    <2> QED
      BY <1>8, <2>2, FactsAssumption DEF Earlier
  <1>11. x = y
    BY <1>6, <1>7, <1>8, <1>10 DEF GroupOf
  <1> DEFINE o == GroupOf(qs, "wallet", x)
  <1>12. w \in SUBSET o /\ o \in SUBSET v /\ o \in SUBSET Payments
    BY <1>6, <1>7, <1>11 DEF GroupOf
  <1>13. o \in GroupBy(qs, "wallet")
    BY <1>6, <1>8, <1>12, GroupIs
  <1> HIDE DEF o
  <1>14. Within(o, q) = Within(w, q)
    BY <1>9, <1>10, <1>12 DEF Within
  <1>15. Burst(o, q)
    <2>1. ASSUME NEW p \in o, Earlier(p, q)
          PROVE  Cardinality(Within(o, p)) < 5
      <3>1. Cardinality(Within(v, p)) < 5
        BY <1>5, <1>10, <1>12, <2>1 DEF Burst
      <3>2. IsFiniteSet(Within(v, p)) /\ Within(o, p) \in SUBSET Within(v, p)
        BY <1>8, <1>12, FactsAssumption, FS_Subset DEF Within
      <3>3. Cardinality(Within(o, p)) <= Cardinality(Within(v, p)) /\ IsFiniteSet(Within(o, p))
        BY <3>2, FS_Subset
      <3> QED
        BY <3>1, <3>2, <3>3, FS_CardinalityType
    <2> QED
      BY <1>3, <1>8, <1>12, <1>14, <2>1 DEF Burst
  <1>16. id = <<"velocity", Ids(Within(o, q))>>
    BY <1>3, <1>14
  <1> QED
    BY <1>1, <1>13, <1>15, <1>16, VelocityIdIs

-------------------------------------------------------------------------------
(* Tasks in order, and the baseline.                                       *)

CheaperTaskOf(G) == {r \in G \X G : CheaperTask(r[1], r[2])}

\* Tasks and their groups of payments correspond to each other.
LEMMA TaskGroups ==
    ASSUME NEW ps \in SUBSET Payments
    PROVE  /\ IsFiniteSet(GroupBy(ps, "task"))
           /\ IsFiniteSet(TasksOf(ps))
           /\ Cardinality(GroupBy(ps, "task")) = Cardinality(TasksOf(ps))
           /\ \A k \in TasksOf(ps) : GroupOf(ps, "task", k) \in GroupBy(ps, "task")
           /\ \A g \in GroupBy(ps, "task") :
                 /\ g # {} /\ g \in SUBSET ps
                 /\ \E k \in TasksOf(ps) : g = GroupOf(ps, "task", k)
           /\ \A k \in TasksOf(ps) : GroupOf(ps, "task", k) # {}
           /\ \A k, j : \A p \in GroupOf(ps, "task", k) :
                 p \in GroupOf(ps, "task", j) => k = j
  <1> DEFINE G == GroupBy(ps, "task")
             T == TasksOf(ps)
             f == [k \in T |-> GroupOf(ps, "task", k)]
  <1>1. \A k \in T : GroupOf(ps, "task", k) # {} /\ k # None
    BY DEF TasksOf, GroupOf
  <1>2. \A k \in T : GroupOf(ps, "task", k) \in G
    BY <1>1, GroupIs
  <1>3. \A g \in G : g # {} /\ g \in SUBSET ps /\ \E k \in T : g = GroupOf(ps, "task", k)
    <2> TAKE g \in G
    <2>1. PICK k : k # None /\ g # {} /\ g = GroupOf(ps, "task", k)
      BY GroupIs
    <2>2. k \in T
      BY <2>1 DEF TasksOf, GroupOf
    <2> QED
      BY <2>1, <2>2 DEF GroupOf
  <1>4. \A k, j : \A p \in GroupOf(ps, "task", k) : p \in GroupOf(ps, "task", j) => k = j
    BY DEF GroupOf
  <1>5. IsFiniteSet(T)
    <2> DEFINE h == [p \in ps |-> p.task]
               S == {p.task : p \in ps}
    <2>1. IsFiniteSet(ps) /\ h \in Surjection(ps, S)
      BY FactsAssumption, FS_Subset DEF Surjection
    <2> HIDE DEF h
    <2>2. IsFiniteSet(S)
      BY <2>1, FS_Surjection
    <2>3. T \in SUBSET S
      BY DEF TasksOf
    <2> QED
      BY <2>2, <2>3, FS_Subset
  <1>6. f \in Bijection(T, G)
    <2>1. f \in [T -> G]
      BY <1>2
    <2>2. \A k, j \in T : f[k] = f[j] => k = j
      BY <1>1, <1>4
    <2>3. \A g \in G : \E k \in T : f[k] = g
      BY <1>3
    <2> QED
      BY <2>1, <2>2, <2>3 DEF Bijection, Injection, Surjection, IsInjective
  <1>7. ExistsBijection(T, G)
    BY <1>6 DEF ExistsBijection
  <1>8. IsFiniteSet(G) /\ Cardinality(G) = Cardinality(T)
    BY <1>5, <1>7, FS_Bijection
  <1> QED
    BY <1>1, <1>2, <1>3, <1>4, <1>5, <1>8

\* Tasks are ordered by what they cost, and Sorted lists them.
LEMMA TaskOrders ==
    ASSUME NEW ps \in SUBSET Payments
    PROVE  LET G == GroupBy(ps, "task") IN
           /\ OrderedBy(CheaperTaskOf(G), G)
           /\ \A g, h \in G : <<g, h>> \in CheaperTaskOf(G) <=> CheaperTask(g, h)
           /\ Lists(Sorted(G, CheaperTask), CheaperTaskOf(G), G)
  <1> DEFINE G == GroupBy(ps, "task")
             R == CheaperTaskOf(G)
             n == Cardinality(G)
  <1>1. \A g, h \in G : <<g, h>> \in R <=> CheaperTask(g, h)
    BY DEF CheaperTaskOf
  <1>2. \A g \in G : Spent(g) \in Nat /\ First(g) \in g /\ First(g) \in Payments
    <2> TAKE g \in G
    <2>1. g \in SUBSET Payments /\ g # {}
      BY TaskGroups
    <2> QED
      BY <2>1, SpentGrows, FirstIs
  <1>3. \A g, h \in G : g # h => First(g) # First(h)
    <2> SUFFICES ASSUME NEW g \in G, NEW h \in G, First(g) = First(h) PROVE g = h
      OBVIOUS
    <2>1. PICK k : g = GroupOf(ps, "task", k)
      BY GroupIs
    <2>2. PICK j : h = GroupOf(ps, "task", j)
      BY GroupIs
    <2>3. First(g) \in GroupOf(ps, "task", k) /\ First(g) \in GroupOf(ps, "task", j)
      BY <1>2, <2>1, <2>2
    <2>4. k = j
      BY <2>3 DEF GroupOf
    <2> QED
      BY <2>1, <2>2, <2>4
  <1>4. \A p, q \in Payments : p # q => Earlier(p, q) \/ Earlier(q, p)
    BY FactsAssumption DEF Earlier
  <1>5. \A p, q, r \in Payments : Earlier(p, q) /\ Earlier(q, r) => Earlier(p, r)
    BY FactsAssumption DEF Earlier
  <1>6. \A p \in Payments : ~Earlier(p, p)
    BY FactsAssumption DEF Earlier
  <1> HIDE DEF G, R
  <1>7. \A g \in G : ~CheaperTask(g, g)
    BY <1>2, <1>6 DEF CheaperTask
  <1>8. \A g, h \in G : g # h => CheaperTask(g, h) \/ CheaperTask(h, g)
    BY <1>2, <1>3, <1>4 DEF CheaperTask
  <1>9. \A g, h, i \in G : CheaperTask(g, h) /\ CheaperTask(h, i) => CheaperTask(g, i)
    BY <1>2, <1>5 DEF CheaperTask
  <1>10. OrderedBy(R, G)
    BY <1>1, <1>7, <1>8, <1>9 DEF OrderedBy
  <1>11. IsFiniteSet(G)
    BY TaskGroups DEF G
  <1>12. ASSUME NEW x \in G
         PROVE  Cardinality({y \in G : CheaperTask(y, x)}) = Rank(R, G, x)
    <2>1. {y \in G : CheaperTask(y, x)} = Below(R, G, x)
      BY <1>1 DEF Below
    <2> QED
      BY <2>1 DEF Rank
  <1>13. \A i \in 1..n : \E x \in G : Cardinality({y \in G : CheaperTask(y, x)}) = i - 1
    BY <1>10, <1>11, <1>12, RankIsTaken
  <1>14. Sorted(G, CheaperTask) = [i \in 1..n |->
            CHOOSE x \in G : Cardinality({y \in G : CheaperTask(y, x)}) = i - 1]
    BY DEF Sorted
  <1>15. Lists(Sorted(G, CheaperTask), R, G)
    BY <1>12, <1>13, <1>14 DEF Lists
  <1> QED
    BY <1>1, <1>10, <1>15 DEF G, R

\* g is the dearest of at least four tasks, m the median one, and g costs three times
\* what m does.
Baseline(ps, g, m) ==
    LET G == GroupBy(ps, "task")
        R == CheaperTaskOf(G)
    IN  /\ g \in G /\ m \in G /\ Cardinality(G) >= 4
        /\ Rank(R, G, g) = Cardinality(G) - 1
        /\ Rank(R, G, m) = Cardinality(G) \div 2
        /\ Spent(g) >= Spent(m) * 3

BaselineFacts(ps, g, m) ==
    [task |-> KeyOf(g, "task"), spent |-> Spent(g), median |-> Spent(m),
     size |-> Cardinality(GroupBy(ps, "task")), payments |-> Ids(g)]

\* The facts of a baseline hold the payments of the dearest task, and the median.
LEMMA BaselineIdIs ==
    ASSUME NEW ps \in SUBSET Payments, NEW id
    PROVE  id \in IdsIn(BaselineRules(ps))
             <=> \E g, m : Baseline(ps, g, m) /\ id = <<"task_baseline", BaselineFacts(ps, g, m)>>
  <1> DEFINE G == GroupBy(ps, "task")
             R == CheaperTaskOf(G)
             n == Cardinality(G)
             f == Sorted(G, CheaperTask)
             large == Last(f)
             middle == Median(f)
             cheap == Len(f) < 4 \/ Spent(large) < Spent(middle) * 3
             rule == Rule(<<"task_baseline",
                            [task |-> KeyOf(large, "task"), spent |-> Spent(large),
                             median |-> Spent(middle), size |-> Len(f),
                             payments |-> Ids(large)]>>,
                          "medium", First(large).wallet, KeyOf(large, "task"))
  <1>1. IsFiniteSet(G) /\ OrderedBy(R, G) /\ Lists(f, R, G)
    BY TaskGroups, TaskOrders
  <1>2. Len(f) = n /\ n \in Nat
    BY <1>1, Listed
  <1>3. BaselineRules(ps) = IF cheap THEN {} ELSE {rule}
    BY DEF BaselineRules
  <1>4. rule.id = <<"task_baseline",
                    [task |-> KeyOf(large, "task"), spent |-> Spent(large),
                     median |-> Spent(middle), size |-> Len(f), payments |-> Ids(large)]>>
    BY RuleId
  <1>5. id \in IdsIn(BaselineRules(ps)) <=> ~cheap /\ id = rule.id
    <2> HIDE DEF cheap, rule
    <2> QED
      BY <1>3 DEF IdsIn
  <1>6. ASSUME n >= 4
        PROVE  /\ large \in G /\ Rank(R, G, large) = n - 1
               /\ middle \in G /\ Rank(R, G, middle) = n \div 2
    <2>1. n \in 1..n /\ (n \div 2) + 1 \in 1..n /\ ((n \div 2) + 1) - 1 = n \div 2
      BY <1>2, <1>6
    <2>2. f \in [1..n -> G] /\ \A i \in 1..n : Rank(R, G, f[i]) = i - 1
      BY <1>1 DEF Lists
    <2>3. large = f[n] /\ middle = f[(n \div 2) + 1]
      BY <1>2 DEF Last, Median
    <2> HIDE DEF large, middle, f, G, n, R
    <2> QED
      BY <2>1, <2>2, <2>3
  <1>7. \A g \in G : Spent(g) \in Nat
    <2> TAKE g \in G
    <2>1. g \in SUBSET Payments
      BY TaskGroups
    <2> QED
      BY <2>1, SpentGrows
  <1> HIDE DEF large, middle, rule, f
  <1>8. ASSUME ~cheap
        PROVE  Baseline(ps, large, middle)
    <2>1. n >= 4
      BY <1>2, <1>8
    <2>2. Spent(large) >= Spent(middle) * 3
      BY <1>6, <1>7, <1>8, <2>1
    <2> QED
      BY <1>6, <2>1, <2>2 DEF Baseline
  <1>9. ASSUME NEW g, NEW m, Baseline(ps, g, m)
        PROVE  ~cheap /\ g = large /\ m = middle
    <2>1. /\ g \in G /\ m \in G /\ n >= 4 /\ Spent(g) >= Spent(m) * 3
          /\ Rank(R, G, g) = n - 1 /\ Rank(R, G, m) = n \div 2
      BY <1>9 DEF Baseline
    <2>2. g = large /\ m = middle
      <3>1. /\ Rank(R, G, g) = Rank(R, G, large) /\ large \in G
            /\ Rank(R, G, m) = Rank(R, G, middle) /\ middle \in G
        BY <1>6, <2>1
      <3> HIDE DEF R, G
      <3> QED
        BY <1>1, <2>1, <3>1, RankOrders
    <2> QED
      BY <1>2, <1>7, <2>1, <2>2
  <1>10. rule.id = <<"task_baseline", BaselineFacts(ps, large, middle)>>
    BY <1>2, <1>4 DEF BaselineFacts
  <1> QED
    BY <1>5, <1>8, <1>9, <1>10

\* With the same tasks, the task at a given place costs more when there are more
\* payments.
LEMMA MedianGrows ==
    ASSUME NEW qs \in SUBSET Payments, NEW ps \in SUBSET qs, TasksOf(ps) = TasksOf(qs),
           NEW m \in GroupBy(ps, "task"), NEW d \in GroupBy(qs, "task"),
           Rank(CheaperTaskOf(GroupBy(ps, "task")), GroupBy(ps, "task"), m)
             = Rank(CheaperTaskOf(GroupBy(qs, "task")), GroupBy(qs, "task"), d)
    PROVE  Spent(m) <= Spent(d)
  <1> DEFINE G == GroupBy(ps, "task")
             H == GroupBy(qs, "task")
             R == CheaperTaskOf(G)
             Q == CheaperTaskOf(H)
             T == TasksOf(qs)
  <1>1. ps \in SUBSET Payments
    OBVIOUS
  <1>2. /\ IsFiniteSet(G) /\ OrderedBy(R, G) /\ IsFiniteSet(H) /\ OrderedBy(Q, H)
        /\ \A g, h \in G : <<g, h>> \in R <=> CheaperTask(g, h)
        /\ \A g, h \in H : <<g, h>> \in Q <=> CheaperTask(g, h)
    BY <1>1, TaskGroups, TaskOrders
  <1>3. /\ \A g \in G : Spent(g) \in Nat
        /\ \A h \in H : Spent(h) \in Nat
    <2>1. \A g \in G : g \in SUBSET Payments
      BY <1>1, TaskGroups
    <2>2. \A h \in H : h \in SUBSET Payments
      BY TaskGroups
    <2> QED
      BY <2>1, <2>2, SpentGrows
  <1> SUFFICES ASSUME Spent(d) < Spent(m) PROVE FALSE
    BY <1>3
  <1> DEFINE low == Below(Q, H, d) \cup {d}
             keyOf(h) == CHOOSE k \in T : h = GroupOf(qs, "task", k)
             was == [h \in low |-> GroupOf(ps, "task", keyOf(h))]
  <1>4. \A h \in H : keyOf(h) \in T /\ h = GroupOf(qs, "task", keyOf(h))
    BY TaskGroups
  <1>5. low \in SUBSET H /\ \A h \in low : Spent(h) <= Spent(d)
    BY <1>2, <1>3 DEF Below, CheaperTask
  <1> HIDE DEF low, keyOf
  <1>6. ASSUME NEW h \in low
        PROVE  was[h] \in Below(R, G, m)
    <2> DEFINE g == GroupOf(ps, "task", keyOf(h))
    <2>1. h \in H /\ keyOf(h) \in T /\ h = GroupOf(qs, "task", keyOf(h))
      BY <1>4, <1>5
    <2>2. g \in G
      BY <1>1, <2>1, TaskGroups
    <2>3. g \in SUBSET h /\ h \in SUBSET Payments
      BY <2>1 DEF GroupOf
    <2>4. Spent(g) <= Spent(h) /\ Spent(h) <= Spent(d)
      BY <1>5, <2>3, SpentGrows
    <2>5. Spent(g) < Spent(m)
      BY <1>3, <2>1, <2>2, <2>4
    <2> HIDE DEF g, G, R
    <2>6. <<g, m>> \in R
      BY <1>2, <2>2, <2>5 DEF CheaperTask, G
    <2>7. g \in Below(R, G, m)
      BY <2>2, <2>6 DEF Below
    <2> QED
      BY <2>7 DEF g
  <1>7. ASSUME NEW g \in low, NEW h \in low, was[g] = was[h]
        PROVE  g = h
    <2>1. /\ keyOf(g) \in T /\ g = GroupOf(qs, "task", keyOf(g))
          /\ keyOf(h) \in T /\ h = GroupOf(qs, "task", keyOf(h))
      BY <1>4, <1>5
    <2>2. GroupOf(ps, "task", keyOf(g)) = GroupOf(ps, "task", keyOf(h))
      BY <1>7
    <2>3. GroupOf(ps, "task", keyOf(g)) # {}
      BY <1>1, <2>1, TaskGroups
    <2>4. keyOf(g) = keyOf(h)
      BY <2>2, <2>3 DEF GroupOf
    <2> QED
      BY <2>1, <2>4
  <1>8. was \in Injection(low, Below(R, G, m))
    BY <1>6, <1>7 DEF Injection, IsInjective
  <1>9. IsFiniteSet(Below(R, G, m)) /\ IsFiniteSet(Below(Q, H, d))
    BY <1>2, FS_Subset DEF Below
  <1>10. Cardinality(low) <= Cardinality(Below(R, G, m))
    BY <1>8, <1>9, FS_Injection
  <1>11. d \notin Below(Q, H, d)
    BY <1>2 DEF Below, OrderedBy
  <1>12. Cardinality(low) = Cardinality(Below(Q, H, d)) + 1
    BY <1>9, <1>11, FS_AddElement DEF low
  <1>13. /\ Cardinality(Below(R, G, m)) = Cardinality(Below(Q, H, d))
         /\ Cardinality(Below(Q, H, d)) \in Nat
    BY <1>9, FS_CardinalityType DEF Rank
  <1> QED
    BY <1>10, <1>12, <1>13

\* Whatever has the last rank is above all the others.
LEMMA LastIsAbove ==
    ASSUME NEW R, NEW S, IsFiniteSet(S), OrderedBy(R, S), NEW g \in S,
           Rank(R, S, g) = Cardinality(S) - 1
    PROVE  \A x \in S \ {g} : <<x, g>> \in R
  <1> SUFFICES ASSUME NEW x \in S \ {g} PROVE <<x, g>> \in R
    OBVIOUS
  <1>1. Rank(R, S, x) \in 0..(Cardinality(S) - 1) /\ Cardinality(S) \in Nat
    BY RankType, FS_CardinalityType
  <1>2. <<g, x>> \in R <=> Rank(R, S, g) < Rank(R, S, x)
    BY RankOrders
  <1>3. <<g, x>> \notin R
    BY <1>1, <1>2
  <1> QED
    BY <1>3 DEF OrderedBy

\* The largest task keeps its payments and the median its cost: both stay in place.
LEMMA BaselineBetween ==
    ASSUME NEW rs \in SUBSET Payments, NEW qs \in SUBSET rs, NEW ps \in SUBSET qs,
           NEW id, id \in IdsIn(BaselineRules(ps)), id \in IdsIn(BaselineRules(rs))
    PROVE  id \in IdsIn(BaselineRules(qs))
  <1> DEFINE G(x) == GroupBy(x, "task")
             R(x) == CheaperTaskOf(G(x))
             n == Cardinality(G(qs))
  <1>1. ps \in SUBSET Payments /\ qs \in SUBSET Payments
    OBVIOUS
  <1>2. PICK g, m : Baseline(ps, g, m) /\ id = <<"task_baseline", BaselineFacts(ps, g, m)>>
    BY <1>1, BaselineIdIs
  <1>3. PICK h, d : Baseline(rs, h, d) /\ id = <<"task_baseline", BaselineFacts(rs, h, d)>>
    BY BaselineIdIs
  <1>4. BaselineFacts(ps, g, m) = BaselineFacts(rs, h, d)
    BY <1>2, <1>3
  <1>5. /\ Ids(g) = Ids(h) /\ Spent(m) = Spent(d)
        /\ Cardinality(G(ps)) = Cardinality(G(rs))
    BY <1>4 DEF BaselineFacts
  <1>6. g = h
    <2>1. g \in G(ps) /\ h \in G(rs)
      BY <1>2, <1>3 DEF Baseline
    <2>2. g \in SUBSET Payments /\ h \in SUBSET Payments
      BY <1>1, <2>1, TaskGroups
    <2> QED
      BY <1>5, <2>2, IdsAreUnique
  <1>7. TasksOf(ps) = TasksOf(qs) /\ TasksOf(qs) = TasksOf(rs)
    <2>1. TasksOf(ps) \in SUBSET TasksOf(qs) /\ TasksOf(qs) \in SUBSET TasksOf(rs)
      BY DEF TasksOf
    <2>2. /\ IsFiniteSet(TasksOf(rs))
          /\ Cardinality(TasksOf(ps)) = Cardinality(TasksOf(rs))
      BY <1>1, <1>5, TaskGroups
    <2>3. TasksOf(ps) = TasksOf(rs)
      BY <2>1, <2>2, FS_Subset
    <2> QED
      BY <2>1, <2>3
  <1>8. Cardinality(G(ps)) = n /\ Cardinality(G(rs)) = n
    BY <1>1, <1>7, TaskGroups
  <1>9. /\ IsFiniteSet(G(qs)) /\ OrderedBy(R(qs), G(qs)) /\ n \in Nat
        /\ IsFiniteSet(G(rs)) /\ OrderedBy(R(rs), G(rs))
        /\ \A x, y \in G(qs) : <<x, y>> \in R(qs) <=> CheaperTask(x, y)
        /\ \A x, y \in G(rs) : <<x, y>> \in R(rs) <=> CheaperTask(x, y)
    BY <1>1, TaskGroups, TaskOrders, FS_CardinalityType
  <1>10. /\ g \in G(ps) /\ m \in G(ps) /\ n >= 4 /\ g \in G(rs) /\ d \in G(rs)
         /\ Rank(R(ps), G(ps), m) = n \div 2 /\ Rank(R(rs), G(rs), d) = n \div 2
         /\ Rank(R(rs), G(rs), g) = n - 1
         /\ Spent(g) >= Spent(m) * 3
    BY <1>2, <1>3, <1>6, <1>8 DEF Baseline
  <1>11. g \in G(qs)
    BY <1>10, GroupBetween
  <1>12. \A x \in G(rs) \ {g} : CheaperTask(x, g)
    <2>1. /\ IsFiniteSet(G(rs)) /\ OrderedBy(R(rs), G(rs)) /\ g \in G(rs)
          /\ Rank(R(rs), G(rs), g) = Cardinality(G(rs)) - 1
      BY <1>8, <1>9, <1>10
    <2>2. \A x \in G(rs) \ {g} : <<x, g>> \in R(rs)
      <3> HIDE DEF R, G
      <3> QED
        BY <2>1, LastIsAbove
    <2> QED
      BY <1>9, <1>10, <2>2
  <1>13. \A x \in G(qs) \ {g} : CheaperTask(x, g)
    <2> SUFFICES ASSUME NEW x \in G(qs) \ {g} PROVE CheaperTask(x, g)
      OBVIOUS
    <2>1. PICK k \in TasksOf(qs) : x = GroupOf(qs, "task", k)
      BY <1>1, TaskGroups
    <2> DEFINE y == GroupOf(rs, "task", k)
    <2>2. y \in G(rs) /\ x \in SUBSET y /\ y \in SUBSET Payments
      BY <1>7, <2>1, TaskGroups DEF GroupOf
    <2>3. y # g
      <3>1. PICK j : g = GroupOf(rs, "task", j)
        BY <1>10, GroupIs
      <3>2. PICK l : l # None /\ g # {} /\ g = GroupOf(qs, "task", l)
        BY <1>11, GroupIs
      <3> QED
        BY <2>1, <3>1, <3>2 DEF GroupOf
    <2> HIDE DEF y
    <2>4. CheaperTask(y, g)
      BY <1>12, <2>2, <2>3
    <2>5. Spent(x) \in Nat /\ Spent(y) \in Nat /\ Spent(x) <= Spent(y)
          /\ (Spent(x) = Spent(y) => x = y)
      BY <2>2, SpentGrows
    <2>6. Spent(g) \in Nat
      <3>1. g \in SUBSET Payments
        BY <1>1, <1>11, TaskGroups
      <3> QED
        BY <3>1, SpentGrows
    <2> QED
      BY <2>4, <2>5, <2>6 DEF CheaperTask
  <1>14. Rank(R(qs), G(qs), g) = n - 1
    <2>1. Below(R(qs), G(qs), g) = G(qs) \ {g}
      BY <1>9, <1>11, <1>13 DEF Below, OrderedBy
    <2>2. Cardinality(G(qs) \ {g}) = n - 1
      BY <1>9, <1>11, FS_RemoveElement
    <2> QED
      BY <2>1, <2>2 DEF Rank
  <1>15. PICK c \in G(qs) : Rank(R(qs), G(qs), c) = n \div 2
    <2>1. (n \div 2) + 1 \in 1..n /\ ((n \div 2) + 1) - 1 = n \div 2
      BY <1>9, <1>10
    <2>2. \E c \in G(qs) : Rank(R(qs), G(qs), c) = ((n \div 2) + 1) - 1
      BY <1>9, <2>1, RankIsTaken
    <2> QED
      BY <2>1, <2>2
  <1>16. Spent(c) = Spent(m)
    <2>1. Spent(m) <= Spent(c)
      BY <1>1, <1>7, <1>10, <1>15, MedianGrows
    <2>2. Spent(c) <= Spent(d)
      BY <1>7, <1>10, <1>15, MedianGrows
    <2>3. Spent(c) \in Nat /\ Spent(m) \in Nat
      <3>1. c \in SUBSET Payments /\ m \in SUBSET Payments
        BY <1>1, <1>10, <1>15, TaskGroups
      <3> QED
        BY <3>1, SpentGrows
    <2> QED
      BY <1>5, <2>1, <2>2, <2>3
  <1>17. Baseline(qs, g, c)
    BY <1>10, <1>11, <1>14, <1>15, <1>16 DEF Baseline
  <1>18. BaselineFacts(qs, g, c) = BaselineFacts(ps, g, m)
    BY <1>8, <1>16 DEF BaselineFacts
  <1> QED
    BY <1>1, <1>2, <1>17, <1>18, BaselineIdIs

-------------------------------------------------------------------------------
(* What is found before and after is found between.                        *)

\* The rule an id is of.
LEMMA Kinds ==
    ASSUME NEW s, NEW id
    PROVE  /\ id \in IdsIn(BudgetRules(s.payments, RowsOf(s))) => id[1] = "budget"
           /\ id \in IdsIn(ForecastRules(s.payments, RowsOf(s))) => id[1] = "budget_forecast"
           /\ id \in IdsIn(RepeatRules(s.payments)) => id[1] = "repeat_resource"
           /\ id \in IdsIn(PolicyRules(s.payments, s.policies)) => id[1] = "provider_policy"
  <1>1. id \in IdsIn(BudgetRules(s.payments, RowsOf(s))) => id[1] = "budget"
    BY BudgetIdIs
  <1>2. id \in IdsIn(ForecastRules(s.payments, RowsOf(s))) => id[1] = "budget_forecast"
    BY ForecastIdIs
  <1>3. id \in IdsIn(RepeatRules(s.payments)) => id[1] = "repeat_resource"
    BY RepeatIdIs
  <1>4. id \in IdsIn(PolicyRules(s.payments, s.policies)) => id[1] = "provider_policy"
    BY PolicyIdIs
  <1> QED
    BY <1>1, <1>2, <1>3, <1>4

\* The rules that look at payments alone.
LEMMA PaymentKinds ==
    ASSUME NEW ps \in SUBSET Payments, NEW id
    PROVE  /\ id \in IdsIn(VelocityRules(ps)) => id[1] = "velocity"
           /\ id \in IdsIn(SpikeRules(ps)) => id[1] = "price_spike"
           /\ id \in IdsIn(ConcentrationRules(ps)) => id[1] = "concentration"
           /\ id \in IdsIn(BaselineRules(ps)) => id[1] = "task_baseline"
  <1>1. id \in IdsIn(VelocityRules(ps)) => id[1] = "velocity"
    BY VelocityIdIs
  <1>2. id \in IdsIn(BaselineRules(ps)) => id[1] = "task_baseline"
    BY BaselineIdIs
  <1>3. ASSUME id \in IdsIn(SpikeRules(ps))
        PROVE  id[1] = "price_spike"
    <2>1. PICK w \in GroupBy(ps, "wallet") : \E rule \in SpikesOf(w) : id = rule.id
      BY <1>3 DEF IdsIn, SpikeRules
    <2> DEFINE f == Sorted(w, Cheaper)
    <2>2. id = Rule(<<"price_spike",
                      [wallet |-> Last(f).wallet, payment |-> Last(f).id,
                       median |-> Median(f).amount, size |-> Len(f)]>>,
                    "medium", Last(f).wallet, Last(f).task).id
      BY <2>1 DEF SpikesOf
    <2> HIDE DEF f
    <2>3. id = <<"price_spike",
                 [wallet |-> Last(f).wallet, payment |-> Last(f).id,
                  median |-> Median(f).amount, size |-> Len(f)]>>
      BY <2>2, RuleId
    <2> QED
      BY <2>3
  <1>4. ASSUME id \in IdsIn(ConcentrationRules(ps))
        PROVE  id[1] = "concentration"
    BY <1>4, ConcentrationIs
  <1> QED
    BY <1>1, <1>2, <1>3, <1>4

\* What is found is what one of the eight rules finds.
LEMMA FoundIn ==
    ASSUME NEW s, NEW id
    PROVE  id \in FoundAt(s) <=>
             \/ id \in IdsIn(BudgetRules(s.payments, RowsOf(s)))
             \/ id \in IdsIn(ForecastRules(s.payments, RowsOf(s)))
             \/ id \in IdsIn(RepeatRules(s.payments))
             \/ id \in IdsIn(VelocityRules(s.payments))
             \/ id \in IdsIn(SpikeRules(s.payments))
             \/ id \in IdsIn(PolicyRules(s.payments, s.policies))
             \/ id \in IdsIn(ConcentrationRules(s.payments))
             \/ id \in IdsIn(BaselineRules(s.payments))
  BY DEF FoundAt, IdsIn, EvaluatePersistentRisks

\* An id that is found before and after is found between.
LEMMA FoundBetween ==
    ASSUME NEW s, NEW t, NEW u, InBetween(s, t, u), NEW id,
           id \in FoundAt(s), id \in FoundAt(u)
    PROVE  id \in FoundAt(t)
  <1> DEFINE ps == s.payments
             qs == t.payments
             rs == u.payments
  <1>1. rs \in SUBSET Payments /\ qs \in SUBSET rs /\ ps \in SUBSET qs /\ ps \in SUBSET Payments
    BY DEF InBetween, Snapshot, Before
  <1>2. CASE id \in IdsIn(BudgetRules(ps, RowsOf(s)))
    <2>1. id[1] = "budget"
      BY <1>2, Kinds
    <2>2. id \in IdsIn(BudgetRules(rs, RowsOf(u)))
      BY <1>1, <2>1, FoundIn, Kinds, PaymentKinds
    <2>3. id \in IdsIn(BudgetRules(qs, RowsOf(t)))
      BY <1>2, <2>2, BudgetBetween
    <2> QED
      BY <2>3, FoundIn
  <1>3. CASE id \in IdsIn(ForecastRules(ps, RowsOf(s)))
    <2>1. id[1] = "budget_forecast"
      BY <1>3, Kinds
    <2>2. id \in IdsIn(ForecastRules(rs, RowsOf(u)))
      BY <1>1, <2>1, FoundIn, Kinds, PaymentKinds
    <2>3. id \in IdsIn(ForecastRules(qs, RowsOf(t)))
      BY <1>3, <2>2, ForecastBetween
    <2> QED
      BY <2>3, FoundIn
  <1>4. CASE id \in IdsIn(RepeatRules(ps))
    <2>1. id[1] = "repeat_resource"
      BY <1>4, Kinds
    <2>2. id \in IdsIn(RepeatRules(rs))
      BY <1>1, <2>1, FoundIn, Kinds, PaymentKinds
    <2>3. id \in IdsIn(RepeatRules(qs))
      BY <1>1, <1>4, <2>2, RepeatBetween
    <2> QED
      BY <2>3, FoundIn
  <1>5. CASE id \in IdsIn(VelocityRules(ps))
    <2>1. id[1] = "velocity"
      BY <1>1, <1>5, PaymentKinds
    <2>2. id \in IdsIn(VelocityRules(rs))
      BY <1>1, <2>1, FoundIn, Kinds, PaymentKinds
    <2>3. id \in IdsIn(VelocityRules(qs))
      BY <1>1, <1>5, <2>2, VelocityBetween
    <2> QED
      BY <2>3, FoundIn
  <1>6. CASE id \in IdsIn(SpikeRules(ps))
    <2>1. id[1] = "price_spike"
      BY <1>1, <1>6, PaymentKinds
    <2>2. id \in IdsIn(SpikeRules(rs))
      BY <1>1, <2>1, FoundIn, Kinds, PaymentKinds
    <2>3. id \in IdsIn(SpikeRules(qs))
      BY <1>1, <1>6, <2>2, SpikeBetween
    <2> QED
      BY <2>3, FoundIn
  <1>7. CASE id \in IdsIn(PolicyRules(ps, s.policies))
    <2>1. id[1] = "provider_policy"
      BY <1>7, Kinds
    <2>2. id \in IdsIn(PolicyRules(rs, u.policies))
      BY <1>1, <2>1, FoundIn, Kinds, PaymentKinds
    <2>3. id \in IdsIn(PolicyRules(qs, t.policies))
      BY <1>7, <2>2, PolicyBetween
    <2> QED
      BY <2>3, FoundIn
  <1>8. CASE id \in IdsIn(ConcentrationRules(ps))
    <2>1. id[1] = "concentration"
      BY <1>1, <1>8, PaymentKinds
    <2>2. id \in IdsIn(ConcentrationRules(rs))
      BY <1>1, <2>1, FoundIn, Kinds, PaymentKinds
    <2>3. id \in IdsIn(ConcentrationRules(qs))
      BY <1>1, <1>8, <2>2, ConcentrationBetween
    <2> QED
      BY <2>3, FoundIn
  <1>9. CASE id \in IdsIn(BaselineRules(ps))
    <2>1. id[1] = "task_baseline"
      BY <1>1, <1>9, PaymentKinds
    <2>2. id \in IdsIn(BaselineRules(rs))
      BY <1>1, <2>1, FoundIn, Kinds, PaymentKinds
    <2>3. id \in IdsIn(BaselineRules(qs))
      BY <1>1, <1>9, <2>2, BaselineBetween
    <2> QED
      BY <2>3, FoundIn
  <1> QED
    BY <1>2, <1>3, <1>4, <1>5, <1>6, <1>7, <1>8, <1>9, FoundIn

-------------------------------------------------------------------------------
(* The signal that is followed.                                            *)

\* The facts as they are.
Now == [payments |-> payments, budgets |-> budgets, policies |-> policies]

\* A stored id was found once, and a resolved one has since been missed.
WasFound ==
    stored # None =>
        \E s : /\ Snapshot(s) /\ Before(s, Now) /\ stored.id \in FoundAt(s)
               /\ stored.resolved =>
                    \E t : /\ Snapshot(t) /\ Before(s, t) /\ Before(t, Now)
                           /\ stored.id \notin FoundAt(t)

FactsInv ==
    /\ Snapshot(Now)
    /\ stored # None => stored = [id |-> stored.id, resolved |-> stored.resolved]
    /\ WasFound

\* Snapshots are ordered by time.
LEMMA BeforeIsTransitive ==
    ASSUME NEW s, NEW t, NEW u, Snapshot(s), Snapshot(t), Snapshot(u),
           Before(s, t), Before(t, u)
    PROVE  Before(s, u)
  <1>1. s.payments \subseteq u.payments
    BY DEF Before
  <1>2. ASSUME NEW b \in BudgetIds
        PROVE  /\ s.budgets[b].version <= u.budgets[b].version
               /\ s.budgets[b].version = u.budgets[b].version => s.budgets[b] = u.budgets[b]
    <2>1. /\ s.budgets[b].version \in Nat /\ t.budgets[b].version \in Nat
          /\ u.budgets[b].version \in Nat
      BY DEF Snapshot, StoredBudget
    <2>2. /\ s.budgets[b].version <= t.budgets[b].version
          /\ t.budgets[b].version <= u.budgets[b].version
          /\ s.budgets[b].version = t.budgets[b].version => s.budgets[b] = t.budgets[b]
          /\ t.budgets[b].version = u.budgets[b].version => t.budgets[b] = u.budgets[b]
      BY DEF Before
    <2> QED
      BY <2>1, <2>2
  <1>3. ASSUME NEW k \in Providers, s.policies[k] # None
        PROVE  /\ u.policies[k] # None
               /\ s.policies[k].version <= u.policies[k].version
               /\ s.policies[k].version = u.policies[k].version
                     => s.policies[k] = u.policies[k]
    <2>1. t.policies[k] # None /\ u.policies[k] # None
      BY <1>3 DEF Before
    <2>2. /\ s.policies[k].version \in Nat /\ t.policies[k].version \in Nat
          /\ u.policies[k].version \in Nat
      BY <1>3, <2>1 DEF Snapshot, Policy
    <2>3. /\ s.policies[k].version <= t.policies[k].version
          /\ t.policies[k].version <= u.policies[k].version
          /\ s.policies[k].version = t.policies[k].version => s.policies[k] = t.policies[k]
          /\ t.policies[k].version = u.policies[k].version => t.policies[k] = u.policies[k]
      BY <1>3, <2>1 DEF Before
    <2> QED
      BY <2>1, <2>2, <2>3
  <1> QED
    BY <1>1, <1>2, <1>3 DEF Before

\* A snapshot is not after itself.
LEMMA BeforeItself ==
    ASSUME NEW s, Snapshot(s)
    PROVE  Before(s, s)
  BY DEF Snapshot, Before, StoredBudget, Policy

\* What the facts' own steps preserve.
LEMMA FactsMove ==
    ASSUME FactsInv, Snapshot(Now'), Before(Now, Now'), stored' = stored
    PROVE  FactsInv'
  <1>1. WasFound'
    <2> SUFFICES ASSUME stored # None
                 PROVE  \E s : /\ Snapshot(s) /\ Before(s, Now') /\ stored.id \in FoundAt(s)
                               /\ stored.resolved =>
                                    \E t : /\ Snapshot(t) /\ Before(s, t) /\ Before(t, Now')
                                           /\ stored.id \notin FoundAt(t)
      BY DEF WasFound
    <2>1. PICK s : /\ Snapshot(s) /\ Before(s, Now) /\ stored.id \in FoundAt(s)
                   /\ stored.resolved =>
                        \E t : /\ Snapshot(t) /\ Before(s, t) /\ Before(t, Now)
                               /\ stored.id \notin FoundAt(t)
      BY DEF FactsInv, WasFound
    <2>2. Before(s, Now')
      BY <2>1, BeforeIsTransitive DEF FactsInv
    <2>3. stored.resolved =>
            \E t : /\ Snapshot(t) /\ Before(s, t) /\ Before(t, Now')
                   /\ stored.id \notin FoundAt(t)
      BY <2>1, BeforeIsTransitive DEF FactsInv
    <2> QED
      BY <2>1, <2>2, <2>3
  <1> QED
    BY <1>1 DEF FactsInv

\* Every change of a fact leads from one snapshot to a later one.
LEMMA IngestMoves ==
    ASSUME FactsInv, NEW p \in Payments, Ingest(p)
    PROVE  FactsInv'
  <1>1. Snapshot(Now') /\ Before(Now, Now')
    BY DEF FactsInv, Snapshot, Before, Now, Ingest, StoredBudget, Policy
  <1> QED
    BY <1>1, FactsMove DEF Ingest

\* A new version of a budget comes after the old one.
LEMMA UpdateBudgetMoves ==
    ASSUME FactsInv, NEW b \in BudgetIds, NEW status \in {"active", "paused"},
           UpdateBudget(b, status)
    PROVE  FactsInv'
  <1>1. /\ budgets \in [BudgetIds -> StoredBudget] /\ \A c \in BudgetIds : budgets[c].id = c
        /\ budgets' = [budgets EXCEPT ![b] = [budgets[b] EXCEPT !.status = status,
                                                                !.version = @ + 1]]
    BY DEF FactsInv, Snapshot, Now, UpdateBudget
  <1> DEFINE row == [budgets[b] EXCEPT !.status = status, !.version = @ + 1]
  <1>2. row \in StoredBudget /\ row.id = b /\ row.version = budgets[b].version + 1
    <2>1. budgets[b] \in StoredBudget /\ budgets[b].id = b
      BY <1>1
    <2>2. \A v \in Nat \ {0} : v + 1 \in Nat \ {0}
      OBVIOUS
    <2>3. budgets[b].version \in Nat \ {0}
      BY <2>1 DEF StoredBudget
    <2> DEFINE next == budgets[b].version + 1
    <2>4. next \in Nat \ {0}
      BY <2>2, <2>3
    <2>5. row = [budgets[b] EXCEPT !.status = status, !.version = next]
      BY <2>1 DEF StoredBudget
    <2> HIDE DEF next
    <2>6. [budgets[b] EXCEPT !.status = status, !.version = next] \in StoredBudget
      BY <2>1, <2>4 DEF StoredBudget
    <2>7. /\ [budgets[b] EXCEPT !.status = status, !.version = next].id = b
          /\ [budgets[b] EXCEPT !.status = status, !.version = next].version = next
      BY <2>1 DEF StoredBudget
    <2> QED
      BY <2>5, <2>6, <2>7 DEF next
  <1>3. /\ budgets' \in [BudgetIds -> StoredBudget] /\ \A c \in BudgetIds : budgets'[c].id = c
        /\ budgets'[b].version = budgets[b].version + 1
        /\ \A c \in BudgetIds \ {b} : budgets'[c] = budgets[c]
    BY <1>1, <1>2
  <1>4. \A c \in BudgetIds : budgets[c].version \in Nat
    BY <1>1 DEF StoredBudget
  <1>5. UNCHANGED <<payments, policies, stored>>
    BY DEF UpdateBudget
  <1>6. Snapshot(Now')
    BY <1>3, <1>5 DEF FactsInv, Snapshot, Now
  <1>7. Before(Now, Now')
    BY <1>3, <1>4, <1>5 DEF FactsInv, Snapshot, Before, Now, Policy
  <1> QED
    BY <1>5, <1>6, <1>7, FactsMove

\* A new version of a policy comes after the old one.
LEMMA SetPolicyMoves ==
    ASSUME FactsInv, NEW k \in Providers, NEW d \in Decisions, NEW v, SetPolicy(k, d, v)
    PROVE  FactsInv'
  <1>1. /\ policies \in [Providers -> Policy \cup {None}]
        /\ policies' = [policies EXCEPT ![k] = NextPolicy(k, d)]
        /\ UNCHANGED <<payments, budgets, stored>>
    BY DEF FactsInv, Snapshot, Now, SetPolicy
  <1>2. /\ NextPolicy(k, d) \in Policy
        /\ policies[k] # None => NextPolicy(k, d).version = policies[k].version + 1
    BY <1>1 DEF NextPolicy, Policy
  <1>3. /\ policies' \in [Providers -> Policy \cup {None}]
        /\ policies'[k] = NextPolicy(k, d)
        /\ \A j \in Providers \ {k} : policies'[j] = policies[j]
        /\ NextPolicy(k, d) # None
    BY <1>1, <1>2, FactsAssumption
  <1>4. \A j \in Providers : policies[j] # None => policies[j].version \in Nat
    BY <1>1 DEF Policy
  <1>5. Snapshot(Now')
    BY <1>1, <1>3 DEF FactsInv, Snapshot, Now
  <1>6. Before(Now, Now')
    BY <1>1, <1>2, <1>3, <1>4 DEF FactsInv, Snapshot, Before, Now, StoredBudget
  <1> QED
    BY <1>1, <1>5, <1>6, FactsMove

\* An analysis reads the facts as they are.
LEMMA NowFinds == CurrentIds = FoundAt(Now)
  BY DEF CurrentIds, Current, Rows, FoundAt, IdsIn, RowsOf, Now

\* The signal that is followed is found when it is stored.
LEMMA StoreMoves ==
    ASSUME FactsInv, Store
    PROVE  FactsInv'
  <1>1. PICK id \in CurrentIds : stored' = [id |-> id, resolved |-> FALSE]
    BY DEF Store
  <1>2. Now' = Now
    BY DEF Store, Now
  <1>3. Snapshot(Now) /\ Before(Now, Now) /\ id \in FoundAt(Now)
    BY NowFinds, BeforeItself DEF FactsInv
  <1>4. stored'.id = id /\ stored'.resolved = FALSE
    BY <1>1
  <1>5. WasFound'
    BY <1>2, <1>3, <1>4 DEF WasFound
  <1> QED
    BY <1>1, <1>2, <1>3, <1>4, <1>5 DEF FactsInv

\* A signal that is resolved is missed at that moment.
LEMMA ResolveMoves ==
    ASSUME FactsInv, Resolve
    PROVE  FactsInv'
  <1>1. /\ stored # None /\ stored.id \notin FoundAt(Now)
        /\ stored' = [id |-> stored.id, resolved |-> TRUE]
    BY NowFinds DEF Resolve, FactsInv
  <1>2. Now' = Now
    BY DEF Resolve, Now
  <1>3. PICK s : Snapshot(s) /\ Before(s, Now) /\ stored.id \in FoundAt(s)
    BY <1>1 DEF FactsInv, WasFound
  <1>4. Snapshot(Now) /\ Before(Now, Now)
    BY BeforeItself DEF FactsInv
  <1>5. stored'.id = stored.id /\ stored'.resolved = TRUE
    BY <1>1
  <1>6. WasFound'
    BY <1>1, <1>2, <1>3, <1>4, <1>5 DEF WasFound
  <1> QED
    BY <1>1, <1>2, <1>4, <1>5, <1>6 DEF FactsInv

\* Budgets begin as they were created.
LEMMA FactsInitially == FactsInit => FactsInv
  <1> SUFFICES ASSUME FactsInit PROVE FactsInv
    OBVIOUS
  <1>1. ASSUME NEW b \in BudgetIds
        PROVE  budgets[b] \in StoredBudget /\ budgets[b].id = b
    <2>1. \E row \in Budgets : row.id = b
      BY DEF BudgetIds
    <2> QED
      BY <2>1, FactsAssumption DEF FactsInit
  <1>2. Snapshot(Now)
    BY <1>1 DEF FactsInit, Snapshot, Now
  <1> QED
    BY <1>2 DEF FactsInit, FactsInv, WasFound

\* The invariant of the facts holds in every state.
LEMMA FactsInvariance == FactsSpec => []FactsInv
  <1>1. FactsInv /\ [FactsNext]_factVars => FactsInv'
    <2> SUFFICES ASSUME FactsInv, [FactsNext]_factVars PROVE FactsInv'
      OBVIOUS
    <2>1. ASSUME NEW p \in Payments, Ingest(p) PROVE FactsInv'
      BY <2>1, IngestMoves
    <2>2. ASSUME NEW b \in BudgetIds, NEW s \in {"active", "paused"}, UpdateBudget(b, s)
          PROVE  FactsInv'
      BY <2>2, UpdateBudgetMoves
    <2>3. ASSUME NEW k \in Providers, NEW d \in Decisions, NEW v, SetPolicy(k, d, v)
          PROVE  FactsInv'
      BY <2>3, SetPolicyMoves
    <2>4. CASE UNCHANGED factVars
      <3>1. Now' = Now /\ stored' = stored
        BY <2>4 DEF factVars, Now
      <3> QED
        BY <3>1 DEF FactsInv, WasFound
    <2> QED
      BY <2>1, <2>2, <2>3, <2>4, StoreMoves, ResolveMoves DEF FactsNext
  <1> QED
    BY <1>1, FactsInitially, PTL DEF FactsSpec

\* An analysis that finds no longer what it once found resolves the signal as
\* stale, and no later one finds it again under the same id, however payments,
\* budgets and policies change: upsertSignals, which leaves a resolved signal
\* as it is, hides no risk.
THEOREM ResolvedRisksStayAway == FactsSpec => []ResolvedStaysAway
  <1>1. FactsInv => ResolvedStaysAway
    <2> SUFFICES ASSUME FactsInv, stored # None, stored.resolved,
                        stored.id \in CurrentIds
                 PROVE  FALSE
      BY DEF ResolvedStaysAway
    <2>1. PICK s : /\ Snapshot(s) /\ Before(s, Now) /\ stored.id \in FoundAt(s)
                   /\ stored.resolved =>
                        \E t : /\ Snapshot(t) /\ Before(s, t) /\ Before(t, Now)
                               /\ stored.id \notin FoundAt(t)
      BY DEF FactsInv, WasFound
    <2>2. PICK t : /\ Snapshot(t) /\ Before(s, t) /\ Before(t, Now)
                   /\ stored.id \notin FoundAt(t)
      BY <2>1
    <2>3. InBetween(s, t, Now)
      BY <2>1, <2>2 DEF InBetween, FactsInv
    <2>4. stored.id \in FoundAt(Now)
      BY NowFinds
    <2> QED
      BY <2>1, <2>2, <2>3, <2>4, FoundBetween
  <1> QED
    BY <1>1, FactsInvariance, PTL

-------------------------------------------------------------------------------
(* The rules of an analysis are finitely many, and have ids of their own.  *)

\* The image of a finite set is finite.
LEMMA ImageIsFinite ==
    ASSUME NEW f, NEW S, IsFiniteSet(S), f = [x \in S |-> f[x]]
    PROVE  IsFiniteSet({f[x] : x \in S})
  <1> DEFINE T == {f[x] : x \in S}
  <1>1. f \in Surjection(S, T)
    BY DEF Surjection
  <1> QED
    BY <1>1, FS_Surjection

\* There are finitely many groups, finite and none of them empty.
LEMMA GroupsAreFinite ==
    ASSUME NEW ps \in SUBSET Payments, NEW field
    PROVE  /\ IsFiniteSet(ps)
           /\ IsFiniteSet(GroupBy(ps, field))
           /\ \A g \in GroupBy(ps, field) : g # {} /\ g \in SUBSET ps /\ IsFiniteSet(g)
  <1>1. IsFiniteSet(ps) /\ IsFiniteSet(SUBSET ps)
    BY FactsAssumption, FS_Subset, FS_SUBSET
  <1>2. \A g \in GroupBy(ps, field) : g # {} /\ g \in SUBSET ps
    BY GroupIs DEF GroupOf
  <1>3. GroupBy(ps, field) \in SUBSET SUBSET ps
    BY <1>2
  <1> QED
    BY <1>1, <1>2, <1>3, FS_Subset

\* The rules of budgets are finitely many.
LEMMA BudgetRulesAreFinite ==
    ASSUME NEW s, Snapshot(s)
    PROVE  /\ IsFiniteSet(BudgetRules(s.payments, RowsOf(s)))
           /\ IsFiniteSet(ForecastRules(s.payments, RowsOf(s)))
  <1>1. IsFiniteSet(BudgetIds)
    <2> DEFINE f == [b \in Budgets |-> b.id]
    <2>1. f = [b \in Budgets |-> f[b]] /\ BudgetIds = {f[b] : b \in Budgets}
      BY DEF BudgetIds
    <2> HIDE DEF f
    <2> QED
      BY <2>1, FactsAssumption, ImageIsFinite
  <1>2. IsFiniteSet(RowsOf(s))
    <2>1. s.budgets = [b \in BudgetIds |-> s.budgets[b]]
      BY DEF Snapshot
    <2> QED
      BY <1>1, <2>1, ImageIsFinite DEF RowsOf
  <1>3. IsFiniteSet(BudgetRules(s.payments, RowsOf(s)))
    <2> DEFINE from == {b \in RowsOf(s) : b.status = "active" /\ Warned(s.payments, b)}
               f == [b \in from |-> Rule(<<"budget", BudgetFacts(s.payments, b)>>,
                                         IF Spent(Matching(s.payments, b)) >= b.amount
                                           THEN "high" ELSE "medium",
                                         b.wallet, b.task)]
    <2>1. BudgetRules(s.payments, RowsOf(s)) = {f[b] : b \in from}
      BY DEF BudgetRules
    <2>2. IsFiniteSet(from)
      BY <1>2, FS_Subset
    <2>3. f = [b \in from |-> f[b]]
      OBVIOUS
    <2> HIDE DEF f, from
    <2> QED
      BY <2>1, <2>2, <2>3, ImageIsFinite
  <1>4. IsFiniteSet(ForecastRules(s.payments, RowsOf(s)))
    <2> DEFINE from == {b \in RowsOf(s) : /\ b.status = "active"
                                         /\ ~Warned(s.payments, b)
                                         /\ Overruns(s.payments, b)}
               f == [b \in from |-> Rule(<<"budget_forecast", BudgetFacts(s.payments, b),
                                           Projected(s.payments, b)>>,
                                         "medium", b.wallet, b.task)]
    <2>1. ForecastRules(s.payments, RowsOf(s)) = {f[b] : b \in from}
      BY DEF ForecastRules
    <2>2. IsFiniteSet(from)
      BY <1>2, FS_Subset
    <2>3. f = [b \in from |-> f[b]]
      OBVIOUS
    <2> HIDE DEF f, from
    <2> QED
      BY <2>1, <2>2, <2>3, ImageIsFinite
  <1> QED
    BY <1>3, <1>4

\* So are those of wallets.
LEMMA WalletRulesAreFinite ==
    ASSUME NEW ps \in SUBSET Payments
    PROVE  /\ IsFiniteSet(RepeatRules(ps))
           /\ IsFiniteSet(VelocityRules(ps))
           /\ IsFiniteSet(SpikeRules(ps))
  <1>1. IsFiniteSet(GroupBy(ps, "wallet")) /\ IsFiniteSet(SUBSET ps)
    BY GroupsAreFinite, FS_SUBSET
  <1>2. IsFiniteSet(RepeatRules(ps))
    <2> DEFINE f == [g \in Repeated(ps) |-> Rule(<<"repeat_resource", Ids(g)>>, "medium",
                                                 KeyOf(g, "wallet"), None)]
    <2>1. RepeatRules(ps) = {f[g] : g \in Repeated(ps)}
      BY DEF RepeatRules
    <2>2. Repeated(ps) \in SUBSET SUBSET ps
      <3> SUFFICES ASSUME NEW g \in Repeated(ps) PROVE g \in SUBSET ps
        OBVIOUS
      <3>1. PICK w \in GroupBy(ps, "wallet") : g \in GroupBy(w, "resource")
        BY DEF Repeated
      <3> QED
        BY <3>1, GroupIs DEF GroupOf
    <2>3. f = [g \in Repeated(ps) |-> f[g]] /\ IsFiniteSet(Repeated(ps))
      BY <1>1, <2>2, FS_Subset
    <2> HIDE DEF f
    <2> QED
      BY <2>1, <2>3, ImageIsFinite
  <1>3. IsFiniteSet(VelocityRules(ps))
    <2> DEFINE from == UNION {Windows(w) : w \in GroupBy(ps, "wallet")}
               f == [v \in from |-> Rule(<<"velocity", Ids(v)>>, "high",
                                         KeyOf(v, "wallet"), None)]
    <2>1. VelocityRules(ps) = {f[v] : v \in from}
      BY DEF VelocityRules
    <2>2. from \in SUBSET SUBSET ps
      <3> SUFFICES ASSUME NEW w \in GroupBy(ps, "wallet"), NEW v \in Windows(w)
                   PROVE  v \in SUBSET ps
        OBVIOUS
      <3>1. w \in SUBSET ps /\ w \in SUBSET Payments
        BY GroupsAreFinite
      <3> QED
        BY <3>1, WindowsAre DEF Within
    <2>3. f = [v \in from |-> f[v]] /\ IsFiniteSet(from)
      BY <1>1, <2>2, FS_Subset
    <2> HIDE DEF f, from
    <2> QED
      BY <2>1, <2>3, ImageIsFinite
  <1>4. IsFiniteSet(SpikeRules(ps))
    <2> DEFINE f == [w \in GroupBy(ps, "wallet") |-> SpikesOf(w)]
    <2>1. \A w : IsFiniteSet(SpikesOf(w))
      BY FS_Singleton, FS_EmptySet DEF SpikesOf
    <2>2. /\ f = [w \in GroupBy(ps, "wallet") |-> f[w]]
          /\ SpikeRules(ps) = UNION {f[w] : w \in GroupBy(ps, "wallet")}
          /\ \A w \in GroupBy(ps, "wallet") : IsFiniteSet(f[w])
      BY <2>1 DEF SpikeRules
    <2> HIDE DEF f
    <2>3. IsFiniteSet({f[w] : w \in GroupBy(ps, "wallet")})
      BY <1>1, <2>2, ImageIsFinite
    <2>4. \A T \in {f[w] : w \in GroupBy(ps, "wallet")} : IsFiniteSet(T)
      BY <2>2
    <2> QED
      BY <2>2, <2>3, <2>4, FS_UNION
  <1> QED
    BY <1>2, <1>3, <1>4

\* And those of the whole range.
LEMMA RangeRulesAreFinite ==
    ASSUME NEW ps \in SUBSET Payments, NEW policy
    PROVE  /\ IsFiniteSet(PolicyRules(ps, policy))
           /\ IsFiniteSet(ConcentrationRules(ps))
           /\ IsFiniteSet(BaselineRules(ps))
  <1>1. IsFiniteSet(PolicyRules(ps, policy))
    <2> DEFINE from == {h \in GroupBy(ps, "provider") :
                          Decision(policy, KeyOf(h, "provider")) # "allowed"}
               f == [g \in from |->
                       Rule(<<"provider_policy", PolicyFacts(policy, g)>>,
                            IF Decision(policy, KeyOf(g, "provider")) = "blocked"
                              THEN "high" ELSE "medium",
                            First(g).wallet, None)]
    <2>1. PolicyRules(ps, policy) = {f[g] : g \in from}
      BY DEF PolicyRules
    <2>2. IsFiniteSet(from)
      <3>1. from \in SUBSET GroupBy(ps, "provider") /\ IsFiniteSet(GroupBy(ps, "provider"))
        BY GroupsAreFinite
      <3> HIDE DEF from
      <3> QED
        BY <3>1, FS_Subset
    <2>3. f = [g \in from |-> f[g]]
      OBVIOUS
    <2> HIDE DEF f, from
    <2> QED
      BY <2>1, <2>2, <2>3, ImageIsFinite
  <1>2. IsFiniteSet(ConcentrationRules(ps))
    <2> DEFINE led(field) == [g \in Leaders(ps, field) |->
                  Rule(<<"concentration", field,
                         [value |-> KeyOf(g, field), share |-> Share(g, ps),
                          payments |-> Ids(g), total |-> Spent(ps), spent |-> Spent(g)]>>,
                       IF Share(g, ps) >= 8500 THEN "high" ELSE "medium", None, None)]
               all(field) == {led(field)[g] : g \in Leaders(ps, field)}
    <2>1. ConcentrationRules(ps) = all("provider") \cup all("category")
      BY DEF ConcentrationRules
    <2>2. \A field : led(field) = [g \in Leaders(ps, field) |-> led(field)[g]]
      OBVIOUS
    <2>3. \A field : IsFiniteSet(Leaders(ps, field))
      <3> TAKE field
      <3>1. Leaders(ps, field) \in SUBSET GroupBy(ps, field)
        BY DEF Leaders
      <3> QED
        BY <3>1, GroupsAreFinite, FS_Subset
    <2> HIDE DEF led
    <2>4. IsFiniteSet(all("provider")) /\ IsFiniteSet(all("category"))
      BY <2>2, <2>3, ImageIsFinite
    <2> QED
      BY <2>1, <2>4, FS_Union
  <1>3. IsFiniteSet(BaselineRules(ps))
    BY FS_Singleton, FS_EmptySet DEF BaselineRules
  <1> QED
    BY <1>1, <1>2, <1>3

\* An analysis finds finitely many rules.
LEMMA RulesAreFinite ==
    ASSUME NEW s, Snapshot(s)
    PROVE  IsFiniteSet(EvaluatePersistentRisks(s.payments, RowsOf(s), s.policies))
  <1>1. s.payments \in SUBSET Payments
    BY DEF Snapshot
  <1> DEFINE ps == s.payments
             range == PolicyRules(ps, s.policies)
                        \cup (ConcentrationRules(ps) \cup BaselineRules(ps))
             wallet == RepeatRules(ps) \cup (VelocityRules(ps) \cup SpikeRules(ps))
             budget == BudgetRules(ps, RowsOf(s)) \cup ForecastRules(ps, RowsOf(s))
  <1>2. IsFiniteSet(range)
    BY <1>1, RangeRulesAreFinite, FS_Union
  <1>3. IsFiniteSet(wallet)
    BY <1>1, WalletRulesAreFinite, FS_Union
  <1>4. IsFiniteSet(budget)
    BY BudgetRulesAreFinite, FS_Union
  <1>5. EvaluatePersistentRisks(ps, RowsOf(s), s.policies) = budget \cup (wallet \cup range)
    BY DEF EvaluatePersistentRisks
  <1> HIDE DEF budget, wallet, range
  <1> QED
    BY <1>2, <1>3, <1>4, <1>5, FS_Union

\* Two rules of one kind that have the same id are the same rule.
Distinct(rules) == \A r, q \in rules : r.id = q.id => r = q

\* Rules of one kind have ids of their own.
LEMMA BudgetRulesAreDistinct ==
    ASSUME NEW s, Snapshot(s)
    PROVE  /\ Distinct(BudgetRules(s.payments, RowsOf(s)))
           /\ Distinct(ForecastRules(s.payments, RowsOf(s)))
  <1>1. \A b, c \in RowsOf(s) : b.id = c.id => b = c
    BY DEF RowsOf, Snapshot
  <1>2. \A b : BudgetFacts(s.payments, b).budget = b.id
    BY DEF BudgetFacts
  <1>3. Distinct(BudgetRules(s.payments, RowsOf(s)))
    <2> DEFINE rule(b) == Rule(<<"budget", BudgetFacts(s.payments, b)>>,
                               IF Spent(Matching(s.payments, b)) >= b.amount
                                 THEN "high" ELSE "medium",
                               b.wallet, b.task)
    <2>1. \A r \in BudgetRules(s.payments, RowsOf(s)) : \E b \in RowsOf(s) : r = rule(b)
      BY DEF BudgetRules
    <2>2. \A b : rule(b).id = <<"budget", BudgetFacts(s.payments, b)>>
      BY RuleId
    <2> HIDE DEF rule
    <2>3. \A b, c \in RowsOf(s) : rule(b).id = rule(c).id => b = c
      <3> SUFFICES ASSUME NEW b \in RowsOf(s), NEW c \in RowsOf(s), rule(b).id = rule(c).id
                   PROVE  b = c
        OBVIOUS
      <3>1. BudgetFacts(s.payments, b) = BudgetFacts(s.payments, c)
        BY <2>2
      <3> QED
        BY <1>1, <1>2, <3>1
    <2> QED
      BY <2>1, <2>3 DEF Distinct
  <1>4. Distinct(ForecastRules(s.payments, RowsOf(s)))
    <2> DEFINE rule(b) == Rule(<<"budget_forecast", BudgetFacts(s.payments, b),
                                 Projected(s.payments, b)>>,
                               "medium", b.wallet, b.task)
    <2>1. \A r \in ForecastRules(s.payments, RowsOf(s)) : \E b \in RowsOf(s) : r = rule(b)
      BY DEF ForecastRules
    <2>2. \A b : rule(b).id = <<"budget_forecast", BudgetFacts(s.payments, b),
                                Projected(s.payments, b)>>
      BY RuleId
    <2> HIDE DEF rule
    <2>3. \A b, c \in RowsOf(s) : rule(b).id = rule(c).id => b = c
      <3> SUFFICES ASSUME NEW b \in RowsOf(s), NEW c \in RowsOf(s), rule(b).id = rule(c).id
                   PROVE  b = c
        OBVIOUS
      <3>1. BudgetFacts(s.payments, b) = BudgetFacts(s.payments, c)
        BY <2>2
      <3> QED
        BY <1>1, <1>2, <3>1
    <2> QED
      BY <2>1, <2>3 DEF Distinct
  <1> QED
    BY <1>3, <1>4

\* The rules of wallets have ids of their own.
LEMMA WalletRulesAreDistinct ==
    ASSUME NEW ps \in SUBSET Payments
    PROVE  /\ Distinct(RepeatRules(ps))
           /\ Distinct(VelocityRules(ps))
           /\ Distinct(SpikeRules(ps))
  <1>1. \A w \in GroupBy(ps, "wallet") : w \in SUBSET Payments
    BY GroupIs DEF GroupOf
  <1>2. Distinct(RepeatRules(ps))
    <2> DEFINE rule(g) == Rule(<<"repeat_resource", Ids(g)>>, "medium",
                               KeyOf(g, "wallet"), None)
    <2>1. \A r \in RepeatRules(ps) : \E g \in Repeated(ps) : r = rule(g)
      BY DEF RepeatRules
    <2>2. \A g : rule(g).id = <<"repeat_resource", Ids(g)>>
      BY RuleId
    <2>3. \A g \in Repeated(ps) : g \in SUBSET Payments
      <3> TAKE g \in Repeated(ps)
      <3>1. PICK w \in GroupBy(ps, "wallet") : g \in GroupBy(w, "resource")
        BY DEF Repeated
      <3> QED
        BY <1>1, <3>1, GroupIs DEF GroupOf
    <2> HIDE DEF rule
    <2>4. \A g, h \in Repeated(ps) : rule(g).id = rule(h).id => g = h
      BY <2>2, <2>3, IdsAreUnique
    <2> QED
      BY <2>1, <2>4 DEF Distinct
  <1>3. Distinct(VelocityRules(ps))
    <2> DEFINE rule(v) == Rule(<<"velocity", Ids(v)>>, "high", KeyOf(v, "wallet"), None)
               from == UNION {Windows(w) : w \in GroupBy(ps, "wallet")}
    <2>1. \A r \in VelocityRules(ps) : \E v \in from : r = rule(v)
      BY DEF VelocityRules
    <2>2. \A v : rule(v).id = <<"velocity", Ids(v)>>
      BY RuleId
    <2>3. \A v \in from : v \in SUBSET Payments
      <3> SUFFICES ASSUME NEW w \in GroupBy(ps, "wallet"), NEW v \in Windows(w)
                   PROVE  v \in SUBSET Payments
        OBVIOUS
      <3> QED
        BY <1>1, WindowsAre DEF Within
    <2> HIDE DEF rule, from
    <2>4. \A v, u \in from : rule(v).id = rule(u).id => v = u
      BY <2>2, <2>3, IdsAreUnique
    <2> QED
      BY <2>1, <2>4 DEF Distinct
  <1>4. Distinct(SpikeRules(ps))
    <2> SUFFICES ASSUME NEW w \in GroupBy(ps, "wallet"), NEW r \in SpikesOf(w),
                        NEW v \in GroupBy(ps, "wallet"), NEW q \in SpikesOf(v),
                        r.id = q.id
                 PROVE  r = q
      BY DEF Distinct, SpikeRules
    <2>1. PICK p \in w : r.id[2].wallet = p.wallet
      BY <1>1, SpikeIs
    <2>2. PICK o \in v : q.id[2].wallet = o.wallet
      BY <1>1, SpikeIs
    <2>3. PICK x : w = GroupOf(ps, "wallet", x)
      BY GroupIs
    <2>4. PICK y : v = GroupOf(ps, "wallet", y)
      BY GroupIs
    <2>5. w = v
      <3>1. p.wallet = o.wallet
        BY <2>1, <2>2
      <3> QED
        BY <2>3, <2>4, <3>1 DEF GroupOf
    <2> QED
      BY <2>5 DEF SpikesOf
  <1> QED
    BY <1>2, <1>3, <1>4

\* So have those of the whole range.
LEMMA RangeRulesAreDistinct ==
    ASSUME NEW ps \in SUBSET Payments, NEW policy
    PROVE  /\ Distinct(PolicyRules(ps, policy))
           /\ Distinct(ConcentrationRules(ps))
           /\ Distinct(BaselineRules(ps))
  <1>1. \A field : \A g \in GroupBy(ps, field) : g \in SUBSET Payments
    BY GroupIs DEF GroupOf
  <1>2. Distinct(PolicyRules(ps, policy))
    <2> DEFINE from == GroupBy(ps, "provider")
               rule(g) ==
                 Rule(<<"provider_policy", PolicyFacts(policy, g)>>,
                      IF Decision(policy, KeyOf(g, "provider")) = "blocked"
                        THEN "high" ELSE "medium",
                      First(g).wallet, None)
    <2>1. \A r \in PolicyRules(ps, policy) : \E g \in from : r = rule(g)
      BY DEF PolicyRules
    <2>2. \A g : rule(g).id = <<"provider_policy", PolicyFacts(policy, g)>>
      BY RuleId
    <2>3. \A g : PolicyFacts(policy, g).payments = Ids(g)
      BY DEF PolicyFacts
    <2> HIDE DEF rule
    <2>4. \A g, h \in from : rule(g).id = rule(h).id => g = h
      <3> SUFFICES ASSUME NEW g \in from, NEW h \in from, rule(g).id = rule(h).id
                   PROVE  g = h
        OBVIOUS
      <3>1. PolicyFacts(policy, g) = PolicyFacts(policy, h)
        BY <2>2
      <3> QED
        BY <1>1, <2>3, <3>1, IdsAreUnique
    <2> QED
      BY <2>1, <2>4 DEF Distinct
  <1>3. Distinct(ConcentrationRules(ps))
    <2> DEFINE facts(field, g) ==
                 [value |-> KeyOf(g, field), share |-> Share(g, ps),
                  payments |-> Ids(g), total |-> Spent(ps), spent |-> Spent(g)]
               rule(field, g) ==
                 Rule(<<"concentration", field, facts(field, g)>>,
                      IF Share(g, ps) >= 8500 THEN "high" ELSE "medium", None, None)
    <2>1. \A r \in ConcentrationRules(ps) : \E field : \E g \in Leaders(ps, field) :
              r = rule(field, g)
      BY DEF ConcentrationRules
    <2>2. \A field, g : /\ rule(field, g).id = <<"concentration", field, facts(field, g)>>
                        /\ facts(field, g).payments = Ids(g)
      BY RuleId
    <2>3. \A field : \A g \in Leaders(ps, field) : g \in SUBSET Payments
      BY <1>1 DEF Leaders
    <2> HIDE DEF rule, facts
    <2> SUFFICES ASSUME NEW f1, NEW g \in Leaders(ps, f1),
                        NEW f2, NEW h \in Leaders(ps, f2),
                        rule(f1, g).id = rule(f2, h).id
                 PROVE  rule(f1, g) = rule(f2, h)
      BY <2>1 DEF Distinct
    <2>4. f1 = f2 /\ facts(f1, g) = facts(f2, h)
      BY <2>2
    <2>5. Ids(g) = Ids(h)
      BY <2>2, <2>4
    <2> QED
      BY <2>3, <2>4, <2>5, IdsAreUnique
  <1>4. Distinct(BaselineRules(ps))
    BY DEF Distinct, BaselineRules
  <1> QED
    BY <1>2, <1>3, <1>4

\* No two rules of one analysis have the same id.
LEMMA RulesAreDistinct ==
    ASSUME NEW s, Snapshot(s)
    PROVE  Distinct(EvaluatePersistentRisks(s.payments, RowsOf(s), s.policies))
  <1> DEFINE ps == s.payments
             all == EvaluatePersistentRisks(ps, RowsOf(s), s.policies)
  <1>1. ps \in SUBSET Payments
    BY DEF Snapshot
  <1>2. \A rule : rule \in all <=>
            \/ rule \in BudgetRules(ps, RowsOf(s)) \/ rule \in ForecastRules(ps, RowsOf(s))
            \/ rule \in RepeatRules(ps) \/ rule \in VelocityRules(ps)
            \/ rule \in SpikeRules(ps) \/ rule \in PolicyRules(ps, s.policies)
            \/ rule \in ConcentrationRules(ps) \/ rule \in BaselineRules(ps)
    BY DEF EvaluatePersistentRisks
  <1>3. \A rule :
           /\ rule \in BudgetRules(ps, RowsOf(s)) => rule.id[1] = "budget"
           /\ rule \in ForecastRules(ps, RowsOf(s)) => rule.id[1] = "budget_forecast"
           /\ rule \in RepeatRules(ps) => rule.id[1] = "repeat_resource"
           /\ rule \in PolicyRules(ps, s.policies) => rule.id[1] = "provider_policy"
    BY Kinds DEF IdsIn
  <1>4. \A rule :
           /\ rule \in VelocityRules(ps) => rule.id[1] = "velocity"
           /\ rule \in SpikeRules(ps) => rule.id[1] = "price_spike"
           /\ rule \in ConcentrationRules(ps) => rule.id[1] = "concentration"
           /\ rule \in BaselineRules(ps) => rule.id[1] = "task_baseline"
    BY <1>1, PaymentKinds DEF IdsIn
  <1> SUFFICES ASSUME NEW r \in all, NEW q \in all, r.id = q.id PROVE r = q
    BY DEF Distinct
  <1>5. /\ Distinct(BudgetRules(ps, RowsOf(s))) /\ Distinct(ForecastRules(ps, RowsOf(s)))
        /\ Distinct(RepeatRules(ps)) /\ Distinct(VelocityRules(ps))
        /\ Distinct(SpikeRules(ps)) /\ Distinct(PolicyRules(ps, s.policies))
        /\ Distinct(ConcentrationRules(ps)) /\ Distinct(BaselineRules(ps))
    BY <1>1, BudgetRulesAreDistinct, WalletRulesAreDistinct, RangeRulesAreDistinct
  <1>6. r.id[1] = q.id[1]
    OBVIOUS
  <1> HIDE DEF all
  <1>7. CASE r \in BudgetRules(ps, RowsOf(s))
    BY <1>2, <1>3, <1>4, <1>5, <1>6, <1>7 DEF Distinct
  <1>8. CASE r \in ForecastRules(ps, RowsOf(s))
    BY <1>2, <1>3, <1>4, <1>5, <1>6, <1>8 DEF Distinct
  <1>9. CASE r \in RepeatRules(ps)
    BY <1>2, <1>3, <1>4, <1>5, <1>6, <1>9 DEF Distinct
  <1>10. CASE r \in VelocityRules(ps)
    BY <1>2, <1>3, <1>4, <1>5, <1>6, <1>10 DEF Distinct
  <1>11. CASE r \in SpikeRules(ps)
    BY <1>2, <1>3, <1>4, <1>5, <1>6, <1>11 DEF Distinct
  <1>12. CASE r \in PolicyRules(ps, s.policies)
    BY <1>2, <1>3, <1>4, <1>5, <1>6, <1>12 DEF Distinct
  <1>13. CASE r \in ConcentrationRules(ps)
    BY <1>2, <1>3, <1>4, <1>5, <1>6, <1>13 DEF Distinct
  <1>14. CASE r \in BaselineRules(ps)
    BY <1>2, <1>3, <1>4, <1>5, <1>6, <1>14 DEF Distinct
  <1> QED
    BY <1>2, <1>7, <1>8, <1>9, <1>10, <1>11, <1>12, <1>13, <1>14

\* With ids of their own, ids are as many as rules.
LEMMA IdsAreAsMany ==
    ASSUME NEW s, Snapshot(s)
    PROVE  LET rules == EvaluatePersistentRisks(s.payments, RowsOf(s), s.policies)
           IN  Cardinality({rule.id : rule \in rules}) = Cardinality(rules)
  <1> DEFINE rules == EvaluatePersistentRisks(s.payments, RowsOf(s), s.policies)
             ids == {rule.id : rule \in rules}
             f == [rule \in rules |-> rule.id]
  <1>1. IsFiniteSet(rules) /\ Distinct(rules)
    BY RulesAreFinite, RulesAreDistinct
  <1> HIDE DEF rules
  <1>2. f \in Bijection(rules, ids)
    BY <1>1 DEF Distinct, Bijection, Injection, Surjection, IsInjective
  <1> HIDE DEF f, ids
  <1>3. ExistsBijection(rules, ids)
    BY <1>2 DEF ExistsBijection
  <1>4. Cardinality(ids) = Cardinality(rules)
    BY <1>1, <1>3, FS_Bijection
  <1> QED
    BY <1>4 DEF rules, ids

-------------------------------------------------------------------------------
(* Windows as they are meant.                                              *)

\* A set of payments has a last one.
LEMMA LastIs ==
    ASSUME NEW ps \in SUBSET Payments, ps # {}
    PROVE  \E q \in ps : \A p \in ps : p = q \/ Earlier(p, q)
  <1> DEFINE n == Cardinality(ps)
             R == EarlierOf(ps)
  <1>1. IsFiniteSet(ps) /\ OrderedBy(R, ps) /\ n \in Nat /\ n # 0
    BY GroupsAreFinite, EarlierOrders, FS_CardinalityType, FS_EmptySet
  <1>2. n \in 1..n
    BY <1>1
  <1>3. PICK q \in ps : Rank(R, ps, q) = n - 1
    BY <1>1, <1>2, RankIsTaken
  <1>4. \A p \in ps \ {q} : <<p, q>> \in R
    BY <1>1, <1>3, LastIsAbove
  <1> QED
    BY <1>4, EarlierOrders

\* The first time that five payments lie within a minute there are just five.
LEMMA BurstIsFive ==
    ASSUME NEW w \in SUBSET Payments, NEW q, Burst(w, q)
    PROVE  Cardinality(Within(w, q)) = 5
  <1> DEFINE v == Within(w, q)
             u == v \ {q}
  <1>1. /\ q \in v /\ v \in SUBSET w /\ q \in Payments
        /\ IsFiniteSet(w) /\ IsFiniteSet(v) /\ IsFiniteSet(u)
    <2>1. q \in w /\ v \in SUBSET w /\ q \in v
      BY FactsAssumption DEF Burst, Within
    <2> HIDE DEF v
    <2> QED
      BY <2>1, GroupsAreFinite, FS_Subset
  <1>2. Cardinality(v) \in Nat /\ Cardinality(v) >= 5
    BY <1>1, FS_CardinalityType DEF Burst
  <1>3. Cardinality(u) = Cardinality(v) - 1
    <2> HIDE DEF v
    <2> QED
      BY <1>1, FS_RemoveElement
  <1>4. u # {}
    <2> HIDE DEF u, v
    <2> QED
      BY <1>2, <1>3, FS_EmptySet
  <1>5. PICK p \in u : \A o \in u : o = p \/ Earlier(o, p)
    <2>1. u \in SUBSET Payments
      BY <1>1
    <2> HIDE DEF u
    <2> QED
      BY <1>4, <2>1, LastIs
  <1>6. p \in w /\ p \in Payments /\ Earlier(p, q)
    BY <1>1, <1>5 DEF Within
  <1>7. u \in SUBSET Within(w, p)
    <2> SUFFICES ASSUME NEW o \in u PROVE o \in Within(w, p)
      OBVIOUS
    <2>1. o \in w /\ o \in Payments /\ q.at - o.at <= 60000
      BY <1>1 DEF Within
    <2>2. p.at <= q.at
      BY <1>1, <1>6, FactsAssumption DEF Earlier
    <2>3. p.at - o.at <= 60000
      BY <1>1, <1>6, <2>1, <2>2, FactsAssumption
    <2> HIDE DEF u
    <2> QED
      BY <1>5, <2>1, <2>3 DEF Within
  <1>8. Cardinality(Within(w, p)) < 5
    BY <1>6 DEF Burst
  <1>9. IsFiniteSet(Within(w, p))
    BY <1>1, FS_Subset DEF Within
  <1>10. /\ Cardinality(u) <= Cardinality(Within(w, p))
         /\ Cardinality(Within(w, p)) \in Nat
    <2> HIDE DEF u
    <2> QED
      BY <1>7, <1>9, FS_Subset, FS_CardinalityType
  <1> QED
    BY <1>2, <1>3, <1>8, <1>10

\* Payments within a minute lie in the window of their last one.
LEMMA MinuteIsWithin ==
    ASSUME NEW w \in SUBSET Payments, NEW S \in SUBSET w, Cardinality(S) = 5,
           \A p, q \in S : p.at - q.at <= 60000
    PROVE  \E t \in S : /\ \A p \in S : p.at <= t.at
                        /\ Cardinality(Within(w, t)) >= 5
  <1>1. IsFiniteSet(w) /\ S \in SUBSET Payments /\ S # {}
    BY GroupsAreFinite, FS_EmptySet
  <1>2. PICK t \in S : \A p \in S : p = t \/ Earlier(p, t)
    BY <1>1, LastIs
  <1>3. \A p \in S : p.at <= t.at
    BY <1>1, <1>2, FactsAssumption DEF Earlier
  <1>4. S \in SUBSET Within(w, t)
    BY <1>2 DEF Within
  <1>5. IsFiniteSet(Within(w, t))
    BY <1>1, FS_Subset DEF Within
  <1>6. Cardinality(S) <= Cardinality(Within(w, t))
    BY <1>4, <1>5, FS_Subset
  <1> QED
    BY <1>3, <1>6

\* Five payments within a minute are noticed, at the first that completes five.
LEMMA BurstExists ==
    ASSUME NEW w \in SUBSET Payments, NEW t \in w, Cardinality(Within(w, t)) >= 5
    PROVE  \E q : Burst(w, q)
  <1> DEFINE full == {q \in w : Cardinality(Within(w, q)) >= 5}
             q == First(full)
  <1>1. full \in SUBSET Payments /\ full # {}
    OBVIOUS
  <1>2. q \in full /\ \A p \in full \ {q} : Earlier(q, p)
    <2> HIDE DEF full
    <2> QED
      BY <1>1, FirstIs
  <1>3. ASSUME NEW p \in w, Earlier(p, q)
        PROVE  Cardinality(Within(w, p)) < 5
    <2>1. p \notin full
      <3> SUFFICES ASSUME p \in full PROVE FALSE
        OBVIOUS
      <3>1. p \in Payments /\ q \in Payments
        BY <1>1, <1>2
      <3>2. p = q \/ Earlier(q, p)
        BY <1>2
      <3> HIDE DEF q
      <3> QED
        BY <1>3, <3>1, <3>2, FactsAssumption DEF Earlier
    <2>2. Cardinality(Within(w, p)) \in Nat
      <3>1. IsFiniteSet(Within(w, p))
        BY GroupsAreFinite, FS_Subset DEF Within
      <3> QED
        BY <3>1, FS_CardinalityType
    <2> QED
      BY <2>1, <2>2
  <1>4. q \in w /\ Cardinality(Within(w, q)) >= 5
    BY <1>2
  <1> HIDE DEF q
  <1> QED
    BY <1>3, <1>4 DEF Burst

\* A wallet has one burst at most.
LEMMA BurstIsOne ==
    ASSUME NEW w \in SUBSET Payments, NEW p, NEW q, Burst(w, p), Burst(w, q)
    PROVE  p = q
  <1>1. p \in w /\ q \in w /\ p \in Payments /\ q \in Payments
    BY DEF Burst
  <1>2. Cardinality(Within(w, p)) \in Nat /\ Cardinality(Within(w, q)) \in Nat
    <2>1. IsFiniteSet(Within(w, p)) /\ IsFiniteSet(Within(w, q))
      BY GroupsAreFinite, FS_Subset DEF Within
    <2> QED
      BY <2>1, FS_CardinalityType
  <1>3. ~Earlier(p, q) /\ ~Earlier(q, p)
    BY <1>1, <1>2 DEF Burst
  <1> QED
    BY <1>1, <1>3, FactsAssumption DEF Earlier

\* A member that no other exceeds is the maximum.
LEMMA MaxIs ==
    ASSUME NEW S \in SUBSET Int, NEW m \in S, \A n \in S : n <= m
    PROVE  Max(S) = m
  <1>1. Max(S) \in S /\ \A n \in S : Max(S) >= n
    BY DEF Max
  <1>2. Max(S) \in Int /\ m \in Int /\ Max(S) >= m /\ Max(S) <= m
    BY <1>1
  <1> QED
    BY <1>2

\* The rules of velocity of the wallet x are the windows of its bursts.
LEMMA VelocityOf ==
    ASSUME NEW ps \in SUBSET Payments, NEW x \in {p.wallet : p \in ps}
    PROVE  LET w == {p \in ps : p.wallet = x} IN
           {r.id[2] : r \in {y \in VelocityRules(ps) : y.wallet = x}}
             = {Ids(Within(w, q)) : q \in {p \in w : Burst(w, p)}}
  <1> DEFINE w == {p \in ps : p.wallet = x}
             rule(v) == Rule(<<"velocity", Ids(v)>>, "high", KeyOf(v, "wallet"), None)
             from == UNION {Windows(g) : g \in GroupBy(ps, "wallet")}
  <1>1. VelocityRules(ps) = {rule(v) : v \in from}
    BY DEF VelocityRules
  <1>2. \A v : rule(v).id[2] = Ids(v) /\ rule(v).wallet = KeyOf(v, "wallet")
    BY DEF Rule
  <1>3. x # None /\ w # {} /\ w = GroupOf(ps, "wallet", x) /\ w \in SUBSET Payments
    BY FactsAssumption DEF GroupOf
  <1>4. ASSUME NEW v \in from
        PROVE  /\ v # {}
               /\ \E g \in GroupBy(ps, "wallet") : \E q : Burst(g, q) /\ v = Within(g, q)
    <2>1. PICK g \in GroupBy(ps, "wallet") : v \in Windows(g)
      OBVIOUS
    <2>2. g \in SUBSET Payments
      BY GroupsAreFinite
    <2>3. PICK q : Burst(g, q) /\ v = Within(g, q)
      BY <2>1, <2>2, WindowsAre
    <2>4. q \in v
      BY <2>2, <2>3, FactsAssumption DEF Burst, Within
    <2> QED
      BY <2>1, <2>3, <2>4
  <1>5. ASSUME NEW v \in from, KeyOf(v, "wallet") = x
        PROVE  \E q \in {p \in w : Burst(w, p)} : v = Within(w, q)
    <2>1. PICK g \in GroupBy(ps, "wallet") : \E q : Burst(g, q) /\ v = Within(g, q)
      BY <1>4
    <2>2. PICK q : Burst(g, q) /\ v = Within(g, q)
      BY <2>1
    <2>3. PICK y : g = GroupOf(ps, "wallet", y)
      BY GroupIs
    <2>4. \A p \in v : p["wallet"] = y
      BY <2>2, <2>3 DEF Within, GroupOf
    <2>5. y = x
      <3>1. v # {}
        BY <1>4
      <3> QED
        BY <1>5, <2>4, <3>1 DEF KeyOf
    <2> QED
      BY <1>3, <2>2, <2>3, <2>5 DEF Burst
  <1>6. ASSUME NEW q, Burst(w, q)
        PROVE  Within(w, q) \in from /\ KeyOf(Within(w, q), "wallet") = x
    <2>1. w \in GroupBy(ps, "wallet")
      BY <1>3, GroupIs
    <2>2. Within(w, q) \in Windows(w)
      BY <1>3, <1>6, WindowsAre
    <2>3. q \in Within(w, q) /\ \A p \in Within(w, q) : p["wallet"] = x
      BY <1>3, <1>6, FactsAssumption DEF Burst, Within
    <2> QED
      BY <2>1, <2>2, <2>3 DEF KeyOf
  <1> HIDE DEF rule, from, w
  <1>7. {r.id[2] : r \in {y \in VelocityRules(ps) : y.wallet = x}}
          = {Ids(v) : v \in {u \in from : KeyOf(u, "wallet") = x}}
    BY <1>1, <1>2
  <1>8. {u \in from : KeyOf(u, "wallet") = x}
          = {Within(w, q) : q \in {p \in w : Burst(w, p)}}
    BY <1>5, <1>6
  <1>9. {r.id[2] : r \in {y \in VelocityRules(ps) : y.wallet = x}}
          = {Ids(Within(w, q)) : q \in {p \in w : Burst(w, p)}}
    BY <1>7, <1>8
  <1> QED
    BY <1>9 DEF w

\* The window finds what it is meant to find.
LEMMA VelocityExact ==
    ASSUME payments \in SUBSET Payments
    PROVE  VelocityIsExact
  <1> SUFFICES ASSUME NEW x \in WalletsSeen
               PROVE  IF Fives(x) = {} THEN Named(x) = {}
                      ELSE \E S \in Fives(x) :
                              /\ Named(x) = {Ids(S)}
                              /\ \A T \in Fives(x) : LastAt(S) <= LastAt(T)
    BY DEF VelocityIsExact
  <1> DEFINE w == {p \in payments : p.wallet = x}
  <1>1. \A S : S \in Fives(x) <=> /\ S \in SUBSET w /\ Cardinality(S) = 5
                                 /\ \A p, q \in S : p.at - q.at <= 60000
    BY DEF Fives, kSubset, OfWallet
  <1>2. Named(x) = {Ids(Within(w, q)) : q \in {p \in w : Burst(w, p)}}
    <2>1. x \in {p.wallet : p \in payments}
      BY DEF WalletsSeen
    <2> QED
      BY <2>1, VelocityOf DEF Named
  <1>3. w \in SUBSET Payments
    OBVIOUS
  <1> HIDE DEF w
  <1>4. ASSUME NEW q, Burst(w, q)
        PROVE  /\ Within(w, q) \in Fives(x)
               /\ LastAt(Within(w, q)) = q.at
    <2>1. q \in w /\ q \in Payments /\ Within(w, q) \in SUBSET w /\ q \in Within(w, q)
      BY <1>3, <1>4, FactsAssumption DEF Burst, Within
    <2>2. \A p \in Within(w, q) : p.at \in Int /\ p.at <= q.at /\ q.at - p.at <= 60000
      BY <1>3, <2>1, FactsAssumption DEF Within, Earlier
    <2>3. \A p, o \in Within(w, q) : p.at - o.at <= 60000
      BY <1>3, <2>1, <2>2, FactsAssumption
    <2>4. Cardinality(Within(w, q)) = 5
      BY <1>3, <1>4, BurstIsFive
    <2>5. LastAt(Within(w, q)) = q.at
      <3> DEFINE S == {p.at : p \in Within(w, q)}
      <3>1. S \in SUBSET Int /\ q.at \in S /\ \A n \in S : n <= q.at
        BY <2>1, <2>2
      <3> HIDE DEF S
      <3>2. Max(S) = q.at
        BY <3>1, MaxIs
      <3> QED
        BY <3>2 DEF S, LastAt
    <2> QED
      BY <1>1, <2>1, <2>3, <2>4, <2>5
  <1>5. ASSUME NEW T \in Fives(x)
        PROVE  \E t \in w : /\ LastAt(T) = t.at
                            /\ Cardinality(Within(w, t)) >= 5
    <2>1. T \in SUBSET w /\ Cardinality(T) = 5 /\ \A p, q \in T : p.at - q.at <= 60000
      BY <1>1
    <2>2. PICK t \in T : /\ \A p \in T : p.at <= t.at
                         /\ Cardinality(Within(w, t)) >= 5
      BY <1>3, <2>1, MinuteIsWithin
    <2> DEFINE S == {p.at : p \in T}
    <2>3. S \in SUBSET Int /\ t.at \in S /\ \A n \in S : n <= t.at
      BY <1>3, <2>1, <2>2, FactsAssumption
    <2> HIDE DEF S
    <2>4. Max(S) = t.at
      BY <2>3, MaxIs
    <2>5. LastAt(T) = t.at
      BY <2>4 DEF LastAt, S
    <2> QED
      BY <2>1, <2>2, <2>5
  <1>6. ASSUME Fives(x) = {}
        PROVE  Named(x) = {}
    <2>1. \A q : ~Burst(w, q)
      BY <1>4, <1>6
    <2> QED
      BY <1>2, <2>1
  <1>7. ASSUME Fives(x) # {}
        PROVE  \E S \in Fives(x) :
                  /\ Named(x) = {Ids(S)}
                  /\ \A T \in Fives(x) : LastAt(S) <= LastAt(T)
    <2>1. PICK q : Burst(w, q)
      BY <1>3, <1>5, <1>7, BurstExists
    <2>2. {p \in w : Burst(w, p)} = {q}
      BY <1>3, <2>1, BurstIsOne DEF Burst
    <2>3. Named(x) = {Ids(Within(w, q))}
      BY <1>2, <2>2
    <2>4. ASSUME NEW T \in Fives(x)
          PROVE  q.at <= LastAt(T)
      <3>1. PICK t \in w : /\ LastAt(T) = t.at
                           /\ Cardinality(Within(w, t)) >= 5
        BY <1>5
      <3>2. q \in Payments /\ t \in Payments
        BY <1>3, <2>1 DEF Burst
      <3>3. ~Earlier(t, q)
        <4>1. Cardinality(Within(w, t)) \in Nat
          <5>1. IsFiniteSet(Within(w, t))
            BY <1>3, GroupsAreFinite, FS_Subset DEF Within
          <5> QED
            BY <5>1, FS_CardinalityType
        <4> QED
          BY <2>1, <3>1, <4>1 DEF Burst
      <3>4. q.at <= t.at
        BY <3>2, <3>3, FactsAssumption DEF Earlier
      <3> QED
        BY <3>1, <3>4
    <2>5. Within(w, q) \in Fives(x) /\ LastAt(Within(w, q)) = q.at
      BY <1>4, <2>1
    <2> QED
      BY <2>3, <2>4, <2>5
  <1> QED
    BY <1>6, <1>7

-------------------------------------------------------------------------------
(* Medians as they are meant.                                              *)

\* With the median of an order and what is below it a set is a majority, and every
\* majority has the median or something above it.
LEMMA MedianSplits ==
    ASSUME NEW R, NEW S, IsFiniteSet(S), OrderedBy(R, S), NEW m \in S,
           Rank(R, S, m) = Cardinality(S) \div 2, NEW U \in SUBSET S
    PROVE  /\ Cardinality(U) \in Nat /\ Cardinality(S) \in Nat
           /\ Below(R, S, m) \cup {m} \subseteq U => 2 * Cardinality(U) > Cardinality(S)
           /\ 2 * Cardinality(U) > Cardinality(S) => \E x \in U : x = m \/ <<m, x>> \in R
  <1> DEFINE n == Cardinality(S)
             low == Below(R, S, m)
  <1>1. IsFiniteSet(low) /\ IsFiniteSet(U) /\ n \in Nat /\ Cardinality(U) \in Nat
    BY FS_Subset, FS_CardinalityType DEF Below
  <1>2. Cardinality(low) = n \div 2 /\ m \notin low
    BY DEF Rank, Below, OrderedBy
  <1>3. ASSUME low \cup {m} \subseteq U
        PROVE  2 * Cardinality(U) > n
    <2>1. Cardinality(low \cup {m}) = n \div 2 + 1
      <3> HIDE DEF low
      <3> QED
        BY <1>1, <1>2, FS_AddElement
    <2>2. Cardinality(low \cup {m}) <= Cardinality(U)
      <3> HIDE DEF low
      <3> QED
        BY <1>1, <1>3, FS_Subset
    <2> QED
      BY <1>1, <2>1, <2>2
  <1>4. ASSUME \A x \in U : x # m /\ <<m, x>> \notin R
        PROVE  ~(2 * Cardinality(U) > n)
    <2>1. U \in SUBSET low
      BY <1>4 DEF Below, OrderedBy
    <2>2. Cardinality(U) <= n \div 2
      <3> HIDE DEF low
      <3> QED
        BY <1>1, <1>2, <2>1, FS_Subset
    <2> QED
      BY <1>1, <2>2
  <1> QED
    BY <1>1, <1>3, <1>4

\* The median of at least five payments is a fifth of the largest exactly when more
\* than half of them are.
LEMMA SpikeIsMajority ==
    ASSUME NEW w \in SUBSET Payments
    PROVE  LET small == {p \in w : \E q \in w : q.amount >= 5 * p.amount} IN
           SpikesOf(w) # {} <=>
               Cardinality(w) >= 5 /\ 2 * Cardinality(small) > Cardinality(w)
  <1> DEFINE small == {p \in w : \E q \in w : q.amount >= 5 * p.amount}
             R == CheaperOf(w)
             n == Cardinality(w)
             f == Sorted(w, Cheaper)
  <1>1. /\ IsFiniteSet(w) /\ n \in Nat /\ OrderedBy(R, w) /\ Lists(f, R, w) /\ Len(f) = n
        /\ \A p, q \in w : <<p, q>> \in R <=> Cheaper(p, q)
    <2>1. /\ IsFiniteSet(w) /\ n \in Nat /\ OrderedBy(R, w) /\ Lists(f, R, w)
          /\ \A p, q \in w : <<p, q>> \in R <=> Cheaper(p, q)
      BY GroupsAreFinite, CheaperOrders, CheaperLists, FS_CardinalityType
    <2> HIDE DEF f, R
    <2>2. Len(f) = n
      BY <2>1, Listed
    <2> QED
      BY <2>1, <2>2
  <1>2. SpikesOf(w) # {} <=> n >= 5 /\ ~(Last(f).amount < Median(f).amount * 5)
    BY <1>1 DEF SpikesOf
  <1>3. CASE n < 5
    BY <1>1, <1>2, <1>3
  <1>4. CASE n >= 5
    <2> DEFINE m == Median(f)
               g == Last(f)
    <2>1. m \in w /\ Rank(R, w, m) = n \div 2 /\ g \in w /\ Rank(R, w, g) = n - 1
      <3>1. n \in 1..n /\ (n \div 2) + 1 \in 1..n /\ ((n \div 2) + 1) - 1 = n \div 2
        BY <1>1, <1>4
      <3>2. f \in [1..n -> w] /\ \A i \in 1..n : Rank(R, w, f[i]) = i - 1
        BY <1>1 DEF Lists
      <3>3. g = f[n] /\ m = f[(n \div 2) + 1]
        BY <1>1 DEF Last, Median
      <3> HIDE DEF g, m, f, n, R
      <3> QED
        BY <3>1, <3>2, <3>3
    <2> HIDE DEF g, m, f
    <2>2. \A p \in w : p \in Payments /\ p.amount \in Nat \ {0}
      BY FactsAssumption
    <2>3. \A p \in w : p.amount <= g.amount
      <3>1. \A p \in w \ {g} : <<p, g>> \in R
        <4> HIDE DEF R
        <4> QED
          BY <1>1, <2>1, LastIsAbove
      <3>2. \A p \in w \ {g} : Cheaper(p, g)
        <4> HIDE DEF R
        <4> QED
          BY <1>1, <2>1, <3>1
      <3>3. \A p \in w \ {g} : p.amount <= g.amount
        BY <2>1, <2>2, <3>2 DEF Cheaper
      <3>4. g.amount <= g.amount
        BY <2>1, <2>2
      <3> QED
        BY <3>3, <3>4
    <2>4. /\ Cardinality(small) \in Nat
          /\ Below(R, w, m) \cup {m} \subseteq small => 2 * Cardinality(small) > n
          /\ 2 * Cardinality(small) > n => \E p \in small : p = m \/ <<m, p>> \in R
      <3>1. small \in SUBSET w
        OBVIOUS
      <3> HIDE DEF small, R
      <3> QED
        BY <1>1, <2>1, <3>1, MedianSplits
    <2>5. ASSUME ~(g.amount < m.amount * 5)
          PROVE  2 * Cardinality(small) > n
      <3>1. \A p \in Below(R, w, m) \cup {m} : p \in w /\ p.amount <= m.amount
        BY <1>1, <2>1, <2>2 DEF Below, Cheaper
      <3>2. \A p \in Below(R, w, m) \cup {m} : g.amount >= 5 * p.amount
        BY <2>1, <2>2, <2>5, <3>1
      <3>3. Below(R, w, m) \cup {m} \subseteq small
        BY <2>1, <3>1, <3>2
      <3> QED
        BY <2>4, <3>3
    <2>6. ASSUME 2 * Cardinality(small) > n
          PROVE  ~(g.amount < m.amount * 5)
      <3>1. PICK p \in small : p = m \/ <<m, p>> \in R
        BY <2>4, <2>6
      <3>2. p \in w /\ m.amount <= p.amount
        BY <1>1, <2>1, <2>2, <3>1 DEF Cheaper
      <3>3. PICK q \in w : q.amount >= 5 * p.amount
        OBVIOUS
      <3>4. q.amount <= g.amount
        BY <2>3
      <3> HIDE DEF small
      <3> QED
        BY <2>1, <2>2, <3>2, <3>3, <3>4
    <2> QED
      BY <1>2, <1>4, <2>5, <2>6 DEF g, m
  <1> QED
    BY <1>1, <1>3, <1>4

\* The rule of price spikes is what it is meant to be.
LEMMA SpikeExact ==
    ASSUME payments \in SUBSET Payments
    PROVE  SpikeIsExact
  <1> SUFFICES ASSUME NEW x \in WalletsSeen
               PROVE  (\E r \in SpikeRules(payments) : r.wallet = x)
                        <=> SpikesOf(OfWallet(x)) # {}
    <2>1. \A x \in WalletsSeen : OfWallet(x) \in SUBSET Payments
      BY DEF OfWallet
    <2> QED
      BY <2>1, SpikeIsMajority DEF SpikeIsExact
  <1> DEFINE w == OfWallet(x)
  <1>1. x # None /\ w # {} /\ w = GroupOf(payments, "wallet", x) /\ w \in SUBSET Payments
    BY FactsAssumption DEF GroupOf, OfWallet, WalletsSeen
  <1>2. w \in GroupBy(payments, "wallet")
    BY <1>1, GroupIs
  <1>3. ASSUME NEW v \in GroupBy(payments, "wallet"), NEW r \in SpikesOf(v)
        PROVE  \E p \in v : r.wallet = p.wallet
    <2> DEFINE f == Sorted(v, Cheaper)
    <2>1. v \in SUBSET Payments
      BY GroupsAreFinite
    <2>2. IsFiniteSet(v) /\ OrderedBy(CheaperOf(v), v) /\ Lists(f, CheaperOf(v), v)
      BY <2>1, GroupsAreFinite, CheaperOrders, CheaperLists
    <2>3. Len(f) = Cardinality(v) /\ Cardinality(v) \in Nat
      BY <2>2, Listed
    <2>4. ~(Len(f) < 5) /\ r.wallet = Last(f).wallet
      BY DEF SpikesOf, Rule
    <2>5. Last(f) \in v
      BY <2>2, <2>3, <2>4 DEF Last, Lists
    <2> QED
      BY <2>4, <2>5
  <1>4. ASSUME NEW v \in GroupBy(payments, "wallet"), NEW r \in SpikesOf(v), r.wallet = x
        PROVE  v = w
    <2>1. PICK p \in v : p.wallet = x
      BY <1>3, <1>4
    <2>2. PICK y : v = GroupOf(payments, "wallet", y)
      BY GroupIs
    <2>3. y = x
      BY <2>1, <2>2 DEF GroupOf
    <2> QED
      BY <1>1, <2>2, <2>3
  <1>5. ASSUME NEW r \in SpikesOf(w)
        PROVE  r.wallet = x
    <2>1. PICK p \in w : r.wallet = p.wallet
      BY <1>2, <1>3
    <2> QED
      BY <2>1 DEF OfWallet
  <1> HIDE DEF w
  <1>6. (\E r \in SpikeRules(payments) : r.wallet = x) <=> SpikesOf(w) # {}
    BY <1>2, <1>4, <1>5 DEF SpikeRules
  <1> QED
    BY <1>6 DEF w

\* The same for tasks and what they cost.
LEMMA BaselineIsMajority ==
    ASSUME NEW ps \in SUBSET Payments
    PROVE  LET G == GroupBy(ps, "task")
               cheap == {g \in G : \E h \in G : Spent(h) >= 3 * Spent(g)}
           IN  BaselineRules(ps) # {} <=>
                   Cardinality(G) >= 4 /\ 2 * Cardinality(cheap) > Cardinality(G)
  <1> DEFINE G == GroupBy(ps, "task")
             cheap == {g \in G : \E h \in G : Spent(h) >= 3 * Spent(g)}
             R == CheaperTaskOf(G)
             n == Cardinality(G)
  <1>1. /\ IsFiniteSet(G) /\ n \in Nat /\ OrderedBy(R, G)
        /\ \A g, h \in G : <<g, h>> \in R <=> CheaperTask(g, h)
        /\ \A g \in G : Spent(g) \in Nat
    <2>1. \A g \in G : g \in SUBSET Payments
      BY GroupsAreFinite
    <2> QED
      BY <2>1, GroupsAreFinite, TaskOrders, FS_CardinalityType, SpentGrows
  <1>2. BaselineRules(ps) # {} <=> \E g, m : Baseline(ps, g, m)
    <2>1. BaselineRules(ps) # {} <=> \E id : id \in IdsIn(BaselineRules(ps))
      BY DEF IdsIn
    <2> QED
      BY <2>1, BaselineIdIs
  <1>3. CASE n < 4
    BY <1>1, <1>2, <1>3 DEF Baseline
  <1>4. CASE n >= 4
    <2>1. PICK m \in G : Rank(R, G, m) = n \div 2
      <3>1. (n \div 2) + 1 \in 1..n /\ ((n \div 2) + 1) - 1 = n \div 2
        BY <1>1, <1>4
      <3>2. \E c \in G : Rank(R, G, c) = ((n \div 2) + 1) - 1
        BY <1>1, <3>1, RankIsTaken
      <3> QED
        BY <3>1, <3>2
    <2>2. PICK g \in G : Rank(R, G, g) = n - 1
      <3>1. n \in 1..n
        BY <1>1, <1>4
      <3> QED
        BY <1>1, <3>1, RankIsTaken
    <2>3. \A h \in G : Spent(h) <= Spent(g)
      <3>1. \A h \in G \ {g} : <<h, g>> \in R
        BY <1>1, <2>2, LastIsAbove
      <3>2. \A h \in G \ {g} : CheaperTask(h, g)
        <4> HIDE DEF R, G
        <4> QED
          BY <1>1, <2>2, <3>1
      <3>3. \A h \in G \ {g} : Spent(h) <= Spent(g)
        <4> HIDE DEF G
        <4> QED
          BY <1>1, <2>2, <3>2 DEF CheaperTask
      <3>4. Spent(g) <= Spent(g)
        BY <1>1, <2>2
      <3> QED
        BY <3>3, <3>4
    <2>4. BaselineRules(ps) # {} <=> Spent(g) >= Spent(m) * 3
      <3>1. ASSUME NEW h, NEW c, Baseline(ps, h, c)
            PROVE  h = g /\ c = m /\ Spent(g) >= Spent(m) * 3
        <4>1. /\ h \in G /\ c \in G /\ Spent(h) >= Spent(c) * 3
              /\ Rank(R, G, h) = Rank(R, G, g) /\ Rank(R, G, c) = Rank(R, G, m)
          BY <2>1, <2>2, <3>1 DEF Baseline
        <4>2. h = g /\ c = m
          <5> HIDE DEF R, G
          <5> QED
            BY <1>1, <2>1, <2>2, <4>1, RankOrders
        <4> QED
          BY <4>1, <4>2
      <3>2. Spent(g) >= Spent(m) * 3 => Baseline(ps, g, m)
        BY <1>4, <2>1, <2>2 DEF Baseline
      <3> QED
        BY <1>2, <3>1, <3>2
    <2>5. /\ Cardinality(cheap) \in Nat
          /\ Below(R, G, m) \cup {m} \subseteq cheap => 2 * Cardinality(cheap) > n
          /\ 2 * Cardinality(cheap) > n => \E h \in cheap : h = m \/ <<m, h>> \in R
      <3>1. cheap \in SUBSET G
        OBVIOUS
      <3> HIDE DEF cheap, R, G
      <3> QED
        BY <1>1, <2>1, <3>1, MedianSplits
    <2>6. ASSUME Spent(g) >= Spent(m) * 3
          PROVE  2 * Cardinality(cheap) > n
      <3>1. \A h \in Below(R, G, m) \cup {m} : h \in G /\ Spent(h) <= Spent(m)
        BY <1>1, <2>1 DEF Below, CheaperTask
      <3>2. \A h \in Below(R, G, m) \cup {m} : Spent(g) >= 3 * Spent(h)
        BY <1>1, <2>1, <2>2, <2>6, <3>1
      <3>3. Below(R, G, m) \cup {m} \subseteq cheap
        BY <2>2, <3>1, <3>2
      <3> QED
        BY <2>5, <3>3
    <2>7. ASSUME 2 * Cardinality(cheap) > n
          PROVE  Spent(g) >= Spent(m) * 3
      <3>1. PICK h \in cheap : h = m \/ <<m, h>> \in R
        BY <2>5, <2>7
      <3>2. PICK c \in G : h \in G /\ Spent(c) >= 3 * Spent(h)
        OBVIOUS
      <3> HIDE DEF cheap
      <3>3. Spent(m) <= Spent(h)
        BY <1>1, <2>1, <3>1, <3>2 DEF CheaperTask
      <3>4. Spent(c) <= Spent(g)
        BY <2>3
      <3> QED
        BY <1>1, <2>1, <2>2, <3>2, <3>3, <3>4
    <2> HIDE DEF cheap, G
    <2>8. BaselineRules(ps) # {} <=> n >= 4 /\ 2 * Cardinality(cheap) > n
      BY <1>4, <2>4, <2>6, <2>7
    <2> QED
      BY <2>8 DEF cheap, G
  <1> QED
    BY <1>1, <1>3, <1>4

\* So is the one of task baselines.
LEMMA BaselineExact ==
    ASSUME payments \in SUBSET Payments
    PROVE  BaselineIsExact
  <1> DEFINE T == TasksOf(payments)
             G == GroupBy(payments, "task")
             cost(t) == Spent({p \in payments : p.task = t})
             cheapTasks == {t \in T : \E u \in T : cost(u) >= 3 * cost(t)}
             cheap == {g \in G : \E h \in G : Spent(h) >= 3 * Spent(g)}
             f == [t \in cheapTasks |-> GroupOf(payments, "task", t)]
  <1>1. T = TasksSeen
    BY DEF TasksOf, TasksSeen
  <1>2. \A t : cost(t) = Spent(GroupOf(payments, "task", t))
    BY DEF GroupOf
  <1>3. /\ IsFiniteSet(T) /\ IsFiniteSet(G) /\ Cardinality(G) = Cardinality(T)
        /\ \A k \in T : GroupOf(payments, "task", k) \in G
        /\ \A g \in G : \E k \in T : g = GroupOf(payments, "task", k)
        /\ \A k \in T : GroupOf(payments, "task", k) # {}
        /\ \A k, j : \A p \in GroupOf(payments, "task", k) :
              p \in GroupOf(payments, "task", j) => k = j
    BY TaskGroups
  <1> HIDE DEF T, G, cost
  <1>4. f \in Bijection(cheapTasks, cheap)
    <2>1. \A t \in cheapTasks : f[t] \in cheap
      BY <1>2, <1>3
    <2>2. \A t, u \in cheapTasks : f[t] = f[u] => t = u
      BY <1>3
    <2>3. \A g \in cheap : \E t \in cheapTasks : f[t] = g
      <3> SUFFICES ASSUME NEW g \in G, NEW h \in G, Spent(h) >= 3 * Spent(g)
                   PROVE  \E t \in cheapTasks : f[t] = g
        OBVIOUS
      <3>1. PICK t \in T : g = GroupOf(payments, "task", t)
        BY <1>3
      <3>2. PICK u \in T : h = GroupOf(payments, "task", u)
        BY <1>3
      <3>3. t \in cheapTasks
        BY <1>2, <3>1, <3>2
      <3> HIDE DEF cheapTasks
      <3> QED
        BY <3>1, <3>3
    <2>4. f = [t \in cheapTasks |-> f[t]]
      OBVIOUS
    <2> HIDE DEF f, cheapTasks, cheap
    <2> QED
      BY <2>1, <2>2, <2>3, <2>4 DEF Bijection, Injection, Surjection, IsInjective
  <1>5. Cardinality(cheapTasks) = Cardinality(cheap)
    <2>1. IsFiniteSet(cheapTasks)
      BY <1>3, FS_Subset
    <2> HIDE DEF f, cheapTasks, cheap
    <2>2. ExistsBijection(cheapTasks, cheap)
      BY <1>4 DEF ExistsBijection
    <2> QED
      BY <2>1, <2>2, FS_Bijection
  <1>6. BaselineRules(payments) # {} <=>
            Cardinality(G) >= 4 /\ 2 * Cardinality(cheap) > Cardinality(G)
    BY BaselineIsMajority DEF G
  <1> HIDE DEF f, cheap
  <1>7. BaselineRules(payments) # {} <=>
            Cardinality(T) >= 4 /\ 2 * Cardinality(cheapTasks) > Cardinality(T)
    BY <1>3, <1>5, <1>6
  <1>8. cheapTasks = {t \in TasksSeen : \E u \in TasksSeen :
            Spent({p \in payments : p.task = u}) >= 3 * Spent({p \in payments : p.task = t})}
    BY <1>1 DEF cost
  <1> HIDE DEF cheapTasks
  <1> QED
    BY <1>1, <1>7, <1>8 DEF BaselineIsExact

\* Windows, medians and the ids of the rules are what they are meant to be, for
\* any payments, budgets and policies.
THEOREM RulesAreAlwaysExact == FactsSpec => []RulesAreExact
  <1>1. FactsInv => RulesAreExact
    <2> SUFFICES ASSUME FactsInv PROVE RulesAreExact
      OBVIOUS
    <2>1. Snapshot(Now) /\ payments \in SUBSET Payments
      BY DEF FactsInv, Snapshot, Now
    <2>2. Current = EvaluatePersistentRisks(Now.payments, RowsOf(Now), Now.policies)
      BY DEF Current, Rows, RowsOf, Now
    <2>3. Cardinality({rule.id : rule \in Current}) = Cardinality(Current)
      BY <2>1, <2>2, IdsAreAsMany
    <2> QED
      BY <2>1, <2>3, VelocityExact, SpikeExact, BaselineExact DEF RulesAreExact
  <1> QED
    BY <1>1, FactsInvariance, PTL

-------------------------------------------------------------------------------
(* Quotients, percentages and warnings.                                    *)

\* Whole division, and its bounds.
LEMMA Quotient ==
    ASSUME NEW a \in Nat, NEW b \in Nat \ {0}
    PROVE  a \div b \in Nat /\ b * (a \div b) <= a /\ a < b * (a \div b) + b
  OBVIOUS

\* Products with a positive number keep the order.
LEMMA ProductsGrow ==
    ASSUME NEW a \in Nat, NEW b \in Nat, NEW c \in Nat, a <= b
    PROVE  a * c \in Nat /\ b * c \in Nat /\ a * c <= b * c /\ c * a = a * c
  <1>1. PICK d \in Nat : b = a + d
    BY b - a \in Nat /\ b = a + (b - a)
  <1>2. b * c = a * c + d * c
    BY <1>1
  <1>3. d * c \in Nat /\ a * c \in Nat
    OBVIOUS
  <1> QED
    BY <1>2, <1>3

\* The quotient is the largest factor that fits.
LEMMA QuotientIsLeast ==
    ASSUME NEW a \in Nat, NEW b \in Nat \ {0}, NEW q \in Nat, b * q <= a
    PROVE  q <= a \div b
  <1> DEFINE r == a \div b
  <1>1. r \in Nat /\ a < b * r + b
    BY Quotient
  <1> HIDE DEF r
  <1> SUFFICES ASSUME r + 1 <= q PROVE FALSE
    BY <1>1 DEF r
  <1>2. (r + 1) * b <= q * b
    BY <1>1, ProductsGrow
  <1>3. (r + 1) * b = b * r + b /\ q * b = b * q
    BY <1>1
  <1> QED
    BY <1>1, <1>2, <1>3

\* The later the end of what has passed, the less is projected.
LEMMA QuotientsShrink ==
    ASSUME NEW a \in Nat, NEW b \in Nat \ {0}, NEW c \in Nat, b <= c
    PROVE  a \div c <= a \div b
  <1> DEFINE q == a \div c
  <1>1. q \in Nat /\ c * q <= a
    BY Quotient
  <1> HIDE DEF q
  <1>2. b * q <= c * q /\ b * q \in Nat
    BY <1>1, ProductsGrow
  <1>3. b * q <= a
    BY <1>1, <1>2
  <1> QED
    BY <1>1, <1>3, QuotientIsLeast DEF q

\* A warning is at most the part of the amount it is meant to be.
LEMMA WarningIsPart ==
    ASSUME NEW s \in Nat, NEW n \in Nat, n <= 10000 * s
    PROVE  s >= n \div 10000
  <1> DEFINE w == n \div 10000
  <1>1. w \in Nat /\ 10000 * w <= n
    BY Quotient
  <1> HIDE DEF w
  <1>2. w <= s
    BY <1>1
  <1> QED
    BY <1>2 DEF w

\* What reaches the amount of a budget reaches its warning.
LEMMA AmountWarns ==
    ASSUME NEW s \in Nat, NEW a \in Nat \ {0}, NEW t \in Nat, t <= 10000, s >= a
    PROVE  s >= (a * t) \div 10000
  <1> DEFINE n == a * t
             m == 10000 * a
  <1>1. n \in Nat /\ n <= m
    BY ProductsGrow
  <1> HIDE DEF n
  <1>2. n <= 10000 * s
    BY <1>1
  <1>3. s >= n \div 10000
    BY <1>1, <1>2, WarningIsPart
  <1> QED
    BY <1>3 DEF n

\* A percentage, in tenths, of what is spent.
LEMMA PercentageIs ==
    ASSUME NEW s \in Nat, NEW a \in Nat \ {0}
    PROVE  /\ Percentage(s, a) \in Nat
           /\ a * Percentage(s, a) <= 1000 * s
           /\ 1000 * s < a * Percentage(s, a) + a
  <1> DEFINE o == 1000 * s
  <1>1. o \in Nat /\ o = s * 1000
    OBVIOUS
  <1> HIDE DEF o
  <1>2. o \div a \in Nat /\ a * (o \div a) <= o /\ o < a * (o \div a) + a
    BY <1>1, Quotient
  <1>3. Percentage(s, a) = o \div a
    BY <1>1 DEF Percentage
  <1> QED
    BY <1>2, <1>3 DEF o

\* So does what reaches its percentage of warning.
LEMMA PercentageWarns ==
    ASSUME NEW s \in Nat, NEW a \in Nat \ {0}, NEW t \in Nat,
           Percentage(s, a) * 10 >= t
    PROVE  s >= (a * t) \div 10000
  <1> DEFINE p == Percentage(s, a)
             n == a * t
             m == a * p
  <1>1. p \in Nat /\ m <= 1000 * s
    BY PercentageIs
  <1> HIDE DEF p
  <1>2. m \in Nat /\ n \in Nat /\ n <= 10 * m
    <2>1. p * 10 >= t
      BY DEF p
    <2>2. t * a <= (p * 10) * a /\ t * a = a * t
      BY <1>1, <2>1, ProductsGrow
    <2>3. (p * 10) * a = 10 * m /\ m \in Nat
      BY <1>1
    <2> QED
      BY <2>2, <2>3
  <1> HIDE DEF m, n
  <1>3. n <= 10000 * s
    BY <1>1, <1>2
  <1>4. s >= n \div 10000
    BY <1>2, <1>3, WarningIsPart
  <1> QED
    BY <1>4 DEF n

-------------------------------------------------------------------------------
(* The table of budgets and the signals.                                   *)

WarningOf(ps, b) ==
    Rule(<<"budget", BudgetFacts(ps, b)>>,
         IF Spent(Matching(ps, b)) >= b.amount THEN "high" ELSE "medium", b.wallet, b.task)
ForecastOf(ps, b) ==
    Rule(<<"budget_forecast", BudgetFacts(ps, b), Projected(ps, b)>>, "medium",
         b.wallet, b.task)
SignalsOf(ps, bs, b) ==
    {r \in BudgetRules(ps, bs) \cup ForecastRules(ps, bs) : r.id[2].budget = b.id}

\* The signals of a budget whose id no other one has.
LEMMA SignalsAre ==
    ASSUME NEW ps, NEW bs, \A b, c \in bs : b.id = c.id => b = c,
           NEW b \in bs, b.status = "active"
    PROVE  /\ Warned(ps, b) => WarningOf(ps, b) \in SignalsOf(ps, bs, b)
           /\ ~Warned(ps, b) /\ Overruns(ps, b) => ForecastOf(ps, b) \in SignalsOf(ps, bs, b)
           /\ \A r \in SignalsOf(ps, bs, b) :
                 r.severity = "high" => Spent(Matching(ps, b)) >= b.amount
           /\ Spent(Matching(ps, b)) >= b.amount => WarningOf(ps, b).severity = "high"
  <1>1. \A c : /\ WarningOf(ps, c).id[2].budget = c.id
               /\ ForecastOf(ps, c).id[2].budget = c.id
               /\ ForecastOf(ps, c).severity = "medium"
               /\ WarningOf(ps, c).severity
                    = IF Spent(Matching(ps, c)) >= c.amount THEN "high" ELSE "medium"
    BY DEF WarningOf, ForecastOf, Rule, BudgetFacts
  <1>2. /\ BudgetRules(ps, bs)
             = {WarningOf(ps, c) : c \in {d \in bs : d.status = "active" /\ Warned(ps, d)}}
        /\ ForecastRules(ps, bs)
             = {ForecastOf(ps, c) : c \in {d \in bs : /\ d.status = "active"
                                                     /\ ~Warned(ps, d) /\ Overruns(ps, d)}}
    BY DEF BudgetRules, ForecastRules, WarningOf, ForecastOf
  <1>3. ASSUME NEW r \in SignalsOf(ps, bs, b), r.severity = "high"
        PROVE  Spent(Matching(ps, b)) >= b.amount
    <2>1. r.id[2].budget = b.id /\ r \in BudgetRules(ps, bs) \cup ForecastRules(ps, bs)
      BY <1>3 DEF SignalsOf
    <2>2. PICK c \in bs : r = WarningOf(ps, c) \/ r = ForecastOf(ps, c)
      BY <1>2, <2>1
    <2>3. c.id = b.id
      BY <1>1, <2>1, <2>2
    <2>4. c = b
      BY <2>3
    <2> QED
      BY <1>1, <1>3, <2>2, <2>4
  <1> QED
    BY <1>1, <1>2, <1>3 DEF SignalsOf

\* A finite set of numbers has a greatest one.
LEMMA GreatestExists ==
    ASSUME NEW S \in SUBSET Int, IsFiniteSet(S), S # {}
    PROVE  \E m \in S : \A n \in S : n <= m
  <1> DEFINE top(s) == \E m \in s : \A n \in s : n <= m
             C == {s \in SUBSET S : s # {} /\ ~top(s)}
  <1> SUFFICES ASSUME C # {} PROVE FALSE
    OBVIOUS
  <1>1. \A s \in C : IsFiniteSet(s)
    BY FS_Subset
  <1>2. PICK s \in C : \A r \in SUBSET s : r # s => r \notin C
    BY <1>1, SmallestSet
  <1>3. PICK x \in s : TRUE
    OBVIOUS
  <1>4. s \ {x} # {}
    <2>1. s = {x} => top(s)
      OBVIOUS
    <2> QED
      BY <1>3, <2>1
  <1>5. top(s \ {x})
    BY <1>2, <1>3, <1>4
  <1>6. PICK m \in s \ {x} : \A n \in s \ {x} : n <= m
    BY <1>5
  <1>7. \A n \in s : n <= IF x <= m THEN m ELSE x
    BY <1>6
  <1> QED
    BY <1>3, <1>6, <1>7

\* The lesser of two numbers.
LEMMA MinOfTwo ==
    ASSUME NEW a \in Int, NEW b \in Int
    PROVE  Min({a, b}) \in {a, b} /\ Min({a, b}) <= a /\ Min({a, b}) <= b
  <1>1. \E x \in {a, b} : \A y \in {a, b} : x <= y
    OBVIOUS
  <1> QED
    BY <1>1 DEF Min

\* What has passed of a budget by the end of the range, and by its last payment.
LEMMA ElapsedIs ==
    ASSUME NEW ps \in SUBSET Payments, NEW b \in StoredBudget, NEW range, range.end \in Int,
           \A p \in ps : p.at < range.end, Matching(ps, b) # {}
    PROVE  /\ Elapsed(ps, b) \in Nat
           /\ SummaryElapsed(b, range) \in Nat
           /\ Elapsed(ps, b) <= SummaryElapsed(b, range)
           /\ b.end - b.start \in Nat \ {0}
  <1> DEFINE ms == Matching(ps, b)
             times == {p.at : p \in ms}
  <1>1. ms \in SUBSET Payments /\ IsFiniteSet(ms)
    BY FactsAssumption, FS_Subset DEF Matching
  <1>2. b.start \in Int /\ b.end \in Int
    BY DEF StoredBudget
  <1>3. \A p \in ms : p.at \in Int /\ p.at >= b.start /\ p.at < b.end /\ p.at < range.end
    BY FactsAssumption DEF Matching, MatchesBudget
  <1>4. Max(times) \in times
    <2>1. times \in SUBSET Int /\ times # {}
      BY <1>3
    <2>2. IsFiniteSet(times)
      <3> DEFINE f == [p \in ms |-> p.at]
      <3>1. f = [p \in ms |-> f[p]] /\ times = {f[p] : p \in ms}
        OBVIOUS
      <3> HIDE DEF f, ms, times
      <3> QED
        BY <1>1, <3>1, ImageIsFinite
    <2> HIDE DEF times
    <2>3. \E m \in times : \A n \in times : n <= m
      BY <2>1, <2>2, GreatestExists
    <2> QED
      BY <2>1, <2>3, MaxIs
  <1>5. PICK p \in ms : Max(times) = p.at
    BY <1>4
  <1> HIDE DEF ms, times
  <1>6. Elapsed(ps, b) = p.at - b.start
    BY <1>5 DEF Elapsed, ms, times
  <1>7. Min({range.end, b.end}) \in {range.end, b.end}
        /\ Min({range.end, b.end}) <= range.end /\ Min({range.end, b.end}) <= b.end
    BY <1>2, MinOfTwo
  <1> DEFINE m == Min({range.end, b.end})
  <1>8. Max({0, m - b.start}) = m - b.start
    <2>1. m \in Int /\ m - b.start >= 0
      BY <1>2, <1>3, <1>7
    <2> HIDE DEF m
    <2> QED
      BY <1>2, <2>1, MaxIs
  <1>9. SummaryElapsed(b, range) = m - b.start
    BY <1>8 DEF SummaryElapsed
  <1> QED
    BY <1>2, <1>3, <1>6, <1>7, <1>9

\* What has passed is a number.
LEMMA ElapsedIsNumber ==
    ASSUME NEW b \in StoredBudget, NEW range, range.end \in Int
    PROVE  SummaryElapsed(b, range) \in Int
  <1>1. b.start \in Int /\ b.end \in Int
    BY DEF StoredBudget
  <1> DEFINE m == Min({range.end, b.end})
             d == m - b.start
  <1>2. m \in Int
    <2>1. m \in {range.end, b.end}
      BY <1>1, MinOfTwo
    <2> QED
      BY <1>1, <2>1
  <1>3. d \in Int
    BY <1>1, <1>2
  <1> HIDE DEF m, d
  <1>4. Max({0, d}) \in Int
    <2>1. d >= 0 => Max({0, d}) = d
      BY <1>3, MaxIs
    <2>2. d < 0 => Max({0, d}) = 0
      BY <1>3, MaxIs
    <2> QED
      BY <1>3, <2>1, <2>2
  <1> QED
    BY <1>4 DEF SummaryElapsed, m, d

\* A budget that will not last has a payment, and one that warns has a warning.
LEMMA ForecastIsSignalled ==
    ASSUME NEW ps \in SUBSET Payments, NEW b \in StoredBudget, NEW range, range.end \in Int,
           \A p \in ps : p.at < range.end, b.status = "active"
    PROVE  /\ ForecastStatus(ps, b, range) = "over_limit"
                <=> Spent(Matching(ps, b)) >= b.amount
           /\ ForecastStatus(ps, b, range) \in {"over_limit", "warning"} => Warned(ps, b)
           /\ ForecastStatus(ps, b, range) = "at_risk" =>
                 \/ Overruns(ps, b)
                 \/ Cardinality(Matching(ps, b)) = 1
                 \/ Elapsed(ps, b) = 0
           /\ ForecastStatus(ps, b, range) \in {"over_limit", "at_risk", "warning", "on_track"}
  <1> DEFINE ms == Matching(ps, b)
             s == Spent(ms)
             status == ForecastStatus(ps, b, range)
             projected == SummaryProjected(ps, b, range)
  <1>1. ms \in SUBSET Payments /\ IsFiniteSet(ms) /\ s \in Nat
    <2>1. ms \in SUBSET Payments /\ IsFiniteSet(ms)
      BY FactsAssumption, FS_Subset DEF Matching
    <2> QED
      BY <2>1, SpentGrows
  <1>2. /\ b.amount \in Nat \ {0} /\ b.threshold \in Nat /\ b.threshold <= 10000
        /\ b.start \in Int /\ b.end \in Int
    <2>1. b.threshold \in BasisPoints
      BY DEF StoredBudget
    <2>2. \A t \in BasisPoints : t \in Nat /\ t <= 10000
      BY DEF BasisPoints
    <2>3. b.amount \in Nat \ {0} /\ b.start \in Int /\ b.end \in Int
      BY DEF StoredBudget
    <2> QED
      BY <2>1, <2>2, <2>3
  <1>3. status = IF s >= b.amount THEN "over_limit"
                 ELSE IF projected >= b.amount THEN "at_risk"
                 ELSE IF Percentage(s, b.amount) * 10 >= b.threshold THEN "warning"
                 ELSE "on_track"
    <2>1. status = CASE b.status # "active" -> "inactive"
                     [] b.status = "active" /\ s >= b.amount -> "over_limit"
                     [] OTHER -> IF projected >= b.amount THEN "at_risk"
                                 ELSE IF Percentage(s, b.amount) * 10 >= b.threshold
                                        THEN "warning"
                                 ELSE "on_track"
      BY DEF ForecastStatus, OverLimit
    <2> HIDE DEF projected, s, status
    <2>2. CASE s >= b.amount
      BY <2>1, <2>2, Zenon
    <2>3. CASE ~(s >= b.amount)
      BY <2>1, <2>3
    <2> QED
      BY <2>2, <2>3
  <1> HIDE DEF ms, s, status, projected
  <1>4. status \in {"over_limit", "warning"} => s >= Warning(b)
    <2>1. CASE s >= b.amount
      BY <1>1, <1>2, <2>1, AmountWarns DEF Warning
    <2>2. CASE Percentage(s, b.amount) * 10 >= b.threshold
      <3> DEFINE a == b.amount
                 t == b.threshold
      <3>1. a \in Nat \ {0} /\ t \in Nat /\ Percentage(s, a) * 10 >= t
        BY <1>2, <2>2
      <3> HIDE DEF a, t
      <3>2. s >= (a * t) \div 10000
        BY <1>1, <3>1, PercentageWarns
      <3> QED
        BY <3>2 DEF Warning, a, t
    <2>3. status \in {"over_limit", "warning"} =>
            s >= b.amount \/ Percentage(s, b.amount) * 10 >= b.threshold
      BY <1>3
    <2> QED
      BY <2>1, <2>2, <2>3
  <1>5. ASSUME projected >= b.amount, Cardinality(ms) # 1, Elapsed(ps, b) # 0
        PROVE  Overruns(ps, b)
    <2> DEFINE e == Elapsed(ps, b)
               f == SummaryElapsed(b, range)
               l == b.end - b.start
    <2>1. ms # {}
      <3> SUFFICES ASSUME ms = {} PROVE FALSE
        OBVIOUS
      <3>1. s = 0
        BY <1>1, SpentIsSum, SumOfNone DEF s
      <3>2. projected = 0
        <4>1. s * l = 0
          BY <1>2, <3>1
        <4>2. projected = IF f > 0 THEN (s * l) \div f ELSE 0
          BY DEF projected, SummaryProjected, s, ms
        <4>3. f > 0 /\ f \in Int => 0 \div f = 0
          <5>1. ASSUME f > 0, f \in Int PROVE 0 \div f = 0
            <6>1. f \in Nat \ {0}
              BY <5>1
            <6> HIDE DEF f
            <6>2. 0 \div f \in Nat /\ f * (0 \div f) <= 0
              BY <6>1, Quotient
            <6> QED
              BY <6>1, <6>2
          <5> QED
            BY <5>1
        <4>4. f \in Int
          BY ElapsedIsNumber
        <4> HIDE DEF f
        <4> QED
          BY <4>1, <4>2, <4>3, <4>4
      <3> QED
        BY <1>2, <1>5, <3>2
    <2>2. /\ e \in Nat \ {0} /\ f \in Nat \ {0} /\ e <= f /\ l \in Nat \ {0}
      <3>1. /\ e \in Nat /\ f \in Nat /\ e <= f /\ l \in Nat \ {0}
        BY <2>1, ElapsedIs DEF ms
      <3> QED
        BY <3>1, <1>5
    <2>3. Cardinality(ms) >= 2
      BY <1>1, <1>5, <2>1, FS_CardinalityType, FS_EmptySet
    <2>4. projected = (s * l) \div f /\ Projected(ps, b) = (s * l) \div e
      BY <2>2 DEF projected, SummaryProjected, Projected, s, ms
    <2> DEFINE n == s * l
    <2>5. n \in Nat
      BY <1>1, <2>2
    <2> HIDE DEF n, e, f, l
    <2>6. n \div f <= n \div e
      BY <2>2, <2>5, QuotientsShrink
    <2>7. n \div f \in Nat /\ n \div e \in Nat
      BY <2>2, <2>5, Quotient
    <2>8. Projected(ps, b) >= b.amount
      BY <1>2, <1>5, <2>4, <2>6, <2>7 DEF n
    <2> QED
      BY <2>2, <2>3, <2>8 DEF Overruns, e, ms
  <1> QED
    BY <1>1, <1>2, <1>3, <1>4, <1>5 DEF Warned, s, ms, status

\* The table of budgets and the signals agree for any budgets with ids of their own.
LEMMA TablesAgree ==
    ASSUME NEW ps \in SUBSET Payments, NEW bs \in SUBSET StoredBudget,
           \A b, c \in bs : b.id = c.id => b = c,
           NEW range, range.end \in Int, \A p \in ps : p.at < range.end
    PROVE  BudgetsAgree(ps, bs, {BudgetRow(ps, b, range) : b \in bs})
  <1> DEFINE rows == {BudgetRow(ps, b, range) : b \in bs}
  <1>1. ASSUME NEW b \in Active(bs)
        PROVE  LET status == (CHOOSE row \in rows : row.id = b.id).forecastStatus
                   opened == {r \in BudgetRules(ps, bs) \cup ForecastRules(ps, bs) :
                                   r.id[2].budget = b.id}
               IN  /\ status = "over_limit" <=> \E r \in opened : r.severity = "high"
                   /\ \/ status = "on_track"
                      \/ opened # {}
                      \/ /\ status = "at_risk"
                         /\ Cardinality(Matching(ps, b)) = 1 \/ Elapsed(ps, b) = 0
    <2> DEFINE status == (CHOOSE row \in rows : row.id = b.id).forecastStatus
               opened == SignalsOf(ps, bs, b)
    <2>1. b \in bs /\ b.status = "active" /\ b \in StoredBudget
      BY <1>1 DEF Active
    <2>2. \A c : /\ BudgetRow(ps, c, range).id = c.id
                 /\ BudgetRow(ps, c, range).forecastStatus = ForecastStatus(ps, c, range)
      BY DEF BudgetRow
    <2>3. (CHOOSE row \in rows : row.id = b.id) = BudgetRow(ps, b, range)
      <3>1. BudgetRow(ps, b, range) \in rows
        BY <2>1
      <3>2. \A row \in rows : row.id = b.id => row = BudgetRow(ps, b, range)
        BY <2>1, <2>2
      <3> HIDE DEF rows
      <3> QED
        BY <2>2, <3>1, <3>2
    <2>4. status = ForecastStatus(ps, b, range)
      BY <2>2, <2>3
    <2> HIDE DEF status, opened
    <2>5. /\ Warned(ps, b) => WarningOf(ps, b) \in opened
          /\ ~Warned(ps, b) /\ Overruns(ps, b) => ForecastOf(ps, b) \in opened
          /\ \A r \in opened : r.severity = "high" => Spent(Matching(ps, b)) >= b.amount
          /\ Spent(Matching(ps, b)) >= b.amount => WarningOf(ps, b).severity = "high"
      BY <2>1, SignalsAre DEF opened
    <2>6. /\ status = "over_limit" <=> Spent(Matching(ps, b)) >= b.amount
          /\ status \in {"over_limit", "warning"} => Warned(ps, b)
          /\ status = "at_risk" =>
                \/ Overruns(ps, b)
                \/ Cardinality(Matching(ps, b)) = 1
                \/ Elapsed(ps, b) = 0
          /\ status \in {"over_limit", "at_risk", "warning", "on_track"}
      BY <2>1, <2>4, ForecastIsSignalled
    <2>7. status = "over_limit" <=> \E r \in opened : r.severity = "high"
      BY <2>5, <2>6
    <2>8. \/ status = "on_track"
          \/ opened # {}
          \/ /\ status = "at_risk"
             /\ Cardinality(Matching(ps, b)) = 1 \/ Elapsed(ps, b) = 0
      BY <2>5, <2>6
    <2> QED
      BY <2>7, <2>8 DEF status, opened, SignalsOf
  <1> QED
    BY <1>1 DEF BudgetsAgree

-------------------------------------------------------------------------------
(* The dearest group.                                                      *)

\* What is spent in two sets that share no payment.
LEMMA SpentOfTwo ==
    ASSUME NEW g \in SUBSET Payments, NEW h \in SUBSET Payments, g \cap h = {}
    PROVE  Spent(g \cup h) = Spent(g) + Spent(h)
  <1> DEFINE C == {s \in SUBSET h : Spent(g \cup s) # Spent(g) + Spent(s)}
  <1> SUFFICES ASSUME C # {} PROVE FALSE
    OBVIOUS
  <1>1. \A s \in SUBSET Payments :
           IsFiniteSet(s) /\ Spent(s) = SumOf(Amount, s) /\ \A p \in s : Amount[p] \in Int
    BY FactsAssumption, FS_Subset, SpentIsSum DEF Amount
  <1>2. \A s \in SUBSET Payments, p \in Payments :
           p \in s => Spent(s) = Amount[p] + Spent(s \ {p})
    <2> SUFFICES ASSUME NEW s \in SUBSET Payments, NEW p \in s
                 PROVE  Spent(s) = Amount[p] + Spent(s \ {p})
      OBVIOUS
    <2>1. SumOf(Amount, s) = Amount[p] + SumOf(Amount, s \ {p})
      BY <1>1, SumRemoves
    <2> QED
      BY <1>1, <2>1
  <1>3. PICK s \in C : \A r \in SUBSET s : r # s => r \notin C
    <2>1. \A s \in C : IsFiniteSet(s)
      BY <1>1
    <2> HIDE DEF C
    <2> QED
      BY <2>1, SmallestSet
  <1>4. s # {}
    <2>1. Spent({}) = 0 /\ Spent(g) \in Nat
      BY <1>1, SumOfNone, SpentGrows
    <2>2. g \cup {} = g
      OBVIOUS
    <2>3. Spent(g \cup {}) = Spent(g) + Spent({})
      BY <2>1, <2>2
    <2>4. Spent(g \cup s) # Spent(g) + Spent(s)
      BY <1>3
    <2> QED
      BY <2>3, <2>4
  <1>5. PICK p \in s : TRUE
    BY <1>4
  <1>6. s \ {p} \notin C /\ s \ {p} \in SUBSET h
    BY <1>3, <1>5
  <1>7. Spent(g \cup (s \ {p})) = Spent(g) + Spent(s \ {p})
    BY <1>6
  <1>8. (g \cup s) \ {p} = g \cup (s \ {p}) /\ p \in g \cup s /\ p \in Payments
    BY <1>5
  <1>9. Spent(g \cup s) = Amount[p] + Spent(g \cup (s \ {p}))
        /\ Spent(s) = Amount[p] + Spent(s \ {p})
    BY <1>2, <1>8
  <1>10. Spent(g) \in Nat /\ Spent(s \ {p}) \in Nat /\ Amount[p] \in Int
    BY <1>1, <1>8, SpentGrows
  <1> QED
    BY <1>3, <1>7, <1>9, <1>10

\* The groups of a table, which has one for what is not there, too.
LEMMA GroupsAre ==
    ASSUME NEW ps \in SUBSET Payments, NEW field
    PROVE  /\ IsFiniteSet(Groups(ps, field))
           /\ GroupBy(ps, field) \subseteq Groups(ps, field)
           /\ \A g \in Groups(ps, field) : g # {} /\ g \in SUBSET ps /\ First(g) \in Payments
           /\ \A g, h \in Groups(ps, field) : g # h => g \cap h = {}
  <1>1. IsFiniteSet(SUBSET ps)
    BY FactsAssumption, FS_Subset, FS_SUBSET
  <1>2. \A g \in Groups(ps, field) : g # {} /\ g \in SUBSET ps
    BY DEF Groups
  <1>3. \A g \in Groups(ps, field) : First(g) \in Payments
    BY <1>2, FirstIs
  <1>4. Groups(ps, field) \in SUBSET SUBSET ps
    BY <1>2
  <1>5. \A g, h \in Groups(ps, field) : g # h => g \cap h = {}
    BY DEF Groups
  <1>6. GroupBy(ps, field) \subseteq Groups(ps, field)
    BY DEF GroupBy, Groups
  <1> QED
    BY <1>1, <1>2, <1>3, <1>4, <1>5, <1>6, FS_Subset

\* A group that concentrates spending is the dearest.
LEMMA LeaderIsDearest ==
    ASSUME NEW ps \in SUBSET Payments, NEW field, NEW g \in Leaders(ps, field)
    PROVE  /\ g \in Groups(ps, field)
           /\ \A h \in Groups(ps, field) \ {g} :
                 DearerGroup(g, h) /\ ~DearerGroup(h, g)
           /\ ~DearerGroup(g, g)
  <1>1. g \in GroupBy(ps, field) /\ Spent(g) * 100 >= Spent(ps) * 70 /\ Cardinality(ps) >= 5
    <2>1. ~(Cardinality(ps) < 5)
      BY DEF Leaders
    <2>2. Cardinality(ps) \in Nat
      BY FactsAssumption, FS_Subset, FS_CardinalityType
    <2> QED
      BY <2>1, <2>2 DEF Leaders
  <1>2. g \in Groups(ps, field) /\ g \in SUBSET ps /\ g # {}
    BY <1>1, GroupsAre
  <1>3. Spent(ps) \in Nat /\ Spent(ps) # 0
    <2>1. Spent({}) = 0 /\ {} \in SUBSET ps /\ ps # {}
      BY <1>2, SpentIsSum, SumOfNone
    <2> QED
      BY <2>1, SpentGrows
  <1>4. ASSUME NEW h \in Groups(ps, field) \ {g}
        PROVE  Spent(h) < Spent(g) /\ Spent(h) \in Nat /\ Spent(g) \in Nat
    <2>1. h \in SUBSET ps /\ g \cap h = {}
      BY <1>2, GroupsAre
    <2>2. Spent(g \cup h) = Spent(g) + Spent(h)
      BY <1>2, <2>1, SpentOfTwo
    <2>3. Spent(g \cup h) <= Spent(ps) /\ Spent(g) \in Nat /\ Spent(h) \in Nat
      <3>1. g \cup h \in SUBSET ps
        BY <1>2, <2>1
      <3> QED
        BY <1>2, <2>1, <3>1, SpentGrows
    <2> QED
      BY <1>1, <1>3, <2>2, <2>3
  <1>5. Spent(g) \in Nat /\ ~Earlier(First(g), First(g))
    <2>1. First(g) \in Payments
      BY <1>2, GroupsAre
    <2>2. First(g).at \in Int /\ First(g).id \in Int
      BY <2>1, FactsAssumption
    <2> QED
      BY <1>2, <2>2, SpentGrows DEF Earlier
  <1> QED
    BY <1>2, <1>4, <1>5 DEF DearerGroup

\* The dearest group is the first of its table.
LEMMA LeaderIsOnTop ==
    ASSUME NEW ps \in SUBSET Payments, NEW field, NEW g \in Leaders(ps, field)
    PROVE  TopCategory(GroupRows(ps, field)) = KeyOf(g, field)
  <1> DEFINE G == Groups(ps, field)
             n == Cardinality(G)
             before(x) == {y \in G : DearerGroup(y, x)}
             groups == Sorted(G, DearerGroup)
             rows == GroupRows(ps, field)
  <1>1. g \in G /\ IsFiniteSet(G) /\ n \in Nat \ {0}
    <2>1. g \in G /\ IsFiniteSet(G)
      BY LeaderIsDearest, GroupsAre
    <2> HIDE DEF G
    <2> QED
      BY <2>1, FS_CardinalityType, FS_EmptySet
  <1>2. before(g) = {}
    BY LeaderIsDearest
  <1>3. \A x \in G : x # g => g \in before(x)
    BY LeaderIsDearest
  <1>4. groups = [i \in 1..n |-> CHOOSE x \in G : Cardinality(before(x)) = i - 1]
    BY DEF Sorted
  <1> HIDE DEF G, n, before, groups, rows
  <1>5. \A x \in G : Cardinality(before(x)) = 0 <=> x = g
    <2> TAKE x \in G
    <2>1. IsFiniteSet(before(x))
      BY <1>1, FS_Subset DEF before
    <2> QED
      BY <1>2, <1>3, <2>1, FS_EmptySet
  <1>6. groups[1] = CHOOSE x \in G : Cardinality(before(x)) = 0
    <2>1. 1 \in 1..n /\ 1 - 1 = 0
      BY <1>1
    <2> QED
      BY <1>4, <2>1
  <1>7. groups[1] = g
    BY <1>1, <1>5, <1>6
  <1>8. rows = [i \in 1..n |->
                  [id |-> KeyOf(groups[i], field), spent |-> Spent(groups[i]),
                   count |-> Cardinality(groups[i]),
                   share |-> Percentage(Spent(groups[i]), Spent(ps))]]
    <2>1. DOMAIN groups = 1..n
      BY <1>4
    <2> QED
      BY <2>1 DEF rows, GroupRows, groups, G
  <1>9. rows[1].id = KeyOf(g, field) /\ DOMAIN rows # {}
    <2>1. 1 \in 1..n
      BY <1>1
    <2> QED
      BY <1>7, <1>8, <2>1
  <1> QED
    BY <1>9 DEF TopCategory, rows

\* The summary of a workspace, or of a wallet, agrees with the rules over the same
\* payments, whatever they are: no budget that is over its limit or warned of goes
\* without a signal, and a concentration is on top of the dashboard.
THEOREM SummariesAgreeWithRules == FactsSpec => []SummaryAgreesWithRules
  <1>1. ASSUME FactsInv, NEW range \in Ranges
        PROVE  /\ BudgetsAgree(ListForAnalysis(range), Rows,
                               GetWorkspaceSummary(range).budgets)
               /\ \A w : BudgetsAgree(OfWalletIn(w, range), BudgetsOfWallet(w),
                                      GetWalletSummary(w, range).budgets)
    <2>1. Rows \in SUBSET StoredBudget /\ \A b, c \in Rows : b.id = c.id => b = c
      BY <1>1 DEF FactsInv, Snapshot, Now, Rows
    <2>2. range.end \in Int
      BY RangesAssumption
    <2>3. /\ ListForAnalysis(range) \in SUBSET Payments
          /\ \A p \in ListForAnalysis(range) : p.at < range.end
      BY <1>1 DEF FactsInv, Snapshot, Now, ListForAnalysis
    <2>4. GetWorkspaceSummary(range).budgets
            = {BudgetRow(ListForAnalysis(range), b, range) : b \in Rows}
      BY DEF GetWorkspaceSummary, WorkspaceSummary
    <2>5. ASSUME NEW w
          PROVE  BudgetsAgree(OfWalletIn(w, range), BudgetsOfWallet(w),
                              GetWalletSummary(w, range).budgets)
      <3>1. /\ BudgetsOfWallet(w) \in SUBSET StoredBudget
            /\ \A b, c \in BudgetsOfWallet(w) : b.id = c.id => b = c
        BY <2>1 DEF BudgetsOfWallet
      <3>2. /\ OfWalletIn(w, range) \in SUBSET Payments
            /\ \A p \in OfWalletIn(w, range) : p.at < range.end
        BY <2>3 DEF OfWalletIn
      <3>3. GetWalletSummary(w, range).budgets
              = {BudgetRow(OfWalletIn(w, range), b, range) : b \in BudgetsOfWallet(w)}
        BY DEF GetWalletSummary, WorkspaceSummary
      <3> QED
        BY <2>2, <3>1, <3>2, <3>3, TablesAgree
    <2> QED
      BY <2>1, <2>2, <2>3, <2>4, <2>5, TablesAgree
  <1>2. ASSUME FactsInv, NEW range \in Ranges, NEW rules,
               NEW r \in ConcentrationRules(ListForAnalysis(range)), r.id[2] = "category"
        PROVE  r.id[3].value = GetWorkspaceDashboard(range, rules).topCategory
    <2> DEFINE ps == ListForAnalysis(range)
    <2>1. ps \in SUBSET Payments
      BY <1>2 DEF FactsInv, Snapshot, Now, ListForAnalysis
    <2>2. GetWorkspaceDashboard(range, rules).topCategory = TopCategory(GroupRows(ps, "category"))
      <3>1. GetWorkspaceSummary(range).categories = GroupRows(ps, "category")
        BY DEF GetWorkspaceSummary, WorkspaceSummary
      <3>2. GetWorkspaceDashboard(range, rules).topCategory
              = TopCategory(GetWorkspaceSummary(range).categories)
        BY DEF GetWorkspaceDashboard, BuildPersistentDashboard
      <3> QED
        BY <3>1, <3>2
    <2> DEFINE facts(f, g) ==
                   [value |-> KeyOf(g, f), share |-> Share(g, ps), payments |-> Ids(g),
                    total |-> Spent(ps), spent |-> Spent(g)]
               rule(f, g) ==
                   Rule(<<"concentration", f, facts(f, g)>>,
                        IF Share(g, ps) >= 8500 THEN "high" ELSE "medium", None, None)
    <2>3. ConcentrationRules(ps)
            = UNION {{rule(f, g) : g \in Leaders(ps, f)} : f \in {"provider", "category"}}
      BY DEF ConcentrationRules
    <2>4. \A f, g : rule(f, g).id[2] = f /\ rule(f, g).id[3].value = KeyOf(g, f)
      BY DEF Rule
    <2> HIDE DEF ps, rule, facts
    <2>5. PICK f \in {"provider", "category"} : \E g \in Leaders(ps, f) : r = rule(f, g)
      BY <1>2, <2>3 DEF ps
    <2>6. PICK g \in Leaders(ps, f) : r = rule(f, g)
      BY <2>5
    <2>7. f = "category" /\ r.id[3].value = KeyOf(g, "category")
      BY <1>2, <2>4, <2>6
    <2> QED
      BY <2>1, <2>2, <2>6, <2>7, LeaderIsOnTop
  <1>3. FactsInv => SummaryAgreesWithRules
    BY <1>1, <1>2 DEF SummaryAgreesWithRules
  <1> QED
    BY <1>3, FactsInvariance, PTL

-------------------------------------------------------------------------------
(* Sums of parts.                                                          *)

\* The sum of a function, a fold of the community modules, is such a sum too.
LEMMA SumFunctionIs ==
    ASSUME NEW f, NEW S, S = DOMAIN f, IsFiniteSet(S)
    PROVE  SumFunction(f) = SumOf(f, S)
  <1> DEFINE P(g) == g = [s \in SUBSET S |->
                             IF s = {} THEN 0
                             ELSE LET x == CHOOSE x \in s : TRUE
                                  IN  f[x] + g[s \ {x}]]
  <1>1. SumFunction(f) = (CHOOSE g : P(g))[S]
    BY DEF SumFunction, SumFunctionOnSet, FoldFunctionOnSet, MapThenFoldSet
  <1>2. \A g : P(g) <=> SumEq(f, S, g)
    BY DEF SumEq
  <1> HIDE DEF P
  <1>3. P(SumFcn(f, S))
    BY <1>2, SumExists
  <1>4. P(CHOOSE g : P(g))
    BY <1>3
  <1> DEFINE g == CHOOSE g : P(g)
  <1>5. SumEq(f, S, g) /\ SumEq(f, S, SumFcn(f, S))
    BY <1>2, <1>4, SumExists
  <1>6. g[S] = SumFcn(f, S)[S]
    <2> HIDE DEF g
    <2>1. S \in SUBSET (S \cap S) /\ IsFiniteSet(S)
      OBVIOUS
    <2>2. \A s \in SUBSET (S \cap S) : g[s] = SumFcn(f, S)[s]
      BY <1>5, <2>1, SumsAgree
    <2> QED
      BY <2>1, <2>2
  <1> QED
    BY <1>1, <1>6 DEF SumOf

\* mass measures the subsets of T: what is counted in two that share nothing is
\* what is counted in both.
Additive(mass, T) ==
    \A a, b \in SUBSET T :
        mass[a] \in Nat /\ (a \cap b = {} => mass[a \cup b] = mass[a] + mass[b])

\* The sets part[i] hold each member of T once.
Parts(T, part, I) ==
    /\ \A i \in I : part[i] \in SUBSET T
    /\ \A i, j \in I : i # j => part[i] \cap part[j] = {}
    /\ \A x \in T : \E i \in I : x \in part[i]

\* val[i] is what is counted in part[i].
Counts(val, mass, part, I) == \A i \in I : val[i] = mass[part[i]]

\* What is counted in the parts is what is counted in the whole.
LEMMA SumOfParts ==
    ASSUME NEW T, NEW mass, Additive(mass, T), NEW I, IsFiniteSet(I),
           NEW part, Parts(T, part, I), NEW val, Counts(val, mass, part, I)
    PROVE  SumOf(val, I) = mass[T]
  <1> DEFINE whole(J) == UNION {part[i] : i \in J}
             C == {J \in SUBSET I : SumOf(val, J) # mass[whole(J)]}
  <1>a. /\ \A a \in SUBSET T : mass[a] \in Nat
        /\ \A a, b \in SUBSET T : a \cap b = {} => mass[a \cup b] = mass[a] + mass[b]
    BY DEF Additive
  <1>p. /\ \A i \in I : part[i] \in SUBSET T /\ val[i] = mass[part[i]]
        /\ \A i, j \in I : i # j => part[i] \cap part[j] = {}
    BY DEF Parts, Counts
  <1>t. whole(I) = T
    BY DEF Parts
  <1>1. \A i \in I : val[i] \in Int
    BY <1>a, <1>p
  <1>2. \A J \in SUBSET I : whole(J) \in SUBSET T /\ IsFiniteSet(J)
    BY <1>p, FS_Subset
  <1>3. whole({}) = {} /\ mass[{}] = 0
    <2>1. {} \cap {} = {} /\ {} \cup {} = {} /\ {} \in SUBSET T
      OBVIOUS
    <2>2. mass[{}] \in Nat
      BY <1>a, <2>1
    <2>3. mass[{} \cup {}] = mass[{}] + mass[{}]
      BY <1>a, <2>1
    <2>4. mass[{}] = mass[{}] + mass[{}]
      BY <2>1, <2>3
    <2>5. whole({}) = {}
      OBVIOUS
    <2>6. mass[{}] = 0
      <3> DEFINE z == mass[{}]
      <3>1. z \in Nat /\ z = z + z
        BY <2>2, <2>4
      <3> HIDE DEF z
      <3>2. z = 0
        BY <3>1
      <3> QED
        BY <3>2 DEF z
    <2> QED
      BY <2>5, <2>6
  <1> SUFFICES ASSUME C # {} PROVE FALSE
    <2>1. I \in SUBSET I
      OBVIOUS
    <2> QED
      BY <1>t, <2>1
  <1>4. PICK J \in C : \A K \in SUBSET J : K # J => K \notin C
    <2>1. \A J \in C : IsFiniteSet(J)
      BY <1>2
    <2> HIDE DEF C
    <2> QED
      BY <2>1, SmallestSet
  <1>5. J \in SUBSET I /\ SumOf(val, J) # mass[whole(J)]
    BY <1>4
  <1> HIDE DEF whole
  <1>6. J # {}
    BY <1>3, <1>5, SumOfNone
  <1>7. PICK i \in J : TRUE
    BY <1>6
  <1>8. J \ {i} \notin C /\ J \ {i} \in SUBSET I
    BY <1>4, <1>5, <1>7
  <1>9. SumOf(val, J \ {i}) = mass[whole(J \ {i})]
    BY <1>8
  <1>10. SumOf(val, J) = val[i] + SumOf(val, J \ {i})
    BY <1>1, <1>2, <1>5, SumRemoves
  <1>11. /\ whole(J) = part[i] \cup whole(J \ {i})
         /\ part[i] \cap whole(J \ {i}) = {}
    BY <1>5, <1>7, <1>p DEF whole
  <1>12. part[i] \in SUBSET T /\ whole(J \ {i}) \in SUBSET T
    BY <1>2, <1>5, <1>7, <1>8, <1>p
  <1>13. mass[whole(J)] = mass[part[i]] + mass[whole(J \ {i})]
    <2> DEFINE a == part[i]
               b == whole(J \ {i})
    <2>1. a \in SUBSET T /\ b \in SUBSET T /\ a \cap b = {} /\ whole(J) = a \cup b
      BY <1>11, <1>12
    <2> HIDE DEF a, b
    <2>2. mass[whole(J)] = mass[a] + mass[b]
      BY <1>a, <2>1
    <2> QED
      BY <2>2 DEF a, b
  <1> QED
    BY <1>5, <1>7, <1>9, <1>10, <1>13, <1>p

\* Shares of a total, in tenths of a percent, that are cut.
Shares(share, val, total, I) ==
    \A i \in I : /\ share[i] \in Nat
                 /\ total * share[i] <= 1000 * val[i]
                 /\ 1000 * val[i] < total * share[i] + total

\* Shares that are cut lack less than one each.
LEMMA SharesOfParts ==
    ASSUME NEW I, IsFiniteSet(I), I # {}, NEW total \in Nat \ {0},
           NEW val, \A i \in I : val[i] \in Nat, SumOf(val, I) = total,
           NEW share, Shares(share, val, total, I)
    PROVE  SumOf(share, I) \in (1001 - Cardinality(I))..1000
  <1> DEFINE s(J) == SumOf(val, J)
             h(J) == SumOf(share, J)
             c(J) == Cardinality(J)
             good(J) == /\ total * h(J) <= 1000 * s(J)
                        /\ 1000 * s(J) <= total * h(J) + (total - 1) * c(J)
             C == {J \in SUBSET I : ~good(J)}
  <1>s. \A i \in I : /\ share[i] \in Nat
                     /\ total * share[i] <= 1000 * val[i]
                     /\ 1000 * val[i] < total * share[i] + total
    BY DEF Shares
  <1>1. \A J \in SUBSET I : s(J) \in Int /\ h(J) \in Int /\ c(J) \in Nat /\ IsFiniteSet(J)
    <2> SUFFICES ASSUME NEW J \in SUBSET I
                 PROVE  s(J) \in Int /\ h(J) \in Int /\ c(J) \in Nat /\ IsFiniteSet(J)
      OBVIOUS
    <2>1. IsFiniteSet(J) /\ \A i \in J : val[i] \in Int /\ share[i] \in Int
      BY <1>s, FS_Subset
    <2> QED
      BY <2>1, SumType, FS_CardinalityType
  <1>2. C = {}
    <2> SUFFICES ASSUME C # {} PROVE FALSE
      OBVIOUS
    <2>1. PICK J \in C : \A K \in SUBSET J : K # J => K \notin C
      <3>1. \A J \in C : IsFiniteSet(J)
        BY <1>1
      <3> HIDE DEF C
      <3> QED
        BY <3>1, SmallestSet
    <2>2. J \in SUBSET I /\ ~good(J)
      BY <2>1
    <2>3. J # {}
      <3>1. s({}) = 0 /\ h({}) = 0 /\ c({}) = 0
        BY SumOfNone, FS_EmptySet
      <3>2. total * 0 = 0 /\ (total - 1) * 0 = 0
        OBVIOUS
      <3>3. good({})
        BY <3>1, <3>2
      <3>4. J = {} => good(J)
        <4> HIDE DEF s, h, c, good
        <4> QED
          BY <3>3
      <3> QED
        BY <2>2, <3>4
    <2>4. PICK i \in J : TRUE
      BY <2>3
    <2> DEFINE K == J \ {i}
    <2>5. K \in SUBSET I /\ good(K)
      BY <2>1, <2>2, <2>4
    <2>6. s(J) = val[i] + s(K) /\ h(J) = share[i] + h(K) /\ c(J) = c(K) + 1
      <3>1. IsFiniteSet(J) /\ \A j \in J : val[j] \in Int /\ share[j] \in Int
        BY <1>1, <1>s, <2>2
      <3>2. c(K) = c(J) - 1 /\ c(J) \in Nat
        BY <1>1, <2>2, <2>4, FS_RemoveElement
      <3>3. s(J) = val[i] + s(K)
        BY <2>4, <3>1, SumRemoves
      <3>4. h(J) = share[i] + h(K)
        <4>1. \A j \in J : share[j] \in Int
          BY <3>1
        <4> QED
          BY <2>4, <3>1, <4>1, SumRemoves
      <3>5. c(J) = c(K) + 1
        <4> HIDE DEF c
        <4>1. c(K) = c(J) - 1 /\ c(J) \in Nat
          BY <3>2
        <4> QED
          BY <4>1
      <3> QED
        BY <3>3, <3>4, <3>5
    <2>7. /\ s(K) \in Int /\ h(K) \in Int /\ c(K) \in Nat
          /\ val[i] \in Nat /\ share[i] \in Nat
      BY <1>1, <1>s, <2>2, <2>4, <2>5
    <2>8. /\ total * share[i] <= 1000 * val[i]
          /\ 1000 * val[i] <= total * share[i] + (total - 1)
      <3> DEFINE m == total * share[i]
      <3>1. m \in Nat
        BY <2>7
      <3>2. m <= 1000 * val[i] /\ 1000 * val[i] < m + total
        BY <1>s, <2>2, <2>4
      <3> HIDE DEF m
      <3>3. 1000 * val[i] <= m + (total - 1)
        BY <2>7, <3>1, <3>2
      <3> QED
        BY <3>2, <3>3 DEF m
    <2> DEFINE sk == s(K)
               hk == h(K)
               ck == c(K)
    <2>9. /\ total * hk <= 1000 * sk
          /\ 1000 * sk <= total * hk + (total - 1) * ck
      BY <2>5
    <2>10. sk \in Int /\ hk \in Int /\ ck \in Nat
      BY <2>7
    <2>11. good(J)
      <3> SUFFICES /\ total * (share[i] + hk) <= 1000 * (val[i] + sk)
                   /\ 1000 * (val[i] + sk)
                        <= total * (share[i] + hk) + (total - 1) * (ck + 1)
        BY <2>6
      <3> HIDE DEF sk, hk, ck
      <3>1. /\ total * (share[i] + hk) = total * share[i] + total * hk
            /\ (total - 1) * (ck + 1) = (total - 1) * ck + (total - 1)
        BY <2>7, <2>10
      <3> DEFINE a == total * share[i]
                 b == total * hk
                 d == (total - 1) * ck
      <3>2. a \in Int /\ b \in Int /\ d \in Int
        BY <2>7, <2>10
      <3>3. /\ a <= 1000 * val[i] /\ 1000 * val[i] <= a + (total - 1)
            /\ b <= 1000 * sk /\ 1000 * sk <= b + d
        BY <2>8, <2>9
      <3> HIDE DEF a, b, d
      <3>4. /\ a + b <= 1000 * (val[i] + sk)
            /\ 1000 * (val[i] + sk) <= (a + b) + (d + (total - 1))
        BY <2>7, <2>10, <3>2, <3>3
      <3> QED
        BY <3>1, <3>4 DEF a, b, d
    <2> QED
      BY <2>2, <2>11
  <1> DEFINE x == h(I)
             n == c(I)
  <1>3. good(I)
    BY <1>2
  <1>4. x \in Int /\ n \in Nat \ {0}
    <2>1. n # 0
      BY FS_EmptySet
    <2> QED
      BY <1>1, <2>1
  <1>5. total * x <= 1000 * total /\ 1000 * total <= total * x + (total - 1) * n
    BY <1>3
  <1> HIDE DEF x, n
  <1>6. x <= 1000
    <2> SUFFICES ASSUME x >= 1001 PROVE FALSE
      BY <1>4
    <2> DEFINE m == total * x
    <2>1. 1001 * total <= x * total /\ x * total = m
      BY <1>4, ProductsGrow
    <2>2. m <= 1000 * total
      BY <1>5
    <2> HIDE DEF m
    <2>3. 1001 * total <= m
      BY <2>1
    <2>4. m \in Int
      BY <1>4 DEF m
    <2> QED
      BY <2>2, <2>3, <2>4
  <1>7. x >= 1001 - n
    <2> SUFFICES ASSUME x + n <= 1000 PROVE FALSE
      BY <1>4
    <2>1. total * (x + n) <= total * 1000
      <3>1. total * (1000 - (x + n)) \in Nat
        BY <1>4
      <3>2. total * (1000 - (x + n)) = total * 1000 - total * (x + n)
        BY <1>4
      <3>3. total * (x + n) \in Int
        BY <1>4
      <3> QED
        BY <3>1, <3>2, <3>3
    <2>2. total * (x + n) = total * x + total * n /\ (total - 1) * n = total * n - n
      BY <1>4
    <2>3. total * x \in Int /\ total * n \in Int
      BY <1>4
    <2> QED
      BY <1>4, <1>5, <2>1, <2>2, <2>3
  <1> QED
    BY <1>4, <1>6, <1>7 DEF x, n

-------------------------------------------------------------------------------
(* Tables and their totals.                                                *)

\* The parts of a set of payments add up, in what they cost and in number.
LEMMA PartsAddUp ==
    ASSUME NEW ps \in SUBSET Payments, NEW I, IsFiniteSet(I), NEW part, Parts(ps, part, I),
           NEW val, DOMAIN val = I
    PROVE  /\ (\A i \in I : val[i] = Spent(part[i])) => SumFunction(val) = Spent(ps)
           /\ (\A i \in I : val[i] = Cardinality(part[i])) =>
                 SumFunction(val) = Cardinality(ps)
  <1>1. \A i \in I : part[i] \in SUBSET ps
    BY DEF Parts
  <1>2. SumFunction(val) = SumOf(val, I)
    BY SumFunctionIs
  <1>3. \A a \in SUBSET ps : a \in SUBSET Payments /\ IsFiniteSet(a)
    BY FactsAssumption, FS_Subset
  <1>4. ASSUME \A i \in I : val[i] = Spent(part[i])
        PROVE  SumFunction(val) = Spent(ps)
    <2> DEFINE mass == [a \in SUBSET ps |-> Spent(a)]
    <2>1. \A a \in SUBSET ps : mass[a] = Spent(a) /\ Spent(a) \in Nat
      BY <1>3, SpentGrows
    <2>2. \A a, b \in SUBSET ps : a \cap b = {} => Spent(a \cup b) = Spent(a) + Spent(b)
      BY <1>3, SpentOfTwo
    <2> HIDE DEF mass
    <2>3. Additive(mass, ps)
      BY <2>1, <2>2 DEF Additive
    <2>4. Counts(val, mass, part, I)
      BY <1>1, <1>4, <2>1 DEF Counts
    <2>5. SumOf(val, I) = mass[ps]
      BY <2>3, <2>4, SumOfParts
    <2> QED
      BY <1>1, <1>2, <2>1, <2>5
  <1>5. ASSUME \A i \in I : val[i] = Cardinality(part[i])
        PROVE  SumFunction(val) = Cardinality(ps)
    <2> DEFINE mass == [a \in SUBSET ps |-> Cardinality(a)]
    <2>1. \A a \in SUBSET ps : mass[a] = Cardinality(a) /\ Cardinality(a) \in Nat
      BY <1>3, FS_CardinalityType
    <2>2. \A a, b \in SUBSET ps :
             a \cap b = {} => Cardinality(a \cup b) = Cardinality(a) + Cardinality(b)
      <3> SUFFICES ASSUME NEW a \in SUBSET ps, NEW b \in SUBSET ps, a \cap b = {}
                   PROVE  Cardinality(a \cup b) = Cardinality(a) + Cardinality(b)
        OBVIOUS
      <3>1. Cardinality(a \cup b) = Cardinality(a) + Cardinality(b) - Cardinality(a \cap b)
        BY <1>3, FS_Union
      <3>2. Cardinality(a \cap b) = 0 /\ Cardinality(a) \in Nat /\ Cardinality(b) \in Nat
        BY <1>3, FS_EmptySet, FS_CardinalityType
      <3> QED
        BY <3>1, <3>2
    <2> HIDE DEF mass
    <2>3. Additive(mass, ps)
      BY <2>1, <2>2 DEF Additive
    <2>4. Counts(val, mass, part, I)
      BY <1>1, <1>5, <2>1 DEF Counts
    <2>5. SumOf(val, I) = mass[ps]
      BY <2>3, <2>4, SumOfParts
    <2> QED
      BY <1>1, <1>2, <2>1, <2>5
  <1> QED
    BY <1>4, <1>5

\* Groups are ordered by what they cost, and Sorted lists them.
DearerOf(G) == {r \in G \X G : DearerGroup(r[1], r[2])}
\* Groups are in a linear order of their amounts, and sorting lists them in it.
LEMMA GroupOrders ==
    ASSUME NEW ps \in SUBSET Payments, NEW field
    PROVE  LET G == Groups(ps, field) IN
           /\ OrderedBy(DearerOf(G), G)
           /\ \A g, h \in G : <<g, h>> \in DearerOf(G) <=> DearerGroup(g, h)
           /\ Lists(Sorted(G, DearerGroup), DearerOf(G), G)
  <1> DEFINE G == Groups(ps, field)
             R == DearerOf(G)
             n == Cardinality(G)
  <1>1. \A g, h \in G : <<g, h>> \in R <=> DearerGroup(g, h)
    BY DEF DearerOf
  <1>2. \A g \in G : Spent(g) \in Nat /\ First(g) \in g /\ First(g) \in Payments
    <2> TAKE g \in G
    <2>1. g \in SUBSET Payments /\ g # {}
      BY GroupsAre
    <2> QED
      BY <2>1, SpentGrows, FirstIs
  <1>3. \A g, h \in G : g # h => First(g) # First(h)
    <2> SUFFICES ASSUME NEW g \in G, NEW h \in G, First(g) = First(h) PROVE g = h
      OBVIOUS
    <2>1. First(g) \in g /\ First(g) \in h
      BY <1>2
    <2> QED
      BY <2>1, GroupsAre
  <1>4. \A p, q \in Payments : p # q => Earlier(p, q) \/ Earlier(q, p)
    BY FactsAssumption DEF Earlier
  <1>5. \A p, q, r \in Payments : Earlier(p, q) /\ Earlier(q, r) => Earlier(p, r)
    BY FactsAssumption DEF Earlier
  <1>6. \A p \in Payments : ~Earlier(p, p)
    BY FactsAssumption DEF Earlier
  <1> HIDE DEF G, R
  <1>7. \A g \in G : ~DearerGroup(g, g)
    BY <1>2, <1>6 DEF DearerGroup
  <1>8. \A g, h \in G : g # h => DearerGroup(g, h) \/ DearerGroup(h, g)
    BY <1>2, <1>3, <1>4 DEF DearerGroup
  <1>9. \A f, g, h \in G : DearerGroup(f, g) /\ DearerGroup(g, h) => DearerGroup(f, h)
    <2> SUFFICES ASSUME NEW f \in G, NEW g \in G, NEW h \in G,
                        DearerGroup(f, g), DearerGroup(g, h)
                 PROVE  DearerGroup(f, h)
      OBVIOUS
    <2>1. Spent(f) \in Nat /\ Spent(g) \in Nat /\ Spent(h) \in Nat
      BY <1>2
    <2>2. Earlier(First(f), First(g)) /\ Earlier(First(g), First(h))
            => Earlier(First(f), First(h))
      BY <1>2, <1>5
    <2> QED
      BY <2>1, <2>2 DEF DearerGroup
  <1>10. OrderedBy(R, G)
    BY <1>1, <1>7, <1>8, <1>9 DEF OrderedBy
  <1>11. IsFiniteSet(G) /\ n \in Nat
    <2>1. IsFiniteSet(G)
      BY GroupsAre DEF G
    <2> QED
      BY <2>1, FS_CardinalityType
  <1>12. \A x \in G : {y \in G : DearerGroup(y, x)} = Below(R, G, x)
    BY <1>1 DEF Below
  <1> DEFINE f == Sorted(G, DearerGroup)
  <1>13. f = [i \in 1..n |-> CHOOSE x \in G : Cardinality({y \in G : DearerGroup(y, x)}) = i - 1]
    BY DEF Sorted
  <1> HIDE DEF n, f
  <1>14. ASSUME NEW i \in 1..n
         PROVE  f[i] \in G /\ Rank(R, G, f[i]) = i - 1
    <2>1. \E x \in G : Rank(R, G, x) = i - 1
      BY <1>10, <1>11, RankIsTaken DEF n
    <2>2. \E x \in G : Cardinality({y \in G : DearerGroup(y, x)}) = i - 1
      BY <1>12, <2>1 DEF Rank
    <2>3. f[i] = CHOOSE x \in G : Cardinality({y \in G : DearerGroup(y, x)}) = i - 1
      BY <1>13
    <2>4. f[i] \in G /\ Cardinality({y \in G : DearerGroup(y, f[i])}) = i - 1
      BY <2>2, <2>3
    <2> QED
      BY <1>12, <2>4 DEF Rank
  <1>15. f \in [1..n -> G]
    BY <1>13, <1>14
  <1>16. Lists(f, R, G)
    BY <1>14, <1>15 DEF Lists, n
  <1> QED
    BY <1>1, <1>10, <1>16 DEF f, G, R

\* The rows of a table are its groups, each once, by what they cost.
LEMMA RowsAre ==
    ASSUME NEW ps \in SUBSET Payments, NEW field
    PROVE  LET G == Groups(ps, field)
               n == Cardinality(G)
               groups == Sorted(G, DearerGroup)
               rows == GroupRows(ps, field)
           IN  /\ n \in Nat /\ IsFiniteSet(1..n) /\ Cardinality(1..n) = n
               /\ DOMAIN rows = 1..n /\ Len(rows) = n
               /\ groups \in [1..n -> G]
               /\ Parts(ps, groups, 1..n)
               /\ \A i \in 1..n :
                     /\ Rank(DearerOf(G), G, groups[i]) = i - 1
                     /\ rows[i] = [id |-> KeyOf(groups[i], field), spent |-> Spent(groups[i]),
                                   count |-> Cardinality(groups[i]),
                                   share |-> Percentage(Spent(groups[i]), Spent(ps))]
  <1> DEFINE G == Groups(ps, field)
             n == Cardinality(G)
             groups == Sorted(G, DearerGroup)
             rows == GroupRows(ps, field)
  <1>1. IsFiniteSet(G) /\ OrderedBy(DearerOf(G), G) /\ Lists(groups, DearerOf(G), G)
    BY GroupsAre, GroupOrders
  <1>2. UNION G = ps /\ \A g \in G : g \in SUBSET ps
    BY DEF Groups
  <1>3. \A g, h \in G : g # h => g \cap h = {}
    BY GroupsAre
  <1>4. rows = [i \in DOMAIN groups |->
                  [id |-> KeyOf(groups[i], field), spent |-> Spent(groups[i]),
                   count |-> Cardinality(groups[i]),
                   share |-> Percentage(Spent(groups[i]), Spent(ps))]]
    BY DEF GroupRows
  <1> HIDE DEF G, groups, rows
  <1>5. n \in Nat /\ IsFiniteSet(1..n) /\ Cardinality(1..n) = n
    BY <1>1, FS_CardinalityType, FS_Interval
  <1>6. groups \in [1..n -> G] /\ \A i \in 1..n : Rank(DearerOf(G), G, groups[i]) = i - 1
    BY <1>1 DEF Lists
  <1>7. /\ \A i, j \in 1..n : groups[i] = groups[j] => i = j
        /\ \A x \in G : \E i \in 1..n : groups[i] = x
    BY <1>1, Listed
  <1> HIDE DEF n
  <1>8. Parts(ps, groups, 1..n)
    <2>1. \A i \in 1..n : groups[i] \in G
      BY <1>6
    <2>2. \A p \in ps : \E i \in 1..n : p \in groups[i]
      BY <1>2, <1>7
    <2> QED
      BY <1>2, <1>3, <1>7, <2>1, <2>2 DEF Parts
  <1>9. DOMAIN rows = 1..n /\ Len(rows) = n
    BY <1>4, <1>5, <1>6
  <1> QED
    BY <1>4, <1>5, <1>6, <1>8, <1>9 DEF n, G, groups, rows

\* A table adds up.
LEMMA TableAddsUp ==
    ASSUME NEW ps \in SUBSET Payments, NEW field
    PROVE  LET rows == GroupRows(ps, field) IN
           /\ Total(rows, "spent") = Spent(ps)
           /\ Total(rows, "count") = Cardinality(ps)
           /\ ps # {} => Total(rows, "share") \in (1001 - Len(rows))..1000
  <1> DEFINE groups == Sorted(Groups(ps, field), DearerGroup)
             rows == GroupRows(ps, field)
             n == Cardinality(Groups(ps, field))
             row(i) == [id |-> KeyOf(groups[i], field), spent |-> Spent(groups[i]),
                        count |-> Cardinality(groups[i]),
                        share |-> Percentage(Spent(groups[i]), Spent(ps))]
  <1>1. /\ n \in Nat /\ IsFiniteSet(1..n) /\ Cardinality(1..n) = n
        /\ DOMAIN rows = 1..n /\ Len(rows) = n
        /\ Parts(ps, groups, 1..n)
        /\ \A i \in 1..n : rows[i] = row(i)
    BY RowsAre
  <1>2. \A i : /\ row(i).spent = Spent(groups[i])
               /\ row(i).count = Cardinality(groups[i])
               /\ row(i).share = Percentage(Spent(groups[i]), Spent(ps))
    OBVIOUS
  <1> HIDE DEF groups, rows, n, row
  <1> DEFINE spent == [i \in 1..n |-> rows[i].spent]
             count == [i \in 1..n |-> rows[i].count]
             share == [i \in 1..n |-> rows[i].share]
  <1>3. /\ Total(rows, "spent") = SumFunction(spent)
        /\ Total(rows, "count") = SumFunction(count)
        /\ Total(rows, "share") = SumFunction(share)
    BY <1>1 DEF Total
  <1>4. \A i \in 1..n : /\ spent[i] = Spent(groups[i])
                        /\ count[i] = Cardinality(groups[i])
                        /\ share[i] = Percentage(Spent(groups[i]), Spent(ps))
    BY <1>1, <1>2
  <1>5. DOMAIN spent = 1..n /\ DOMAIN count = 1..n /\ DOMAIN share = 1..n
    OBVIOUS
  <1> HIDE DEF spent, count, share
  <1>6. SumFunction(spent) = Spent(ps)
    BY <1>1, <1>4, <1>5, PartsAddUp
  <1>7. SumFunction(count) = Cardinality(ps)
    BY <1>1, <1>4, <1>5, PartsAddUp
  <1>8. ASSUME ps # {}
        PROVE  SumFunction(share) \in (1001 - n)..1000
    <2>1. Spent(ps) \in Nat \ {0}
      <3>1. Spent({}) = 0 /\ {} \in SUBSET ps
        BY SpentIsSum, SumOfNone
      <3> QED
        BY <1>8, <3>1, SpentGrows
    <2>2. \A i \in 1..n : spent[i] \in Nat
      <3> SUFFICES ASSUME NEW i \in 1..n PROVE Spent(groups[i]) \in Nat
        BY <1>4
      <3>1. groups[i] \in SUBSET ps
        BY <1>1 DEF Parts
      <3> QED
        BY <3>1, SpentGrows
    <2>3. 1..n # {}
      <3>1. PICK p \in ps : TRUE
        BY <1>8
      <3> QED
        BY <1>1, <3>1 DEF Parts
    <2>4. SumFunction(spent) = SumOf(spent, 1..n) /\ SumFunction(share) = SumOf(share, 1..n)
      BY <1>1, <1>5, SumFunctionIs
    <2> DEFINE total == Spent(ps)
    <2>5. Shares(share, spent, total, 1..n)
      <3> SUFFICES ASSUME NEW i \in 1..n
                   PROVE  /\ share[i] \in Nat
                          /\ total * share[i] <= 1000 * spent[i]
                          /\ 1000 * spent[i] < total * share[i] + total
        BY DEF Shares
      <3> DEFINE v == spent[i]
      <3>1. share[i] = Percentage(v, total) /\ v \in Nat
        BY <1>4, <2>2
      <3>2. total \in Nat \ {0}
        BY <2>1
      <3> HIDE DEF total, v
      <3>3. /\ Percentage(v, total) \in Nat
            /\ total * Percentage(v, total) <= 1000 * v
            /\ 1000 * v < total * Percentage(v, total) + total
        BY <3>1, <3>2, PercentageIs
      <3> QED
        BY <3>1, <3>3 DEF v
    <2> HIDE DEF total
    <2>6. SumOf(spent, 1..n) = total /\ total \in Nat \ {0}
      BY <1>6, <2>1, <2>4 DEF total
    <2>7. SumOf(share, 1..n) \in (1001 - Cardinality(1..n))..1000
      BY <1>1, <2>2, <2>3, <2>5, <2>6, SharesOfParts
    <2> QED
      BY <1>1, <2>4, <2>7
  <1> QED
    BY <1>1, <1>3, <1>6, <1>7, <1>8 DEF rows

-------------------------------------------------------------------------------
(* Wallets, the chart and ranges.                                          *)

\* Each payment of ps is in the row of its wallet.
LEMMA WalletsAddUp ==
    ASSUME NEW ps \in SUBSET Payments, NEW bs
    PROVE  LET rows == {RowOf(ps, bs, "wallet", w) : w \in {p.wallet : p \in Payments}} IN
           SumFunction([row \in rows |-> row.spent]) = Spent(ps)
  <1> DEFINE rows == {RowOf(ps, bs, "wallet", w) : w \in {p.wallet : p \in Payments}}
             mine(w) == {p \in ps : p.wallet = w}
             part == [row \in rows |-> mine(row.id)]
             spent == [row \in rows |-> row.spent]
             wallet == [p \in Payments |-> RowOf(ps, bs, "wallet", p.wallet)]
  <1>1. \A w : /\ RowOf(ps, bs, "wallet", w).id = w
               /\ RowOf(ps, bs, "wallet", w).spent = Spent(mine(w))
    BY DEF RowOf
  <1>2. \A row \in rows : row = RowOf(ps, bs, "wallet", row.id)
    BY <1>1
  <1>3. \A p \in ps : RowOf(ps, bs, "wallet", p.wallet) \in rows
    OBVIOUS
  <1>4. IsFiniteSet(rows)
    <2>1. wallet = [p \in Payments |-> wallet[p]] /\ rows = {wallet[p] : p \in Payments}
      OBVIOUS
    <2> HIDE DEF rows, wallet
    <2> QED
      BY <2>1, FactsAssumption, ImageIsFinite
  <1> HIDE DEF rows
  <1>5. \A row \in rows : part[row] = mine(row.id) /\ spent[row] = Spent(part[row])
    BY <1>1, <1>2
  <1>6. DOMAIN spent = rows
    OBVIOUS
  <1>7. Parts(ps, part, rows)
    <2>1. \A row \in rows : part[row] \in SUBSET ps
      BY <1>5
    <2>2. \A i, j \in rows : i # j => part[i] \cap part[j] = {}
      <3> SUFFICES ASSUME NEW i \in rows, NEW j \in rows, NEW p \in part[i] \cap part[j]
                   PROVE  i = j
        OBVIOUS
      <3>1. i.id = p.wallet /\ j.id = p.wallet
        BY <1>5
      <3> QED
        BY <1>2, <3>1
    <2>3. \A p \in ps : \E row \in rows : p \in part[row]
      <3> SUFFICES ASSUME NEW p \in ps PROVE \E row \in rows : p \in part[row]
        OBVIOUS
      <3> DEFINE row == RowOf(ps, bs, "wallet", p.wallet)
      <3>1. row \in rows /\ row.id = p.wallet
        BY <1>1, <1>3
      <3> HIDE DEF row, part
      <3> QED
        BY <1>5, <3>1
    <2> HIDE DEF part
    <2> QED
      BY <2>1, <2>2, <2>3 DEF Parts
  <1> HIDE DEF part, spent
  <1>8. SumFunction(spent) = Spent(ps)
    BY <1>4, <1>5, <1>6, <1>7, PartsAddUp
  <1> QED
    BY <1>8 DEF spent, rows

\* Each payment of the range is in the summary of its wallet.
LEMMA WalletSummariesAddUp ==
    ASSUME NEW range, ListForAnalysis(range) \in SUBSET Payments
    PROVE  LET ps == ListForAnalysis(range) IN
           SumFunction([w \in {p.wallet : p \in ps} |->
                           GetWalletSummary(w, range).metrics.totalSpend]) = Spent(ps)
  <1> DEFINE ps == ListForAnalysis(range)
             ws == {p.wallet : p \in ps}
             part == [w \in ws |-> OfWalletIn(w, range)]
             spent == [w \in ws |-> GetWalletSummary(w, range).metrics.totalSpend]
             wallet == [p \in ps |-> p.wallet]
  <1>1. \A w : OfWalletIn(w, range) = {p \in ps : p.wallet = w}
    BY DEF OfWalletIn
  <1>2. \A w : GetWalletSummary(w, range).metrics.totalSpend = Spent(OfWalletIn(w, range))
    BY DEF GetWalletSummary, WorkspaceSummary, Metrics
  <1>3. ps \in SUBSET Payments /\ IsFiniteSet(ps)
    BY FactsAssumption, FS_Subset
  <1> HIDE DEF ps
  <1>4. IsFiniteSet(ws)
    <2>1. wallet = [p \in ps |-> wallet[p]] /\ ws = {wallet[p] : p \in ps}
      OBVIOUS
    <2> HIDE DEF ws, wallet
    <2> QED
      BY <1>3, <2>1, ImageIsFinite
  <1>5. \A w \in ws : part[w] = {p \in ps : p.wallet = w} /\ spent[w] = Spent(part[w])
    BY <1>1, <1>2
  <1>6. \A p \in ps : p.wallet \in ws
    OBVIOUS
  <1> HIDE DEF ws
  <1>7. DOMAIN spent = ws
    OBVIOUS
  <1> HIDE DEF part, spent
  <1>8. Parts(ps, part, ws)
    BY <1>5, <1>6 DEF Parts
  <1>9. SumFunction(spent) = Spent(ps)
    BY <1>3, <1>4, <1>5, <1>7, <1>8, PartsAddUp
  <1> QED
    BY <1>9 DEF spent, ws, ps

\* Each payment of the range is in one bucket of the chart.
LEMMA ChartAddsUp ==
    ASSUME NEW ps \in SUBSET Payments, NEW range \in Ranges,
           \A p \in ps : p.at >= range.start /\ p.at < range.end
    PROVE  LET points == SpendActivityPoints(ps, range) IN
           /\ Total(points, "amount") = Spent(ps)
           /\ Total(points, "payments") = Cardinality(ps)
  <1> DEFINE points == SpendActivityPoints(ps, range)
             bucket(i) == {p \in ps : /\ p.at >= range.start /\ p.at <= range.end
                                      /\ BucketOf(p, range) = i}
             part == [i \in 0..11 |-> bucket(i)]
             point(i) == [amount |-> Spent(bucket(i)), payments |-> Cardinality(bucket(i))]
  <1>1. points = [i \in 0..11 |-> point(i)]
    BY DEF SpendActivityPoints
  <1>2. \A i : /\ point(i).amount = Spent(bucket(i))
               /\ point(i).payments = Cardinality(bucket(i))
    OBVIOUS
  <1> HIDE DEF point, points
  <1>3. \A p \in ps : BucketOf(p, range) \in 0..11
    <2> SUFFICES ASSUME NEW p \in ps PROVE BucketOf(p, range) \in 0..11
      OBVIOUS
    <2> DEFINE a == (p.at - range.start) * 12
               d == Max({12, range.end - range.start})
               q == a \div d
    <2>1. a \in Nat /\ d \in Nat \ {0}
      <3>1. p.at \in Int /\ range.start \in Int /\ range.end - range.start \in Int
        BY FactsAssumption, RangesAssumption
      <3>2. d \in {12, range.end - range.start} /\ d >= 12
        <4> DEFINE w == range.end - range.start
        <4>1. w \in Int
          BY <3>1
        <4> HIDE DEF w
        <4>2. IF w > 12 THEN Max({12, w}) = w ELSE Max({12, w}) = 12
          BY <4>1, MaxIs
        <4> QED
          BY <4>1, <4>2 DEF w
      <3> HIDE DEF d
      <3> QED
        BY <3>1, <3>2
    <2>2. q \in Nat
      <3> HIDE DEF a, d
      <3> QED
        BY <2>1, Quotient
    <2>3. BucketOf(p, range) = Min({11, Max({0, q})})
      BY DEF BucketOf
    <2> HIDE DEF q
    <2>4. Max({0, q}) = q
      BY <2>2, MaxIs
    <2>5. Min({11, q}) \in {11, q} /\ Min({11, q}) <= 11
      BY <2>2, MinOfTwo
    <2> QED
      BY <2>2, <2>3, <2>4, <2>5
  <1>4. \A p \in ps : p.at >= range.start /\ p.at <= range.end
    <2> SUFFICES ASSUME NEW p \in ps PROVE p.at <= range.end
      OBVIOUS
    <2>1. p.at \in Int /\ range.end \in Int
      BY FactsAssumption, RangesAssumption
    <2> QED
      BY <2>1
  <1>5. \A i \in 0..11 : part[i] = {p \in ps : BucketOf(p, range) = i} /\ part[i] = bucket(i)
    BY <1>4
  <1> HIDE DEF part, bucket
  <1>6. Parts(ps, part, 0..11)
    BY <1>3, <1>5 DEF Parts
  <1> DEFINE amount == [i \in DOMAIN points |-> points[i]["amount"]]
             number == [i \in DOMAIN points |-> points[i]["payments"]]
  <1>7. Total(points, "amount") = SumFunction(amount)
        /\ Total(points, "payments") = SumFunction(number)
    BY DEF Total
  <1>8. DOMAIN amount = 0..11 /\ DOMAIN number = 0..11
    BY <1>1
  <1>9. \A i \in 0..11 : amount[i] = Spent(part[i]) /\ number[i] = Cardinality(part[i])
    BY <1>1, <1>2, <1>5
  <1> HIDE DEF amount, number
  <1>10. IsFiniteSet(0..11)
    <2>1. \A n \in Nat : IsFiniteSet(0..n)
      BY FS_Interval
    <2> QED
      BY <2>1, Zenon
  <1>11. SumFunction(amount) = Spent(ps)
    BY <1>6, <1>8, <1>9, <1>10, PartsAddUp
  <1>12. SumFunction(number) = Cardinality(ps)
    BY <1>6, <1>8, <1>9, <1>10, PartsAddUp
  <1> QED
    BY <1>7, <1>11, <1>12 DEF points

\* The last step of a trend is the total.
LEMMA TrendsEndInTotals ==
    ASSUME NEW ps \in SUBSET Payments
    PROVE  MetricTrends(ps)[8] = [spend |-> Spent(ps), count |-> Cardinality(ps)]
  <1> DEFINE n == Cardinality(ps)
             f == InOrder(ps)
  <1>1. IsFiniteSet(ps) /\ n \in Nat
    BY FactsAssumption, FS_Subset, FS_CardinalityType
  <1>2. Lists(f, EarlierOf(ps), ps) /\ OrderedBy(EarlierOf(ps), ps)
    BY InOrderLists, EarlierOrders
  <1>3. (n * 8 + 7) \div 8 = n
    <2> HIDE DEF n
    <2> QED
      BY <1>1
  <1> HIDE DEF f, n
  <1>4. {f[j] : j \in 1..n} = ps
    <2>1. f \in [1..n -> ps]
      BY <1>2 DEF Lists, n
    <2>2. \A x \in ps : \E i \in 1..n : f[i] = x
      BY <1>1, <1>2, Listed DEF n
    <2> QED
      BY <2>1, <2>2
  <1>5. MetricTrends(ps)[8] = [spend |-> Spent({f[j] : j \in 1..((n * 8 + 7) \div 8)}),
                               count |-> (n * 8 + 7) \div 8]
    BY DEF MetricTrends, f, n
  <1> QED
    BY <1>3, <1>4, <1>5 DEF n

\* A range and the one before it share no payment.
LEMMA RangesAddUp ==
    ASSUME NEW range \in Ranges, payments \in SUBSET Payments
    PROVE  Spent(ListForAnalysis(range)) + Spent(ListForAnalysis(PreviousRange(range)))
             = Spent(ListForAnalysis([PreviousRange(range) EXCEPT !.end = range.end]))
  <1> DEFINE a == ListForAnalysis(range)
             b == ListForAnalysis(PreviousRange(range))
             c == ListForAnalysis([PreviousRange(range) EXCEPT !.end = range.end])
             d == range.start - (range.end - range.start)
  <1>1. /\ d \in Int /\ range.start \in Int /\ range.end \in Int
        /\ d <= range.start /\ range.start <= range.end
    BY RangesAssumption
  <1>2. /\ a = {p \in payments : p.at >= range.start /\ p.at < range.end}
        /\ b = {p \in payments : p.at >= d /\ p.at < range.start}
        /\ c = {p \in payments : p.at >= d /\ p.at < range.end}
    BY DEF ListForAnalysis, PreviousRange
  <1> HIDE DEF a, b, c, d
  <1>3. \A p \in payments : p.at \in Int
    BY FactsAssumption
  <1>4. a \cap b = {}
    BY <1>1, <1>2, <1>3
  <1>5. a \cup b = c
    BY <1>1, <1>2, <1>3
  <1>6. a \in SUBSET Payments /\ b \in SUBSET Payments
    BY <1>2
  <1>7. Spent(a \cup b) = Spent(a) + Spent(b)
    BY <1>4, <1>6, SpentOfTwo
  <1> QED
    BY <1>5, <1>7 DEF a, b, c

-------------------------------------------------------------------------------
(* The loops of the public demo.                                           *)

\* What a loop over the payments qs has counted, in whatever order it went.
KeysOf(qs, field) == {p[field] : p \in qs}
TallyRow(qs, field, k, total) ==
    [id |-> k, spent |-> Spent(GroupOf(qs, field, k)),
     count |-> Cardinality(GroupOf(qs, field, k)),
     share |-> Percentage(Spent(GroupOf(qs, field, k)), total)]
TallyOf(qs, field, total) ==
    [k \in KeysOf(qs, field) |-> TallyRow(qs, field, k, total)]

\* One more payment is counted once.
LEMMA TallyStep ==
    ASSUME NEW qs \in SUBSET Payments, NEW p \in Payments, p \notin qs, NEW field, NEW total
    PROVE  TallyOf(qs \cup {p}, field, total)
             = CountIn(TallyOf(qs, field, total), p, field, total)
  <1> DEFINE rs == qs \cup {p}
             old == TallyOf(qs, field, total)
             new == TallyOf(rs, field, total)
             f(k) == IF k # p[field] THEN old[k]
                     ELSE Counted(IF k \in DOMAIN old THEN old[k] ELSE NoTally(k), p, total)
  <1>1. KeysOf(rs, field) = KeysOf(qs, field) \cup {p[field]}
    BY DEF KeysOf
  <1>2. DOMAIN old = KeysOf(qs, field) /\ DOMAIN new = KeysOf(rs, field)
    BY DEF TallyOf
  <1>3. ASSUME NEW k \in KeysOf(rs, field), k # p[field]
        PROVE  TallyRow(rs, field, k, total) = f(k)
    <2>1. GroupOf(rs, field, k) = GroupOf(qs, field, k)
      BY <1>3 DEF GroupOf
    <2>2. k \in KeysOf(qs, field)
      BY <1>1, <1>3
    <2>3. old[k] = TallyRow(qs, field, k, total)
      BY <2>2 DEF TallyOf
    <2> QED
      BY <1>3, <2>1, <2>3 DEF TallyRow
  <1>4. ASSUME NEW k, k = p[field]
        PROVE  TallyRow(rs, field, k, total) = f(k)
    <2> DEFINE g == GroupOf(qs, field, k)
               row == IF k \in DOMAIN old THEN old[k] ELSE NoTally(k)
    <2>1. GroupOf(rs, field, k) = g \cup {p} /\ p \notin g /\ g \in SUBSET Payments
      BY <1>4 DEF GroupOf
    <2>2. IsFiniteSet(g) /\ Cardinality(g) \in Nat
      BY <2>1, FactsAssumption, FS_Subset, FS_CardinalityType
    <2>3. Cardinality(g \cup {p}) = Cardinality(g) + 1
      BY <2>1, <2>2, FS_AddElement
    <2>4. Spent(g \cup {p}) = Spent(g) + p.amount
      <3>1. {p} \in SUBSET Payments /\ g \cap {p} = {}
        BY <2>1
      <3>2. Spent({p}) = p.amount
        <4>0. Amount[p] = p.amount /\ p.amount \in Int
          BY FactsAssumption DEF Amount
        <4>1. IsFiniteSet({p}) /\ \A q \in {p} : Amount[q] \in Int /\ Amount[q] = q.amount
          BY <4>0, FS_Singleton
        <4>2. SumOf(Amount, {p}) = Amount[p] + SumOf(Amount, {p} \ {p})
          BY <4>1, SumRemoves
        <4>3. {p} \ {p} = {} /\ SumOf(Amount, {}) = 0
          BY SumOfNone
        <4> QED
          BY <3>1, <4>1, <4>2, <4>3, SpentIsSum
      <3> QED
        BY <2>1, <3>1, <3>2, SpentOfTwo
    <2>5. row.id = k /\ row.spent = Spent(g) /\ row.count = Cardinality(g)
      <3>1. CASE k \in DOMAIN old
        <4>1. old[k] = TallyRow(qs, field, k, total)
          BY <1>2, <3>1 DEF TallyOf
        <4> QED
          BY <3>1, <4>1 DEF TallyRow
      <3>2. CASE k \notin DOMAIN old
        <4>1. g = {}
          BY <1>2, <3>2 DEF GroupOf, KeysOf
        <4>2. Spent({}) = 0 /\ Cardinality({}) = 0
          BY SpentIsSum, SumOfNone, FS_EmptySet
        <4>3. row = NoTally(k)
          BY <3>2
        <4> QED
          BY <4>1, <4>2, <4>3 DEF NoTally
      <3> QED
        BY <3>1, <3>2
    <2>6. f(k) = Counted(row, p, total)
      BY <1>4
    <2> HIDE DEF row, g
    <2> QED
      BY <2>1, <2>3, <2>4, <2>5, <2>6 DEF Counted, TallyRow
  <1>5. new = [k \in KeysOf(rs, field) |-> f(k)]
    <2> HIDE DEF f
    <2> QED
      BY <1>3, <1>4 DEF TallyOf
  <1> QED
    BY <1>1, <1>2, <1>5 DEF CountIn

\* The loop, a fold of the community modules that takes the last payment first, has
\* counted all of them.
LEMMA TallyIs ==
    ASSUME NEW ps \in SUBSET Payments, NEW field
    PROVE  Tally(ps, field) = TallyOf(ps, field, Spent(ps))
  <1> DEFINE total == Spent(ps)
             seq == InOrder(ps)
             n == Cardinality(ps)
             D == 1..n
             P(g) == g = [s \in SUBSET D |->
                             IF s = {} THEN <<>>
                             ELSE LET i == Max(s)
                                  IN  CountIn(g[s \ {i}], seq[i], field, total)]
             begun(s) == {seq[i] : i \in s}
             f == [s \in SUBSET D |-> TallyOf(begun(s), field, total)]
  <1>1. IsFiniteSet(ps) /\ n \in Nat /\ IsFiniteSet(D)
    <2>1. IsFiniteSet(ps) /\ n \in Nat
      BY FactsAssumption, FS_Subset, FS_CardinalityType
    <2> HIDE DEF n
    <2>2. n \in Int /\ 1 \in Int
      BY <2>1
    <2>3. IsFiniteSet(1..n)
      BY <2>2, FS_Interval, Zenon
    <2> QED
      BY <2>1, <2>3
  <1>2. /\ seq \in [D -> ps] /\ DOMAIN seq = D
        /\ \A i, j \in D : seq[i] = seq[j] => i = j
        /\ begun(D) = ps
    <2>1. Lists(seq, EarlierOf(ps), ps) /\ OrderedBy(EarlierOf(ps), ps)
      BY InOrderLists, EarlierOrders
    <2> HIDE DEF seq
    <2>2. seq \in [D -> ps]
      BY <2>1 DEF Lists
    <2>3. /\ \A i, j \in D : seq[i] = seq[j] => i = j
          /\ \A x \in ps : \E i \in D : seq[i] = x
      BY <1>1, <2>1, Listed
    <2> QED
      BY <2>2, <2>3
  <1>3. Tally(ps, field) = (CHOOSE g : P(g))[D]
    <2>1. Tally(ps, field)
            = MapThenFoldSet(LAMBDA x, y : CountIn(y, x, field, total), <<>>,
                             LAMBDA i : seq[i], LAMBDA S : Max(S), DOMAIN seq)
      BY DEF Tally, FoldLeft
    <2> HIDE DEF seq, total, D
    <2> QED
      BY <1>2, <2>1 DEF MapThenFoldSet
  <1> HIDE DEF seq, total, n
  <1>4. ASSUME NEW s \in SUBSET D, s # {}
        PROVE  /\ Max(s) \in s
               /\ TallyOf(begun(s), field, total)
                    = CountIn(TallyOf(begun(s \ {Max(s)}), field, total),
                              seq[Max(s)], field, total)
    <2> DEFINE i == Max(s)
               t == s \ {i}
    <2>1. i \in s
      <3>1. s \in SUBSET Int /\ IsFiniteSet(s)
        <4>1. D \in SUBSET Int
          BY <1>1
        <4> HIDE DEF D
        <4> QED
          BY <1>1, <4>1, FS_Subset
      <3>2. \E m \in s : \A k \in s : k <= m
        BY <1>4, <3>1, GreatestExists
      <3> QED
        BY <3>1, <3>2, MaxIs
    <2> HIDE DEF i
    <2>2. begun(s) = begun(t) \cup {seq[i]}
      BY <2>1
    <2>3. begun(t) \in SUBSET Payments /\ seq[i] \in Payments /\ seq[i] \notin begun(t)
      BY <1>2, <2>1
    <2> HIDE DEF begun, t
    <2>4. TallyOf(begun(s), field, total)
            = CountIn(TallyOf(begun(t), field, total), seq[i], field, total)
      BY <2>2, <2>3, TallyStep
    <2> QED
      BY <2>1, <2>4 DEF i, t
  <1>5. TallyOf(begun({}), field, total) = <<>>
    BY DEF TallyOf, KeysOf
  <1> HIDE DEF begun, D
  <1>6. P(f)
    <2>1. ASSUME NEW s \in SUBSET D
          PROVE  f[s] = IF s = {} THEN <<>>
                        ELSE CountIn(f[s \ {Max(s)}], seq[Max(s)], field, total)
      <3>1. s \ {Max(s)} \in SUBSET D
        OBVIOUS
      <3>2. f[s] = TallyOf(begun(s), field, total)
            /\ f[s \ {Max(s)}] = TallyOf(begun(s \ {Max(s)}), field, total)
        BY <3>1
      <3> HIDE DEF f
      <3> QED
        BY <1>4, <1>5, <3>2
    <2> DEFINE g == [s \in SUBSET D |->
                        IF s = {} THEN <<>>
                        ELSE CountIn(f[s \ {Max(s)}], seq[Max(s)], field, total)]
    <2>2. f = [s \in SUBSET D |-> f[s]] /\ \A s \in SUBSET D : f[s] = g[s]
      <3>1. \A s \in SUBSET D : g[s] = IF s = {} THEN <<>>
                 ELSE CountIn(f[s \ {Max(s)}], seq[Max(s)], field, total)
        <4> HIDE DEF f
        <4> QED
          OBVIOUS
      <3>2. f = [s \in SUBSET D |-> f[s]]
        OBVIOUS
      <3> HIDE DEF g, f
      <3> QED
        BY <2>1, <3>1, <3>2
    <2>3. g = [s \in SUBSET D |-> g[s]]
      <3> HIDE DEF f
      <3> QED
        OBVIOUS
    <2>4. f = g
      <3> HIDE DEF f, g
      <3> QED
        BY <2>2, <2>3
    <2> HIDE DEF f
    <2> QED
      BY <2>4
  <1> DEFINE h == CHOOSE g : P(g)
  <1>7. P(h)
    <2> HIDE DEF f, P
    <2> QED
      BY <1>6
  <1>8. \A s \in SUBSET D : h[s] = f[s]
    <2> DEFINE C == {s \in SUBSET D : h[s] # f[s]}
    <2> SUFFICES ASSUME C # {} PROVE FALSE
      OBVIOUS
    <2>1. \A g : P(g) => \A s \in SUBSET D :
             g[s] = IF s = {} THEN <<>>
                    ELSE CountIn(g[s \ {Max(s)}], seq[Max(s)], field, total)
      OBVIOUS
    <2> HIDE DEF h, f, P
    <2>2. \A s \in C : IsFiniteSet(s)
      BY <1>1, FS_Subset
    <2>3. PICK s \in C : \A r \in SUBSET s : r # s => r \notin C
      <3> HIDE DEF C
      <3> QED
        BY <2>2, SmallestSet
    <2>4. s \in SUBSET D /\ h[s] # f[s]
      BY <2>3
    <2>5. s # {}
      BY <1>6, <1>7, <2>1, <2>4
    <2> DEFINE t == s \ {Max(s)}
    <2>6. t \in SUBSET s /\ t # s
      BY <1>4, <2>4, <2>5
    <2>7. h[t] = f[t]
      BY <2>3, <2>4, <2>6
    <2>8. /\ h[s] = CountIn(h[t], seq[Max(s)], field, total)
          /\ f[s] = CountIn(f[t], seq[Max(s)], field, total)
      BY <1>6, <1>7, <2>1, <2>4, <2>5
    <2> QED
      BY <2>4, <2>7, <2>8
  <1>9. f[D] = TallyOf(ps, field, total)
    BY <1>2
  <1> HIDE DEF h, f
  <1>10. Tally(ps, field) = h[D] /\ h[D] = f[D]
    BY <1>3, <1>8 DEF h
  <1> QED
    BY <1>9, <1>10 DEF total

\* Ranks are the same on either side of a bijection.
LEMMA SameRanks ==
    ASSUME NEW K, NEW G, IsFiniteSet(K), NEW g \in Bijection(K, G), NEW R, NEW x \in K
    PROVE  Cardinality({y \in K : <<g[y], g[x]>> \in R}) = Rank(R, G, g[x])
  <1> DEFINE A == {y \in K : <<g[y], g[x]>> \in R}
             B == Below(R, G, g[x])
             h == [y \in A |-> g[y]]
  <1>1. /\ g \in [K -> G]
        /\ \A y, z \in K : g[y] = g[z] => y = z
        /\ \A b \in G : \E y \in K : g[y] = b
    BY DEF Bijection, Injection, Surjection, IsInjective
  <1>2. h \in [A -> B] /\ \A y \in A : h[y] = g[y]
    BY <1>1 DEF Below
  <1>3. \A b \in B : \E y \in A : g[y] = b
    BY <1>1 DEF Below
  <1>4. A \in SUBSET K
    OBVIOUS
  <1> HIDE DEF A, B, h
  <1>5. h \in Bijection(A, B)
    BY <1>1, <1>2, <1>3, <1>4 DEF Bijection, Injection, Surjection, IsInjective
  <1>6. IsFiniteSet(A) /\ ExistsBijection(A, B)
    BY <1>4, <1>5, FS_Subset DEF ExistsBijection
  <1>7. Cardinality(B) = Cardinality(A)
    BY <1>6, FS_Bijection
  <1> QED
    BY <1>7 DEF A, B, Rank

\* Keys and groups correspond to each other.
GroupFcn(ps, field) == [k \in KeysOf(ps, field) |-> GroupOf(ps, field, k)]
\* Each key has its group, and is read off any payment of it.
LEMMA KeysAre ==
    ASSUME NEW ps \in SUBSET Payments, NEW field
    PROVE  /\ IsFiniteSet(KeysOf(ps, field))
           /\ GroupFcn(ps, field) \in Bijection(KeysOf(ps, field), Groups(ps, field))
           /\ \A k \in KeysOf(ps, field) : KeyOf(GroupOf(ps, field, k), field) = k
  <1> DEFINE K == KeysOf(ps, field)
             G == Groups(ps, field)
             g == GroupFcn(ps, field)
             key == [p \in ps |-> p[field]]
  <1>1. \A k \in K : GroupOf(ps, field, k) \in G /\ GroupOf(ps, field, k) # {}
    BY DEF KeysOf, Groups, GroupOf
  <1>2. \A h \in G : \E k \in K : h = GroupOf(ps, field, k)
    BY DEF KeysOf, Groups, GroupOf
  <1>3. \A k : \A p \in GroupOf(ps, field, k) : p[field] = k
    BY DEF GroupOf
  <1>4. g \in [K -> G] /\ \A k \in K : g[k] = GroupOf(ps, field, k)
    BY <1>1 DEF GroupFcn
  <1>5. IsFiniteSet(K)
    <2>1. key = [p \in ps |-> key[p]] /\ K = {key[p] : p \in ps} /\ IsFiniteSet(ps)
      BY FactsAssumption, FS_Subset DEF KeysOf
    <2> HIDE DEF K, key
    <2> QED
      BY <2>1, ImageIsFinite
  <1> HIDE DEF K, G, g
  <1>6. \A k \in K : KeyOf(GroupOf(ps, field, k), field) = k
    BY <1>1, <1>3 DEF KeyOf
  <1>7. \A j, k \in K : g[j] = g[k] => j = k
    BY <1>4, <1>6
  <1>8. g \in Bijection(K, G)
    BY <1>2, <1>4, <1>7 DEF Bijection, Injection, Surjection, IsInjective
  <1> QED
    BY <1>5, <1>6, <1>8 DEF K, G, g

\* The demo, which counts payment by payment and sorts what it counted, shows the
\* table of the groups.
LEMMA DemoTableIs ==
    ASSUME NEW ps \in SUBSET Payments, NEW field
    PROVE  SummarizeBy(ps, field) = GroupRows(ps, field)
  <1> DEFINE K == KeysOf(ps, field)
             G == Groups(ps, field)
             g == GroupFcn(ps, field)
             R == DearerOf(G)
             n == Cardinality(G)
             groups == Sorted(G, DearerGroup)
             rows == Tally(ps, field)
             found(k) == First({p \in ps : p[field] = k})
             dearer(j, k) ==
                 \/ rows[j].spent > rows[k].spent
                 \/ rows[j].spent = rows[k].spent /\ Earlier(found(j), found(k))
             order == Sorted(DOMAIN rows, dearer)
             row(k) == TallyRow(ps, field, k, Spent(ps))
  <1>1. /\ IsFiniteSet(K) /\ g \in Bijection(K, G)
        /\ \A k \in K : KeyOf(GroupOf(ps, field, k), field) = k
        /\ \A k \in K : g[k] = GroupOf(ps, field, k)
    <2>1. \A k \in K : g[k] = GroupOf(ps, field, k)
      BY DEF GroupFcn
    <2> QED
      BY <2>1, KeysAre
  <1>2. /\ g \in [K -> G]
        /\ \A b \in G : \E k \in K : g[k] = b
    BY <1>1 DEF Bijection, Injection, Surjection
  <1>3. IsFiniteSet(G) /\ Cardinality(K) = n
    <2>1. ExistsBijection(K, G)
      BY <1>1 DEF ExistsBijection
    <2> QED
      BY <1>1, <2>1, FS_Bijection
  <1>4. DOMAIN rows = K /\ \A k \in K : rows[k] = row(k)
    <2>1. rows = TallyOf(ps, field, Spent(ps))
      BY TallyIs
    <2> QED
      BY <2>1 DEF TallyOf
  <1>5. \A k \in K : /\ rows[k].spent = Spent(g[k])
                     /\ found(k) = First(g[k])
    <2> TAKE k \in K
    <2>1. rows[k] = row(k) /\ g[k] = GroupOf(ps, field, k)
      BY <1>1, <1>4
    <2>2. row(k).spent = Spent(GroupOf(ps, field, k))
      BY DEF TallyRow
    <2>3. found(k) = First(GroupOf(ps, field, k))
      BY DEF GroupOf
    <2> HIDE DEF rows, g, row, found
    <2> QED
      BY <2>1, <2>2, <2>3
  <1>6. OrderedBy(R, G) /\ \A a, b \in G : <<a, b>> \in R <=> DearerGroup(a, b)
    BY GroupOrders
  <1>7. SummarizeBy(ps, field) = [i \in DOMAIN order |-> rows[order[i]]]
    BY DEF SummarizeBy
  <1>8. order = [i \in 1..n |->
                    CHOOSE k \in K : Cardinality({j \in K : dearer(j, k)}) = i - 1]
    BY <1>3, <1>4 DEF Sorted
  <1>9. \A j, k \in K : dearer(j, k) <=> <<g[j], g[k]>> \in R
    <2> SUFFICES ASSUME NEW j \in K, NEW k \in K
                 PROVE  dearer(j, k) <=> DearerGroup(g[j], g[k])
      BY <1>2, <1>6
    <2>1. /\ rows[j].spent = Spent(g[j]) /\ rows[k].spent = Spent(g[k])
          /\ found(j) = First(g[j]) /\ found(k) = First(g[k])
      BY <1>5
    <2> HIDE DEF found, rows, g, K
    <2> QED
      BY <2>1 DEF DearerGroup
  <1> HIDE DEF found
  <1>10. \A k \in K : Cardinality({j \in K : dearer(j, k)}) = Rank(R, G, g[k])
    <2> TAKE k \in K
    <2>1. {j \in K : dearer(j, k)} = {j \in K : <<g[j], g[k]>> \in R}
      BY <1>9
    <2>2. Cardinality({j \in K : <<g[j], g[k]>> \in R}) = Rank(R, G, g[k])
      <3> HIDE DEF K, G, g, R
      <3> QED
        BY <1>1, SameRanks
    <2> QED
      BY <2>1, <2>2
  <1> HIDE DEF dearer
  <1>11. /\ groups \in [1..n -> G]
         /\ \A i \in 1..n : Rank(R, G, groups[i]) = i - 1
    BY RowsAre
  <1>12. GroupRows(ps, field)
            = [i \in 1..n |->
                 [id |-> KeyOf(groups[i], field), spent |-> Spent(groups[i]),
                  count |-> Cardinality(groups[i]),
                  share |-> Percentage(Spent(groups[i]), Spent(ps))]]
    <2>1. DOMAIN groups = 1..n
      BY <1>11
    <2> QED
      BY <2>1 DEF GroupRows
  <1> HIDE DEF K, G, g, R, n, groups, rows, order
  <1>13. ASSUME NEW i \in 1..n
         PROVE  order[i] \in K /\ g[order[i]] = groups[i]
    <2>1. PICK k \in K : g[k] = groups[i]
      BY <1>2, <1>11
    <2>2. Cardinality({j \in K : dearer(j, k)}) = i - 1
      BY <1>10, <1>11, <2>1
    <2>3. order[i] = CHOOSE x \in K : Cardinality({j \in K : dearer(j, x)}) = i - 1
      BY <1>8
    <2>4. order[i] \in K /\ Cardinality({j \in K : dearer(j, order[i])}) = i - 1
      BY <2>2, <2>3
    <2>5. Rank(R, G, g[order[i]]) = Rank(R, G, groups[i])
      BY <1>10, <1>11, <2>4
    <2>6. g[order[i]] \in G /\ groups[i] \in G
      BY <1>2, <1>11, <2>4
    <2>7. g[order[i]] = groups[i]
      <3> DEFINE a == g[order[i]]
                 b == groups[i]
      <3>1. a \in G /\ b \in G /\ Rank(R, G, a) = Rank(R, G, b)
        BY <2>5, <2>6
      <3>2. IsFiniteSet(G) /\ OrderedBy(R, G)
        BY <1>3, <1>6
      <3> HIDE DEF a, b
      <3>3. a = b
        BY <3>1, <3>2, RankOrders
      <3> QED
        BY <3>3 DEF a, b
    <2> QED
      BY <2>4, <2>7
  <1>14. ASSUME NEW i \in 1..n
         PROVE  rows[order[i]]
                  = [id |-> KeyOf(groups[i], field), spent |-> Spent(groups[i]),
                     count |-> Cardinality(groups[i]),
                     share |-> Percentage(Spent(groups[i]), Spent(ps))]
    <2>1. rows[order[i]] = row(order[i])
      BY <1>4, <1>13
    <2>2. GroupOf(ps, field, order[i]) = groups[i] /\ KeyOf(groups[i], field) = order[i]
      BY <1>1, <1>13
    <2> QED
      BY <2>1, <2>2 DEF TallyRow
  <1>15. DOMAIN order = 1..n
    BY <1>8
  <1>16. SummarizeBy(ps, field) = [i \in 1..n |-> rows[order[i]]]
    BY <1>7, <1>15
  <1> QED
    BY <1>12, <1>14, <1>16

\* What an answer holds, under its names.
LEMMA SummaryHolds ==
    ASSUME NEW ps, NEW before, NEW bs, NEW ws, NEW ts, NEW range
    PROVE  LET summary == WorkspaceSummary(ps, before, bs, ws, ts, range) IN
           /\ summary.metrics.totalSpend = Spent(ps)
           /\ summary.metrics.previousPeriodSpend = Spent(before)
           /\ summary.wallets = {RowOf(ps, bs, "wallet", w) : w \in ws}
           /\ summary.providers = GroupRows(ps, "provider")
           /\ summary.categories = GroupRows(ps, "category")
  <1>1. /\ Metrics(ps, before, bs).totalSpend = Spent(ps)
        /\ Metrics(ps, before, bs).previousPeriodSpend = Spent(before)
    BY DEF Metrics
  <1> QED
    BY <1>1 DEF WorkspaceSummary

\* The parts of the demo's summary.
LEMMA DemoHolds ==
    ASSUME NEW ps, NEW budget, NEW taskBudget, NEW range
    PROVE  LET demo == BuildAgentSpendSummary(ps, budget, taskBudget, range) IN
           /\ demo.providers = SummarizeBy(ps, "provider")
           /\ demo.categories = SummarizeBy(ps, "category")
           /\ demo.tasks = GetTaskSummaries(ps, taskBudget)
  BY DEF BuildAgentSpendSummary

\* The tasks of the demo, too, come to the total.
LEMMA DemoTasksAddUp ==
    ASSUME NEW ps \in SUBSET Payments, NEW taskBudget
    PROVE  Total(GetTaskSummaries(ps, taskBudget), "spent") = Spent(ps)
  <1> DEFINE rows == SummarizeBy(ps, "task")
             tasks == GetTaskSummaries(ps, taskBudget)
  <1>1. DOMAIN tasks = DOMAIN rows /\ \A i \in DOMAIN rows : tasks[i]["spent"] = rows[i]["spent"]
    BY DEF GetTaskSummaries
  <1> HIDE DEF rows, tasks
  <1>2. Total(tasks, "spent") = Total(rows, "spent")
    <2>1. [i \in DOMAIN tasks |-> tasks[i]["spent"]] = [i \in DOMAIN rows |-> rows[i]["spent"]]
      BY <1>1
    <2> QED
      BY <2>1 DEF Total
  <1> QED
    BY <1>2, DemoTableIs, TableAddsUp DEF rows, tasks

\* Summaries and the dashboard of a workspace hold every payment once, whatever the
\* payments, budgets and ranges are: a table of the groups, the rows of the wallets,
\* their own summaries, the buckets of the chart, the end of a trend and the tables
\* that the demo counts all come to the total, and shares come to nearly the whole.
THEOREM SummariesAddUp == FactsSpec => []SummaryAddsUp
  <1>1. ASSUME FactsInv
        PROVE  SummaryAddsUp
    <2>1. payments \in SUBSET Payments
      BY <1>1 DEF FactsInv, Snapshot, Now
    <2> SUFFICES ASSUME NEW range \in Ranges
                 PROVE  LET ps == ListForAnalysis(range)
                            summary == GetWorkspaceSummary(range)
                            both == ListForAnalysis([PreviousRange(range)
                                                       EXCEPT !.end = range.end])
                            total == summary.metrics.totalSpend
                            points == SpendActivityPoints(ps, range)
                            demo == BuildAgentSpendSummary(ps, total, 4, range)
                        IN
                        /\ \A rows \in {summary.providers, summary.categories} :
                              /\ Total(rows, "spent") = total
                              /\ Total(rows, "count") = Cardinality(ps)
                              /\ ps # {} => Total(rows, "share") \in (1001 - Len(rows))..1000
                        /\ SumFunction([row \in summary.wallets |-> row.spent]) = total
                        /\ SumFunction([w \in {p.wallet : p \in ps} |->
                              GetWalletSummary(w, range).metrics.totalSpend]) = total
                        /\ Total(points, "amount") = total
                        /\ Total(points, "payments") = Cardinality(ps)
                        /\ MetricTrends(ps)[8] = [spend |-> total, count |-> Cardinality(ps)]
                        /\ demo.providers = summary.providers
                        /\ demo.categories = summary.categories
                        /\ Total(demo.tasks, "spent") = total
                        /\ total + summary.metrics.previousPeriodSpend = Spent(both)
      BY DEF SummaryAddsUp
    <2> DEFINE ps == ListForAnalysis(range)
               before == ListForAnalysis(PreviousRange(range))
               both == ListForAnalysis([PreviousRange(range) EXCEPT !.end = range.end])
               summary == GetWorkspaceSummary(range)
               total == summary.metrics.totalSpend
               points == SpendActivityPoints(ps, range)
               demo == BuildAgentSpendSummary(ps, total, 4, range)
    <2>2. ps \in SUBSET Payments /\ \A p \in ps : p.at >= range.start /\ p.at < range.end
      BY <2>1 DEF ListForAnalysis
    <2>3. /\ total = Spent(ps) /\ summary.metrics.previousPeriodSpend = Spent(before)
          /\ summary.wallets = {RowOf(ps, Rows, "wallet", w) : w \in {p.wallet : p \in Payments}}
          /\ summary.providers = GroupRows(ps, "provider")
          /\ summary.categories = GroupRows(ps, "category")
      BY SummaryHolds DEF GetWorkspaceSummary
    <2>4. /\ demo.providers = SummarizeBy(ps, "provider")
          /\ demo.categories = SummarizeBy(ps, "category")
          /\ demo.tasks = GetTaskSummaries(ps, 4)
      BY DemoHolds
    <2> HIDE DEF summary, demo, points
    <2>5. \A rows \in {summary.providers, summary.categories} :
             /\ Total(rows, "spent") = total
             /\ Total(rows, "count") = Cardinality(ps)
             /\ ps # {} => Total(rows, "share") \in (1001 - Len(rows))..1000
      <3>1. \A field : LET rows == GroupRows(ps, field) IN
               /\ Total(rows, "spent") = total
               /\ Total(rows, "count") = Cardinality(ps)
               /\ ps # {} => Total(rows, "share") \in (1001 - Len(rows))..1000
        BY <2>2, <2>3, TableAddsUp
      <3> HIDE DEF ps, total
      <3> QED
        BY <2>3, <3>1
    <2>6. SumFunction([row \in summary.wallets |-> row.spent]) = total
      BY <2>2, <2>3, WalletsAddUp
    <2>7. SumFunction([w \in {p.wallet : p \in ps} |->
                          GetWalletSummary(w, range).metrics.totalSpend]) = total
      BY <2>2, <2>3, WalletSummariesAddUp
    <2>8. Total(points, "amount") = total /\ Total(points, "payments") = Cardinality(ps)
      <3> HIDE DEF ps
      <3> QED
        BY <2>2, <2>3, ChartAddsUp DEF points
    <2>9. MetricTrends(ps)[8] = [spend |-> total, count |-> Cardinality(ps)]
      BY <2>2, <2>3, TrendsEndInTotals
    <2>10. demo.providers = summary.providers /\ demo.categories = summary.categories
      BY <2>2, <2>3, <2>4, DemoTableIs
    <2>11. Total(demo.tasks, "spent") = total
      BY <2>2, <2>3, <2>4, DemoTasksAddUp
    <2>12. total + summary.metrics.previousPeriodSpend = Spent(both)
      BY <2>1, <2>3, RangesAddUp
    <2> QED
      BY <2>5, <2>6, <2>7, <2>8, <2>9, <2>10, <2>11, <2>12 DEF summary, demo, points
  <1> QED
    BY <1>1, FactsInvariance, PTL
===============================================================================
