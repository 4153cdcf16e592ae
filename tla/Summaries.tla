------------------------------ MODULE Summaries ------------------------------
(***************************************************************************)
(* What getWorkspaceSummary, getWalletSummary and getWorkspaceDashboard of *)
(* src/lib/application/workspace-service.ts answer about the facts of      *)
(* RiskFacts: the tables of persistent-summary.ts, the chart and the       *)
(* labels of persistent-dashboard.ts and chart-series.ts, and the tables   *)
(* that agent-summary.ts, classify-spend.ts and budget.ts compute for the  *)
(* public demo, all of src/lib/analytics.                                  *)
(*                                                                         *)
(* A percentage is a whole number of tenths, as the code cuts it before it *)
(* divides by 10, and the floating-point sums of the chart are exact.      *)
(* Names, addresses and the text of the report are left out, and so are    *)
(* the limits of 10,000 payments and 366 days, which refuse.               *)
(***************************************************************************)
EXTENDS RiskFacts

CONSTANT Ranges     \* ranges, [start, end], a summary may be asked for

ASSUME RangesAssumption ==
    \A range \in Ranges : range.start \in Int /\ range.end \in Int /\ range.start < range.end

-------------------------------------------------------------------------------
(* Payments and numbers.                                                   *)

ListForAnalysis(range) == {p \in payments : p.at >= range.start /\ p.at < range.end}

PreviousRange(range) ==
    [start |-> range.start - (range.end - range.start), end |-> range.start]

Percentage(part, whole) == IF whole > 0 THEN (part * 1000) \div whole ELSE 0

\* Division of a bigint cuts towards zero.
Cut(n, d) == IF n >= 0 THEN n \div d ELSE -((-n) \div d)
ChangePercent(now, before) ==
    CASE before > 0 -> Cut((now - before) * 1000, before)
      [] before = 0 -> IF now = 0 THEN 0 ELSE None

MedianUnits(ps) ==
    LET ordered == Sorted(ps, Cheaper)
        middle == Len(ordered) \div 2
    IN  CASE ps = {} -> 0
          [] ps # {} /\ Len(ordered) % 2 = 1 -> ordered[middle + 1].amount
          [] ps # {} /\ Len(ordered) % 2 = 0 ->
                (ordered[middle].amount + ordered[middle + 1].amount) \div 2

-------------------------------------------------------------------------------
(* buildPersistentWorkspaceSummary, for the payments ps of the range and   *)
(* the budgets bs.                                                         *)

Active(bs) == {b \in bs : b.status = "active"}
Assigned(bs) == MapThenSumSet(LAMBDA b : b.amount, Active(bs))

\* The row of a wallet, without the share, or of a task: what names k.
RowOf(ps, bs, field, k) ==
    LET mine == {p \in ps : p[field] = k}
        assigned == Assigned({b \in bs : b[field] = k})
    IN  [id |-> k, spent |-> Spent(mine), count |-> Cardinality(mine),
         share |-> Percentage(Spent(mine), Spent(ps)),
         budgetUsed |-> Percentage(Spent(mine), assigned)]

\* A budget's spending goes on until its end as it did until now, which is the
\* end of the range.
SummaryElapsed(b, range) == Max({0, Min({range.end, b.end}) - b.start})
SummaryProjected(ps, b, range) ==
    LET elapsed == SummaryElapsed(b, range) IN
    IF elapsed > 0 THEN (Spent(Matching(ps, b)) * (b.end - b.start)) \div elapsed ELSE 0

\* A slip, kept for mutation checking.
OverLimitPast(spent, b) == spent > b.amount

OverLimit(spent, b) == spent >= b.amount

ForecastStatus(ps, b, range) ==
    LET spent == Spent(Matching(ps, b)) IN
    CASE b.status # "active" -> "inactive"
      [] b.status = "active" /\ OverLimit(spent, b) -> "over_limit"
      [] OTHER ->
           IF SummaryProjected(ps, b, range) >= b.amount THEN "at_risk"
           ELSE IF Percentage(spent, b.amount) * 10 >= b.threshold THEN "warning"
           ELSE "on_track"

BudgetRow(ps, b, range) ==
    [id |-> b.id, spent |-> Spent(Matching(ps, b)),
     remaining |-> Max({0, b.amount - Spent(Matching(ps, b))}),
     projected |-> SummaryProjected(ps, b, range),
     forecastStatus |-> ForecastStatus(ps, b, range)]

\* A slip, kept for mutation checking: the rules leave them out.
GroupsNamed(ps, field) == GroupBy(ps, field)

\* Payments without a provider or a category are a group of their own.
Groups(ps, field) == {{p \in ps : p[field] = k} : k \in {p[field] : p \in ps}}

\* The groups by what they cost, the dearest first; those that cost the same in
\* the order in which they were found.
DearerGroup(g, h) ==
    Spent(g) > Spent(h) \/ (Spent(g) = Spent(h) /\ Earlier(First(g), First(h)))
GroupRows(ps, field) ==
    LET groups == Sorted(Groups(ps, field), DearerGroup) IN
    [i \in DOMAIN groups |->
        [id |-> KeyOf(groups[i], field), spent |-> Spent(groups[i]),
         count |-> Cardinality(groups[i]),
         share |-> Percentage(Spent(groups[i]), Spent(ps))]]

Metrics(ps, before, bs) ==
    [totalSpend |-> Spent(ps), paymentCount |-> Cardinality(ps),
     averagePayment |-> IF ps = {} THEN 0 ELSE Spent(ps) \div Cardinality(ps),
     medianPayment |-> MedianUnits(ps),
     previousPeriodSpend |-> Spent(before),
     spendChangePercent |-> ChangePercent(Spent(ps), Spent(before)),
     budgetUsed |-> Percentage(Spent(ps), Assigned(bs))]

WorkspaceSummary(ps, before, bs, ws, ts, range) ==
    [metrics |-> Metrics(ps, before, bs),
     wallets |-> {RowOf(ps, bs, "wallet", w) : w \in ws},
     tasks |-> {RowOf(ps, bs, "task", t) : t \in ts},
     budgets |-> {BudgetRow(ps, b, range) : b \in bs},
     providers |-> GroupRows(ps, "provider"),
     categories |-> GroupRows(ps, "category")]

TasksOf(ps) == {p.task : p \in ps} \ {None}

\* getWorkspaceSummary.
GetWorkspaceSummary(range) ==
    WorkspaceSummary(ListForAnalysis(range), ListForAnalysis(PreviousRange(range)),
                     Rows, {p.wallet : p \in Payments}, TasksOf(Payments), range)

\* getWalletSummary: the payments of w and their tasks, with the budgets that are
\* not another wallet's.
OfWalletIn(w, range) == {p \in ListForAnalysis(range) : p.wallet = w}
BudgetsOfWallet(w) == {b \in Rows : b.wallet \in {None, w}}
GetWalletSummary(w, range) ==
    LET ps == OfWalletIn(w, range) IN
    WorkspaceSummary(ps, OfWalletIn(w, PreviousRange(range)), BudgetsOfWallet(w),
                     {w}, TasksOf(ps), range)

-------------------------------------------------------------------------------
(* buildPersistentDashboard.                                               *)

\* buildSpendActivityPoints: twelve buckets, none shorter than a millisecond.
BucketOf(p, range) ==
    LET span == Max({12, range.end - range.start})
    IN  Min({11, Max({0, ((p.at - range.start) * 12) \div span})})
SpendActivityPoints(ps, range) ==
    [i \in 0..11 |->
        LET in == {p \in ps : /\ p.at >= range.start /\ p.at <= range.end
                              /\ BucketOf(p, range) = i}
        IN  [amount |-> Spent(in), payments |-> Cardinality(in)]]

\* buildMetricTrends.
MetricTrends(ps) ==
    [i \in 1..8 |->
        LET count == (Cardinality(ps) * i + 7) \div 8
            begun == {InOrder(ps)[j] : j \in 1..count}
        IN  [spend |-> Spent(begun), count |-> count]]

TaskStatus(row) ==
    CASE row.budgetUsed >= 1000 -> "Over budget"
      [] row.budgetUsed \in 800..999 -> "Near limit"
      [] row.budgetUsed < 800 -> "Within budget"

RiskLevel(rules) ==
    IF \E r \in rules : r.severity = "high" THEN "High"
    ELSE IF \E r \in rules : r.severity = "medium" THEN "Medium" ELSE "Low"

\* getRecentPayments.
Later(p, q) == p.at > q.at \/ (p.at = q.at /\ p.id < q.id)
RecentPayments(ps) == SubSeq(Sorted(ps, Later), 1, Min({6, Cardinality(ps)}))

\* The first of a table, or Unknown.
TopCategory(rows) == IF DOMAIN rows = {} THEN None ELSE rows[1].id

BuildPersistentDashboard(summary, ps, range, rules) ==
    [metrics |-> summary.metrics,
     topCategory |-> TopCategory(summary.categories),
     riskLevel |-> RiskLevel(rules),
     activity |-> SpendActivityPoints(ps, range),
     payments |-> RecentPayments(ps),
     providers |-> summary.providers,
     categories |-> summary.categories,
     tasks |-> {<<row.id, TaskStatus(row)>> : row \in summary.tasks}]

GetWorkspaceDashboard(range, rules) ==
    BuildPersistentDashboard(GetWorkspaceSummary(range), ListForAnalysis(range),
                             range, rules)

-------------------------------------------------------------------------------
(* buildAgentSpendSummary of the public demo, for the payments ps and the  *)
(* budgets of the fixtures.                                                *)

\* The Map of a loop over the payments, whose total is known before it.
NoTally(k) == [id |-> k, spent |-> 0, count |-> 0, share |-> 0]
Counted(row, p, total) ==
    [id |-> row.id, spent |-> row.spent + p.amount, count |-> row.count + 1,
     share |-> Percentage(row.spent + p.amount, total)]
CountIn(rows, p, field, total) ==
    [k \in DOMAIN rows \cup {p[field]} |->
        IF k # p[field] THEN rows[k]
        ELSE Counted(IF k \in DOMAIN rows THEN rows[k] ELSE NoTally(k), p, total)]
Tally(ps, field) ==
    LET count(rows, p) == CountIn(rows, p, field, Spent(ps))
    IN  FoldLeft(count, <<>>, InOrder(ps))

\* summarizeProviders and summarizeCategories: the rows of the Map, which are in
\* the order of its insertions, by what they cost.
SummarizeBy(ps, field) ==
    LET rows == Tally(ps, field)
        found(k) == First({p \in ps : p[field] = k})
        dearer(j, k) == \/ rows[j].spent > rows[k].spent
                        \/ rows[j].spent = rows[k].spent /\ Earlier(found(j), found(k))
        order == Sorted(DOMAIN rows, dearer)
    IN  [i \in DOMAIN order |-> rows[order[i]]]

GetTaskSummaries(ps, taskBudget) ==
    LET rows == SummarizeBy(ps, "task") IN
    [i \in DOMAIN rows |->
        [id |-> rows[i].id, spent |-> rows[i].spent, count |-> rows[i].count,
         share |-> rows[i].share,
         status |-> TaskStatus([budgetUsed |-> Percentage(rows[i].spent, taskBudget)])]]

BuildAgentSpendSummary(ps, budget, taskBudget, range) ==
    [totalSpend |-> Spent(ps), paymentCount |-> Cardinality(ps),
     averagePayment |-> IF ps = {} THEN 0 ELSE Spent(ps) \div Cardinality(ps),
     budgetUsed |-> Percentage(Spent(ps), budget),
     topCategory |-> TopCategory(SummarizeBy(ps, "category")),
     providers |-> SummarizeBy(ps, "provider"),
     categories |-> SummarizeBy(ps, "category"),
     tasks |-> GetTaskSummaries(ps, taskBudget),
     activity |-> SpendActivityPoints(ps, range),
     payments |-> RecentPayments(ps)]

-------------------------------------------------------------------------------
(* Properties.                                                             *)

Total(rows, field) == SumFunction([i \in DOMAIN rows |-> rows[i][field]])

\* Every table and the chart hold every payment of the range once, and no
\* payment is in a range and in the one before it: totals are the totals of the
\* rows, and shares lack less than a tenth of a percent for each row.  The demo,
\* which counts payment by payment, shows the same tables.
SummaryAddsUp ==
    BeforeStore => \A range \in Ranges :
        LET ps == ListForAnalysis(range)
            summary == GetWorkspaceSummary(range)
            both == ListForAnalysis([PreviousRange(range) EXCEPT !.end = range.end])
            total == summary.metrics.totalSpend
            points == SpendActivityPoints(ps, range)
            demo == BuildAgentSpendSummary(ps, total, 4, range)
        IN
        /\ \A rows \in {summary.providers, summary.categories} :
              /\ Total(rows, "spent") = total
              /\ Total(rows, "count") = Cardinality(ps)
              /\ ps # {} => Total(rows, "share") \in (1001 - Len(rows))..1000
        /\ SumFunction([row \in summary.wallets |-> row.spent]) = total
        /\ SumFunction([w \in {p.wallet : p \in ps} |->
                           GetWalletSummary(w, range).metrics.totalSpend]) = total
        /\ Total(points, "amount") = total
        /\ Total(points, "payments") = Cardinality(ps)
        /\ MetricTrends(ps)[8] = [spend |-> total, count |-> Cardinality(ps)]
        /\ demo.providers = summary.providers /\ demo.categories = summary.categories
        /\ Total(demo.tasks, "spent") = total
        /\ total + summary.metrics.previousPeriodSpend = Spent(both)

\* The table of budgets and the signals agree: a budget is over its limit exactly
\* when it has a high signal, and one that is not on track has a signal, unless
\* all that is known of it is one payment or the instant of its start.
BudgetsAgree(ps, bs, rows) ==
    \A b \in Active(bs) :
        LET status == (CHOOSE row \in rows : row.id = b.id).forecastStatus
            signals == {r \in BudgetRules(ps, bs) \cup ForecastRules(ps, bs) :
                            r.id[2].budget = b.id}
        IN  /\ status = "over_limit" <=> \E r \in signals : r.severity = "high"
            /\ \/ status = "on_track"
               \/ signals # {}
               \/ /\ status = "at_risk"
                  /\ Cardinality(Matching(ps, b)) = 1 \/ Elapsed(ps, b) = 0

\* The summary of a workspace or of a wallet agrees with the rules over the same
\* payments, which look at them on their own.  A leading category that concentrates
\* spending is the top category of the dashboard.
SummaryAgreesWithRules ==
    BeforeStore => \A range \in Ranges :
        LET ps == ListForAnalysis(range)
            rules == ConcentrationRules(ps)
            dashboard == GetWorkspaceDashboard(range, rules)
        IN
        /\ BudgetsAgree(ps, Rows, GetWorkspaceSummary(range).budgets)
        /\ \A w \in {p.wallet : p \in ps} :
              BudgetsAgree(OfWalletIn(w, range), BudgetsOfWallet(w),
                           GetWalletSummary(w, range).budgets)
        /\ \A r \in rules :
              r.id[2] = "category" => r.id[3].value = dashboard.topCategory
===============================================================================
