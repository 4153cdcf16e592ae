------------------------------ MODULE RiskRules ------------------------------
(***************************************************************************)
(* The rules of src/lib/analytics/persistent-risk.ts as operators on a set *)
(* of payments, the budgets and the provider policies of a workspace.      *)
(*                                                                         *)
(* Amounts are positive whole USDC units (parseUsdc and the checks of the *)
(* schema), so that no total is zero; times are milliseconds, and a        *)
(* warning threshold is in basis points (percentageBasisPoints).  What the *)
(* code takes in the order of listForAnalysis, by time and then by id,     *)
(* takes it here too.  A rule id is the name of the rule with the facts    *)
(* its fingerprint hashes: equal facts have equal ids, and hashes do not   *)
(* collide.                                                                *)
(*                                                                         *)
(* Operators that no other one uses are slips a change of the code could   *)
(* make, kept for mutation checking.                                       *)
(***************************************************************************)
EXTENDS Integers, FiniteSets, FiniteSetsExt, SequencesExt

CONSTANT None  \* an optional field that is not there

-------------------------------------------------------------------------------
(* Helpers.                                                                *)

Spent(ps) == MapThenSumSet(LAMBDA p : p.amount, ps)
Ids(ps) == {p.id : p \in ps}
GroupBy(ps, field) == {{p \in ps : p[field] = k} : k \in {p[field] : p \in ps} \ {None}}
KeyOf(group, field) == (CHOOSE p \in group : TRUE)[field]

\* orderBy(asc(occurredAt), asc(id)).
Earlier(p, q) == p.at < q.at \/ (p.at = q.at /\ p.id < q.id)
Sorted(S, before(_, _)) ==
    [i \in 1..Cardinality(S) |->
        CHOOSE x \in S : Cardinality({y \in S : before(y, x)}) = i - 1]
InOrder(ps) == Sorted(ps, Earlier)
First(ps) == CHOOSE p \in ps : \A q \in ps \ {p} : Earlier(p, q)

Rule(id, severity, wallet, task) ==
    [id |-> id, severity |-> severity, wallet |-> wallet, task |-> task]

-------------------------------------------------------------------------------
(* budgetRules.                                                            *)

MatchesBudget(p, b) ==
    /\ p.at >= b.start /\ p.at < b.end
    /\ b.wallet # None => p.wallet = b.wallet
    /\ b.task # None => p.task = b.task
    /\ b.provider # None => p.provider = b.provider

Matching(ps, b) == {p \in ps : MatchesBudget(p, b)}
Warning(b) == (b.amount * b.threshold) \div 10000
Warned(ps, b) == Spent(Matching(ps, b)) >= Warning(b)

Elapsed(ps, b) == Max({p.at : p \in Matching(ps, b)}) - b.start
Projected(ps, b) ==
    (Spent(Matching(ps, b)) * (b.end - b.start)) \div Elapsed(ps, b)
Overruns(ps, b) ==
    /\ Cardinality(Matching(ps, b)) >= 2
    /\ Elapsed(ps, b) > 0
    /\ Projected(ps, b) >= b.amount

BudgetFactsNameless(ps, b) ==
    [version |-> b.version, payments |-> Ids(Matching(ps, b)),
     spent |-> Spent(Matching(ps, b))]
BudgetFacts(ps, b) ==
    [budget |-> b.id, version |-> b.version, payments |-> Ids(Matching(ps, b)),
     spent |-> Spent(Matching(ps, b))]

BudgetRules(ps, bs) ==
    {Rule(<<"budget", BudgetFacts(ps, b)>>,
          IF Spent(Matching(ps, b)) >= b.amount THEN "high" ELSE "medium",
          b.wallet, b.task)
        : b \in {c \in bs : c.status = "active" /\ Warned(ps, c)}}

ForecastRules(ps, bs) ==
    {Rule(<<"budget_forecast", BudgetFacts(ps, b), Projected(ps, b)>>, "medium",
          b.wallet, b.task)
        : b \in {c \in bs : c.status = "active" /\ ~Warned(ps, c) /\ Overruns(ps, c)}}

-------------------------------------------------------------------------------
(* repeatedResourceRules, velocityRules and priceSpikeRules, wallet by     *)
(* wallet.                                                                 *)

Repeated(ps) ==
    {g \in UNION {GroupBy(w, "resource") : w \in GroupBy(ps, "wallet")} :
        Cardinality(g) >= 3}

RepeatRules(ps) ==
    {Rule(<<"repeat_resource", Ids(g)>>, "medium", KeyOf(g, "wallet"), None)
        : g \in Repeated(ps)}

\* The window has grown too long for the payment at its right end.
TooLongAtLimit(ordered, left, right) == ordered[right].at - ordered[left].at >= 60000
TooLong(ordered, left, right) == ordered[right].at - ordered[left].at > 60000

\* Where the loop has moved left to, for each right.
Lefts(ordered) ==
    LET left[right \in 1..Len(ordered)] ==
            LET from == IF right = 1 THEN 1 ELSE left[right - 1]
            IN  Min({i \in from..right : ~TooLong(ordered, i, right)})
    IN  left

\* The first window of five payments, if there is one.
Windows(w) ==
    LET ordered == InOrder(w)
        lefts == Lefts(ordered)
        full == {right \in 1..Len(ordered) : right - lefts[right] + 1 >= 5}
    IN  IF full = {} THEN {}
        ELSE {{ordered[i] : i \in lefts[Min(full)]..Min(full)}}

VelocityRules(ps) ==
    {Rule(<<"velocity", Ids(v)>>, "high", KeyOf(v, "wallet"), None)
        : v \in UNION {Windows(w) : w \in GroupBy(ps, "wallet")}}

\* toSorted by amount is stable.
Dearer(p, q) == p.amount > q.amount \/ (p.amount = q.amount /\ Earlier(p, q))
Cheaper(p, q) == p.amount < q.amount \/ (p.amount = q.amount /\ Earlier(p, q))
LowerMedian(ordered) == ordered[(Len(ordered) + 1) \div 2]
Median(ordered) == ordered[(Len(ordered) \div 2) + 1]

SpikesOf(w) ==
    LET ordered == Sorted(w, Cheaper)
        median == Median(ordered).amount
        largest == Last(ordered)
    IN  IF Len(ordered) < 5 \/ largest.amount < median * 5 THEN {}
        ELSE {Rule(<<"price_spike", [wallet |-> largest.wallet, payment |-> largest.id,
                                     median |-> median, size |-> Len(ordered)]>>,
                   "medium", largest.wallet, largest.task)}

SpikeRules(ps) == UNION {SpikesOf(w) : w \in GroupBy(ps, "wallet")}

-------------------------------------------------------------------------------
(* providerPolicyRules.  policy[k] is the policy of provider k, or None;   *)
(* other providers have none either.                                       *)

HasPolicy(policy, k) == k \in DOMAIN policy /\ policy[k] # None
Decision(policy, k) ==
    IF HasPolicy(policy, k) THEN policy[k].decision ELSE "unreviewed"

PolicyFactsUnversioned(policy, g) ==
    LET k == KeyOf(g, "provider") IN
    [provider |-> k, decision |-> Decision(policy, k), payments |-> Ids(g)]
PolicyFacts(policy, g) ==
    LET k == KeyOf(g, "provider") IN
    [provider |-> k, decision |-> Decision(policy, k),
     version |-> IF HasPolicy(policy, k) THEN policy[k].version ELSE None,
     payments |-> Ids(g)]

PolicyRules(ps, policy) ==
    {Rule(<<"provider_policy", PolicyFacts(policy, g)>>,
          IF Decision(policy, KeyOf(g, "provider")) = "blocked" THEN "high" ELSE "medium",
          First(g).wallet, None)
        : g \in {h \in GroupBy(ps, "provider") :
                    Decision(policy, KeyOf(h, "provider")) # "allowed"}}

-------------------------------------------------------------------------------
(* concentrationRules and taskBaselineRules.                               *)

Share(g, ps) == (Spent(g) * 10000) \div Spent(ps)

\* The group that spent most leads if it has 70% of everything.
Leaders(ps, field) ==
    LET groups == GroupBy(ps, field) IN
    IF Cardinality(ps) < 5 \/ Cardinality(groups) < 2 THEN {}
    ELSE {g \in groups : /\ \A h \in groups : Spent(g) >= Spent(h)
                         /\ Spent(g) * 100 >= Spent(ps) * 70}

ConcentrationRules(ps) ==
    UNION {{Rule(<<"concentration", field,
                   [value |-> KeyOf(g, field), share |-> Share(g, ps),
                    payments |-> Ids(g), total |-> Spent(ps), spent |-> Spent(g)]>>,
                 IF Share(g, ps) >= 8500 THEN "high" ELSE "medium", None, None)
              : g \in Leaders(ps, field)} : field \in {"provider", "category"}}

\* The tasks by what they cost.  Those that cost the same stay in the order of
\* their first payments.
CheaperTask(g, h) ==
    Spent(g) < Spent(h) \/ (Spent(g) = Spent(h) /\ Earlier(First(g), First(h)))

BaselineRules(ps) ==
    LET ordered == Sorted(GroupBy(ps, "task"), CheaperTask)
        median == Spent(Median(ordered))
        largest == Last(ordered)
    IN  IF Len(ordered) < 4 \/ Spent(largest) < median * 3 THEN {}
        ELSE {Rule(<<"task_baseline",
                     [task |-> KeyOf(largest, "task"), spent |-> Spent(largest),
                      median |-> median, size |-> Len(ordered),
                      payments |-> Ids(largest)]>>,
                   "medium", First(largest).wallet, KeyOf(largest, "task"))}

-------------------------------------------------------------------------------

EvaluatePersistentRisks(ps, bs, policy) ==
    UNION {BudgetRules(ps, bs), ForecastRules(ps, bs), RepeatRules(ps),
           VelocityRules(ps), SpikeRules(ps), PolicyRules(ps, policy),
           ConcentrationRules(ps), BaselineRules(ps)}
===============================================================================
