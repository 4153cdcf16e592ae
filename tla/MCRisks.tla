------------------------------- MODULE MCRisks -------------------------------
(* The two sides of a risk for TLC: the rules and summaries of a range, and  *)
(* the signals that concurrent requests store.  They share no variable, so   *)
(* one of them moves while the other rests.                                  *)
EXTENDS Risks, Summaries, TLC

CONSTANTS w1, w2, a, b, res, t1, t2, t3, t4, c, d, b1, b2, wide, wider, narrow

\* No fact moves: nothing has arrived, and no rule has the signal that is stored.
Nothing == [id |-> None, resolved |-> TRUE]
Resting == stored = Nothing
FactsRest ==
    /\ payments = {}
    /\ budgets = [id \in BudgetIds |-> CHOOSE row \in Budgets : row.id = id]
    /\ policies = [k \in Providers |-> None]
    /\ Resting

FactsMove == ~Resting /\ FactsNext /\ UNCHANGED vars
SignalsMove == Resting /\ Next /\ UNCHANGED factVars
RiskInit == Init /\ (FactsInit \/ FactsRest)
RiskSpec == RiskInit /\ [][FactsMove \/ SignalsMove]_<<vars, factVars>>

\* The two ranges that hold the same payments are interchangeable as well.
RiskSymmetry == Permutations(Calls) \cup Permutations({wide, wider})

-------------------------------------------------------------------------------
(* Payments close to the limits of every rule and range.                     *)

Paid(id, at, amount, wallet, task, provider, category, resource) ==
    [id |-> id, at |-> at, amount |-> amount, wallet |-> wallet, task |-> task,
     provider |-> provider, category |-> category, resource |-> resource]

ArrivingPayments ==
    {Paid(1, 0,     1, w1, t1,   a,    c,    res),
     Paid(2, 20000, 1, w1, t2,   a,    c,    res),
     Paid(3, 40000, 1, w1, t3,   b,    None, res),
     Paid(4, 60000, 2, w1, t4,   a,    d,    None),
     Paid(5, 60000, 5, w1, t1,   a,    d,    res),
     Paid(6, 60001, 1, w1, None, None, d,    None),
     Paid(7, 10000, 4, w2, t4,   b,    c,    res)}

Funded(id, wallet, provider, version) ==
    [id |-> id, wallet |-> wallet, task |-> None, provider |-> provider,
     amount |-> 8, threshold |-> 8000, start |-> 0, end |-> 80000,
     status |-> "active", version |-> version]

\* One budget has one version left, the other has come to its last.
CreatedBudgets ==
    {Funded(b1, w1, None, MaxRevision - 1), Funded(b2, None, a, MaxRevision)}
ReviewedProviders == {a}

\* A range that begins with a payment and ends at one, with the first payments in
\* the range before it, and one that has them all.
AskedRanges == {[start |-> 20000, end |-> 60001], [start |-> 0, end |-> 60002]}

-------------------------------------------------------------------------------
(* Inputs of analyses: two ranges that hold the same three payments for one  *)
(* resource, the last to a provider without a policy, and a range that holds *)
(* that last payment only.                                                   *)

Bought(id, provider) == Paid(id, id, 1, w1, None, provider, None, res)
Of(range, ps) == [range |-> range, payments |-> ps]
AllBought == {Bought(1, None), Bought(2, None), Bought(3, a)}
RiskInputs == {Of(wide, AllBought), Of(wider, AllBought), Of(narrow, {Bought(3, a)})}

RulesOfInput ==
    [i \in RiskInputs |->
        {rule.id : rule \in EvaluatePersistentRisks(i.payments, {}, <<>>)}]
RiskRuleIds == UNION {RulesOfInput[i] : i \in RiskInputs}
===============================================================================
