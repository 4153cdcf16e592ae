------------------------------ MODULE RiskFacts ------------------------------
(***************************************************************************)
(* The facts that risk analyses of one range read, as they change: late    *)
(* payments arrive (PaymentRepository.ingest), budgets are revised         *)
(* (BudgetRepository.update) and provider policies are set                 *)
(* (ProviderPolicyRepository.set).  A stored signal is followed through    *)
(* the analyses: one that finds it stores it, a later one that does not    *)
(* find it resolves it, and nothing opens it again (Risks).                *)
(*                                                                         *)
(* Each change is one statement on one row in a transaction of its own, so *)
(* that it is one step here.                                               *)
(***************************************************************************)
EXTENDS RiskRules

CONSTANTS
    Payments,   \* payments that may arrive
    Budgets,    \* budgets as they are created
    Providers,  \* providers that may be given a policy
    MaxRevision \* bound on the versions of budgets and policies

VARIABLES
    payments,   \* payments of the range that have arrived
    budgets,    \* budgets[b]: the row of budget b
    policies,   \* policies[k]: the policy of provider k, or None
    stored      \* the signal that is followed, or None

factVars == <<payments, budgets, policies, stored>>

-------------------------------------------------------------------------------

BudgetIds == {b.id : b \in Budgets}
BasisPoints == 1..10000
StoredBudget ==
    [id : BudgetIds, wallet : {b.wallet : b \in Budgets},
     task : {b.task : b \in Budgets}, provider : {b.provider : b \in Budgets},
     amount : Nat \ {0}, threshold : BasisPoints, start : Int, end : Int,
     status : {"active", "paused"}, version : Nat \ {0}]
Decisions == {"allowed", "review", "blocked"}
Policy == [decision : Decisions, version : Nat \ {0}]

\* Ids are unique, each payment has a wallet, and rows are finitely many.
ASSUME FactsAssumption ==
    /\ IsFiniteSet(Payments) /\ IsFiniteSet(Budgets)
    /\ \A p \in Payments :
          p.id \in Int /\ p.at \in Int /\ p.amount \in Nat \ {0} /\ p.wallet # None
    /\ \A p, q \in Payments : p.id = q.id => p = q
    /\ Budgets \subseteq StoredBudget
    /\ MaxRevision \in Nat
    /\ None \notin Policy /\ None \notin Nat

Rows == {budgets[b] : b \in BudgetIds}
Current == EvaluatePersistentRisks(payments, Rows, policies)
CurrentIds == {rule.id : rule \in Current}

FactsInit ==
    /\ payments = {}
    /\ budgets = [b \in BudgetIds |-> CHOOSE row \in Budgets : row.id = b]
    /\ policies = [k \in Providers |-> None]
    /\ stored = None

-------------------------------------------------------------------------------

\* ingest, of a payment whose source and external id are new.
Ingest(p) ==
    /\ p \notin payments
    /\ payments' = payments \cup {p}
    /\ UNCHANGED <<budgets, policies, stored>>

\* updateBudget: a budget is paused or made active again.
UpdateBudget(b, status) ==
    /\ budgets[b].version < MaxRevision
    /\ budgets' = [budgets EXCEPT ![b].status = status, ![b].version = @ + 1]
    /\ UNCHANGED <<payments, policies, stored>>

\* set: the insert for the expected version 0, and the update for another.
NextPolicy(k, decision) ==
    [decision |-> decision,
     version |-> IF policies[k] = None THEN 1 ELSE policies[k].version + 1]
SetPolicy(k, decision, expected) ==
    /\ expected = IF policies[k] = None THEN 0 ELSE policies[k].version
    /\ policies' = [policies EXCEPT ![k] = NextPolicy(k, decision)]
    /\ UNCHANGED <<payments, budgets, stored>>

\* An analysis stores a signal, which is followed from now on.
Store ==
    /\ stored = None
    /\ \E id \in CurrentIds : stored' = [id |-> id, resolved |-> FALSE]
    /\ UNCHANGED <<payments, budgets, policies>>

\* A later analysis resolves it.
Resolve ==
    /\ stored # None
    /\ ~stored.resolved
    /\ stored.id \notin CurrentIds
    /\ stored' = [stored EXCEPT !.resolved = TRUE]
    /\ UNCHANGED <<payments, budgets, policies>>

FactsNext ==
    \/ \E p \in Payments : Ingest(p)
    \/ \E b \in BudgetIds, s \in {"active", "paused"} : UpdateBudget(b, s)
    \/ \E k \in Providers, d \in Decisions, v \in 0..(MaxRevision - 1) : SetPolicy(k, d, v)
    \/ Store
    \/ Resolve

FactsSpec == FactsInit /\ [][FactsNext]_factVars

-------------------------------------------------------------------------------
(* Properties.                                                             *)

OfWallet(w) == {p \in payments : p.wallet = w}
WalletsSeen == {p.wallet : p \in payments}
TasksSeen == {p.task : p \in payments} \ {None}

\* A rule that an analysis no longer finds never comes back with the same id
\* while the range stays: its signal, resolved as stale, hides no later risk.
ResolvedStaysAway ==
    stored # None /\ stored.resolved => stored.id \notin CurrentIds

\* Five payments of a wallet that lie within a minute, and what the rules name.
Fives(w) ==
    {S \in kSubset(5, OfWallet(w)) : \A p, q \in S : p.at - q.at <= 60000}
Named(w) == {r.id[2] : r \in {x \in VelocityRules(payments) : x.wallet = w}}
LastAt(S) == Max({p.at : p \in S})

\* The sliding window finds a wallet exactly when five of its payments lie
\* within a minute, names five such payments, and none that end sooner.
VelocityIsExact ==
    \A w \in WalletsSeen :
        IF Fives(w) = {} THEN Named(w) = {}
        ELSE \E S \in Fives(w) :
                /\ Named(w) = {Ids(S)}
                /\ \A T \in Fives(w) : LastAt(S) <= LastAt(T)

\* A wallet has a spike exactly when it has five payments and its largest one
\* is worth five of more than half of them.
SpikeIsExact ==
    \A w \in WalletsSeen :
        LET ps == OfWallet(w)
            small == {p \in ps : \E q \in ps : q.amount >= 5 * p.amount}
        IN  (\E r \in SpikeRules(payments) : r.wallet = w)
              <=> Cardinality(ps) >= 5 /\ 2 * Cardinality(small) > Cardinality(ps)

\* A task is named exactly when it costs three times what more than half of at
\* least four tasks cost.
BaselineIsExact ==
    LET cost(t) == Spent({p \in payments : p.task = t})
        cheap == {t \in TasksSeen : \E u \in TasksSeen : cost(u) >= 3 * cost(t)}
    IN  (BaselineRules(payments) # {})
          <=> Cardinality(TasksSeen) >= 4 /\ 2 * Cardinality(cheap) > Cardinality(TasksSeen)

\* What is said of the facts alone is looked at before a signal is followed: no
\* fact depends on it.
BeforeStore == stored = None

\* The rules with windows and sorts agree with direct definitions.  No two rules
\* of one analysis have the same id: the INSERT ... ON CONFLICT that stores them
\* would fail.
RulesAreExact ==
    BeforeStore =>
    /\ VelocityIsExact /\ SpikeIsExact /\ BaselineIsExact
    /\ LET current == Current IN
       Cardinality({rule.id : rule \in current}) = Cardinality(current)
===============================================================================
