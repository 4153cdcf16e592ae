------------------------------ MODULE MCBudgets ------------------------------
(* Budgets for TLC: requests and budget ids are interchangeable.           *)
EXTENDS Budgets, TLC

BudgetSymmetry == Permutations(Txs) \cup Permutations(BudgetIds)
===============================================================================
