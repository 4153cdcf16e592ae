------------------------------- MODULE Intents -------------------------------
(***************************************************************************)
(* Transaction intents over the wallets of Wallets and a budget:           *)
(* createTransactionIntent, approve-, submit- and                          *)
(* completeTransactionIntent of                                            *)
(* src/lib/application/workspace-service.ts over                           *)
(* TransactionIntentRepository of src/lib/db/repositories.ts.              *)
(*                                                                         *)
(* A creation reads the wallet, then the budget, and inserts in a          *)
(* transaction that reads neither again.  The other calls are one guarded  *)
(* UPDATE each.  The expiry of an intent is stored and never looked at, so *)
(* it is left out; so are the chain, the amount and the scope of a task.   *)
(***************************************************************************)
EXTENDS Wallets

CONSTANTS
    IntentIds,  \* ids of intents that may be created
    Hashes,     \* transaction hashes a submission may name
    Workspace,  \* the scope of a budget that covers every wallet
    NoIntent,   \* an intent that was never created
    NoHash      \* the hash of an intent that was not submitted

VARIABLES
    intents,    \* intents[i]: the row of i, or NoIntent
    told,       \* told[i]: the hashes whose submission was answered with success
    budget,     \* the budget the intents name
    creation    \* the creation under way, between its statements

vars == <<wallets, calls, intents, told, budget, creation>>

-------------------------------------------------------------------------------

IntentStatus == {"pending_approval", "approved", "submitted", "completed"}

Intent == [wallet : WalletIds, status : IntentStatus, hash : Hashes \cup {NoHash}]
Budget == [scope : WalletIds \cup {Workspace},
           status : {"active", "paused", "archived"}]
Creation == [pc : {"idle", "budget", "insert"}, wallet : WalletIds \cup {NoRow}]

ASSUME IntentNullAssumption ==
    /\ NoIntent \notin Intent /\ NoHash \notin Hashes
    /\ Workspace \notin WalletIds

NoCreation == [pc |-> "idle", wallet |-> NoRow]

\* TYPE INVARIANT.
TypeOK ==
    /\ WalletTypeOK
    /\ intents \in [IntentIds -> Intent \cup {NoIntent}]
    /\ told \in [IntentIds -> SUBSET Hashes]
    /\ budget \in Budget
    /\ creation \in Creation

Init ==
    /\ WalletInit
    /\ intents = [i \in IntentIds |-> NoIntent]
    /\ told = [i \in IntentIds |-> {}]
    /\ budget \in {b \in Budget : b.status = "active"}
    /\ creation = NoCreation

-------------------------------------------------------------------------------
(* createTransactionIntent.                                                *)

\* getById of the wallet, and what is asked of it.
ReadWallet(w) ==
    /\ creation.pc = "idle"
    /\ \E c \in Calls : At(c, "idle")
    /\ IsLive(w)
    /\ wallets[w].executable
    /\ creation' = [pc |-> "budget", wallet |-> w]
    /\ UNCHANGED <<intents, told, budget>>

\* The budget is of the wallet or, without one, of the workspace.
Covers(scope, w) == scope \in WalletIds => scope = w

\* A slip, kept for mutation checking: the scope is not looked at.
UsableAny(b, w) == b.status = "active"

Usable(b, w) == b.status = "active" /\ Covers(b.scope, w)

\* getById of the budget.
ReadBudget ==
    /\ creation.pc = "budget"
    /\ Usable(budget, creation.wallet)
    /\ creation' = [creation EXCEPT !.pc = "insert"]
    /\ UNCHANGED <<intents, told, budget>>

NewIntent(w) == [wallet |-> w, status |-> "pending_approval", hash |-> NoHash]

\* The claim, the INSERT and its commit.
Insert(i) ==
    /\ creation.pc = "insert"
    /\ intents[i] = NoIntent
    /\ intents' = [intents EXCEPT ![i] = NewIntent(creation.wallet)]
    /\ creation' = NoCreation
    /\ UNCHANGED <<told, budget>>

\* A check refuses, a statement throws or the process dies.
GiveUp ==
    /\ creation.pc # "idle"
    /\ creation' = NoCreation
    /\ UNCHANGED <<intents, told, budget>>

-------------------------------------------------------------------------------
(* approve-, submit- and completeTransactionIntent.                        *)

Created(i) == intents[i] # NoIntent

Approvable(i) == intents[i].status = "pending_approval"

Approve(i) ==
    /\ Created(i)
    /\ Approvable(i)
    /\ intents' = [intents EXCEPT ![i].status = "approved"]
    /\ UNCHANGED <<told, budget, creation>>

\* A slip, kept for mutation checking: a submission may be repeated.
SubmittableAgain(i) == intents[i].status \in {"approved", "submitted"}

Submittable(i) == intents[i].status = "approved"

Submit(i, hash) ==
    /\ Created(i)
    /\ Submittable(i)
    /\ intents' = [intents EXCEPT ![i].status = "submitted", ![i].hash = hash]
    /\ told' = [told EXCEPT ![i] = @ \cup {hash}]
    /\ UNCHANGED <<budget, creation>>

Completable(i) == intents[i].status = "submitted"

Complete(i) ==
    /\ Created(i)
    /\ Completable(i)
    /\ intents' = [intents EXCEPT ![i].status = "completed"]
    /\ UNCHANGED <<told, budget, creation>>

-------------------------------------------------------------------------------

\* Budgets changes the status of the budget until it is archived.
ChangeBudget ==
    /\ budget.status # "archived"
    /\ \E status \in {"active", "paused", "archived"} :
            budget' = [budget EXCEPT !.status = status]
    /\ UNCHANGED <<wallets, calls, intents, told, creation>>

\* archiveWallet archives the budget of its wallet with it.  A creation under
\* way counts among the concurrent calls.
WalletStep ==
    /\ WalletNext
    /\ creation.pc # "idle" => \E c \in Calls : At(c, "idle")'
    /\ budget' = IF \E w \in WalletIds :
                        budget.scope = w /\ IsLive(w) /\ ~wallets'[w].live
                 THEN [budget EXCEPT !.status = "archived"]
                 ELSE budget
    /\ UNCHANGED <<intents, told, creation>>

IntentStep ==
    /\ \/ \E w \in WalletIds : ReadWallet(w)
       \/ ReadBudget
       \/ GiveUp
       \/ \E i \in IntentIds :
            \/ Insert(i)
            \/ Approve(i)
            \/ \E hash \in Hashes : Submit(i, hash)
            \/ Complete(i)
    /\ UNCHANGED <<wallets, calls>>

Next == WalletStep \/ IntentStep \/ ChangeBudget

Spec == Init /\ [][Next]_vars

-------------------------------------------------------------------------------
(* Properties.                                                             *)

\* An intent is always one its budget covers, also after the wallet was
\* archived or the budget paused: the checks and the insert are not one
\* transaction.
IntentsAreCovered ==
    \A i \in IntentIds :
        Created(i) => Covers(budget.scope, intents[i].wallet)

\* Of several submissions of an intent one is answered with success, and its
\* hash is the one that stays.
OneSubmissionWins ==
    \A i \in IntentIds : \A hash \in told[i] :
        Created(i) /\ intents[i].hash = hash
===============================================================================
