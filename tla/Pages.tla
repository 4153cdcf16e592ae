-------------------------------- MODULE Pages --------------------------------
(***************************************************************************)
(* One page of the browser application: the session of                     *)
(* src/components/auth/workspace-session-provider.tsx and the pages of     *)
(* src/components/workspace and src/components/dashboard that load rows of *)
(* the session's workspace, change them and load them again.               *)
(*                                                                         *)
(* A request is sent with the token of whoever is signed in to Privy at    *)
(* that time and is answered when the network will, if at all.  The effect *)
(* of a component aborts its own request when it runs again, and no other. *)
(* Every user has a workspace of his own, whose rows are one row with a    *)
(* version; the demo data that a page shows to nobody, the forms, the      *)
(* history of a budget and the other requests of a load are left out.      *)
(***************************************************************************)
EXTENDS Naturals, FiniteSetsExt

CONSTANTS
    Visitors,       \* users of this browser; a workspace is named by its user
    Slots,          \* bound on what a user may have asked for at once
    MaxChanges,     \* bound on the changes of the rows of all workspaces
    None            \* nobody, nothing

ASSUME PagesAssumption ==
    /\ MaxChanges \in Nat
    /\ None \notin Visitors

VARIABLES
    page,       \* the changes that the open page offers
    privy,      \* who is signed in to Privy, or None
    session,    \* the provider's session state, None at first and after errors
    clearing,   \* signOut has logged out and has yet to clear the session
    entering,   \* the user that the effect of the provider asks about, or None
    relinking,  \* the user asked about after a change of identities, or None
    loading,    \* the load of the page's effect, or None
    data,       \* the rows the page has stored, or None
    loaded,     \* loadedWorkspaceId
    change,     \* change[s]: a change or a refresh the user asked for, or None
    rows,       \* rows[u]: the version of the rows of u at the server
    astray      \* history: a change was under way that the session has left

pageVars == <<page, privy, session, clearing, entering, relinking, loading,
              data, loaded, change, rows, astray>>

-------------------------------------------------------------------------------
(* The pages.  onRow: the change names a row that the page shows.          *)
(* versioned: its request carries the version that the page shows, if it   *)
(* shows one.  reloads: the page also loads its rows again when refused.   *)
(* A change that clears stores its outcome itself, the others load the     *)
(* rows after a success.  One that does not ask is only a load.  One that  *)
(* is alone disables the others: a refresh of all wallets does not, and a  *)
(* decision about a provider disables that of the same provider only.      *)

Plain == [asks |-> TRUE, onRow |-> FALSE, versioned |-> FALSE,
          reloads |-> FALSE, clears |-> FALSE, alone |-> TRUE]
OnRow == [Plain EXCEPT !.onRow = TRUE]
Versioned == [OnRow EXCEPT !.versioned = TRUE]

AddWallet == Plain
SetPrimary == OnRow
ArchiveWallet == OnRow
SyncWallet == [OnRow EXCEPT !.reloads = TRUE]
RefreshAll == [Plain EXCEPT !.asks = FALSE, !.alone = FALSE]
CreateBudget == Plain
SaveBudget == Versioned
UpdateBudgetStatus == Versioned
CreateTask == Plain
UpdateTaskStatus == [Versioned EXCEPT !.reloads = TRUE]
SetDecision == [Versioned EXCEPT !.reloads = TRUE, !.alone = FALSE]
RunAnalysis == Plain
UpdateRiskStatus == [Versioned EXCEPT !.reloads = TRUE]
GenerateReport == Plain
StoreCredential == [Versioned EXCEPT !.onRow = FALSE]
RemoveCredential == [StoreCredential EXCEPT !.clears = TRUE]
AnalyzeWallet == [Plain EXCEPT !.asks = FALSE]

WalletsPage == {AddWallet, SetPrimary, ArchiveWallet, SyncWallet, RefreshAll}
BudgetsPage == {CreateBudget, SaveBudget, UpdateBudgetStatus}
TasksPage == {CreateTask, UpdateTaskStatus}
ProvidersPage == {SetDecision}
RisksPage == {RunAnalysis, UpdateRiskStatus}
ReportsPage == {GenerateReport}
SettingsPage == {StoreCredential, RemoveCredential}
SpendPage == {}
AgentDashboard == {AnalyzeWallet}

PagesOfTheApp == {WalletsPage, BudgetsPage, TasksPage, ProvidersPage, RisksPage,
                  ReportsPage, SettingsPage, SpendPage, AgentDashboard}

-------------------------------------------------------------------------------

Version == Nat \ {0}
Rows == [user : Visitors, version : Version]

\* label: the workspace the page will say it has loaded.  token: whose request
\* it is.  version: what the server answered, or None.
Load == [label : Visitors, token : Visitors, version : Version \cup {None}]

\* row: what the page showed of the row to change.  token and version: of the
\* change itself and, in phase "reload", of the load that ends it.
Change == [kind : UNION PagesOfTheApp, label : Visitors, token : Visitors,
           row : Rows \cup {None}, version : Version \cup {None},
           phase : {"sent", "accepted", "refused", "reload"}]

\* The absence of a load or of a change is neither.
ASSUME NothingAssumption == None \notin Load /\ None \notin Change

\* TYPE INVARIANT.
PageTypeOK ==
    /\ page \in PagesOfTheApp
    /\ privy \in Visitors \cup {None}
    /\ session \in Visitors \cup {None}
    /\ clearing \in BOOLEAN
    /\ entering \in Visitors \cup {None}
    /\ relinking \in Visitors \cup {None}
    /\ loading \in Load \cup {None}
    /\ data \in Rows \cup {None}
    /\ loaded \in Visitors \cup {None}
    /\ change \in [Slots -> Change \cup {None}]
    /\ rows \in [Visitors -> Version]
    /\ astray \in BOOLEAN

PageInit ==
    /\ page \in PagesOfTheApp
    /\ privy = None /\ session = None /\ clearing = FALSE
    /\ entering = None /\ relinking = None
    /\ loading = None /\ data = None /\ loaded = None
    /\ change = [s \in Slots |-> None]
    /\ rows = [u \in Visitors |-> 1]
    /\ astray = FALSE

\* What components see as the session.
Session == IF privy # None THEN session ELSE None

\* What the page shows of its rows: those of the session's workspace.
Shown == IF Session # None /\ loaded = Session THEN data ELSE None

NewLoad(label, token) == [label |-> label, token |-> token, version |-> None]

MoreChanges == MapThenSumSet(LAMBDA u : rows[u] - 1, Visitors) < MaxChanges

\* A change or a refresh that is under way is not of this session.
Crosses(token, label) ==
    \E s \in Slots :
        /\ change[s] # None
        /\ change[s].label # label \/ change[s].token # token

\* A slip: the effect leaves a load that is under way alone.
EffectWaits(token, label) ==
    /\ loading' = IF token # None /\ label # None /\ loading = None
                    THEN NewLoad(label, token) ELSE loading
    /\ astray' = Crosses(token, label)

\* The effect of the page, on a session that may be new: it aborts its load
\* and starts another one if there is a session.
Effect(token, label) ==
    /\ loading' = IF token # None /\ label # None THEN NewLoad(label, token) ELSE None
    /\ astray' = Crosses(token, label)

-------------------------------------------------------------------------------
(* The session.                                                            *)

\* login(); the effect of the provider asks for the session.  A login that
\* expired has left the session of the user before.
SignIn(u) ==
    /\ privy = None
    /\ privy' = u
    /\ entering' = u
    /\ Effect(u, session)
    /\ UNCHANGED <<page, session, clearing, relinking, data, loaded, change, rows>>

\* Privy signs the user out, by itself or in signOut.
SignedOut(asked) ==
    /\ privy # None
    /\ asked => ~clearing
    /\ privy' = None
    /\ entering' = None
    /\ clearing' = (clearing \/ asked)
    /\ Effect(None, session)
    /\ UNCHANGED <<page, session, relinking, data, loaded, change, rows>>

\* setSession(null) of signOut.
ClearSession ==
    /\ clearing
    /\ clearing' = FALSE
    /\ session' = None
    /\ Effect(privy, None)
    /\ UNCHANGED <<page, privy, entering, relinking, data, loaded, change, rows>>

\* The answer to the provider's effect, or its failure.
Entered ==
    /\ entering # None
    /\ \E answer \in {entering, None} : session' = answer /\ Effect(privy, answer)
    /\ entering' = None
    /\ UNCHANGED <<page, privy, clearing, relinking, data, loaded, change, rows>>

\* linkIdentity or unlinkIdentity has succeeded and asks for the session.
Relink ==
    /\ privy # None /\ relinking = None
    /\ relinking' = privy
    /\ UNCHANGED <<page, privy, session, clearing, entering, loading, data,
                   loaded, change, rows, astray>>

\* Its answer, which nothing aborts, or its failure.
Relinked ==
    /\ relinking # None
    /\ relinking' = None
    /\ \/ session' = relinking /\ Effect(privy, relinking)
       \/ UNCHANGED <<session, loading, astray>>
    /\ UNCHANGED <<page, privy, clearing, entering, data, loaded, change, rows>>

SessionStep ==
    \/ \E u \in Visitors : SignIn(u)
    \/ \E asked \in BOOLEAN : SignedOut(asked)
    \/ ClearSession
    \/ Entered
    \/ Relink
    \/ Relinked

-------------------------------------------------------------------------------
(* The load of the page's effect.                                          *)

\* The server reads the rows.
LoadRead ==
    /\ loading # None /\ loading.version = None
    /\ loading' = [loading EXCEPT !.version = rows[loading.token]]
    /\ UNCHANGED <<page, privy, session, clearing, entering, relinking, data,
                   loaded, change, rows, astray>>

\* The page stores the rows and their label, or an error and the label.
LoadEnds ==
    /\ loading # None
    /\ \/ /\ loading.version # None
          /\ data' = [user |-> loading.token, version |-> loading.version]
       \/ data' = None
    /\ loaded' = loading.label
    /\ loading' = None
    /\ UNCHANGED <<page, privy, session, clearing, entering, relinking, change, rows,
                   astray>>

-------------------------------------------------------------------------------
(* What a user asks for.                                                   *)

\* What a change without an answer yet becomes: the load of the rows, with the
\* label of the session in which the user asked.  Without a token it throws.
Reload(asked) ==
    IF privy = None THEN None
    ELSE [asked EXCEPT !.phase = "reload", !.token = privy, !.row = None]

\* What a page does after a refusal; a slip only tells the user.
TellsOnly(asked) == None
AfterRefusal(asked) == IF asked.kind.reloads THEN Reload(asked) ELSE None

Ask(s, kind) ==
    LET asked == [kind |-> kind, label |-> session, token |-> privy,
                  row |-> IF kind.onRow \/ kind.versioned THEN Shown ELSE None,
                  version |-> None, phase |-> "sent"]
    IN
    /\ change[s] = None
    /\ kind \in page
    /\ kind.alone => \A r \in Slots : change[r] # None => ~change[r].kind.alone
    /\ Session # None
    /\ kind.onRow \/ kind.clears => Shown # None
    /\ kind.versioned => loaded = Session
    /\ change' = [change EXCEPT ![s] = IF kind.asks THEN asked ELSE Reload(asked)]
    /\ UNCHANGED <<page, privy, session, clearing, entering, relinking, loading,
                   data, loaded, rows, astray>>

\* The WHERE of an UPDATE with an expected version.
VersionMatches(asked) == asked.row # None /\ asked.row.version = rows[asked.token]

\* The server looks for a row by its id in the workspace of the token.
Acceptable(asked) ==
    /\ asked.kind.onRow => asked.row.user = asked.token
    /\ asked.kind.versioned => VersionMatches(asked)

\* The server refuses a version that is not the current one, and what has no
\* version for reasons of its own.
Serve(s) ==
    /\ change[s] # None /\ change[s].phase = "sent"
    /\ \/ /\ Acceptable(change[s])
          /\ MoreChanges
          /\ rows' = [rows EXCEPT ![change[s].token] = @ + 1]
          /\ change' = [change EXCEPT ![s].phase = "accepted"]
       \/ /\ change[s].kind.versioned => ~Acceptable(change[s])
          /\ change' = [change EXCEPT ![s].phase = "refused"]
          /\ UNCHANGED rows
    /\ UNCHANGED <<page, privy, session, clearing, entering, relinking, loading,
                   data, loaded, astray>>

Answered(s) ==
    /\ change[s] # None
    /\ \/ /\ change[s].phase = "refused"
          /\ change' = [change EXCEPT ![s] = AfterRefusal(@)]
          /\ UNCHANGED data
       \/ /\ change[s].phase = "accepted" /\ ~change[s].kind.clears
          /\ change' = [change EXCEPT ![s] = Reload(@)]
          /\ UNCHANGED data
       \/ /\ change[s].phase = "accepted" /\ change[s].kind.clears
          /\ change' = [change EXCEPT ![s] = None]
          /\ data' = [user |-> change[s].token, version |-> change[s].row.version + 1]
    /\ UNCHANGED <<page, privy, session, clearing, entering, relinking, loading,
                   loaded, rows, astray>>

\* fetch rejects, in the request or in the load after it.
AnswerLost(s) ==
    /\ change[s] # None
    /\ change' = [change EXCEPT ![s] = None]
    /\ UNCHANGED <<page, privy, session, clearing, entering, relinking, loading,
                   data, loaded, rows, astray>>

ReloadRead(s) ==
    /\ change[s] # None /\ change[s].phase = "reload" /\ change[s].version = None
    /\ change' = [change EXCEPT ![s].version = rows[change[s].token]]
    /\ UNCHANGED <<page, privy, session, clearing, entering, relinking, loading,
                   data, loaded, rows, astray>>

Reloaded(s) ==
    /\ change[s] # None /\ change[s].phase = "reload" /\ change[s].version # None
    /\ data' = [user |-> change[s].token, version |-> change[s].version]
    /\ loaded' = change[s].label
    /\ change' = [change EXCEPT ![s] = None]
    /\ UNCHANGED <<page, privy, session, clearing, entering, relinking, loading,
                   rows, astray>>

ChangeStep ==
    \E s \in Slots :
        \/ \E kind \in page : Ask(s, kind)
        \/ Serve(s)
        \/ Answered(s)
        \/ AnswerLost(s)
        \/ ReloadRead(s)
        \/ Reloaded(s)

-------------------------------------------------------------------------------

\* An agent over MCP, a synchronisation or another browser changes the rows.
ChangedElsewhere ==
    /\ MoreChanges
    /\ \E u \in Visitors : rows' = [rows EXCEPT ![u] = @ + 1]
    /\ UNCHANGED <<page, privy, session, clearing, entering, relinking, loading,
                   data, loaded, change, astray>>

PageNext ==
    \/ SessionStep
    \/ LoadRead
    \/ LoadEnds
    \/ ChangeStep
    \/ ChangedElsewhere

VersionRefused(s) ==
    change[s] # None /\ change[s].phase = "refused" /\ change[s].kind.versioned

\* Requests are answered or fail.  The network does not lose every refusal of a
\* version or every load after a change.  What users do needs no fairness.
Fairness ==
    /\ WF_pageVars(ClearSession) /\ WF_pageVars(Entered) /\ WF_pageVars(Relinked)
    /\ WF_pageVars(LoadRead) /\ WF_pageVars(LoadEnds)
    /\ \A s \in Slots :
        /\ WF_pageVars(Serve(s)) /\ WF_pageVars(Answered(s))
        /\ SF_pageVars(VersionRefused(s) /\ Answered(s))
        /\ SF_pageVars(ReloadRead(s)) /\ SF_pageVars(Reloaded(s))

PageSpec == PageInit /\ [][PageNext]_pageVars /\ Fairness

-------------------------------------------------------------------------------
(* Properties.                                                             *)

\* The page has the rows of who is signed in, or none after an error, under the
\* label of the session it is given.
PageSettled == loaded = Session /\ (data # None => data.user = privy)

\* A page that is not loading has settled, whatever sessions before it have
\* left: also after a login that expired and left another user's session, after
\* late answers to earlier sign-ins, and with changes and refreshes next to the
\* load.  The exception is a session that changed while a change or a refresh
\* was under way, which nothing aborts: its rows come late and with the old
\* label, so that the page shows them to the wrong user or waits for ever.
ShownIsOfSession ==
    (Session # None /\ loading = None /\ ~astray) => PageSettled

\* Where a refusal makes the page load its rows again, a user who stays signed
\* in is not refused for ever: the version of the next request is a new one.
RetriesGetThrough ==
    <>[](privy # None) =>
        \A s \in Slots : <>[](VersionRefused(s) => ~change[s].kind.reloads)
===============================================================================
