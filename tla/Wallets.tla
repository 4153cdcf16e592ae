------------------------------- MODULE Wallets -------------------------------
(***************************************************************************)
(* The wallets of a workspace and which of them is primary, under          *)
(* concurrent requests: createWallet, setPrimaryWallet and archiveWallet   *)
(* of src/lib/application/workspace-service.ts over WalletRepository of    *)
(* src/lib/db/repositories.ts.                                             *)
(*                                                                         *)
(* A call is one transaction at READ COMMITTED.  An UPDATE takes the rows  *)
(* its WHERE matches when the statement begins, waits for transactions     *)
(* that hold one of them, and then tests its WHERE on what they committed. *)
(* Its writes are the transaction's own until the commit.  The last UPDATE *)
(* or INSERT of a call and its commit are one step: until then nobody else *)
(* sees the write.  Claims and replays of these calls are Idempotency's,   *)
(* and what archiveWallet does to budgets is Budgets'.                     *)
(***************************************************************************)
EXTENDS Naturals, FiniteSets

CONSTANTS
    Calls,      \* concurrent calls
    WalletIds,  \* wallets the workspace may have, by address
    NoRow       \* a wallet that was never created, a row not written

VARIABLES
    wallets,    \* wallets[w]: the committed row of w, or NoRow
    calls       \* calls[c]: the transaction c is serving

-------------------------------------------------------------------------------
(* Types.                                                                  *)

\* live: archivedAt is null.  executable: capabilities.agentExecutable.
Wallet == [live : BOOLEAN, primary : BOOLEAN, executable : BOOLEAN]

\* primary: the isPrimary of a creation, or of the wallet that archive read.
\* todo: the rows its UPDATE has matched.  company: the operations of other
\* calls that were under way between its beginning and now.
Operations == {"create", "setPrimary", "archive"}
Call == [pc : {"idle", "clear", "put", "set", "archive", "choose", "promote"},
         op : Operations \cup {"none"},
         wallet : WalletIds \cup {NoRow},
         primary : BOOLEAN,
         todo : SUBSET WalletIds,
         writes : [WalletIds -> Wallet \cup {NoRow}],
         company : SUBSET Operations]

ASSUME NullAssumption == NoRow \notin Wallet /\ NoRow \notin WalletIds

NoWrites == [w \in WalletIds |-> NoRow]
Idle == [pc |-> "idle", op |-> "none", wallet |-> NoRow, primary |-> FALSE,
         todo |-> {}, writes |-> NoWrites, company |-> {}]

WalletTypeOK ==
    /\ wallets \in [WalletIds -> Wallet \cup {NoRow}]
    /\ calls \in [Calls -> Call]

\* Wallets come from createWallet or, with agentExecutable, from the adapter
\* of a wallet provider.
WalletInit ==
    /\ wallets \in [WalletIds ->
                    {NoRow, [live |-> TRUE, primary |-> FALSE, executable |-> TRUE]}]
    /\ calls = [c \in Calls |-> Idle]

-------------------------------------------------------------------------------
(* Helpers.                                                                *)

Exists(w) == wallets[w] # NoRow
IsLive(w) == Exists(w) /\ wallets[w].live
IsPrimary(w) == IsLive(w) /\ wallets[w].primary

\* What call c reads of w: its own writes before what is committed.
View(c, w) == IF calls[c].writes[w] # NoRow THEN calls[c].writes[w] ELSE wallets[w]

\* Another call holds the row of w.
Locked(c, w) == \E d \in Calls \ {c} : calls[d].writes[w] # NoRow

At(c, step) == calls[c].pc = step

\* Slips a change of the code could make, kept for mutation checking: a
\* primary creation clears no flag, an archiving does not look at its own.
ToClearNone(op) == IF op = "setPrimary" THEN {w \in WalletIds : Exists(w)} ELSE {}
ReadNotPrimary(w) == FALSE

\* The rows the first UPDATE of setPrimary and of a primary creation match.
ToClear(op) == IF op = "setPrimary" THEN {w \in WalletIds : Exists(w)}
                                    ELSE {w \in WalletIds : IsPrimary(w)}

\* current?.isPrimary of archive.
ReadPrimary(w) == wallets[w].primary

Begin(c, call) ==
    /\ At(c, "idle")
    /\ calls' = [d \in Calls |->
           CASE d = c -> [call EXCEPT
                    !.company = {calls[e].op : e \in {f \in Calls : ~At(f, "idle")}}]
             [] d # c /\ ~At(d, "idle") -> [calls[d] EXCEPT !.company = @ \cup {call.op}]
             [] d # c /\ At(d, "idle") -> Idle]
    /\ UNCHANGED wallets

\* The writes of c and those of its last statement become visible together.
Commit(c, last) ==
    /\ wallets' = [w \in WalletIds |->
                    IF last[w] # NoRow THEN last[w] ELSE View(c, w)]
    /\ calls' = [calls EXCEPT ![c] = Idle]

-------------------------------------------------------------------------------
(* createWallet.                                                           *)

BeginCreate(c, w, primary) ==
    Begin(c, [Idle EXCEPT !.op = "create", !.wallet = w, !.primary = primary,
                          !.pc = IF primary THEN "clear" ELSE "put",
                          !.todo = IF primary THEN ToClear("create") ELSE {}])

\* The UPDATE that clears isPrimary, of a creation (of the live primary wallets)
\* and of setPrimary (of all).
Clear(c) ==
    LET call == calls[c]
        matched == {w \in call.todo : call.op = "setPrimary" \/ IsPrimary(w)}
    IN
    /\ At(c, "clear")
    /\ \A w \in call.todo : ~Locked(c, w)
    /\ calls' = [calls EXCEPT
            ![c].pc = IF call.op = "setPrimary" THEN "set" ELSE "put",
            ![c].todo = {},
            ![c].writes = [w \in WalletIds |->
                IF w \in matched THEN [wallets[w] EXCEPT !.primary = FALSE]
                                 ELSE NoRow]]
    /\ UNCHANGED wallets

\* The UPDATE that restores the archived wallet of this address, or else the
\* INSERT.  The unique index refuses the address of a live one: RollBack.
Put(c) ==
    LET w == calls[c].wallet IN
    /\ At(c, "put")
    /\ ~Locked(c, w)
    /\ ~IsLive(w)
    /\ Commit(c, [NoWrites EXCEPT ![w] =
            [live |-> TRUE, primary |-> calls[c].primary, executable |-> FALSE]])

-------------------------------------------------------------------------------
(* setPrimaryWallet.                                                       *)

BeginSetPrimary(c, w) ==
    Begin(c, [Idle EXCEPT !.op = "setPrimary", !.wallet = w, !.pc = "clear",
                          !.todo = ToClear("setPrimary")])

\* The wallet it names may be archived.  One that does not exist is refused.
SetPrimary(c) ==
    LET w == calls[c].wallet IN
    /\ At(c, "set")
    /\ Exists(w)
    /\ ~Locked(c, w)
    /\ Commit(c, [NoWrites EXCEPT ![w] = [View(c, w) EXCEPT !.primary = TRUE]])

-------------------------------------------------------------------------------
(* archiveWallet.                                                          *)

\* getById.  A wallet that does not exist is refused.
BeginArchive(c, w) ==
    /\ Exists(w)
    /\ Begin(c, [Idle EXCEPT !.op = "archive", !.wallet = w, !.pc = "archive",
                             !.primary = ReadPrimary(w)])

\* The UPDATE of a wallet that is still live.
Archive(c) ==
    LET w == calls[c].wallet
        row == [wallets[w] EXCEPT !.live = FALSE, !.primary = FALSE]
    IN
    /\ At(c, "archive")
    /\ IsLive(w)
    /\ ~Locked(c, w)
    /\ IF calls[c].primary
         THEN /\ calls' = [calls EXCEPT ![c].pc = "choose", ![c].writes[w] = row]
              /\ UNCHANGED wallets
         ELSE Commit(c, [NoWrites EXCEPT ![w] = row])

\* The SELECT of the oldest live wallet, here any of them.
Choose(c) ==
    LET live == {w \in WalletIds : IsLive(w) /\ w # calls[c].wallet} IN
    /\ At(c, "choose")
    /\ \/ /\ live = {}
          /\ Commit(c, NoWrites)
       \/ \E w \in live :
            /\ calls' = [calls EXCEPT ![c].pc = "promote", ![c].todo = {w}]
            /\ UNCHANGED wallets

\* The UPDATE of the replacement, which may be archived by now.
Promote(c) ==
    \E w \in calls[c].todo :
        /\ At(c, "promote")
        /\ ~Locked(c, w)
        /\ Commit(c, [NoWrites EXCEPT ![w] = [View(c, w) EXCEPT !.primary = TRUE]])

-------------------------------------------------------------------------------

\* A statement throws, the database ends a deadlock or the process dies.
RollBack(c) ==
    /\ ~At(c, "idle")
    /\ calls' = [calls EXCEPT ![c] = Idle]
    /\ UNCHANGED wallets

WalletNext ==
    \E c \in Calls :
        \/ \E w \in WalletIds, primary \in BOOLEAN : BeginCreate(c, w, primary)
        \/ \E w \in WalletIds : BeginSetPrimary(c, w) \/ BeginArchive(c, w)
        \/ Clear(c)
        \/ Put(c)
        \/ SetPrimary(c)
        \/ Archive(c)
        \/ Choose(c)
        \/ Promote(c)
        \/ RollBack(c)

wvars == <<wallets, calls>>
WalletSpec == WalletInit /\ [][WalletNext]_wvars

-------------------------------------------------------------------------------
(* Properties.                                                             *)

\* Call c ends in this step, and what it wrote shows.
Writes(c) == ~At(c, "idle") /\ At(c, "idle")' /\ wallets' # wallets

\* Whatever earlier races left, setPrimary of a live wallet that met no creation
\* and no archiving, and a primary creation that met no other call, leave their
\* wallet as the only live primary one.
ChoiceIsTheOnlyPrimary ==
    [][\A c \in Calls :
         LET call == calls[c] IN
         (/\ Writes(c)
          /\ \/ /\ call.op = "setPrimary"
                /\ IsLive(call.wallet)
                /\ call.company \subseteq {"setPrimary"}
             \/ /\ call.op = "create" /\ call.primary
                /\ call.company = {})
         => \A w \in WalletIds : IsPrimary(w)' <=> w = call.wallet]_wvars

\* An archiving that met no other call does not leave a workspace that had a
\* live primary wallet without one, as long as it has live wallets.
ArchiveKeepsAPrimary ==
    [][\A c \in Calls :
         (/\ Writes(c)
          /\ calls[c].op = "archive" /\ calls[c].company = {}
          /\ \E w \in WalletIds : IsPrimary(w)
          /\ \E w \in WalletIds : IsLive(w)')
         => \E w \in WalletIds : IsPrimary(w)']_wvars
===============================================================================
