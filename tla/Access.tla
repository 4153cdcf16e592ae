------------------------------- MODULE Access -------------------------------
(***************************************************************************)
(* Who a request acts for: AuthService.resolve in src/lib/auth/service.ts, *)
(* which maps a session of the identity provider Privy to a user, and the  *)
(* OAuth server of src/lib/mcp, which turns such a session into a code,    *)
(* the code into a token, and the token of an MCP request into a user.     *)
(*                                                                         *)
(* A statement that others can come between is a step.  The transaction    *)
(* that synchronises the accounts of a user is several: its rows are       *)
(* locked as it goes and visible when it commits.                          *)
(*                                                                         *)
(* Users, codes and tokens are named by the call that created them.  A     *)
(* user has the one workspace it was created with; nothing in the code     *)
(* adds a member to another.                                               *)
(***************************************************************************)
EXTENDS Naturals

CONSTANTS
    Calls,      \* requests
    Privy,      \* Privy users, and the identities (privy_user) that name them
    Linked,     \* accounts (privy_google, privy_wallet) Privy may link to its users
    Google,     \* those with an email, which is theirs alone
    NoUser,     \* null, for users, codes and subjects
    NoPrivy     \* null, for Privy users

ASSUME NullAssumption ==
    /\ NoUser \notin Calls \cup Privy \cup Linked
    /\ NoPrivy \notin Privy
    /\ Calls \cap (Privy \cup Linked) = {}
    /\ Privy \cap Linked = {}
    /\ Google \subseteq Linked

VARIABLES
    accounts,   \* accounts[i]: the user of identity i in identity_accounts
    emails,     \* emails[u]: the account whose email user u was created with
    users,      \* the rows of users, each with its workspace and membership
    linked,     \* linked[a]: the Privy user that Privy links a to
    owners,     \* owners[a]: the Privy users a was ever linked to
    codes,      \* codes[c]: the authorization code that call c created
    tokens,     \* tokens[c]: the access token that call c was given
    call        \* call[c]: where call c is, and what it holds in memory

vars == <<accounts, emails, users, linked, owners, codes, tokens, call>>

-------------------------------------------------------------------------------
(* Types.                                                                  *)

Identities == Privy \cup Linked
Users == Calls
Subjects == Users \cup Privy \cup Linked

Code == [status : {"none", "open", "consumed"}, expired : BOOLEAN,
         subject : Subjects \cup {NoUser}, user : Users \cup {NoUser}]

Token == [code : Calls \cup {NoUser}, subject : Subjects \cup {NoUser},
          user : Users \cup {NoUser}]

\* session is what the session says Privy links to did; held are the rows that
\* the transaction of the call has locked, stale those it is going to delete;
\* token is what an exchange has read or an MCP request carries.
CallState ==
    [pc : {"start", "read", "create", "reread", "upsert", "commit", "context", "code",
           "consume", "sign", "lookup", "member", "done", "used", "unlinked", "failed"},
     op : {"none", "web", "authorize", "exchange", "mcp"},
     did : Privy \cup {NoPrivy}, session : SUBSET Linked,
     user : Users \cup {NoUser}, held : SUBSET Identities, stale : SUBSET Linked,
     error : {"none", "duplicate", "other"}, token : Token]

\* TYPE INVARIANT.
TypeOK ==
    /\ accounts \in [Identities -> Users \cup {NoUser}]
    /\ emails \in [Users -> Google \cup {NoUser}]
    /\ users \in SUBSET Users
    /\ linked \in [Linked -> Privy \cup {NoPrivy}]
    /\ owners \in [Linked -> SUBSET Privy]
    /\ codes \in [Calls -> Code]
    /\ tokens \in [Calls -> Token]
    /\ call \in [Calls -> CallState]

NoToken == [code |-> NoUser, subject |-> NoUser, user |-> NoUser]

NoCode == [status |-> "none", expired |-> FALSE, subject |-> NoUser, user |-> NoUser]

Unstarted == [pc |-> "start", op |-> "none", did |-> NoPrivy, session |-> {},
              user |-> NoUser, held |-> {}, stale |-> {}, error |-> "none",
              token |-> NoToken]

Init ==
    /\ accounts = [i \in Identities |-> NoUser]
    /\ emails = [u \in Users |-> NoUser]
    /\ users = {}
    /\ linked = [a \in Linked |-> NoPrivy]
    /\ owners = [a \in Linked |-> {}]
    /\ codes = [c \in Calls |-> NoCode]
    /\ tokens = [c \in Calls |-> NoToken]
    /\ call = [c \in Calls |-> Unstarted]

-------------------------------------------------------------------------------
(* Helpers.                                                                *)

At(c, step) == call[c].pc = step
Go(c, step) == call' = [call EXCEPT ![c].pc = step]

Over(c) == call[c].pc \in {"done", "used", "unlinked", "failed"}

\* An error leaves no locks.
Thrown(c, end) == [call EXCEPT ![c].pc = end, ![c].held = {}, ![c].stale = {}]
Throw(c) == call' = Thrown(c, "failed")

\* The identities of a session, with the one of its Privy user.
IdentitiesOf(c) == {call[c].did} \cup call[c].session

\* The users whose identities the session names.
MatchedUsers(c) == {accounts[i] : i \in IdentitiesOf(c)} \ {NoUser}

\* No other transaction has locked the row of identity i.
Unlocked(c, i) == \A d \in Calls \ {c} : i \notin call[d].held

EmailIsTaken(a) == \E u \in users : emails[u] = a

\* Slips a change of the code could make, kept for mutation checking.
AllStale(c) == {i \in Identities \ IdentitiesOf(c) : accounts[i] = call[c].user}
Overwritten(c) == [i \in Identities |-> IF i \in call[c].held THEN call[c].user ELSE accounts[i]]
IdentityLater(c) == accounts
AnyCode(code) == TRUE

\* INSERT ... ON CONFLICT DO UPDATE leaves the user of an existing row alone.
Inserted(c) ==
    [i \in Identities |->
        IF i \in call[c].held /\ accounts[i] = NoUser THEN call[c].user ELSE accounts[i]]

\* The accounts of the user that its session does not name; the identity of the
\* Privy user itself is never stale.
StaleAccounts(c) == {a \in Linked \ call[c].session : accounts[a] = call[c].user}

\* The last row of a creation.
FirstIdentity(c) == [accounts EXCEPT ![call[c].did] = c]

Consumable(code) == code.status = "open"

-------------------------------------------------------------------------------
(* AuthService.synchronizeIdentity, and resolve.                           *)

\* verifyWebSession: what Privy links to its user now, or did when the token of
\* the session was made: a call may stay here for long.
Start(c, op, p) ==
    /\ At(c, "start")
    /\ call' = [call EXCEPT ![c] = [Unstarted EXCEPT
                  !.pc = "read", !.op = op, !.did = p,
                  !.session = {a \in Linked : linked[a] = p}]]
    /\ UNCHANGED <<accounts, emails, users, linked, owners, codes, tokens>>

\* The SELECT of the identities: they may name one user, none, or several.
Read(c) ==
    /\ At(c, "read")
    /\ \/ /\ MatchedUsers(c) = {}
          /\ Go(c, "create")
       \/ \E u \in Users :
            /\ MatchedUsers(c) = {u}
            /\ call' = [call EXCEPT ![c].pc = "upsert", ![c].user = u]
       \/ /\ \E u, v \in MatchedUsers(c) : u # v
          /\ Throw(c)
    /\ UNCHANGED <<accounts, emails, users, linked, owners, codes, tokens>>

\* The transaction that makes a user, its workspace, its membership and its
\* first identity.  Its COMMIT may succeed and yet report an error.
Create(c) ==
    /\ At(c, "create")
    /\ accounts[call[c].did] = NoUser /\ Unlocked(c, call[c].did)
    /\ \E email \in IF call[c].session \cap Google = {} THEN {NoUser}
                    ELSE call[c].session \cap Google :
         /\ email # NoUser => ~EmailIsTaken(email)
         /\ emails' = [emails EXCEPT ![c] = email]
    /\ users' = users \cup {c}
    /\ accounts' = FirstIdentity(c)
    /\ \/ call' = [call EXCEPT ![c].pc = "upsert", ![c].user = c]
       \/ call' = [call EXCEPT ![c].pc = "reread", ![c].error = "other"]
    /\ UNCHANGED <<linked, owners, codes, tokens>>

\* A unique index stops it, of emails or of identities, or any other error.
CreateFails(c) ==
    /\ At(c, "create")
    /\ \/ /\ \E a \in call[c].session \cap Google : EmailIsTaken(a)
          /\ call' = [call EXCEPT ![c].pc = "reread", ![c].error = "duplicate"]
       \/ call' = [call EXCEPT ![c].pc = "reread", ![c].error = "other"]
    /\ UNCHANGED <<accounts, emails, users, linked, owners, codes, tokens>>

\* The winner of a concurrent creation made the user; without one the error
\* is thrown again.
Reread(c) ==
    /\ At(c, "reread")
    /\ IF accounts[call[c].did] = NoUser
         THEN Throw(c)
         ELSE call' = [call EXCEPT ![c].pc = "upsert", ![c].error = "none",
                                   ![c].user = accounts[call[c].did]]
    /\ UNCHANGED <<accounts, emails, users, linked, owners, codes, tokens>>

\* One upsert of the transaction that follows, that of the Privy user first. It
\* waits for a row that another one has locked.
Upsert(c, i) ==
    /\ At(c, "upsert")
    /\ i \in IdentitiesOf(c) \ call[c].held
    /\ i # call[c].did => call[c].did \in call[c].held
    /\ Unlocked(c, i)
    /\ call' = [call EXCEPT ![c].held = @ \cup {i}]
    /\ UNCHANGED <<accounts, emails, users, linked, owners, codes, tokens>>

\* Its SELECT of the accounts of the user, which sees what has been committed.
SelectStale(c) ==
    /\ At(c, "upsert")
    /\ IdentitiesOf(c) = call[c].held
    /\ call' = [call EXCEPT ![c].pc = "commit", ![c].stale = StaleAccounts(c)]
    /\ UNCHANGED <<accounts, emails, users, linked, owners, codes, tokens>>

\* Its DELETE, which waits for locked rows, and its COMMIT.
Commit(c) ==
    /\ At(c, "commit")
    /\ \A a \in call[c].stale : Unlocked(c, a)
    /\ accounts' = [i \in Identities |->
                      IF i \in call[c].stale /\ accounts[i] = call[c].user THEN NoUser
                      ELSE Inserted(c)[i]]
    /\ \E end \in {"context", "failed"} : call' = Thrown(c, end)
    /\ UNCHANGED <<emails, users, linked, owners, codes, tokens>>

\* The membership in the requested workspace, or in the user's own.
Context(c) ==
    /\ At(c, "context")
    /\ \/ Go(c, IF call[c].op = "authorize" THEN "code" ELSE "done")
       \/ Throw(c)
    /\ UNCHANGED <<accounts, emails, users, linked, owners, codes, tokens>>

-------------------------------------------------------------------------------
(* The OAuth server.                                                       *)

\* authorize: the subject is that of the first identity of the context, which
\* leaves out the one of the Privy user.  A code that was stored and never
\* delivered is as good as none.
CreateCode(c) ==
    /\ At(c, "code")
    /\ \E subject \in IF call[c].session = {} THEN {call[c].user} ELSE call[c].session :
         codes' = [codes EXCEPT ![c] = [status |-> "open", expired |-> FALSE,
                                        subject |-> subject, user |-> call[c].user]]
    /\ Go(c, "done")
    /\ UNCHANGED <<accounts, emails, users, linked, owners, tokens>>

\* exchangeAuthorizationCode up to its checks of time, client and verifier.
Exchange(c, k) ==
    /\ At(c, "start")
    /\ codes[k].status # "none"
    /\ LET begun == [Unstarted EXCEPT !.op = "exchange",
                       !.token = [code |-> k, subject |-> codes[k].subject,
                                  user |-> codes[k].user]]
       IN call' = [call EXCEPT ![c] = [begun EXCEPT !.pc =
                     IF ~Consumable(codes[k]) THEN "used"
                     ELSE IF codes[k].expired THEN "failed" ELSE "consume"]]
    /\ UNCHANGED <<accounts, emails, users, linked, owners, codes, tokens>>

\* The guarded UPDATE.
Consume(c) ==
    /\ At(c, "consume")
    /\ LET k == call[c].token.code
       IN IF Consumable(codes[k])
            THEN /\ codes' = [codes EXCEPT ![k].status = "consumed"]
                 /\ \E end \in {"sign", "failed"} : Go(c, end)
            ELSE Go(c, "used") /\ UNCHANGED codes
    /\ UNCHANGED <<accounts, emails, users, linked, owners, tokens>>

Sign(c) ==
    /\ At(c, "sign")
    /\ tokens' = [tokens EXCEPT ![c] = call[c].token]
    /\ Go(c, "done")
    /\ UNCHANGED <<accounts, emails, users, linked, owners, codes>>

\* McpOAuthService.resolve with a token of this server, or with one of another
\* issuer, whose subject is a Privy user and whose workspace any user's.
StartMcp(c, token) ==
    /\ At(c, "start")
    /\ token.subject # NoUser
    /\ call' = [call EXCEPT ![c] = [Unstarted EXCEPT !.pc = "lookup", !.op = "mcp",
                                                     !.token = token]]
    /\ UNCHANGED <<accounts, emails, users, linked, owners, codes, tokens>>

\* The subject is looked up among the identities of Privy users.
Lookup(c) ==
    /\ At(c, "lookup")
    /\ LET subject == call[c].token.subject
       IN IF subject \in Privy /\ accounts[subject] # NoUser
            THEN call' = [call EXCEPT ![c].pc = "member", ![c].user = accounts[subject]]
            ELSE Go(c, "unlinked")
    /\ UNCHANGED <<accounts, emails, users, linked, owners, codes, tokens>>

\* The membership in the workspace that the token names.
Member(c) ==
    /\ At(c, "member")
    /\ IF call[c].token.user = call[c].user THEN Go(c, "done") ELSE Throw(c)
    /\ UNCHANGED <<accounts, emails, users, linked, owners, codes, tokens>>

-------------------------------------------------------------------------------
(* The environment.                                                        *)

\* Any statement may fail, and any process die.  A creation that fails is
\* CreateFails.
Error(c) ==
    /\ ~Over(c) /\ ~At(c, "start")
    /\ call' = [Thrown(c, "failed") EXCEPT ![c].error = "other"]
    /\ UNCHANGED <<accounts, emails, users, linked, owners, codes, tokens>>

\* Privy links an account to one of its users at a time.
Link(a, p) ==
    /\ linked[a] = NoPrivy
    /\ linked' = [linked EXCEPT ![a] = p]
    /\ owners' = [owners EXCEPT ![a] = @ \cup {p}]
    /\ UNCHANGED <<accounts, emails, users, codes, tokens, call>>

Unlink(a) ==
    /\ linked[a] # NoPrivy
    /\ linked' = [linked EXCEPT ![a] = NoPrivy]
    /\ UNCHANGED <<accounts, emails, users, owners, codes, tokens, call>>

Expire(k) ==
    /\ codes[k].status # "none" /\ ~codes[k].expired
    /\ codes' = [codes EXCEPT ![k].expired = TRUE]
    /\ UNCHANGED <<accounts, emails, users, linked, owners, tokens, call>>

Next ==
    \/ \E c \in Calls :
         \/ \E op \in {"web", "authorize"}, p \in Privy : Start(c, op, p)
         \/ Read(c) \/ Create(c) \/ CreateFails(c) \/ Reread(c)
         \/ \E i \in Identities : Upsert(c, i)
         \/ SelectStale(c) \/ Commit(c) \/ Context(c) \/ CreateCode(c)
         \/ \E k \in Calls : Exchange(c, k)
         \/ Consume(c) \/ Sign(c)
         \/ \E k \in Calls : StartMcp(c, tokens[k])
         \/ \E p \in Privy, u \in Users :
              StartMcp(c, [code |-> NoUser, subject |-> p, user |-> u])
         \/ Lookup(c) \/ Member(c) \/ Error(c)
    \/ \E a \in Linked : Unlink(a) \/ \E p \in Privy : Link(a, p)
    \/ \E k \in Calls : Expire(k)

Spec == Init /\ [][Next]_vars

-------------------------------------------------------------------------------
(* Properties.                                                             *)

\* Requests that a session of a Privy user, or an MCP token of that user, was
\* resolved for.
Resolved(c) == call[c].user # NoUser /\ call[c].pc \in {"code", "done"}

\* The account has only ever been linked to one Privy user.
NeverMoved(a) == \A p, q \in owners[a] : p = q

Settled(c) == \A a \in call[c].session : NeverMoved(a)

\* All requests of one Privy user act for one internal user, also when its first
\* sessions race, and the MCP server agrees with the web.  Only a session that
\* brings an account which was another Privy user's before is resolved to
\* whoever still has that account.
OneUserPerPrivyUser ==
    \A c, d \in Calls :
        /\ Resolved(c) /\ Resolved(d)
        /\ call[c].op \in {"web", "authorize"} /\ Settled(c)
        /\ \/ call[d].op \in {"web", "authorize"} /\ Settled(d) /\ call[d].did = call[c].did
           \/ call[d].op = "mcp" /\ call[d].token.subject = call[c].did
        => call[d].user = call[c].user

\* No creation, however it fails or races, leaves a user that no Privy user can
\* sign in as.
NoOrphanUsers == \A u \in users : \E p \in Privy : accounts[p] = u

\* A Privy user keeps the internal user it has, whatever accounts come and go and
\* whoever else signs in with them.
PrivyUserKeepsUser ==
    [][\A p \in Privy : accounts[p] # NoUser => accounts'[p] = accounts[p]]_vars

\* A code yields at most one token, however many exchanges race for it.
CodeIsUsedOnce ==
    \A c, d \in Calls :
        (tokens[c].code # NoUser /\ tokens[c].code = tokens[d].code) => c = d

\* An exchange is told that the code was used only if another exchange consumed
\* it: no retry of a client is refused because of its own earlier checks.
UsedCodeWasConsumed ==
    \A c \in Calls : At(c, "used") =>
        /\ codes[call[c].token.code].status = "consumed"
        /\ \E d \in Calls \ {c} :
             /\ call[d].op = "exchange" /\ call[d].pc \in {"sign", "done", "failed"}
             /\ call[d].token.code = call[c].token.code

\* A token that this server has issued is accepted as the one of a user.
IssuedTokensAreLinked ==
    \A c \in Calls : At(c, "unlinked") => call[c].token.code = NoUser
===============================================================================
